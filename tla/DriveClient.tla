----------------------------- MODULE DriveClient -----------------------------
(***************************************************************************)
(* The client every Drive request goes through (drive/client.rs,           *)
(* utils/retry.rs) and the login it uses (auth.rs).  Tasks of one process  *)
(* share the pacing slots, the lock token_refresh and the token file.      *)
(*                                                                         *)
(*  - Time passes in pacing intervals (Tick); a task may be late.          *)
(*  - An access token is TRUE if Drive accepts it.  A refresh token is     *)
(*    "current", "spent" (the server has replaced it), "former" (of a      *)
(*    login before the last setup) or "none".                              *)
(*  - Requests have no timeout in the code: that Drive and the token       *)
(*    server answer, or the connection breaks, is assumed by Fairness.     *)
(***************************************************************************)
EXTENDS Integers, Sequences, FiniteSets

CONSTANTS
  Tasks,       \* concurrent callers of DriveClient::request
  MaxRetries   \* RetryConfig::max_retries

ASSUME ClientAssumption ==
  /\ IsFiniteSet(Tasks)
  /\ MaxRetries \in Nat

RefreshTokens == {"current", "spent", "former", "none"}

VARIABLES
  at,        \* where each task is
  attempt,   \* failed attempts of its call
  again,     \* it sends after a refusal (401)
  wait,      \* intervals until its slot
  bearer,    \* its access token: does Drive accept it
  copy,      \* the refresh token it has loaded, or got
  ahead,     \* TokenBucket.last, in intervals from now
  line,      \* token_refresh: the holder, then those who wait in order
  file,      \* the token file
  level,     \* history: requests sent, one less with every interval
  lost,      \* history: a new refresh token was not saved
  replaced   \* history: a setup was overtaken by a refresh of the former login

task == <<at, attempt, again, wait, bearer, copy>>
history == <<level, lost, replaced>>
vars == <<task, ahead, line, file, history>>

Init ==
  /\ at = [t \in Tasks |-> "idle"]
  /\ attempt = [t \in Tasks |-> 0]
  /\ again = [t \in Tasks |-> FALSE]
  /\ wait = [t \in Tasks |-> 0]
  /\ bearer = [t \in Tasks |-> FALSE]
  /\ copy = [t \in Tasks |-> "none"]
  /\ ahead = 0 /\ line = <<>>
  /\ file = [refresh |-> "current", access |-> TRUE, usable |-> TRUE]
  /\ level = 0 /\ lost = FALSE /\ replaced = FALSE

Goto(t, place) == at' = [at EXCEPT ![t] = place]
Forget(t) == copy' = [copy EXCEPT ![t] = "none"]
Holds(t) == line # <<>> /\ Head(line) = t
LeaveLine(t) == line' = IF Holds(t) THEN Tail(line) ELSE line

-----------------------------------------------------------------------------
(* Attempts                                                                *)

Call(t) ==
  /\ at[t] = "idle" /\ Goto(t, "pace")
  /\ attempt' = [attempt EXCEPT ![t] = 0]
  /\ again' = [again EXCEPT ![t] = FALSE]
  /\ UNCHANGED <<wait, bearer, copy, ahead, line, file, history>>

\* The call returns, with an answer or an error. (attempt and again are reset
\* by the next call; doing it here keeps states few.)
Return(t) ==
  /\ Goto(t, "idle") /\ Forget(t)
  /\ attempt' = [attempt EXCEPT ![t] = 0]
  /\ again' = [again EXCEPT ![t] = FALSE]
  /\ bearer' = [bearer EXCEPT ![t] = FALSE]

\* Wrong: an error keeps the lock.
FailHolding(t) ==
  /\ IF attempt[t] < MaxRetries
     THEN /\ Goto(t, "backoff") /\ Forget(t)
          /\ attempt' = [attempt EXCEPT ![t] = @ + 1]
          /\ again' = [again EXCEPT ![t] = FALSE]
          /\ bearer' = [bearer EXCEPT ![t] = FALSE]
     ELSE Return(t)
  /\ UNCHANGED <<line, wait>>

\* Wrong: attempts are not counted.
FailUncounted(t) ==
  /\ Goto(t, "backoff") /\ Forget(t) /\ LeaveLine(t)
  /\ again' = [again EXCEPT ![t] = FALSE]
  /\ bearer' = [bearer EXCEPT ![t] = FALSE]
  /\ UNCHANGED <<attempt, wait>>

\* retry_with_backoff: an error of an attempt. Whatever the attempt held is
\* dropped.
Fail(t) ==
  /\ IF attempt[t] < MaxRetries
     THEN /\ Goto(t, "backoff") /\ Forget(t)
          /\ attempt' = [attempt EXCEPT ![t] = @ + 1]
          /\ again' = [again EXCEPT ![t] = FALSE]
          /\ bearer' = [bearer EXCEPT ![t] = FALSE]
     ELSE Return(t)
  /\ LeaveLine(t)
  /\ UNCHANGED wait

Retry(t) ==
  /\ at[t] = "backoff" /\ Goto(t, "pace")
  /\ UNCHANGED <<attempt, again, wait, bearer, copy, ahead, line, file, history>>

-----------------------------------------------------------------------------
(* Pacing                                                                  *)

\* Wrong: the slot is not reserved.
PaceUnreserved(t) ==
  /\ at[t] = "pace" /\ Goto(t, "sleep")
  /\ wait' = [wait EXCEPT ![t] = ahead]
  /\ ahead' = IF ahead = 0 THEN 1 ELSE ahead
  /\ UNCHANGED <<attempt, again, bearer, copy, line, file, history>>

\* pace_limiter takes the next slot and the one after it becomes the next.
Pace(t) ==
  /\ at[t] = "pace" /\ Goto(t, "sleep")
  /\ wait' = [wait EXCEPT ![t] = ahead]
  /\ ahead' = ahead + 1
  /\ UNCHANGED <<attempt, again, bearer, copy, line, file, history>>

\* Its slot has come: the task asks for the lock, or already has its token.
Wake(t) ==
  /\ at[t] = "sleep" /\ wait[t] = 0
  /\ IF again[t] THEN Goto(t, "send") /\ UNCHANGED line
     ELSE Goto(t, "token") /\ line' = Append(line, t)
  /\ UNCHANGED <<attempt, again, wait, bearer, copy, ahead, file, history>>

Down(n) == IF n = 0 THEN 0 ELSE n - 1

Tick ==
  /\ ahead' = Down(ahead)
  /\ wait' = [t \in Tasks |-> Down(wait[t])]
  /\ level' = Down(level)
  /\ UNCHANGED <<at, attempt, again, bearer, copy, line, file, lost, replaced>>

-----------------------------------------------------------------------------
(* Tokens                                                                  *)

\* get_access_token, with the lock: the stored token if it is usable.
UseStored(t) ==
  /\ at[t] = "token" /\ Holds(t) /\ file.usable
  /\ bearer' = [bearer EXCEPT ![t] = file.access]
  /\ Goto(t, "send") /\ LeaveLine(t)
  /\ UNCHANGED <<attempt, again, wait, copy, ahead, file, history>>

\* Wrong: the lock is not taken.
LoadUnlocked(t) ==
  /\ \/ at[t] = "token" /\ ~file.usable
     \/ at[t] = "renew"
  /\ IF file.refresh = "none" THEN Fail(t)
     ELSE /\ Goto(t, "exchange")
          /\ copy' = [copy EXCEPT ![t] = file.refresh]
          /\ UNCHANGED <<attempt, again, wait, bearer, line>>
  /\ UNCHANGED <<ahead, file, history>>

\* Otherwise, and always in refresh_access_token, its refresh token is to be
\* exchanged.
Load(t) ==
  /\ Holds(t)
  /\ \/ at[t] = "token" /\ ~file.usable
     \/ at[t] = "renew"
  /\ IF file.refresh = "none" THEN Fail(t)
     ELSE /\ Goto(t, "exchange")
          /\ copy' = [copy EXCEPT ![t] = file.refresh]
          /\ UNCHANGED <<attempt, again, wait, bearer, line>>
  /\ UNCHANGED <<ahead, file, history>>

\* The token file cannot be read or parsed.
LoadFails(t) ==
  /\ Holds(t) /\ at[t] \in {"token", "renew"}
  /\ Fail(t)
  /\ UNCHANGED <<ahead, file, history>>

\* What a refresh token is once the server has replaced it, or a setup has.
Spent(r) == IF r = "current" THEN "spent" ELSE r
Former(r) == IF r = "none" THEN r ELSE "former"

\* Wrong: a refresh token the answer does not repeat is dropped.
KeptNever(r) == "none"

\* An answer without a refresh token leaves the one it was asked with.
Kept(r) == r

\* The server answers, with a new refresh token, which replaces the one it was
\* asked with, or without one; it refuses a spent one.
Answered(t) ==
  /\ copy[t] # "spent" /\ Goto(t, "save")
  /\ bearer' = [bearer EXCEPT ![t] = TRUE]
  /\ \/ copy' = [copy EXCEPT ![t] = Kept(@)] /\ UNCHANGED file
     \/ /\ copy' = [x \in Tasks |-> IF x = t THEN copy[t]
                                   ELSE IF copy[t] = "current" THEN Spent(copy[x])
                                   ELSE copy[x]]
        /\ file' = IF copy[t] = "current" THEN [file EXCEPT !.refresh = Spent(@)]
                   ELSE file
  /\ UNCHANGED <<attempt, again, wait, line, lost>>

\* It refuses, or the connection breaks, after the exchange perhaps.
Unanswered(t) ==
  /\ Fail(t)
  /\ \/ UNCHANGED <<file, lost>>
     \/ /\ copy[t] = "current" /\ lost' = TRUE
        /\ file' = [file EXCEPT !.refresh = Spent(@)]

\* refresh_loaded_token, its request.
Exchange(t) ==
  /\ at[t] = "exchange"
  /\ Answered(t) \/ Unanswered(t)
  /\ UNCHANGED <<ahead, level, replaced>>

\* save_token: a staged file is renamed over the old one, or nothing happens.
Save(t) ==
  /\ at[t] = "save"
  /\ \/ /\ file' = [refresh |-> copy[t], access |-> bearer[t], usable |-> TRUE]
        /\ replaced' = (replaced \/ (copy[t] = "former" /\ file.refresh = "current"))
        /\ Goto(t, IF again[t] THEN "pace" ELSE "send")
        /\ Forget(t) /\ LeaveLine(t)
        /\ UNCHANGED <<attempt, again, wait, bearer, lost>>
     \/ /\ Fail(t)
        /\ lost' = (lost \/ (copy[t] = "current" /\ file.refresh # "current"))
        /\ UNCHANGED <<file, replaced>>
  /\ UNCHANGED <<ahead, level>>

-----------------------------------------------------------------------------
(* Requests                                                                *)

\* A 401 makes the task renew the token and send once more; a second one goes
\* to the caller, as does every status but 429 and 503, which are errors like a
\* broken connection.
Send(t) ==
  /\ at[t] = "send"
  /\ level' = level + 1
  /\ \/ /\ bearer[t] \/ again[t]
        /\ Return(t) /\ UNCHANGED <<wait, line>>
     \/ /\ ~bearer[t] /\ ~again[t]
        /\ Goto(t, "renew") /\ line' = Append(line, t)
        /\ again' = [again EXCEPT ![t] = TRUE]
        /\ UNCHANGED <<attempt, wait, bearer, copy>>
     \/ Fail(t)
  /\ UNCHANGED <<ahead, file, lost, replaced>>

-----------------------------------------------------------------------------
(* What happens around the client                                          *)

\* The stored token comes within a minute of its expiry.
Expire ==
  /\ file.usable /\ file' = [file EXCEPT !.usable = FALSE]
  /\ UNCHANGED <<task, ahead, line, history>>

\* Drive accepts no access token issued so far: they have expired, by its
\* clock, or were revoked.
Revoke ==
  /\ bearer' = [t \in Tasks |-> FALSE]
  /\ file' = [file EXCEPT !.access = FALSE]
  /\ UNCHANGED <<at, attempt, again, wait, copy, ahead, line, history>>

\* `oxidrive setup` in a process of its own, which knows nothing of the lock.
\* Google may grant it no refresh token.
Setup ==
  /\ \E r \in {"current", "none"} :
       /\ file' = [refresh |-> r, access |-> TRUE, usable |-> TRUE]
       /\ lost' = (r = "none")
  /\ replaced' = FALSE
  /\ copy' = [t \in Tasks |-> Former(copy[t])]
  /\ UNCHANGED <<at, attempt, again, wait, bearer, ahead, line, level>>

\* The process dies and is started again.
Crash ==
  /\ at' = [t \in Tasks |-> "idle"] /\ attempt' = [t \in Tasks |-> 0]
  /\ again' = [t \in Tasks |-> FALSE] /\ wait' = [t \in Tasks |-> 0]
  /\ bearer' = [t \in Tasks |-> FALSE] /\ copy' = [t \in Tasks |-> "none"]
  /\ ahead' = 0 /\ line' = <<>> /\ level' = 0
  /\ lost' = (lost \/ (file.refresh # "current"
                       /\ \E t \in Tasks : at[t] = "save" /\ copy[t] = "current"))
  /\ UNCHANGED <<file, replaced>>

Step(t) ==
  \/ Retry(t) \/ Pace(t) \/ Wake(t)
  \/ UseStored(t) \/ Load(t) \/ LoadFails(t) \/ Exchange(t) \/ Save(t)
  \/ Send(t)

Next ==
  \/ \E t \in Tasks : Call(t) \/ Step(t)
  \/ Tick \/ Expire \/ Revoke \/ Setup \/ Crash

Spec == Init /\ [][Next]_vars

\* Tasks are run, sleeps end, and every request that was sent is answered or
\* fails.
Fairness == WF_vars(Tick) /\ \A t \in Tasks : WF_vars(Step(t))

FairSpec == Spec /\ Fairness

-----------------------------------------------------------------------------
(* Properties                                                              *)

\* Every variable keeps its type; no task fails more often than it may; and
\* the tasks in the line are those that want, or have, the lock, each once.
TypeOK ==
  /\ at \in [Tasks -> {"idle", "backoff", "pace", "sleep", "token", "renew",
                       "exchange", "save", "send"}]
  /\ attempt \in [Tasks -> 0..MaxRetries]
  /\ again \in [Tasks -> BOOLEAN] /\ wait \in [Tasks -> Nat]
  /\ bearer \in [Tasks -> BOOLEAN] /\ copy \in [Tasks -> RefreshTokens]
  /\ ahead \in Nat /\ level \in Nat
  /\ file \in [refresh : RefreshTokens, access : BOOLEAN, usable : BOOLEAN]
  /\ lost \in BOOLEAN /\ replaced \in BOOLEAN
  /\ line \in Seq(Tasks)
  /\ \A i, j \in 1..Len(line) : line[i] = line[j] => i = j
  /\ {line[i] : i \in 1..Len(line)} =
       {t \in Tasks : at[t] \in {"token", "renew", "exchange", "save"}}

\* Over any stretch of time the client sends one request per interval, one more
\* for every task (which may have waited for the lock with its slot in hand),
\* and the one that is due: slots that no two tasks share, however the tasks
\* sleep, wait, fail and retry.
RateLimited == level <= Cardinality(Tasks) + 1

\* "concurrent Drive requests do not rotate the same refresh token twice"
\* (auth.rs, token_refresh): nobody asks the server with a refresh token that
\* another task has already exchanged, unless the new one was never saved.
RotatedOnce ==
  \A t \in Tasks : at[t] = "exchange" /\ copy[t] = "spent" => lost

\* The login of the last setup stays in the token file, or in the hands of the
\* task that is about to save it, whatever expires, is refused or fails: as
\* long as Google granted one, no answer that replaced it was lost before it
\* was saved, and no refresh of the login before overtook the setup.
LoginKept ==
  \/ file.refresh = "current" \/ lost \/ replaced
  \/ \E t \in Tasks : at[t] = "save" /\ copy[t] = "current"

\* Every call returns: no task starves behind the lock or its slot.
CallsEnd == \A t \in Tasks : at[t] # "idle" ~> at[t] = "idle"
=============================================================================
