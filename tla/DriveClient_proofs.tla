------------------------- MODULE DriveClient_proofs -------------------------
(***************************************************************************)
(* Theorems about DriveClient, for any finite set of tasks and any number  *)
(* of retries.                                                             *)
(*                                                                         *)
(* The login is kept because one task at a time has it in hand: whoever    *)
(* exchanges or saves holds the lock, and what it has loaded is still what *)
(* the file says, unless a setup has come between.  The rate is limited    *)
(* because every slot ahead of now has a sleeping task of its own.         *)
(***************************************************************************)
EXTENDS DriveClient, FiniteSetTheorems, TLAPS

Locking == {"token", "renew", "exchange", "save"}

\* The line, with its last conjunct by task.
LineOK ==
  /\ line \in Seq(Tasks)
  /\ \A i, j \in 1..Len(line) : line[i] = line[j] => i = j
  /\ \A t \in Tasks : at[t] \in Locking <=> \E i \in 1..Len(line) : line[i] = t

\* Every other variable.
Typed ==
  /\ at \in [Tasks -> {"idle", "backoff", "pace", "sleep", "token", "renew",
                       "exchange", "save", "send"}]
  /\ attempt \in [Tasks -> 0..MaxRetries]
  /\ again \in [Tasks -> BOOLEAN] /\ wait \in [Tasks -> Nat]
  /\ bearer \in [Tasks -> BOOLEAN] /\ copy \in [Tasks -> RefreshTokens]
  /\ ahead \in Nat /\ level \in Nat
  /\ file \in [refresh : RefreshTokens, access : BOOLEAN, usable : BOOLEAN]
  /\ lost \in BOOLEAN /\ replaced \in BOOLEAN

\* The lock, and what its holder has loaded or got.
Locked ==
  \A t \in Tasks :
    /\ at[t] \in {"exchange", "save"} => Holds(t)
    /\ at[t] \notin {"exchange", "save"} => copy[t] = "none"
    /\ at[t] = "exchange" =>
         /\ copy[t] # "none"
         /\ copy[t] = file.refresh \/ copy[t] = "former"
         /\ copy[t] = "spent" => lost
    /\ at[t] = "save" =>
         /\ copy[t] \in {"current", "former"}
         /\ copy[t] = "current" => file.refresh \in {"current", "spent"}

Saving == \E t \in Tasks : at[t] = "save" /\ copy[t] = "current"

\* Why the file may hold another refresh token than the current one.
Login ==
  \/ file.refresh = "current"
  \/ lost
  \/ file.refresh = "former" /\ replaced
  \/ file.refresh = "spent" /\ Saving

IInv == Typed /\ LineOK /\ Locked /\ Login

\* The tasks with a slot they have not used, and the sleeping ones among them.
Slots ==
  {t \in Tasks : \/ at[t] \in {"sleep", "token", "send"}
                 \/ at[t] \in {"exchange", "save"} /\ ~again[t]}
Sleeping == {t \in Tasks : at[t] = "sleep" /\ wait[t] \in 1..(ahead - 1)}

\* No more slots are used and in hand than there are tasks and slots ahead.
RInv ==
  /\ level + Cardinality(Slots) <= Cardinality(Tasks) + ahead
  /\ \A k \in 1..(ahead - 1) : \E t \in Tasks : at[t] = "sleep" /\ wait[t] = k
  /\ \A t \in Tasks : at[t] = "renew" => again[t]

-----------------------------------------------------------------------------
(* Steps that several actions have.                                        *)

\* What a failed attempt leaves.
LEMMA Failing ==
  ASSUME Typed, NEW t \in Tasks, Fail(t)
  PROVE  /\ \E place \in {"backoff", "idle"} : at' = [at EXCEPT ![t] = place]
         /\ attempt' \in [Tasks -> 0..MaxRetries]
         /\ again' = [again EXCEPT ![t] = FALSE]
         /\ bearer' = [bearer EXCEPT ![t] = FALSE]
         /\ copy' = [copy EXCEPT ![t] = "none"]
         /\ wait' = wait
         /\ line' = IF Holds(t) THEN Tail(line) ELSE line
<1>1. CASE attempt[t] < MaxRetries
  <2>1. attempt[t] + 1 \in 0..MaxRetries
    BY <1>1, ClientAssumption DEF Typed
  <2>2. attempt' = [attempt EXCEPT ![t] = @ + 1]
    BY <1>1 DEF Fail
  <2>3. attempt' \in [Tasks -> 0..MaxRetries]
    BY <2>1, <2>2 DEF Typed
  <2>. QED BY <1>1, <2>3 DEF Fail, Goto, Forget, LeaveLine
<1>2. CASE ~(attempt[t] < MaxRetries)
  <2>1. 0 \in 0..MaxRetries
    BY ClientAssumption
  <2>2. attempt' \in [Tasks -> 0..MaxRetries]
    BY <1>2, <2>1 DEF Typed, Fail, Return
  <2>. QED BY <1>2, <2>2 DEF Fail, Return, Goto, Forget, LeaveLine
<1>. QED BY <1>1, <1>2

\* The holder leaves the line.
LEMMA Leaving ==
  ASSUME LineOK, NEW t \in Tasks, Holds(t), LeaveLine(t),
         NEW place, place \notin Locking, Typed, at' = [at EXCEPT ![t] = place]
  PROVE  LineOK'
<1>1. /\ line \in Seq(Tasks) /\ line # <<>> /\ line[1] = t
      /\ line' = Tail(line)
  BY DEF LineOK, Holds, LeaveLine
<1>2. /\ line' \in Seq(Tasks) /\ Len(line') = Len(line) - 1 /\ Len(line) \in Nat
      /\ \A i \in 1..Len(line') : line'[i] = line[i + 1]
  BY <1>1
<1>3. \A i, j \in 1..Len(line') : line'[i] = line'[j] => i = j
  <2>. SUFFICES ASSUME NEW i \in 1..Len(line'), NEW j \in 1..Len(line'),
                       line'[i] = line'[j]
                PROVE  i = j
    OBVIOUS
  <2>1. i + 1 \in 1..Len(line) /\ j + 1 \in 1..Len(line)
    BY <1>2
  <2>2. line[i + 1] = line[j + 1]
    BY <1>2
  <2>3. i + 1 = j + 1
    BY <2>1, <2>2 DEF LineOK
  <2>. QED BY <2>3, <1>2
<1>4. ASSUME NEW x \in Tasks
      PROVE  at'[x] \in Locking <=> \E i \in 1..Len(line') : line'[i] = x
  <2>1. CASE x = t
    <3>1. at'[x] \notin Locking
      BY <2>1 DEF Typed
    <3>2. ASSUME NEW i \in 1..Len(line'), line'[i] = x PROVE FALSE
      <4>1. line[i + 1] = line[1] /\ i + 1 \in 1..Len(line) /\ 1 \in 1..Len(line)
        BY <1>1, <1>2, <2>1, <3>2
      <4>2. i + 1 = 1
        BY <4>1 DEF LineOK
      <4>. QED BY <4>2, <1>2
    <3>. QED BY <3>1, <3>2
  <2>2. CASE x # t
    <3>1. at'[x] = at[x]
      BY <2>2 DEF Typed
    <3>2. ASSUME NEW i \in 1..Len(line), line[i] = x
          PROVE  \E j \in 1..Len(line') : line'[j] = x
      <4>1. i # 1
        BY <1>1, <2>2, <3>2
      <4>2. i - 1 \in 1..Len(line') /\ (i - 1) + 1 = i
        BY <4>1, <1>2
      <4>3. line'[i - 1] = line[(i - 1) + 1]
        BY <4>2, <1>2
      <4>. QED BY <4>2, <4>3, <3>2
    <3>3. ASSUME NEW j \in 1..Len(line'), line'[j] = x
          PROVE  \E i \in 1..Len(line) : line[i] = x
      <4>1. j + 1 \in 1..Len(line) /\ line[j + 1] = x
        BY <1>2, <3>3
      <4>. QED BY <4>1
    <3>. QED BY <3>1, <3>2, <3>3 DEF LineOK
  <2>. QED BY <2>1, <2>2
<1>. QED BY <1>2, <1>3, <1>4 DEF LineOK

\* A task joins the end of the line.
LEMMA Joining ==
  ASSUME LineOK, Typed, NEW t \in Tasks, at[t] \notin Locking,
         NEW place \in Locking, at' = [at EXCEPT ![t] = place],
         line' = Append(line, t)
  PROVE  LineOK'
<1>1. /\ line' \in Seq(Tasks) /\ Len(line') = Len(line) + 1 /\ Len(line) \in Nat
      /\ \A i \in 1..Len(line) : line'[i] = line[i]
      /\ line'[Len(line) + 1] = t
  BY DEF LineOK
<1>2. \A i \in 1..Len(line) : line[i] # t
  BY DEF LineOK
<1>3. \A i \in 1..Len(line') : i \in 1..Len(line) \/ i = Len(line) + 1
  BY <1>1
<1>4. \A i, j \in 1..Len(line') : line'[i] = line'[j] => i = j
  BY <1>1, <1>2, <1>3 DEF LineOK
<1>5. ASSUME NEW x \in Tasks
      PROVE  at'[x] \in Locking <=> \E i \in 1..Len(line') : line'[i] = x
  <2>1. CASE x = t
    <3>1. Len(line) + 1 \in 1..Len(line')
      BY <1>1
    <3>. QED BY <3>1, <2>1, <1>1 DEF Typed
  <2>2. CASE x # t
    <3>1. at'[x] = at[x]
      BY <2>2 DEF Typed
    <3>2. \A i \in 1..Len(line) : i \in 1..Len(line')
      BY <1>1
    <3>. QED BY <3>1, <3>2, <2>2, <1>1, <1>3 DEF LineOK
  <2>. QED BY <2>1, <2>2
<1>. QED BY <1>1, <1>4, <1>5 DEF LineOK

\* A task that moves without touching the line is, or is not, in it as before.
LEMMA Staying ==
  ASSUME LineOK, Typed, NEW t \in Tasks, NEW place,
         at' = [at EXCEPT ![t] = place], line' = line,
         at[t] \in Locking <=> place \in Locking
  PROVE  LineOK'
<1>1. \A x \in Tasks : at'[x] \in Locking <=> at[x] \in Locking
  BY DEF Typed
<1>. QED BY <1>1 DEF LineOK

\* The line changes with a failure as it should: whoever fails holds the lock
\* or is not in the line.
LEMMA FailingLine ==
  ASSUME LineOK, Typed, NEW t \in Tasks, Fail(t),
         Holds(t) \/ at[t] \notin Locking
  PROVE  LineOK'
<1>1. PICK place \in {"backoff", "idle"} : at' = [at EXCEPT ![t] = place]
  BY Failing
<1>2. place \notin Locking
  BY DEF Locking
<1>3. CASE Holds(t)
  BY <1>1, <1>2, <1>3, Failing, Leaving DEF LeaveLine
<1>4. CASE ~Holds(t)
  BY <1>1, <1>2, <1>4, Failing, Staying
<1>. QED BY <1>3, <1>4

\* Nobody else is past the lock while a task holds it.
LEMMA OneHolder ==
  ASSUME Locked, NEW t \in Tasks, Holds(t)
  PROVE  \A x \in Tasks \ {t} : at[x] \notin {"exchange", "save"}
BY DEF Locked, Holds

\* A holder still holds the lock when a task joins.
LEMMA HolderStays ==
  ASSUME LineOK, NEW t \in Tasks, NEW x \in Tasks, Holds(x), line' = Append(line, t)
  PROVE  Holds(x)'
<1>1. line \in Seq(Tasks) /\ Len(line) \in Nat /\ line # <<>> /\ line[1] = x
  BY DEF LineOK, Holds
<1>2. line' # <<>> /\ line'[1] = x
  BY <1>1
<1>. QED BY <1>2 DEF Holds

-----------------------------------------------------------------------------
(* The lock and the login.                                                 *)

\* A failed attempt keeps the invariant: the holder takes nothing with it that
\* is not lost.
LEMMA FailingStep ==
  ASSUME IInv, NEW t \in Tasks, Fail(t), Holds(t) \/ at[t] \notin Locking,
         UNCHANGED ahead, level' \in Nat, UNCHANGED replaced, lost' \in BOOLEAN,
         lost => lost',
         \/ UNCHANGED file
         \/ file' = [file EXCEPT !.refresh = Spent(@)] /\ lost' /\ Holds(t),
         at[t] = "save" /\ copy[t] = "current" => lost' \/ file'.refresh = "current"
  PROVE  IInv'
<1>. USE DEF IInv
<1>1. PICK place \in {"backoff", "idle"} : at' = [at EXCEPT ![t] = place]
  BY Failing
<1>2. Typed'
  <2>1. file' \in [refresh : RefreshTokens, access : BOOLEAN, usable : BOOLEAN]
    BY DEF Typed, RefreshTokens, Spent
  <2>. QED BY <1>1, <2>1, Failing DEF Typed, RefreshTokens
<1>3. LineOK'
  BY FailingLine
<1>4. copy' = [copy EXCEPT ![t] = "none"]
  BY Failing
<1>5. \A x \in Tasks \ {t} : at'[x] = at[x] /\ copy'[x] = copy[x]
  BY <1>1, <1>4 DEF Typed
<1>6. at'[t] = place /\ copy'[t] = "none"
  BY <1>1, <1>4 DEF Typed
<1>7. Locked'
  <2>1. CASE Holds(t)
    <3>1. \A x \in Tasks \ {t} : at[x] \notin {"exchange", "save"}
      BY <2>1, OneHolder
    <3>. QED BY <3>1, <1>5, <1>6 DEF Locked
  <2>2. CASE ~Holds(t)
    <3>1. line' = line /\ file' = file
      BY <2>2, Failing
    <3>. QED BY <3>1, <1>5, <1>6 DEF Locked, Holds
  <2>. QED BY <2>1, <2>2
<1>8. Login'
  <2>1. CASE lost'
    BY <2>1 DEF Login
  <2>2. CASE ~lost' /\ Saving
    <3>1. PICK x \in Tasks : at[x] = "save" /\ copy[x] = "current"
      BY <2>2 DEF Saving
    <3>2. CASE x = t
      BY <3>1, <3>2, <2>2 DEF Login
    <3>3. CASE x # t
      <4>1. Saving'
        BY <3>1, <3>3, <1>5 DEF Saving
      <4>. QED BY <4>1, <2>2 DEF Login
    <3>. QED BY <3>2, <3>3
  <2>3. CASE ~lost' /\ ~Saving
    BY <2>3 DEF Login
  <2>. QED BY <2>1, <2>2, <2>3
<1>. QED BY <1>2, <1>3, <1>7, <1>8

\* The invariant needs no more of a step outside the lock than that it moves
\* one task, or none, between places outside it.
LEMMA OutsideStep ==
  ASSUME IInv, NEW t \in Tasks, NEW place, Typed', UNCHANGED <<file, lost, replaced, copy>>,
         at' = [at EXCEPT ![t] = place],
         \/ line' = line /\ at[t] \notin Locking /\ place \notin Locking
         \/ line' = Append(line, t) /\ at[t] \notin Locking /\ place \in {"token", "renew"}
  PROVE  IInv'
<1>. USE DEF IInv
<1>1. LineOK'
  <2>1. CASE line' = line /\ at[t] \notin Locking /\ place \notin Locking
    BY <2>1, Staying
  <2>2. CASE line' = Append(line, t) /\ at[t] \notin Locking /\ place \in {"token", "renew"}
    BY <2>2, Joining DEF Locking
  <2>. QED BY <2>1, <2>2
<1>2. \A x \in Tasks \ {t} : at'[x] = at[x]
  BY DEF Typed
<1>3. at'[t] = place /\ at'[t] \notin {"exchange", "save"}
      /\ at[t] \notin {"exchange", "save"}
  BY DEF Typed, Locking
<1>4. \A x \in Tasks : Holds(x) => Holds(x)'
  <2>1. CASE line' = line
    BY <2>1 DEF Holds
  <2>2. CASE line' = Append(line, t)
    BY <2>2, HolderStays
  <2>. QED BY <2>1, <2>2
<1>5. Locked'
  BY <1>2, <1>3, <1>4 DEF Locked
<1>6. Saving => Saving'
  BY <1>2, <1>3 DEF Saving
<1>7. Login'
  BY <1>6 DEF Login
<1>. QED BY <1>1, <1>5, <1>7

LEMMA InitStep == Init => IInv
<1>. SUFFICES ASSUME Init PROVE IInv
  OBVIOUS
<1>1. Typed
  <2>1. 0 \in 0..MaxRetries
    BY ClientAssumption
  <2>. QED BY <2>1 DEF Init, Typed, RefreshTokens
<1>2. LineOK
  <2>1. line = <<>> /\ line \in Seq(Tasks) /\ Len(line) = 0
    BY DEF Init
  <2>. QED BY <2>1 DEF Init, LineOK, Locking
<1>3. Locked /\ Login
  BY DEF Init, Locked, Login
<1>. QED BY <1>1, <1>2, <1>3 DEF IInv

\* A task's own steps.
LEMMA TaskStep ==
  ASSUME IInv, NEW t \in Tasks, Call(t) \/ Step(t)
  PROVE  IInv'
<1>. USE DEF IInv
<1>1. CASE Call(t)
  <2>1. Typed'
    BY <1>1, ClientAssumption DEF Call, Goto, Typed, history
  <2>. QED BY <2>1, <1>1, OutsideStep DEF Call, Goto, history, Locking
<1>2. CASE Retry(t)
  <2>1. Typed'
    BY <1>2 DEF Retry, Goto, Typed, history
  <2>. QED BY <2>1, <1>2, OutsideStep DEF Retry, Goto, history, Locking
<1>3. CASE Pace(t)
  <2>1. Typed'
    BY <1>3 DEF Pace, Goto, Typed, history
  <2>. QED BY <2>1, <1>3, OutsideStep DEF Pace, Goto, history, Locking
<1>4. CASE Wake(t)
  <2>1. Typed'
    BY <1>4 DEF Wake, Goto, Typed, history
  <2>2. CASE again[t]
    BY <2>1, <2>2, <1>4, OutsideStep DEF Wake, Goto, history, Locking
  <2>3. CASE ~again[t]
    BY <2>1, <2>3, <1>4, OutsideStep DEF Wake, Goto, history, Locking
  <2>. QED BY <2>2, <2>3
<1>5. CASE UseStored(t)
  <2>1. Typed'
    BY <1>5 DEF UseStored, Goto, Typed, history
  <2>2. LineOK'
    BY <1>5, Leaving DEF UseStored, Goto, Locking
  <2>3. at' = [at EXCEPT ![t] = "send"] /\ UNCHANGED <<file, lost, replaced, copy>>
    BY <1>5 DEF UseStored, Goto, history
  <2>4. \A x \in Tasks \ {t} : at[x] \notin {"exchange", "save"}
    BY <1>5, OneHolder DEF UseStored
  <2>5. at[t] = "token"
    BY <1>5 DEF UseStored
  <2>6. Locked' /\ (Saving <=> Saving')
    BY <2>3, <2>4, <2>5 DEF Locked, Saving, Typed
  <2>7. Login'
    BY <2>3, <2>6 DEF Login
  <2>. QED BY <2>1, <2>2, <2>6, <2>7
<1>6. CASE Load(t)
  <2>1. Holds(t) /\ at[t] \in {"token", "renew"}
        /\ UNCHANGED <<ahead, file, level, lost, replaced>>
    BY <1>6 DEF Load, history
  <2>2. CASE file.refresh = "none"
    <3>1. Fail(t)
      BY <1>6, <2>2 DEF Load
    <3>. QED BY <2>1, <3>1, FailingStep DEF Typed
  <2>3. CASE file.refresh # "none"
    <3>1. /\ at' = [at EXCEPT ![t] = "exchange"]
          /\ copy' = [copy EXCEPT ![t] = file.refresh]
          /\ UNCHANGED <<attempt, again, wait, bearer, line>>
      BY <1>6, <2>3 DEF Load, Goto
    <3>2. Typed'
      BY <2>1, <3>1 DEF Typed
    <3>3. LineOK'
      BY <2>1, <3>1, Staying DEF Locking
    <3>4. \A x \in Tasks \ {t} : at[x] \notin {"exchange", "save"}
      BY <2>1, OneHolder
    <3>5. ~Saving
      BY <2>1, <3>4 DEF Saving
    <3>6. Locked'
      BY <2>1, <2>3, <3>1, <3>4, <3>5 DEF Locked, Login, Holds, Typed, RefreshTokens
    <3>7. Login'
      BY <2>1, <3>5 DEF Login
    <3>. QED BY <3>2, <3>3, <3>6, <3>7
  <2>. QED BY <2>2, <2>3
<1>7. CASE Exchange(t)
  <2>1. /\ Holds(t) /\ at[t] = "exchange" /\ UNCHANGED <<ahead, level, replaced>>
        /\ copy[t] \in {"current", "spent", "former"}
        /\ copy[t] = file.refresh \/ copy[t] = "former"
    BY <1>7 DEF Exchange, Locked, Typed, RefreshTokens
  <2>2. \A x \in Tasks \ {t} : at[x] \notin {"exchange", "save"} /\ copy[x] = "none"
    BY <2>1, OneHolder DEF Locked
  <2>3. CASE Answered(t)
    <3>1. /\ at' = [at EXCEPT ![t] = "save"] /\ bearer' = [bearer EXCEPT ![t] = TRUE]
          /\ copy[t] # "spent" /\ UNCHANGED <<attempt, again, wait, line, lost>>
      BY <2>3 DEF Answered, Goto
    <3>2. /\ copy' = copy
          /\ \/ UNCHANGED file
             \/ copy[t] = "current" /\ file' = [file EXCEPT !.refresh = Spent(@)]
      <4>1. CASE copy' = [copy EXCEPT ![t] = Kept(@)] /\ UNCHANGED file
        BY <4>1 DEF Kept, Typed
      <4>2. CASE /\ copy' = [x \in Tasks |-> IF x = t THEN copy[t]
                                   ELSE IF copy[t] = "current" THEN Spent(copy[x])
                                   ELSE copy[x]]
                 /\ file' = IF copy[t] = "current" THEN [file EXCEPT !.refresh = Spent(@)]
                            ELSE file
        <5>1. \A x \in Tasks : copy'[x] = copy[x]
          BY <4>2, <2>2 DEF Spent
        <5>2. copy' = copy
          BY <4>2, <5>1 DEF Typed
        <5>. QED BY <4>2, <5>2
      <4>. QED BY <4>1, <4>2, <2>3 DEF Answered
    <3>3. file' \in [refresh : RefreshTokens, access : BOOLEAN, usable : BOOLEAN]
      BY <3>2 DEF Typed, RefreshTokens, Spent
    <3>4. Typed'
      BY <2>1, <3>1, <3>2, <3>3 DEF Typed
    <3>5. LineOK'
      BY <2>1, <3>1, Staying DEF Locking
    <3>6. copy[t] = "current" => file'.refresh \in {"current", "spent"}
      BY <2>1, <3>1, <3>2 DEF Typed, Spent
    <3>7. Locked'
      BY <2>1, <2>2, <3>1, <3>2, <3>6 DEF Locked, Holds, Typed
    <3>8. ~Saving
      BY <2>1, <2>2 DEF Saving
    <3>9. copy[t] = "current" => Saving'
      BY <3>1, <3>2 DEF Saving, Typed
    <3>10. Login'
      BY <2>1, <3>1, <3>2, <3>6, <3>8, <3>9 DEF Login
    <3>. QED BY <3>4, <3>5, <3>7, <3>10
  <2>4. CASE Unanswered(t)
    <3>1. Fail(t) /\ lost' \in BOOLEAN /\ (lost => lost')
      <4>1. Fail(t)
        BY <2>4 DEF Unanswered
      <4>2. lost' = lost \/ lost' = TRUE
        BY <2>4 DEF Unanswered
      <4>. QED BY <4>1, <4>2 DEF Typed
    <3>2. \/ UNCHANGED file
          \/ file' = [file EXCEPT !.refresh = Spent(@)] /\ lost'
      BY <2>4 DEF Unanswered
    <3>. QED BY <2>1, <3>1, <3>2, FailingStep DEF Typed
  <2>. QED BY <2>3, <2>4, <1>7 DEF Exchange
<1>8. CASE Save(t)
  <2>1. /\ Holds(t) /\ at[t] = "save" /\ UNCHANGED <<ahead, level>>
        /\ copy[t] \in {"current", "former"}
        /\ copy[t] = "current" => file.refresh \in {"current", "spent"}
    BY <1>8 DEF Save, Locked
  <2>2. \A x \in Tasks \ {t} : at[x] \notin {"exchange", "save"} /\ copy[x] = "none"
    BY <2>1, OneHolder DEF Locked
  <2>3. CASE /\ file' = [refresh |-> copy[t], access |-> bearer[t], usable |-> TRUE]
             /\ replaced' = (replaced \/ (copy[t] = "former" /\ file.refresh = "current"))
             /\ Goto(t, IF again[t] THEN "pace" ELSE "send")
             /\ Forget(t) /\ LeaveLine(t)
             /\ UNCHANGED <<attempt, again, wait, bearer, lost>>
    <3>1. PICK place \in {"pace", "send"} : at' = [at EXCEPT ![t] = place]
      BY <2>3 DEF Goto
    <3>2. copy' = [copy EXCEPT ![t] = "none"]
      BY <2>3 DEF Forget
    <3>3. replaced' \in BOOLEAN
      BY <2>3
    <3>4. file' \in [refresh : RefreshTokens, access : BOOLEAN, usable : BOOLEAN]
      BY <2>3 DEF Typed
    <3>5. /\ line' \in Seq(Tasks) => TRUE
          /\ UNCHANGED <<attempt, again, wait, bearer, lost>>
      BY <2>3
    <3>6. Typed'
      BY <2>1, <3>1, <3>2, <3>3, <3>4, <3>5 DEF Typed, RefreshTokens
    <3>7. LineOK'
      <4>1. place \notin Locking
        BY DEF Locking
      <4>. QED BY <2>1, <2>3, <3>1, <4>1, Leaving
    <3>8. Locked'
      BY <2>2, <3>1, <3>2 DEF Locked, Typed
    <3>9. Login'
      <4>1. CASE copy[t] = "current"
        BY <4>1, <2>3 DEF Login
      <4>2. CASE copy[t] = "former"
        <5>1. ~Saving
          BY <4>2, <2>2 DEF Saving
        <5>2. file.refresh = "current" \/ lost \/ replaced
          BY <5>1 DEF Login
        <5>. QED BY <4>2, <5>2, <2>3 DEF Login
      <4>. QED BY <4>1, <4>2, <2>1
    <3>. QED BY <3>6, <3>7, <3>8, <3>9
  <2>4. CASE /\ Fail(t)
             /\ lost' = (lost \/ (copy[t] = "current" /\ file.refresh # "current"))
             /\ UNCHANGED <<file, replaced>>
    <3>1. lost' \in BOOLEAN /\ (lost => lost')
      BY <2>4
    <3>2. copy[t] = "current" => lost' \/ file'.refresh = "current"
      BY <2>4
    <3>. QED BY <2>1, <2>4, <3>1, <3>2, FailingStep DEF Typed
  <2>. QED BY <2>3, <2>4, <1>8 DEF Save
<1>9. CASE Send(t)
  <2>1. at[t] = "send" /\ level' = level + 1 /\ level' \in Nat
        /\ UNCHANGED <<ahead, file, lost, replaced>>
    BY <1>9 DEF Send, Typed
  <2>2. copy[t] = "none"
    BY <2>1 DEF Locked
  <2>3. CASE Return(t) /\ UNCHANGED <<wait, line>>
    <3>1. at' = [at EXCEPT ![t] = "idle"] /\ copy' = copy
      BY <2>2, <2>3 DEF Return, Goto, Forget, Typed
    <3>2. 0 \in 0..MaxRetries
      BY ClientAssumption
    <3>3. Typed'
      BY <2>1, <2>3, <3>1, <3>2 DEF Typed, Return
    <3>. QED BY <2>1, <2>3, <3>1, <3>3, OutsideStep DEF Locking
  <2>4. CASE /\ Goto(t, "renew") /\ line' = Append(line, t)
             /\ again' = [again EXCEPT ![t] = TRUE]
             /\ UNCHANGED <<attempt, wait, bearer, copy>>
    <3>1. Typed'
      BY <2>1, <2>4 DEF Typed, Goto
    <3>. QED BY <2>1, <2>4, <3>1, OutsideStep DEF Goto, Locking
  <2>5. CASE Fail(t)
    BY <2>1, <2>5, FailingStep DEF Typed, Locking
  <2>. QED BY <1>9, <2>3, <2>4, <2>5 DEF Send
<1>10. CASE LoadFails(t)
  <2>1. Holds(t) /\ Fail(t) /\ UNCHANGED <<ahead, file, level, lost, replaced>>
    BY <1>10 DEF LoadFails, history
  <2>2. at[t] # "save"
    BY <1>10 DEF LoadFails
  <2>. QED BY <2>1, <2>2, FailingStep DEF Typed
<1>. QED BY <1>1, <1>2, <1>3, <1>4, <1>5, <1>6, <1>7, <1>8, <1>9, <1>10 DEF Step

\* What happens around the client.
LEMMA OtherStep ==
  ASSUME IInv, Tick \/ Expire \/ Revoke \/ Setup \/ Crash \/ UNCHANGED vars
  PROVE  IInv'
<1>. USE DEF IInv
<1>1. CASE Tick
  <2>1. \A n \in Nat : Down(n) \in Nat
    BY DEF Down
  <2>2. Typed'
    BY <1>1, <2>1 DEF Tick, Typed
  <2>3. UNCHANGED <<at, copy, line, file, lost, replaced>>
    BY <1>1 DEF Tick
  <2>. QED BY <2>2, <2>3 DEF LineOK, Locked, Login, Saving, Holds
<1>2. CASE Expire
  <2>1. /\ file' = [file EXCEPT !.usable = FALSE]
        /\ UNCHANGED <<at, attempt, again, wait, bearer, copy, ahead, line, level,
                       lost, replaced>>
    BY <1>2 DEF Expire, task, history
  <2>2. Typed' /\ file'.refresh = file.refresh
    BY <2>1 DEF Typed
  <2>. QED BY <2>1, <2>2 DEF LineOK, Locked, Login, Saving, Holds
<1>3. CASE Revoke
  <2>1. /\ file' = [file EXCEPT !.access = FALSE] /\ bearer' = [t \in Tasks |-> FALSE]
        /\ UNCHANGED <<at, attempt, again, wait, copy, ahead, line, level,
                       lost, replaced>>
    BY <1>3 DEF Revoke, history
  <2>2. Typed' /\ file'.refresh = file.refresh
    BY <2>1 DEF Typed
  <2>. QED BY <2>1, <2>2 DEF LineOK, Locked, Login, Saving, Holds
<1>4. CASE Setup
  <2>1. PICK r \in {"current", "none"} :
          /\ file' = [refresh |-> r, access |-> TRUE, usable |-> TRUE]
          /\ lost' = (r = "none")
    BY <1>4 DEF Setup
  <2>2. /\ copy' = [t \in Tasks |-> Former(copy[t])] /\ replaced' = FALSE
        /\ UNCHANGED <<at, attempt, again, wait, bearer, ahead, line, level>>
    BY <1>4 DEF Setup
  <2>3. Typed'
    <3>1. file' \in [refresh : RefreshTokens, access : BOOLEAN, usable : BOOLEAN]
      BY <2>1 DEF RefreshTokens
    <3>2. lost' \in BOOLEAN
      BY <2>1
    <3>3. copy' \in [Tasks -> RefreshTokens]
      BY <2>2 DEF Typed, Former, RefreshTokens
    <3>. QED BY <2>2, <3>1, <3>2, <3>3 DEF Typed
  <2>4. LineOK'
    BY <2>2 DEF LineOK
  <2>5. \A t \in Tasks : /\ copy[t] = "none" => copy'[t] = "none"
                         /\ copy[t] # "none" => copy'[t] = "former"
    BY <2>2 DEF Former
  <2>6. Locked'
    BY <2>2, <2>5 DEF Locked, Holds
  <2>7. Login'
    BY <2>1 DEF Login
  <2>. QED BY <2>3, <2>4, <2>6, <2>7
<1>5. CASE Crash
  <2>1. /\ at' = [t \in Tasks |-> "idle"] /\ copy' = [t \in Tasks |-> "none"]
        /\ attempt' = [t \in Tasks |-> 0] /\ again' = [t \in Tasks |-> FALSE]
        /\ wait' = [t \in Tasks |-> 0] /\ bearer' = [t \in Tasks |-> FALSE]
        /\ ahead' = 0 /\ line' = <<>> /\ level' = 0 /\ UNCHANGED <<file, replaced>>
        /\ lost' = (lost \/ (file.refresh # "current" /\ Saving))
    BY <1>5 DEF Crash, Saving
  <2>2. lost' \in BOOLEAN
    BY <2>1 DEF Typed, Saving
  <2>3. Typed'
    BY <2>1, <2>2, ClientAssumption DEF Typed, RefreshTokens
  <2>4. LineOK'
    <3>1. line' \in Seq(Tasks) /\ Len(line') = 0
      BY <2>1
    <3>. QED BY <2>1, <3>1 DEF LineOK, Locking
  <2>5. Locked'
    BY <2>1 DEF Locked
  <2>6. Login'
    BY <2>1 DEF Login
  <2>. QED BY <2>3, <2>4, <2>5, <2>6
<1>6. CASE UNCHANGED vars
  BY <1>6 DEF vars, task, history, Typed, LineOK, Locked, Login, Saving, Holds
<1>. QED BY <1>1, <1>2, <1>3, <1>4, <1>5, <1>6

\* The inductive invariant: types, the line, the lock with what its holder has
\* in hand, and the reasons for which the file may not hold the login.
THEOREM Invariance == Spec => []IInv
<1>1. IInv /\ [Next]_vars => IInv'
  BY TaskStep, OtherStep DEF Next
<1>. QED BY <1>1, InitStep, PTL DEF Spec

\* Every variable of the client keeps its type, and the line is what the lock
\* makes of it.
THEOREM TypeCorrect == Spec => []TypeOK
<1>1. IInv => TypeOK
  <2>. SUFFICES ASSUME IInv PROVE TypeOK
    OBVIOUS
  <2>1. {line[i] : i \in 1..Len(line)} =
          {t \in Tasks : at[t] \in {"token", "renew", "exchange", "save"}}
    <3>1. \A i \in 1..Len(line) : line[i] \in Tasks
      BY DEF IInv, LineOK
    <3>. QED BY <3>1 DEF IInv, LineOK, Locking
  <2>. QED BY <2>1 DEF IInv, Typed, LineOK, TypeOK
<1>. QED BY <1>1, Invariance, PTL

\* No task asks the token server with a refresh token that another task has
\* already exchanged, for any number of concurrent requests, unless the new one
\* was never saved.
THEOREM ExchangedOnce == Spec => []RotatedOnce
<1>1. IInv => RotatedOnce
  BY DEF IInv, Locked, RotatedOnce
<1>. QED BY <1>1, Invariance, PTL

\* The login of the last setup is in the file or about to be, but for the three
\* named reasons.
THEOREM LoginStays == Spec => []LoginKept
<1>1. IInv => LoginKept
  BY DEF IInv, Login, LoginKept, Saving
<1>. QED BY <1>1, Invariance, PTL

-----------------------------------------------------------------------------
(* The rate.                                                               *)

\* Slots are those of tasks, of which there are finitely many.
LEMMA SlotsFinite ==
  /\ IsFiniteSet(Tasks) /\ Cardinality(Tasks) \in Nat
  /\ IsFiniteSet(Slots) /\ Cardinality(Slots) \in Nat
  /\ Cardinality(Slots) <= Cardinality(Tasks)
<1>1. IsFiniteSet(Tasks) /\ Slots \in SUBSET Tasks
  BY ClientAssumption DEF Slots
<1>2. IsFiniteSet(Slots) /\ Cardinality(Slots) <= Cardinality(Tasks)
  BY <1>1, FS_Subset
<1>. QED BY <1>1, <1>2, FS_CardinalityType

\* Of two finite sets of slots, the smaller is not the larger.
LEMMA FewerSlots ==
  ASSUME Slots' \subseteq Slots
  PROVE  Cardinality(Slots') \in Nat /\ Cardinality(Slots') <= Cardinality(Slots)
<1>1. IsFiniteSet(Slots)
  BY SlotsFinite
<1>2. IsFiniteSet(Slots') /\ Cardinality(Slots') <= Cardinality(Slots)
  BY <1>1, FS_Subset
<1>. QED BY <1>2, FS_CardinalityType

\* A step of a task that does not sleep, takes no slot and sends nothing.
LEMMA QuietStep ==
  ASSUME Typed, RInv, NEW t \in Tasks, NEW place, at' = [at EXCEPT ![t] = place],
         at[t] # "sleep", place # "sleep", UNCHANGED <<ahead, level, wait>>,
         again' = again \/ again' = [again EXCEPT ![t] = FALSE],
         Slots' \subseteq Slots,
         place = "renew" => again'[t]
  PROVE  RInv'
<1>1. Cardinality(Slots') \in Nat /\ Cardinality(Slots') <= Cardinality(Slots)
  BY FewerSlots
<1>2. level' + Cardinality(Slots') <= Cardinality(Tasks) + ahead'
  BY <1>1, SlotsFinite DEF RInv, Typed
<1>3. \A k \in 1..(ahead' - 1) : \E x \in Tasks : at'[x] = "sleep" /\ wait'[x] = k
  BY DEF RInv, Typed
<1>4. \A x \in Tasks : at'[x] = "renew" => again'[x]
  BY DEF RInv, Typed
<1>. QED BY <1>2, <1>3, <1>4 DEF RInv

\* A failed attempt is such a step, when it sends nothing.
LEMMA QuietFailure ==
  ASSUME Typed, RInv, NEW t \in Tasks, Fail(t), at[t] # "sleep",
         UNCHANGED <<ahead, level>>
  PROVE  RInv'
<1>1. PICK place \in {"backoff", "idle"} : at' = [at EXCEPT ![t] = place]
  BY Failing
<1>2. wait' = wait /\ again' = [again EXCEPT ![t] = FALSE]
  BY Failing
<1>3. Slots' \subseteq Slots
  BY <1>1, <1>2 DEF Slots, Typed
<1>. QED BY <1>1, <1>2, <1>3, QuietStep

\* A task takes the next slot.
LEMMA PaceStep ==
  ASSUME Typed, RInv, NEW t \in Tasks, Pace(t)
  PROVE  RInv'
<1>1. /\ at[t] = "pace" /\ at' = [at EXCEPT ![t] = "sleep"]
      /\ wait' = [wait EXCEPT ![t] = ahead] /\ ahead' = ahead + 1
      /\ again' = again /\ level' = level
  BY DEF Pace, Goto, history
<1>2. Cardinality(Slots') \in Nat /\ Cardinality(Slots') <= Cardinality(Slots) + 1
  <2>1. Slots' = Slots \cup {t}
    BY <1>1 DEF Slots, Typed
  <2>. QED BY <2>1, SlotsFinite, FS_AddElement
<1>3. level' + Cardinality(Slots') <= Cardinality(Tasks) + ahead'
  BY <1>1, <1>2, SlotsFinite DEF RInv, Typed
<1>4. ASSUME NEW k \in 1..(ahead' - 1)
      PROVE  \E x \in Tasks : at'[x] = "sleep" /\ wait'[x] = k
  <2>1. CASE k = ahead
    BY <2>1, <1>1 DEF Typed
  <2>2. CASE k # ahead
    <3>1. k \in 1..(ahead - 1)
      BY <2>2, <1>1 DEF Typed
    <3>2. PICK x \in Tasks : at[x] = "sleep" /\ wait[x] = k
      BY <3>1 DEF RInv
    <3>. QED BY <3>2, <1>1 DEF Typed
  <2>. QED BY <2>1, <2>2
<1>5. \A x \in Tasks : at'[x] = "renew" => again'[x]
  BY <1>1 DEF RInv, Typed
<1>. QED BY <1>3, <1>4, <1>5 DEF RInv

\* An interval passes: every sleeping task comes one nearer.
LEMMA TickStep ==
  ASSUME Typed, RInv, Tick
  PROVE  RInv'
<1>1. /\ ahead' = Down(ahead) /\ wait' = [t \in Tasks |-> Down(wait[t])]
      /\ level' = Down(level) /\ at' = at /\ again' = again
  BY DEF Tick
<1>2. Slots' = Slots
  BY <1>1 DEF Slots
<1>3. level' + Cardinality(Slots') <= Cardinality(Tasks) + ahead'
  BY <1>1, <1>2, SlotsFinite DEF RInv, Typed, Down
<1>4. ASSUME NEW k \in 1..(ahead' - 1)
      PROVE  \E x \in Tasks : at'[x] = "sleep" /\ wait'[x] = k
  <2>1. k + 1 \in 1..(ahead - 1)
    BY <1>1 DEF Typed, Down
  <2>2. PICK x \in Tasks : at[x] = "sleep" /\ wait[x] = k + 1
    BY <2>1 DEF RInv
  <2>. QED BY <2>2, <1>1 DEF Down
<1>. QED BY <1>1, <1>3, <1>4 DEF RInv

\* A request is sent: its task has used its slot.
LEMMA SendStep ==
  ASSUME Typed, RInv, NEW t \in Tasks, Send(t)
  PROVE  RInv'
<1>1. at[t] = "send" /\ level' = level + 1 /\ ahead' = ahead
  BY DEF Send
<1>2. PICK place \in {"idle", "backoff", "renew"} :
        /\ at' = [at EXCEPT ![t] = place] /\ wait' = wait
        /\ \/ again' = [again EXCEPT ![t] = FALSE] /\ place # "renew"
           \/ again' = [again EXCEPT ![t] = TRUE]
  <2>1. CASE Return(t) /\ UNCHANGED <<wait, line>>
    BY <2>1 DEF Return, Goto
  <2>2. CASE Goto(t, "renew") /\ again' = [again EXCEPT ![t] = TRUE] /\ UNCHANGED wait
    BY <2>2 DEF Goto
  <2>3. CASE Fail(t)
    BY <2>3, Failing
  <2>. QED BY <2>1, <2>2, <2>3 DEF Send
<1>3. Cardinality(Slots') \in Nat /\ Cardinality(Slots') + 1 <= Cardinality(Slots)
  <2>1. Slots' = Slots \ {t} /\ t \in Slots
    BY <1>1, <1>2 DEF Slots, Typed
  <2>2. Cardinality(Slots \ {t}) = Cardinality(Slots) - 1
        /\ IsFiniteSet(Slots \ {t})
    BY <2>1, SlotsFinite, FS_RemoveElement
  <2>. QED BY <2>1, <2>2, SlotsFinite, FS_CardinalityType
<1>4. level' + Cardinality(Slots') <= Cardinality(Tasks) + ahead'
  BY <1>1, <1>3, SlotsFinite DEF RInv, Typed
<1>5. \A k \in 1..(ahead' - 1) : \E x \in Tasks : at'[x] = "sleep" /\ wait'[x] = k
  BY <1>1, <1>2 DEF RInv, Typed
<1>6. \A x \in Tasks : at'[x] = "renew" => again'[x]
  BY <1>2 DEF RInv, Typed
<1>. QED BY <1>4, <1>5, <1>6 DEF RInv

\* Every step keeps the slots in order.
LEMMA RateStep ==
  ASSUME IInv, RInv, [Next]_vars
  PROVE  RInv'
<1>. USE DEF IInv
<1>1. ASSUME NEW t \in Tasks, Call(t) \/ Step(t) PROVE RInv'
  <2>1. CASE Call(t)
    <3>1. /\ at[t] = "idle" /\ at' = [at EXCEPT ![t] = "pace"]
          /\ again' = [again EXCEPT ![t] = FALSE] /\ UNCHANGED <<ahead, level, wait>>
      BY <2>1 DEF Call, Goto, history
    <3>2. Slots' \subseteq Slots
      BY <3>1 DEF Slots, Typed
    <3>. QED BY <3>1, <3>2, QuietStep
  <2>2. CASE Retry(t)
    <3>1. /\ at[t] = "backoff" /\ at' = [at EXCEPT ![t] = "pace"]
          /\ UNCHANGED <<ahead, level, wait, again>>
      BY <2>2 DEF Retry, Goto, history
    <3>2. Slots' \subseteq Slots
      BY <3>1 DEF Slots, Typed
    <3>. QED BY <3>1, <3>2, QuietStep
  <2>3. CASE Wake(t)
    <3>1. PICK place \in {"send", "token"} :
            /\ at[t] = "sleep" /\ wait[t] = 0 /\ at' = [at EXCEPT ![t] = place]
            /\ UNCHANGED <<ahead, level, wait, again>>
      BY <2>3 DEF Wake, Goto, history
    <3>2. Slots' = Slots
      BY <3>1 DEF Slots, Typed
    <3>3. \A k \in 1..(ahead' - 1) : \E x \in Tasks : at'[x] = "sleep" /\ wait'[x] = k
      BY <3>1 DEF RInv, Typed
    <3>4. \A x \in Tasks : at'[x] = "renew" => again'[x]
      BY <3>1 DEF RInv, Typed
    <3>. QED BY <3>1, <3>2, <3>3, <3>4 DEF RInv
  <2>4. CASE UseStored(t)
    <3>1. /\ at[t] = "token" /\ at' = [at EXCEPT ![t] = "send"]
          /\ UNCHANGED <<ahead, level, wait, again>>
      BY <2>4 DEF UseStored, Goto, history
    <3>2. Slots' \subseteq Slots
      BY <3>1 DEF Slots, Typed
    <3>. QED BY <3>1, <3>2, QuietStep
  <2>5. CASE Load(t)
    <3>1. at[t] \in {"token", "renew"} /\ UNCHANGED <<ahead, level>>
      BY <2>5 DEF Load, history
    <3>2. CASE file.refresh = "none"
      BY <2>5, <3>1, <3>2, QuietFailure DEF Load
    <3>3. CASE file.refresh # "none"
      <4>1. at' = [at EXCEPT ![t] = "exchange"] /\ UNCHANGED <<wait, again>>
        BY <2>5, <3>3 DEF Load, Goto
      <4>2. Slots' \subseteq Slots
        BY <3>1, <4>1 DEF Slots, Typed, RInv
      <4>. QED BY <3>1, <4>1, <4>2, QuietStep
    <3>. QED BY <3>2, <3>3
  <2>6. CASE Exchange(t)
    <3>1. at[t] = "exchange" /\ UNCHANGED <<ahead, level>>
      BY <2>6 DEF Exchange
    <3>2. CASE Answered(t)
      <4>1. at' = [at EXCEPT ![t] = "save"] /\ UNCHANGED <<wait, again>>
        BY <3>2 DEF Answered, Goto
      <4>2. Slots' \subseteq Slots
        BY <3>1, <4>1 DEF Slots, Typed
      <4>. QED BY <3>1, <4>1, <4>2, QuietStep
    <3>3. CASE Unanswered(t)
      BY <3>1, <3>3, QuietFailure DEF Unanswered
    <3>. QED BY <2>6, <3>2, <3>3 DEF Exchange
  <2>7. CASE Save(t)
    <3>1. at[t] = "save" /\ UNCHANGED <<ahead, level>>
      BY <2>7 DEF Save
    <3>2. CASE Goto(t, IF again[t] THEN "pace" ELSE "send") /\ UNCHANGED <<wait, again>>
      <4>1. CASE again[t]
        <5>1. at' = [at EXCEPT ![t] = "pace"]
          BY <3>2, <4>1 DEF Goto
        <5>2. Slots' \subseteq Slots
          BY <3>1, <3>2, <5>1 DEF Slots, Typed
        <5>. QED BY <3>1, <3>2, <5>1, <5>2, QuietStep
      <4>2. CASE ~again[t]
        <5>1. at' = [at EXCEPT ![t] = "send"]
          BY <3>2, <4>2 DEF Goto
        <5>2. Slots' \subseteq Slots
          BY <3>1, <3>2, <4>2, <5>1 DEF Slots, Typed
        <5>. QED BY <3>1, <3>2, <5>1, <5>2, QuietStep
      <4>. QED BY <4>1, <4>2
    <3>3. CASE Fail(t)
      BY <3>1, <3>3, QuietFailure
    <3>. QED BY <2>7, <3>2, <3>3 DEF Save
  <2>8. CASE LoadFails(t)
    BY <2>8, QuietFailure DEF LoadFails, history
  <2>. QED BY <1>1, <2>1, <2>2, <2>3, <2>4, <2>5, <2>6, <2>7, <2>8, PaceStep,
              SendStep DEF Step
<1>2. CASE Tick
  BY <1>2, TickStep
<1>3. CASE Expire \/ Revoke \/ Setup \/ UNCHANGED vars
  <2>1. UNCHANGED <<at, again, wait, ahead, level>>
    BY <1>3 DEF Expire, Revoke, Setup, vars, task, history
  <2>2. Slots' = Slots
    BY <2>1 DEF Slots
  <2>. QED BY <2>1, <2>2 DEF RInv
<1>4. CASE Crash
  <2>1. /\ at' = [t \in Tasks |-> "idle"] /\ ahead' = 0 /\ level' = 0
    BY <1>4 DEF Crash
  <2>2. Slots' = {}
    BY <2>1 DEF Slots
  <2>3. Cardinality(Slots') = 0
    BY <2>2, FS_EmptySet
  <2>. QED BY <2>1, <2>3, SlotsFinite DEF RInv
<1>. QED BY <1>1, <1>2, <1>3, <1>4 DEF Next

\* Every slot ahead of now is slept for, so that the tasks hold at least as many.
LEMMA SleptFor ==
  ASSUME Typed, RInv
  PROVE  ahead - 1 <= Cardinality(Slots)
<1>. DEFINE f == [t \in Sleeping |-> wait[t]]
<1>1. IsFiniteSet(Sleeping) /\ Cardinality(Sleeping) <= Cardinality(Slots)
  <2>1. Sleeping \in SUBSET Slots
    BY DEF Sleeping, Slots
  <2>. QED BY <2>1, SlotsFinite, FS_Subset
<1>2. f \in Surjection(Sleeping, 1..(ahead - 1))
  <2>1. f \in [Sleeping -> 1..(ahead - 1)]
    BY DEF Sleeping
  <2>2. ASSUME NEW k \in 1..(ahead - 1)
        PROVE  \E t \in Sleeping : f[t] = k
    <3>1. PICK t \in Tasks : at[t] = "sleep" /\ wait[t] = k
      BY DEF RInv
    <3>2. t \in Sleeping /\ f[t] = k
      BY <3>1 DEF Sleeping
    <3>. QED BY <3>2
  <2>. QED BY <2>1, <2>2 DEF Surjection
<1>3. Cardinality(1..(ahead - 1)) <= Cardinality(Sleeping)
  BY <1>1, <1>2, FS_Surjection
<1>4. ahead - 1 \in Int /\ 1 \in Int
  BY DEF Typed
<1>5. Cardinality(1..(ahead - 1)) = IF 1 > ahead - 1 THEN 0 ELSE (ahead - 1) - 1 + 1
  BY <1>4, FS_Interval
<1>6. Cardinality(Sleeping) \in Nat
  BY <1>1, FS_CardinalityType
<1>. QED BY <1>1, <1>3, <1>5, <1>6, SlotsFinite DEF Typed

\* For any number of tasks, the client never sends more than one request per
\* interval, one more for every task and the one that is due.
THEOREM RateIsLimited == Spec => []RateLimited
<1>1. Init => RInv
  <2>. SUFFICES ASSUME Init PROVE RInv
    OBVIOUS
  <2>1. Slots = {}
    BY DEF Init, Slots
  <2>2. Cardinality(Slots) = 0
    BY <2>1, FS_EmptySet
  <2>. QED BY <2>2, SlotsFinite DEF Init, RInv
<1>2. IInv /\ RInv /\ [Next]_vars => RInv'
  BY RateStep
<1>3. IInv /\ RInv => RateLimited
  <2>. SUFFICES ASSUME IInv, RInv PROVE RateLimited
    OBVIOUS
  <2>1. ahead - 1 <= Cardinality(Slots)
    BY SleptFor DEF IInv
  <2>. QED BY <2>1, SlotsFinite DEF RateLimited, RInv, IInv, Typed
<1>. QED BY <1>1, <1>2, <1>3, Invariance, PTL DEF Spec
=============================================================================
