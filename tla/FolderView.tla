----------------------------- MODULE FolderView -----------------------------
(***************************************************************************)
(* The folder tree: how a cycle learns which Drive object is at which path *)
(* (drive/list.rs, drive/changes.rs, sync/engine.rs), how it finds or      *)
(* creates the folders of its uploads (drive/folders.rs), and what it      *)
(* remembers of both for the next cycle.                                   *)
(*                                                                         *)
(*  - Drive is a tree of objects with an id, a name and a parent.  People  *)
(*    and other devices ("the web") edit it between any two requests.      *)
(*  - A path is a sequence of names; <<n, k>> with k > 1 is the k-th local *)
(*    name of objects that share the name n, "n (k)".                      *)
(*  - Ids are numbers, in the order in which Drive's ids sort.             *)
(*  - What tasks do to a file, and when they fail or put it off, is in     *)
(*    SyncCycle; here a path is settled by the cycle or left as it was.    *)
(***************************************************************************)
EXTENDS Integers, Sequences, FiniteSets, SequencesExt, FiniteSetsExt, Functions

CONSTANTS
  Folders, Files,  \* ids
  Names,
  FolderEdits,     \* the web also renames, moves and removes folders
  Trees,           \* what Drive holds when oxidrive is set up
  Dirs,            \* the local directories in which users create files
  MaxEdits,        \* bound on the edits of the web
  MaxUploads       \* bound on the files users create locally

Ids == Folders \union Files
Root == 0
Outside == -1      \* any folder that is not below the synced root

ASSUME IdsAssumption ==
  /\ Folders \union Files \subseteq Nat \ {0}
  /\ Folders \intersect Files = {}
  /\ FolderEdits \in BOOLEAN

VARIABLES
  objects,    \* Drive: [Ids -> state, parent and name]
  log,        \* the changed ids since the stored token, in feed order
  fresh,      \* those changed since the token this cycle will store
  \* durable
  hasToken, records, known,
  \* the cycle
  pc, view,
  source,     \* what the view is made from
  folders,    \* the session's folder ids
  target,     \* the local file this cycle uploads, or none
  need,       \* parent folders still to be ensured
  \* bounds and history
  edits, uploads,
  missed,     \* changed between a full listing and the start token
  odd, stale  \* objects a view may be wrong about, see Unsure

drive == <<objects, log, fresh>>
durable == <<hasToken, records, known>>
bounds == <<edits, uploads>>
vars == <<drive, durable, pc, view, source, folders, target, need, bounds,
          missed, odd, stale>>

Nothing == <<>>
NoPath == <<>>

-----------------------------------------------------------------------------
(* Drive                                                                   *)

RECURSIVE Within(_, _)
\* o is f, or lies below it.
Within(o, f) ==
  \/ o = f
  \/ o \in Ids /\ objects[o].state # "none" /\ Within(objects[o].parent, f)

Lineage(o) == {f \in Ids : Within(o, f)}
Gone(o) == \E f \in Lineage(o) : objects[f].state = "gone"
Trashed(o) == \E f \in Lineage(o) : objects[f].state = "trashed"
Live(o) == objects[o].state # "none" /\ ~Gone(o) /\ ~Trashed(o)
InTree(o) == Live(o) /\ Within(o, Root)

SameName(o, x) ==
  objects[o].parent = objects[x].parent /\ objects[o].name = objects[x].name

Twins == {o \in Ids : Live(o) /\ \E x \in Ids \ {o} : Live(x) /\ SameName(o, x)}

\* The local name: siblings of one name are numbered by id.
ListedName(o) ==
  <<objects[o].name, Cardinality({x \in Ids : x <= o /\ Live(x) /\ SameName(x, o)})>>

RECURSIVE PathOf(_)
PathOf(o) == IF o = Root THEN <<>>
             ELSE Append(PathOf(objects[o].parent), ListedName(o))

\* Where list_all_files shows an object, if it does.
Shown(o) == IF InTree(o) THEN {PathOf(o)} ELSE {}

\* list_all_files.
Listing ==
  LET place == [o \in {x \in Ids : InTree(x)} |-> PathOf(o)]
  IN [p \in Range(place) |-> CHOOSE o \in DOMAIN place : place[o] = p]

\* The feed mentions an object once, where it changed last.
Logged(o) ==
  /\ log' = Append(SelectSeq(log, LAMBDA x : x # o), o)
  /\ fresh' = IF pc = "idle" THEN {} ELSE fresh \union {o}

NewObject(o, parent, name) ==
  /\ objects[o].state = "none"
  /\ objects' = [objects EXCEPT ![o] = [state |-> "live", parent |-> parent,
                                        name |-> name]]
  /\ Logged(o)

Init ==
  /\ objects \in Trees
  /\ log = <<>> /\ fresh = {}
  /\ hasToken = FALSE /\ records = Nothing /\ known = Nothing
  /\ pc = "idle" /\ view = Nothing /\ source = "none" /\ folders = Nothing
  /\ target = NoPath /\ need = <<>>
  /\ edits = 0 /\ uploads = 0
  /\ missed = {} /\ odd = {} /\ stale = {}

\* Somebody creates, renames, moves, edits, trashes, restores or deletes an
\* object. An edit while the cycle reads nothing is left out, it is the same as
\* one after the cycle, and so is one before a first listing.
WebEdit(o) ==
  /\ \/ pc \in {"idle", "token", "lookup", "create"}
     \/ pc = "list" /\ source = "batch"
  /\ edits < MaxEdits /\ edits' = edits + 1
  /\ objects[o].state # "gone"
  /\ \E state \in {"live", "trashed", "gone"}, name \in Names,
        parent \in {Root, Outside} \union {f \in Folders : Live(f) /\ ~Within(f, o)} :
       /\ objects[o].state = "none" => state = "live" /\ parent # Outside
       /\ state = "trashed" => objects[o].state = "live"
       /\ state # "live" => parent = objects[o].parent /\ name = objects[o].name
       /\ objects' = [objects EXCEPT ![o] = [state |-> state, parent |-> parent,
                                             name |-> name]]
  /\ o \in Folders /\ ~FolderEdits => objects[o].state = "none" \/ UNCHANGED objects
  /\ Logged(o)
  /\ odd' = odd \union Twins'
              \union IF o \in Folders /\ objects[o].state # "none"
                        /\ objects' # objects THEN {o} ELSE {}
  /\ UNCHANGED <<durable, pc, view, source, folders, target, need, uploads,
                 missed, stale>>

-----------------------------------------------------------------------------
(* The incremental view                                                    *)

Without(m, k) == [x \in DOMAIN m \ {k} |-> m[x]]
With(m, k, v) == [x \in DOMAIN m \union {k} |-> IF x = k THEN v ELSE m[x]]
Overriding(m, n) == [x \in DOMAIN m \union DOMAIN n |->
                       IF x \in DOMAIN n THEN n[x] ELSE m[x]]

\* Id to path, from a map of paths to ids: an id with two paths keeps either.
Inverses(m) == {g \in [Range(m) -> DOMAIN m] : \A o \in DOMAIN g : m[g[o]] = o}

\* A view being made: paths to ids, ids to paths, folder ids to paths, the
\* changes that could not be placed yet, and whether the batch is unusable.
ViewOf(stubs, byId, folderById) ==
  [view |-> stubs, byId |-> byId, folderById |-> folderById, later |-> <<>>,
   failed |-> FALSE]

\* place_without_clobber
FreePath(v, path, o) ==
  IF path \notin DOMAIN v.view \/ v.view[path] = o THEN path
  ELSE LET Candidate(i) == Append(Front(path), <<Last(path)[1], i>>)
           free == {i \in 2..(Cardinality(DOMAIN v.view) + 2) :
                      Candidate(i) \notin DOMAIN v.view}
       IN Candidate(Min(free))

\* apply_remote_change
Place(v, o, path) ==
  IF Gone(o) \/ Trashed(o)
  THEN [v EXCEPT !.view = Without(@, path), !.byId = Without(@, o),
                 !.folderById = Without(@, o)]
  ELSE LET p == FreePath(v, path, o)
       IN [v EXCEPT !.view = With(@, p, o), !.byId = With(@, o, p),
                    !.folderById = IF o \in Folders THEN With(@, o, p) ELSE @]

DirKnown(v, parent) == parent = Root \/ parent \in DOMAIN v.folderById
DirPath(v, parent) == IF parent = Root THEN <<>> ELSE v.folderById[parent]

SameDir(v, o, path) ==
  IF Front(path) = <<>> THEN objects[o].parent = Root
  ELSE objects[o].parent # Root /\ DirKnown(v, objects[o].parent)
       /\ DirPath(v, objects[o].parent) = Front(path)

\* resolve_change_path: a rename or move of a known id makes the batch
\* unusable, an id never tracked is placed below a known folder, or later.
Change(v, o) ==
  IF v.failed THEN v
  ELSE IF o \in DOMAIN v.byId
  THEN LET path == v.byId[o]
       IN IF ~Gone(o) /\ (<<objects[o].name, 1>> # Last(path) \/ ~SameDir(v, o, path))
          THEN [v EXCEPT !.failed = TRUE]
          ELSE Place(v, o, path)
  ELSE IF Gone(o) THEN v
  ELSE IF DirKnown(v, objects[o].parent)
  THEN Place(v, o, Append(DirPath(v, objects[o].parent), <<objects[o].name, 1>>))
  ELSE [v EXCEPT !.later = Append(@, o)]

\* One pass over the changes that are left.
Pass(v) == FoldLeft(Change, [v EXCEPT !.later = <<>>], v.later)

\* Wrong: one pass, what comes before its folder is dropped.
IncrementalOnce(stubs, byId, folderById) ==
  Pass([ViewOf(stubs, byId, folderById) EXCEPT !.later = log])

\* build_incremental_remote_view: passes over the batch until one places
\* nothing; a pass that placed nothing changes nothing when repeated.
Incremental(stubs, byId, folderById) ==
  FoldLeft(LAMBDA v, i : Pass(v),
           [ViewOf(stubs, byId, folderById) EXCEPT !.later = log],
           log)

-----------------------------------------------------------------------------
(* The start of a cycle                                                    *)

\* Files whose place another file's record still holds: the other one is itself
\* not where its record says, or the feed mentions it later.
Displaced ==
  {o \in Ids : InTree(o) /\ PathOf(o) \in DOMAIN records
               /\ LET x == records[PathOf(o)]
                  IN x # o /\ (x \in odd \union stale
                              \/ \E i, j \in DOMAIN log :
                                   i < j /\ log[i] = o /\ log[j] = x)}

\* The session is loaded and the feed is read. It gives the view, or it is
\* unusable, or the token has expired, or there is none: then the tree is
\* listed, and in the last two cases a start token fetched.
Fetch ==
  /\ pc = "idle"
  /\ folders' = known
  /\ \/ /\ hasToken
        /\ \E byId \in Inverses(records), folderById \in Inverses(known) :
             LET made == Incremental(records, byId, folderById)
             IN IF made.failed
                  THEN pc' = "list" /\ source' = "batch" /\ view' = Nothing
                  ELSE pc' = "decide" /\ source' = "feed" /\ view' = made.view
     \/ /\ ~hasToken
        /\ pc' = "list" /\ source' = "start" /\ view' = Nothing
     \/ /\ hasToken
        /\ pc' = "list" /\ source' = "start" /\ view' = Nothing
  /\ odd' = odd \union Displaced
  /\ UNCHANGED <<drive, durable, target, need, edits, uploads, missed, stale>>

List ==
  /\ pc = "list"
  /\ view' = Listing
  /\ pc' = IF source = "start" THEN "token" ELSE "decide"
  /\ fresh' = IF source = "start" THEN {} ELSE fresh
  /\ UNCHANGED <<objects, log, durable, source, folders, target, need, bounds,
                 missed, odd, stale>>

\* What has changed since the listing is in neither.
StartToken ==
  /\ pc = "token" /\ pc' = "decide"
  /\ missed' = fresh /\ fresh' = {}
  /\ stale' = stale \union fresh
  /\ UNCHANGED <<objects, log, durable, view, source, folders, target, need, bounds,
                 odd>>

-----------------------------------------------------------------------------
(* The folders of an upload                                                *)

KnownRemoteFolders == Restrict(view, {p \in DOMAIN view : view[p] \in Folders})

ParentDirs(path) == [i \in 1..(Len(path) - 1) |-> SubSeq(path, 1, i)]

\* The folders of the view join the session's; a file created locally, at a
\* path nobody else has, is to be uploaded, or none is.
Decide ==
  /\ pc = "decide"
  /\ folders' = Overriding(folders, KnownRemoteFolders)
  /\ \/ /\ pc' = "settle" /\ UNCHANGED <<target, need, uploads>>
     \/ /\ uploads < MaxUploads /\ uploads' = uploads + 1
        /\ \E dir \in Dirs, n \in Names :
             /\ target' = Append(dir, <<n, 1>>)
             /\ target' \notin DOMAIN view \union DOMAIN records
             /\ \A p \in Range(ParentDirs(target')) :
                  p \notin DOMAIN records /\ (p \in DOMAIN view => view[p] \in Folders)
        /\ need' = SelectSeq(ParentDirs(target'), LAMBDA p : p \notin DOMAIN folders')
        /\ pc' = IF need' = <<>> THEN "upload" ELSE "lookup"
  /\ UNCHANGED <<drive, durable, view, source, edits, missed, odd, stale>>

\* Wrong: every folder is looked up and created in the root.
ParentInRoot(path) == Root

\* parent_drive_id, and the parent of a folder that is ensured.
ParentId(path) == IF Front(path) = <<>> THEN Root ELSE folders[Front(path)]

Ensured(o) ==
  /\ folders' = With(folders, Head(need), o)
  /\ need' = Tail(need)
  /\ pc' = IF need' = <<>> THEN "upload" ELSE "lookup"

\* The live folders of the name, below the parent.
Matches(path) ==
  {o \in Folders : /\ Live(o) /\ objects[o].parent = ParentId(path)
                   /\ <<objects[o].name, 1>> = Last(path)}

\* find_folder
Picked(candidates) == Min(candidates)

LookUp ==
  /\ pc = "lookup"
  /\ LET matches == Matches(Head(need))
     IN IF matches = {} THEN pc' = "create" /\ UNCHANGED <<folders, need>>
        ELSE Ensured(Picked(matches))
  /\ UNCHANGED <<drive, durable, view, source, target, bounds, missed, odd, stale>>

\* create_folder. An answer that is lost makes the client send it again.
CreateFolder(o) ==
  /\ pc = "create"
  /\ ~Gone(ParentId(Head(need)))
  /\ NewObject(o, ParentId(Head(need)), Last(Head(need))[1])
  /\ odd' = odd \union Twins'
  /\ Ensured(o) \/ UNCHANGED <<pc, folders, need>>
  /\ UNCHANGED <<durable, view, source, target, edits, uploads, missed, stale>>

Upload(o) ==
  /\ pc = "upload" /\ pc' = "settle"
  /\ ~Gone(ParentId(target))
  /\ NewObject(o, ParentId(target), Last(target)[1])
  /\ view' = With(view, target, o)
  /\ odd' = odd \union Twins'
  /\ UNCHANGED <<durable, source, folders, target, need, bounds, missed, stale>>

-----------------------------------------------------------------------------
(* The end of a cycle                                                      *)

\* Wrong: folders get records too.
AllOf(m) == m

FilesOf(m) == Restrict(m, {p \in DOMAIN m : m[p] \in Files})
Differing == {p \in DOMAIN records \union DOMAIN FilesOf(view) :
                p \notin DOMAIN records \/ p \notin DOMAIN view
                \/ records[p] # view[p]}
IdsAt(m, paths) == {m[p] : p \in paths \intersect DOMAIN m}

Doubled(m) == {o \in Range(m) : Cardinality({p \in DOMAIN m : m[p] = o}) > 1}
BelowUnsure(o) == (Lineage(o) \ {o}) \intersect (odd \union stale) # {}

\* What the cycle knew goes with it.
CycleEnds ==
  /\ pc' = "idle" /\ view' = Nothing /\ source' = "none" /\ folders' = Nothing
  /\ target' = NoPath /\ need' = <<>> /\ missed' = {} /\ fresh' = {}

\* Every path ends as the view says, except those in kept: their task failed,
\* or ended without effect and without error (a first contact that is
\* identical, an unstable upload, a deletion still to be confirmed). The batch
\* of the session, and without an error the token, are stored.
Settle ==
  /\ pc = "settle" /\ CycleEnds
  /\ \E kept \in SUBSET Differing, failed \in BOOLEAN :
       LET left == IdsAt(view, kept) \union IdsAt(records, kept)
           told == Range(log) \ fresh
       IN /\ records' = Overriding(Restrict(FilesOf(view), DOMAIN FilesOf(view) \ kept),
                                   Restrict(records, DOMAIN records \intersect kept))
          /\ failed => kept # {}
          /\ hasToken' = (hasToken \/ ~failed)
          /\ log' = IF failed THEN log ELSE SelectSeq(log, LAMBDA o : o \in fresh)
          /\ stale' = (IF failed THEN {} ELSE left)
               \union (stale \intersect (left \union fresh \union missed))
               \union (IF source # "feed" THEN {} ELSE
                         (stale \ told) \union {o \in told : BelowUnsure(o)})
  /\ odd' = odd \union Doubled(records')
  /\ known' = folders
  /\ UNCHANGED <<objects, bounds>>

\* A request fails for good, or the process dies: nothing is stored.
Abort ==
  /\ pc # "idle" /\ CycleEnds
  /\ UNCHANGED <<objects, log, durable, bounds, odd, stale>>

Next ==
  \/ \E o \in Ids : WebEdit(o)
  \/ Fetch \/ List \/ StartToken \/ Decide \/ LookUp
  \/ \E o \in Folders : CreateFolder(o)
  \/ \E o \in Files : Upload(o)
  \/ Settle \/ Abort

Spec == Init /\ [][Next]_vars

-----------------------------------------------------------------------------
(* Properties                                                              *)

\* Every variable keeps its type.
TypeOK ==
  /\ objects \in [Ids -> [state : {"none", "live", "trashed", "gone"},
                          parent : Folders \union {Root, Outside}, name : Names]]
  /\ Range(log) \subseteq Ids /\ IsInjective(log) /\ fresh \subseteq Range(log)
  /\ Range(records) \subseteq Files /\ Range(known) \subseteq Folders
  /\ Range(view) \subseteq Ids /\ Range(folders) \subseteq Folders
  /\ pc \in {"idle", "list", "token", "decide", "lookup", "create", "upload",
             "settle"}
  /\ missed \subseteq Ids /\ odd \subseteq Ids /\ stale \subseteq Ids

\* What a view may be wrong about: an object that is odd or stale, or below
\* one. Odd for good is an object that has shared its name with a sibling, a
\* folder that was edited, a file whose place another file's record still held,
\* and a file with two records. Stale is an object that changes between a full
\* listing and the start token, or that a cycle was told of and left without a
\* record and without an error, or was told of while below an unsure folder; a
\* later view that is told of it clears that, and so does a listing.
Unsure(o) == \E f \in Lineage(o) : f \in odd \union stale

PathsIn(m, o) == {p \in DOMAIN m : m[p] = o}

\* The view, put together from records, folder ids and a batch of changes, or
\* listed, has every file at the path a full listing of that moment gives it,
\* and no file that is not there: whatever order the feed has, however often a
\* batch is read again, and whatever was moved, renamed or removed.
ViewIsListing ==
  [][pc = "idle" /\ pc' = "decide" =>
       \A o \in Files : ~Unsure(o)' => PathsIn(view', o) = Shown(o)']_vars

\* A file is created below the folder that Drive shows at the place of its
\* local directory.
UploadsWhereShown ==
  [][\A o \in Files : objects[o].state = "none" /\ pc = "upload" /\ pc' = "settle"
                      /\ objects'[o].state = "live"
       => Unsure(o)' \/ PathOf(o)' = target]_vars
=============================================================================
