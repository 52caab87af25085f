----------------------------- MODULE WebDAVTree -----------------------------
(***************************************************************************)
(* The tree of files and collections of one WebDAV mount and everything    *)
(* that changes it: PUT, MKCOL, DELETE, COPY, MOVE and LOCK of the WebDAV  *)
(* handler (internal/protocol/webdav/handler.go, preconditions.go), the    *)
(* file manager and its jobs (internal/modules/r2/file_manager.go,         *)
(* file_jobs.go) and the recovery of writes in doubt.  All of them go      *)
(* through the lock store of WebDAVLocks, whose state and steps this       *)
(* module extends, and end in the writes and deletions of the R2 service   *)
(* (webdav_coordination.go, service.go), which look at the guard again.    *)
(*                                                                         *)
(* A handler reads the index, computes the paths its request changes,      *)
(* takes the guard for them, reads again and gives up if the paths no      *)
(* longer suffice, and then calls the service once per object.  The index  *)
(* belongs to everybody: between two steps of one request the others move. *)
(*                                                                         *)
(* Data abstraction.  A path is the sequence of its names, the mount being *)
(* <<>>.  Keys "d" and "d/" are one path: the namespace check of BeginWrite *)
(* lets only one of them exist.  A body stands for content, ETag and       *)
(* object id.  If headers (WebDAVLocks has them) and Depth 0 are left out. *)
(***************************************************************************)
EXTENDS WebDAVLocks, SequencesExt

CONSTANTS
    Names,      \* the names of files and collections
    Requests,   \* what clients ask for
    Trees,      \* the trees the mount may hold at the start
    LeftLocks,  \* roots and depths of the locks that an earlier run may have left
    Doomed,     \* the paths whose objects lie in a bucket that is being removed
    MaxFaults   \* bound: writes refused or in doubt, hang-ups, restarts

Object == [kind : {"file", "dir"}, body : Nat]

\* by: the WebDAV handler, the file manager, or a job.  over: Overwrite.
Wish == [by : {"dav", "fm", "job"},
         op : {"put", "mkcol", "delete", "copy", "move", "lock"},
         path : Paths, dst : Paths, over : BOOLEAN]

VARIABLES
    objects,    \* r2_objects: the object at each path
    pending,    \* r2_write_intents: what is being written, or None for nothing
    task,       \* what each client's handler is at
    prepared,   \* the jobs whose payload says that the destination is cleared
    faults

treeVars == <<objects, pending, task, prepared, faults>>
allVars == <<locks, req, issued, begun, objects, pending, task, prepared, faults>>

\* snap, dsnap: the trees at source and destination before the guard was taken;
\* coll: the path was a collection; todo, done: the paths of the phase; at: the one
\* being served.
Task == [wish : Wish, phase : {"prepared", "clear", "copy", "make", "drop", "over"},
         snap : [Paths -> Object \union {None}], dsnap : [Paths -> Object \union {None}],
         coll : BOOLEAN, body : Nat, todo : SUBSET Paths, at : Paths \union {None},
         done : SUBSET Paths, failed : BOOLEAN]

\* Deletion stands for the intent of a deletion.
Deletion == [kind |-> "none", body |-> 0]

ASSUME TreeAssumption ==
    /\ Paths \subseteq Seq(Names)
    /\ \A p, q \in Paths : <<p, q>> \in Parents <=> IsPrefix(q, p)
    /\ <<>> \in Paths /\ \A p \in Paths \ {<<>>} : Front(p) \in Paths
    /\ Doomed \subseteq Paths /\ MaxFaults \in Nat
    /\ LeftLocks \subseteq Paths \X Depths
    /\ Trees \subseteq [Paths -> Object \union {None}]
    /\ \A tree \in Trees : \A p, q \in Paths :
          tree[p] # None /\ tree[p].kind = "file" /\ q # p /\ AtOrBelow(q, p) => tree[q] = None
    /\ None \notin Paths \union Object \union {Deletion} \union Task

TreeTypeOK ==
    /\ objects \in [Paths -> Object \union {None}]
    /\ pending \in [Paths -> Object \union {Deletion, None}]
    /\ task \in [Clients -> Task \union {None}]
    /\ prepared \subseteq Requests
    /\ faults \in 0..MaxFaults

-----------------------------------------------------------------------------
(* Resources.                                                              *)

Ancestors(p) == {q \in Paths : AtOrBelow(p, q)}
Parent(p) == IF p = <<>> THEN p ELSE Front(p)
ParentsOf(S) == {Parent(p) : p \in S}

Mapped(p) == objects[p] # None
Tree(p) == {q \in Below(p) : Mapped(q)}
Snapshot(p) == [q \in Paths |-> IF q \in Below(p) THEN objects[q] ELSE None]
In(snap) == {q \in Paths : snap[q] # None}

\* The mount itself, a path with a marker, or one with something below it.
Collection(p) ==
    \/ p = <<>>
    \/ Mapped(p) /\ objects[p].kind = "dir"
    \/ Tree(p) \ {p} # {}

Exists(p) == Mapped(p) \/ Collection(p)

\* Is something left at q or below once S is deleted?
RemainsWithout(q, S) == Tree(q) \ S # {}

Image(from, to, q) == to \o SubSeq(q, Len(from) + 1, Len(q))

\* What each side can ask for; the paths that a tree may be copied to exist.
ASSUME RequestAssumption ==
    /\ Requests \subseteq Wish
    /\ \A w \in Requests :
          /\ w.by = "fm" => w.op \in {"put", "mkcol", "delete", "move"}
          /\ w.by = "job" => w.op \in {"delete", "move"}
          /\ w.op \in {"copy", "move"} /\ w.by # "fm" =>
               \A q \in Below(w.path) : Image(w.path, w.dst, q) \in Paths

-----------------------------------------------------------------------------
(* Which paths a request changes.                                          *)

\* creationMutationPaths: up to the first collection that exists already.
CreationPaths(p) ==
    {q \in Ancestors(p) : \A r \in Ancestors(p) \ {p} :
        AtOrBelow(r, q) /\ r # q => ~Collection(r)}

\* deletionMutationPaths: every object of the tree at p, its parents, and the
\* collections above p that vanish with it.
DeletionPaths(p, S) ==
    LET inside == {p} \union S
        between == {q \in Below(p) : \E s \in S : s # q /\ AtOrBelow(s, q)}
        vanishing == {q \in Ancestors(p) \ {p, <<>>} : ~RemainsWithout(q, S)}
    IN  inside \union ParentsOf(inside) \union between
        \union vanishing \union ParentsOf(vanishing)

\* subtreeMutationPaths
SubtreePaths(p, S) ==
    {p} \union S \union ParentsOf({p} \union S)
    \union {q \in Below(p) : \E s \in S : AtOrBelow(s, q)}

\* treeIsCollection
IsTree(p, snap) == snap[p] = None \/ snap[p].kind = "dir"

\* A file put over a file keeps the collection as it is.
DirectReplace(t) ==
    /\ ~IsTree(t.wish.path, t.snap)
    /\ In(t.dsnap) = {t.wish.dst} /\ t.dsnap[t.wish.dst].kind = "file"

\* What is written: the images of the source tree, and a marker for a source
\* that exists only through what is below it.
Sources(t) == In(t.snap) \union IF IsTree(t.wish.path, t.snap) THEN {t.wish.path} ELSE {}
Target(t, q) == Image(t.wish.path, t.wish.dst, q)

CopyPaths(t) ==
    LET targets == {Target(t, q) : q \in Sources(t)}
        D == In(t.dsnap)
    IN  IF DirectReplace(t) THEN {t.wish.dst}
        ELSE IF D # {} THEN DeletionPaths(t.wish.dst, D) \union SubtreePaths(t.wish.dst, targets)
        ELSE UNION {CreationPaths(p) : p \in targets}

\* Mutant: does not stop at the first collection that exists.
ServicePutPathsAll(p) == Ancestors(p)

\* The service's own view: webDAVCreationMutationPaths, webDAVDeletionMutationPaths.
ServicePutPaths(p) == IF Mapped(p) THEN {p} ELSE CreationPaths(p)

ServiceDeletePaths(p) ==
    {q \in Ancestors(p) : \A r \in Ancestors(p) \ {p} :
        AtOrBelow(r, q) /\ r # q => ~RemainsWithout(r, {p})}

\* The paths a WebDAV request changes, as the index is now.
Affected(t) ==
    LET p == t.wish.path
    IN  CASE t.wish.op = "put" -> IF Exists(p) THEN {p} ELSE CreationPaths(p)
          [] t.wish.op \in {"mkcol", "lock"} -> CreationPaths(p)
          [] t.wish.op = "delete" -> DeletionPaths(p, In(t.snap))
          [] t.wish.op = "copy" -> CopyPaths(t)
          [] t.wish.op = "move" -> CopyPaths(t) \union DeletionPaths(p, In(t.snap))

\* The paths the file manager and jobs register: the service's own, or complete
\* trees with everything above them (webDAVTreeMutationPaths).
ExternalPaths(w) ==
    CASE w.op \in {"put", "mkcol"} -> ServicePutPaths(w.path)
      [] w.op = "delete" /\ w.by = "fm" -> ServiceDeletePaths(w.path)
      [] w.op = "delete" /\ w.by = "job" -> Ancestors(w.path)
      [] w.op = "move" -> Ancestors(w.path) \union Ancestors(w.dst)

-----------------------------------------------------------------------------
\* The process starts on a tree, perhaps with a lock that an earlier run left.
TreeInit ==
    /\ objects \in Trees
    /\ locks \in {{}} \union {{[token |-> 1, root |-> left[1], depth |-> left[2]]} :
                               left \in {l \in LeftLocks : Exists(l[1])}}
    /\ req = [c \in Clients |-> None]
    /\ issued = Cardinality(locks)
    /\ begun = 0
    /\ pending = [p \in Paths |-> None]
    /\ task = [c \in Clients |-> None]
    /\ prepared = {}
    /\ faults = 0

Fault == faults < MaxFaults /\ faults' = faults + 1

NewTask(w) ==
    [wish |-> w, phase |-> "prepared", snap |-> Snapshot(w.path), dsnap |-> Snapshot(w.dst),
     coll |-> Collection(w.path), body |-> begun + 1, todo |-> {}, at |-> None,
     done |-> {}, failed |-> FALSE]

Nested(p, q) == AtOrBelow(p, q) \/ AtOrBelow(q, p)

\* What each handler refuses before it takes the guard.
Acceptable(w) ==
    CASE w.op = "put" /\ w.by = "dav" -> ~Collection(w.path)
      [] w.op = "put" /\ w.by = "fm" -> ~Collection(w.path) /\ (Mapped(w.path) => w.over)
      [] w.op = "mkcol" -> ~Exists(w.path)
      [] w.op = "lock" -> TRUE
      [] w.op = "delete" /\ w.by = "dav" -> Exists(w.path)
      [] w.op = "delete" /\ w.by = "fm" -> Mapped(w.path) /\ ~Collection(w.path)
      [] w.op = "delete" /\ w.by = "job" -> TRUE
      [] w.op \in {"copy", "move"} /\ w.by = "dav" ->
            /\ Exists(w.path) /\ ~Nested(w.path, w.dst)
            /\ Exists(w.dst) => w.over
      [] w.op = "move" /\ w.by # "dav" -> w.path # w.dst

Ready(w) ==
    [op |-> "mutate", pc |-> "guard", parked |-> FALSE, root |-> w.path, depth |-> "zero",
     lockKeys |-> {}, keys |-> {}, tokens |-> {}, own |-> NoToken]

\* A WebDAV request other than LOCK: conditions, snapshots and affected paths.
Prepare(c, w, tokens) ==
    LET t == NewTask(w)
    IN  /\ w.by = "dav" /\ w.op # "lock" /\ Acceptable(w)
        /\ Begin(c, [Ready(w) EXCEPT !.lockKeys = Affected(t), !.tokens = tokens,
                                     !.keys = Affected(t) \union {w.path}])
        /\ task' = [task EXCEPT ![c] = t]
        /\ UNCHANGED <<objects, pending, prepared, faults>>

\* A request of the file manager, or one attempt of a job.
PrepareExternal(c, w) ==
    /\ w.by # "dav" /\ Acceptable(w)
    /\ Begin(c, [Ready(w) EXCEPT !.keys = ExternalPaths(w)])
    /\ task' = [task EXCEPT ![c] = NewTask(w)]
    /\ UNCHANGED <<objects, pending, prepared, faults>>

PrepareLock(c, w, depth) ==
    /\ w.op = "lock"
    /\ BeginLock(c, w.path, depth)
    /\ task' = [task EXCEPT ![c] = NewTask(w)]
    /\ UNCHANGED <<objects, pending, prepared, faults>>

Forget(c) == task' = [task EXCEPT ![c] = None]

\* LockStore.Create, then the paths a LOCK of an unmapped URL would create.
CreateLock(c) ==
    /\ task[c] # None
    /\ LET p == task[c].wish.path
           needed == IF Exists(p) THEN {p} ELSE CreationPaths(p)
       IN  \E top \in needed : Upward(p, top) = needed /\ Create(c, top)
    /\ UNCHANGED treeVars

\* Waiting inside the store, being refused by it, hanging up: the steps of
\* WebDAVLocks.  A lock that stays behind was made by a client that hung up.
Store(c) ==
    \/ (CreateWaits(c) \/ GuardWaits(c) \/ Guard(c)) /\ UNCHANGED treeVars
    \/ CreateRefused(c) /\ Forget(c) /\ UNCHANGED <<objects, pending, prepared, faults>>
    \/ /\ GuardRefused(c)
       /\ Forget(c)
       /\ IF \E lock \in locks' : lock.token = req[c].own THEN Fault ELSE UNCHANGED faults
       /\ UNCHANGED <<objects, pending, prepared>>
    \/ /\ Cancel(c)
       /\ Forget(c)
       /\ IF req[c].own # NoToken THEN Fault ELSE UNCHANGED faults
       /\ UNCHANGED <<objects, pending, prepared>>

-----------------------------------------------------------------------------
(* Inside the guard.                                                       *)

Working(c, phase) == task[c] # None /\ At(c, "running") /\ task[c].phase = phase

LocksBelow(p) == {lock \in locks : AtOrBelow(lock.root, p)}

\* Locks whose resource goes with S: locks on S, or on collections above.
Unmapped(S) ==
    {lock \in locks : /\ lock.root # <<>> /\ ~RemainsWithout(lock.root, S)
                      /\ \E p \in S : AtOrBelow(p, lock.root)}

\* containsAllPaths: the paths that the index now calls for are registered.
Sufficient(c) == Affected(task[c]) \subseteq req[c].lockKeys

\* What a handler checks again once it holds the guard, and what the file
\* manager and jobs check only then.
StillValid(c) ==
    LET t == task[c]
        w == t.wish
        p == w.path
        sufficient == Sufficient(c)
    IN  CASE w.by = "dav" /\ w.op = "put" ->
               ~Collection(p) /\ (Mapped(p) \/ (t.snap[p] = None /\ sufficient))
          [] w.by = "dav" /\ w.op = "mkcol" -> ~Collection(p) /\ sufficient
          [] w.op = "lock" -> Collection(p) = t.coll /\ (Exists(p) \/ sufficient)
          [] w.by = "dav" /\ w.op = "delete" -> t.snap = Snapshot(p) /\ sufficient
          [] w.by = "dav" /\ w.op \in {"copy", "move"} ->
               t.snap = Snapshot(p) /\ t.dsnap = Snapshot(w.dst) /\ sufficient
          [] w.by = "fm" /\ w.op = "move" ->
               /\ Mapped(p) /\ ~Collection(p)
               /\ ~Collection(w.dst) /\ (Mapped(w.dst) => w.over)
          [] w.by = "job" /\ w.op = "move" ->
               /\ Collection(p) /\ ~Nested(p, w.dst)
               /\ ~(Mapped(w.dst) /\ objects[w.dst].kind = "file")
               /\ Exists(w.dst) => w.over \/ w \in prepared
          [] w.by = "job" /\ w.op = "delete" -> Collection(p)
          [] OTHER -> TRUE

\* What is to be done first.
Started(t) ==
    LET w == t.wish
    IN  CASE w.op \in {"put", "mkcol"} -> [t EXCEPT !.phase = "make", !.todo = {w.path}]
          [] w.op = "lock" ->
               [t EXCEPT !.phase = "make", !.todo = IF Exists(w.path) THEN {} ELSE {w.path}]
          [] w.op = "delete" ->
               [t EXCEPT !.phase = "drop",
                         !.todo = IF w.by = "fm" THEN {w.path} ELSE Tree(w.path)]
          [] w.op = "move" /\ w.by = "job" ->
               IF w \in prepared
               THEN [t EXCEPT !.phase = "copy", !.snap = Snapshot(w.path), !.todo = Tree(w.path)]
               ELSE [t EXCEPT !.phase = "clear", !.snap = Snapshot(w.path), !.todo = Tree(w.dst)]
          [] w.op = "move" /\ w.by = "fm" ->
               [t EXCEPT !.phase = "copy", !.snap = Snapshot(w.path), !.todo = {w.path}]
          [] OTHER ->
               IF In(t.dsnap) # {} /\ ~DirectReplace(t)
               THEN [t EXCEPT !.phase = "clear", !.todo = In(t.dsnap)]
               ELSE [t EXCEPT !.phase = "copy", !.todo = Sources(t)]

Recheck(c) ==
    /\ Working(c, "prepared") /\ StillValid(c)
    /\ task' = [task EXCEPT ![c] = Started(task[c])]
    /\ UNCHANGED <<vars, objects, pending, prepared, faults>>

\* 409 and the like; a LOCK takes its own lock back.  So ends too a job whose move
\* an earlier attempt has completed.
Refuse(c) ==
    /\ Working(c, "prepared") /\ ~StillValid(c)
    /\ task' = [task EXCEPT ![c].phase = "over"]
    /\ locks' = {lock \in locks : lock.token # req[c].own}
    /\ UNCHANGED <<req, issued, begun, objects, pending, prepared, faults>>

\* The guard is released.
Leave(c) ==
    /\ Working(c, "over")
    /\ Release(c) /\ Forget(c)
    /\ UNCHANGED <<objects, pending, prepared, faults>>

-----------------------------------------------------------------------------
(* One call of the service: its paths, its intent, its outcome.            *)

Deletes(t) == t.phase \in {"clear", "drop"}

\* The handler deletes from the bottom up (deleteObjects).  Copies, and the deletions of
\* a job (deletePrefix), take the objects as the index lists them: from the top down.
BottomUp(t) == Deletes(t) /\ t.wish.by # "job"

NextDue(t) ==
    {q \in t.todo : \A r \in t.todo \ {q} :
        IF BottomUp(t) THEN ~AtOrBelow(r, q) ELSE ~AtOrBelow(q, r)}

Place(t, q) == IF t.phase = "copy" THEN Target(t, q) ELSE q

ServicePaths(t, q) ==
    IF Deletes(t) THEN ServiceDeletePaths(q) ELSE ServicePutPaths(Place(t, q))

\* webDAVMutationScopeCovers: paths inside what the request has registered.
InScope(c, S) == \A p \in S : \E k \in req[c].keys : AtOrBelow(p, k)

KindsAt(q) == {o.kind : o \in {objects[q], pending[q]} \ {None, Deletion}}

\* Mutant: only what is committed counts.
NamespaceConflictCommitted(p, kind) ==
    \/ \E q \in Ancestors(p) \ {p} : Mapped(q) /\ objects[q].kind = "file"
    \/ Mapped(p) /\ objects[p].kind # kind
    \/ kind = "file" /\ Tree(p) \ {p} # {}

\* checkWebDAVWriteNamespace: no file above the key, and nothing below a file,
\* among the objects and the writes in progress.
NamespaceConflict(p, kind) ==
    \/ \E q \in Ancestors(p) \ {p} : "file" \in KindsAt(q)
    \/ KindsAt(p) \ {kind} # {}
    \/ kind = "file" /\ \E q \in Below(p) \ {p} : KindsAt(q) # {}

\* Requests that the service itself guards look at their paths again under it.
Direct(w) == w.by = "fm" /\ w.op # "move"

\* What a write stores.
Content(t, q) ==
    CASE t.wish.op = "put" -> [kind |-> "file", body |-> t.body]
      [] t.wish.op = "mkcol" -> [kind |-> "dir", body |-> 0]
      [] t.wish.op = "lock" -> [kind |-> "file", body |-> 0]
      [] OTHER -> IF Mapped(q) THEN objects[q] ELSE [kind |-> "dir", body |-> 0]

\* IfNoneMatch, and for a copy the source that must still be the one listed.
MayWrite(t, q) ==
    LET w == t.wish
        anew == ~Mapped(Place(t, q))
    IN  CASE w.op = "put" -> anew \/ w.by = "dav" \/ w.over
          [] w.op \in {"mkcol", "lock"} -> anew
          [] w.op \in {"copy", "move"} /\ w.by = "dav" ->
               objects[q] = t.snap[q] /\ (anew \/ DirectReplace(t))
          [] w.op = "move" /\ w.by = "fm" -> Mapped(q) /\ (anew \/ w.over)
          [] w.op = "move" /\ w.by = "job" -> Mapped(q)

\* objectFence: all but the root of a DELETE or an overwrite is deleted only if
\* it is what the handler listed.  The file manager deletes the key of a file.
MayDelete(t, q) ==
    LET listed == IF t.phase = "clear" THEN t.dsnap[q] ELSE t.snap[q]
        root == IF t.phase = "clear" THEN t.wish.dst ELSE t.wish.path
        fenced == /\ t.wish.by = "dav"
                  /\ q # root \/ (t.wish.op = "move" /\ t.phase = "drop")
    IN  /\ Mapped(q) /\ (fenced => objects[q] = listed)
        /\ Direct(t.wish) => objects[q].kind = "file"

Serving(c) ==
    /\ task[c] # None /\ At(c, "running")
    /\ task[c].phase \in {"clear", "copy", "make", "drop"}
    /\ task[c].at = None

\* PutConditional and DeleteConditional, up to the intent.
StartWrite(c, q) ==
    LET t == task[c]
        p == Place(t, q)
    IN  /\ ~Deletes(t) /\ InScope(c, ServicePaths(t, q))
        /\ pending[p] = None /\ MayWrite(t, q)
        /\ ~NamespaceConflict(p, Content(t, q).kind)
        /\ pending' = [pending EXCEPT ![p] = Content(t, q)]
        /\ task' = [task EXCEPT ![c].at = q]
        /\ UNCHANGED <<vars, objects, prepared, faults>>

StartDelete(c, q) ==
    LET t == task[c]
    IN  /\ Deletes(t) /\ InScope(c, ServicePaths(t, q))
        /\ pending[q] = None /\ MayDelete(t, q)
        /\ pending' = [pending EXCEPT ![q] = Deletion]
        /\ task' = [task EXCEPT ![c].at = q]
        /\ UNCHANGED <<vars, objects, prepared, faults>>

\* The WebDAV handler notes a failure and goes on with the next object; the file
\* manager and jobs give up.
Failed(t, q) ==
    [t EXCEPT !.at = None, !.failed = TRUE,
              !.todo = IF t.wish.by = "dav" THEN @ \ {q} ELSE {}]

\* An intent in the way, a condition that does not hold, a namespace conflict, or
\* paths that no longer suffice.  A deletion that finds nothing cleans up the
\* locks all the same.
Denied(c, q) ==
    LET t == task[c]
        p == Place(t, q)
        refused == IF Deletes(t) THEN pending[q] # None \/ ~MayDelete(t, q)
                   ELSE \/ pending[p] # None \/ ~MayWrite(t, q)
                        \/ NamespaceConflict(p, Content(t, q).kind)
    IN  /\ IF InScope(c, ServicePaths(t, q)) THEN refused ELSE Direct(t.wish)
        /\ task' = [task EXCEPT ![c] = Failed(t, q)]
        /\ locks' = IF /\ Deletes(t) /\ InScope(c, ServicePaths(t, q))
                       /\ pending[q] = None /\ ~Mapped(q)
                    THEN locks \ Unmapped({q}) ELSE locks
        /\ UNCHANGED <<req, issued, begun, objects, pending, prepared, faults>>

\* beginWebDAVMutation: paths that a request has not registered are guarded anew,
\* which waits until the request itself releases its guard.
WaitsForItself(c) ==
    /\ Serving(c) /\ ~Direct(task[c].wish)
    /\ \E q \in NextDue(task[c]) : ~InScope(c, ServicePaths(task[c], q))

\* Its client hangs up.
HangUp(c) ==
    /\ WaitsForItself(c)
    /\ task' = [task EXCEPT ![c].phase = "over"]
    /\ UNCHANGED <<vars, objects, pending, prepared, faults>>

-----------------------------------------------------------------------------
(* How a call ends.                                                        *)

InCall(c) == task[c] # None /\ At(c, "running") /\ task[c].at # None

Written(c) == Place(task[c], task[c].at)

Served(t) == [t EXCEPT !.at = None, !.todo = @ \ {t.at}, !.done = @ \union {t.at}]

\* What an intent makes of its path, and the locks whose resource goes with the
\* object (cleanupDeletedWebDAVLocks).
Outcome(p) == IF pending[p] = Deletion THEN None ELSE pending[p]
Orphaned(p) == IF pending[p] = Deletion THEN Unmapped({p}) ELSE {}

Apply(p) ==
    /\ objects' = [objects EXCEPT ![p] = Outcome(p)]
    /\ pending' = [pending EXCEPT ![p] = None]
    /\ UNCHANGED <<req, issued, begun, prepared>>

\* CommitWrite or CommitDeleteWrite, then the locks.
Commit(c) ==
    /\ InCall(c)
    /\ Apply(Written(c))
    /\ locks' = locks \ Orphaned(Written(c))
    /\ task' = [task EXCEPT ![c] = Served(@)]
    /\ UNCHANGED faults

\* The object is gone, but the locks could not be removed.
CommitOnly(c) ==
    /\ InCall(c) /\ pending[Written(c)] = Deletion
    /\ Apply(Written(c))
    /\ task' = [task EXCEPT ![c] = Failed(@, task[c].at)]
    /\ Fault
    /\ UNCHANGED locks

\* R2 or the database refuses, and the intent is dropped.
Abort(c) ==
    /\ InCall(c)
    /\ pending' = [pending EXCEPT ![Written(c)] = None]
    /\ task' = [task EXCEPT ![c] = Failed(@, task[c].at)]
    /\ Fault
    /\ UNCHANGED <<vars, objects, prepared>>

\* The outcome is not known; the intent stays for recovery.
Hold(c) ==
    /\ InCall(c)
    /\ task' = [task EXCEPT ![c] = Failed(@, task[c].at)]
    /\ Fault
    /\ UNCHANGED <<vars, objects, pending, prepared>>

\* recoverWriteIntent: a write in doubt turns out done or not done.  It registers
\* everything up to the mount, so that no other mutation is in flight; what others
\* read or ask for in the meantime, they may as well before it or after.
Recover(p) ==
    /\ pending[p] # None /\ Running = {}
    /\ \/ Apply(p) /\ locks' = locks \ Orphaned(p)
       \/ /\ pending' = [pending EXCEPT ![p] = None]
          /\ UNCHANGED <<vars, objects, prepared>>
    /\ UNCHANGED <<task, faults>>

-----------------------------------------------------------------------------
(* From phase to phase.                                                    *)

PhaseDone(c, phase) ==
    /\ Working(c, phase)
    /\ task[c].todo = {} /\ task[c].at = None

Go(c, phase, todo) ==
    task' = [task EXCEPT ![c].phase = phase, ![c].todo = todo, ![c].done = {}]

\* A LOCK that could not create its file takes its lock back.
Made(c) ==
    /\ PhaseDone(c, "make")
    /\ locks' = IF task[c].failed THEN {lock \in locks : lock.token # req[c].own} ELSE locks
    /\ Go(c, "over", {})
    /\ UNCHANGED <<req, issued, begun, objects, pending, prepared, faults>>

\* The destination is cleared: its locks go, unless something of it stays, and
\* the copies begin.  A job's payload records that the clearing is done.
Cleared(c) ==
    LET t == task[c]
        w == t.wish
    IN  /\ PhaseDone(c, "clear")
        /\ locks' = IF w.by = "job" THEN locks
                    ELSE locks \ (Unmapped(t.done) \union
                                  IF t.failed THEN {} ELSE LocksBelow(w.dst))
        /\ IF t.failed THEN Go(c, "over", {})
           ELSE Go(c, "copy", IF w.by = "job" THEN Tree(w.path) ELSE Sources(t))
        /\ prepared' = IF w.by = "job" /\ ~t.failed THEN prepared \union {w} ELSE prepared
        /\ UNCHANGED <<req, issued, begun, objects, pending, faults>>

\* Mutant: a MOVE deletes whatever it has listed.
ToDropAll(t) == In(t.snap)

\* What a MOVE deletes: the handler what it has copied, the file manager the
\* file, a job what its source holds now.
ToDrop(t) ==
    IF t.wish.by = "dav" THEN t.done \intersect In(t.snap)
    ELSE IF t.wish.by = "fm" THEN {t.wish.path} ELSE Tree(t.wish.path)

Copied(c) ==
    LET t == task[c]
    IN  /\ PhaseDone(c, "copy")
        /\ locks' = IF t.wish.by = "dav" /\ DirectReplace(t) /\ t.done # {}
                    THEN locks \ LocksBelow(t.wish.dst) ELSE locks
        /\ IF t.wish.op = "copy" \/ (t.wish.by # "dav" /\ t.failed) THEN Go(c, "over", {})
           ELSE Go(c, "drop", ToDrop(t))
        /\ UNCHANGED <<req, issued, begun, objects, pending, prepared, faults>>

\* deleteUnmappedLocks, and deleteLocks if nothing failed.
Dropped(c) ==
    LET t == task[c]
    IN  /\ PhaseDone(c, "drop")
        /\ locks' = IF t.wish.by # "dav" THEN locks
                    ELSE locks \ (Unmapped(t.done) \union
                                  IF t.failed THEN {} ELSE LocksBelow(t.wish.path))
        /\ Go(c, "over", {})
        /\ UNCHANGED <<req, issued, begun, objects, pending, prepared, faults>>

\* The process stops: guards and waiters are gone, locks, intents and jobs stay.
Crash ==
    /\ Restart /\ Fault
    /\ task' = [c \in Clients |-> None]
    /\ UNCHANGED <<objects, pending, prepared>>

\* UNLOCK; a lock whose time is up goes the same way.
Drops(lock) == Unlock(lock) /\ UNCHANGED treeVars

\* FinalizeDeletedBucket: the rows of a bucket go at once, and under no guard.
FinalizeBucket ==
    /\ \E p \in Doomed : Mapped(p)
    /\ \A p \in Doomed : pending[p] = None
    /\ objects' = [p \in Paths |-> IF p \in Doomed THEN None ELSE objects[p]]
    /\ UNCHANGED <<vars, pending, task, prepared, faults>>

Serve(c) ==
    /\ Serving(c)
    /\ \E q \in NextDue(task[c]) :
          StartWrite(c, q) \/ StartDelete(c, q) \/ Denied(c, q)

Work(c) ==
    \/ CreateLock(c) \/ Store(c) \/ Recheck(c) \/ Refuse(c) \/ Leave(c)
    \/ Serve(c) \/ Commit(c) \/ CommitOnly(c) \/ Abort(c) \/ Hold(c)
    \/ Made(c) \/ Cleared(c) \/ Copied(c) \/ Dropped(c)

TreeNext ==
    \/ \E c \in {idle \in Clients : req[idle] = None /\ begun < MaxRequests}, w \in Requests :
          \/ \E tokens \in {{}, 1..issued} : Prepare(c, w, tokens)
          \/ PrepareExternal(c, w)
          \/ \E depth \in Depths : PrepareLock(c, w, depth)
    \/ \E c \in Clients : Work(c)
    \/ \E p \in Paths : Recover(p)
    \/ \E lock \in locks : Drops(lock)
    \/ Crash

TreeSpec == TreeInit /\ [][TreeNext]_allVars

\* A mount some of whose objects lie in a bucket that is removed meanwhile.
DoomedSpec == TreeInit /\ [][TreeNext \/ FinalizeBucket \/ \E c \in Clients : HangUp(c)]_allVars

-----------------------------------------------------------------------------
(* Properties.                                                             *)

\* checkWebDAVWriteNamespace: the index stays a tree, with nothing below a file,
\* whatever is written, in doubt and recovered at the same time.
TreeWellFormed ==
    \A p \in Paths : Mapped(p) /\ objects[p].kind = "file" => Tree(p) = {p}

\* A lock protects its resource and the membership of a collection: a WebDAV
\* request that changes what a lock covers, or adds a member to or takes one from
\* a collection it covers, has shown the lock's token, even if the lock or the
\* collection came into being after the request had looked.
LocksProtect ==
    [][\A c \in Clients :
          (/\ InCall(c) /\ task[c].wish.by = "dav"
           /\ objects'[Written(c)] # objects[Written(c)]) =>
             \A p \in Paths :
                LET changed == (IF objects'[p] # objects[p] THEN {p} ELSE {})
                               \union IF Exists(p)' # Exists(p) THEN {p, Parent(p)} ELSE {}
                IN  \A lock \in locks :
                       (\E q \in changed : Covers(lock, q)) => lock.token \in req[c].tokens
      ]_allVars

\* Nothing that a MOVE was asked to move gets lost: an object that it takes from
\* its source is at its destination, whichever of its steps failed or were
\* repeated by a later attempt of a job.
MoveKeepsContent ==
    [][\A c \in Clients :
          InCall(c) /\ task[c].wish.op = "move" /\ task[c].phase = "drop" =>
             \A q \in Below(task[c].wish.path) :
                objects[q] # None /\ objects'[q] = None =>
                   objects[Image(task[c].wish.path, task[c].wish.dst, q)] = objects[q]
      ]_allVars

\* Without faults no lock is left on what does not exist: deletions take every
\* lock with them that loses its resource, its own and those of collections that
\* vanish, and nobody removes the resource under a LOCK that is being answered.
LocksRooted ==
    faults = 0 =>
        \A lock \in locks :
            \/ Exists(lock.root)
            \/ \E c \in Clients : req[c] # None /\ req[c].own = lock.token

\* Rows, locks and requests have their type, the index stays a tree and locks go
\* with what they are on.
TreeSound == TreeTypeOK /\ TreeWellFormed /\ LocksRooted

\* "Nested storage calls still perform lock cleanup, but do not acquire the same
\* non-reentrant path guard again": no request waits for itself.
NoSelfWait == \A c \in Clients : ~WaitsForItself(c)

=============================================================================
