--------------------------- MODULE WebDAVTreeProofs ---------------------------
(***************************************************************************)
(* The WebDAV mount of WebDAVLocks and WebDAVTree, for any set of names,   *)
(* any tree of paths over them, finite or not, any number of clients and   *)
(* any requests.                                                           *)
(*                                                                         *)
(*  - The lock store alone: locks, mutations in flight and what they have  *)
(*    checked stay disjoint (IInv, LockStore).  Nothing is assumed there   *)
(*    of the tree but that being at or below is reflexive and transitive   *)
(*    (LocksAssumption).                                                   *)
(*  - Paths: prefixes of sequences, chains of ancestors, images of trees.  *)
(*  - The invariant of the tree (TreeInv).  A handler looks at the index,  *)
(*    registers paths, looks again, and then calls the service, path by    *)
(*    path, while other clients go on.  TreeInv says of every handler, at  *)
(*    each phase, which facts about the index its registered paths are to  *)
(*    cover (Creatable, Anchored, Inside, Kept), and of the index that     *)
(*    nothing lies below a file.  These facts hold at the second look, and *)
(*    survive the steps of the others because those keep to paths of their *)
(*    own: MutationsDisjoint, from IInv, is what makes TreeInv inductive.  *)
(*  - What follows: the mount is sound, no request waits for the guard it  *)
(*    holds itself, a MOVE loses nothing, and locks protect what they      *)
(*    cover.                                                               *)
(*                                                                         *)
(* A step that changes one client is proved by lemmas of three kinds: the  *)
(* fields of the record it leaves behind (...Fields), that the facts of    *)
(* the other clients stay (...Keeps, OwnStep, QuietStep), and its own      *)
(* client's facts (...Step).                                               *)
(***************************************************************************)
EXTENDS WebDAVTree, SumTheorems, SequenceTheorems
\* What a mutation checks for locks, it also registers, so that locks requested
\* later wait for it.
KeysRegistered == \A c \in Clients : req[c] # None => req[c].lockKeys \subseteq req[c].keys

IInv ==
    /\ TypeOK
    /\ KeysRegistered
    /\ LocksDisjoint /\ MutationsDisjoint /\ LocksHonoured

-----------------------------------------------------------------------------
\* Fewer locks and fewer mutations in flight disturb nothing.
LEMMA Shrinks ==
    ASSUME LocksDisjoint, MutationsDisjoint, LocksHonoured,
           locks' \subseteq locks,
           \A c \in Running' : /\ c \in Running
                               /\ req'[c].keys = req[c].keys
                               /\ req'[c].lockKeys = req[c].lockKeys
                               /\ req'[c].tokens = req[c].tokens
    PROVE  LocksDisjoint' /\ MutationsDisjoint' /\ LocksHonoured'
<1>1. LocksDisjoint'
  BY DEF LocksDisjoint, Covers, AtOrBelow
<1>2. MutationsDisjoint'
  <2> SUFFICES ASSUME NEW c \in Running', NEW d \in Running', c # d,
                      NEW k \in req'[c].keys, NEW j \in req'[d].keys
               PROVE  ~AtOrBelow(k, j)
    BY DEF MutationsDisjoint, AtOrBelow
  <2> QED
    BY DEF MutationsDisjoint, AtOrBelow
<1>3. LocksHonoured'
  <2> SUFFICES ASSUME NEW c \in Running', NEW lock \in locks',
                      NEW k \in req'[c].lockKeys, Covers(lock, k)
               PROVE  lock.token \in req'[c].tokens
    BY DEF LocksHonoured, Permitted, Covers, AtOrBelow
  <2> QED
    BY DEF LocksHonoured, Permitted
<1> QED
  BY <1>1, <1>2, <1>3

\* A request is well typed and registers what it checks.
LEMMA RequestTypes ==
    ASSUME TypeOK, KeysRegistered, NEW c \in Clients, NEW r,
           r \in Request, r.lockKeys \subseteq r.keys,
           req' = [req EXCEPT ![c] = r]
    PROVE  req' \in [Clients -> Request \union {None}] /\ KeysRegistered'
BY DEF TypeOK, KeysRegistered

\* A request that ends leaves the others as they are.
LEMMA FinishTypes ==
    ASSUME TypeOK, KeysRegistered, NEW c \in Clients, Finish(c)
    PROVE  /\ req' \in [Clients -> Request \union {None}] /\ KeysRegistered'
           /\ \A d \in Clients : req'[d] # None => req'[d] = req[d]
BY DEF TypeOK, KeysRegistered, Finish

\* A chain of ancestors lies in the tree.
LEMMA UpwardPaths == ASSUME NEW key, NEW top PROVE Upward(key, top) \subseteq Paths
BY DEF Upward

-----------------------------------------------------------------------------
\* A request that begins runs no mutation yet.
LEMMA BeginStep ==
    ASSUME IInv, NEW c \in Clients, NEW r, r \in Request, Begin(c, r),
           r.pc # "running", r.lockKeys \subseteq r.keys
    PROVE  IInv'
<1>1. req' = [req EXCEPT ![c] = r] /\ UNCHANGED <<locks, issued>> /\ begun' = begun + 1
  BY DEF Begin
<1>2. req' \in [Clients -> Request \union {None}] /\ KeysRegistered'
  BY <1>1, RequestTypes DEF IInv
<1>3. TypeOK'
  BY <1>1, <1>2 DEF IInv, TypeOK
<1>4. \A d \in Running' : d \in Running /\ req'[d] = req[d]
  BY <1>1 DEF Running, IInv, TypeOK
<1>5. LocksDisjoint' /\ MutationsDisjoint' /\ LocksHonoured'
  BY <1>1, <1>4, Shrinks DEF IInv
<1> QED
  BY <1>2, <1>3, <1>5 DEF IInv

\* A new request has nothing registered yet.
LEMMA ArriveStep ==
    ASSUME IInv, NEW c \in Clients, Arrive(c)
    PROVE  IInv'
<1>1. ASSUME NEW root \in Paths, NEW depth \in Depths, BeginLock(c, root, depth)
      PROVE  IInv'
  BY <1>1, BeginStep DEF BeginLock, Request, NoToken
<1>2. ASSUME NEW key \in Paths, NEW top \in Paths, NEW tokens \in SUBSET (1..issued),
             NEW inside \in {{}, Below(key)}, NEW named \in {{}} \union {{p} : p \in Paths},
             BeginMutation(c, key, top, inside, named, tokens)
      PROVE  IInv'
  <2> DEFINE lockKeys == Upward(key, top) \union inside
             r == [op |-> "mutate", pc |-> "guard", parked |-> FALSE, root |-> key,
                   depth |-> "zero", lockKeys |-> lockKeys,
                   keys |-> lockKeys \union named, tokens |-> tokens,
                   own |-> NoToken]
  <2>1. tokens \subseteq Tokens
    BY DEF Tokens, IInv, TypeOK
  <2>2. lockKeys \subseteq Paths /\ lockKeys \union named \subseteq Paths
    BY UpwardPaths DEF Below
  <2>3. r \in Request
    <3> HIDE DEF lockKeys
    <3> QED  BY <2>1, <2>2 DEF Request, Depths, NoToken
  <2>4. Begin(c, r) /\ r.pc # "running" /\ r.lockKeys \subseteq r.keys
    BY <1>2 DEF BeginMutation
  <2> QED
    BY <2>3, <2>4, BeginStep
<1>3. ASSUME NEW key \in Paths, NEW top \in Paths, BeginExternal(c, key, top)
      PROVE  IInv'
  <2> DEFINE r == [op |-> "mutate", pc |-> "guard", parked |-> FALSE, root |-> key,
                   depth |-> "zero", lockKeys |-> {}, keys |-> Upward(key, top),
                   tokens |-> {}, own |-> NoToken]
  <2>1. r \in Request
    BY UpwardPaths DEF Request, Depths, NoToken
  <2>2. Begin(c, r) /\ r.pc # "running" /\ r.lockKeys \subseteq r.keys
    BY <1>3 DEF BeginExternal
  <2> QED
    BY <2>1, <2>2, BeginStep
<1> QED
  BY <1>1, <1>2, <1>3 DEF Arrive

\* A request that waits, is refused or is given up leaves only fewer locks.
LEMMA ParkStep ==
    ASSUME IInv, NEW c \in Clients, req[c] # None, Park(c)
    PROVE  IInv'
<1> DEFINE r == [req[c] EXCEPT !.parked = TRUE]
<1>1. r \in Request /\ r.lockKeys \subseteq r.keys
  BY DEF IInv, TypeOK, Request, KeysRegistered
<1>2. req' = [req EXCEPT ![c] = r] /\ UNCHANGED <<locks, issued, begun>>
  BY DEF Park
<1>3. req' \in [Clients -> Request \union {None}] /\ KeysRegistered'
  BY <1>1, <1>2, RequestTypes DEF IInv
<1>4. TypeOK'
  BY <1>2, <1>3 DEF IInv, TypeOK
<1>5. \A d \in Running' : /\ d \in Running
                          /\ req'[d].keys = req[d].keys
                          /\ req'[d].lockKeys = req[d].lockKeys
                          /\ req'[d].tokens = req[d].tokens
  BY <1>1, <1>2 DEF Running, IInv, TypeOK, Request
<1>6. LocksDisjoint' /\ MutationsDisjoint' /\ LocksHonoured'
  BY <1>2, <1>5, Shrinks DEF IInv
<1> QED
  BY <1>3, <1>4, <1>6 DEF IInv

\* A request ends, and only takes locks away.
LEMMA FinishStep ==
    ASSUME IInv, NEW c \in Clients, Finish(c), locks' \subseteq locks,
           UNCHANGED <<issued, begun>>
    PROVE  IInv'
<1>1. /\ req' \in [Clients -> Request \union {None}] /\ KeysRegistered'
      /\ \A d \in Clients : req'[d] # None => req'[d] = req[d]
  BY FinishTypes DEF IInv
<1>2. TypeOK'
  BY <1>1 DEF IInv, TypeOK
<1>3. \A d \in Running' : d \in Running /\ req'[d] = req[d]
  BY <1>1 DEF Running
<1>4. LocksDisjoint' /\ MutationsDisjoint' /\ LocksHonoured'
  BY <1>3, Shrinks DEF IInv
<1> QED
  BY <1>1, <1>2, <1>4 DEF IInv

\* The step that matters for locks: a lock that waited for every mutation that
\* overlaps it covers no path a running one has checked.
LEMMA CreateStep ==
    ASSUME IInv, NEW c \in Clients, NEW top \in Paths, Create(c, top)
    PROVE  IInv'
<1> DEFINE new == NewLock(c)
           chain == Upward(req[c].root, top)
           r == [req[c] EXCEPT !.pc = "guard", !.own = issued + 1,
                               !.tokens = @ \union {issued + 1},
                               !.lockKeys = chain, !.keys = chain]
<1>1. req[c] \in Request /\ req[c].pc = "create"
  BY DEF Create, At, IInv, TypeOK
<1>2. new \in Lock
  BY <1>1 DEF NewLock, Lock, Request, Tokens, IInv, TypeOK
<1>3. issued + 1 \in Tokens /\ issued + 1 \in Nat
  BY DEF Tokens, IInv, TypeOK
<1>4. r \in Request /\ r.lockKeys \subseteq r.keys /\ r.pc = "guard"
  <2>1. chain \subseteq Paths
    BY UpwardPaths
  <2> HIDE DEF chain
  <2> QED  BY <1>1, <1>3, <2>1 DEF Request
<1>5. req' = [req EXCEPT ![c] = r] /\ locks' = locks \union {new}
      /\ issued' = issued + 1 /\ UNCHANGED begun
  BY <1>1 DEF Create, Request
<1>6. req' \in [Clients -> Request \union {None}] /\ KeysRegistered'
  <2> HIDE DEF r
  <2> QED  BY <1>4, <1>5, RequestTypes DEF IInv
<1>7. TypeOK'
  BY <1>2, <1>3, <1>5, <1>6 DEF IInv, TypeOK
<1>8. \A d \in Running' : d \in Running /\ req'[d] = req[d]
  <2> HIDE DEF r
  <2> QED  BY <1>4, <1>5 DEF Running, IInv, TypeOK
<1>9. LocksDisjoint'
  <2>1. \A old \in locks : ~Covers(old, new.root) /\ ~Covers(new, old.root)
    BY DEF Create, Conflicts
  <2> HIDE DEF new
  <2> QED
    BY <1>5, <2>1 DEF LocksDisjoint, IInv, Covers, AtOrBelow
<1>10. MutationsDisjoint'
  BY <1>8 DEF MutationsDisjoint, IInv, AtOrBelow
<1>11. LocksHonoured'
  <2> SUFFICES ASSUME NEW d \in Running', NEW lock \in locks',
                      NEW k \in req'[d].lockKeys, Covers(lock, k)
               PROVE  lock.token \in req'[d].tokens
    BY DEF LocksHonoured, Permitted, Covers, AtOrBelow
  <2>1. d \in Running /\ req'[d] = req[d] /\ d \in Clients /\ req[d] # None
    BY <1>8 DEF Running
  <2>2. CASE lock \in locks
    BY <2>1, <2>2 DEF IInv, LocksHonoured, Permitted
  <2>3. CASE lock = new
    <3>1. k \in req[d].keys
      BY <2>1 DEF IInv, KeysRegistered
    <3>2. Covers([root |-> req[c].root, depth |-> req[c].depth], k)
      BY <2>3 DEF NewLock, Covers
    <3>3. ~MutationOverlaps(req[c].root, req[c].depth)
      BY DEF Create
    <3> QED
      BY <2>1, <3>1, <3>2, <3>3 DEF MutationOverlaps
  <2> QED
    BY <1>5, <2>2, <2>3
<1> QED
  BY <1>6, <1>7, <1>9, <1>10, <1>11 DEF IInv

\* The step that matters for mutations: it starts when no other touches its
\* paths and every covering lock is its own.
LEMMA GuardStep ==
    ASSUME IInv, NEW c \in Clients, Guard(c)
    PROVE  IInv'
<1> DEFINE r == [req[c] EXCEPT !.pc = "running"]
<1>1. req[c] # None /\ req[c] \in Request
  BY DEF Guard, At, IInv, TypeOK
<1>2. /\ r \in Request /\ r.lockKeys \subseteq r.keys
      /\ r.keys = req[c].keys /\ r.lockKeys = req[c].lockKeys /\ r.tokens = req[c].tokens
  BY <1>1 DEF Request, IInv, KeysRegistered
<1>3. req' = [req EXCEPT ![c] = r] /\ UNCHANGED <<locks, issued, begun>>
  BY DEF Guard
<1> HIDE DEF r
<1>4. req' \in [Clients -> Request \union {None}] /\ KeysRegistered'
  BY <1>2, <1>3, RequestTypes DEF IInv
<1>5. TypeOK'
  BY <1>3, <1>4 DEF IInv, TypeOK
<1>6. req'[c] = r /\ \A d \in Clients : d # c => req'[d] = req[d]
  BY <1>3 DEF IInv, TypeOK
<1>7. LocksDisjoint'
  BY <1>3 DEF IInv, LocksDisjoint, Covers, AtOrBelow
<1>8. MutationsDisjoint'
  <2> SUFFICES ASSUME NEW d \in Running', NEW e \in Running', d # e,
                      NEW k \in req'[d].keys, NEW j \in req'[e].keys
               PROVE  ~AtOrBelow(k, j)
    BY DEF MutationsDisjoint, AtOrBelow
  <2>1. d \in Clients /\ e \in Clients
    BY DEF Running
  <2>2. \A f \in Running : \A i \in req[f].keys, h \in req[c].keys :
            ~AtOrBelow(i, h) /\ ~AtOrBelow(h, i)
    BY DEF Guard, MutationPathsOverlap
  <2>3. CASE d # c /\ e # c
    <3>1. d \in Running /\ e \in Running /\ req'[d] = req[d] /\ req'[e] = req[e]
      BY <1>6, <2>1, <2>3 DEF Running
    <3> QED
      BY <3>1 DEF IInv, MutationsDisjoint
  <2>4. CASE d = c
    <3>1. e \in Running /\ req'[e] = req[e]
      BY <1>6, <2>1, <2>4 DEF Running
    <3> QED
      BY <1>2, <1>6, <2>2, <2>4, <3>1
  <2>5. CASE e = c
    <3>1. d \in Running /\ req'[d] = req[d]
      BY <1>6, <2>1, <2>5 DEF Running
    <3> QED
      BY <1>2, <1>6, <2>2, <2>5, <3>1
  <2> QED
    BY <2>3, <2>4, <2>5
<1>9. LocksHonoured'
  <2> SUFFICES ASSUME NEW d \in Running', NEW lock \in locks,
                      NEW k \in req'[d].lockKeys, Covers(lock, k)
               PROVE  lock.token \in req'[d].tokens
    BY <1>3 DEF LocksHonoured, Permitted, Covers, AtOrBelow
  <2>1. CASE d = c
    BY <1>2, <1>6, <2>1 DEF Guard, Permitted
  <2>2. CASE d # c
    <3>1. d \in Running /\ req'[d] = req[d]
      BY <1>6, <2>2 DEF Running
    <3> QED
      BY <3>1 DEF IInv, LocksHonoured, Permitted
  <2> QED
    BY <2>1, <2>2
<1> QED
  BY <1>4, <1>5, <1>7, <1>8, <1>9 DEF IInv

\* Release: the removals of the mutation and the end of its request.
LEMMA ReleaseStep ==
    ASSUME IInv, NEW c \in Clients, Release(c)
    PROVE  IInv'
<1>1. UNCHANGED <<locks, issued, begun>>
  BY DEF Release
<1>2. \A d \in Clients : \/ req'[d] = None
                         \/ req[d] # None /\ req'[d] = [req[d] EXCEPT !.parked = FALSE]
  BY DEF Release
<1>3. \A d \in Clients : req'[d] # None =>
        /\ req'[d] \in Request /\ req[d] # None
        /\ req'[d].pc = req[d].pc /\ req'[d].keys = req[d].keys
        /\ req'[d].lockKeys = req[d].lockKeys /\ req'[d].tokens = req[d].tokens
  <2> SUFFICES ASSUME NEW d \in Clients, req'[d] # None
               PROVE  /\ req'[d] \in Request /\ req[d] # None
                      /\ req'[d].pc = req[d].pc /\ req'[d].keys = req[d].keys
                      /\ req'[d].lockKeys = req[d].lockKeys
                      /\ req'[d].tokens = req[d].tokens
    OBVIOUS
  <2>1. req[d] # None /\ req[d] \in Request /\ req'[d] = [req[d] EXCEPT !.parked = FALSE]
    BY <1>2 DEF IInv, TypeOK
  <2> QED
    BY <2>1 DEF Request
<1>4. req' \in [Clients -> Request \union {None}]
  <2>1. ASSUME NEW d \in Clients
        PROVE  (IF d = c \/ req[d] = None THEN None ELSE [req[d] EXCEPT !.parked = FALSE])
                  \in Request \union {None}
    <3>1. CASE d = c \/ req[d] = None
      BY <3>1
    <3>2. CASE ~(d = c \/ req[d] = None)
      <4>1. req[d] \in Request
        BY <3>2 DEF IInv, TypeOK
      <4>2. [req[d] EXCEPT !.parked = FALSE] \in Request
        BY <4>1 DEF Request
      <4> QED
        BY <3>2, <4>2
    <3> QED
      BY <3>1, <3>2
  <2> QED
    BY <2>1 DEF Release
<1>5. TypeOK' /\ KeysRegistered'
  BY <1>1, <1>3, <1>4 DEF IInv, TypeOK, KeysRegistered
<1>6. LocksDisjoint' /\ MutationsDisjoint' /\ LocksHonoured'
  BY <1>1, <1>3, Shrinks DEF IInv, Running
<1> QED
  BY <1>5, <1>6 DEF IInv

\* Locks go.
LEMMA LocksGo ==
    ASSUME IInv, locks' \subseteq locks, UNCHANGED <<req, issued, begun>>
    PROVE  IInv'
<1>1. TypeOK' /\ KeysRegistered'
  BY DEF IInv, TypeOK, KeysRegistered
<1>2. LocksDisjoint' /\ MutationsDisjoint' /\ LocksHonoured'
  BY Shrinks DEF IInv, Running
<1> QED
  BY <1>1, <1>2 DEF IInv

\* The memory of the process goes, the locks stay or expire.
LEMMA RestartStep ==
    ASSUME IInv, Restart
    PROVE  IInv'
<1>1. TypeOK' /\ KeysRegistered'
  BY DEF IInv, TypeOK, KeysRegistered, Restart
<1>2. Running' = {}
  BY DEF Running, Restart
<1>3. LocksDisjoint' /\ MutationsDisjoint' /\ LocksHonoured'
  BY <1>2, Shrinks DEF IInv, Restart
<1> QED
  BY <1>1, <1>3 DEF IInv

\* Every step of a request in flight.
LEMMA StepInv ==
    ASSUME IInv, NEW c \in Clients, Step(c)
    PROVE  IInv'
<1>1. CASE CreateWaits(c) \/ GuardWaits(c)
  BY <1>1, ParkStep DEF CreateWaits, GuardWaits, At
<1>2. CASE CreateRefused(c) \/ GuardRefused(c)
  BY <1>2, FinishStep DEF CreateRefused, GuardRefused
<1>3. ASSUME NEW top \in Paths, Create(c, top) PROVE IInv'
  BY <1>3, CreateStep
<1>4. CASE Guard(c)
  BY <1>4, GuardStep
<1>5. CASE Release(c)
  BY <1>5, ReleaseStep
<1> QED
  BY <1>1, <1>2, <1>3, <1>4, <1>5 DEF Step

\* The invariant at the start.
LEMMA InitInv == Init => IInv
BY DEF Init, IInv, TypeOK, KeysRegistered, LocksDisjoint, MutationsDisjoint,
       LocksHonoured, Running

\* The invariant, step by step.
LEMMA NextInv == IInv /\ [Next]_vars => IInv'
<1> SUFFICES ASSUME IInv, [Next]_vars PROVE IInv'
  OBVIOUS
<1>1. ASSUME NEW c \in Clients, Cancel(c) PROVE IInv'
  BY <1>1, FinishStep DEF Cancel
<1>2. ASSUME NEW c \in Clients, NEW gone \in SUBSET locks, RemoveLocks(c, gone) PROVE IInv'
  BY <1>2, LocksGo DEF RemoveLocks
<1>3. ASSUME NEW lock \in locks, Unlock(lock) \/ Expire(lock) PROVE IInv'
  BY <1>3, LocksGo DEF Unlock, Expire
<1>4. CASE UNCHANGED vars
  BY <1>4, LocksGo DEF vars
<1> QED
  BY <1>1, <1>2, <1>3, <1>4, ArriveStep, StepInv, RestartStep DEF Next

\* The invariant of the lock store.
THEOREM LockStore == Spec => []IInv
BY InitInv, NextInv, PTL DEF Spec

\* Create and activeLocks: two locks are never in each other's scope, for every
\* tree of paths and any history of expiries, removals and restarts.
THEOREM ExclusiveLocks == Spec => []LocksDisjoint
<1>1. IInv => LocksDisjoint
  BY DEF IInv
<1> QED
  BY <1>1, LockStore, PTL

\* GuardPaths: mutations in flight, of WebDAV, the file manager and jobs alike,
\* never touch each other's trees.
THEOREM ExclusiveMutations == Spec => []MutationsDisjoint
<1>1. IInv => MutationsDisjoint
  BY DEF IInv
<1> QED
  BY <1>1, LockStore, PTL

\* What GuardPaths checked once holds until Release: no lock whose token the
\* request did not show ever covers a path it checked.
THEOREM CheckedLocksStay == Spec => []LocksHonoured
<1>1. IInv => LocksHonoured
  BY DEF IInv
<1> QED
  BY <1>1, LockStore, PTL

\* Create waits: no step puts a lock on, around or below the paths of a mutation
\* that is in flight.
THEOREM LocksWait == Spec => NoLockOnRunning
<1>1. ASSUME IInv, [Next]_vars
      PROVE  [\A lock \in locks' \ locks, c \in Running :
                 \A k \in req[c].keys : ~Covers(lock, k) /\ ~AtOrBelow(lock.root, k)]_vars
  <2> SUFFICES ASSUME Next, NEW lock \in locks' \ locks, NEW d \in Running,
                      NEW k \in req[d].keys
               PROVE  ~Covers(lock, k) /\ ~AtOrBelow(lock.root, k)
    BY <1>1
  <2>1. ASSUME NEW c \in Clients, NEW top \in Paths, Create(c, top)
        PROVE  ~Covers(lock, k) /\ ~AtOrBelow(lock.root, k)
    <3>1. lock.root = req[c].root /\ lock.depth = req[c].depth
      BY <2>1 DEF Create, NewLock
    <3>2. ~MutationOverlaps(req[c].root, req[c].depth)
      BY <2>1 DEF Create
    <3> QED
      BY <3>1, <3>2 DEF MutationOverlaps, Covers
  <2> QED
    BY <2>1 DEF Next, Arrive, Step, BeginLock, BeginMutation, BeginExternal, Begin,
       Cancel, RemoveLocks, Unlock, Expire, Restart, CreateWaits, CreateRefused,
       GuardWaits, GuardRefused, Guard, Release, Park
<1> QED
  BY <1>1, LockStore, PTL DEF Spec, NoLockOnRunning

-----------------------------------------------------------------------------
(* Paths.                                                                  *)

\* A path is a sequence of names.
LEMMA PathSeq ==
    ASSUME NEW p \in Paths
    PROVE  p \in Seq(Names) /\ Len(p) \in Nat /\ \A i \in 1..Len(p) : p[i] \in Names
BY TreeAssumption, LenProperties, ElementOfSeq

\* Being at or below, name by name.
LEMMA AtOrBelowIs ==
    ASSUME NEW p \in Paths, NEW q \in Paths
    PROVE  AtOrBelow(p, q) <=> Len(q) <= Len(p) /\ \A i \in 1..Len(q) : q[i] = p[i]
<1>1. AtOrBelow(p, q) <=> Len(q) <= Len(p) /\ SubSeq(q, 1, Len(q)) = SubSeq(p, 1, Len(q))
  BY TreeAssumption DEF AtOrBelow, IsPrefix
<1>2. SubSeq(q, 1, Len(q)) = q
  BY PathSeq, SubSeqFull
<1>3. ASSUME Len(q) <= Len(p)
      PROVE  /\ SubSeq(p, 1, Len(q)) \in Seq(Names)
             /\ Len(SubSeq(p, 1, Len(q))) = Len(q)
             /\ \A i \in 1..Len(q) : SubSeq(p, 1, Len(q))[i] = p[i]
  <2>1. \A i \in 1..Len(q) : p[i] \in Names
    BY <1>3, PathSeq
  <2>2. /\ SubSeq(p, 1, Len(q)) \in Seq(Names)
        /\ Len(SubSeq(p, 1, Len(q))) = IF 1 <= Len(q) THEN Len(q) - 1 + 1 ELSE 0
        /\ \A i \in 1..(Len(q) - 1 + 1) : SubSeq(p, 1, Len(q))[i] = p[1 + i - 1]
    BY <2>1, PathSeq, SubSeqProperties
  <2> QED
    BY <2>2, PathSeq
<1>4. ASSUME Len(q) <= Len(p), \A i \in 1..Len(q) : q[i] = p[i]
      PROVE  q = SubSeq(p, 1, Len(q))
  BY <1>3, <1>4, PathSeq, SeqEqual
<1> QED
  BY <1>1, <1>2, <1>3, <1>4

\* Being at or below is an order with the root on top, and what is above a path is a
\* chain.
LEMMA PathOrder ==
    ASSUME NEW p \in Paths
    PROVE  /\ AtOrBelow(p, p) /\ AtOrBelow(p, <<>>)
           /\ \A q, r \in Paths : AtOrBelow(p, q) /\ AtOrBelow(q, r) => AtOrBelow(p, r)
           /\ \A q \in Paths : AtOrBelow(p, q) /\ AtOrBelow(q, p) => p = q
           /\ \A q, r \in Paths : AtOrBelow(p, q) /\ AtOrBelow(p, r) => Nested(q, r)
<1>1. AtOrBelow(p, p) /\ \A q, r \in Paths : AtOrBelow(p, q) /\ AtOrBelow(q, r) => AtOrBelow(p, r)
  BY LocksAssumption DEF AtOrBelow
<1>2. AtOrBelow(p, <<>>)
  <2>1. <<>> \in Paths /\ Len(<<>>) = 0
    BY TreeAssumption, EmptySeq
  <2> QED
    BY <2>1, AtOrBelowIs, PathSeq
<1>3. ASSUME NEW q \in Paths, AtOrBelow(p, q), AtOrBelow(q, p) PROVE p = q
  BY <1>3, AtOrBelowIs, PathSeq, SeqEqual
<1>4. ASSUME NEW q \in Paths, NEW r \in Paths, AtOrBelow(p, q), AtOrBelow(p, r), Len(q) <= Len(r)
      PROVE  AtOrBelow(r, q)
  <2>1. \A i \in 1..Len(q) : q[i] = p[i] /\ r[i] = p[i]
    BY <1>4, AtOrBelowIs, PathSeq
  <2> QED
    BY <1>4, <2>1, AtOrBelowIs
<1>5. ASSUME NEW q \in Paths, NEW r \in Paths, AtOrBelow(p, q), AtOrBelow(p, r)
      PROVE  Nested(q, r)
  <2>1. Len(q) <= Len(r) \/ Len(r) <= Len(q)
    BY PathSeq
  <2> QED
    BY <1>4, <1>5, <2>1 DEF Nested
<1> QED
  BY <1>1, <1>2, <1>3, <1>5

\* The path above another.
LEMMA ParentAbove ==
    ASSUME NEW p \in Paths, p # <<>>
    PROVE  /\ Parent(p) \in Paths /\ Parent(p) # p /\ AtOrBelow(p, Parent(p))
           /\ Len(Parent(p)) = Len(p) - 1
           /\ \A q \in Paths : AtOrBelow(p, q) /\ q # p => AtOrBelow(Parent(p), q)
<1>1. Parent(p) \in Paths /\ Parent(p) = SubSeq(p, 1, Len(p) - 1)
  BY TreeAssumption DEF Parent, Front
<1>2. Len(p) \in Nat \ {0}
  BY PathSeq, EmptySeq
<1> DEFINE n == Len(p) - 1
<1>3. n \in Nat /\ \A i \in 1..n : p[i] \in Names
  BY <1>2, PathSeq
<1> HIDE DEF n
<1>4. /\ Len(SubSeq(p, 1, n)) = IF 1 <= n THEN n - 1 + 1 ELSE 0
      /\ \A i \in 1..(n - 1 + 1) : SubSeq(p, 1, n)[i] = p[1 + i - 1]
  BY <1>3, SubSeqProperties
<1>6. Len(Parent(p)) = n
  <2>1. Parent(p) = SubSeq(p, 1, n)
    BY <1>1 DEF n
  <2> QED
    BY <1>3, <1>4, <2>1
<1>7. ASSUME NEW i \in 1..Len(Parent(p)) PROVE Parent(p)[i] = p[i]
  <2>1. Parent(p) = SubSeq(p, 1, n)
    BY <1>1 DEF n
  <2>2. i \in 1..(n - 1 + 1) /\ 1 + i - 1 = i
    BY <1>3, <1>6
  <2> QED
    BY <1>4, <2>1, <2>2
<1>8. AtOrBelow(p, Parent(p)) /\ Parent(p) # p
  <2>1. Len(p) = n + 1
    BY <1>2 DEF n
  <2>2. Len(Parent(p)) <= Len(p) /\ Len(Parent(p)) # Len(p)
    BY <1>3, <1>6, <2>1
  <2> QED
    BY <1>1, <1>7, <2>2, AtOrBelowIs
<1>5. ASSUME NEW q \in Paths, AtOrBelow(p, q), q # p PROVE AtOrBelow(Parent(p), q)
  <2>1. Len(q) <= Len(p) /\ \A i \in 1..Len(q) : q[i] = p[i]
    BY <1>5, AtOrBelowIs
  <2>2. Len(q) # Len(p)
    BY <1>5, <2>1, PathSeq, SeqEqual
  <2>3. Len(q) <= n
    BY <1>2, <2>1, <2>2, PathSeq DEF n
  <2>4. \A i \in 1..Len(q) : q[i] = Parent(p)[i]
    BY <1>3, <1>6, <1>7, <2>1, <2>3, PathSeq
  <2> QED
    BY <1>1, <1>6, <2>3, <2>4, AtOrBelowIs
<1> QED
  BY <1>1, <1>5, <1>6, <1>8 DEF n

\* A path is shorter than what is below it.
LEMMA Shorter ==
    ASSUME NEW p \in Paths, NEW q \in Paths, AtOrBelow(p, q), p # q
    PROVE  Len(q) < Len(p)
<1>1. Len(q) <= Len(p)
  BY AtOrBelowIs
<1>2. CASE Len(q) = Len(p)
  <2>1. AtOrBelow(q, p)
    BY <1>2, AtOrBelowIs, PathSeq
  <2> QED
    BY <2>1, PathOrder
<1> QED
  BY <1>1, <1>2, PathSeq

\* Among paths of bounded length there is a longest, by descent on the bound.
LEMMA Longest ==
    ASSUME NEW S \in SUBSET Paths, S # {}, NEW m \in Nat, \A a \in S : Len(a) <= m
    PROVE  \E a \in S : \A r \in S : Len(r) <= Len(a)
<1> SUFFICES ASSUME \A a \in S : \E r \in S : ~(Len(r) <= Len(a)) PROVE FALSE
  OBVIOUS
<1> DEFINE C == {n \in Nat : \A a \in S : Len(a) + n <= m}
<1>1. 0 \in C
  BY PathSeq
<1>2. ASSUME NEW n \in C PROVE n + 1 \in C
  <2> SUFFICES ASSUME NEW a \in S PROVE Len(a) + (n + 1) <= m
    OBVIOUS
  <2>1. PICK r \in S : ~(Len(r) <= Len(a))
    OBVIOUS
  <2>2. Len(r) + n <= m /\ Len(r) \in Nat /\ Len(a) \in Nat /\ n \in Nat
    BY <1>2, PathSeq
  <2> QED
    BY <2>1, <2>2
<1> HIDE DEF C
<1>3. C = Nat
  BY <1>1, <1>2, Reaches DEF C
<1>4. m + 1 \in C
  BY <1>3
<1> QED
  BY <1>4, PathSeq DEF C

\* Among any paths there is a shortest.
LEMMA Shortest ==
    ASSUME NEW S \in SUBSET Paths, S # {}
    PROVE  \E a \in S : \A r \in S : Len(a) <= Len(r)
<1> SUFFICES ASSUME \A a \in S : \E r \in S : ~(Len(a) <= Len(r)) PROVE FALSE
  OBVIOUS
<1> DEFINE C == {n \in Nat : \A a \in S : Len(a) >= n}
<1>1. 0 \in C
  BY PathSeq
<1>2. ASSUME NEW n \in C PROVE n + 1 \in C
  <2> SUFFICES ASSUME NEW a \in S PROVE Len(a) >= n + 1
    OBVIOUS
  <2>1. PICK r \in S : ~(Len(a) <= Len(r))
    OBVIOUS
  <2>2. Len(r) >= n /\ Len(r) \in Nat /\ Len(a) \in Nat /\ n \in Nat
    BY <1>2, PathSeq
  <2> QED
    BY <2>1, <2>2
<1> HIDE DEF C
<1>3. C = Nat
  BY <1>1, <1>2, Reaches DEF C
<1>4. PICK a \in S : TRUE
  OBVIOUS
<1>5. Len(a) \in Nat /\ Len(a) + 1 \in C
  BY <1>3, PathSeq
<1> QED
  BY <1>4, <1>5 DEF C

\* The lowest proper ancestor of p that is in G: those below it are not, and it is the
\* parent of p or of one of them.
LEMMA Lowest ==
    ASSUME NEW p \in Paths, p # <<>>, NEW G, <<>> \in G
    PROVE  \E a \in Ancestors(p) \ {p} :
              /\ a \in G
              /\ \A r \in Ancestors(p) \ {p} : AtOrBelow(r, a) /\ r # a => r \notin G
              /\ \E b \in Ancestors(p) : /\ b # <<>> /\ Parent(b) = a
                                         /\ b = p \/ b \notin G
<1>1. /\ \A a \in Ancestors(p) : a \in Paths /\ AtOrBelow(p, a) /\ Len(a) \in Nat
      /\ p \in Ancestors(p)
  BY PathSeq, PathOrder DEF Ancestors
<1> DEFINE S == {a \in Ancestors(p) \ {p} : a \in G}
<1>2. S \in SUBSET Paths /\ S # {}
  BY <1>1, TreeAssumption, PathOrder DEF Ancestors
<1>3. Len(p) \in Nat /\ \A a \in S : Len(a) <= Len(p)
  BY <1>1, PathSeq, AtOrBelowIs
<1> HIDE DEF S
<1>4. PICK a \in S : \A r \in S : Len(r) <= Len(a)
  BY <1>2, <1>3, Longest
<1>5. a \in Ancestors(p) \ {p} /\ a \in G /\ a \in Paths /\ AtOrBelow(p, a)
  BY <1>1 DEF S
<1>6. ASSUME NEW r \in Ancestors(p) \ {p}, AtOrBelow(r, a), r # a PROVE r \notin G
  <2>1. Len(a) < Len(r)
    BY <1>1, <1>5, <1>6, Shorter
  <2> QED
    BY <1>1, <1>4, <1>5, <2>1 DEF S
<1> DEFINE T == {r \in Ancestors(p) : AtOrBelow(r, a) /\ r # a}
<1>7. T \in SUBSET Paths /\ p \in T
  BY <1>1, <1>5
<1> HIDE DEF T
<1>8. PICK b \in T : \A r \in T : Len(b) <= Len(r)
  BY <1>7, Shortest
<1>9. b \in Paths /\ AtOrBelow(p, b) /\ AtOrBelow(b, a) /\ b # a
  BY <1>1, <1>8 DEF T
<1>10. b # <<>>
  BY <1>5, <1>9, PathOrder
<1>11. Parent(b) \in Paths /\ AtOrBelow(p, Parent(b)) /\ AtOrBelow(Parent(b), a)
       /\ Len(Parent(b)) = Len(b) - 1
  BY <1>5, <1>9, <1>10, ParentAbove, PathOrder
<1>12. Parent(b) \notin T
  BY <1>8, <1>9, <1>11, PathSeq
<1>13. Parent(b) = a
  BY <1>11, <1>12 DEF T, Ancestors
<1>14. b = p \/ b \notin G
  BY <1>6, <1>9 DEF Ancestors
<1>15. b \in Ancestors(p)
  BY <1>9 DEF Ancestors
<1> QED
  BY <1>5, <1>6, <1>10, <1>13, <1>14, <1>15

\* The image of a tree.
LEMMA ImageFacts ==
    ASSUME NEW from \in Paths, NEW to \in Paths, NEW q \in Paths, AtOrBelow(q, from),
           Image(from, to, q) \in Paths
    PROVE  /\ AtOrBelow(Image(from, to, q), to)
           /\ Len(Image(from, to, q)) = Len(to) + Len(q) - Len(from)
           /\ \A i \in 1..(Len(q) - Len(from)) : Image(from, to, q)[Len(to) + i] = q[Len(from) + i]
<1> DEFINE rest == SubSeq(q, Len(from) + 1, Len(q))
<1>1. Len(from) \in Nat /\ Len(q) \in Nat /\ Len(from) <= Len(q) /\ Len(to) \in Nat
  BY PathSeq, AtOrBelowIs
<1>2. /\ rest \in Seq(Names) /\ Len(rest) = Len(q) - Len(from)
      /\ \A i \in 1..(Len(q) - Len(from)) : rest[i] = q[Len(from) + i]
  <2>1. \A i \in (Len(from) + 1)..Len(q) : q[i] \in Names
    BY <1>1, PathSeq
  <2>2. /\ rest \in Seq(Names)
        /\ Len(rest) = IF Len(from) + 1 <= Len(q) THEN Len(q) - (Len(from) + 1) + 1 ELSE 0
        /\ \A i \in 1..(Len(q) - (Len(from) + 1) + 1) : rest[i] = q[(Len(from) + 1) + i - 1]
    BY <1>1, <2>1, SubSeqProperties
  <2> QED
    BY <1>1, <2>2
<1> HIDE DEF rest
<1>3. Image(from, to, q) = to \o rest
  BY DEF Image, rest
<1>4. /\ Len(to \o rest) = Len(to) + Len(rest)
      /\ \A i \in 1..(Len(to) + Len(rest)) :
            (to \o rest)[i] = IF i <= Len(to) THEN to[i] ELSE rest[i - Len(to)]
  BY <1>2, PathSeq, ConcatProperties
<1>5. AtOrBelow(Image(from, to, q), to)
  <2>1. \A i \in 1..Len(to) : to[i] = (to \o rest)[i]
    BY <1>1, <1>2, <1>4
  <2>2. Len(to) <= Len(to \o rest)
    BY <1>1, <1>2, <1>4
  <2> QED
    BY <1>3, <2>1, <2>2, AtOrBelowIs
<1>6. ASSUME NEW i \in 1..(Len(q) - Len(from))
      PROVE  Image(from, to, q)[Len(to) + i] = q[Len(from) + i]
  BY <1>1, <1>2, <1>3, <1>4
<1> QED
  BY <1>1, <1>2, <1>3, <1>4, <1>5, <1>6

\* The root of a tree moves to the root of its copy.
LEMMA ImageOfRoot ==
    ASSUME NEW from \in Paths, NEW to \in Paths
    PROVE  Image(from, to, from) = to
<1>1. Len(from) \in Nat
  BY PathSeq
<1>2. SubSeq(from, Len(from) + 1, Len(from)) = <<>>
  BY <1>1, SubSeqEmpty
<1> QED
  BY <1>2, PathSeq, ConcatEmptySeq DEF Image

\* No two paths of a tree are copied to the same path.
LEMMA ImageInjective ==
    ASSUME NEW from \in Paths, NEW to \in Paths, NEW q \in Paths, NEW r \in Paths,
           AtOrBelow(q, from), AtOrBelow(r, from), Image(from, to, q) \in Paths,
           Image(from, to, q) = Image(from, to, r)
    PROVE  q = r
<1>1. Len(q) = Len(r)
  BY ImageFacts, PathSeq
<1>2. ASSUME NEW i \in 1..Len(q) PROVE q[i] = r[i]
  <2>1. CASE i <= Len(from)
    BY <2>1, AtOrBelowIs, PathSeq
  <2>2. CASE ~(i <= Len(from))
    <3> DEFINE j == i - Len(from)
    <3>0. Len(q) \in Nat /\ Len(from) \in Nat /\ i \in 1..Len(q)
      BY PathSeq
    <3>1. j \in 1..(Len(q) - Len(from)) /\ i = Len(from) + j
      BY <2>2, <3>0
    <3> HIDE DEF j
    <3>2. \A k \in 1..(Len(q) - Len(from)) : Image(from, to, q)[Len(to) + k] = q[Len(from) + k]
      BY ImageFacts
    <3>3. Image(from, to, r) \in Paths
      OBVIOUS
    <3>4. \A k \in 1..(Len(r) - Len(from)) : Image(from, to, r)[Len(to) + k] = r[Len(from) + k]
      BY <3>3, ImageFacts
    <3> QED
      BY <1>1, <3>1, <3>2, <3>4
  <2> QED
    BY <2>1, <2>2
<1> QED
  BY <1>1, <1>2, PathSeq, SeqEqual


-----------------------------------------------------------------------------
(* The invariant of the tree.                                              *)

\* What is at or below a path of L.
Under(L) == {x \in Paths : \E k \in L : AtOrBelow(x, k)}

\* What a mutation in flight keeps to itself.
Guarded(c) == Under(req[c].keys)

\* Objects and writes in progress: one kind at a path, and nothing below a file.
Namespace ==
    /\ \A p \in Paths : \A k, j \in KindsAt(p) : k = j
    /\ \A p, q \in Paths : "file" \in KindsAt(p) /\ q # p /\ AtOrBelow(q, p) => KindsAt(q) = {}

\* a is a collection and remains one when S is deleted.
Stays(a, S) ==
    \/ a = <<>>
    \/ a \notin S /\ Mapped(a) /\ objects[a].kind = "dir"
    \/ \E s \in Below(a) \ {a} : s \notin S /\ Mapped(s)

\* All paths from x up to a collection that stays are in L.
Anchored(L, x, S) ==
    x = <<>> \/ \E a \in Ancestors(x) \ {x} : Upward(x, a) \subseteq L /\ Stays(a, S)

\* Whatever a write at x creates is in L.
Creatable(L, x) == x \in L /\ (Mapped(x) \/ Anchored(L, x, {}))

\* All paths from S up to the root of its tree are in L.
Inside(L, root, S) == root \in L /\ \A s \in S : Upward(s, root) \subseteq L

\* All paths from the source of a MOVE up to a collection that stays, be it
\* because the destination is below it.
Kept(L, w) ==
    \E a \in Ancestors(w.path) \ {w.path} :
       /\ Upward(w.path, a) \subseteq L
       /\ AtOrBelow(w.dst, a) \/ Stays(a, Below(w.path) \union Below(w.dst))

\* The paths whose objects a request copies or deletes at its source.
Span(w) == IF w.by = "fm" THEN {w.path} ELSE Below(w.path)

\* All that is left of S has its copy.
HasCopies(t, S) == \A q \in S : Mapped(q) => objects[Target(t, q)] = objects[q]

\* A handler and its request in the lock store.
HandlerOK(c) ==
    LET t == task[c]
        w == t.wish
        r == req[c]
    IN  /\ t = None <=> r = None
        /\ t # None =>
             /\ w \in Requests
             /\ r.op = "lock" <=> w.op = "lock"
             /\ w.op = "lock" => r.root = w.path
             /\ r.pc = "create" => w.op = "lock" /\ r.own = NoToken
             /\ w.op # "lock" => r.own = NoToken
             /\ r.own <= issued
             /\ w.by = "dav" /\ w.op \in {"copy", "move"} => ~Nested(w.path, w.dst)
             /\ w.op = "move" => w.path # w.dst
             /\ w.by = "dav" /\ w.op \in {"delete", "copy", "move"} =>
                   w.path = <<>> \/ In(t.snap) # {}
             /\ w.by = "dav" => In(t.snap) \subseteq Below(w.path)

\* What a request has registered.
Registered(c) ==
    LET w == task[c].wish
        r == req[c]
    IN  task[c] # None /\ r.pc # "create" =>
          /\ w.op \in {"lock", "put"} /\ w.by = "dav" => w.path \in r.lockKeys
          /\ w.by = "dav" => w.path \in r.keys
          /\ w.by = "job" \/ (w.by = "fm" /\ w.op = "move") => <<>> \in r.keys

\* Which phases a request goes through, and on which paths.
Phases(c) ==
    LET t == task[c]
        w == t.wish
    IN  t # None =>
          /\ req[c].pc # "running" => t.phase = "prepared"
          /\ t.phase = "prepared" => t.at = None /\ t.todo = {} /\ t.done = {} /\ ~t.failed
          /\ t.phase = "over" => t.at = None
          /\ t.phase = "make" => w.op \in {"put", "mkcol", "lock"} /\ t.todo \subseteq {w.path}
          /\ t.phase = "drop" => w.op \in {"delete", "move"} /\ t.todo \subseteq Span(w)
          /\ t.phase \in {"clear", "copy"} => w.op \in {"copy", "move"}
          /\ t.phase = "clear" => w.by # "fm" /\ t.todo \subseteq Below(w.dst)
          /\ t.phase = "copy" => t.todo \union t.done \subseteq Span(w)

\* The call of the service that a handler is in.
CallOK(c) ==
    LET t == task[c]
    IN  t # None /\ t.at # None =>
          /\ t.at \in t.todo
          /\ Written(c) \in Guarded(c)
          /\ pending[Written(c)] # None
          /\ pending[Written(c)] = Deletion <=> Deletes(t)

\* What a WebDAV request has checked for locks, L, covers all that it may still
\* change, phase by phase.
MakeOK(t, L) == t.phase = "make" => \A x \in t.todo : Creatable(L, x)

ClearOK(t, L) ==
    t.phase = "clear" =>
       /\ t.todo \subseteq In(t.dsnap)
       /\ Inside(L, t.wish.dst, In(t.dsnap)) /\ Anchored(L, t.wish.dst, Below(t.wish.dst))
       /\ \A q \in Sources(t) : Upward(Target(t, q), t.wish.dst) \subseteq L

CopyOK(t, L) ==
    t.phase = "copy" =>
       /\ t.wish.dst \in L
       /\ t.todo \subseteq Sources(t)
       /\ \A q \in t.todo : Creatable(L, Target(t, q))
       /\ \A q \in t.done : Mapped(Target(t, q))

SourceOK(t, L) ==
    t.phase \in {"clear", "copy", "drop"} /\ t.wish.op = "move" =>
       t.wish.dst \in L /\ Inside(L, t.wish.path, In(t.snap)) /\ Kept(L, t.wish)

DropOK(t, L) ==
    t.phase = "drop" =>
       /\ t.todo \subseteq In(t.snap)
       /\ t.wish.op = "delete" =>
             /\ Inside(L, t.wish.path, In(t.snap))
             /\ Anchored(L, t.wish.path, Below(t.wish.path))
       /\ t.wish.op = "move" => \A q \in t.todo : Mapped(Target(t, q))

Checked(t, L) ==
    MakeOK(t, L) /\ ClearOK(t, L) /\ CopyOK(t, L) /\ SourceOK(t, L) /\ DropOK(t, L)

\* For every WebDAV request that has begun.
DavOK(c) == task[c] # None /\ task[c].wish.by = "dav" => Checked(task[c], req[c].lockKeys)

\* What a MOVE deletes is at its destination.
Moved(t) ==
    t.wish.op = "move" =>
       /\ t.phase \in {"clear", "copy", "drop"} /\ t.wish.by = "job" =>
             ~Nested(t.wish.path, t.wish.dst)
       /\ t.phase = "copy" =>
             /\ HasCopies(t, t.done)
             /\ t.at # None /\ Mapped(t.at) => pending[Target(t, t.at)] = objects[t.at]
             /\ t.wish.by # "dav" /\ ~t.failed =>
                   \A q \in Span(t.wish) : Mapped(q) => q \in t.todo \union t.done
       /\ t.phase = "drop" => HasCopies(t, t.todo)

\* For every request.
MoveOK(c) == task[c] # None => Moved(task[c])

\* A LOCK leaves its lock on something that exists, or none.
LockOK(c) ==
    LET t == task[c]
        w == t.wish
    IN  t # None /\ w.op = "lock" =>
          /\ \A lock \in locks : lock.token = req[c].own => lock.root = w.path
          /\ t.phase = "make" /\ ~t.failed /\ t.todo = {} => Exists(w.path)
          /\ t.phase = "over" => Exists(w.path) \/ \A lock \in locks : lock.token # req[c].own

\* All of it, for one client.
ClientOK(c) ==
    /\ HandlerOK(c) /\ Registered(c) /\ Phases(c)
    /\ CallOK(c) /\ DavOK(c) /\ MoveOK(c) /\ LockOK(c)

\* Every token was drawn.
TokensDrawn == \A lock \in locks : lock.token <= issued

\* The invariant: what the lock store keeps, the shape of the index, and what each
\* request relies on.
TreeInv ==
    /\ TreeTypeOK /\ IInv /\ Namespace
    /\ \A c \in Clients : ClientOK(c)
    /\ TokensDrawn /\ LocksRooted

-----------------------------------------------------------------------------
(* Kinds of things.                                                        *)

\* Nothing, the deletion and the objects are different things.
LEMMA Nothing ==
    /\ None \notin Paths /\ None \notin Object /\ None \notin Task /\ None # Deletion
    /\ None \notin Request /\ Deletion \notin Object
<1>1. None \notin Paths /\ None \notin Object /\ None \notin Task /\ None # Deletion
  BY TreeAssumption
<1>2. Deletion \notin Object
  <2>1. Deletion.kind = "none"
    BY DEF Deletion
  <2>2. \A o \in Object : o.kind = "file" \/ o.kind = "dir"
    BY DEF Object
  <2> QED
    BY <2>1, <2>2
<1> QED
  BY <1>1, <1>2, NoneAssumption

\* The fields of a handler.
LEMMA TaskFields ==
    ASSUME NEW t \in Task
    PROVE  /\ t # None /\ t.wish \in Wish
           /\ t.phase \in {"prepared", "clear", "copy", "make", "drop", "over"}
           /\ t.snap \in [Paths -> Object \union {None}]
           /\ t.dsnap \in [Paths -> Object \union {None}]
           /\ t.coll \in BOOLEAN /\ t.body \in Nat /\ t.todo \subseteq Paths
           /\ t.at \in Paths \union {None} /\ t.done \subseteq Paths /\ t.failed \in BOOLEAN
BY Nothing DEF Task

\* The fields of what a handler was asked for.
LEMMA WishFields ==
    ASSUME NEW w \in Wish
    PROVE  /\ w.by \in {"dav", "fm", "job"}
           /\ w.op \in {"put", "mkcol", "delete", "copy", "move", "lock"}
           /\ w.path \in Paths /\ w.dst \in Paths /\ w.over \in BOOLEAN
BY DEF Wish

\* The fields of a request in the lock store.
LEMMA RequestFields ==
    ASSUME NEW r \in Request
    PROVE  /\ r # None /\ r.op \in {"lock", "mutate"}
           /\ r.pc \in {"create", "guard", "running"} /\ r.parked \in BOOLEAN
           /\ r.root \in Paths /\ r.depth \in Depths
           /\ r.lockKeys \subseteq Paths /\ r.keys \subseteq Paths
           /\ r.tokens \subseteq Tokens /\ r.own \in Nat
BY NoneAssumption DEF Request

\* Trees and chains of ancestors are paths, and hold their ends.
LEMMA BelowPaths ==
    /\ \A p : Below(p) \subseteq Paths /\ Ancestors(p) \subseteq Paths
    /\ \A p \in Paths : p \in Below(p) /\ p \in Ancestors(p) /\ p \in Below(<<>>)
    /\ \A p, q : Upward(p, q) \subseteq Paths
    /\ \A p, q \in Paths : AtOrBelow(p, q) => p \in Upward(p, q) /\ q \in Upward(p, q)
    /\ <<>> \in Paths
BY PathOrder, TreeAssumption DEF Below, Ancestors, Upward

\* The images of what a request copies are paths.
LEMMA TargetPaths ==
    ASSUME NEW t \in Task, t.wish \in Requests, t.wish.op \in {"copy", "move"},
           NEW q \in Span(t.wish)
    PROVE  /\ Target(t, q) \in Paths /\ AtOrBelow(Target(t, q), t.wish.dst)
           /\ q \in Paths /\ AtOrBelow(q, t.wish.path)
           /\ t.wish.path # t.wish.dst /\ t.wish.by = "fm" => Target(t, q) # q
           /\ \A r \in Span(t.wish) : Target(t, q) = Target(t, r) => q = r
<1>1. t.wish.path \in Paths /\ t.wish.dst \in Paths /\ t.wish \in Wish
  BY TaskFields, WishFields
<1>2. q \in Paths /\ AtOrBelow(q, t.wish.path)
  BY <1>1, PathOrder DEF Span, Below
<1>3. CASE t.wish.by = "fm"
  <2>1. q = t.wish.path /\ Target(t, q) = t.wish.dst /\ Span(t.wish) = {q}
    BY <1>1, <1>3, ImageOfRoot DEF Span, Target
  <2> QED
    BY <1>1, <1>2, <2>1, PathOrder
<1>4. CASE t.wish.by # "fm"
  <2>1. \A r \in Below(t.wish.path) : Image(t.wish.path, t.wish.dst, r) \in Paths
    BY <1>4, RequestAssumption
  <2>2. Span(t.wish) = Below(t.wish.path)
    BY <1>4 DEF Span
  <2>3. Target(t, q) \in Paths /\ AtOrBelow(Target(t, q), t.wish.dst)
    BY <1>1, <1>2, <2>1, <2>2, ImageFacts DEF Target
  <2>4. ASSUME NEW r \in Span(t.wish), Target(t, q) = Target(t, r) PROVE q = r
    <3>1. r \in Paths /\ AtOrBelow(r, t.wish.path)
      BY <2>2 DEF Below
    <3> QED
      BY <1>1, <1>2, <2>1, <2>2, <2>4, <3>1, ImageInjective DEF Target
  <2> QED
    BY <1>2, <1>4, <2>3, <2>4
<1> QED
  BY <1>3, <1>4

\* The trees at two paths that are not nested have nothing in common.
LEMMA Apart ==
    ASSUME NEW p \in Paths, NEW q \in Paths, ~Nested(p, q), NEW x \in Paths, AtOrBelow(x, p)
    PROVE  ~AtOrBelow(x, q) /\ p # <<>> /\ q # <<>>
BY PathOrder DEF Nested

-----------------------------------------------------------------------------
(* What others do elsewhere does not matter.                               *)

\* Whatever is on X stays there, as a file or as a collection.
Persist(X) == \A x \in X : Mapped(x) => Mapped(x)' /\ objects'[x].kind = objects[x].kind

\* Nothing happens on X.
Untouched(X) == \A x \in X : objects'[x] = objects[x] /\ pending'[x] = pending[x]

\* A collection that has a reason to stay keeps it.
LEMMA StaysKeeps ==
    ASSUME NEW a \in Paths, NEW S, Stays(a, S), Persist(Below(a) \ S)
    PROVE  Stays(a, S)'
<1>1. a \in Below(a)
  BY BelowPaths
<1> QED
  BY <1>1 DEF Stays, Persist

\* So do the chains of ancestors that end in one.
LEMMA AnchoredKeeps ==
    ASSUME NEW x \in Paths, NEW L, NEW S, Anchored(L, x, S), Persist(Under(L) \ S)
    PROVE  Anchored(L, x, S)'
<1>1. CASE x = <<>>
  BY <1>1 DEF Anchored
<1>2. ASSUME NEW a \in Ancestors(x) \ {x}, Upward(x, a) \subseteq L, Stays(a, S)
      PROVE  Anchored(L, x, S)'
  <2>1. a \in Paths /\ a \in L
    BY <1>2, BelowPaths, PathOrder DEF Ancestors, Upward
  <2>2. Below(a) \subseteq Under(L)
    BY <2>1 DEF Below, Under
  <2>3. Persist(Below(a) \ S)
    BY <2>2 DEF Persist
  <2>4. Stays(a, S)'
    BY <1>2, <2>1, <2>3, StaysKeeps
  <2> QED
    BY <1>2, <2>4 DEF Anchored
<1> QED
  BY <1>1, <1>2 DEF Anchored

\* A path stays creatable while nothing that is registered goes.
LEMMA CreatableKeeps ==
    ASSUME NEW x \in Paths, NEW L, Creatable(L, x), Persist(Under(L))
    PROVE  Creatable(L, x)'
<1>1. x \in Under(L)
  BY PathOrder DEF Creatable, Under
<1>2. Persist(Under(L) \ {})
  BY DEF Persist
<1> QED
  BY <1>1, <1>2, AnchoredKeeps DEF Creatable, Persist

\* The source of a MOVE keeps the collection above it.
LEMMA KeptKeeps ==
    ASSUME NEW w \in Wish, NEW L, Kept(L, w),
           Persist(Under(L) \ (Below(w.path) \union Below(w.dst)))
    PROVE  Kept(L, w)'
<1> DEFINE S == Below(w.path) \union Below(w.dst)
<1>1. PICK a \in Ancestors(w.path) \ {w.path} :
         /\ Upward(w.path, a) \subseteq L
         /\ AtOrBelow(w.dst, a) \/ Stays(a, S)
  BY DEF Kept
<1>2. a \in Paths /\ a \in L
  BY <1>1, WishFields, BelowPaths, PathOrder DEF Ancestors, Upward
<1>3. Below(a) \subseteq Under(L)
  BY <1>2 DEF Below, Under
<1>4. Persist(Below(a) \ S)
  BY <1>3 DEF Persist
<1>5. Stays(a, S) => Stays(a, S)'
  <2> HIDE DEF S
  <2> QED  BY <1>2, <1>4, StaysKeeps
<1> QED
  BY <1>1, <1>5 DEF Kept

\* What a WebDAV request has checked goes on covering what it changes.
LEMMA CheckedKeeps ==
    ASSUME NEW t \in Task, t.wish \in Requests, NEW L, Checked(t, L), Persist(Under(L)),
           t.phase = "copy" => t.wish.op \in {"copy", "move"} /\ t.todo \union t.done \subseteq Span(t.wish),
           t.phase = "drop" => t.todo \subseteq Span(t.wish)
    PROVE  Checked(t, L)'
<1>1. t.wish \in Wish /\ t.wish.path \in Paths /\ t.wish.dst \in Paths /\ t.todo \subseteq Paths
  BY TaskFields, WishFields
<1>2. \A S : Persist(Under(L) \ S)
  BY DEF Persist
<1>3. \A x \in Under(L) : Mapped(x) => Mapped(x)'
  BY DEF Persist
<1>4. ASSUME t.wish.dst \in L, t.wish.op \in {"copy", "move"}, NEW q \in Span(t.wish)
      PROVE  Target(t, q) \in Paths /\ (Mapped(Target(t, q)) => Mapped(Target(t, q))')
  <2>1. Target(t, q) \in Paths /\ AtOrBelow(Target(t, q), t.wish.dst)
    BY <1>4, TargetPaths
  <2>2. Target(t, q) \in Under(L)
    BY <1>4, <2>1 DEF Under
  <2> QED
    BY <1>3, <2>1, <2>2
<1>5. MakeOK(t, L)'
  BY <1>1, CreatableKeeps DEF MakeOK, Checked
<1>6. ClearOK(t, L)'
  BY <1>1, <1>2, AnchoredKeeps DEF ClearOK, Checked, Inside
<1>7. CopyOK(t, L)'
  <2> SUFFICES ASSUME t.phase = "copy" PROVE CopyOK(t, L)'
    BY DEF CopyOK
  <2>1. /\ t.wish.dst \in L /\ t.todo \subseteq Sources(t)
        /\ \A q \in t.todo : Creatable(L, Target(t, q))
        /\ \A q \in t.done : Mapped(Target(t, q))
    BY DEF CopyOK, Checked
  <2>2. \A q \in t.todo : Creatable(L, Target(t, q))'
    BY <1>4, <2>1, CreatableKeeps
  <2>3. \A q \in t.done : Mapped(Target(t, q))'
    BY <1>4, <2>1
  <2> QED
    BY <2>1, <2>2, <2>3 DEF CopyOK
<1>8. SourceOK(t, L)'
  BY <1>1, <1>2, KeptKeeps DEF SourceOK, Checked, Inside
<1>9. DropOK(t, L)'
  <2> SUFFICES ASSUME t.phase = "drop" PROVE DropOK(t, L)'
    BY DEF DropOK
  <2>1. t.todo \subseteq In(t.snap)
    BY DEF DropOK, Checked
  <2>2. t.wish.op = "delete" => /\ Inside(L, t.wish.path, In(t.snap))
                                /\ Anchored(L, t.wish.path, Below(t.wish.path))'
    BY <1>1, <1>2, AnchoredKeeps DEF DropOK, Checked
  <2>3. t.wish.op = "move" => \A q \in t.todo : Mapped(Target(t, q))'
    BY <1>4 DEF DropOK, SourceOK, Checked
  <2> QED
    BY <2>1, <2>2, <2>3 DEF DropOK, Inside
<1> QED
  BY <1>5, <1>6, <1>7, <1>8, <1>9 DEF Checked

\* What a MOVE has copied stays copied while nobody touches its two trees.
LEMMA MovedKeeps ==
    ASSUME NEW t \in Task, t.wish \in Requests, Moved(t),
           t.phase \in {"copy", "drop"} =>
              Untouched(Span(t.wish)) /\ Untouched(Below(t.wish.dst)),
           t.phase = "copy" => t.todo \union t.done \subseteq Span(t.wish),
           t.phase = "drop" => t.todo \subseteq Span(t.wish),
           t.at # None => t.at \in t.todo
    PROVE  Moved(t)'
<1> SUFFICES ASSUME t.wish.op = "move" PROVE Moved(t)'
  BY DEF Moved
<1>1. ASSUME t.phase \in {"copy", "drop"}, NEW q \in Span(t.wish)
      PROVE  /\ objects'[q] = objects[q] /\ (Mapped(q)' <=> Mapped(q))
             /\ objects'[Target(t, q)] = objects[Target(t, q)]
             /\ pending'[Target(t, q)] = pending[Target(t, q)]
  <2>1. Target(t, q) \in Below(t.wish.dst)
    BY TargetPaths DEF Below
  <2> QED
    BY <1>1, <2>1 DEF Untouched, Mapped
<1> QED
  BY <1>1 DEF Moved, HasCopies

\* A tree that nothing happens in has the same members.
LEMMA TreeSame ==
    ASSUME NEW p \in Paths, Untouched(Below(p))
    PROVE  /\ Tree(p)' = Tree(p) /\ (Mapped(p)' <=> Mapped(p)) /\ objects'[p] = objects[p]
           /\ (Collection(p)' <=> Collection(p)) /\ (Exists(p)' <=> Exists(p))
<1>1. /\ \A q \in Below(p) : objects'[q] = objects[q] /\ (Mapped(q)' <=> Mapped(q))
      /\ p \in Below(p)
  BY BelowPaths DEF Untouched, Mapped
<1>2. Tree(p)' = Tree(p)
  BY <1>1 DEF Tree
<1>3. objects'[p] = objects[p] /\ (Mapped(p)' <=> Mapped(p))
  BY <1>1
<1>4. Collection(p)' <=> Collection(p)
  BY <1>2, <1>3 DEF Collection
<1> QED
  BY <1>2, <1>3, <1>4 DEF Exists

\* The request of d is what it was, but for being parked.
SameRequest(d) ==
    /\ req'[d] = None <=> req[d] = None
    /\ req[d] # None =>
         /\ req'[d].op = req[d].op /\ req'[d].pc = req[d].pc /\ req'[d].root = req[d].root
         /\ req'[d].own = req[d].own
         /\ req'[d].keys = req[d].keys /\ req'[d].lockKeys = req[d].lockKeys

\* No lock appears that is not the next.
NoOldLocks == \A lock \in locks' : lock \in locks \/ lock.token > issued

\* The paths that a request guards include what it copies and deletes.
LEMMA GuardsSource ==
    ASSUME NEW d \in Clients, TreeTypeOK, ClientOK(d), KeysRegistered, task[d] # None,
           req[d].pc = "running", task[d].wish.op = "move", task[d].phase \in {"copy", "drop"}
    PROVE  Span(task[d].wish) \subseteq Guarded(d) /\ Below(task[d].wish.dst) \subseteq Guarded(d)
<1> DEFINE w == task[d].wish
<1>1. task[d] \in Task /\ w \in Wish /\ w.path \in Paths /\ w.dst \in Paths
  BY TaskFields, WishFields DEF TreeTypeOK
<1>2. Span(w) \subseteq Below(w.path)
  BY <1>1, BelowPaths DEF Span
<1>3. req[d] # None
  BY DEF ClientOK, HandlerOK
<1>4. CASE w.by = "dav"
  <2>1. w.path \in req[d].keys
    BY <1>4 DEF ClientOK, Registered
  <2>2. w.dst \in req[d].lockKeys
    BY <1>4 DEF ClientOK, DavOK, Checked, SourceOK
  <2>3. w.dst \in req[d].keys
    BY <1>3, <2>2 DEF KeysRegistered
  <2> QED
    BY <1>2, <2>1, <2>3 DEF Guarded, Under, Below
<1>5. CASE w.by # "dav"
  <2>1. <<>> \in req[d].keys
    BY <1>1, <1>5, WishFields DEF ClientOK, Registered
  <2>2. \A x \in Paths : AtOrBelow(x, <<>>)
    BY PathOrder
  <2> QED
    BY <1>2, <2>1, <2>2 DEF Guarded, Under, Below
<1> QED
  BY <1>4, <1>5

\* A request goes on as before when others do not touch what it guards.
LEMMA Frame ==
    ASSUME NEW d \in Clients, TreeTypeOK, TypeOK, KeysRegistered, ClientOK(d),
           task'[d] = task[d], SameRequest(d), NoOldLocks, issued' \in Nat, issued <= issued',
           req[d] # None /\ req[d].pc = "running" => Untouched(Guarded(d))
    PROVE  ClientOK(d)'
<1>1. CASE task[d] = None
  <2>1. req[d] = None /\ task'[d] = None /\ req'[d] = None
    BY <1>1 DEF ClientOK, HandlerOK, SameRequest
  <2> QED
    BY <2>1 DEF ClientOK, HandlerOK, Registered, Phases, CallOK, DavOK, MoveOK, LockOK
<1>2. CASE task[d] # None
  <2> DEFINE t == task[d]
             w == t.wish
             r == req[d]
             L == r.lockKeys
  <2>1. /\ t \in Task /\ w \in Wish /\ w \in Requests /\ w.path \in Paths /\ w.dst \in Paths
        /\ r # None /\ r \in Request /\ r.own \in Nat /\ r.own <= issued /\ issued \in Nat
    BY <1>2, TaskFields, WishFields, RequestFields DEF TreeTypeOK, TypeOK, ClientOK, HandlerOK
  <2>2. HandlerOK(d)' /\ Registered(d)' /\ Phases(d)'
    <3>1. HandlerOK(d)'
      BY <2>1 DEF ClientOK, HandlerOK, SameRequest
    <3>2. Registered(d)'
      BY <2>1 DEF ClientOK, Registered, SameRequest
    <3>3. Phases(d)'
      BY <2>1 DEF ClientOK, Phases, SameRequest
    <3> QED
      BY <3>1, <3>2, <3>3
  <2>3. \A lock \in locks' : lock.token = r.own => lock \in locks
    BY <2>1 DEF NoOldLocks
  <2>4. r.pc # "running" => t.phase = "prepared" /\ t.at = None
    BY <1>2 DEF ClientOK, Phases
  <2>5. CASE r.pc # "running"
    <3>1. CallOK(d)'
      BY <2>4, <2>5 DEF CallOK
    <3>2. DavOK(d)'
      BY <2>4, <2>5 DEF DavOK, Checked, MakeOK, ClearOK, CopyOK, SourceOK, DropOK
    <3>3. MoveOK(d)'
      BY <2>4, <2>5 DEF MoveOK, Moved
    <3>4. LockOK(d)'
      BY <1>2, <2>1, <2>3, <2>4, <2>5 DEF LockOK, ClientOK, SameRequest
    <3> QED
      BY <2>2, <3>1, <3>2, <3>3, <3>4 DEF ClientOK
  <2>6. CASE r.pc = "running"
    <3>1. Untouched(Guarded(d)) /\ L \subseteq r.keys
      BY <2>1, <2>6 DEF KeysRegistered
    <3>2. Persist(Under(L))
      BY <3>1 DEF Persist, Untouched, Under, Guarded, Mapped
    <3>3. CallOK(d)'
      <4> SUFFICES ASSUME t.at # None PROVE CallOK(d)'
        BY <1>2 DEF CallOK
      <4>1. /\ t.at \in t.todo /\ Written(d) \in Guarded(d)
            /\ pending[Written(d)] # None /\ (pending[Written(d)] = Deletion <=> Deletes(t))
        BY <1>2 DEF CallOK, ClientOK
      <4>2. Written(d)' = Written(d)
        BY DEF Written
      <4>3. Guarded(d)' = Guarded(d)
        BY <2>1 DEF Guarded, SameRequest
      <4>4. pending'[Written(d)] = pending[Written(d)]
        BY <3>1, <4>1 DEF Untouched
      <4> QED
        BY <4>1, <4>2, <4>3, <4>4 DEF CallOK
    <3>4. DavOK(d)'
      <4> SUFFICES ASSUME w.by = "dav" PROVE DavOK(d)'
        BY DEF DavOK
      <4>1. Checked(t, L)
        BY <1>2 DEF DavOK, ClientOK
      <4>2. t.phase = "copy" => w.op \in {"copy", "move"} /\ t.todo \union t.done \subseteq Span(w)
        BY <1>2 DEF ClientOK, Phases
      <4>3. t.phase = "drop" => t.todo \subseteq Span(w)
        BY <1>2 DEF ClientOK, Phases
      <4> QED
        <5>1. req'[d].lockKeys = L
          BY <2>1 DEF SameRequest
        <5>2. ASSUME NEW u, NEW l, u = t, l = L PROVE Checked(u, l)'
          BY <2>1, <3>2, <4>1, <4>2, <4>3, <5>2, CheckedKeeps
        <5> QED
          BY <5>1, <5>2 DEF DavOK
    <3>5. MoveOK(d)'
      <4> SUFFICES ASSUME w.op = "move" PROVE Moved(t)'
        BY DEF MoveOK, Moved
      <4>1. Moved(t)
        BY <1>2 DEF MoveOK, ClientOK
      <4>2. t.phase \in {"copy", "drop"} => Untouched(Span(w)) /\ Untouched(Below(w.dst))
        <5> SUFFICES ASSUME t.phase \in {"copy", "drop"}
                     PROVE  Untouched(Span(w)) /\ Untouched(Below(w.dst))
          OBVIOUS
        <5>1. Span(w) \subseteq Guarded(d) /\ Below(w.dst) \subseteq Guarded(d)
          BY <1>2, <2>6, GuardsSource
        <5> QED
          BY <3>1, <5>1 DEF Untouched
      <4>3. /\ t.phase = "copy" => t.todo \union t.done \subseteq Span(w)
            /\ t.phase = "drop" => t.todo \subseteq Span(w)
            /\ t.at # None => t.at \in t.todo
        BY <1>2 DEF ClientOK, Phases, CallOK
      <4> QED
        BY <2>1, <4>1, <4>2, <4>3, MovedKeeps
    <3>6. LockOK(d)'
      <4> SUFFICES ASSUME w.op = "lock" PROVE LockOK(d)'
        BY DEF LockOK
      <4>1. w.by = "dav"
        BY <2>1, WishFields, RequestAssumption
      <4>2. w.path \in r.keys
        BY <1>2, <2>6, <4>1 DEF Registered, ClientOK
      <4>3. Untouched(Below(w.path))
        BY <3>1, <4>2 DEF Untouched, Guarded, Under, Below
      <4>4. Exists(w.path)' <=> Exists(w.path)
        BY <2>1, <4>3, TreeSame
      <4>5. req'[d].own = r.own
        BY <2>1 DEF SameRequest
      <4>6. LockOK(d)
        BY DEF ClientOK
      <4> QED
        BY <1>2, <2>3, <4>4, <4>5, <4>6 DEF LockOK
    <3> QED
      BY <2>2, <3>3, <3>4, <3>5, <3>6 DEF ClientOK
  <2> QED
    BY <2>1, <2>5, <2>6, RequestFields
<1> QED
  BY <1>1, <1>2

-----------------------------------------------------------------------------
(* A step of a mutation in flight.                                         *)

\* Two mutations in flight guard different paths.
LEMMA GuardedApart ==
    ASSUME IInv, NEW c \in Running, NEW d \in Running, c # d, NEW x \in Guarded(c)
    PROVE  x \notin Guarded(d)
<1>1. c \in Clients /\ d \in Clients /\ req[c] \in Request /\ req[d] \in Request
  BY DEF Running, IInv, TypeOK
<1>2. req[c].keys \subseteq Paths /\ req[d].keys \subseteq Paths
  BY <1>1, RequestFields
<1> SUFFICES ASSUME x \in Guarded(d) PROVE FALSE
  OBVIOUS
<1>3. PICK k \in req[c].keys : AtOrBelow(x, k)
  BY DEF Guarded, Under
<1>4. PICK j \in req[d].keys : AtOrBelow(x, j)
  BY DEF Guarded, Under
<1>5. x \in Paths
  BY DEF Guarded, Under
<1>6. AtOrBelow(k, j) \/ AtOrBelow(j, k)
  BY <1>2, <1>3, <1>4, <1>5, PathOrder DEF Nested
<1> QED
  BY <1>6 DEF IInv, MutationsDisjoint

\* What a handler may turn into: c is in flight and goes on with u.
Turns(c, u) ==
    /\ task[c] # None /\ At(c, "running")
    /\ u \in Task /\ u.wish = task[c].wish
    /\ u.wish.by = "dav" => u.snap = task[c].snap
    /\ task' = [task EXCEPT ![c] = u]
    /\ locks' \subseteq locks /\ UNCHANGED <<req, issued, begun>>
    /\ Untouched(Paths \ Guarded(c))

\* A step of one handler that keeps to what it registered disturbs no other one.
LEMMA OwnStep ==
    ASSUME TreeInv, NEW c \in Clients, NEW u, Turns(c, u),
           objects' \in [Paths -> Object \union {None}],
           pending' \in [Paths -> Object \union {Deletion, None}],
           prepared' \subseteq Requests, faults' \in 0..MaxFaults
    PROVE  /\ TreeTypeOK' /\ IInv' /\ TokensDrawn'
           /\ task'[c] = u /\ HandlerOK(c)' /\ Registered(c)'
           /\ \A d \in Clients \ {c} : ClientOK(d)'
<1>1. /\ TreeTypeOK /\ IInv /\ TypeOK /\ KeysRegistered /\ ClientOK(c)
      /\ \A d \in Clients : ClientOK(d)
  BY DEF TreeInv, IInv
<1>2. IInv'
  BY <1>1, LocksGo DEF Turns
<1>3. task'[c] = u /\ task' \in [Clients -> Task \union {None}]
      /\ \A d \in Clients \ {c} : task'[d] = task[d]
  BY <1>1 DEF TreeTypeOK, Turns
<1>4. TreeTypeOK'
  BY <1>3 DEF TreeTypeOK
<1>5. TokensDrawn'
  BY DEF TreeInv, TokensDrawn, Turns
<1>6. ASSUME NEW d \in Clients \ {c} PROVE ClientOK(d)'
  <2>1. req[d] # None /\ req[d].pc = "running" => Untouched(Guarded(d))
    <3> SUFFICES ASSUME d \in Running PROVE Untouched(Guarded(d))
      BY DEF Running
    <3>1. c \in Running
      BY DEF Running, Turns, At
    <3>2. \A x \in Guarded(d) : x \in Paths \ Guarded(c)
      BY <1>1, <3>1, GuardedApart DEF Guarded, Under
    <3> QED
      BY <3>2 DEF Turns, Untouched
  <2>2. SameRequest(d) /\ NoOldLocks
    BY DEF SameRequest, NoOldLocks, Turns
  <2>3. issued' \in Nat /\ issued <= issued'
    BY <1>1 DEF TypeOK, Turns
  <2> QED
    BY <1>1, <1>3, <2>1, <2>2, <2>3, Frame
<1>7. u # None /\ req[c] # None /\ req[c].pc = "running" /\ req' = req /\ issued' = issued
  BY TaskFields DEF Turns, At
<1>8. HandlerOK(c)'
  BY <1>1, <1>3, <1>7 DEF ClientOK, HandlerOK, Turns
<1>9. Registered(c)'
  BY <1>1, <1>3, <1>7 DEF ClientOK, Registered, Turns
<1> QED
  BY <1>2, <1>3, <1>4, <1>5, <1>6, <1>8, <1>9

\* Locks stay with what exists while the tree is the same.
LEMMA RootedSame ==
    ASSUME LocksRooted, locks' \subseteq locks, UNCHANGED <<req, objects>>,
           faults \in Nat, faults' \in Nat, faults <= faults'
    PROVE  LocksRooted'
<1>1. \A p : Exists(p)' <=> Exists(p)
  BY DEF Exists, Collection, Mapped, Tree
<1> QED
  BY <1>1 DEF LocksRooted

\* The index is as it was.
LEMMA NamespaceSame == ASSUME Namespace, UNCHANGED <<objects, pending>> PROVE Namespace'
BY DEF Namespace, KindsAt

\* A step that changes nothing but the task, and perhaps takes locks away.
LEMMA TaskStep ==
    ASSUME TreeInv, NEW c \in Clients, NEW u, task[c] # None, At(c, "running"),
           u \in Task, u.wish = task[c].wish, u.wish.by = "dav" => u.snap = task[c].snap,
           task' = [task EXCEPT ![c] = u], locks' \subseteq locks,
           UNCHANGED <<req, issued, begun, objects, pending>>,
           prepared' \subseteq Requests, faults' \in 0..MaxFaults, faults <= faults',
           task'[c] = u => Phases(c)' /\ CallOK(c)' /\ DavOK(c)' /\ MoveOK(c)' /\ LockOK(c)'
    PROVE  TreeInv'
<1>1. TreeTypeOK /\ LocksRooted /\ Namespace
  BY DEF TreeInv
<1>2. Turns(c, u)
  BY DEF Turns, Untouched
<1>3. /\ objects' \in [Paths -> Object \union {None}]
      /\ pending' \in [Paths -> Object \union {Deletion, None}]
  BY <1>1 DEF TreeTypeOK
<1>4. /\ TreeTypeOK' /\ IInv' /\ TokensDrawn'
      /\ task'[c] = u /\ HandlerOK(c)' /\ Registered(c)'
      /\ \A d \in Clients \ {c} : ClientOK(d)'
  BY <1>2, <1>3, OwnStep
<1>5. LocksRooted'
  <2>1. faults \in Nat /\ faults' \in Nat
    BY <1>1, TreeAssumption DEF TreeTypeOK
  <2> QED
    BY <1>1, <2>1, RootedSame
<1>6. Namespace'
  BY <1>1, NamespaceSame
<1>7. ClientOK(c)'
  BY <1>4 DEF ClientOK
<1> QED
  BY <1>4, <1>5, <1>6, <1>7 DEF TreeInv

-----------------------------------------------------------------------------
(* From phase to phase.                                                    *)

\* u is t but for what a phase is about.
Resumes(t, u) ==
    /\ u \in Task /\ u.wish = t.wish /\ u.snap = t.snap /\ u.dsnap = t.dsnap
    /\ u.body = t.body

\* What is to be copied and where to depends on the request and on what was listed.
LEMMA SameCopies ==
    ASSUME NEW t, NEW u, Resumes(t, u)
    PROVE  /\ Sources(u) = Sources(t) /\ (DirectReplace(u) <=> DirectReplace(t))
           /\ \A q : Target(u, q) = Target(t, q)
BY DEF Resumes, Sources, DirectReplace, Target

\* u is t when it enters a phase.
Into(t, u, phase, todo) ==
    /\ Resumes(t, u)
    /\ u.phase = phase /\ u.todo = todo /\ u.done = {}
    /\ u.at = t.at /\ u.failed = t.failed

\* The step turns the handler of c into u.
Becomes(c, u) == task' = [task EXCEPT ![c] = u]

\* What Go leaves of a handler.
LEMMA GoFields ==
    ASSUME TreeTypeOK, NEW c \in Clients, task[c] # None, NEW todo \in SUBSET Paths,
           NEW phase \in {"prepared", "clear", "copy", "make", "drop", "over"},
           Go(c, phase, todo)
    PROVE  \E u : Becomes(c, u) /\ Into(task[c], u, phase, todo)
<1> DEFINE u == [task[c] EXCEPT !.phase = phase, !.todo = todo, !.done = {}]
<1>1. task[c] \in Task
  BY DEF TreeTypeOK
<1>2. task' = [task EXCEPT ![c] = u]
  BY <1>1 DEF Go, Task
<1>3. /\ u \in Task /\ u.wish = task[c].wish /\ u.snap = task[c].snap /\ u.dsnap = task[c].dsnap
      /\ u.body = task[c].body /\ u.phase = phase /\ u.todo = todo /\ u.done = {}
      /\ u.at = task[c].at /\ u.failed = task[c].failed
  BY <1>1 DEF Task
<1> QED
  BY <1>2, <1>3 DEF Resumes, Into, Becomes

\* Nothing is left to do.
LEMMA EndOK ==
    ASSUME NEW c \in Clients, NEW u \in Task, task'[c] = u, u.phase = "over", u.at = None,
           req[c] # None, req[c].pc = "running", req' = req
    PROVE  Phases(c)' /\ CallOK(c)' /\ DavOK(c)' /\ MoveOK(c)'
<1>1. Phases(c)' /\ CallOK(c)'
  BY DEF Phases, CallOK
<1>2. DavOK(c)'
  BY DEF DavOK, Checked, MakeOK, ClearOK, CopyOK, SourceOK, DropOK
<1>3. MoveOK(c)'
  BY DEF MoveOK, Moved
<1> QED
  BY <1>1, <1>2, <1>3

\* Only a LOCK has a lock of its own to look after.
LEMMA NoLockOK ==
    ASSUME NEW c \in Clients, NEW u \in Task, task'[c] = u, u.wish.op # "lock"
    PROVE  LockOK(c)'
BY DEF LockOK

\* What is known of a handler in flight.
LEMMA InFlight ==
    ASSUME TreeInv, NEW c \in Clients, task[c] # None
    PROVE  /\ task[c] \in Task /\ task[c].wish \in Requests /\ task[c].wish \in Wish
           /\ req[c] # None /\ req[c] \in Request
           /\ Phases(c) /\ CallOK(c) /\ DavOK(c) /\ MoveOK(c) /\ LockOK(c)
           /\ HandlerOK(c) /\ Registered(c)
           /\ task[c].wish.op = "lock" => task[c].wish.by = "dav"
           /\ faults \in 0..MaxFaults /\ prepared \subseteq Requests
           /\ req[c].lockKeys \subseteq req[c].keys /\ req[c].keys \subseteq Paths
<1>1. ClientOK(c) /\ TreeTypeOK /\ IInv /\ TypeOK /\ KeysRegistered
  BY DEF TreeInv, IInv
<1>2. task[c] \in Task /\ task[c].wish \in Requests /\ task[c].wish \in Wish
  BY <1>1, TaskFields DEF TreeTypeOK, ClientOK, HandlerOK
<1>3. req[c] # None /\ req[c] \in Request
  BY <1>1 DEF ClientOK, HandlerOK, TypeOK
<1>4. task[c].wish.op = "lock" => task[c].wish.by = "dav"
  BY <1>2, WishFields, RequestAssumption
<1> QED
  BY <1>1, <1>2, <1>3, <1>4, RequestFields DEF ClientOK, TreeTypeOK, KeysRegistered

\* The handler answers with an error.
LEMMA RefuseStep ==
    ASSUME TreeInv, NEW c \in Clients, Refuse(c)
    PROVE  TreeInv'
<1> DEFINE u == [task[c] EXCEPT !.phase = "over"]
<1>1. task[c] # None /\ At(c, "running") /\ task[c].phase = "prepared" /\ req[c].pc = "running"
  BY DEF Refuse, Working, At
<1>2. task[c] \in Task /\ req[c] # None /\ Phases(c) /\ LockOK(c)
  BY <1>1, InFlight
<1>3. /\ u \in Task /\ u.wish = task[c].wish /\ u.snap = task[c].snap
      /\ u.phase = "over" /\ u.at = task[c].at
  BY <1>2 DEF Task
<1>4. task' = [task EXCEPT ![c] = u]
  BY <1>2 DEF Refuse
<1>5. u.at = None
  BY <1>1, <1>2, <1>3 DEF Phases
<1>6. /\ locks' = {lock \in locks : lock.token # req[c].own}
      /\ UNCHANGED <<req, issued, begun, objects, pending, prepared, faults>>
  BY DEF Refuse
<1>7. faults \in 0..MaxFaults /\ prepared \subseteq Requests /\ faults <= faults
  BY TreeAssumption DEF TreeInv, TreeTypeOK
<1> HIDE DEF u
<1>8. ASSUME task'[c] = u PROVE Phases(c)' /\ CallOK(c)' /\ DavOK(c)' /\ MoveOK(c)' /\ LockOK(c)'
  <2>1. Phases(c)' /\ CallOK(c)' /\ DavOK(c)' /\ MoveOK(c)'
    BY <1>1, <1>2, <1>3, <1>5, <1>6, <1>8, EndOK
  <2>2. LockOK(c)'
    BY <1>2, <1>3, <1>6, <1>8 DEF LockOK
  <2> QED
    BY <2>1, <2>2
<1>9. locks' \subseteq locks
  BY <1>6
<1> QED
  BY <1>1, <1>3, <1>4, <1>6, <1>7, <1>8, <1>9, TaskStep

\* What is checked looks at objects only.
LEMMA SameObjects ==
    ASSUME objects' = objects
    PROVE  /\ \A p : (Exists(p)' <=> Exists(p)) /\ (Mapped(p)' <=> Mapped(p)) /\ Tree(p)' = Tree(p)
           /\ \A t, L : Checked(t, L)' <=> Checked(t, L)
<1>1. \A p : (Mapped(p)' <=> Mapped(p)) /\ Tree(p)' = Tree(p)
  BY DEF Mapped, Tree
<1>2. \A p : Exists(p)' <=> Exists(p)
  BY <1>1 DEF Exists, Collection
<1>3. \A a, S : Stays(a, S)' <=> Stays(a, S)
  BY <1>1 DEF Stays
<1>4. \A L, x, S : Anchored(L, x, S)' <=> Anchored(L, x, S)
  BY <1>3 DEF Anchored
<1>5. \A L, w : Kept(L, w)' <=> Kept(L, w)
  BY <1>3 DEF Kept
<1>6. \A L, x : Creatable(L, x)' <=> Creatable(L, x)
  BY <1>1, <1>4 DEF Creatable
<1>7. ASSUME NEW t, NEW L PROVE Checked(t, L)' <=> Checked(t, L)
  <2>1. MakeOK(t, L)' <=> MakeOK(t, L)
    BY <1>6 DEF MakeOK
  <2>2. ClearOK(t, L)' <=> ClearOK(t, L)
    BY <1>4 DEF ClearOK, Inside
  <2>3. CopyOK(t, L)' <=> CopyOK(t, L)
    BY <1>1, <1>6 DEF CopyOK
  <2>4. SourceOK(t, L)' <=> SourceOK(t, L)
    BY <1>5 DEF SourceOK, Inside
  <2>5. DropOK(t, L)' <=> DropOK(t, L)
    BY <1>1, <1>4 DEF DropOK, Inside
  <2> QED
    BY <2>1, <2>2, <2>3, <2>4, <2>5 DEF Checked
<1> QED
  BY <1>1, <1>2, <1>7

\* Everything up to the new task of c is as it should be.
LEMMA PhaseStep ==
    ASSUME TreeInv, NEW c \in Clients, NEW phase, PhaseDone(c, phase),
           NEW next \in {"clear", "copy", "make", "drop", "over"}, NEW todo \in SUBSET Paths,
           Go(c, next, todo), locks' \subseteq locks,
           UNCHANGED <<req, issued, begun, objects, pending, faults>>, prepared' \subseteq Requests,
           \A u : Into(task[c], u, next, todo) /\ task'[c] = u
                  => Phases(c)' /\ CallOK(c)' /\ DavOK(c)' /\ MoveOK(c)' /\ LockOK(c)'
    PROVE  TreeInv'
<1>1. task[c] # None /\ At(c, "running") /\ task[c].at = None
  BY DEF PhaseDone, Working
<1>2. TreeTypeOK /\ faults \in 0..MaxFaults /\ faults <= faults
  BY TreeAssumption DEF TreeInv, TreeTypeOK
<1>3. PICK u : Becomes(c, u) /\ Into(task[c], u, next, todo)
  <2>1. next \in {"prepared", "clear", "copy", "make", "drop", "over"}
    OBVIOUS
  <2> QED
    BY <1>1, <1>2, <2>1, GoFields
<1>4. /\ u \in Task /\ u.wish = task[c].wish /\ u.snap = task[c].snap
      /\ task' = [task EXCEPT ![c] = u]
  BY <1>3 DEF Into, Resumes, Becomes
<1>5. faults' \in 0..MaxFaults /\ faults <= faults'
  BY <1>2
<1>6. task'[c] = u => Phases(c)' /\ CallOK(c)' /\ DavOK(c)' /\ MoveOK(c)' /\ LockOK(c)'
  BY <1>1, <1>3
<1> QED
  BY <1>1, <1>3, <1>4, <1>5, <1>6, TaskStep

\* A phase that is the last.
LEMMA LastPhase ==
    ASSUME TreeInv, NEW c \in Clients, NEW phase, PhaseDone(c, phase), Go(c, "over", {}),
           locks' \subseteq locks, UNCHANGED <<req, issued, begun, objects, pending, faults>>,
           prepared' \subseteq Requests,
           task[c].wish.op = "lock" =>
              Exists(task[c].wish.path) \/ \A lock \in locks' : lock.token # req[c].own
    PROVE  TreeInv'
<1>1. task[c] # None /\ At(c, "running") /\ req[c].pc = "running" /\ task[c].at = None
  BY DEF PhaseDone, Working, At
<1>2. req[c] # None /\ LockOK(c)
  BY <1>1, InFlight
<1>3. ASSUME NEW u, Into(task[c], u, "over", {}), task'[c] = u
      PROVE  Phases(c)' /\ CallOK(c)' /\ DavOK(c)' /\ MoveOK(c)' /\ LockOK(c)'
  <2>1. u \in Task /\ u.wish = task[c].wish /\ u.phase = "over" /\ u.at = None
    BY <1>1, <1>3 DEF Into, Resumes
  <2>2. Phases(c)' /\ CallOK(c)' /\ DavOK(c)' /\ MoveOK(c)'
    BY <1>1, <1>2, <1>3, <2>1, EndOK
  <2>3. \A p : Exists(p)' <=> Exists(p)
    BY SameObjects
  <2>4. LockOK(c)'
    BY <1>1, <1>2, <1>3, <2>1, <2>3 DEF LockOK
  <2> QED
    BY <2>2, <2>4
<1> QED
  BY <1>3, PhaseStep

\* The object is made: the handler answers.
LEMMA MadeStep ==
    ASSUME TreeInv, NEW c \in Clients, Made(c)
    PROVE  TreeInv'
<1>1. /\ PhaseDone(c, "make") /\ Go(c, "over", {}) /\ locks' \subseteq locks
      /\ UNCHANGED <<req, issued, begun, objects, pending, faults>> /\ prepared' = prepared
      /\ task[c] # None /\ task[c].phase = "make" /\ task[c].todo = {}
  BY DEF Made, PhaseDone, Working
<1>2. LockOK(c) /\ prepared' \subseteq Requests /\ task[c] \in Task
  BY <1>1, InFlight
<1>3. task[c].wish.op = "lock" =>
         Exists(task[c].wish.path) \/ \A lock \in locks' : lock.token # req[c].own
  <2>1. CASE task[c].failed
    BY <2>1 DEF Made
  <2>2. CASE ~task[c].failed
    BY <1>1, <1>2, <2>2 DEF LockOK
  <2> QED
    BY <2>1, <2>2
<1> QED
  BY <1>1, <1>2, <1>3, LastPhase

\* Everything is deleted: the handler answers.
LEMMA DroppedStep ==
    ASSUME TreeInv, NEW c \in Clients, Dropped(c)
    PROVE  TreeInv'
<1>1. /\ PhaseDone(c, "drop") /\ Go(c, "over", {}) /\ locks' \subseteq locks
      /\ UNCHANGED <<req, issued, begun, objects, pending, faults>> /\ prepared' = prepared
      /\ task[c] # None /\ task[c].phase = "drop"
  BY DEF Dropped, PhaseDone, Working
<1>2. Phases(c) /\ prepared' \subseteq Requests
  BY <1>1, InFlight
<1>3. task[c].wish.op # "lock"
  BY <1>1, <1>2 DEF Phases
<1> QED
  BY <1>1, <1>2, <1>3, LastPhase

\* The destination is clear: the copies begin.
LEMMA ClearedStep ==
    ASSUME TreeInv, NEW c \in Clients, Cleared(c)
    PROVE  TreeInv'
<1> DEFINE t == task[c]
           w == t.wish
<1>1. /\ PhaseDone(c, "clear") /\ locks' \subseteq locks
      /\ UNCHANGED <<req, issued, begun, objects, pending, faults>>
      /\ prepared' \in {prepared, prepared \union {w}}
      /\ t # None /\ t.phase = "clear" /\ t.todo = {} /\ t.at = None /\ req[c].pc = "running"
      /\ IF t.failed THEN Go(c, "over", {})
         ELSE Go(c, "copy", IF w.by = "job" THEN Tree(w.path) ELSE Sources(t))
  BY DEF Cleared, PhaseDone, Working, At
<1>2. /\ t \in Task /\ w \in Requests /\ w \in Wish /\ Phases(c) /\ DavOK(c) /\ MoveOK(c)
      /\ HandlerOK(c) /\ prepared \subseteq Requests /\ w.path \in Paths /\ w.dst \in Paths
  BY <1>1, InFlight, WishFields
<1>3. prepared' \subseteq Requests
  BY <1>1, <1>2
<1>4. w.op \in {"copy", "move"} /\ w.by \in {"dav", "job"}
  BY <1>1, <1>2, WishFields DEF Phases
<1>5. CASE t.failed
  BY <1>1, <1>3, <1>4, <1>5, LastPhase
<1>6. CASE ~t.failed
  <2> DEFINE todo == IF w.by = "job" THEN Tree(w.path) ELSE Sources(t)
  <2>1. todo \subseteq Below(w.path)
    <3>1. w.by = "dav" => In(t.snap) \subseteq Below(w.path)
      BY <1>1, <1>2 DEF HandlerOK
    <3>2. w.path \in Below(w.path)
      BY <1>2, BelowPaths
    <3> QED
      BY <1>4, <3>1, <3>2 DEF Tree, Sources
  <2>2. todo \in SUBSET Paths
    BY <2>1, BelowPaths
  <2>3. ASSUME NEW u, Into(t, u, "copy", todo), task'[c] = u
        PROVE  Phases(c)' /\ CallOK(c)' /\ DavOK(c)' /\ MoveOK(c)' /\ LockOK(c)'
    <3>1. /\ u \in Task /\ u.wish = w /\ u.snap = t.snap /\ u.dsnap = t.dsnap /\ u # None
          /\ u.phase = "copy" /\ u.todo = todo /\ u.done = {} /\ u.at = None
          /\ u.failed = t.failed /\ Resumes(t, u)
      BY <1>1, <2>3, TaskFields DEF Into, Resumes
    <3>2. Sources(u) = Sources(t) /\ \A q : Target(u, q) = Target(t, q)
      BY <3>1, SameCopies
    <3>3. req' = req /\ objects' = objects
      BY <1>1
    <3>4. Phases(c)'
      <4>1. Span(w) = Below(w.path)
        BY <1>4 DEF Span
      <4> QED
        BY <1>1, <1>4, <2>1, <2>3, <3>1, <3>3, <4>1 DEF Phases
    <3>5. CallOK(c)'
      BY <2>3, <3>1 DEF CallOK
    <3>6. DavOK(c)'
      <4> SUFFICES ASSUME w.by = "dav" PROVE DavOK(c)'
        BY <2>3, <3>1 DEF DavOK
      <4> DEFINE L == req[c].lockKeys
      <4>1. Checked(t, L)
        BY <1>1, <1>2 DEF DavOK
      <4>2. Checked(u, L)
        <5>1. CopyOK(u, L)
          <6>1. /\ Inside(L, w.dst, In(t.dsnap)) /\ Anchored(L, w.dst, Below(w.dst))
                /\ \A q \in Sources(t) : Upward(Target(t, q), w.dst) \subseteq L
            BY <1>1, <4>1 DEF ClearOK, Checked
          <6>2. w.dst \in L
            BY <6>1 DEF Inside
          <6>3. w.dst # <<>>
            <7>1. ~Nested(w.path, w.dst)
              BY <1>1, <1>2, <1>4 DEF HandlerOK
            <7> QED
              BY <1>2, <7>1, PathOrder DEF Nested
          <6>4. PICK a \in Ancestors(w.dst) \ {w.dst} :
                   Upward(w.dst, a) \subseteq L /\ Stays(a, Below(w.dst))
            BY <6>1, <6>3 DEF Anchored
          <6>5. a \in Paths /\ AtOrBelow(w.dst, a) /\ a # w.dst /\ Stays(a, {})
            BY <6>4 DEF Ancestors, Stays
          <6>6. ASSUME NEW q \in Sources(t) PROVE Creatable(L, Target(t, q))
            <7> DEFINE x == Target(t, q)
            <7>1. q \in Span(w)
              BY <1>4, <2>1 DEF Span
            <7>2. x \in Paths /\ AtOrBelow(x, w.dst)
              BY <1>2, <1>4, <7>1, TargetPaths
            <7> HIDE DEF x
            <7>3. Upward(x, w.dst) \subseteq L
              BY <6>1 DEF x
            <7>4. x \in L
              BY <1>2, <7>2, <7>3, BelowPaths
            <7>5. Upward(x, a) \subseteq L
              <8> SUFFICES ASSUME NEW y \in Paths, AtOrBelow(x, y), AtOrBelow(y, a) PROVE y \in L
                BY DEF Upward
              <8>1. AtOrBelow(y, w.dst) \/ AtOrBelow(w.dst, y)
                BY <1>2, <7>2, PathOrder DEF Nested
              <8> QED
                BY <6>4, <7>3, <8>1 DEF Upward
            <7>6. a \in Ancestors(x) \ {x}
              BY <1>2, <6>5, <7>2, PathOrder DEF Ancestors
            <7>7. Creatable(L, x)
              BY <6>5, <7>4, <7>5, <7>6 DEF Creatable, Anchored
            <7> QED
              BY <7>7 DEF x
          <6> QED
            BY <2>3, <3>1, <3>2, <6>2, <6>6 DEF CopyOK
        <5>2. SourceOK(u, L)
          BY <1>1, <2>3, <3>1, <4>1 DEF SourceOK, Checked
        <5> QED
          BY <3>1, <5>1, <5>2 DEF Checked, MakeOK, ClearOK, DropOK
      <4>3. Checked(u, L)'
        <5>1. ASSUME NEW l, l = L PROVE Checked(u, l)'
          BY <3>3, <4>2, <5>1, SameObjects
        <5> QED
          BY <3>3, <5>1
      <4> QED
        BY <2>3, <3>3, <4>3 DEF DavOK
    <3>7. MoveOK(c)'
      <4>1. w.op = "move" /\ w.by = "job" => ~Nested(w.path, w.dst)
        BY <1>1, <1>2 DEF MoveOK, Moved
      <4>2. w.by = "job" => \A q \in Span(w) : Mapped(q)' => q \in todo
        BY <3>3 DEF Span, Tree, Mapped
      <4> QED
        BY <1>4, <2>3, <3>1, <4>1, <4>2 DEF MoveOK, Moved, HasCopies
    <3>8. LockOK(c)'
      BY <1>4, <2>3, <3>1, NoLockOK
    <3> QED
      BY <3>4, <3>5, <3>6, <3>7, <3>8
  <2>4. Go(c, "copy", todo)
    BY <1>1, <1>6
  <2> HIDE DEF todo
  <2> QED
    BY <1>1, <1>3, <2>2, <2>3, <2>4, PhaseStep
<1> QED
  BY <1>5, <1>6

\* The copies are made: a COPY answers, a MOVE goes on to its source.
LEMMA CopiedStep ==
    ASSUME TreeInv, NEW c \in Clients, Copied(c)
    PROVE  TreeInv'
<1> DEFINE t == task[c]
           w == t.wish
           over == w.op = "copy" \/ (w.by # "dav" /\ t.failed)
<1>1. /\ PhaseDone(c, "copy") /\ locks' \subseteq locks
      /\ UNCHANGED <<req, issued, begun, objects, pending, faults>> /\ prepared' = prepared
      /\ t # None /\ t.phase = "copy" /\ t.todo = {} /\ t.at = None /\ req[c].pc = "running"
      /\ IF over THEN Go(c, "over", {}) ELSE Go(c, "drop", ToDrop(t))
  BY DEF Copied, PhaseDone, Working, At
<1>2. /\ t \in Task /\ w \in Requests /\ w \in Wish /\ Phases(c) /\ DavOK(c) /\ MoveOK(c)
      /\ prepared' \subseteq Requests /\ w.path \in Paths /\ w.dst \in Paths
  BY <1>1, InFlight, WishFields
<1>3. w.op \in {"copy", "move"} /\ w.by \in {"dav", "fm", "job"} /\ t.done \subseteq Span(w)
  BY <1>1, <1>2, WishFields DEF Phases
<1>4. CASE over
  BY <1>1, <1>2, <1>3, <1>4, LastPhase
<1>5. CASE ~over
  <2> DEFINE todo == ToDrop(t)
  <2>1. todo \subseteq Span(w)
    BY <1>3 DEF ToDrop, Span, Tree
  <2>2. todo \in SUBSET Paths
    BY <1>2, <2>1, BelowPaths DEF Span
  <2>3. ASSUME NEW u, Into(t, u, "drop", todo), task'[c] = u
        PROVE  Phases(c)' /\ CallOK(c)' /\ DavOK(c)' /\ MoveOK(c)' /\ LockOK(c)'
    <3>1. /\ u \in Task /\ u.wish = w /\ u.snap = t.snap /\ u.dsnap = t.dsnap /\ u # None
          /\ u.phase = "drop" /\ u.todo = todo /\ u.done = {} /\ u.at = None
          /\ u.failed = t.failed /\ Resumes(t, u)
      BY <1>1, <2>3, TaskFields DEF Into, Resumes
    <3>2. \A q : Target(u, q) = Target(t, q)
      BY <3>1, SameCopies
    <3>3. req' = req /\ objects' = objects /\ w.op = "move"
      BY <1>1, <1>3, <1>5
    <3>4. Phases(c)'
      BY <1>1, <2>1, <2>3, <3>1, <3>3 DEF Phases
    <3>5. CallOK(c)'
      BY <2>3, <3>1 DEF CallOK
    <3>6. DavOK(c)'
      <4> SUFFICES ASSUME w.by = "dav" PROVE DavOK(c)'
        BY <2>3, <3>1 DEF DavOK
      <4> DEFINE L == req[c].lockKeys
      <4>1. Checked(t, L)
        BY <1>1, <1>2 DEF DavOK
      <4>2. todo = t.done \intersect In(t.snap)
        BY DEF ToDrop
      <4>3. DropOK(u, L)
        BY <1>1, <3>1, <3>2, <3>3, <4>1, <4>2 DEF DropOK, CopyOK, Checked
      <4>4. SourceOK(u, L)
        BY <1>1, <3>1, <4>1 DEF SourceOK, Checked
      <4>5. Checked(u, L)
        BY <3>1, <4>3, <4>4 DEF Checked, MakeOK, ClearOK, CopyOK
      <4>6. ASSUME NEW l, l = L PROVE Checked(u, l)'
        BY <3>3, <4>5, <4>6, SameObjects
      <4> QED
        BY <2>3, <3>3, <4>6 DEF DavOK
    <3>7. MoveOK(c)'
      <4>1. w.by = "job" => ~Nested(w.path, w.dst)
        BY <1>1, <1>2, <3>3 DEF MoveOK, Moved
      <4>2. HasCopies(t, t.done)
        BY <1>1, <1>2, <3>3 DEF MoveOK, Moved
      <4>3. w.by # "dav" => \A q \in Span(w) : Mapped(q) => q \in t.done
        BY <1>1, <1>2, <1>5, <3>3 DEF MoveOK, Moved
      <4>4. HasCopies(u, todo)
        <5> SUFFICES ASSUME NEW q \in todo, Mapped(q) PROVE objects[Target(t, q)] = objects[q]
          BY <3>2 DEF HasCopies
        <5>1. w.by = "dav" => todo = t.done \intersect In(t.snap)
          BY DEF ToDrop
        <5>2. q \in t.done
          BY <2>1, <4>3, <5>1
        <5> QED
          BY <4>2, <5>2 DEF HasCopies
      <4>5. ASSUME NEW v, v = todo PROVE HasCopies(u, v)'
        <5>1. \A x : Mapped(x)' <=> Mapped(x)
          BY <3>3, SameObjects
        <5> HIDE DEF todo
        <5> QED
          BY <3>3, <4>4, <4>5, <5>1 DEF HasCopies
      <4> QED
        BY <2>3, <3>1, <4>1, <4>5 DEF MoveOK, Moved
    <3>8. LockOK(c)'
      BY <1>3, <2>3, <3>1, NoLockOK
    <3> QED
      BY <3>4, <3>5, <3>6, <3>7, <3>8
  <2>4. Go(c, "drop", todo)
    BY <1>1, <1>5
  <2> HIDE DEF todo
  <2> QED
    BY <1>1, <1>2, <2>2, <2>3, <2>4, PhaseStep
<1> QED
  BY <1>4, <1>5

-----------------------------------------------------------------------------
(* Calls that fail.                                                        *)

\* A handler that has less to do in a phase has still checked enough.
LEMMA LessToDo ==
    ASSUME NEW t, NEW u, NEW L, Resumes(t, u), u.phase = t.phase, u.todo \subseteq t.todo,
           Checked(t, L)',
           t.phase = "copy" => \A q \in u.done : q \in t.done \/ Mapped(Target(t, q))'
    PROVE  Checked(u, L)'
<1>1. /\ u.wish = t.wish /\ u.snap = t.snap /\ u.dsnap = t.dsnap
      /\ Sources(u) = Sources(t) /\ \A q : Target(u, q) = Target(t, q)
  BY SameCopies DEF Resumes
<1>2. MakeOK(u, L)'
  BY <1>1 DEF MakeOK, Checked
<1>3. ClearOK(u, L)'
  BY <1>1 DEF ClearOK, Checked
<1>4. CopyOK(u, L)'
  BY <1>1 DEF CopyOK, Checked
<1>5. SourceOK(u, L)'
  BY <1>1 DEF SourceOK, Checked
<1>6. DropOK(u, L)'
  BY <1>1 DEF DropOK, Checked
<1> QED
  BY <1>2, <1>3, <1>4, <1>5, <1>6 DEF Checked

\* What a failed call leaves of a handler.
LEMMA FailedFields ==
    ASSUME NEW t \in Task, NEW q
    PROVE  /\ Resumes(t, Failed(t, q)) /\ Failed(t, q).phase = t.phase
           /\ Failed(t, q).todo \subseteq t.todo \ {q} /\ Failed(t, q).done = t.done
           /\ Failed(t, q).at = None /\ Failed(t, q).failed = TRUE
<1> DEFINE u == Failed(t, q)
           todo == IF t.wish.by = "dav" THEN t.todo \ {q} ELSE {}
<1>1. todo \subseteq t.todo \ {q} /\ todo \subseteq Paths
  BY TaskFields
<1>2. u = [t EXCEPT !.at = None, !.failed = TRUE, !.todo = todo]
  BY DEF Failed, Task
<1> HIDE DEF todo
<1>3. /\ u \in Task /\ u.wish = t.wish /\ u.snap = t.snap /\ u.dsnap = t.dsnap
      /\ u.body = t.body /\ u.phase = t.phase /\ u.todo = todo /\ u.done = t.done
      /\ u.at = None /\ u.failed = TRUE
  BY <1>1, <1>2 DEF Task
<1> QED
  BY <1>1, <1>3 DEF Resumes

\* Phases that serve objects one by one.
Busy == {"clear", "copy", "make", "drop"}

\* A failed call leaves less to be done, under the same locks.
LEMMA FailedOK ==
    ASSUME TreeInv, NEW c \in Clients, NEW u, NEW q, task[c] # None, req[c].pc = "running",
           task[c].phase \in Busy, u = Failed(task[c], q), task'[c] = u,
           UNCHANGED <<req, objects>>, locks' \subseteq locks
    PROVE  Phases(c)' /\ CallOK(c)' /\ DavOK(c)' /\ MoveOK(c)' /\ LockOK(c)'
<1> DEFINE t == task[c]
<1>1. /\ t \in Task /\ t.wish \in Requests /\ req[c] # None
      /\ Phases(c) /\ DavOK(c) /\ MoveOK(c) /\ LockOK(c)
  BY InFlight
<1>2. /\ Resumes(t, u) /\ u.phase = t.phase /\ u.todo \subseteq t.todo /\ u.done = t.done
      /\ u.at = None /\ u.failed = TRUE /\ u.wish = t.wish /\ u # None
      /\ \A x : Target(u, x) = Target(t, x)
  <2>1. /\ Resumes(t, u) /\ u.phase = t.phase /\ u.todo \subseteq t.todo /\ u.done = t.done
        /\ u.at = None /\ u.failed = TRUE
    <3>1. ASSUME NEW v \in Task, v = t PROVE
        /\ Resumes(v, Failed(v, q)) /\ Failed(v, q).phase = v.phase
        /\ Failed(v, q).todo \subseteq v.todo /\ Failed(v, q).done = v.done
        /\ Failed(v, q).at = None /\ Failed(v, q).failed = TRUE
      BY FailedFields
    <3>2. Failed(t, q) = u
      OBVIOUS
    <3> QED
      BY <1>1, <3>1, <3>2
  <2>2. u \in Task /\ u.wish = t.wish
    BY <2>1 DEF Resumes
  <2>3. \A x : Target(u, x) = Target(t, x)
    BY <2>1, SameCopies
  <2> QED
    BY <2>1, <2>2, <2>3, TaskFields
<1>3. Phases(c)'
  BY <1>1, <1>2 DEF Phases, Busy
<1>4. CallOK(c)'
  BY <1>2 DEF CallOK
<1>5. DavOK(c)'
  <2> SUFFICES ASSUME t.wish.by = "dav" PROVE DavOK(c)'
    BY <1>2 DEF DavOK
  <2>1. ASSUME NEW v, NEW L, v = t, L = req[c].lockKeys PROVE Checked(u, L)'
    <3>1. Checked(v, L)'
      BY <1>1, <2>1, SameObjects DEF DavOK
    <3> QED
      BY <1>2, <2>1, <3>1, LessToDo
  <2> QED
    BY <2>1 DEF DavOK
<1>6. MoveOK(c)'
  <2>1. \A x : Mapped(x)' <=> Mapped(x)
    BY SameObjects
  <2>2. Moved(t)
    BY <1>1 DEF MoveOK
  <2>3. ASSUME NEW v, v = t PROVE Moved(u)'
    BY <1>2, <2>1, <2>2, <2>3 DEF Moved, HasCopies
  <2> QED
    BY <2>3 DEF MoveOK
<1>7. LockOK(c)'
  BY <1>1, <1>2 DEF LockOK, Busy
<1> QED
  BY <1>3, <1>4, <1>5, <1>6, <1>7

\* The service refuses a call.
LEMMA DeniedStep ==
    ASSUME TreeInv, NEW c \in Clients, NEW q, Serving(c), Denied(c, q)
    PROVE  TreeInv'
<1>1. /\ task[c] # None /\ At(c, "running") /\ req[c].pc = "running"
      /\ task[c].phase \in Busy
  BY DEF Serving, At, Busy
<1>2. /\ task' = [task EXCEPT ![c] = Failed(task[c], q)] /\ locks' \subseteq locks
      /\ UNCHANGED <<req, issued, begun, objects, pending, prepared, faults>>
  BY DEF Denied
<1>3. task[c] \in Task /\ faults \in 0..MaxFaults /\ prepared \subseteq Requests
  BY <1>1, InFlight
<1>4. faults <= faults' /\ faults' \in 0..MaxFaults /\ prepared' \subseteq Requests
  BY <1>2, <1>3, TreeAssumption
<1>5. Resumes(task[c], Failed(task[c], q))
  BY <1>3, FailedFields
<1>6. ASSUME NEW u, u = Failed(task[c], q) PROVE TreeInv'
  <2>1. /\ u \in Task /\ u.wish = task[c].wish /\ u.snap = task[c].snap
        /\ task' = [task EXCEPT ![c] = u]
    BY <1>2, <1>5, <1>6 DEF Resumes
  <2>2. task'[c] = u => Phases(c)' /\ CallOK(c)' /\ DavOK(c)' /\ MoveOK(c)' /\ LockOK(c)'
    BY <1>1, <1>2, <1>6, FailedOK
  <2> QED
    BY <1>1, <1>2, <1>4, <2>1, <2>2, TaskStep
<1> QED
  BY <1>6

\* A write waits for another one of the same path.
LEMMA HoldStep ==
    ASSUME TreeInv, NEW c \in Clients, Hold(c)
    PROVE  TreeInv'
<1>1. task[c] # None /\ At(c, "running") /\ req[c].pc = "running" /\ task[c].at # None
  BY DEF Hold, InCall, At
<1>2. task[c] \in Task /\ Phases(c) /\ CallOK(c) /\ faults \in 0..MaxFaults /\ prepared \subseteq Requests
  BY <1>1, InFlight
<1>3. task[c].phase \in Busy
  BY <1>1, <1>2, TaskFields DEF Phases, Busy
<1>4. /\ task' = [task EXCEPT ![c] = Failed(task[c], task[c].at)]
      /\ faults < MaxFaults /\ faults' = faults + 1
      /\ UNCHANGED <<locks, req, issued, begun, objects, pending, prepared>>
  BY <1>2 DEF Hold, Fault, vars
<1>5. faults <= faults' /\ faults' \in 0..MaxFaults /\ prepared' \subseteq Requests
  BY <1>2, <1>4, TreeAssumption
<1>6. Resumes(task[c], Failed(task[c], task[c].at))
  BY <1>2, FailedFields
<1>7. ASSUME NEW u, NEW q, q = task[c].at, u = Failed(task[c], q) PROVE TreeInv'
  <2>1. /\ u \in Task /\ u.wish = task[c].wish /\ u.snap = task[c].snap
        /\ task' = [task EXCEPT ![c] = u]
    BY <1>4, <1>6, <1>7 DEF Resumes
  <2>2. locks' \subseteq locks
    BY <1>4
  <2>3. task'[c] = u => Phases(c)' /\ CallOK(c)' /\ DavOK(c)' /\ MoveOK(c)' /\ LockOK(c)'
    BY <1>1, <1>3, <1>4, <1>7, <2>2, FailedOK
  <2> QED
    BY <1>1, <1>4, <1>5, <2>1, <2>2, <2>3, TaskStep
<1> QED
  BY <1>7

-----------------------------------------------------------------------------
(* Calls that begin.                                                       *)

\* What the beginning of a call leaves of a handler.
LEMMA AtFields ==
    ASSUME NEW t \in Task, NEW q \in Paths
    PROVE  LET u == [t EXCEPT !.at = q]
           IN  /\ Resumes(t, u) /\ u.phase = t.phase /\ u.todo = t.todo
               /\ u.done = t.done /\ u.at = q /\ u.failed = t.failed
BY DEF Task, Resumes

\* The path of an object is among those that its change needs.
LEMMA OwnPath ==
    ASSUME NEW p \in Paths
    PROVE  p \in CreationPaths(p) /\ p \in ServicePutPaths(p) /\ p \in ServiceDeletePaths(p)
BY PathOrder DEF CreationPaths, ServicePutPaths, ServiceDeletePaths, Ancestors

\* The object that is served next, and where it is written.
LEMMA Due ==
    ASSUME TreeInv, NEW c \in Clients, Serving(c), NEW q \in NextDue(task[c])
    PROVE  /\ q \in task[c].todo /\ q \in Paths /\ Place(task[c], q) \in Paths
           /\ Place(task[c], q) \in ServicePaths(task[c], q)
           /\ Deletes(task[c]) => Place(task[c], q) = q
<1> DEFINE t == task[c]
<1>1. t # None /\ t.phase \in Busy
  BY DEF Serving, Busy
<1>2. t \in Task /\ t.wish \in Requests /\ Phases(c) /\ t.todo \subseteq Paths
  BY <1>1, InFlight, TaskFields
<1>3. q \in t.todo /\ q \in Paths
  BY <1>2 DEF NextDue
<1>4. Place(t, q) \in Paths
  <2>1. CASE t.phase = "copy"
    <3>1. t.wish.op \in {"copy", "move"} /\ q \in Span(t.wish)
      BY <1>1, <1>2, <1>3, <2>1 DEF Phases
    <3> QED
      BY <1>2, <2>1, <3>1, TargetPaths DEF Place
  <2>2. CASE t.phase # "copy"
    BY <1>3, <2>2 DEF Place
  <2> QED
    BY <2>1, <2>2
<1>5. Deletes(t) => Place(t, q) = q
  BY DEF Deletes, Place
<1>6. Place(t, q) \in ServicePaths(t, q)
  BY <1>3, <1>4, <1>5, OwnPath DEF ServicePaths
<1> QED
  BY <1>3, <1>4, <1>5, <1>6

\* The service notes what it is about to write or delete.
LEMMA StartStep ==
    ASSUME TreeInv, NEW c \in Clients, Serving(c), NEW q \in NextDue(task[c]), NEW p,
           p = Place(task[c], q), NEW v \in Object \union {Deletion},
           v = Deletion <=> Deletes(task[c]),
           InScope(c, ServicePaths(task[c], q)),
           task[c].phase = "copy" /\ task[c].wish.op = "move" /\ Mapped(q) => v = objects[q],
           pending' = [pending EXCEPT ![p] = v],
           task' = [task EXCEPT ![c].at = q],
           UNCHANGED <<vars, objects, prepared, faults>>,
           Namespace'
    PROVE  TreeInv'
<1> DEFINE t == task[c]
<1>1. t # None /\ At(c, "running") /\ req[c].pc = "running" /\ t.phase \in Busy /\ t.at = None
  BY DEF Serving, At, Busy
<1>2. /\ t \in Task /\ t.wish \in Requests /\ req[c] # None
      /\ Phases(c) /\ DavOK(c) /\ MoveOK(c) /\ LockOK(c)
      /\ faults \in 0..MaxFaults /\ prepared \subseteq Requests
      /\ TreeTypeOK /\ LocksRooted
  BY <1>1, InFlight DEF TreeInv
<1>3. /\ q \in t.todo /\ q \in Paths /\ p \in Paths /\ p \in ServicePaths(t, q) /\ p \in Guarded(c)
  <2>1. q \in t.todo /\ q \in Paths /\ p \in Paths /\ p \in ServicePaths(t, q)
    BY Due
  <2>2. p \in Guarded(c)
    BY <2>1 DEF InScope, Guarded, Under
  <2> QED
    BY <2>1, <2>2
<1>4. UNCHANGED <<locks, req, issued, begun, objects, prepared, faults>>
  BY DEF vars
<1>5. pending'[p] = v /\ pending' \in [Paths -> Object \union {Deletion, None}]
      /\ \A x \in Paths \ {p} : pending'[x] = pending[x]
  BY <1>2, <1>3 DEF TreeTypeOK
<1>6. ASSUME NEW u, u = [t EXCEPT !.at = q] PROVE TreeInv'
  <2>1. /\ Resumes(t, u) /\ u.phase = t.phase /\ u.todo = t.todo
        /\ u.done = t.done /\ u.at = q /\ u.failed = t.failed
    BY <1>2, <1>3, <1>6, AtFields
  <2>2. u \in Task /\ u.wish = t.wish /\ u.snap = t.snap /\ u # None
        /\ \A x : Target(u, x) = Target(t, x)
    BY <2>1, SameCopies, TaskFields DEF Resumes
  <2>3. task' = [task EXCEPT ![c] = u]
    BY <1>6
  <2>4. Turns(c, u)
    BY <1>1, <1>3, <1>4, <1>5, <2>2, <2>3 DEF Turns, Untouched
  <2>5. /\ TreeTypeOK' /\ IInv' /\ TokensDrawn'
        /\ task'[c] = u /\ HandlerOK(c)' /\ Registered(c)'
        /\ \A d \in Clients \ {c} : ClientOK(d)'
    <3>1. /\ objects' \in [Paths -> Object \union {None}]
          /\ prepared' \subseteq Requests /\ faults' \in 0..MaxFaults
      BY <1>2, <1>4 DEF TreeTypeOK
    <3> QED
      BY <1>5, <2>4, <3>1, OwnStep
  <2>6. LocksRooted'
    <3>1. faults \in Nat /\ faults' \in Nat /\ faults <= faults'
      BY <1>2, <1>4, TreeAssumption
    <3> QED
      BY <1>2, <1>4, <3>1, RootedSame
  <2>7. Phases(c)'
    BY <1>1, <1>2, <1>4, <2>1, <2>2, <2>5 DEF Phases, Busy
  <2>8. CallOK(c)'
    <3>1. Place(u, q) = p /\ (Deletes(u) <=> Deletes(t))
      BY <2>1, <2>2 DEF Place, Deletes
    <3>2. Written(c)' = p
      BY <2>1, <2>5, <3>1 DEF Written
    <3>3. Guarded(c)' = Guarded(c)
      BY <1>4 DEF Guarded
    <3>4. v # None
      BY Nothing
    <3> QED
      BY <1>3, <1>5, <2>1, <2>5, <3>1, <3>2, <3>3, <3>4 DEF CallOK
  <2>9. DavOK(c)'
    <3> SUFFICES ASSUME t.wish.by = "dav" PROVE DavOK(c)'
      BY <2>2, <2>5 DEF DavOK
    <3>1. ASSUME NEW x, NEW L, x = t, L = req[c].lockKeys PROVE Checked(u, L)'
      <4>1. Checked(x, L)'
        BY <1>1, <1>2, <1>4, <3>1, SameObjects DEF DavOK
      <4> QED
        BY <2>1, <3>1, <4>1, LessToDo
    <3> QED
      BY <1>4, <2>5, <3>1 DEF DavOK
  <2>10. MoveOK(c)'
    <3>1. \A x : Mapped(x)' <=> Mapped(x)
      BY <1>4, SameObjects
    <3>2. Moved(t)
      BY <1>1, <1>2 DEF MoveOK
    <3>3. t.phase = "copy" /\ t.wish.op = "move" /\ Mapped(q) => pending'[Target(t, q)] = objects[q]
      BY <1>5 DEF Place
    <3>4. ASSUME NEW x, x = t PROVE Moved(u)'
      BY <1>4, <2>1, <2>2, <3>1, <3>2, <3>3, <3>4 DEF Moved, HasCopies
    <3> QED
      BY <2>5, <3>4 DEF MoveOK
  <2>11. LockOK(c)'
    <3>1. \A x : Exists(x)' <=> Exists(x)
      BY <1>4, SameObjects
    <3> QED
      BY <1>1, <1>2, <1>4, <2>1, <2>2, <2>5, <3>1 DEF LockOK
  <2> QED
    BY <2>5, <2>6, <2>7, <2>8, <2>9, <2>10, <2>11 DEF TreeInv, ClientOK
<1> QED
  BY <1>6

\* What is written is an object.
LEMMA ContentObject ==
    ASSUME TreeTypeOK, NEW t \in Task, NEW q \in Paths
    PROVE  Content(t, q) \in Object /\ (t.wish.op = "move" /\ Mapped(q) => Content(t, q) = objects[q])
<1>1. t.wish.op \in {"put", "mkcol", "delete", "copy", "move", "lock"} /\ t.body \in Nat
  BY TaskFields, WishFields
<1>2. Mapped(q) => objects[q] \in Object
  BY DEF TreeTypeOK, Mapped
<1>3. \A k \in {"file", "dir"}, b \in Nat : [kind |-> k, body |-> b] \in Object
  BY DEF Object
<1> QED
  BY <1>1, <1>2, <1>3 DEF Content

\* A write in progress leaves one kind at a path and nothing below a file.
LEMMA StartWriteNamespace ==
    ASSUME TreeTypeOK, Namespace, NEW p \in Paths, NEW o \in Object, pending[p] = None,
           ~NamespaceConflict(p, o.kind), pending' = [pending EXCEPT ![p] = o],
           objects' = objects
    PROVE  Namespace'
<1>1. \A x \in Paths : x # p => KindsAt(x)' = KindsAt(x)
  BY DEF KindsAt, TreeTypeOK
<1>2. KindsAt(p)' \subseteq KindsAt(p) \union {o.kind}
  BY DEF KindsAt, TreeTypeOK
<1>3. /\ KindsAt(p) \subseteq {o.kind}
      /\ \A x \in Ancestors(p) \ {p} : "file" \notin KindsAt(x)
      /\ o.kind = "file" => \A x \in Below(p) \ {p} : KindsAt(x) = {}
  BY DEF NamespaceConflict
<1>4. ASSUME NEW x \in Paths, NEW k \in KindsAt(x)', NEW j \in KindsAt(x)' PROVE k = j
  BY <1>1, <1>2, <1>3 DEF Namespace
<1>5. ASSUME NEW x \in Paths, NEW y \in Paths, "file" \in KindsAt(x)', y # x, AtOrBelow(y, x)
      PROVE  KindsAt(y)' = {}
  <2>1. CASE x # p /\ y # p
    BY <1>1, <1>5, <2>1 DEF Namespace
  <2>2. CASE x = p
    <3>1. o.kind = "file"
      BY <1>2, <1>3, <1>5, <2>2
    <3> QED
      BY <1>1, <1>3, <1>5, <2>2, <3>1 DEF Below
  <2>3. CASE y = p
    BY <1>1, <1>3, <1>5, <2>3 DEF Ancestors
  <2> QED
    BY <2>1, <2>2, <2>3
<1> QED
  BY <1>4, <1>5 DEF Namespace

\* A write begins.
LEMMA StartWriteStep ==
    ASSUME TreeInv, NEW c \in Clients, Serving(c), NEW q \in NextDue(task[c]), StartWrite(c, q)
    PROVE  TreeInv'
<1>1. task[c] \in Task /\ TreeTypeOK /\ Namespace /\ q \in Paths /\ Place(task[c], q) \in Paths
  BY InFlight, Due DEF Serving, TreeInv
<1>2. Content(task[c], q) \in Object
      /\ (task[c].wish.op = "move" /\ Mapped(q) => Content(task[c], q) = objects[q])
  BY <1>1, ContentObject
<1>3. /\ ~Deletes(task[c]) /\ InScope(c, ServicePaths(task[c], q))
      /\ pending[Place(task[c], q)] = None
      /\ ~NamespaceConflict(Place(task[c], q), Content(task[c], q).kind)
      /\ pending' = [pending EXCEPT ![Place(task[c], q)] = Content(task[c], q)]
      /\ task' = [task EXCEPT ![c].at = q]
      /\ UNCHANGED <<vars, objects, prepared, faults>>
  BY DEF StartWrite
<1>4. Namespace'
  BY <1>1, <1>2, <1>3, StartWriteNamespace
<1>5. Content(task[c], q) # Deletion
  BY <1>2, Nothing
<1> QED
  BY <1>2, <1>3, <1>4, <1>5, StartStep

\* A deletion begins.
LEMMA StartDeleteStep ==
    ASSUME TreeInv, NEW c \in Clients, Serving(c), NEW q \in NextDue(task[c]), StartDelete(c, q)
    PROVE  TreeInv'
<1>1. TreeTypeOK /\ Namespace /\ q \in Paths
  BY Due DEF TreeInv
<1>2. /\ Deletes(task[c]) /\ InScope(c, ServicePaths(task[c], q)) /\ pending[q] = None
      /\ pending' = [pending EXCEPT ![q] = Deletion]
      /\ task' = [task EXCEPT ![c].at = q]
      /\ UNCHANGED <<vars, objects, prepared, faults>>
  BY DEF StartDelete
<1>3. \A x \in Paths : KindsAt(x)' = KindsAt(x)
  BY <1>1, <1>2 DEF KindsAt, TreeTypeOK
<1>4. Namespace'
  BY <1>1, <1>3 DEF Namespace
<1>5. q = Place(task[c], q) /\ task[c].phase # "copy"
  BY <1>2 DEF Place, Deletes
<1> QED
  BY <1>2, <1>4, <1>5, StartStep

-----------------------------------------------------------------------------
(* Calls that end.                                                         *)

\* With fewer objects and writes in progress the index is still a tree.
LEMMA NamespaceShrinks ==
    ASSUME Namespace, \A x \in Paths : KindsAt(x)' \subseteq KindsAt(x)
    PROVE  Namespace'
BY DEF Namespace

\* What becomes of the path of an intent.
LEMMA ApplyFacts ==
    ASSUME TreeTypeOK, Namespace, NEW p \in Paths, pending[p] # None, Apply(p)
    PROVE  /\ objects' \in [Paths -> Object \union {None}]
           /\ pending' \in [Paths -> Object \union {Deletion, None}]
           /\ objects'[p] = Outcome(p)
           /\ \A x \in Paths \ {p} : objects'[x] = objects[x] /\ pending'[x] = pending[x]
           /\ pending[p] # Deletion => /\ Mapped(p)' /\ objects'[p] = pending[p] /\ \A X : Persist(X)
           /\ pending[p] = Deletion => ~Mapped(p)'
           /\ Namespace'
<1>1. /\ objects \in [Paths -> Object \union {None}]
      /\ pending \in [Paths -> Object \union {Deletion, None}]
      /\ objects' = [objects EXCEPT ![p] = Outcome(p)]
      /\ pending' = [pending EXCEPT ![p] = None]
  BY DEF TreeTypeOK, Apply
<1>2. Outcome(p) \in Object \union {None} /\ (pending[p] # Deletion => Outcome(p) = pending[p])
      /\ (pending[p] = Deletion => Outcome(p) = None)
  BY <1>1 DEF Outcome
<1>3. /\ objects' \in [Paths -> Object \union {None}]
      /\ pending' \in [Paths -> Object \union {Deletion, None}]
      /\ objects'[p] = Outcome(p) /\ pending'[p] = None
      /\ \A x \in Paths \ {p} : objects'[x] = objects[x] /\ pending'[x] = pending[x]
  BY <1>1, <1>2
<1>4. \A x \in Paths : KindsAt(x)' \subseteq KindsAt(x)
  <2>1. \A x \in Paths \ {p} : KindsAt(x)' = KindsAt(x)
    BY <1>3 DEF KindsAt
  <2>2. KindsAt(p)' \subseteq KindsAt(p)
    BY <1>2, <1>3 DEF KindsAt
  <2> QED
    BY <2>1, <2>2
<1>5. ASSUME pending[p] # Deletion
      PROVE  Mapped(p)' /\ objects'[p] = pending[p] /\ \A X : Persist(X)
  <2>1. objects'[p] = pending[p] /\ Mapped(p)'
    BY <1>2, <1>3, <1>5 DEF Mapped
  <2>2. Mapped(p) => objects[p].kind \in KindsAt(p) /\ pending[p].kind \in KindsAt(p)
    BY <1>1, <1>5, Nothing DEF Mapped, KindsAt
  <2>3. Mapped(p) => objects[p].kind = pending[p].kind
    BY <2>2 DEF Namespace
  <2>4. \A x : x # p => objects'[x] = objects[x]
    BY <1>1
  <2>5. ASSUME NEW X PROVE Persist(X)
    BY <2>1, <2>3, <2>4 DEF Persist, Mapped
  <2> QED
    BY <2>1, <2>5
<1>6. pending[p] = Deletion => ~Mapped(p)'
  BY <1>2, <1>3 DEF Mapped
<1> QED
  BY <1>3, <1>4, <1>5, <1>6, NamespaceShrinks

\* Deletions take every lock with them that loses its resource.
LEMMA RootedApply ==
    ASSUME TreeTypeOK, TypeOK, Namespace, LocksRooted, NEW p \in Paths, pending[p] # None, Apply(p),
           locks' = locks \ Orphaned(p), faults' \in Nat, faults \in Nat, faults <= faults'
    PROVE  LocksRooted'
<1> SUFFICES ASSUME faults' = 0, NEW lock \in locks',
                    ~ \E c \in Clients : req'[c] # None /\ req'[c].own = lock.token
             PROVE  Exists(lock.root)'
  BY DEF LocksRooted
<1>1. lock \in locks /\ faults = 0 /\ req' = req /\ lock.root \in Paths
  BY DEF Apply, TypeOK, Lock
<1>2. ASSUME NEW r \in Paths, r = lock.root PROVE Exists(r)'
  <2>1. Exists(r)
    BY <1>1, <1>2 DEF LocksRooted
  <2>2. CASE r = <<>>
    BY <2>2 DEF Exists, Collection
  <2>3. CASE r # <<>>
    <3>1. PICK y \in Tree(r) : TRUE
      <4>1. Mapped(r) => r \in Tree(r)
        BY BelowPaths DEF Tree
      <4> QED
        BY <2>1, <2>3, <4>1 DEF Exists, Collection
    <3>2. \A z \in Paths : AtOrBelow(z, r) /\ Mapped(z)' => Exists(r)'
      BY DEF Exists, Collection, Tree, Below
    <3>3. y \in Paths /\ AtOrBelow(y, r) /\ Mapped(y)
      BY <3>1 DEF Tree, Below
    <3>4. CASE pending[p] # Deletion
      <4>1. Mapped(y)'
        BY <3>3, <3>4, ApplyFacts DEF Persist
      <4> QED
        BY <3>2, <3>3, <4>1
    <3>5. CASE pending[p] = Deletion
      <4>1. lock \notin Unmapped({p})
        BY <3>5 DEF Orphaned
      <4>2. RemainsWithout(r, {p}) \/ ~AtOrBelow(p, r)
        BY <1>1, <1>2, <2>3, <4>1 DEF Unmapped
      <4>3. PICK z \in Paths : AtOrBelow(z, r) /\ Mapped(z) /\ z # p
        BY <3>3, <4>2 DEF RemainsWithout, Tree, Below
      <4>4. Mapped(z)'
        BY <4>3, ApplyFacts DEF Mapped
      <4> QED
        BY <3>2, <4>3, <4>4
    <3> QED
      BY <3>4, <3>5
  <2> QED
    BY <2>2, <2>3
<1> QED
  BY <1>1, <1>2

\* What a served call leaves of a handler.
LEMMA ServedFields ==
    ASSUME NEW t \in Task, t.at \in Paths
    PROVE  /\ Resumes(t, Served(t)) /\ Served(t).phase = t.phase
           /\ Served(t).todo = t.todo \ {t.at} /\ Served(t).done = t.done \union {t.at}
           /\ Served(t).at = None /\ Served(t).failed = t.failed
<1> DEFINE u == Served(t)
           todo == t.todo \ {t.at}
           done == t.done \union {t.at}
<1>1. todo \subseteq Paths /\ done \subseteq Paths
  BY TaskFields
<1>2. u = [t EXCEPT !.at = None, !.todo = todo, !.done = done]
  BY DEF Served, Task
<1> HIDE DEF todo, done
<1>3. /\ u \in Task /\ u.wish = t.wish /\ u.snap = t.snap /\ u.dsnap = t.dsnap
      /\ u.body = t.body /\ u.phase = t.phase /\ u.todo = todo /\ u.done = done
      /\ u.at = None /\ u.failed = t.failed
  BY <1>1, <1>2 DEF Task
<1> QED
  BY <1>3 DEF Resumes, todo, done

\* A deletion at the destination or at the source leaves what was checked.
LEMMA CheckedDelete ==
    ASSUME NEW t \in Task, t.wish \in Requests, NEW L, Checked(t, L), NEW p \in Paths,
           t.phase = "clear" => p \in Below(t.wish.dst),
           t.phase = "drop" => /\ p \in Below(t.wish.path) /\ t.todo \subseteq Span(t.wish)
                               /\ t.wish.op = "move" => ~Nested(t.wish.path, t.wish.dst),
           Deletes(t), \A x : x # p => objects'[x] = objects[x]
    PROVE  Checked(t, L)'
<1> DEFINE w == t.wish
<1>1. w \in Wish /\ w.path \in Paths /\ w.dst \in Paths /\ t.phase \in {"clear", "drop"}
  BY TaskFields, WishFields DEF Deletes
<1>2. ASSUME NEW S, p \in S PROVE \A X : Persist(X \ S)
  BY <1>2 DEF Persist, Mapped
<1>3. ClearOK(t, L)'
  BY <1>1, <1>2, AnchoredKeeps DEF ClearOK, Checked, Inside
<1>4. SourceOK(t, L)'
  <2> SUFFICES ASSUME w.op = "move" PROVE SourceOK(t, L)'
    BY DEF SourceOK
  <2>1. w.dst \in L /\ Inside(L, w.path, In(t.snap)) /\ Kept(L, w)
    BY <1>1 DEF SourceOK, Checked
  <2>2. p \in Below(w.path) \union Below(w.dst)
    BY <1>1
  <2>3. Persist(Under(L) \ (Below(w.path) \union Below(w.dst)))
    BY <1>2, <2>2
  <2>4. Kept(L, w)'
    BY <1>1, <2>1, <2>3, KeptKeeps
  <2> QED
    BY <2>1, <2>4 DEF SourceOK, Inside
<1>5. DropOK(t, L)'
  <2> SUFFICES ASSUME t.phase = "drop" PROVE DropOK(t, L)'
    BY DEF DropOK
  <2>1. p \in Below(w.path)
    OBVIOUS
  <2>2. w.op = "delete" => /\ Inside(L, w.path, In(t.snap))
                           /\ Anchored(L, w.path, Below(w.path))'
    <3>1. Persist(Under(L) \ Below(w.path))
      BY <1>2, <2>1
    <3> QED
      BY <1>1, <3>1, AnchoredKeeps DEF DropOK, Checked
  <2>3. ASSUME w.op = "move", NEW q \in t.todo PROVE Mapped(Target(t, q))'
    <3>1. Target(t, q) \in Paths /\ AtOrBelow(Target(t, q), w.dst)
      BY <2>3, TargetPaths
    <3>2. Target(t, q) # p
      BY <1>1, <2>1, <2>3, <3>1, Apart DEF Below
    <3>3. Mapped(Target(t, q))
      BY <2>3 DEF DropOK, Checked
    <3> QED
      BY <3>2, <3>3 DEF Mapped
  <2> QED
    BY <2>2, <2>3 DEF DropOK, Checked, Inside
<1> QED
  BY <1>1, <1>3, <1>4, <1>5 DEF Checked, MakeOK, CopyOK

\* What a handler in a call knows.
LEMMA InCallFacts ==
    ASSUME TreeInv, NEW c \in Clients, InCall(c)
    PROVE  /\ task[c] # None /\ At(c, "running") /\ req[c].pc = "running" /\ req[c] # None
           /\ task[c] \in Task /\ task[c].wish \in Requests /\ task[c].phase \in Busy
           /\ task[c].at \in task[c].todo /\ task[c].at \in Paths
           /\ Written(c) \in Paths /\ Written(c) \in Guarded(c)
           /\ Written(c) = Place(task[c], task[c].at)
           /\ pending[Written(c)] # None /\ (pending[Written(c)] = Deletion <=> Deletes(task[c]))
<1>1. task[c] # None /\ At(c, "running") /\ req[c].pc = "running" /\ task[c].at # None
  BY DEF InCall, At
<1>2. /\ task[c] \in Task /\ task[c].wish \in Requests /\ req[c] # None
      /\ Phases(c) /\ CallOK(c)
  BY <1>1, InFlight
<1>3. task[c].phase \in Busy
  BY <1>1, <1>2, TaskFields DEF Phases, Busy
<1>4. /\ task[c].at \in task[c].todo /\ Written(c) \in Guarded(c)
      /\ pending[Written(c)] # None /\ (pending[Written(c)] = Deletion <=> Deletes(task[c]))
  BY <1>1, <1>2 DEF CallOK
<1>5. task[c].at \in Paths /\ Written(c) \in Paths
  BY <1>2, <1>4, TaskFields DEF Guarded, Under
<1> QED
  BY <1>1, <1>2, <1>3, <1>4, <1>5 DEF Written

\* Where a MOVE writes and deletes, and what that leaves alone.
LEMMA MoveApart ==
    ASSUME TreeInv, NEW c \in Clients, InCall(c), task[c].wish.op = "move",
           task[c].phase \in {"copy", "drop"}
    PROVE  LET t == task[c]
               w == t.wish
           IN  /\ t.at \in Span(w)
               /\ t.phase = "copy" => Written(c) = Target(t, t.at) /\ Written(c) \notin Span(w)
               /\ t.phase = "drop" => Written(c) = t.at /\ \A q \in Span(w) : Target(t, q) # t.at
<1> DEFINE t == task[c]
           w == t.wish
<1>1. /\ t \in Task /\ w \in Requests /\ t.at \in t.todo /\ t # None
      /\ Written(c) = Place(t, t.at)
  BY InCallFacts
<1>2. Phases(c) /\ MoveOK(c) /\ HandlerOK(c)
  BY <1>1, InFlight
<1>3. t.at \in Span(w)
  BY <1>1, <1>2 DEF Phases
<1>4. /\ t.phase = "copy" => Written(c) = Target(t, t.at)
      /\ t.phase = "drop" => Written(c) = t.at
  BY <1>1 DEF Place
<1>5. ASSUME NEW q \in Span(w), NEW r \in Span(w) PROVE Target(t, q) # r
  <2>1. /\ Target(t, q) \in Paths /\ AtOrBelow(Target(t, q), w.dst)
        /\ w.path # w.dst /\ w.by = "fm" => Target(t, q) # q
    BY <1>1, TargetPaths
  <2>2. w \in Wish /\ w.path \in Paths /\ w.dst \in Paths /\ w.by \in {"dav", "fm", "job"}
    BY <1>1, TaskFields, WishFields
  <2>3. CASE w.by = "fm"
    <3>1. q = r /\ w.path # w.dst
      BY <1>1, <1>2, <2>3 DEF Span, HandlerOK
    <3> QED
      BY <2>1, <2>3, <3>1
  <2>4. CASE w.by # "fm"
    <3>1. ~Nested(w.path, w.dst)
      BY <1>1, <1>2, <2>2, <2>4 DEF HandlerOK, MoveOK, Moved
    <3>2. r \in Paths /\ AtOrBelow(r, w.path)
      BY <2>4 DEF Span, Below
    <3> QED
      BY <2>1, <2>2, <3>1, <3>2, Apart
  <2> QED
    BY <2>3, <2>4
<1> QED
  BY <1>3, <1>4, <1>5

\* How a handler goes on after a call that has changed its path.
LEMMA EndsOK ==
    ASSUME TreeInv, NEW c \in Clients, InCall(c), Apply(Written(c)), locks' \subseteq locks,
           NEW u, task'[c] = u,
           \/ u = Served(task[c])
           \/ Deletes(task[c]) /\ u = Failed(task[c], task[c].at)
    PROVE  /\ Resumes(task[c], u)
           /\ Phases(c)' /\ CallOK(c)' /\ DavOK(c)' /\ MoveOK(c)' /\ LockOK(c)'
<1> SUFFICES ASSUME NEW t, t = task[c], NEW W, W = Written(c), NEW L, L = req[c].lockKeys
             PROVE  /\ Resumes(t, u)
                    /\ Phases(c)' /\ CallOK(c)' /\ DavOK(c)' /\ MoveOK(c)' /\ LockOK(c)'
  OBVIOUS
<1> DEFINE w == t.wish
<1>1. /\ t # None /\ t \in Task /\ w \in Requests /\ t.phase \in Busy
      /\ t.at \in t.todo /\ t.at \in Paths /\ W \in Paths /\ W = Place(t, t.at)
      /\ pending[W] # None /\ (pending[W] = Deletion <=> Deletes(t))
      /\ req[c] # None /\ req[c].pc = "running"
  BY InCallFacts
<1>2. /\ Phases(c) /\ DavOK(c) /\ MoveOK(c) /\ LockOK(c) /\ HandlerOK(c)
      /\ w \in Wish /\ w.path \in Paths /\ w.dst \in Paths
  BY <1>1, InFlight, TaskFields, WishFields
<1>3. TreeTypeOK /\ Namespace /\ req' = req
  BY DEF TreeInv, Apply
<1>4. /\ Resumes(t, u) /\ u.phase = t.phase /\ u.at = None
      /\ u.todo \subseteq t.todo \ {t.at} /\ u.done \subseteq t.done \union {t.at}
      /\ ~Deletes(t) => /\ u.todo = t.todo \ {t.at} /\ u.done = t.done \union {t.at}
                        /\ u.failed = t.failed
  <2>1. CASE u = Served(t)
    BY <1>1, <2>1, ServedFields
  <2>2. CASE Deletes(t) /\ u = Failed(t, t.at)
    <3>1. \A q : /\ Resumes(t, Failed(t, q)) /\ Failed(t, q).phase = t.phase
                 /\ Failed(t, q).todo \subseteq t.todo \ {q} /\ Failed(t, q).done = t.done
                 /\ Failed(t, q).at = None
      BY <1>1, FailedFields
    <3> QED
      BY <2>2, <3>1
  <2> QED
    BY <2>1, <2>2
<1>5. /\ u \in Task /\ u # None /\ u.wish = w /\ u.snap = t.snap /\ u.dsnap = t.dsnap
      /\ \A q : Target(u, q) = Target(t, q)
  BY <1>4, SameCopies, TaskFields DEF Resumes
<1>6. /\ objects'[W] = Outcome(W)
      /\ \A x : x # W => objects'[x] = objects[x]
      /\ ~Deletes(t) => /\ Mapped(W)' /\ objects'[W] = pending[W] /\ \A X : Persist(X)
      /\ Deletes(t) => ~Mapped(W)'
  <2>1. \A x : x # W => objects'[x] = objects[x]
    BY <1>3 DEF Apply, TreeTypeOK
  <2>2. Apply(W)
    OBVIOUS
  <2> QED
    BY <1>1, <1>3, <2>1, <2>2, ApplyFacts
<1>7. Phases(c)'
  BY <1>1, <1>2, <1>3, <1>4, <1>5 DEF Phases, Busy
<1>8. CallOK(c)'
  BY <1>4 DEF CallOK
<1>9. DavOK(c)'
  <2> SUFFICES ASSUME w.by = "dav" PROVE Checked(u, L)'
    BY <1>3, <1>5 DEF DavOK
  <2>1. Checked(t, L)
    BY <1>1, <1>2 DEF DavOK
  <2>2. /\ t.phase = "copy" => w.op \in {"copy", "move"} /\ t.todo \union t.done \subseteq Span(w)
        /\ t.phase = "drop" => t.todo \subseteq Span(w)
        /\ t.phase = "clear" => t.todo \subseteq Below(w.dst)
    BY <1>1, <1>2 DEF Phases
  <2>3. CASE Deletes(t)
    <3>1. W = t.at /\ t.phase # "copy"
      BY <1>1, <2>3 DEF Place, Deletes
    <3>2. w.op = "move" => ~Nested(w.path, w.dst)
      BY <1>1, <1>2 DEF HandlerOK
    <3>3. Span(w) = Below(w.path)
      BY DEF Span
    <3>4. Checked(t, L)'
      BY <1>1, <1>6, <2>1, <2>2, <2>3, <3>1, <3>2, <3>3, CheckedDelete
    <3> QED
      BY <1>4, <3>1, <3>4, LessToDo
  <2>4. CASE ~Deletes(t)
    <3>1. Checked(t, L)'
      BY <1>1, <1>6, <2>1, <2>2, <2>4, CheckedKeeps
    <3>2. t.phase = "copy" => Mapped(Target(t, t.at))'
      BY <1>1, <1>6, <2>4 DEF Place
    <3> QED
      BY <1>4, <3>1, <3>2, LessToDo
  <2> QED
    BY <2>3, <2>4
<1>10. MoveOK(c)'
  <2> SUFFICES ASSUME w.op = "move" PROVE Moved(u)'
    BY <1>5 DEF MoveOK, Moved
  <2>1. Moved(t)
    BY <1>1, <1>2 DEF MoveOK
  <2>2. /\ t.phase = "copy" => t.todo \union t.done \subseteq Span(w)
        /\ t.phase = "drop" => t.todo \subseteq Span(w)
    BY <1>1, <1>2 DEF Phases
  <2>3. /\ t.phase = "copy" => W = Target(t, t.at) /\ W \notin Span(w) /\ t.at \in Span(w)
        /\ t.phase = "drop" => W = t.at /\ \A q \in Span(w) : Target(t, q) # t.at
    BY MoveApart
  <2>4. CASE t.phase = "copy"
    <3>1. ~Deletes(t) /\ HasCopies(t, t.done)
          /\ (Mapped(t.at) => pending[W] = objects[t.at])
      <4>1. ~Deletes(t)
        BY <2>4 DEF Deletes
      <4>2. HasCopies(t, t.done) /\ (Mapped(t.at) => pending[Target(t, t.at)] = objects[t.at])
        BY <1>1, <2>1, <2>4, Nothing DEF Moved
      <4> QED
        BY <2>3, <2>4, <4>1, <4>2
    <3>2. \A q \in Span(w) : objects'[q] = objects[q] /\ (Mapped(q)' <=> Mapped(q))
      BY <1>6, <2>3, <2>4 DEF Mapped
    <3>3. \A q \in Span(w) : Target(t, q) = W => q = t.at
      BY <1>1, <2>3, <2>4, TargetPaths
    <3>4. ASSUME NEW q \in u.done, Mapped(q)' PROVE objects'[Target(u, q)] = objects'[q]
      <4>1. q \in Span(w) /\ (q \in t.done \/ q = t.at)
        BY <1>4, <2>2, <2>3, <2>4
      <4>2. CASE q = t.at
        BY <1>5, <1>6, <2>3, <2>4, <3>1, <3>2, <3>4, <4>1, <4>2
      <4>3. CASE q # t.at
        <5>1. Target(t, q) # W
          BY <3>3, <4>1, <4>3
        <5>2. objects[Target(t, q)] = objects[q]
          BY <3>1, <3>2, <3>4, <4>1, <4>3 DEF HasCopies
        <5> QED
          BY <1>5, <1>6, <3>2, <4>1, <5>1, <5>2
      <4> QED
        BY <4>2, <4>3
    <3>5. w.by # "dav" /\ ~u.failed =>
            \A q \in Span(w) : Mapped(q)' => q \in u.todo \union u.done
      BY <1>4, <2>1, <2>4, <3>1, <3>2 DEF Moved
    <3> QED
      BY <1>4, <1>5, <2>1, <2>4, <3>4, <3>5 DEF Moved, HasCopies
  <2>5. CASE t.phase = "drop"
    <3>1. HasCopies(t, t.todo)
      BY <2>1, <2>5 DEF Moved
    <3>2. ASSUME NEW q \in u.todo, Mapped(q)' PROVE objects'[Target(u, q)] = objects'[q]
      <4>1. q \in t.todo /\ q # W /\ Target(t, q) # W
        BY <1>4, <2>2, <2>3, <2>5
      <4> QED
        BY <1>5, <1>6, <3>1, <3>2, <4>1 DEF HasCopies, Mapped
    <3> QED
      BY <1>4, <1>5, <2>1, <2>5, <3>2 DEF Moved, HasCopies
  <2>6. CASE t.phase \notin {"copy", "drop"}
    BY <1>4, <1>5, <2>1, <2>6 DEF Moved
  <2> QED
    BY <2>4, <2>5, <2>6
<1>11. LockOK(c)'
  <2> SUFFICES ASSUME w.op = "lock" PROVE LockOK(c)'
    BY <1>5, NoLockOK
  <2>1. t.phase = "make" /\ t.at = w.path
    BY <1>1, <1>2 DEF Phases, Busy
  <2>2. ~Deletes(t) /\ W = w.path
    BY <1>1, <2>1 DEF Deletes, Place
  <2>3. Exists(w.path)'
    BY <1>6, <2>2 DEF Exists
  <2> QED
    BY <1>1, <1>2, <1>3, <1>5, <2>3 DEF LockOK
<1> QED
  BY <1>4, <1>7, <1>8, <1>9, <1>10, <1>11

\* A call ends after its change has reached the index.
LEMMA EndStep ==
    ASSUME TreeInv, NEW c \in Clients, InCall(c), Apply(Written(c)), locks' \subseteq locks,
           NEW u, task' = [task EXCEPT ![c] = u],
           \/ u = Served(task[c])
           \/ Deletes(task[c]) /\ u = Failed(task[c], task[c].at),
           faults' \in 0..MaxFaults, LocksRooted'
    PROVE  TreeInv'
<1>1. /\ task[c] # None /\ At(c, "running") /\ Written(c) \in Paths /\ Written(c) \in Guarded(c)
      /\ pending[Written(c)] # None
  BY InCallFacts
<1>2. TreeTypeOK /\ Namespace /\ task'[c] = u /\ UNCHANGED <<req, issued, begun, prepared>>
  BY DEF TreeInv, TreeTypeOK, Apply
<1>3. /\ Resumes(task[c], u)
      /\ Phases(c)' /\ CallOK(c)' /\ DavOK(c)' /\ MoveOK(c)' /\ LockOK(c)'
  BY <1>2, EndsOK
<1>4. /\ objects' \in [Paths -> Object \union {None}]
      /\ pending' \in [Paths -> Object \union {Deletion, None}]
      /\ \A x \in Paths \ {Written(c)} : objects'[x] = objects[x] /\ pending'[x] = pending[x]
      /\ Namespace'
  <2>1. ASSUME NEW p, p = Written(c)
        PROVE  /\ objects' \in [Paths -> Object \union {None}]
               /\ pending' \in [Paths -> Object \union {Deletion, None}]
               /\ \A x \in Paths \ {p} : objects'[x] = objects[x] /\ pending'[x] = pending[x]
               /\ Namespace'
    <3>1. p \in Paths /\ pending[p] # None /\ Apply(p)
      BY <1>1, <2>1
    <3> QED
      BY <1>2, <3>1, ApplyFacts
  <2> QED
    BY <2>1
<1>5. Turns(c, u)
  <2>1. Untouched(Paths \ Guarded(c))
    BY <1>1, <1>4 DEF Untouched
  <2> QED
    BY <1>1, <1>2, <1>3, <2>1 DEF Turns, Resumes
<1>6. prepared' \subseteq Requests
  BY <1>2 DEF TreeTypeOK
<1>7. /\ TreeTypeOK' /\ IInv' /\ TokensDrawn' /\ HandlerOK(c)' /\ Registered(c)'
      /\ \A d \in Clients \ {c} : ClientOK(d)'
  BY <1>4, <1>5, <1>6, OwnStep
<1> QED
  BY <1>3, <1>4, <1>7 DEF TreeInv, ClientOK

\* A call ends well.
LEMMA CommitStep ==
    ASSUME TreeInv, NEW c \in Clients, Commit(c)
    PROVE  TreeInv'
<1>1. /\ InCall(c) /\ Apply(Written(c)) /\ locks' = locks \ Orphaned(Written(c))
      /\ task' = [task EXCEPT ![c] = Served(task[c])] /\ faults' = faults
  BY DEF Commit, TreeInv, TreeTypeOK
<1>2. TreeTypeOK /\ TypeOK /\ Namespace /\ LocksRooted /\ faults \in 0..MaxFaults /\ faults \in Nat
  BY TreeAssumption DEF TreeInv, IInv, TreeTypeOK
<1>3. LocksRooted'
  <2>1. ASSUME NEW p, p = Written(c) PROVE LocksRooted'
    <3>1. p \in Paths /\ pending[p] # None /\ Apply(p) /\ locks' = locks \ Orphaned(p)
      BY <1>1, <2>1, InCallFacts
    <3>2. faults' \in Nat /\ faults <= faults'
      BY <1>1, <1>2
    <3> QED
      BY <1>2, <3>1, <3>2, RootedApply
  <2> QED
    BY <2>1
<1> QED
  BY <1>1, <1>2, <1>3, EndStep

\* A fault counts as one.
LEMMA FaultFacts ==
    ASSUME TreeTypeOK, Fault
    PROVE  faults' \in 0..MaxFaults /\ faults <= faults' /\ faults' # 0 /\ LocksRooted'
<1>1. faults' \in 0..MaxFaults /\ faults <= faults' /\ faults' # 0
  BY TreeAssumption DEF TreeTypeOK, Fault
<1> QED
  BY <1>1 DEF LocksRooted

\* The index changes and the handler never hears of it.
LEMMA CommitOnlyStep ==
    ASSUME TreeInv, NEW c \in Clients, CommitOnly(c)
    PROVE  TreeInv'
<1>1. /\ InCall(c) /\ Apply(Written(c)) /\ locks' \subseteq locks /\ Fault
      /\ task' = [task EXCEPT ![c] = Failed(task[c], task[c].at)]
      /\ pending[Written(c)] = Deletion
  BY DEF CommitOnly, TreeInv, TreeTypeOK
<1>2. faults' \in 0..MaxFaults /\ LocksRooted'
  BY <1>1, FaultFacts DEF TreeInv
<1>3. Deletes(task[c])
  BY <1>1, InCallFacts
<1> QED
  BY <1>1, <1>2, <1>3, EndStep

\* The call fails before anything changes.
LEMMA AbortStep ==
    ASSUME TreeInv, NEW c \in Clients, Abort(c)
    PROVE  TreeInv'
<1>1. /\ InCall(c) /\ Fault /\ UNCHANGED <<locks, req, issued, begun, objects, prepared>>
      /\ pending' = [pending EXCEPT ![Written(c)] = None]
      /\ task' = [task EXCEPT ![c] = Failed(task[c], task[c].at)]
  BY DEF Abort, vars, TreeInv, TreeTypeOK
<1>2. /\ task[c] # None /\ At(c, "running") /\ Written(c) \in Paths /\ Written(c) \in Guarded(c)
      /\ pending[Written(c)] # None /\ task[c] \in Task /\ task[c].phase \in Busy
      /\ req[c].pc = "running"
  BY <1>1, InCallFacts
<1>3. /\ TreeTypeOK /\ Namespace /\ faults' \in 0..MaxFaults /\ LocksRooted'
      /\ prepared' \subseteq Requests
  BY <1>1, FaultFacts DEF TreeInv, TreeTypeOK
<1>4. ASSUME NEW u, NEW q, q = task[c].at, u = Failed(task[c], q) PROVE TreeInv'
  <2>1. task' = [task EXCEPT ![c] = u] /\ task'[c] = u
    BY <1>1, <1>3, <1>4 DEF TreeTypeOK
  <2>2. Phases(c)' /\ CallOK(c)' /\ DavOK(c)' /\ MoveOK(c)' /\ LockOK(c)'
    <3>1. UNCHANGED <<req, objects>> /\ locks' \subseteq locks
      BY <1>1
    <3> QED
      BY <1>2, <1>4, <2>1, <3>1, FailedOK
  <2>3. Resumes(task[c], u)
    BY <1>2, <1>4, FailedFields
  <2>4. /\ pending' \in [Paths -> Object \union {Deletion, None}]
        /\ objects' \in [Paths -> Object \union {None}]
        /\ Untouched(Paths \ Guarded(c))
    BY <1>1, <1>2, <1>3 DEF TreeTypeOK, Untouched
  <2>5. Turns(c, u)
    BY <1>1, <1>2, <2>1, <2>3, <2>4 DEF Turns, Resumes
  <2>6. /\ TreeTypeOK' /\ IInv' /\ TokensDrawn' /\ HandlerOK(c)' /\ Registered(c)'
        /\ \A d \in Clients \ {c} : ClientOK(d)'
    BY <1>3, <2>4, <2>5, OwnStep
  <2>7. Namespace'
    <3>1. \A x \in Paths : KindsAt(x)' \subseteq KindsAt(x)
      BY <1>1, <1>2, <1>3 DEF KindsAt, TreeTypeOK
    <3> QED
      BY <1>3, <3>1, NamespaceShrinks
  <2> QED
    BY <1>3, <2>2, <2>6, <2>7 DEF TreeInv, ClientOK
<1> QED
  BY <1>4

-----------------------------------------------------------------------------
(* Requests that arrive.                                                   *)

\* Parents are paths.
LEMMA ParentPaths == \A S : S \subseteq Paths => ParentsOf(S) \subseteq Paths
<1>1. \A p \in Paths : Parent(p) \in Paths
  BY ParentAbove DEF Parent
<1> QED
  BY <1>1 DEF ParentsOf

\* So is all that a deletion registers.
LEMMA DeletionInPaths ==
    ASSUME NEW p \in Paths, NEW S \in SUBSET Paths
    PROVE  DeletionPaths(p, S) \subseteq Paths /\ SubtreePaths(p, S) \subseteq Paths
<1> DEFINE vanishing == {q \in Ancestors(p) \ {p, <<>>} : ~RemainsWithout(q, S)}
<1>1. vanishing \subseteq Paths /\ {p} \union S \subseteq Paths
  BY BelowPaths
<1>2. ParentsOf(vanishing) \subseteq Paths /\ ParentsOf({p} \union S) \subseteq Paths
  BY <1>1, ParentPaths
<1>3. DeletionPaths(p, S) \subseteq Paths
  BY <1>1, <1>2, BelowPaths DEF DeletionPaths
<1>4. SubtreePaths(p, S) \subseteq Paths
  BY <1>1, <1>2, BelowPaths DEF SubtreePaths
<1> QED
  BY <1>3, <1>4

\* What a handler lists is what is there.
LEMMA SnapshotFacts ==
    ASSUME TreeTypeOK, NEW p \in Paths
    PROVE  /\ Snapshot(p) \in [Paths -> Object \union {None}]
           /\ In(Snapshot(p)) = Tree(p) /\ In(Snapshot(p)) \subseteq Below(p)
           /\ Exists(p) => p = <<>> \/ Tree(p) # {}
           /\ \A q \in Below(p) : Snapshot(p)[q] = objects[q]
<1>1. Snapshot(p) \in [Paths -> Object \union {None}]
  BY DEF Snapshot, TreeTypeOK
<1>2. In(Snapshot(p)) = Tree(p) /\ In(Snapshot(p)) \subseteq Below(p)
  BY BelowPaths DEF Snapshot, In, Tree, Mapped, Below
<1>3. Exists(p) => p = <<>> \/ Tree(p) # {}
  BY BelowPaths DEF Exists, Collection, Tree
<1>4. \A q \in Below(p) : Snapshot(p)[q] = objects[q]
  BY BelowPaths DEF Snapshot
<1> QED
  BY <1>1, <1>2, <1>3, <1>4

\* The paths that a request changes are paths.
LEMMA AffectedPaths ==
    ASSUME NEW t \in Task, t.wish \in Requests, t.wish.by = "dav",
           In(t.snap) \subseteq Below(t.wish.path)
    PROVE  Affected(t) \subseteq Paths
<1> DEFINE w == t.wish
           p == w.path
<1>1. /\ w \in Wish /\ p \in Paths /\ w.dst \in Paths
      /\ w.op \in {"put", "mkcol", "delete", "copy", "move", "lock"}
      /\ In(t.snap) \subseteq Paths /\ In(t.dsnap) \subseteq Paths
  BY TaskFields, WishFields DEF In
<1>2. \A q \in Paths : CreationPaths(q) \subseteq Paths
  BY BelowPaths DEF CreationPaths
<1>3. DeletionPaths(p, In(t.snap)) \subseteq Paths
  BY <1>1, DeletionInPaths
<1>4. ASSUME w.op \in {"copy", "move"} PROVE CopyPaths(t) \subseteq Paths
  <2> DEFINE targets == {Target(t, q) : q \in Sources(t)}
  <2>1. \A q \in Sources(t) : q \in Span(w)
    BY <1>1, BelowPaths DEF Sources, Span
  <2>2. targets \subseteq Paths
    BY <1>1, <1>4, <2>1, TargetPaths
  <2> HIDE DEF targets
  <2>3. SubtreePaths(w.dst, targets) \subseteq Paths /\ DeletionPaths(w.dst, In(t.dsnap)) \subseteq Paths
    BY <1>1, <2>2, DeletionInPaths
  <2>4. UNION {CreationPaths(q) : q \in targets} \subseteq Paths
    BY <1>2, <2>2
  <2> QED
    BY <1>1, <2>3, <2>4 DEF CopyPaths, targets
<1> QED
  BY <1>1, <1>2, <1>3, <1>4 DEF Affected

\* What the file manager and the jobs register.
LEMMA ExternalInPaths ==
    ASSUME NEW w \in Requests, w.by # "dav"
    PROVE  ExternalPaths(w) \subseteq Paths
           /\ (w.by = "job" \/ w.op = "move" => <<>> \in ExternalPaths(w))
<1>1. /\ w \in Wish /\ w.path \in Paths /\ w.by \in {"fm", "job"}
      /\ w.by = "fm" => w.op \in {"put", "mkcol", "delete", "move"}
      /\ w.by = "job" => w.op \in {"delete", "move"}
  BY RequestAssumption, WishFields
<1>2. /\ ServicePutPaths(w.path) \subseteq Paths /\ ServiceDeletePaths(w.path) \subseteq Paths
      /\ Ancestors(w.path) \subseteq Paths /\ Ancestors(w.dst) \subseteq Paths
  BY <1>1, BelowPaths DEF ServicePutPaths, ServiceDeletePaths, CreationPaths
<1>3. <<>> \in Ancestors(w.path)
  BY <1>1, BelowPaths, PathOrder DEF Ancestors
<1> QED
  BY <1>1, <1>2, <1>3 DEF ExternalPaths

\* A handler that begins.
LEMMA NewTaskFields ==
    ASSUME TreeTypeOK, TypeOK, NEW w \in Wish
    PROVE  LET t == NewTask(w)
           IN  /\ t \in Task /\ t.wish = w /\ t.phase = "prepared"
               /\ t.snap = Snapshot(w.path) /\ t.dsnap = Snapshot(w.dst)
               /\ t.todo = {} /\ t.at = None /\ t.done = {} /\ t.failed = FALSE
<1>1. w.path \in Paths /\ w.dst \in Paths /\ begun + 1 \in Nat
  BY WishFields DEF TypeOK
<1>2. /\ Snapshot(w.path) \in [Paths -> Object \union {None}]
      /\ Snapshot(w.dst) \in [Paths -> Object \union {None}]
  BY <1>1, SnapshotFacts
<1>3. Collection(w.path) \in BOOLEAN
  BY DEF Collection
<1>4. \A a, b \in [Paths -> Object \union {None}], k \in BOOLEAN, n \in Nat :
        LET t == [wish |-> w, phase |-> "prepared", snap |-> a, dsnap |-> b,
                  coll |-> k, body |-> n, todo |-> {}, at |-> None,
                  done |-> {}, failed |-> FALSE]
        IN  /\ t \in Task /\ t.wish = w /\ t.phase = "prepared" /\ t.snap = a /\ t.dsnap = b
            /\ t.todo = {} /\ t.at = None /\ t.done = {} /\ t.failed = FALSE
  BY DEF Task
<1> QED
  BY <1>1, <1>2, <1>3, <1>4 DEF NewTask

\* What a step of the store leaves to the others.
LEMMA StoreFrame ==
    ASSUME TreeInv, NEW c \in Clients, UNCHANGED <<objects, pending>>,
           \A d \in Clients \ {c} : task'[d] = task[d] /\ SameRequest(d),
           NoOldLocks, issued' \in Nat, issued <= issued'
    PROVE  Namespace' /\ \A d \in Clients \ {c} : ClientOK(d)'
<1>1. \A X : X \subseteq Paths => Untouched(X)
  BY DEF Untouched
<1>2. TreeTypeOK /\ TypeOK /\ KeysRegistered /\ Namespace /\ \A d \in Clients : ClientOK(d)
  BY DEF TreeInv, IInv
<1>3. \A d : Guarded(d) \subseteq Paths
  BY DEF Guarded, Under
<1>4. ASSUME NEW d \in Clients \ {c} PROVE ClientOK(d)'
  BY <1>1, <1>2, <1>3, Frame
<1> QED
  BY <1>2, <1>4, NamespaceSame

\* A handler that has not yet got the guard.
LEMMA WaitingOK ==
    ASSUME NEW c \in Clients, NEW u \in Task, task'[c] = u, u.phase = "prepared",
           u.todo = {}, u.at = None, u.done = {}, u.failed = FALSE,
           u.wish.op = "lock" =>
              \A lock \in locks' : lock.token = req'[c].own => lock.root = u.wish.path
    PROVE  Phases(c)' /\ CallOK(c)' /\ DavOK(c)' /\ MoveOK(c)' /\ LockOK(c)'
<1>1. Phases(c)' /\ CallOK(c)'
  BY DEF Phases, CallOK
<1>2. DavOK(c)'
  BY DEF DavOK, Checked, MakeOK, ClearOK, CopyOK, SourceOK, DropOK
<1>3. MoveOK(c)'
  BY DEF MoveOK, Moved
<1>4. LockOK(c)'
  BY DEF LockOK
<1> QED
  BY <1>1, <1>2, <1>3, <1>4

\* A request arrives.
LEMMA ArrivalStep ==
    ASSUME TreeInv, NEW c \in Clients, NEW w \in Requests, NEW r \in Request, Begin(c, r),
           r.pc # "running", r.lockKeys \subseteq r.keys, r.own = NoToken,
           task' = [task EXCEPT ![c] = NewTask(w)], UNCHANGED <<objects, pending, prepared, faults>>,
           r.op = "lock" <=> w.op = "lock", w.op = "lock" => r.root = w.path,
           r.pc = "create" => w.op = "lock",
           w.by = "dav" /\ w.op \in {"copy", "move"} => ~Nested(w.path, w.dst),
           w.op = "move" => w.path # w.dst,
           w.by = "dav" /\ w.op \in {"delete", "copy", "move"} => Exists(w.path),
           r.pc # "create" =>
              /\ w.op \in {"lock", "put"} /\ w.by = "dav" => w.path \in r.lockKeys
              /\ w.by = "dav" => w.path \in r.keys
              /\ w.by = "job" \/ (w.by = "fm" /\ w.op = "move") => <<>> \in r.keys
    PROVE  TreeInv'
<1>1. TreeTypeOK /\ TypeOK /\ IInv /\ TokensDrawn /\ LocksRooted
  BY DEF TreeInv, IInv
<1>2. w \in Wish /\ w.path \in Paths
  BY RequestAssumption, WishFields
<1>3. /\ req' = [req EXCEPT ![c] = r] /\ req[c] = None
      /\ UNCHANGED <<locks, issued>>
  BY DEF Begin
<1>4. r # None
  BY NoneAssumption
<1>5. IInv'
  BY <1>1, BeginStep
<1>6. ASSUME NEW t, t = NewTask(w) PROVE TreeInv'
  <2>1. /\ t \in Task /\ t.wish = w /\ t.phase = "prepared"
        /\ t.snap = Snapshot(w.path) /\ t.dsnap = Snapshot(w.dst)
        /\ t.todo = {} /\ t.at = None /\ t.done = {} /\ t.failed = FALSE
    BY <1>1, <1>2, <1>6, NewTaskFields
  <2>2. task'[c] = t /\ t # None /\ \A d \in Clients \ {c} : task'[d] = task[d]
    BY <1>1, <1>6, <2>1, TaskFields DEF TreeTypeOK
  <2>3. req'[c] = r /\ \A d \in Clients \ {c} : req'[d] = req[d]
    BY <1>1, <1>3 DEF TypeOK
  <2>4. TreeTypeOK'
    BY <1>1, <1>6, <2>1 DEF TreeTypeOK
  <2>5. /\ \A d \in Clients \ {c} : task'[d] = task[d] /\ SameRequest(d)
        /\ NoOldLocks /\ issued' \in Nat /\ issued <= issued'
    BY <1>1, <1>3, <2>2, <2>3 DEF SameRequest, NoOldLocks, TypeOK
  <2>6. Namespace' /\ \A d \in Clients \ {c} : ClientOK(d)'
    BY <2>5, StoreFrame
  <2>7. HandlerOK(c)'
    <3>1. In(t.snap) \subseteq Below(w.path)
          /\ (w.by = "dav" /\ w.op \in {"delete", "copy", "move"} => w.path = <<>> \/ In(t.snap) # {})
      BY <1>1, <1>2, <2>1, SnapshotFacts
    <3>2. r.own <= issued'
      BY <1>1, <1>3 DEF TypeOK, NoToken
    <3> QED
      BY <1>4, <2>1, <2>2, <2>3, <3>1, <3>2 DEF HandlerOK
  <2>8. Registered(c)'
    BY <2>1, <2>2, <2>3 DEF Registered
  <2>9. Phases(c)' /\ CallOK(c)' /\ DavOK(c)' /\ MoveOK(c)' /\ LockOK(c)'
    <3>1. \A lock \in locks' : lock.token # req'[c].own
      BY <1>1, <1>3, <2>3 DEF TypeOK, Lock, Tokens, NoToken
    <3> QED
      BY <2>1, <2>2, <3>1, WaitingOK
  <2>10. TokensDrawn'
    BY <1>1, <1>3 DEF TokensDrawn
  <2>11. LocksRooted'
    <3> SUFFICES ASSUME faults' = 0, NEW lock \in locks'
                 PROVE  Exists(lock.root)' \/ \E d \in Clients : req'[d] # None /\ req'[d].own = lock.token
      BY DEF LocksRooted
    <3>1. Exists(lock.root) \/ \E d \in Clients : req[d] # None /\ req[d].own = lock.token
      BY <1>1, <1>3 DEF LocksRooted
    <3>2. Exists(lock.root)' <=> Exists(lock.root)
      BY SameObjects
    <3>3. \A d \in Clients : req[d] # None => req'[d] = req[d]
      BY <1>3, <2>3
    <3> QED
      BY <3>1, <3>2, <3>3
  <2> QED
    BY <1>5, <2>4, <2>6, <2>7, <2>8, <2>9, <2>10, <2>11 DEF TreeInv, ClientOK
<1> QED
  BY <1>6

\* The request that asks for the guard.
Readied(w, lockKeys, tokens, keys) ==
    [Ready(w) EXCEPT !.lockKeys = lockKeys, !.tokens = tokens, !.keys = keys]

\* A request with all that it is going to register.
LEMMA ReadyFields ==
    ASSUME NEW w \in Wish, NEW lockKeys \in SUBSET Paths, NEW keys \in SUBSET Paths,
           NEW tokens \in SUBSET Tokens
    PROVE  LET r == Readied(w, lockKeys, tokens, keys)
           IN  /\ r \in Request /\ r.op = "mutate" /\ r.pc = "guard" /\ r.root = w.path
               /\ r.own = NoToken /\ r.lockKeys = lockKeys /\ r.keys = keys
<1>1. w.path \in Paths
  BY WishFields
<1> QED
  BY <1>1 DEF Readied, Ready, Request, Depths, NoToken

\* A WebDAV handler computes what it is going to register.
LEMMA PrepareStep ==
    ASSUME TreeInv, NEW c \in Clients, NEW w \in Requests, NEW tokens \in {{}, 1..issued},
           Prepare(c, w, tokens)
    PROVE  TreeInv'
<1>1. TreeTypeOK /\ TypeOK /\ IInv
  BY DEF TreeInv, IInv
<1>2. w \in Wish /\ w.path \in Paths /\ w.by = "dav" /\ w.op # "lock" /\ Acceptable(w)
  BY RequestAssumption, WishFields DEF Prepare
<1>3. tokens \in SUBSET Tokens
  BY <1>1 DEF TypeOK, Tokens
<1>4. \E A, t : /\ t = NewTask(w) /\ A = Affected(t)
                /\ Begin(c, Readied(w, A, tokens, A \union {w.path}))
  BY DEF Prepare, Readied
<1>5. PICK A, t : /\ t = NewTask(w) /\ A = Affected(t)
                  /\ Begin(c, Readied(w, A, tokens, A \union {w.path}))
  BY <1>4
<1>6. t \in Task /\ t.wish = w /\ t.snap = Snapshot(w.path)
  BY <1>1, <1>2, <1>5, NewTaskFields
<1>7. A \in SUBSET Paths /\ A \union {w.path} \in SUBSET Paths
  BY <1>1, <1>2, <1>5, <1>6, SnapshotFacts, AffectedPaths
<1>8. PICK r : r = Readied(w, A, tokens, A \union {w.path})
  OBVIOUS
<1>9. /\ r \in Request /\ r.op = "mutate" /\ r.pc = "guard" /\ r.root = w.path
      /\ r.own = NoToken /\ r.lockKeys = A /\ r.keys = A \union {w.path}
  <2>1. \A T \in SUBSET Tokens :
           LET q == Readied(w, A, T, A \union {w.path})
           IN  /\ q \in Request /\ q.op = "mutate" /\ q.pc = "guard" /\ q.root = w.path
               /\ q.own = NoToken /\ q.lockKeys = A /\ q.keys = A \union {w.path}
    BY <1>2, <1>7, ReadyFields
  <2> QED
    BY <1>3, <1>8, <2>1
<1>10. Begin(c, r) /\ task' = [task EXCEPT ![c] = NewTask(w)]
       /\ UNCHANGED <<objects, pending, prepared, faults>>
  BY <1>5, <1>8 DEF Prepare
<1>11. /\ w.op \in {"copy", "move"} => ~Nested(w.path, w.dst) /\ w.path # w.dst
       /\ w.op \in {"delete", "copy", "move"} => Exists(w.path)
  <2>1. w.op \in {"copy", "move"} => ~Nested(w.path, w.dst) /\ Exists(w.path)
    BY <1>2 DEF Acceptable
  <2>2. w.op = "delete" => Exists(w.path)
    BY <1>2 DEF Acceptable
  <2>3. Nested(w.path, w.path)
    BY <1>2, PathOrder DEF Nested
  <2> QED
    BY <2>1, <2>2, <2>3
<1>12. w.op = "put" => w.path \in A
  BY <1>2, <1>5, <1>6, OwnPath DEF Affected
<1>13. w.path \in r.keys /\ r.lockKeys \subseteq r.keys /\ (w.op = "put" => w.path \in r.lockKeys)
  BY <1>9, <1>12
<1> QED
  BY <1>2, <1>9, <1>10, <1>11, <1>13, ArrivalStep

\* So does the file manager, or a job.
LEMMA PrepareExternalStep ==
    ASSUME TreeInv, NEW c \in Clients, NEW w \in Requests, PrepareExternal(c, w)
    PROVE  TreeInv'
<1>1. w \in Wish /\ w.path \in Paths /\ w.by \in {"fm", "job"} /\ w.op # "lock" /\ Acceptable(w)
  BY RequestAssumption, WishFields DEF PrepareExternal
<1>2. ASSUME NEW r, r = [Ready(w) EXCEPT !.keys = ExternalPaths(w)] PROVE TreeInv'
  <2>1. ExternalPaths(w) \subseteq Paths
        /\ (w.by = "job" \/ w.op = "move" => <<>> \in ExternalPaths(w))
    BY <1>1, ExternalInPaths
  <2>2. /\ r \in Request /\ r.op = "mutate" /\ r.pc = "guard" /\ r.own = NoToken
        /\ r.lockKeys = {} /\ r.keys = ExternalPaths(w)
    <3>1. ASSUME NEW K \in SUBSET Paths, K = ExternalPaths(w)
          PROVE  /\ r \in Request /\ r.op = "mutate" /\ r.pc = "guard" /\ r.own = NoToken
                 /\ r.lockKeys = {} /\ r.keys = K
      BY <1>1, <1>2, <3>1 DEF Ready, Request, Depths, NoToken
    <3> QED
      BY <2>1, <3>1
  <2>3. Begin(c, r) /\ task' = [task EXCEPT ![c] = NewTask(w)]
        /\ UNCHANGED <<objects, pending, prepared, faults>>
    BY <1>2 DEF PrepareExternal
  <2>4. w.op = "move" => w.path # w.dst
    BY <1>1 DEF Acceptable
  <2> QED
    BY <1>1, <2>1, <2>2, <2>3, <2>4, ArrivalStep
<1> QED
  BY <1>2

\* So does a LOCK that has its lock.
LEMMA PrepareLockStep ==
    ASSUME TreeInv, NEW c \in Clients, NEW w \in Requests, NEW depth \in Depths,
           PrepareLock(c, w, depth)
    PROVE  TreeInv'
<1>1. w \in Wish /\ w.path \in Paths /\ w.op = "lock"
  BY RequestAssumption, WishFields DEF PrepareLock
<1>2. ASSUME NEW r,
             r = [op |-> "lock", pc |-> "create", parked |-> FALSE, root |-> w.path,
                  depth |-> depth, lockKeys |-> {}, keys |-> {}, tokens |-> {}, own |-> NoToken]
      PROVE  TreeInv'
  <2>1. /\ r \in Request /\ r.op = "lock" /\ r.pc = "create" /\ r.own = NoToken
        /\ r.root = w.path /\ r.lockKeys = {} /\ r.keys = {}
    BY <1>1, <1>2 DEF Request, NoToken
  <2>2. Begin(c, r) /\ task' = [task EXCEPT ![c] = NewTask(w)]
        /\ UNCHANGED <<objects, pending, prepared, faults>>
    BY <1>2 DEF PrepareLock, BeginLock
  <2> QED
    BY <1>1, <2>1, <2>2, ArrivalStep
<1> QED
  BY <1>2

-----------------------------------------------------------------------------
(* Steps of the store.                                                     *)

\* Locks go, and nothing else happens.
LEMMA QuietStep ==
    ASSUME TreeInv, locks' \subseteq locks, UNCHANGED <<req, issued, begun>>, UNCHANGED treeVars
    PROVE  TreeInv'
<1>1. /\ TreeTypeOK /\ TypeOK /\ IInv /\ KeysRegistered /\ TokensDrawn /\ LocksRooted /\ Namespace
      /\ \A d \in Clients : ClientOK(d)
  BY DEF TreeInv, IInv
<1>2. UNCHANGED <<objects, pending, task, prepared, faults>>
  BY DEF treeVars
<1>3. IInv' /\ TreeTypeOK' /\ TokensDrawn' /\ Namespace'
  BY <1>1, <1>2, LocksGo, NamespaceSame DEF TreeTypeOK, TokensDrawn
<1>4. ASSUME NEW d \in Clients PROVE ClientOK(d)'
  <2>1. /\ task'[d] = task[d] /\ SameRequest(d) /\ NoOldLocks
        /\ issued' \in Nat /\ issued <= issued'
    BY <1>1, <1>2 DEF SameRequest, NoOldLocks, TypeOK
  <2>2. Untouched(Guarded(d))
    BY <1>2 DEF Untouched
  <2> QED
    BY <1>1, <2>1, <2>2, Frame
<1>5. LocksRooted'
  <2>1. faults \in Nat /\ faults' \in Nat /\ faults <= faults'
    BY <1>1, <1>2, TreeAssumption DEF TreeTypeOK
  <2> QED
    BY <1>1, <1>2, <2>1, RootedSame
<1> QED
  BY <1>3, <1>4, <1>5 DEF TreeInv

\* A request in the store waits on, or gets its guard.
LEMMA WaiterStep ==
    ASSUME TreeInv, NEW c \in Clients, task[c] # None, req[c].pc # "running", IInv',
           req'[c] # None, req'[c].op = req[c].op, req'[c].root = req[c].root,
           req'[c].own = req[c].own, req'[c].keys = req[c].keys,
           req'[c].lockKeys = req[c].lockKeys,
           req'[c].pc = req[c].pc \/ (req[c].pc = "guard" /\ req'[c].pc = "running"),
           \A d \in Clients \ {c} : req'[d] = req[d],
           UNCHANGED <<locks, issued, begun>>, UNCHANGED treeVars
    PROVE  TreeInv'
<1>1. /\ TreeTypeOK /\ TypeOK /\ IInv /\ TokensDrawn /\ LocksRooted
  BY DEF TreeInv, IInv
<1>2. UNCHANGED <<objects, pending, task, prepared, faults>>
  BY DEF treeVars
<1>3. /\ task[c] \in Task /\ Phases(c) /\ LockOK(c) /\ HandlerOK(c) /\ Registered(c)
      /\ req[c] # None
  BY InFlight
<1>4. Namespace' /\ \A d \in Clients \ {c} : ClientOK(d)'
  <2>1. /\ \A d \in Clients \ {c} : task'[d] = task[d] /\ SameRequest(d)
        /\ NoOldLocks /\ issued' \in Nat /\ issued <= issued'
    BY <1>1, <1>2 DEF SameRequest, NoOldLocks, TypeOK
  <2> QED
    BY <1>2, <2>1, StoreFrame
<1>5. HandlerOK(c)'
  BY <1>2, <1>3 DEF HandlerOK
<1>6. Registered(c)'
  BY <1>2, <1>3 DEF Registered
<1>7. Phases(c)' /\ CallOK(c)' /\ DavOK(c)' /\ MoveOK(c)' /\ LockOK(c)'
  <2>1. /\ task[c].phase = "prepared" /\ task[c].todo = {} /\ task[c].at = None
        /\ task[c].done = {} /\ task[c].failed = FALSE
    BY <1>3, TaskFields DEF Phases
  <2>2. task[c].wish.op = "lock" =>
           \A lock \in locks' : lock.token = req'[c].own => lock.root = task[c].wish.path
    BY <1>3 DEF LockOK
  <2>3. ASSUME NEW u, u = task[c]
        PROVE  Phases(c)' /\ CallOK(c)' /\ DavOK(c)' /\ MoveOK(c)' /\ LockOK(c)'
    BY <1>2, <1>3, <2>1, <2>2, <2>3, WaitingOK
  <2> QED
    BY <2>3
<1>8. TreeTypeOK' /\ TokensDrawn'
  BY <1>1, <1>2 DEF TreeTypeOK, TokensDrawn
<1>9. LocksRooted'
  <2> SUFFICES ASSUME faults' = 0, NEW lock \in locks'
               PROVE  Exists(lock.root)' \/ \E d \in Clients : req'[d] # None /\ req'[d].own = lock.token
    BY DEF LocksRooted
  <2>1. Exists(lock.root) \/ \E d \in Clients : req[d] # None /\ req[d].own = lock.token
    BY <1>1, <1>2 DEF LocksRooted
  <2>2. Exists(lock.root)' <=> Exists(lock.root)
    BY <1>2, SameObjects
  <2>3. \A d \in Clients : req[d] # None => req'[d] # None /\ req'[d].own = req[d].own
    OBVIOUS
  <2> QED
    BY <2>1, <2>2, <2>3
<1> QED
  BY <1>4, <1>5, <1>6, <1>7, <1>8, <1>9 DEF TreeInv, ClientOK

\* A request leaves the store; if it leaves a lock, that lock is on something.
LEMMA GoneStep ==
    ASSUME TreeInv, NEW c \in Clients, IInv', req'[c] = None,
           task' = [task EXCEPT ![c] = None],
           \A d \in Clients \ {c} : SameRequest(d), locks' \subseteq locks,
           UNCHANGED <<issued, begun, objects, pending, prepared>>,
           faults' \in 0..MaxFaults, faults <= faults',
           faults' = 0 => \A lock \in locks' : lock.token = req[c].own => Exists(lock.root)
    PROVE  TreeInv'
<1>1. /\ TreeTypeOK /\ TypeOK /\ IInv /\ TokensDrawn /\ LocksRooted
  BY DEF TreeInv, IInv
<1>2. task'[c] = None /\ \A d \in Clients \ {c} : task'[d] = task[d]
  BY <1>1 DEF TreeTypeOK
<1>3. Namespace' /\ \A d \in Clients \ {c} : ClientOK(d)'
  <2>1. NoOldLocks /\ issued' \in Nat /\ issued <= issued'
    BY <1>1 DEF NoOldLocks, TypeOK
  <2> QED
    BY <1>2, <2>1, StoreFrame
<1>4. ClientOK(c)'
  BY <1>2 DEF ClientOK, HandlerOK, Registered, Phases, CallOK, DavOK, MoveOK, LockOK
<1>5. TreeTypeOK' /\ TokensDrawn'
  BY <1>1 DEF TreeTypeOK, TokensDrawn
<1>6. LocksRooted'
  <2> SUFFICES ASSUME faults' = 0, NEW lock \in locks'
               PROVE  Exists(lock.root)' \/ \E d \in Clients : req'[d] # None /\ req'[d].own = lock.token
    BY DEF LocksRooted
  <2>1. faults = 0
    BY <1>1, TreeAssumption DEF TreeTypeOK
  <2>2. Exists(lock.root) \/ \E d \in Clients : req[d] # None /\ req[d].own = lock.token
    BY <1>1, <2>1 DEF LocksRooted
  <2>3. Exists(lock.root)' <=> Exists(lock.root)
    BY SameObjects
  <2>4. \A d \in Clients \ {c} : req[d] # None => req'[d] # None /\ req'[d].own = req[d].own
    BY DEF SameRequest
  <2> QED
    BY <2>2, <2>3, <2>4
<1> QED
  BY <1>3, <1>4, <1>5, <1>6 DEF TreeInv, ClientOK

\* A step of the lock store that leaves handlers and index alone.
LEMMA StoreStep ==
    ASSUME TreeInv, NEW c \in Clients, Store(c)
    PROVE  TreeInv'
<1>1. /\ TreeTypeOK /\ TypeOK /\ IInv /\ TokensDrawn /\ ClientOK(c)
      /\ faults \in 0..MaxFaults /\ MaxFaults \in Nat
  BY TreeAssumption DEF TreeInv, IInv, TreeTypeOK
<1>2. ASSUME req[c] # None
      PROVE  /\ task[c] # None /\ req[c] \in Request /\ HandlerOK(c)
             /\ \A lock \in locks : lock.token # NoToken
  BY <1>1, <1>2 DEF ClientOK, HandlerOK, TypeOK, Lock, Tokens, NoToken
<1>3. ASSUME Park(c), At(c, "create") \/ At(c, "guard"), UNCHANGED treeVars PROVE TreeInv'
  <2>1. req[c] # None /\ req[c].pc # "running" /\ task[c] # None /\ req[c] \in Request
    BY <1>2, <1>3 DEF At
  <2>2. IInv'
    BY <1>1, <1>3, <2>1, ParkStep
  <2>3. /\ req'[c] = [req[c] EXCEPT !.parked = TRUE]
        /\ \A d \in Clients \ {c} : req'[d] = req[d]
        /\ UNCHANGED <<locks, issued, begun>>
    BY <1>1, <1>3 DEF Park, TypeOK
  <2>4. /\ req'[c] # None /\ req'[c].op = req[c].op /\ req'[c].root = req[c].root
        /\ req'[c].own = req[c].own /\ req'[c].keys = req[c].keys
        /\ req'[c].lockKeys = req[c].lockKeys /\ req'[c].pc = req[c].pc
    <3>1. \A r \in Request :
             LET s == [r EXCEPT !.parked = TRUE]
             IN  /\ s # None /\ s.op = r.op /\ s.root = r.root /\ s.own = r.own
                 /\ s.keys = r.keys /\ s.lockKeys = r.lockKeys /\ s.pc = r.pc
      BY NoneAssumption DEF Request
    <3> QED
      BY <2>1, <2>3, <3>1
  <2>5. UNCHANGED treeVars
    BY <1>3
  <2> QED
    BY <2>1, <2>2, <2>3, <2>4, <2>5, WaiterStep
<1>4. ASSUME Guard(c), UNCHANGED treeVars PROVE TreeInv'
  <2>1. req[c] # None /\ req[c].pc = "guard" /\ task[c] # None /\ req[c] \in Request
    BY <1>2, <1>4 DEF Guard, At
  <2>2. IInv'
    BY <1>1, <1>4, GuardStep
  <2>3. /\ req'[c] = [req[c] EXCEPT !.pc = "running"]
        /\ \A d \in Clients \ {c} : req'[d] = req[d]
        /\ UNCHANGED <<locks, issued, begun>>
    BY <1>1, <1>4 DEF Guard, TypeOK
  <2>4. /\ req'[c] # None /\ req'[c].op = req[c].op /\ req'[c].root = req[c].root
        /\ req'[c].own = req[c].own /\ req'[c].keys = req[c].keys
        /\ req'[c].lockKeys = req[c].lockKeys /\ req'[c].pc = "running"
    <3>1. \A r \in Request :
             LET s == [r EXCEPT !.pc = "running"]
             IN  /\ s # None /\ s.op = r.op /\ s.root = r.root /\ s.own = r.own
                 /\ s.keys = r.keys /\ s.lockKeys = r.lockKeys /\ s.pc = "running"
      BY NoneAssumption DEF Request
    <3> QED
      BY <2>1, <2>3, <3>1
  <2> QED
    BY <1>4, <2>1, <2>2, <2>3, <2>4, WaiterStep
<1>5. ASSUME Finish(c), req[c] # None, Forget(c), locks' \subseteq locks,
             UNCHANGED <<issued, begun, objects, pending, prepared>>,
             Fault \/ (faults' = faults /\ \A lock \in locks' : lock.token # req[c].own)
      PROVE  TreeInv'
  <2>1. IInv'
    BY <1>1, <1>5, FinishStep
  <2>2. req'[c] = None /\ \A d \in Clients \ {c} : SameRequest(d)
    BY <1>1, <1>5 DEF Finish, TypeOK, SameRequest
  <2>3. faults' \in 0..MaxFaults /\ faults <= faults'
        /\ (faults' = 0 => \A lock \in locks' : lock.token # req[c].own)
    BY <1>1, <1>5 DEF Fault
  <2> QED
    BY <1>5, <2>1, <2>2, <2>3, GoneStep DEF Forget
<1>6. CASE (CreateWaits(c) \/ GuardWaits(c) \/ Guard(c)) /\ UNCHANGED treeVars
  BY <1>3, <1>4, <1>6 DEF CreateWaits, GuardWaits
<1>7. CASE CreateRefused(c) /\ Forget(c) /\ UNCHANGED <<objects, pending, prepared, faults>>
  <2>1. req[c] # None /\ req[c].pc = "create"
    BY <1>7 DEF CreateRefused, At
  <2>2. \A lock \in locks : lock.token # req[c].own
    BY <1>2, <2>1 DEF HandlerOK
  <2> QED
    BY <1>5, <1>7, <2>1, <2>2 DEF CreateRefused
<1>8. CASE /\ GuardRefused(c)
           /\ Forget(c)
           /\ IF \E lock \in locks' : lock.token = req[c].own THEN Fault ELSE UNCHANGED faults
           /\ UNCHANGED <<objects, pending, prepared>>
  <2>1. req[c] # None /\ locks' \subseteq locks /\ Finish(c) /\ UNCHANGED <<issued, begun>>
    BY <1>8 DEF GuardRefused, At
  <2>2. Fault \/ (faults' = faults /\ \A lock \in locks' : lock.token # req[c].own)
    BY <1>8
  <2> QED
    BY <1>5, <1>8, <2>1, <2>2
<1>9. CASE /\ Cancel(c)
           /\ Forget(c)
           /\ IF req[c].own # NoToken THEN Fault ELSE UNCHANGED faults
           /\ UNCHANGED <<objects, pending, prepared>>
  <2>1. req[c] # None /\ locks' = locks /\ Finish(c) /\ UNCHANGED <<issued, begun>>
    BY <1>9 DEF Cancel
  <2>2. Fault \/ (faults' = faults /\ \A lock \in locks' : lock.token # req[c].own)
    BY <1>2, <1>9, <2>1
  <2> QED
    BY <1>5, <1>9, <2>1, <2>2
<1> QED
  BY <1>6, <1>7, <1>8, <1>9 DEF Store

\* A request leaves.
LEMMA LeaveStep ==
    ASSUME TreeInv, NEW c \in Clients, Leave(c)
    PROVE  TreeInv'
<1>1. /\ TreeTypeOK /\ TypeOK /\ IInv /\ faults \in 0..MaxFaults /\ MaxFaults \in Nat
  BY TreeAssumption DEF TreeInv, IInv, TreeTypeOK
<1>2. /\ task[c] # None /\ task[c].phase = "over" /\ Release(c) /\ Forget(c)
      /\ UNCHANGED <<objects, pending, prepared, faults>>
  BY DEF Leave, Working
<1>3. /\ task[c] \in Task /\ LockOK(c) /\ HandlerOK(c)
  BY <1>2, InFlight
<1>4. IInv' /\ UNCHANGED <<locks, issued, begun>>
  BY <1>1, <1>2, ReleaseStep DEF Release
<1>5. \A d \in Clients : req'[d] = IF d = c \/ req[d] = None THEN None
                                   ELSE [req[d] EXCEPT !.parked = FALSE]
  BY <1>2 DEF Release
<1>6. req'[c] = None /\ \A d \in Clients \ {c} : SameRequest(d)
  <2>1. ASSUME NEW d \in Clients \ {c}, req[d] # None PROVE SameRequest(d)
    <3>1. req[d] \in Request /\ req'[d] = [req[d] EXCEPT !.parked = FALSE]
      BY <1>1, <1>5, <2>1 DEF TypeOK
    <3>2. req'[d] \in Request
      BY <3>1 DEF Request
    <3> QED
      BY <3>1, <3>2, RequestFields DEF SameRequest, Request
  <2>2. ASSUME NEW d \in Clients \ {c}, req[d] = None PROVE SameRequest(d)
    BY <1>5, <2>2 DEF SameRequest
  <2> QED
    BY <1>5, <2>1, <2>2
<1>7. \A lock \in locks' : lock.token = req[c].own => Exists(lock.root)
  <2>1. CASE task[c].wish.op = "lock"
    BY <1>2, <1>3, <1>4, <2>1 DEF LockOK
  <2>2. CASE task[c].wish.op # "lock"
    <3>1. req[c].own = NoToken
      BY <1>2, <1>3, <2>2 DEF HandlerOK
    <3> QED
      BY <1>1, <1>4, <3>1 DEF TypeOK, Lock, Tokens, NoToken
  <2> QED
    BY <2>1, <2>2
<1>8. locks' \subseteq locks /\ faults' \in 0..MaxFaults /\ faults <= faults'
  BY <1>1, <1>2, <1>4
<1> QED
  BY <1>2, <1>4, <1>6, <1>7, <1>8, GoneStep DEF Forget

-----------------------------------------------------------------------------
(* A lock is granted, a write in doubt is settled, the process restarts.   *)

\* The request of a LOCK that has its lock.
Granted(r, token, chain) ==
    [r EXCEPT !.pc = "guard", !.own = token, !.tokens = @ \union {token},
              !.lockKeys = chain, !.keys = chain]

\* A LOCK that is granted its lock.
LEMMA GrantedFields ==
    ASSUME NEW r \in Request, NEW n \in Nat, NEW K \in SUBSET Paths,
           r.tokens \union {n} \in SUBSET Tokens
    PROVE  LET s == Granted(r, n, K)
           IN  /\ s # None /\ s.op = r.op /\ s.pc = "guard" /\ s.root = r.root /\ s.own = n
               /\ s.lockKeys = K /\ s.keys = K
BY NoneAssumption DEF Granted, Request

\* Create draws a new token for its lock.
LEMMA CreateLockStep ==
    ASSUME TreeInv, NEW c \in Clients, CreateLock(c)
    PROVE  TreeInv'
<1>1. /\ TreeTypeOK /\ TypeOK /\ IInv /\ TokensDrawn /\ LocksRooted
  BY DEF TreeInv, IInv
<1>2. task[c] # None /\ UNCHANGED <<objects, pending, task, prepared, faults>>
  BY DEF CreateLock, treeVars
<1>3. /\ task[c] \in Task /\ task[c].wish \in Wish /\ task[c].wish.path \in Paths
      /\ task[c].wish \in Requests
      /\ Phases(c) /\ HandlerOK(c) /\ req[c] # None /\ req[c] \in Request
  BY <1>2, InFlight, WishFields
<1>4. PICK top \in Paths : Create(c, top)
  <2>1. PICK top \in IF Exists(task[c].wish.path) THEN {task[c].wish.path}
                     ELSE CreationPaths(task[c].wish.path) : Create(c, top)
    BY DEF CreateLock
  <2>2. top \in Paths
    BY <1>3, <2>1, BelowPaths DEF CreationPaths
  <2> QED
    BY <2>1, <2>2
<1>5. IInv'
  BY <1>1, <1>4, CreateStep
<1>6. /\ req[c].pc = "create" /\ AtOrBelow(req[c].root, top)
      /\ issued' = issued + 1 /\ issued \in Nat
      /\ locks' = locks \union {NewLock(c)}
      /\ \A d \in Clients \ {c} : req'[d] = req[d]
  BY <1>1, <1>4 DEF Create, At, TypeOK
<1>7. /\ task[c].wish.op = "lock" /\ task[c].wish.by = "dav" /\ req[c].op = "lock"
      /\ req[c].root = task[c].wish.path /\ req[c].own = NoToken
  BY <1>2, <1>3, <1>6, WishFields, RequestAssumption DEF HandlerOK
<1>8. /\ req'[c] # None /\ req'[c].op = "lock" /\ req'[c].pc = "guard"
      /\ req'[c].root = task[c].wish.path /\ req'[c].own = issued + 1
      /\ req'[c].lockKeys = Upward(req[c].root, top) /\ req'[c].keys = Upward(req[c].root, top)
  <2>1. /\ Upward(req[c].root, top) \in SUBSET Paths /\ issued + 1 \in Nat
        /\ req[c].tokens \union {issued + 1} \in SUBSET Tokens
    BY <1>3, <1>6, BelowPaths, RequestFields DEF Tokens
  <2>2. req'[c] = Granted(req[c], issued + 1, Upward(req[c].root, top))
    BY <1>1, <1>4 DEF Create, TypeOK, Granted
  <2>3. \A r \in Request, n \in Nat, K \in SUBSET Paths :
           r.tokens \union {n} \in SUBSET Tokens =>
             LET s == Granted(r, n, K)
             IN  /\ s # None /\ s.op = r.op /\ s.pc = "guard" /\ s.root = r.root /\ s.own = n
                 /\ s.lockKeys = K /\ s.keys = K
    BY GrantedFields
  <2> QED
    BY <1>3, <1>7, <2>1, <2>2, <2>3
<1>9. Namespace' /\ \A d \in Clients \ {c} : ClientOK(d)'
  <2>1. /\ \A d \in Clients \ {c} : task'[d] = task[d] /\ SameRequest(d)
        /\ issued' \in Nat /\ issued <= issued'
    BY <1>2, <1>6 DEF SameRequest
  <2>2. NoOldLocks
    BY <1>6 DEF NoOldLocks, NewLock
  <2> QED
    BY <1>2, <2>1, <2>2, StoreFrame
<1>10. HandlerOK(c)'
  BY <1>2, <1>3, <1>6, <1>7, <1>8 DEF HandlerOK
<1>11. Registered(c)'
  <2>1. task[c].wish.path \in Upward(req[c].root, top)
    BY <1>3, <1>6, <1>7, BelowPaths
  <2> QED
    BY <1>2, <1>7, <1>8, <2>1 DEF Registered
<1>12. Phases(c)' /\ CallOK(c)' /\ DavOK(c)' /\ MoveOK(c)' /\ LockOK(c)'
  <2>1. /\ task[c].phase = "prepared" /\ task[c].todo = {} /\ task[c].at = None
        /\ task[c].done = {} /\ task[c].failed = FALSE
    BY <1>2, <1>3, <1>6, TaskFields DEF Phases
  <2>2. \A lock \in locks' : lock.token = issued + 1 => lock.root = req[c].root
    BY <1>1, <1>6 DEF TokensDrawn, TypeOK, Lock, Tokens, NewLock
  <2>3. ASSUME NEW u, u = task[c]
        PROVE  Phases(c)' /\ CallOK(c)' /\ DavOK(c)' /\ MoveOK(c)' /\ LockOK(c)'
    BY <1>2, <1>3, <1>7, <1>8, <2>1, <2>2, <2>3, WaitingOK
  <2> QED
    BY <2>3
<1>13. TreeTypeOK' /\ TokensDrawn'
  <2>1. TreeTypeOK'
    BY <1>1, <1>2 DEF TreeTypeOK
  <2>2. TokensDrawn'
    BY <1>1, <1>6 DEF TokensDrawn, TypeOK, Lock, Tokens, NewLock
  <2> QED
    BY <2>1, <2>2
<1>14. LocksRooted'
  <2> SUFFICES ASSUME faults' = 0, NEW lock \in locks'
               PROVE  Exists(lock.root)' \/ \E d \in Clients : req'[d] # None /\ req'[d].own = lock.token
    BY DEF LocksRooted
  <2>1. CASE lock = NewLock(c)
    BY <1>8, <2>1 DEF NewLock
  <2>2. CASE lock \in locks
    <3>1. Exists(lock.root) \/ \E d \in Clients : req[d] # None /\ req[d].own = lock.token
      BY <1>1, <1>2, <2>2 DEF LocksRooted
    <3>2. Exists(lock.root)' <=> Exists(lock.root)
      BY <1>2, SameObjects
    <3>3. lock.token # NoToken
      BY <1>1, <2>2 DEF TypeOK, Lock, Tokens, NoToken
    <3> QED
      BY <1>6, <1>7, <3>1, <3>2, <3>3
  <2> QED
    BY <1>6, <2>1, <2>2
<1> QED
  BY <1>5, <1>9, <1>10, <1>11, <1>12, <1>13, <1>14 DEF TreeInv, ClientOK

\* Recovery ends a write or a deletion in doubt.
LEMMA RecoverStep ==
    ASSUME TreeInv, NEW p \in Paths, Recover(p)
    PROVE  TreeInv'
<1>1. /\ TreeTypeOK /\ TypeOK /\ IInv /\ KeysRegistered /\ TokensDrawn /\ LocksRooted /\ Namespace
      /\ \A d \in Clients : ClientOK(d)
      /\ faults \in Nat
  BY TreeAssumption DEF TreeInv, IInv, TreeTypeOK
<1>2. pending[p] # None /\ Running = {} /\ UNCHANGED <<task, faults>>
  BY DEF Recover
<1>3. /\ objects' \in [Paths -> Object \union {None}]
      /\ pending' \in [Paths -> Object \union {Deletion, None}]
      /\ locks' \subseteq locks /\ UNCHANGED <<req, issued, begun, prepared>>
      /\ Namespace' /\ LocksRooted'
  <2>1. CASE Apply(p) /\ locks' = locks \ Orphaned(p)
    <3>1. /\ objects' \in [Paths -> Object \union {None}]
          /\ pending' \in [Paths -> Object \union {Deletion, None}] /\ Namespace'
      BY <1>1, <1>2, <2>1, ApplyFacts
    <3>2. LocksRooted'
      BY <1>1, <1>2, <2>1, RootedApply
    <3> QED
      BY <2>1, <3>1, <3>2 DEF Apply
  <2>2. CASE pending' = [pending EXCEPT ![p] = None] /\ UNCHANGED <<vars, objects, prepared>>
    <3>1. UNCHANGED <<locks, req, issued, begun, objects, prepared>>
      BY <2>2 DEF vars
    <3>2. /\ objects' \in [Paths -> Object \union {None}]
          /\ pending' \in [Paths -> Object \union {Deletion, None}]
      BY <1>1, <2>2 DEF TreeTypeOK
    <3>3. \A x \in Paths : KindsAt(x)' \subseteq KindsAt(x)
      BY <1>1, <2>2 DEF KindsAt, TreeTypeOK
    <3>4. Namespace'
      BY <1>1, <3>3, NamespaceShrinks
    <3>5. LocksRooted'
      BY <1>1, <1>2, <3>1, RootedSame
    <3> QED
      BY <3>1, <3>2, <3>4, <3>5
  <2> QED
    BY <2>1, <2>2 DEF Recover
<1>4. TreeTypeOK' /\ IInv' /\ TokensDrawn'
  BY <1>1, <1>2, <1>3, LocksGo DEF TreeTypeOK, TokensDrawn
<1>5. ASSUME NEW d \in Clients PROVE ClientOK(d)'
  <2>1. /\ task'[d] = task[d] /\ SameRequest(d) /\ NoOldLocks
        /\ issued' \in Nat /\ issued <= issued'
    BY <1>1, <1>2, <1>3 DEF SameRequest, NoOldLocks, TypeOK
  <2>2. ~(req[d] # None /\ req[d].pc = "running")
    BY <1>2 DEF Running
  <2> QED
    BY <1>1, <2>1, <2>2, Frame
<1> QED
  BY <1>3, <1>4, <1>5 DEF TreeInv

\* All handlers go, the index and what is in doubt in it stay.
LEMMA CrashStep ==
    ASSUME TreeInv, Crash
    PROVE  TreeInv'
<1>1. /\ TreeTypeOK /\ TypeOK /\ IInv /\ TokensDrawn /\ Namespace /\ faults \in 0..MaxFaults
  BY DEF TreeInv, IInv, TreeTypeOK
<1>2. /\ Restart /\ Fault /\ task' = [c \in Clients |-> None] /\ req' = [c \in Clients |-> None]
      /\ UNCHANGED <<locks, issued, begun, objects, pending, prepared>>
  BY DEF Crash, Restart
<1>3. IInv' /\ TokensDrawn' /\ Namespace'
  BY <1>1, <1>2, RestartStep, NamespaceSame DEF TokensDrawn
<1>4. faults' \in 0..MaxFaults /\ faults' # 0
  BY <1>1, <1>2, TreeAssumption DEF Fault
<1>5. TreeTypeOK' /\ LocksRooted'
  BY <1>1, <1>2, <1>4 DEF TreeTypeOK, LocksRooted
<1>6. ASSUME NEW d \in Clients PROVE ClientOK(d)'
  <2>1. task'[d] = None /\ req'[d] = None
    BY <1>2
  <2> QED
    BY <2>1 DEF ClientOK, HandlerOK, Registered, Phases, CallOK, DavOK, MoveOK, LockOK
<1> QED
  BY <1>3, <1>5, <1>6 DEF TreeInv

\* At the start there is a tree, and at most one lock, on something that exists.
LEMMA StartInv ==
    ASSUME objects \in Trees, req = [c \in Clients |-> None], task = [c \in Clients |-> None],
           pending = [p \in Paths |-> None], prepared = {}, faults = 0, begun = 0,
           issued \in Nat, locks \subseteq Lock,
           \A lock, other \in locks : lock = other,
           \A lock \in locks : lock.token <= issued /\ Exists(lock.root)
    PROVE  TreeInv
<1>1. TreeTypeOK
  BY TreeAssumption DEF TreeTypeOK
<1>2. IInv
  BY DEF IInv, TypeOK, KeysRegistered, LocksDisjoint, MutationsDisjoint, LocksHonoured, Running
<1>3. Namespace
  <2>1. \A p \in Paths : KindsAt(p) = IF objects[p] = None THEN {} ELSE {objects[p].kind}
    <3>1. ASSUME NEW p \in Paths PROVE objects[p] # Deletion /\ pending[p] = None
      BY <1>1, Nothing DEF TreeTypeOK
    <3> QED
      BY <3>1 DEF KindsAt
  <2>2. \A p, q \in Paths :
          objects[p] # None /\ objects[p].kind = "file" /\ q # p /\ AtOrBelow(q, p)
             => objects[q] = None
    BY TreeAssumption
  <2> QED
    BY <2>1, <2>2 DEF Namespace
<1>4. \A c \in Clients : ClientOK(c)
  BY DEF ClientOK, HandlerOK, Registered, Phases, CallOK, DavOK, MoveOK, LockOK
<1>5. TokensDrawn /\ LocksRooted
  BY DEF TokensDrawn, LocksRooted
<1> QED
  BY <1>1, <1>2, <1>3, <1>4, <1>5 DEF TreeInv

\* The invariant at the start.
LEMMA TreeInitInv == TreeInit => TreeInv
<1> SUFFICES ASSUME TreeInit PROVE TreeInv
  OBVIOUS
<1>1. /\ objects \in Trees /\ issued = Cardinality(locks)
      /\ req = [c \in Clients |-> None] /\ task = [c \in Clients |-> None]
      /\ pending = [p \in Paths |-> None] /\ prepared = {} /\ faults = 0 /\ begun = 0
  BY DEF TreeInit
<1>2. CASE locks = {}
  <2>1. issued = 0
    BY <1>1, <1>2, FS_EmptySet
  <2> QED
    BY <1>1, <1>2, <2>1, StartInv
<1>3. ASSUME NEW left \in LeftLocks, Exists(left[1]), NEW old,
             old = [token |-> 1, root |-> left[1], depth |-> left[2]], locks = {old}
      PROVE  TreeInv
  <2>1. left[1] \in Paths /\ left[2] \in Depths
    BY TreeAssumption
  <2>2. old \in Lock /\ old.token = 1 /\ old.root = left[1]
    BY <1>3, <2>1 DEF Lock, Tokens
  <2>3. issued = 1
    BY <1>1, <1>3, FS_Singleton
  <2>4. /\ locks \subseteq Lock /\ \A lock, other \in locks : lock = other
    BY <1>3, <2>2
  <2>5. \A lock \in locks : lock.token <= issued /\ Exists(lock.root)
    BY <1>3, <2>2, <2>3
  <2> QED
    BY <1>1, <2>3, <2>4, <2>5, StartInv
<1> QED
  BY <1>2, <1>3 DEF TreeInit

-----------------------------------------------------------------------------
(* What a handler finds when it holds the guard.                           *)

\* A path that is to be created is registered up to the first collection.
LEMMA Creation ==
    ASSUME NEW p \in Paths, NEW L, ~Collection(p), CreationPaths(p) \subseteq L
    PROVE  p \in L /\ Anchored(L, p, {})
<1> DEFINE G == {q \in Paths : Collection(q)}
<1>1. p # <<>> /\ <<>> \in G
  BY BelowPaths DEF Collection
<1>2. PICK a \in Ancestors(p) \ {p} :
         /\ a \in G
         /\ \A r \in Ancestors(p) \ {p} : AtOrBelow(r, a) /\ r # a => r \notin G
  <2> HIDE DEF G
  <2> QED  BY <1>1, Lowest
<1>3. a \in Paths /\ AtOrBelow(p, a) /\ Collection(a)
  BY <1>2 DEF Ancestors
<1>4. Upward(p, a) \subseteq L
  <2> SUFFICES ASSUME NEW q \in Paths, AtOrBelow(p, q), AtOrBelow(q, a) PROVE q \in CreationPaths(p)
    BY DEF Upward
  <2>1. q \in Ancestors(p)
    BY DEF Ancestors
  <2>2. ASSUME NEW r \in Ancestors(p) \ {p}, AtOrBelow(r, q), r # q PROVE ~Collection(r)
    <3>1. r \in Paths /\ AtOrBelow(r, a) /\ r # a
      BY <1>3, <2>2, PathOrder DEF Ancestors
    <3> QED
      BY <1>2, <3>1
  <2> QED
    BY <2>1, <2>2 DEF CreationPaths
<1>5. Stays(a, {})
  BY <1>3 DEF Collection, Stays, Tree
<1>6. p \in L
  BY <1>3, <1>4, BelowPaths
<1> QED
  BY <1>2, <1>4, <1>5, <1>6 DEF Anchored

\* A tree that is to be deleted is registered, and with it all up to the first
\* collection that stays.
LEMMA DeletionScope ==
    ASSUME TreeTypeOK, Namespace, NEW p \in Paths, NEW L, DeletionPaths(p, Tree(p)) \subseteq L,
           p = <<>> \/ Tree(p) # {}
    PROVE  Inside(L, p, Tree(p)) /\ Anchored(L, p, Below(p))
<1> DEFINE S == Tree(p)
           vanishing == {q \in Ancestors(p) \ {p, <<>>} : ~RemainsWithout(q, S)}
<1>1. /\ {p} \union S \subseteq L /\ ParentsOf({p} \union S) \subseteq L
      /\ \A q \in Below(p) : (\E s \in S : s # q /\ AtOrBelow(s, q)) => q \in L
      /\ vanishing \subseteq L /\ ParentsOf(vanishing) \subseteq L
  BY DEF DeletionPaths
<1>2. \A s \in S : s \in Paths /\ AtOrBelow(s, p) /\ Mapped(s)
  BY DEF Tree, Below
<1>3. Inside(L, p, S)
  <2> SUFFICES ASSUME NEW s \in S, NEW q \in Paths, AtOrBelow(s, q), AtOrBelow(q, p) PROVE q \in L
    BY <1>1 DEF Inside, Upward
  <2>1. q \in Below(p)
    BY DEF Below
  <2> QED
    BY <1>1, <2>1
<1>4. ASSUME p # <<>> PROVE Anchored(L, p, Below(p))
  <2> DEFINE G == {<<>>} \union {q \in Paths : RemainsWithout(q, S)}
  <2>1. <<>> \in G
    OBVIOUS
  <2>2. PICK a \in Ancestors(p) \ {p} :
           /\ a \in G
           /\ \A r \in Ancestors(p) \ {p} : AtOrBelow(r, a) /\ r # a => r \notin G
           /\ \E b \in Ancestors(p) : /\ b # <<>> /\ Parent(b) = a
                                      /\ b = p \/ b \notin G
    <3> HIDE DEF G
    <3> QED  BY <1>4, <2>1, Lowest
  <2>3. a \in Paths /\ AtOrBelow(p, a) /\ a # p
    BY <2>2 DEF Ancestors
  <2>4. \A r \in Ancestors(p) \ {p} : r \notin G => r \in vanishing
    BY DEF Ancestors
  <2>5. a \in L
    <3>1. PICK b \in Ancestors(p) : b # <<>> /\ Parent(b) = a /\ (b = p \/ b \notin G)
      BY <2>2
    <3>2. b = p \/ b \in vanishing
      BY <2>4, <3>1
    <3>3. a \in ParentsOf({p} \union S) \/ a \in ParentsOf(vanishing)
      <4> HIDE DEF vanishing, S
      <4> QED  BY <3>1, <3>2 DEF ParentsOf
    <3> QED
      BY <1>1, <3>3
  <2>6. Upward(p, a) \subseteq L
    <3> SUFFICES ASSUME NEW q \in Paths, AtOrBelow(p, q), AtOrBelow(q, a) PROVE q \in L
      BY DEF Upward
    <3>1. CASE q = p \/ q = a
      BY <1>1, <2>5, <3>1
    <3>2. CASE q # p /\ q # a
      <4>1. q \in Ancestors(p) \ {p}
        BY <3>2 DEF Ancestors
      <4>2. q \in vanishing
        BY <2>2, <2>4, <3>2, <4>1
      <4> QED
        BY <1>1, <4>2
    <3> QED
      BY <3>1, <3>2
  <2>7. Stays(a, Below(p))
    <3>1. a \notin Below(p)
      BY <2>3, PathOrder DEF Below
    <3>2. CASE a = <<>>
      BY <3>2 DEF Stays
    <3>3. CASE a # <<>>
      <4>1. PICK y \in Tree(a) : y \notin S
        BY <2>2, <3>3 DEF RemainsWithout
      <4>2. y \in Paths /\ AtOrBelow(y, a) /\ Mapped(y) /\ y \notin Below(p) /\ y \in Below(a)
        BY <4>1 DEF Tree, Below
      <4>3. CASE y # a
        BY <4>2, <4>3 DEF Stays
      <4>4. CASE y = a
        <5>1. PICK s \in S : s \in Paths /\ AtOrBelow(s, p) /\ Mapped(s)
          BY <1>2, <1>4
        <5>2. AtOrBelow(s, a) /\ s # a
          BY <2>3, <5>1, PathOrder
        <5>3. objects[a] \in Object /\ objects[s] \in Object
          BY <2>3, <4>2, <4>4, <5>1 DEF TreeTypeOK, Mapped
        <5>4. objects[a].kind \in KindsAt(a) /\ objects[s].kind \in KindsAt(s)
          BY <5>3, Nothing DEF KindsAt
        <5>5. objects[a].kind # "file"
          BY <2>3, <5>1, <5>2, <5>4 DEF Namespace
        <5>6. objects[a].kind = "dir"
          BY <5>3, <5>5 DEF Object
        <5> QED
          BY <3>1, <4>2, <4>4, <5>6 DEF Stays
      <4> QED
        BY <4>3, <4>4
    <3> QED
      BY <3>2, <3>3
  <2> QED
    BY <2>2, <2>6, <2>7 DEF Anchored
<1>5. p = <<>> => Anchored(L, p, Below(p))
  BY DEF Anchored
<1> QED
  BY <1>3, <1>4, <1>5

\* What stays above a source stays when the destination is cleared as well, or the
\* destination is below it.
LEMMA KeptFrom ==
    ASSUME NEW w \in Wish, NEW L, ~Nested(w.path, w.dst), Anchored(L, w.path, Below(w.path))
    PROVE  Kept(L, w)
<1>1. w.path \in Paths /\ w.dst \in Paths
  BY WishFields
<1>2. w.path # <<>>
  BY <1>1, PathOrder DEF Nested
<1>3. PICK a \in Ancestors(w.path) \ {w.path} :
         Upward(w.path, a) \subseteq L /\ Stays(a, Below(w.path))
  BY <1>2 DEF Anchored
<1>4. a \in Paths /\ AtOrBelow(w.path, a)
  BY <1>3 DEF Ancestors
<1>5. ~AtOrBelow(a, w.dst)
  BY <1>1, <1>4, PathOrder DEF Nested
<1>6. AtOrBelow(w.dst, a) \/ Stays(a, Below(w.path) \union Below(w.dst))
  <2>1. CASE a = <<>>
    BY <1>1, <2>1, PathOrder
  <2>2. CASE a \notin Below(w.path) /\ Mapped(a) /\ objects[a].kind = "dir"
    <3>1. a \notin Below(w.dst)
      BY <1>5 DEF Below
    <3> QED
      BY <2>2, <3>1 DEF Stays
  <2>3. ASSUME NEW s \in Below(a) \ {a}, s \notin Below(w.path), Mapped(s)
        PROVE  AtOrBelow(w.dst, a) \/ Stays(a, Below(w.path) \union Below(w.dst))
    <3>1. CASE s \notin Below(w.dst)
      BY <2>3, <3>1 DEF Stays
    <3>2. CASE s \in Below(w.dst)
      <4>1. s \in Paths /\ AtOrBelow(s, a) /\ AtOrBelow(s, w.dst)
        BY <2>3, <3>2 DEF Below
      <4>2. Nested(a, w.dst)
        BY <1>1, <1>4, <4>1, PathOrder
      <4> QED
        BY <1>5, <4>2 DEF Nested
    <3> QED
      BY <3>1, <3>2
  <2> QED
    BY <1>3, <2>1, <2>2, <2>3 DEF Stays
<1> QED
  BY <1>3, <1>6 DEF Kept

-----------------------------------------------------------------------------
(* The first phase.                                                        *)

\* u is t when it starts with a phase.
Enters(t, u, phase, todo) ==
    /\ u \in Task /\ u.wish = t.wish /\ u.dsnap = t.dsnap /\ u.body = t.body
    /\ u.phase = phase /\ u.todo = todo
    /\ u.done = t.done /\ u.at = t.at /\ u.failed = t.failed

\* How a handler enters a phase, with what it found or with what it finds now.
Turned(t, phase, todo) == [t EXCEPT !.phase = phase, !.todo = todo]
TurnedAt(t, phase, snap, todo) == [t EXCEPT !.phase = phase, !.snap = snap, !.todo = todo]

\* What Turned and TurnedAt leave of a handler.
LEMMA EnterFields ==
    ASSUME NEW t \in Task, NEW todo \in SUBSET Paths,
           NEW phase \in {"prepared", "clear", "copy", "make", "drop", "over"},
           NEW snap \in [Paths -> Object \union {None}]
    PROVE  /\ Enters(t, Turned(t, phase, todo), phase, todo)
           /\ Turned(t, phase, todo).snap = t.snap
           /\ Enters(t, TurnedAt(t, phase, snap, todo), phase, todo)
<1>1. Turned(t, phase, todo) \in Task /\ TurnedAt(t, phase, snap, todo) \in Task
  BY DEF Task, Turned, TurnedAt
<1> QED
  BY <1>1 DEF Task, Enters, Turned, TurnedAt

\* The first phase of each kind of request.
LEMMA StartedFields ==
    ASSUME TreeTypeOK, NEW t \in Task, t.wish \in Requests, NEW u, u = Started(t),
           In(t.snap) \subseteq Below(t.wish.path) \/ t.wish.by # "dav"
    PROVE  LET w == t.wish
           IN  /\ w.by = "dav" => u.snap = t.snap
               /\ w.op \in {"put", "mkcol"} => Enters(t, u, "make", {w.path})
               /\ w.op = "lock" => Enters(t, u, "make", IF Exists(w.path) THEN {} ELSE {w.path})
               /\ w.op = "delete" =>
                     Enters(t, u, "drop", IF w.by = "fm" THEN {w.path} ELSE Tree(w.path))
               /\ w.op = "move" /\ w.by = "job" =>
                     \/ Enters(t, u, "copy", Tree(w.path))
                     \/ Enters(t, u, "clear", Tree(w.dst))
               /\ w.op = "move" /\ w.by = "fm" => Enters(t, u, "copy", {w.path})
               /\ w.op \in {"copy", "move"} /\ w.by = "dav" =>
                     IF In(t.dsnap) # {} /\ ~DirectReplace(t)
                     THEN Enters(t, u, "clear", In(t.dsnap)) ELSE Enters(t, u, "copy", Sources(t))
<1> DEFINE w == t.wish
<1>1. w \in Wish /\ w.path \in Paths /\ w.dst \in Paths
  BY TaskFields, WishFields
<1>2. /\ Tree(w.path) \in SUBSET Paths /\ Tree(w.dst) \in SUBSET Paths
      /\ In(t.dsnap) \in SUBSET Paths /\ {w.path} \in SUBSET Paths /\ {} \in SUBSET Paths
  BY <1>1, BelowPaths DEF Tree, In
<1>3. w.by = "dav" => Sources(t) \in SUBSET Paths
  BY <1>1 DEF Sources, In
<1>4. Snapshot(w.path) \in [Paths -> Object \union {None}]
  BY <1>1, SnapshotFacts
<1>5. \A phase \in {"prepared", "clear", "copy", "make", "drop", "over"} : \A todo, snap :
         todo \in SUBSET Paths /\ snap \in [Paths -> Object \union {None}] =>
               /\ Enters(t, Turned(t, phase, todo), phase, todo)
               /\ Turned(t, phase, todo).snap = t.snap
               /\ Enters(t, TurnedAt(t, phase, snap, todo), phase, todo)
  BY EnterFields
<1>6. CASE w.op \in {"put", "mkcol"}
  <2>1. u = Turned(t, "make", {w.path})
    BY <1>6 DEF Started, Turned
  <2> QED
    BY <1>2, <1>4, <1>5, <1>6, <2>1
<1>7. CASE w.op = "lock"
  <2>1. u = Turned(t, "make", IF Exists(w.path) THEN {} ELSE {w.path})
    BY <1>7 DEF Started, Turned
  <2> QED
    BY <1>2, <1>4, <1>5, <1>7, <2>1
<1>8. CASE w.op = "delete"
  <2>1. u = Turned(t, "drop", IF w.by = "fm" THEN {w.path} ELSE Tree(w.path))
    BY <1>8 DEF Started, Turned
  <2> QED
    BY <1>2, <1>4, <1>5, <1>8, <2>1
<1>9. CASE w.op = "move" /\ w.by = "job"
  <2>1. \/ u = TurnedAt(t, "copy", Snapshot(w.path), Tree(w.path))
        \/ u = TurnedAt(t, "clear", Snapshot(w.path), Tree(w.dst))
    BY <1>9 DEF Started, TurnedAt
  <2> QED
    BY <1>2, <1>4, <1>5, <1>9, <2>1
<1>10. CASE w.op = "move" /\ w.by = "fm"
  <2>1. u = TurnedAt(t, "copy", Snapshot(w.path), {w.path})
    BY <1>10 DEF Started, TurnedAt
  <2> QED
    BY <1>2, <1>4, <1>5, <1>10, <2>1
<1>11. CASE w.op \in {"copy", "move"} /\ w.by = "dav"
  <2>1. u = IF In(t.dsnap) # {} /\ ~DirectReplace(t)
            THEN Turned(t, "clear", In(t.dsnap)) ELSE Turned(t, "copy", Sources(t))
    BY <1>11 DEF Started, Turned
  <2> QED
    BY <1>2, <1>3, <1>4, <1>5, <1>11, <2>1
<1>12. w.op = "copy" => w.by = "dav"
  BY <1>1, WishFields, RequestAssumption
<1> QED
  BY <1>1, <1>6, <1>7, <1>8, <1>9, <1>10, <1>11, <1>12, WishFields

\* The copies of a WebDAV request go to what it has registered.
LEMMA CopyScope ==
    ASSUME TreeTypeOK, Namespace, NEW t \in Task, t.wish \in Requests, t.wish.by = "dav",
           t.wish.op \in {"copy", "move"}, ~Nested(t.wish.path, t.wish.dst),
           t.snap = Snapshot(t.wish.path), t.dsnap = Snapshot(t.wish.dst),
           NEW L, CopyPaths(t) \subseteq L
    PROVE  /\ t.wish.dst \in L
           /\ In(t.dsnap) # {} /\ ~DirectReplace(t) =>
                 /\ Inside(L, t.wish.dst, In(t.dsnap)) /\ Anchored(L, t.wish.dst, Below(t.wish.dst))
                 /\ \A q \in Sources(t) : Upward(Target(t, q), t.wish.dst) \subseteq L
           /\ ~(In(t.dsnap) # {} /\ ~DirectReplace(t)) =>
                 \A q \in Sources(t) : Creatable(L, Target(t, q))
<1> DEFINE w == t.wish
           p == w.path
           d == w.dst
           targets == {Target(t, q) : q \in Sources(t)}
<1>1. w \in Wish /\ p \in Paths /\ d \in Paths /\ p # <<>> /\ d # <<>>
  <2>1. w \in Wish /\ p \in Paths /\ d \in Paths
    BY TaskFields, WishFields
  <2> QED
    BY <2>1, PathOrder DEF Nested
<1>2. /\ In(t.snap) = Tree(p) /\ In(t.dsnap) = Tree(d) /\ Tree(p) \subseteq Below(p)
      /\ t.snap[p] = objects[p] /\ t.dsnap[d] = objects[d]
  BY <1>1, SnapshotFacts, BelowPaths
<1>3. Sources(t) \subseteq Below(p) /\ p \in Sources(t)
  <2>1. Sources(t) \subseteq Below(p)
    BY <1>1, <1>2, BelowPaths DEF Sources
  <2>2. IsTree(p, t.snap) \/ p \in In(t.snap)
    BY <1>1 DEF IsTree, In
  <2> QED
    BY <2>1, <2>2 DEF Sources
<1>4. \A q \in Sources(t) : Target(t, q) \in Paths /\ AtOrBelow(Target(t, q), d)
  <2>1. \A q \in Sources(t) : q \in Span(w)
    BY <1>3 DEF Span
  <2> QED
    BY <2>1, TargetPaths
<1>5. Target(t, p) = d
  BY <1>1, ImageOfRoot DEF Target
<1>6. CASE DirectReplace(t)
  <2>1. d \in L /\ t.snap[p] # None /\ t.snap[p].kind = "file" /\ In(t.dsnap) = {d}
    <3>1. ~IsTree(p, t.snap) /\ In(t.dsnap) = {d} /\ CopyPaths(t) = {d}
      BY <1>6 DEF DirectReplace, CopyPaths
    <3>2. t.snap[p] # None /\ t.snap[p].kind # "dir" /\ objects[p] \in Object
      BY <1>1, <1>2, <3>1 DEF IsTree, TreeTypeOK
    <3> QED
      BY <1>2, <3>1, <3>2 DEF Object
  <2>2. Tree(p) = {p}
    <3>1. "file" \in KindsAt(p) /\ p \in Tree(p)
      <4>1. objects[p] # Deletion
        BY <1>1, Nothing DEF TreeTypeOK
      <4> QED
        BY <1>1, <1>2, <2>1, <4>1, BelowPaths DEF KindsAt, Tree, Mapped
    <3>2. ASSUME NEW q \in Tree(p), q # p PROVE FALSE
      <4>1. q \in Paths /\ AtOrBelow(q, p) /\ objects[q] # None
        BY <3>2 DEF Tree, Below, Mapped
      <4>2. objects[q] # Deletion
        BY <4>1, Nothing DEF TreeTypeOK
      <4>3. objects[q].kind \in KindsAt(q)
        BY <4>1, <4>2 DEF KindsAt
      <4> QED
        BY <1>1, <3>1, <3>2, <4>1, <4>3 DEF Namespace
    <3> QED
      BY <3>1, <3>2
  <2>3. Sources(t) = {p}
    BY <1>2, <1>3, <1>6, <2>2 DEF Sources, DirectReplace
  <2>4. Mapped(d)
    BY <1>2, <2>1 DEF Tree
  <2>5. Creatable(L, d)
    BY <2>1, <2>4 DEF Creatable
  <2> QED
    BY <1>5, <1>6, <2>1, <2>3, <2>5
<1>7. CASE ~DirectReplace(t) /\ In(t.dsnap) # {}
  <2>1. DeletionPaths(d, In(t.dsnap)) \subseteq L /\ SubtreePaths(d, targets) \subseteq L
    BY <1>7 DEF CopyPaths
  <2>2. Inside(L, d, Tree(d)) /\ Anchored(L, d, Below(d))
    BY <1>1, <1>2, <1>7, <2>1, DeletionScope
  <2>3. ASSUME NEW q \in Sources(t), NEW x \in Upward(Target(t, q), d) PROVE x \in L
    <3>1. x \in Below(d) /\ Target(t, q) \in targets /\ AtOrBelow(Target(t, q), x)
      BY DEF Upward, Below
    <3> QED
      BY <2>1, <3>1 DEF SubtreePaths
  <2> QED
    BY <1>2, <1>7, <2>2, <2>3 DEF Inside
<1>8. CASE ~DirectReplace(t) /\ In(t.dsnap) = {}
  <2>1. \A q \in Sources(t) : CreationPaths(Target(t, q)) \subseteq L
    BY <1>8 DEF CopyPaths
  <2>2. ASSUME NEW q \in Sources(t) PROVE Creatable(L, Target(t, q))
    <3> DEFINE x == Target(t, q)
    <3>1. x \in Paths /\ AtOrBelow(x, d)
      BY <1>4
    <3>2. x # <<>>
      BY <1>1, <3>1, PathOrder, TreeAssumption
    <3>3. \A y \in Below(x) : ~Mapped(y)
      <4>1. \A y \in Below(x) : y \in Below(d)
        BY <1>1, <3>1, PathOrder DEF Below
      <4> QED
        BY <1>2, <1>8, <4>1 DEF Tree
    <3>4. ~Collection(x)
      BY <3>1, <3>2, <3>3, BelowPaths DEF Collection, Tree
    <3> QED
      BY <2>1, <3>1, <3>4, Creation DEF Creatable
  <2>3. d \in L
    BY <1>3, <1>5, <2>2 DEF Creatable
  <2> QED
    BY <1>8, <2>2, <2>3
<1> QED
  BY <1>6, <1>7, <1>8

\* What a WebDAV request finds under the guard is all registered.
LEMMA CheckedStart ==
    ASSUME TreeInv, NEW c \in Clients, Working(c, "prepared"), StillValid(c),
           NEW t, t = task[c], t.wish.by = "dav", NEW u, u = Started(t),
           NEW L, L = req[c].lockKeys
    PROVE  Checked(u, L)
<1> DEFINE w == t.wish
           p == w.path
<1>1. /\ t # None /\ t \in Task /\ w \in Requests /\ w \in Wish /\ HandlerOK(c) /\ Registered(c)
      /\ req[c].pc = "running" /\ p \in Paths /\ w.dst \in Paths
  BY InFlight, WishFields DEF Working, At
<1>2. TreeTypeOK /\ Namespace /\ Phases(c)
  BY <1>1, InFlight DEF TreeInv
<1>3. t.done = {} /\ t.at = None /\ ~t.failed
  BY <1>1, <1>2 DEF Phases, Working
<1>4. /\ In(t.snap) \subseteq Below(p)
      /\ w.op \in {"copy", "move"} => ~Nested(p, w.dst)
      /\ w.op \in {"delete", "copy", "move"} => p = <<>> \/ In(t.snap) # {}
      /\ w.op \in {"lock", "put"} => p \in L
  BY <1>1 DEF HandlerOK, Registered
<1>5. Sufficient(c) => Affected(t) \subseteq L
  BY DEF Sufficient
<1>6. CASE w.op \in {"put", "mkcol", "lock"}
  <2>1. u.phase = "make" /\ u.todo \subseteq {p}
        /\ (w.op = "lock" /\ Exists(p) => u.todo = {})
    BY <1>1, <1>2, <1>4, <1>6, StartedFields DEF Enters
  <2>2. ASSUME u.todo # {} PROVE Creatable(L, p)
    <3>1. CASE w.op = "put"
      <4>1. ~Collection(p) /\ (Mapped(p) \/ Sufficient(c))
        BY <3>1 DEF StillValid
      <4>2. CASE Mapped(p)
        BY <1>4, <3>1, <4>2 DEF Creatable
      <4>3. CASE ~Mapped(p)
        <5>1. CreationPaths(p) \subseteq L
          BY <1>5, <3>1, <4>1, <4>3 DEF Affected, Exists
        <5> QED
          BY <1>1, <4>1, <5>1, Creation DEF Creatable
      <4> QED
        BY <4>2, <4>3
    <3>2. CASE w.op = "mkcol"
      <4>1. ~Collection(p) /\ Sufficient(c)
        BY <3>2 DEF StillValid
      <4>2. CreationPaths(p) \subseteq L
        BY <1>5, <3>2, <4>1 DEF Affected
      <4> QED
        BY <1>1, <4>1, <4>2, Creation DEF Creatable
    <3>3. CASE w.op = "lock"
      <4>1. ~Exists(p) /\ Sufficient(c)
        BY <2>1, <2>2, <3>3 DEF StillValid
      <4>2. CreationPaths(p) \subseteq L /\ ~Collection(p)
        BY <1>5, <3>3, <4>1 DEF Affected, Exists
      <4> QED
        BY <1>1, <4>2, Creation DEF Creatable
    <3> QED
      BY <1>6, <3>1, <3>2, <3>3
  <2> QED
    BY <2>1, <2>2 DEF Checked, MakeOK, ClearOK, CopyOK, SourceOK, DropOK
<1>7. CASE w.op = "delete"
  <2>1. t.snap = Snapshot(p) /\ Affected(t) \subseteq L
    BY <1>5, <1>7 DEF StillValid
  <2>2. In(t.snap) = Tree(p) /\ DeletionPaths(p, In(t.snap)) \subseteq L
    BY <1>1, <1>2, <1>7, <2>1, SnapshotFacts DEF Affected
  <2>3. Inside(L, p, In(t.snap)) /\ Anchored(L, p, Below(p))
    BY <1>1, <1>2, <1>4, <1>7, <2>2, DeletionScope
  <2>4. u.phase = "drop" /\ u.todo = In(t.snap) /\ u.wish = w /\ u.snap = t.snap
    <3>1. Enters(t, u, "drop", Tree(p)) /\ u.snap = t.snap
      BY <1>1, <1>2, <1>4, <1>7, StartedFields
    <3> QED
      BY <2>2, <3>1 DEF Enters
  <2> QED
    BY <1>7, <2>3, <2>4 DEF Checked, MakeOK, ClearOK, CopyOK, SourceOK, DropOK
<1>8. CASE w.op \in {"copy", "move"}
  <2>1. t.snap = Snapshot(p) /\ t.dsnap = Snapshot(w.dst) /\ Affected(t) \subseteq L
    BY <1>5, <1>8 DEF StillValid
  <2>2. CopyPaths(t) \subseteq L /\ (w.op = "move" => DeletionPaths(p, In(t.snap)) \subseteq L)
    BY <1>8, <2>1 DEF Affected
  <2>3. In(t.snap) = Tree(p) /\ p # <<>> /\ Tree(p) # {}
    <3>1. In(t.snap) = Tree(p)
      BY <1>1, <1>2, <2>1, SnapshotFacts
    <3>2. p # <<>>
      BY <1>1, <1>4, <1>8, PathOrder DEF Nested
    <3> QED
      BY <1>4, <1>8, <3>1, <3>2
  <2>4. w.op = "move" => Inside(L, p, In(t.snap)) /\ Kept(L, w)
    <3> SUFFICES ASSUME w.op = "move" PROVE Inside(L, p, In(t.snap)) /\ Kept(L, w)
      OBVIOUS
    <3>1. Inside(L, p, In(t.snap)) /\ Anchored(L, p, Below(p))
      BY <1>1, <1>2, <2>2, <2>3, DeletionScope
    <3>2. Kept(L, w)
      BY <1>1, <1>4, <3>1, KeptFrom
    <3> QED
      BY <3>1, <3>2
  <2> DEFINE clears == In(t.dsnap) # {} /\ ~DirectReplace(t)
  <2>5. /\ w.dst \in L
        /\ clears => /\ Inside(L, w.dst, In(t.dsnap)) /\ Anchored(L, w.dst, Below(w.dst))
                     /\ \A q \in Sources(t) : Upward(Target(t, q), w.dst) \subseteq L
        /\ ~clears => \A q \in Sources(t) : Creatable(L, Target(t, q))
    BY <1>1, <1>2, <1>4, <1>8, <2>1, <2>2, CopyScope
  <2>6. /\ u.snap = t.snap
        /\ IF clears THEN Enters(t, u, "clear", In(t.dsnap)) ELSE Enters(t, u, "copy", Sources(t))
    BY <1>1, <1>2, <1>4, <1>8, StartedFields
  <2> HIDE DEF clears
  <2>7. u.wish = w /\ u.dsnap = t.dsnap /\ u.done = {} /\ Resumes(t, u)
        /\ u.phase = (IF clears THEN "clear" ELSE "copy")
        /\ u.todo = IF clears THEN In(t.dsnap) ELSE Sources(t)
    BY <1>3, <2>6 DEF Enters, Resumes
  <2>8. Sources(u) = Sources(t) /\ \A q : Target(u, q) = Target(t, q)
    BY <2>7, SameCopies
  <2>9. SourceOK(u, L)
    BY <2>4, <2>5, <2>6, <2>7 DEF SourceOK
  <2>10. ClearOK(u, L)
    BY <2>5, <2>7, <2>8 DEF ClearOK
  <2>11. CopyOK(u, L)
    BY <2>5, <2>7, <2>8 DEF CopyOK
  <2>12. MakeOK(u, L) /\ DropOK(u, L)
    BY <2>7 DEF MakeOK, DropOK
  <2> QED
    BY <2>9, <2>10, <2>11, <2>12 DEF Checked
<1> QED
  BY <1>1, <1>6, <1>7, <1>8, WishFields

\* The second look, under the guard: either the request is refused or all that it is
\* going to change has been checked.
LEMMA RecheckStep ==
    ASSUME TreeInv, NEW c \in Clients, Recheck(c)
    PROVE  TreeInv'
<1>1. /\ task[c] # None /\ At(c, "running") /\ req[c].pc = "running" /\ task[c].phase = "prepared"
      /\ Working(c, "prepared") /\ StillValid(c)
      /\ task' = [task EXCEPT ![c] = Started(task[c])]
      /\ UNCHANGED <<locks, req, issued, begun, objects, pending, prepared, faults>>
  BY DEF Recheck, Working, At, vars
<1>2. /\ task[c] \in Task /\ task[c].wish \in Requests /\ task[c].wish \in Wish
      /\ HandlerOK(c) /\ LockOK(c) /\ Phases(c) /\ TreeTypeOK
      /\ faults \in 0..MaxFaults /\ prepared \subseteq Requests /\ req[c] # None
      /\ task[c].wish.op = "lock" => task[c].wish.by = "dav"
  BY <1>1, InFlight DEF TreeInv
<1>3. ASSUME NEW t, t = task[c], NEW u, u = Started(t) PROVE TreeInv'
  <2> DEFINE w == t.wish
             p == w.path
  <2>1. /\ t.at = None /\ t.todo = {} /\ t.done = {} /\ ~t.failed
        /\ w \in Wish /\ p \in Paths /\ w.dst \in Paths
    BY <1>1, <1>2, <1>3, WishFields DEF Phases
  <2>2. /\ w.by = "dav" => In(t.snap) \subseteq Below(p)
        /\ w.op = "move" => p # w.dst
        /\ w.by = "dav" /\ w.op \in {"copy", "move"} => ~Nested(p, w.dst)
    BY <1>1, <1>2, <1>3 DEF HandlerOK
  <2>3. /\ w.by = "dav" => u.snap = t.snap
        /\ w.op \in {"put", "mkcol"} => Enters(t, u, "make", {p})
        /\ w.op = "lock" => Enters(t, u, "make", IF Exists(p) THEN {} ELSE {p})
        /\ w.op = "delete" => Enters(t, u, "drop", IF w.by = "fm" THEN {p} ELSE Tree(p))
        /\ w.op = "move" /\ w.by = "job" =>
              Enters(t, u, "copy", Tree(p)) \/ Enters(t, u, "clear", Tree(w.dst))
        /\ w.op = "move" /\ w.by = "fm" => Enters(t, u, "copy", {p})
        /\ w.op \in {"copy", "move"} /\ w.by = "dav" =>
              IF In(t.dsnap) # {} /\ ~DirectReplace(t)
              THEN Enters(t, u, "clear", In(t.dsnap)) ELSE Enters(t, u, "copy", Sources(t))
    BY <1>2, <1>3, <2>2, StartedFields
  <2>4. w.op = "copy" => w.by = "dav"
    BY <1>2, <1>3, WishFields, RequestAssumption
  <2>5. PICK next, due : Enters(t, u, next, due)
    BY <2>1, <2>3, <2>4, WishFields
  <2>6. u \in Task /\ u.wish = w /\ u.done = {} /\ u.at = None /\ ~u.failed
    BY <2>1, <2>5 DEF Enters
  <2>7. /\ u.phase # "prepared" /\ u.phase # "over"
        /\ u.phase = "make" <=> w.op \in {"put", "mkcol", "lock"}
        /\ u.phase = "make" => u.todo = IF w.op = "lock" /\ Exists(p) THEN {} ELSE {p}
        /\ u.phase = "drop" <=> w.op = "delete"
        /\ u.phase = "drop" => u.todo = IF w.by = "fm" THEN {p} ELSE Tree(p)
        /\ u.phase \in {"clear", "copy"} <=> w.op \in {"copy", "move"}
        /\ u.phase = "clear" => \/ w.by = "job" /\ u.todo = Tree(w.dst)
                                \/ w.by = "dav" /\ u.todo = In(t.dsnap)
        /\ u.phase = "copy" => \/ w.by = "job" /\ u.todo = Tree(p)
                               \/ w.by = "fm" /\ u.todo = {p}
                               \/ w.by = "dav" /\ u.todo = Sources(t)
    <3>1. \A phase, todo : Enters(t, u, phase, todo) => u.phase = phase /\ u.todo = todo
      BY DEF Enters
    <3> DEFINE clears == In(t.dsnap) # {} /\ ~DirectReplace(t)
    <3>2. /\ w.op \in {"put", "mkcol"} => u.phase = "make" /\ u.todo = {p}
          /\ w.op = "lock" => u.phase = "make" /\ u.todo = IF Exists(p) THEN {} ELSE {p}
          /\ w.op = "delete" => u.phase = "drop" /\ u.todo = IF w.by = "fm" THEN {p} ELSE Tree(p)
          /\ w.op = "move" /\ w.by = "job" => \/ u.phase = "copy" /\ u.todo = Tree(p)
                                              \/ u.phase = "clear" /\ u.todo = Tree(w.dst)
          /\ w.op = "move" /\ w.by = "fm" => u.phase = "copy" /\ u.todo = {p}
          /\ w.op \in {"copy", "move"} /\ w.by = "dav" =>
                IF clears THEN u.phase = "clear" /\ u.todo = In(t.dsnap)
                ELSE u.phase = "copy" /\ u.todo = Sources(t)
      BY <2>3, <3>1
    <3> HIDE DEF clears
    <3> QED
      BY <2>1, <2>4, <3>2, WishFields
  <2>8. w.op \in {"copy", "move"} /\ w.by = "dav" => t.dsnap = Snapshot(w.dst)
    BY <1>1, <1>3 DEF StillValid
  <2>9. w.op = "move" /\ w.by = "job" => ~Nested(p, w.dst)
    BY <1>1, <1>3 DEF StillValid
  <2>10. w.by = "dav" => Checked(u, req[c].lockKeys)
    BY <1>1, <1>3, CheckedStart
  <2>11. ASSUME task'[c] = u
         PROVE  Phases(c)' /\ CallOK(c)' /\ DavOK(c)' /\ MoveOK(c)' /\ LockOK(c)'
    <3>1. Phases(c)'
      <4>1. u.phase = "clear" => w.by # "fm" /\ u.todo \subseteq Below(w.dst)
        <5>1. w.by = "dav" /\ u.phase = "clear" => In(t.dsnap) \subseteq Below(w.dst)
          BY <1>2, <2>1, <2>7, <2>8, SnapshotFacts
        <5> QED
          BY <2>7, <5>1 DEF Tree
      <4>2. u.phase = "copy" => u.todo \subseteq Span(w)
        BY <2>1, <2>2, <2>7, BelowPaths DEF Span, Sources, Tree
      <4>3. u.phase = "drop" => u.todo \subseteq Span(w)
        BY <2>1, <2>7 DEF Span, Tree
      <4>4. u.phase = "make" => u.todo \subseteq {p}
        BY <2>7
      <4>5. req' = req /\ u # None
        BY <1>1, <2>6, TaskFields
      <4> QED
        BY <1>1, <2>6, <2>7, <2>11, <4>1, <4>2, <4>3, <4>4, <4>5 DEF Phases
    <3>2. CallOK(c)'
      BY <2>6, <2>11 DEF CallOK
    <3>3. DavOK(c)'
      <4> SUFFICES ASSUME w.by = "dav" PROVE DavOK(c)'
        BY <2>6, <2>11 DEF DavOK
      <4>1. ASSUME NEW L, L = req[c].lockKeys PROVE Checked(u, L)'
        BY <1>1, <2>10, <4>1, SameObjects
      <4> QED
        BY <1>1, <2>11, <4>1 DEF DavOK
    <3>4. MoveOK(c)'
      <4>1. Moved(u)'
        <5>1. w.by = "job" /\ u.phase = "copy" => \A q \in Span(w) : Mapped(q)' => q \in u.todo
          BY <1>1, <2>7 DEF Span, Tree, Mapped
        <5>2. w.by = "fm" /\ u.phase = "copy" => \A q \in Span(w) : q \in u.todo
          BY <2>7 DEF Span
        <5> QED
          BY <2>1, <2>6, <2>7, <2>9, <5>1, <5>2, WishFields DEF Moved, HasCopies
      <4> QED
        BY <2>11, <4>1 DEF MoveOK
    <3>5. LockOK(c)'
      <4> SUFFICES ASSUME w.op = "lock" PROVE LockOK(c)'
        BY <2>6, <2>11 DEF LockOK
      <4>1. \A lock \in locks : lock.token = req[c].own => lock.root = p
        BY <1>1, <1>2, <1>3 DEF LockOK
      <4>2. Exists(p)' <=> Exists(p)
        BY <1>1, SameObjects
      <4>3. u.phase = "make" /\ (u.todo = {} => Exists(p))
        BY <2>7
      <4> QED
        BY <1>1, <2>6, <2>11, <4>1, <4>2, <4>3 DEF LockOK
    <3> QED
      BY <3>1, <3>2, <3>3, <3>4, <3>5
  <2>12. faults' \in 0..MaxFaults /\ faults <= faults' /\ prepared' \subseteq Requests
         /\ locks' \subseteq locks
    BY <1>1, <1>2, TreeAssumption
  <2>13. u.wish = task[c].wish /\ (u.wish.by = "dav" => u.snap = task[c].snap)
         /\ task' = [task EXCEPT ![c] = u]
    BY <1>1, <1>3, <2>3, <2>6
  <2> QED
    BY <1>1, <2>6, <2>11, <2>12, <2>13, TaskStep
<1> QED
  BY <1>3

-----------------------------------------------------------------------------
(* The invariant.                                                          *)

\* Every step of a handler at work.
LEMMA WorkStep ==
    ASSUME TreeInv, NEW c \in Clients, Work(c)
    PROVE  TreeInv'
<1>1. CASE CreateLock(c) \/ Store(c) \/ Leave(c)
  BY <1>1, CreateLockStep, StoreStep, LeaveStep
<1>2. CASE Recheck(c) \/ Refuse(c)
  BY <1>2, RecheckStep, RefuseStep
<1>3. CASE Serve(c)
  <2>1. Serving(c)
    BY <1>3 DEF Serve
  <2>2. PICK q \in NextDue(task[c]) : StartWrite(c, q) \/ StartDelete(c, q) \/ Denied(c, q)
    BY <1>3 DEF Serve
  <2> QED
    BY <2>1, <2>2, StartWriteStep, StartDeleteStep, DeniedStep
<1>4. CASE Commit(c) \/ CommitOnly(c) \/ Abort(c) \/ Hold(c)
  BY <1>4, CommitStep, CommitOnlyStep, AbortStep, HoldStep
<1>5. CASE Made(c) \/ Cleared(c) \/ Copied(c) \/ Dropped(c)
  BY <1>5, MadeStep, ClearedStep, CopiedStep, DroppedStep
<1> QED
  BY <1>1, <1>2, <1>3, <1>4, <1>5 DEF Work

\* The invariant, step by step.
LEMMA TreeNextInv == TreeInv /\ [TreeNext]_allVars => TreeInv'
<1> SUFFICES ASSUME TreeInv, [TreeNext]_allVars PROVE TreeInv'
  OBVIOUS
<1>1. ASSUME NEW c \in Clients, NEW w \in Requests,
             \/ \E tokens \in {{}, 1..issued} : Prepare(c, w, tokens)
             \/ PrepareExternal(c, w)
             \/ \E depth \in Depths : PrepareLock(c, w, depth)
      PROVE  TreeInv'
  BY <1>1, PrepareStep, PrepareExternalStep, PrepareLockStep
<1>2. ASSUME NEW c \in Clients, Work(c) PROVE TreeInv'
  BY <1>2, WorkStep
<1>3. ASSUME NEW p \in Paths, Recover(p) PROVE TreeInv'
  BY <1>3, RecoverStep
<1>4. ASSUME NEW lock \in locks, Drops(lock) PROVE TreeInv'
  <2>1. locks' \subseteq locks /\ UNCHANGED <<req, issued, begun>> /\ UNCHANGED treeVars
    BY <1>4 DEF Drops, Unlock
  <2> QED
    BY <2>1, QuietStep
<1>5. CASE Crash
  BY <1>5, CrashStep
<1>6. CASE UNCHANGED allVars
  <2>1. locks' \subseteq locks /\ UNCHANGED <<req, issued, begun>> /\ UNCHANGED treeVars
    BY <1>6 DEF allVars, treeVars
  <2> QED
    BY <2>1, QuietStep
<1> QED
  BY <1>1, <1>2, <1>3, <1>4, <1>5, <1>6 DEF TreeNext

\* The invariant of the mount: whatever handlers, jobs, recovery and restarts do in
\* between, a request that runs has registered all it changes.
THEOREM TreeInvariant == TreeSpec => []TreeInv
BY TreeInitInv, TreeNextInv, PTL DEF TreeSpec

\* checkWebDAVWriteNamespace among committed objects, seen from Namespace.
LEMMA WellFormed == TreeTypeOK /\ Namespace => TreeWellFormed
<1> SUFFICES ASSUME TreeTypeOK, Namespace, NEW p \in Paths, Mapped(p), objects[p].kind = "file"
             PROVE  Tree(p) = {p}
  BY DEF TreeWellFormed
<1>1. ASSUME NEW q \in Paths, Mapped(q) PROVE objects[q].kind \in KindsAt(q)
  BY <1>1, Nothing DEF KindsAt, Mapped, TreeTypeOK
<1>2. p \in Tree(p)
  BY BelowPaths DEF Tree
<1>3. ASSUME NEW q \in Tree(p), q # p PROVE FALSE
  <2>1. q \in Paths /\ AtOrBelow(q, p) /\ Mapped(q)
    BY <1>3 DEF Tree, Below
  <2> QED
    BY <1>1, <1>3, <2>1 DEF Namespace
<1> QED
  BY <1>2, <1>3

\* Rows, locks and requests have their type; the index stays a tree with nothing
\* below a file, whatever is written, in doubt and recovered at the same time; and
\* without faults every lock is on something that exists or belongs to a LOCK that
\* is still being answered: deletions and moves take all others with them.
THEOREM MountSound == TreeSpec => []TreeSound
<1>1. TreeInv => TreeSound
  BY WellFormed DEF TreeInv, TreeSound
<1> QED
  BY <1>1, TreeInvariant, PTL

-----------------------------------------------------------------------------
(* No request waits for itself.                                            *)

\* Whatever a deletion of q makes vanish is in L.
Removable(L, q) ==
    \E root \in Paths :
       /\ AtOrBelow(q, root) /\ Upward(q, root) \subseteq L
       /\ \/ root = <<>>
          \/ \E a \in Ancestors(root) \ {root} :
                Upward(root, a) \subseteq L /\ (a = <<>> \/ RemainsWithout(a, {q}))

\* The paths that a write of the service calls for.
LEMMA PutScope ==
    ASSUME NEW p \in Paths, NEW L, Creatable(L, p)
    PROVE  ServicePutPaths(p) \subseteq L
<1>1. p \in L
  BY DEF Creatable
<1> SUFFICES ASSUME ~Mapped(p), NEW x \in CreationPaths(p) PROVE x \in L
  BY <1>1 DEF ServicePutPaths
<1>2. x \in Paths /\ AtOrBelow(p, x)
  BY DEF CreationPaths, Ancestors
<1>3. CASE p = <<>>
  BY <1>1, <1>2, <1>3, PathOrder
<1>4. ASSUME NEW a \in Ancestors(p) \ {p}, Upward(p, a) \subseteq L, Stays(a, {}) PROVE x \in L
  <2>1. a \in Paths /\ AtOrBelow(p, a) /\ Collection(a)
    BY <1>4 DEF Ancestors, Stays, Collection, Tree
  <2>2. CASE AtOrBelow(x, a)
    BY <1>2, <1>4, <2>2 DEF Upward
  <2>3. CASE AtOrBelow(a, x) /\ a # x
    BY <1>4, <2>1, <2>3 DEF CreationPaths
  <2>4. Nested(a, x)
    BY <1>2, <2>1, PathOrder
  <2> QED
    BY <1>2, <2>1, <2>2, <2>3, <2>4, PathOrder DEF Nested
<1> QED
  BY <1>3, <1>4 DEF Creatable, Anchored

\* The paths that a deletion of the service calls for.
LEMMA DeleteScope ==
    ASSUME NEW q \in Paths, NEW L, Removable(L, q)
    PROVE  ServiceDeletePaths(q) \subseteq L
<1> SUFFICES ASSUME NEW x \in ServiceDeletePaths(q) PROVE x \in L
  OBVIOUS
<1>1. PICK root \in Paths :
         /\ AtOrBelow(q, root) /\ Upward(q, root) \subseteq L
         /\ \/ root = <<>>
            \/ \E a \in Ancestors(root) \ {root} :
                  Upward(root, a) \subseteq L /\ (a = <<>> \/ RemainsWithout(a, {q}))
  BY DEF Removable
<1>2. x \in Paths /\ AtOrBelow(q, x)
  BY DEF ServiceDeletePaths, Ancestors
<1>3. CASE AtOrBelow(x, root)
  BY <1>1, <1>2, <1>3 DEF Upward
<1>4. CASE ~AtOrBelow(x, root)
  <2>1. AtOrBelow(root, x) /\ root # x
    BY <1>1, <1>2, <1>4, PathOrder DEF Nested
  <2>2. root # <<>>
    BY <1>2, <2>1, PathOrder
  <2>3. PICK a \in Ancestors(root) \ {root} :
           Upward(root, a) \subseteq L /\ (a = <<>> \/ RemainsWithout(a, {q}))
    BY <1>1, <2>2
  <2>4. a \in Paths /\ AtOrBelow(root, a) /\ AtOrBelow(q, a) /\ a # q
    BY <1>1, <2>3, PathOrder DEF Ancestors
  <2>5. CASE AtOrBelow(x, a)
    BY <1>2, <2>1, <2>3, <2>5 DEF Upward
  <2>6. CASE AtOrBelow(a, x) /\ a # x
    <3>1. a # <<>>
      BY <1>2, <2>4, <2>6, PathOrder
    <3>2. a \in Ancestors(q) \ {q} /\ RemainsWithout(a, {q})
      BY <2>3, <2>4, <3>1 DEF Ancestors
    <3> QED
      BY <2>6, <3>2 DEF ServiceDeletePaths
  <2>7. Nested(a, x)
    BY <1>2, <2>1, <2>4, PathOrder
  <2> QED
    BY <1>2, <2>4, <2>5, <2>6, <2>7 DEF Nested
<1> QED
  BY <1>3, <1>4

\* A WebDAV request that deletes has registered all that vanishes.
LEMMA RemovableAt ==
    ASSUME NEW t \in Task, t.wish \in Requests, NEW L, Checked(t, L), Deletes(t), NEW q \in t.todo,
           t.phase = "drop" => t.todo \subseteq Span(t.wish) /\ t.wish.op \in {"delete", "move"},
           t.phase = "clear" => t.todo \subseteq Below(t.wish.dst),
           t.wish.op = "move" => ~Nested(t.wish.path, t.wish.dst), t.wish.by = "dav"
    PROVE  Removable(L, q)
<1> DEFINE w == t.wish
<1>1. /\ w \in Wish /\ w.path \in Paths /\ w.dst \in Paths /\ q \in Paths
      /\ t.phase \in {"clear", "drop"}
  BY TaskFields, WishFields DEF Deletes
<1>2. ASSUME NEW root \in Paths, AtOrBelow(q, root), Upward(q, root) \subseteq L,
             Anchored(L, root, Below(root))
      PROVE  Removable(L, q)
  <2>1. CASE root = <<>>
    BY <1>2, <2>1 DEF Removable
  <2>2. ASSUME NEW a \in Ancestors(root) \ {root}, Upward(root, a) \subseteq L,
               Stays(a, Below(root))
        PROVE  Removable(L, q)
    <3>1. a \in Paths /\ AtOrBelow(root, a) /\ a # root /\ q \in Below(root)
      BY <1>1, <1>2, <2>2 DEF Ancestors, Below
    <3>2. a # <<>> => \E s \in Below(a) : Mapped(s) /\ s \notin Below(root)
      BY <2>2, <3>1, BelowPaths DEF Stays
    <3>3. a = <<>> \/ RemainsWithout(a, {q})
      BY <3>1, <3>2 DEF RemainsWithout, Tree
    <3> QED
      BY <1>2, <2>2, <3>3 DEF Removable
  <2> QED
    BY <1>2, <2>1, <2>2 DEF Anchored
<1>3. CASE t.phase = "clear"
  <2>1. q \in In(t.dsnap) /\ Inside(L, w.dst, In(t.dsnap)) /\ Anchored(L, w.dst, Below(w.dst))
    BY <1>3 DEF Checked, ClearOK
  <2>2. AtOrBelow(q, w.dst) /\ Upward(q, w.dst) \subseteq L
    BY <1>3, <2>1 DEF Inside, Below
  <2> QED
    BY <1>1, <1>2, <2>1, <2>2
<1>4. CASE t.phase = "drop" /\ w.op = "delete"
  <2>1. q \in In(t.snap) /\ Inside(L, w.path, In(t.snap)) /\ Anchored(L, w.path, Below(w.path))
    BY <1>4 DEF Checked, DropOK
  <2>2. AtOrBelow(q, w.path) /\ Upward(q, w.path) \subseteq L
    BY <1>4, <2>1 DEF Inside, Below, Span
  <2> QED
    BY <1>1, <1>2, <2>1, <2>2
<1>5. CASE t.phase = "drop" /\ w.op = "move"
  <2>1. /\ q \in In(t.snap) /\ Inside(L, w.path, In(t.snap)) /\ Kept(L, w)
        /\ Mapped(Target(t, q))
    BY <1>5 DEF Checked, DropOK, SourceOK
  <2>2. q \in Span(w) /\ AtOrBelow(q, w.path) /\ Upward(q, w.path) \subseteq L
    BY <1>5, <2>1 DEF Inside, Below, Span
  <2>3. Target(t, q) \in Paths /\ AtOrBelow(Target(t, q), w.dst)
    BY <1>5, <2>2, TargetPaths
  <2>4. Target(t, q) # q
    BY <1>1, <1>5, <2>2, <2>3, Apart
  <2>5. PICK a \in Ancestors(w.path) \ {w.path} :
           /\ Upward(w.path, a) \subseteq L
           /\ AtOrBelow(w.dst, a) \/ Stays(a, Below(w.path) \union Below(w.dst))
    BY <2>1 DEF Kept
  <2>6. a \in Paths /\ AtOrBelow(w.path, a) /\ a # w.path
    BY <2>5 DEF Ancestors
  <2>7. a = <<>> \/ RemainsWithout(a, {q})
    <3>1. CASE AtOrBelow(w.dst, a)
      <4>1. AtOrBelow(Target(t, q), a)
        BY <1>1, <2>3, <2>6, <3>1, PathOrder
      <4> QED
        BY <2>1, <2>3, <2>4, <4>1 DEF RemainsWithout, Tree, Below
    <3>2. CASE a # <<>> /\ Stays(a, Below(w.path) \union Below(w.dst))
      <4>1. PICK s \in Below(a) : Mapped(s) /\ s \notin Below(w.path)
        BY <2>6, <3>2, BelowPaths DEF Stays
      <4>2. q \in Below(w.path)
        BY <1>1, <2>2 DEF Below
      <4> QED
        BY <4>1, <4>2 DEF RemainsWithout, Tree
    <3> QED
      BY <2>5, <3>1, <3>2
  <2> QED
    BY <1>1, <2>2, <2>5, <2>7 DEF Removable
<1> QED
  BY <1>1, <1>3, <1>4, <1>5

\* What a WebDAV request in flight writes or deletes next is all registered.
LEMMA ScopeOf ==
    ASSUME TreeInv, NEW c \in Clients, task[c] # None, task[c].wish.by = "dav",
           task[c].phase \in Busy, NEW q \in task[c].todo
    PROVE  /\ Deletes(task[c]) => Removable(req[c].lockKeys, q)
           /\ ~Deletes(task[c]) => Creatable(req[c].lockKeys, Place(task[c], q))
<1> DEFINE t == task[c]
           w == t.wish
           L == req[c].lockKeys
<1>1. /\ t \in Task /\ w \in Requests /\ Phases(c) /\ DavOK(c) /\ HandlerOK(c)
  BY InFlight
<1>2. Checked(t, L) /\ (w.op = "move" => ~Nested(w.path, w.dst))
  BY <1>1 DEF DavOK, HandlerOK
<1>3. /\ t.phase = "drop" => t.todo \subseteq Span(w) /\ w.op \in {"delete", "move"}
      /\ t.phase = "clear" => t.todo \subseteq Below(w.dst)
      /\ t.phase = "make" => t.todo \subseteq {w.path}
  BY <1>1 DEF Phases
<1>4. Deletes(t) => Removable(L, q)
  BY <1>1, <1>2, <1>3, RemovableAt
<1>5. ASSUME ~Deletes(t) PROVE Creatable(L, Place(t, q))
  <2>1. CASE t.phase = "make"
    BY <1>2, <2>1 DEF Checked, MakeOK, Place
  <2>2. CASE t.phase = "copy"
    BY <1>2, <2>2 DEF Checked, CopyOK, Place
  <2> QED
    BY <1>5, <2>1, <2>2 DEF Busy, Deletes
<1> QED
  BY <1>4, <1>5

\* What the service asks for is among what the request registered.
LEMMA NobodyWaits ==
    ASSUME TreeInv, NEW c \in Clients
    PROVE  ~WaitsForItself(c)
<1> SUFFICES ASSUME Serving(c), ~Direct(task[c].wish), NEW q \in NextDue(task[c])
             PROVE  InScope(c, ServicePaths(task[c], q))
  BY DEF WaitsForItself
<1> DEFINE t == task[c]
           w == t.wish
<1>1. t # None /\ t.phase \in Busy /\ req[c].pc = "running"
  BY DEF Serving, At, Busy
<1>2. /\ t \in Task /\ w \in Requests /\ w \in Wish /\ Registered(c)
      /\ req[c].lockKeys \subseteq req[c].keys /\ req[c].keys \subseteq Paths
  BY <1>1, InFlight
<1>3. q \in t.todo /\ q \in Paths /\ Place(t, q) \in Paths
  BY Due
<1>4. ServicePaths(t, q) \subseteq Paths
  BY <1>3, BelowPaths DEF ServicePaths, ServicePutPaths, ServiceDeletePaths, CreationPaths
<1>5. CASE w.by = "dav"
  <2>1. ServicePaths(t, q) \subseteq req[c].lockKeys
    BY <1>1, <1>3, <1>5, ScopeOf, PutScope, DeleteScope DEF ServicePaths
  <2> QED
    BY <1>2, <1>4, <2>1, PathOrder DEF InScope
<1>6. CASE w.by # "dav"
  <2>1. w.by = "job" \/ (w.by = "fm" /\ w.op = "move")
    BY <1>2, <1>6, WishFields DEF Direct
  <2>2. <<>> \in req[c].keys
    BY <1>1, <1>2, <2>1 DEF Registered
  <2> QED
    BY <1>4, <2>2, PathOrder DEF InScope
<1> QED
  BY <1>5, <1>6

\* beginWebDAVMutation: the service finds every path that a write or a deletion calls
\* for among those that its caller has registered, so that it never asks for a guard
\* that its own caller holds, whatever others have done to the tree since.
THEOREM NoRequestWaitsForItself == TreeSpec => []NoSelfWait
<1>1. TreeInv => NoSelfWait
  BY NobodyWaits DEF NoSelfWait
<1> QED
  BY <1>1, TreeInvariant, PTL

-----------------------------------------------------------------------------
(* What a step of a request may do.                                        *)

\* Nobody but a request in flight changes what it guards.
LEMMA OwnChange ==
    ASSUME TreeInv, [TreeNext]_allVars, NEW c \in Clients, InCall(c),
           NEW x \in Guarded(c), objects'[x] # objects[x]
    PROVE  (Commit(c) \/ CommitOnly(c)) /\ x = Written(c)
<1>1. /\ IInv /\ TreeTypeOK /\ TypeOK /\ c \in Running /\ req[c] \in Request
      /\ task[c] # None /\ x \in Paths
  BY DEF TreeInv, IInv, InCall, Running, At, TypeOK, Guarded, Under
<1>2. ASSUME NEW d \in Clients, Commit(d) \/ CommitOnly(d)
      PROVE  d = c /\ x = Written(c)
  <2>1. InCall(d) /\ Apply(Written(d))
    BY <1>2 DEF Commit, CommitOnly
  <2>2. d \in Running /\ task[d] # None /\ task[d].at # None
    BY <2>1 DEF InCall, Running, At
  <2>3. Written(d) \in Guarded(d)
    BY <2>2, InFlight DEF CallOK
  <2>4. x = Written(d)
    BY <1>1, <2>1 DEF Apply, TreeTypeOK
  <2>5. d = c
    BY <1>1, <2>2, <2>3, <2>4, GuardedApart
  <2> QED
    BY <2>4, <2>5
<1>3. objects' # objects
  OBVIOUS
<1>4. ASSUME NEW d \in Clients, Work(d) PROVE Commit(d) \/ CommitOnly(d)
  <2>1. CASE CreateLock(d)
    BY <1>3, <2>1 DEF CreateLock, treeVars
  <2>2. CASE Store(d)
    BY <1>3, <2>2 DEF Store, treeVars
  <2>3. CASE Recheck(d) \/ Refuse(d) \/ Leave(d)
    BY <1>3, <2>3 DEF Recheck, Refuse, Leave
  <2>4. CASE Serve(d)
    BY <1>3, <2>4 DEF Serve, StartWrite, StartDelete, Denied
  <2>5. CASE Abort(d) \/ Hold(d)
    BY <1>3, <2>5 DEF Abort, Hold
  <2>6. CASE Made(d) \/ Cleared(d) \/ Copied(d) \/ Dropped(d)
    BY <1>3, <2>6 DEF Made, Cleared, Copied, Dropped
  <2> QED
    BY <1>4, <2>1, <2>2, <2>3, <2>4, <2>5, <2>6 DEF Work
<1>5. ASSUME NEW d \in Clients, NEW w \in Requests,
             \/ \E tokens \in {{}, 1..issued} : Prepare(d, w, tokens)
             \/ PrepareExternal(d, w)
             \/ \E depth \in Depths : PrepareLock(d, w, depth)
      PROVE  FALSE
  BY <1>3, <1>5 DEF Prepare, PrepareExternal, PrepareLock
<1>6. ASSUME NEW p \in Paths, Recover(p) PROVE FALSE
  BY <1>1, <1>6 DEF Recover
<1>7. ASSUME (\E lock \in locks : Drops(lock)) \/ Crash \/ UNCHANGED allVars PROVE FALSE
  BY <1>3, <1>7 DEF Drops, treeVars, Crash, allVars
<1> QED
  BY <1>2, <1>4, <1>5, <1>6, <1>7 DEF TreeNext

\* What MoveKeepsContent asks of every step.
MoveKept ==
    \A c \in Clients :
       InCall(c) /\ task[c].wish.op = "move" /\ task[c].phase = "drop" =>
          \A q \in Below(task[c].wish.path) :
             objects[q] # None /\ objects'[q] = None =>
                objects[Image(task[c].wish.path, task[c].wish.dst, q)] = objects[q]

\* An object disappears from the source of a MOVE only when its copy is there.
LEMMA MoveStep == TreeInv /\ [TreeNext]_allVars => MoveKept
<1> SUFFICES ASSUME TreeInv, [TreeNext]_allVars, NEW c \in Clients, InCall(c),
                    task[c].wish.op = "move", task[c].phase = "drop",
                    NEW q \in Below(task[c].wish.path), objects[q] # None, objects'[q] = None
             PROVE  objects[Image(task[c].wish.path, task[c].wish.dst, q)] = objects[q]
  BY DEF MoveKept
<1> DEFINE t == task[c]
<1>1. t # None /\ t.at # None /\ req[c].pc = "running"
  BY DEF InCall, At
<1>2. /\ t \in Task /\ t.wish \in Wish /\ t.wish \in Requests /\ Phases(c) /\ CallOK(c) /\ MoveOK(c)
      /\ Registered(c) /\ t.wish.path \in Paths /\ t.wish.by \in {"dav", "fm", "job"}
  BY <1>1, InFlight, WishFields
<1>3. q \in Guarded(c)
  <2>1. t.wish.path \in req[c].keys \/ <<>> \in req[c].keys
    BY <1>1, <1>2 DEF Registered
  <2>2. q \in Paths /\ AtOrBelow(q, t.wish.path) /\ AtOrBelow(q, <<>>)
    BY PathOrder DEF Below
  <2> QED
    BY <2>1, <2>2 DEF Guarded, Under
<1>4. q = Written(c)
  BY <1>3, OwnChange
<1>5. q = t.at /\ t.at \in t.todo
  BY <1>1, <1>2, <1>4 DEF Written, Place, CallOK
<1>6. objects[Target(t, q)] = objects[q]
  BY <1>1, <1>2, <1>5 DEF MoveOK, Moved, HasCopies, Mapped
<1> QED
  BY <1>6 DEF Target

\* Copied, ToDrop, and the jobs that begin again: nothing that a MOVE takes from its
\* source gets lost, whichever of its copies failed, were in doubt or had been made
\* by an earlier attempt.
THEOREM MovedContentStays == TreeSpec => MoveKeepsContent
<1>1. TreeInv /\ [TreeNext]_allVars => MoveKept
  BY MoveStep
<1> QED
  BY <1>1, TreeInvariant, PTL DEF TreeSpec, MoveKeepsContent, MoveKept

\* The paths whose object, or whose membership in their collection, a step changes.
Changed(p) ==
    (IF objects'[p] # objects[p] THEN {p} ELSE {})
    \union IF Exists(p)' # Exists(p) THEN {p, Parent(p)} ELSE {}

\* An object appears: so do, above it, only paths up to a collection that was there.
LEMMA AppearScope ==
    ASSUME NEW W \in Paths, NEW L, Creatable(L, W), Mapped(W)', \A x \in Paths \ {W} : objects'[x] = objects[x],
           NEW p \in Paths
    PROVE  Changed(p) \subseteq L
<1>1. W \in L
  BY DEF Creatable
<1>2. objects'[p] # objects[p] => p \in L
  BY <1>1
<1>3. \A x \in Paths : Mapped(x) => Mapped(x)'
  BY DEF Mapped
<1>4. ASSUME Exists(p)' # Exists(p) PROVE p \in L /\ Parent(p) \in L
  <2>1. AtOrBelow(W, p)
    <3> SUFFICES ASSUME ~AtOrBelow(W, p) PROVE Exists(p)' <=> Exists(p)
      BY <1>4 DEF Exists, Collection
    <3>1. \A x \in Below(p) : objects'[x] = objects[x]
      BY DEF Below
    <3>2. Tree(p)' = Tree(p) /\ p \in Below(p)
      BY <3>1, BelowPaths DEF Tree, Mapped, Below
    <3> QED
      BY <3>1, <3>2 DEF Exists, Collection, Mapped
  <2>2. Exists(p)'
    BY <2>1 DEF Exists, Collection, Tree, Below
  <2>3. ~Exists(p) /\ p # <<>>
    BY <1>4, <2>2 DEF Exists, Collection
  <2>4. \A x \in Paths : AtOrBelow(x, p) => ~Mapped(x)
    BY <2>3 DEF Exists, Collection, Tree, Below
  <2>5. ~Mapped(W) /\ W # <<>>
    BY <2>1, <2>3, <2>4, PathOrder
  <2>6. PICK a \in Ancestors(W) \ {W} : Upward(W, a) \subseteq L /\ Stays(a, {})
    BY <2>5 DEF Creatable, Anchored
  <2>7. a \in Paths /\ AtOrBelow(W, a)
    BY <2>6 DEF Ancestors
  <2>8. ~AtOrBelow(a, p)
    <3> SUFFICES ASSUME AtOrBelow(a, p) PROVE FALSE
      OBVIOUS
    <3>1. a # <<>>
      BY <2>3, <2>7, PathOrder
    <3>2. PICK s \in Below(a) : Mapped(s)
      BY <2>6, <2>7, <3>1, BelowPaths DEF Stays
    <3>3. s \in Paths /\ AtOrBelow(s, p)
      BY <2>7, <3>2, PathOrder DEF Below
    <3> QED
      BY <2>4, <3>2, <3>3
  <2>9. AtOrBelow(p, a) /\ p # a
    BY <2>1, <2>7, <2>8, PathOrder DEF Nested
  <2>10. /\ Parent(p) \in Paths /\ AtOrBelow(p, Parent(p)) /\ AtOrBelow(Parent(p), a)
         /\ AtOrBelow(W, Parent(p))
    <3>1. /\ Parent(p) \in Paths /\ AtOrBelow(p, Parent(p)) /\ AtOrBelow(Parent(p), a)
      BY <2>3, <2>7, <2>9, ParentAbove
    <3> QED
      BY <2>1, <3>1, PathOrder
  <2> QED
    BY <2>1, <2>6, <2>9, <2>10 DEF Upward
<1> QED
  BY <1>2, <1>4 DEF Changed

\* An object goes: with it vanish only collections below one that stays.
LEMMA VanishScope ==
    ASSUME NEW W \in Paths, NEW L, Removable(L, W), ~Mapped(W)', \A x \in Paths \ {W} : objects'[x] = objects[x],
           NEW p \in Paths
    PROVE  Changed(p) \subseteq L
<1>1. PICK root \in Paths :
         /\ AtOrBelow(W, root) /\ Upward(W, root) \subseteq L
         /\ \/ root = <<>>
            \/ \E a \in Ancestors(root) \ {root} :
                  Upward(root, a) \subseteq L /\ (a = <<>> \/ RemainsWithout(a, {W}))
  BY DEF Removable
<1>2. objects'[p] # objects[p] => p \in L
  BY <1>1, BelowPaths
<1>3. \A x \in Paths : (Mapped(x)' <=> Mapped(x) /\ x # W) /\ (x # W => objects'[x] = objects[x])
  BY DEF Mapped
<1>4. ASSUME Exists(p)' # Exists(p) PROVE p \in L /\ Parent(p) \in L
  <2>1. Tree(p)' = Tree(p) \ {W}
    BY <1>3, BelowPaths DEF Tree
  <2>2. p # <<>>
    BY <1>4 DEF Exists, Collection
  <2>3. AtOrBelow(W, p)
    <3> SUFFICES ASSUME ~AtOrBelow(W, p) PROVE Exists(p)' <=> Exists(p)
      BY <1>4 DEF Exists, Collection
    <3>1. W \notin Tree(p) /\ W # p
      BY PathOrder DEF Tree, Below
    <3>2. Tree(p)' = Tree(p) /\ objects'[p] = objects[p]
      BY <1>3, <2>1, <3>1
    <3> QED
      BY <3>2 DEF Exists, Collection, Mapped
  <2>4. ~RemainsWithout(p, {W})
    <3> SUFFICES ASSUME RemainsWithout(p, {W}) PROVE Exists(p)' <=> Exists(p)
      BY <1>4 DEF Exists, Collection
    <3>1. PICK s \in Tree(p) : s # W
      BY DEF RemainsWithout
    <3>2. s \in Tree(p)' /\ (s = p => Mapped(p) /\ Mapped(p)')
      BY <1>3, <2>1, <3>1 DEF Tree
    <3> QED
      BY <3>1, <3>2 DEF Exists, Collection
  <2>5. Nested(p, root)
    BY <1>1, <2>3, PathOrder
  <2>6. CASE AtOrBelow(p, root) /\ p # root
    <3>1. /\ Parent(p) \in Paths /\ AtOrBelow(p, Parent(p)) /\ AtOrBelow(Parent(p), root)
      BY <2>2, <2>6, ParentAbove
    <3>2. AtOrBelow(W, Parent(p))
      BY <2>3, <3>1, PathOrder
    <3> QED
      BY <1>1, <2>3, <2>6, <3>1, <3>2 DEF Upward
  <2>7. CASE AtOrBelow(root, p)
    <3>1. root # <<>>
      BY <2>2, <2>7, PathOrder, BelowPaths
    <3>2. PICK a \in Ancestors(root) \ {root} :
             Upward(root, a) \subseteq L /\ (a = <<>> \/ RemainsWithout(a, {W}))
      BY <1>1, <3>1
    <3>3. a \in Paths /\ AtOrBelow(root, a)
      BY <3>2 DEF Ancestors
    <3>4. ~AtOrBelow(a, p)
      <4> SUFFICES ASSUME AtOrBelow(a, p) PROVE FALSE
        OBVIOUS
      <4>1. a # <<>>
        BY <2>2, <3>3, PathOrder
      <4>2. PICK s \in Tree(a) : s # W
        BY <3>2, <4>1 DEF RemainsWithout
      <4>3. s \in Tree(p)
        BY <3>3, <4>2, PathOrder DEF Tree, Below
      <4> QED
        BY <2>4, <4>2, <4>3 DEF RemainsWithout
    <3>5. AtOrBelow(p, a) /\ p # a
      BY <2>7, <3>3, <3>4, PathOrder DEF Nested
    <3>6. /\ Parent(p) \in Paths /\ AtOrBelow(p, Parent(p)) /\ AtOrBelow(Parent(p), a)
      BY <2>2, <3>3, <3>5, ParentAbove
    <3>7. AtOrBelow(root, Parent(p))
      BY <2>7, <3>6, PathOrder
    <3> QED
      BY <2>7, <3>2, <3>5, <3>6, <3>7 DEF Upward
  <2> QED
    BY <2>5, <2>6, <2>7, PathOrder DEF Nested
<1> QED
  BY <1>2, <1>4 DEF Changed

\* What LocksProtect asks of every step.
Protected ==
    \A c \in Clients :
       (/\ InCall(c) /\ task[c].wish.by = "dav"
        /\ objects'[Written(c)] # objects[Written(c)]) =>
          \A p \in Paths :
             LET changed == (IF objects'[p] # objects[p] THEN {p} ELSE {})
                            \union IF Exists(p)' # Exists(p) THEN {p, Parent(p)} ELSE {}
             IN  \A lock \in locks :
                    (\E q \in changed : Covers(lock, q)) => lock.token \in req[c].tokens

\* What a step changes has been checked by the request that makes it.
LEMMA ProtectStep == TreeInv /\ [TreeNext]_allVars => Protected
<1> SUFFICES ASSUME TreeInv, [TreeNext]_allVars, NEW c \in Clients, InCall(c),
                    task[c].wish.by = "dav", objects'[Written(c)] # objects[Written(c)],
                    NEW p \in Paths, NEW lock \in locks,
                    NEW q \in Changed(p), Covers(lock, q)
             PROVE  lock.token \in req[c].tokens
  BY DEF Protected, Changed
<1> DEFINE t == task[c]
           W == Written(c)
           L == req[c].lockKeys
<1>1. t # None /\ t.at # None /\ req[c].pc = "running" /\ c \in Running
  BY DEF InCall, At, Running
<1>2. /\ t \in Task /\ t.wish \in Requests /\ Phases(c) /\ CallOK(c)
      /\ IInv /\ TreeTypeOK /\ Namespace
  BY <1>1, InFlight DEF TreeInv
<1>3. /\ t.at \in t.todo /\ W \in Guarded(c) /\ pending[W] # None
      /\ pending[W] = Deletion <=> Deletes(t)
      /\ W = Place(t, t.at)
  BY <1>1, <1>2 DEF CallOK, Written
<1>4. W \in Paths /\ Apply(W)
  <2>1. Commit(c) \/ CommitOnly(c)
    BY <1>3, OwnChange
  <2> QED
    BY <1>3, <2>1 DEF Commit, CommitOnly, Guarded, Under
<1>5. t.phase \in Busy
  BY <1>1, <1>2, TaskFields DEF Phases, Busy
<1>6. /\ Deletes(t) => Removable(L, t.at) /\ W = t.at
      /\ ~Deletes(t) => Creatable(L, W)
  <2>1. Deletes(t) => Place(t, t.at) = t.at
    BY DEF Deletes, Place
  <2> QED
    BY <1>1, <1>3, <1>5, <2>1, ScopeOf
<1>7. ASSUME NEW X \in Paths, X = W
      PROVE  /\ \A x \in Paths \ {X} : objects'[x] = objects[x]
             /\ (pending[X] # Deletion => Mapped(X)')
             /\ (pending[X] = Deletion => ~Mapped(X)')
  <2>1. pending[X] # None /\ Apply(X)
    BY <1>3, <1>4, <1>7
  <2> QED
    BY <1>2, <2>1, ApplyFacts
<1>8. Changed(p) \subseteq L
  <2> SUFFICES ASSUME NEW X \in Paths, X = W, NEW K, K = L
               PROVE  Changed(p) \subseteq K
    BY <1>4
  <2>1. \A x \in Paths \ {X} : objects'[x] = objects[x]
    BY <1>7
  <2>2. CASE Deletes(t)
    <3>1. Removable(K, X) /\ ~Mapped(X)'
      BY <1>3, <1>6, <1>7, <2>2
    <3> QED
      BY <2>1, <3>1, VanishScope
  <2>3. CASE ~Deletes(t)
    <3>1. Creatable(K, X) /\ Mapped(X)'
      BY <1>3, <1>6, <1>7, <2>3
    <3> QED
      BY <2>1, <3>1, AppearScope
  <2> QED
    BY <2>2, <2>3
<1>9. q \in L
  BY <1>8
<1> QED
  BY <1>1, <1>2, <1>9 DEF IInv, LocksHonoured, Permitted

\* checkPaths and the second look under the guard: a WebDAV request that changes what a
\* lock covers, or the members of a collection it covers, has shown the lock's token,
\* even if the lock or the collection came into being after the request had looked.
THEOREM LocksProtectTheTree == TreeSpec => LocksProtect
<1>1. TreeInv /\ [TreeNext]_allVars => Protected
  BY ProtectStep
<1> QED
  BY <1>1, TreeInvariant, PTL DEF TreeSpec, LocksProtect, Protected

=============================================================================
