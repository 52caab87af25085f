----------------------------- MODULE WebDAVLocks -----------------------------
(***************************************************************************)
(* The WebDAV lock store (internal/protocol/webdav/locks.go) and the       *)
(* requests that use it: LOCK, UNLOCK, the guarded mutations of the WebDAV *)
(* handler, and the mutations of the file manager and of jobs, which enter *)
(* through the same guard but know no lock tokens.                         *)
(*                                                                         *)
(* The store's mutex is held from the entry of a call to its return,       *)
(* except while the call waits for the channel that Release closes, so a   *)
(* call is a sequence of steps, each of which returns or parks.  Locks are *)
(* rows and survive a restart; mutations in flight and waiters do not.     *)
(* Every query filters on the expiry, so an expired lock is one that is    *)
(* not there; a refresh only postpones an expiry, which is a free choice   *)
(* here.  Keys that differ in a trailing slash are the same path.          *)
(***************************************************************************)
EXTENDS Integers, FiniteSets

CONSTANTS
    Paths,          \* lock keys, one per path of the tree
    Parents,        \* the pairs <<p, q>> in which q is p or an ancestor of p
    Clients,        \* concurrent requests
    None,
    MaxLocks,       \* bound on the locks granted
    MaxRequests     \* bound on the requests begun

Depths == {"zero", "infinity"}
Tokens == Nat \ {0}
NoToken == 0

ASSUME LocksAssumption ==
    /\ Parents \subseteq Paths \X Paths
    /\ \A p \in Paths : <<p, p>> \in Parents
    /\ \A p, q, r \in Paths : <<p, q>> \in Parents /\ <<q, r>> \in Parents => <<p, r>> \in Parents
    /\ MaxLocks \in Nat /\ MaxRequests \in Nat

Lock == [token : Tokens, root : Paths, depth : Depths]

\* A request inside the store or between two of its calls.  A LOCK creates its
\* lock and then runs a guarded mutation of its own; own is that lock.
Request == [op : {"lock", "mutate"}, pc : {"create", "guard", "running"},
            parked : BOOLEAN, root : Paths, depth : Depths,
            lockKeys : SUBSET Paths, keys : SUBSET Paths,
            tokens : SUBSET Tokens, own : Nat]

ASSUME NoneAssumption == None \notin Request

VARIABLES
    locks,      \* webdav_locks: the locks that have not expired
    req,        \* what each client is doing; activeMutations are the running ones
    issued,     \* the tokens drawn so far (UUIDs)
    begun       \* requests begun so far

vars == <<locks, req, issued, begun>>

TypeOK ==
    /\ locks \subseteq Lock
    /\ req \in [Clients -> Request \union {None}]
    /\ issued \in Nat /\ begun \in Nat

-----------------------------------------------------------------------------
(* Paths and locks.                                                        *)

AtOrBelow(p, root) == <<p, root>> \in Parents

Covers(lock, p) ==
    \/ lock.root = p
    \/ lock.depth = "infinity" /\ AtOrBelow(p, lock.root)

\* Mutant: a lock is refused inside the scope of another, not around one.
ConflictsBelowOnly(old, new) == Covers(old, new.root)

Conflicts(old, new) == Covers(old, new.root) \/ Covers(new, old.root)

Running == {c \in Clients : req[c] # None /\ req[c].pc = "running"}

\* Mutant: a lock waits only for mutations inside its scope.
MutationOverlapsScope(root, depth) ==
    \E c \in Running : \E k \in req[c].keys : Covers([root |-> root, depth |-> depth], k)

\* mutationOverlaps: a mutation in flight touches the scope of the new lock, or
\* the lock is rooted below what it changes.
MutationOverlaps(root, depth) ==
    \E c \in Running : \E k \in req[c].keys :
        Covers([root |-> root, depth |-> depth], k) \/ AtOrBelow(root, k)

\* Mutant: two mutations overlap when the second lies in the tree of the first.
PathsOverlapBelow(keys) ==
    \E c \in Running : \E k \in req[c].keys, j \in keys : AtOrBelow(j, k)

MutationPathsOverlap(keys) ==
    \E c \in Running : \E k \in req[c].keys, j \in keys :
        AtOrBelow(k, j) \/ AtOrBelow(j, k)

\* Mutant: a lock on a collection does not reach what is below it.
PermittedAtRoot(keys, tokens) ==
    \A lock \in locks : lock.root \in keys => lock.token \in tokens

\* checkPaths
Permitted(keys, tokens) ==
    \A lock \in locks : (\E k \in keys : Covers(lock, k)) => lock.token \in tokens

-----------------------------------------------------------------------------
(* Which paths a mutation registers.                                       *)

\* A key and its ancestors up to top, the first that goes on existing.
Upward(key, top) == {p \in Paths : AtOrBelow(key, p) /\ AtOrBelow(p, top)}

Below(key) == {p \in Paths : AtOrBelow(p, key)}

-----------------------------------------------------------------------------
Init ==
    /\ locks = {}
    /\ req = [c \in Clients |-> None]
    /\ issued = 0
    /\ begun = 0

Begin(c, request) ==
    /\ req[c] = None /\ begun < MaxRequests
    /\ req' = [req EXCEPT ![c] = request]
    /\ begun' = begun + 1
    /\ UNCHANGED <<locks, issued>>

Creating == {c \in Clients : req[c] # None /\ req[c].pc = "create"}

\* handler.lock, up to LockStore.Create.
BeginLock(c, root, depth) ==
    /\ issued + Cardinality(Creating) < MaxLocks
    /\ Begin(c, [op |-> "lock", pc |-> "create", parked |-> FALSE, root |-> root,
                 depth |-> depth, lockKeys |-> {}, keys |-> {}, tokens |-> {},
                 own |-> NoToken])

\* put, mkcol, remove, copyMove: the paths computed before the guard is taken.
\* inside are the objects of a tree, also the resources an If header names, of
\* which only the former are checked for locks.
BeginMutation(c, key, top, inside, named, tokens) ==
    LET lockKeys == Upward(key, top) \union inside
    IN  Begin(c, [op |-> "mutate", pc |-> "guard", parked |-> FALSE, root |-> key,
                  depth |-> "zero", lockKeys |-> lockKeys,
                  keys |-> lockKeys \union named, tokens |-> tokens,
                  own |-> NoToken])

\* GuardExternalPaths: the service, the file manager and jobs check no lock.
BeginExternal(c, key, top) ==
    Begin(c, [op |-> "mutate", pc |-> "guard", parked |-> FALSE, root |-> key,
              depth |-> "zero", lockKeys |-> {}, keys |-> Upward(key, top),
              tokens |-> {}, own |-> NoToken])

-----------------------------------------------------------------------------
(* Inside the store.                                                       *)

At(c, pc) == req[c] # None /\ req[c].pc = pc /\ ~req[c].parked

Finish(c) == req' = [req EXCEPT ![c] = None]

Park(c) ==
    /\ req' = [req EXCEPT ![c].parked = TRUE]
    /\ UNCHANGED <<locks, issued, begun>>

NewLock(c) == [token |-> issued + 1, root |-> req[c].root, depth |-> req[c].depth]

\* Create, one turn of its waiting loop.
CreateWaits(c) ==
    /\ At(c, "create")
    /\ MutationOverlaps(req[c].root, req[c].depth)
    /\ Park(c)

\* ErrLocked, or the database fails.
CreateRefused(c) ==
    /\ At(c, "create")
    /\ ~MutationOverlaps(req[c].root, req[c].depth)
    /\ Finish(c)
    /\ UNCHANGED <<locks, issued, begun>>

\* The lock is stored; the handler looks at the resource again and goes on to
\* guard the paths it would create, with its own token among those it shows.
Create(c, top) ==
    /\ At(c, "create")
    /\ ~MutationOverlaps(req[c].root, req[c].depth)
    /\ ~ \E old \in locks : Conflicts(old, NewLock(c))
    /\ AtOrBelow(req[c].root, top)
    /\ locks' = locks \union {NewLock(c)}
    /\ issued' = issued + 1
    /\ req' = [req EXCEPT ![c].pc = "guard", ![c].own = issued + 1,
                          ![c].tokens = @ \union {issued + 1},
                          ![c].lockKeys = Upward(req[c].root, top),
                          ![c].keys = Upward(req[c].root, top)]
    /\ UNCHANGED begun

GuardWaits(c) ==
    /\ At(c, "guard")
    /\ MutationPathsOverlap(req[c].keys)
    /\ Park(c)

Guard(c) ==
    /\ At(c, "guard")
    /\ ~MutationPathsOverlap(req[c].keys)
    /\ Permitted(req[c].lockKeys, req[c].tokens)
    /\ req' = [req EXCEPT ![c].pc = "running"]
    /\ UNCHANGED <<locks, issued, begun>>

\* ErrLocked, a failed query, or preconditions that no longer hold.  A LOCK takes
\* its lock back, and may fail before it gets as far as the guard; a lock whose
\* client has hung up stays, for the deletion uses the cancelled context.
GuardRefused(c) ==
    /\ At(c, "guard")
    /\ req[c].own # NoToken \/ ~MutationPathsOverlap(req[c].keys)
    /\ Finish(c)
    /\ locks' \in {locks, {lock \in locks : lock.token # req[c].own}}
    /\ UNCHANGED <<issued, begun>>

\* The client hangs up while its request waits; a lock it has made by then stays
\* until it expires.
Cancel(c) ==
    /\ req[c] # None /\ req[c].parked
    /\ Finish(c)
    /\ UNCHANGED <<locks, issued, begun>>

\* What a running mutation may do to locks: DELETE, MOVE and an overwriting COPY
\* remove the locks of what is gone, a failing LOCK its own.
RemoveLocks(c, gone) ==
    /\ At(c, "running")
    /\ gone \subseteq {lock \in locks : \/ \E k \in req[c].keys : AtOrBelow(lock.root, k)
                                        \/ lock.token = req[c].own}
    /\ gone # {}
    /\ locks' = locks \ gone
    /\ UNCHANGED <<req, issued, begun>>

\* Mutant: the channel is replaced, but not closed.
ReleaseSilently(c) ==
    /\ At(c, "running")
    /\ req' = [req EXCEPT ![c] = None]
    /\ UNCHANGED <<locks, issued, begun>>

\* The guard is dropped and the channel closed: every waiter takes another turn.
Release(c) ==
    /\ At(c, "running")
    /\ req' = [d \in Clients |-> IF d = c \/ req[d] = None THEN None
                                 ELSE [req[d] EXCEPT !.parked = FALSE]]
    /\ UNCHANGED <<locks, issued, begun>>

\* UNLOCK: TokenCovers, then Delete.
Unlock(lock) ==
    /\ lock \in locks
    /\ locks' = locks \ {lock}
    /\ UNCHANGED <<req, issued, begun>>

\* The TTL of a lock, at most an hour, passes.
Expire(lock) ==
    /\ lock \in locks
    /\ locks' = locks \ {lock}
    /\ UNCHANGED <<req, issued, begun>>

Restart ==
    /\ req # [c \in Clients |-> None]
    /\ req' = [c \in Clients |-> None]
    /\ UNCHANGED <<locks, issued, begun>>

Arrive(c) ==
    \/ \E root \in Paths, depth \in Depths : BeginLock(c, root, depth)
    \/ \E key, top \in Paths, tokens \in SUBSET (1..issued) :
          /\ AtOrBelow(key, top)
          /\ \E inside \in {{}, Below(key)}, named \in {{}} \union {{p} : p \in Paths} :
                BeginMutation(c, key, top, inside, named, tokens)
    \/ \E key, top \in Paths : AtOrBelow(key, top) /\ BeginExternal(c, key, top)

Step(c) ==
    \/ CreateWaits(c) \/ CreateRefused(c) \/ (\E top \in Paths : Create(c, top))
    \/ GuardWaits(c) \/ Guard(c) \/ GuardRefused(c)
    \/ Release(c)

Next ==
    \/ \E c \in Clients : Arrive(c) \/ Step(c) \/ Cancel(c)
    \/ \E c \in Clients, gone \in SUBSET locks : RemoveLocks(c, gone)
    \/ \E lock \in locks : Unlock(lock) \/ Expire(lock)
    \/ Restart

Spec == Init /\ [][Next]_vars

-----------------------------------------------------------------------------
(* Safety.                                                                 *)

\* Exclusive locks: the root of a lock never lies in the scope of another, in
\* whatever order locks are requested, expire, survive a restart or are removed
\* by mutations.
LocksDisjoint ==
    \A lock, other \in locks : lock # other => ~Covers(lock, other.root)

\* Mutations in flight never touch each other's trees, so that a tree walked by
\* one is not changed by another.
MutationsDisjoint ==
    \A c, d \in Running : c # d =>
        \A k \in req[c].keys, j \in req[d].keys : ~AtOrBelow(k, j)

\* A lock check stays true as long as its mutation runs: every lock that covers
\* a path the mutation checked is one whose token it showed, even when the lock
\* was requested after the check.
LocksHonoured ==
    \A c \in Running : Permitted(req[c].lockKeys, req[c].tokens)

\* No lock appears on what a mutation in flight is changing, or below it.
NoLockOnRunning ==
    [][\A lock \in locks' \ locks, c \in Running :
         \A k \in req[c].keys : ~Covers(lock, k) /\ ~AtOrBelow(lock.root, k)]_vars

-----------------------------------------------------------------------------
(* Liveness: handlers run, and a mutation in flight ends.                  *)

Fairness == \A c \in Clients : WF_vars(Step(c))

FairSpec == Spec /\ Fairness

\* Every request is answered: a waiter is woken by the release it waits for, and
\* requests never wait for each other in a circle.
RequestsEnd == \A c \in Clients : req[c] # None ~> req[c] = None

=============================================================================
