------------------------------- MODULE JobQueue -------------------------------
(***************************************************************************)
(* What callers of the job queue may rely on, whatever leases, attempts,   *)
(* restarts and failing statements do: a resource has one open job at a    *)
(* time, jobs are worked on one at a time, a job ends only by the word of  *)
(* the handler that works on it, and its end is final.                     *)
(***************************************************************************)
EXTENDS Integers, Sequences

CONSTANTS
    Resources,      \* what unique jobs are about
    Unnamed         \* the resource of a job that need not be unique

VARIABLES
    entries,        \* all jobs ever asked for, in order
    working         \* the entry a handler works on, or 0

Entry == [resource : Resources \union {Unnamed}, state : {"open", "succeeded", "failed"}]

Open(j) == entries[j].state = "open"

Init == entries = <<>> /\ working = 0

Ask(r) ==
    /\ r = Unnamed \/ \A j \in DOMAIN entries : entries[j].resource = r => ~Open(j)
    /\ entries' = Append(entries, [resource |-> r, state |-> "open"])
    /\ UNCHANGED working

Start(j) ==
    /\ working = 0 /\ Open(j)
    /\ working' = j
    /\ UNCHANGED entries

\* The handler's word is not kept: it is to be tried again, the process dies, or
\* the row cannot be written.
Drop ==
    /\ working # 0
    /\ working' = 0
    /\ UNCHANGED entries

End(state) ==
    /\ working # 0 /\ Open(working)
    /\ entries' = [entries EXCEPT ![working].state = state]
    /\ working' = 0

Next ==
    \/ \E r \in Resources \union {Unnamed} : Ask(r)
    \/ \E j \in DOMAIN entries : Start(j)
    \/ Drop
    \/ \E state \in {"succeeded", "failed"} : End(state)

Spec == Init /\ [][Next]_<<entries, working>>

=============================================================================
