-------------------------- MODULE ResponsesProtocol --------------------------
(***************************************************************************)
(* What a client of a streamed Responses API answer may rely on: the       *)
(* answer is announced first; an output item is announced before its text, *)
(* it is closed once, with the text that was streamed until then, and      *)
(* every item is closed when the answer is complete; the completed answer  *)
(* repeats all the text that was streamed; an error is the last thing that *)
(* is said.                                                                *)
(*                                                                         *)
(* Two things the converter does are less than a client may expect, and    *)
(* are part of what it promises here: a message may get more text once it  *)
(* is closed (Reopened), which only the completed answer repeats, and the  *)
(* done events of a call without arguments say {}, where the completed     *)
(* answer says nothing (Final).                                            *)
(***************************************************************************)
EXTENDS Naturals

CONSTANTS
    Indices,    \* output indices
    Kinds,      \* of output items
    Lengths,    \* lengths of what is streamed at once, none of them 0
    Parted,     \* the kinds whose text is a content part of the item
    Empty,      \* what the done events of another item say if there was no text
    None

VARIABLES
    response,   \* "none", "created", "in_progress" or "completed"
    items,      \* the output item at each index
    snapshot,   \* the texts that response.completed carries
    failed      \* an error event was sent

vars == <<response, items, snapshot, failed>>

\* text is the length of what was streamed, final what the done events said.
Item == [kind : Kinds, text : Nat, final : Nat \union {Empty, None},
         stage : {"added", "part", "text_done", "part_done", "done"}]

Init ==
    /\ response = "none"
    /\ items = [i \in Indices |-> None]
    /\ snapshot = None
    /\ failed = FALSE

Created ==
    /\ response = "none"
    /\ response' = "created"
    /\ UNCHANGED <<items, snapshot>>

InProgress ==
    /\ response = "created"
    /\ response' = "in_progress"
    /\ UNCHANGED <<items, snapshot>>

ItemAdded(i, kind) ==
    /\ items[i] = None
    /\ items' = [items EXCEPT ![i] = [kind |-> kind, stage |-> "added",
                                      text |-> 0, final |-> None]]

\* The item at index i moves on, once it is there.
Move(i, from, to) ==
    /\ items[i] # None /\ items[i].stage = from
    /\ items' = [items EXCEPT ![i].stage = to]

Ready(i) == IF items[i].kind \in Parted THEN "part" ELSE "added"

PartAdded(i) == Move(i, "added", "part") /\ items[i].kind \in Parted

Delta(i) ==
    /\ items[i] # None /\ items[i].stage = Ready(i)
    /\ \E n \in Lengths : items' = [items EXCEPT ![i].text = @ + n]

\* More text for a message that is closed.
Reopened(i) ==
    /\ items[i] # None /\ items[i].stage = "done" /\ items[i].kind = "message"
    /\ \E n \in Lengths : items' = [items EXCEPT ![i].text = @ + n]

Final(i) ==
    IF items[i].kind \in Parted \/ items[i].text # 0 THEN items[i].text ELSE Empty

TextDone(i) ==
    /\ items[i] # None /\ items[i].stage = Ready(i)
    /\ items' = [items EXCEPT ![i].stage = "text_done", ![i].final = Final(i)]

PartDone(i) == Move(i, "text_done", "part_done") /\ items[i].kind \in Parted

ItemDone(i) ==
    \/ Move(i, "part_done", "done")
    \/ Move(i, "text_done", "done") /\ items[i].kind \notin Parted

Output(i) ==
    /\ response = "in_progress"
    /\ \/ \E kind \in Kinds : ItemAdded(i, kind)
       \/ PartAdded(i) \/ Delta(i) \/ Reopened(i)
       \/ TextDone(i) \/ PartDone(i) \/ ItemDone(i)
    /\ UNCHANGED <<response, snapshot>>

Sent == {i \in Indices : items[i] # None}

Completed ==
    /\ response = "in_progress"
    /\ \A i \in Sent : items[i].stage = "done"
    /\ response' = "completed"
    /\ snapshot' = [i \in Sent |-> items[i].text]
    /\ UNCHANGED items

Next ==
    /\ ~failed
    /\ \/ (Created \/ InProgress \/ Completed \/ \E i \in Indices : Output(i))
             /\ UNCHANGED failed
       \/ failed' = TRUE /\ UNCHANGED <<response, items, snapshot>>

Spec == Init /\ [][Next]_vars
=============================================================================
