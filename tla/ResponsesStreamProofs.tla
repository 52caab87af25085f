------------------------ MODULE ResponsesStreamProofs ------------------------
(***************************************************************************)
(* The translated stream of ResponsesStream tells the truth about its end, *)
(* whatever the upstream sends, and is a stream of ResponsesProtocol as    *)
(* long as nothing but finish reasons follows the finish reason, for any   *)
(* number of chunks and tool calls.                                        *)
(*                                                                         *)
(* The converter runs ahead of the client by the frames that are queued.   *)
(* The invariant follows these frames from what the client knows now to    *)
(* what it will know once they are written (Path): each of them is allowed *)
(* where it comes (Allowed), and what the client will know in the end is   *)
(* what the converter thinks that it has said (Agrees).                    *)
(***************************************************************************)
EXTENDS ResponsesStream, SumTheorems, SequenceTheorems

Parted == {"message", "reasoning"}

Snapshots == UNION {[S -> Nat] : S \in SUBSET Indices}

\* What a client may know.
View == [response : {"none", "created", "in_progress", "completed"},
         items : [Indices -> Item \union {None}],
         snapshot : Snapshots \union {None}, failed : BOOLEAN]

\* The texts of done events.
Finals == Nat \union {EmptyObject}

\* The frames.
Events == {"created", "in_progress", "item_added", "part_added", "delta",
           "text_done", "part_done", "item_done"}
PlainFrames == [event : Events, index : Nat, kind : Kinds \union {None}, text : Finals]
Summaries == UNION {[S -> Nat] : S \in SUBSET Nat}
Frames == PlainFrames
          \union [event : {"completed"}, outputs : Summaries]
          \union [event : {"error"}]

Shown(u) == {i \in Indices : u.items[i] # None}

\* A frame about an item that a client with the view u may get.
ItemAllowed(u, f) ==
    LET o == u.items[f.index]
        ready == IF o.kind \in Parted THEN "part" ELSE "added"
    IN  /\ f.index \in Indices
        /\ \/ f.event = "item_added" /\ o = None /\ f.kind \in Kinds
           \/ f.event = "part_added" /\ o # None /\ o.stage = "added" /\ o.kind \in Parted
           \/ /\ f.event = "delta" /\ o # None /\ f.text \in 1..MaxChunks
              /\ o.stage = ready \/ (o.stage = "done" /\ o.kind = "message")
           \/ /\ f.event = "text_done" /\ o # None /\ o.stage = ready
              /\ f.text = (IF o.kind \in Parted THEN o.text ELSE Arguments(o.text))
           \/ /\ f.event = "part_done" /\ o # None
              /\ o.stage = "text_done" /\ o.kind \in Parted /\ f.text = o.final
           \/ /\ f.event = "item_done" /\ o # None /\ f.text = o.final
              /\ o.stage = (IF o.kind \in Parted THEN "part_done" ELSE "text_done")

Allowed(u, f) ==
    /\ ~u.failed
    /\ \/ f.event = "error"
       \/ f.event = "created" /\ u.response = "none"
       \/ f.event = "in_progress" /\ u.response = "created"
       \/ u.response = "in_progress" /\ ItemAllowed(u, f)
       \/ /\ f.event = "completed" /\ u.response = "in_progress"
          /\ \A i \in Shown(u) : u.items[i].stage = "done"
          /\ f.outputs = [i \in Shown(u) |-> u.items[i].text]

\* The frames of out lead from the view u to the view w; that the answer is
\* complete is not taken back.
Path(u, out, w) ==
    /\ out \in Seq(Frames)
    /\ \E v \in [0..Len(out) -> View] :
          /\ v[0] = u /\ v[Len(out)] = w
          /\ \A k \in 1..Len(out) : Allowed(v[k - 1], out[k]) /\ v[k] = Told(v[k - 1], out[k])
          /\ \A k \in 0..Len(out) : v[k].response = "completed" => w.response = "completed"

-----------------------------------------------------------------------------
(* What a frame does to a view.                                            *)

\* A view with another item at index i.
Put(w, i, o) == [w EXCEPT !.items[i] = o]

LEMMA PutFacts ==
    ASSUME NEW w \in View, NEW i \in Indices, NEW o \in Item
    PROVE  /\ Put(w, i, o) \in View
           /\ Put(w, i, o).response = w.response /\ Put(w, i, o).failed = w.failed
           /\ Put(w, i, o).items[i] = o
           /\ \A j \in Indices : j # i => Put(w, i, o).items[j] = w.items[j]
BY DEF Put, View

LEMMA ItemNotNone == \A o \in Item : o # None
BY NoneAssumption

\* An item stays one when its stage or its text moves on.
LEMMA ItemMoves ==
    ASSUME NEW o \in Item
    PROVE  /\ [o EXCEPT !.stage = "part"] \in Item
           /\ \A n \in Nat : [o EXCEPT !.text = @ + n] \in Item
           /\ \A n \in Finals : /\ [o EXCEPT !.stage = "text_done", !.final = n] \in Item
                               /\ [o EXCEPT !.stage = "part_done", !.final = n] \in Item
                               /\ [o EXCEPT !.stage = "done", !.final = n] \in Item
<1>1. \A n \in Nat : o.text + n \in Nat
  BY DEF Item
<1>2. [o EXCEPT !.stage = "part"] \in Item
  BY DEF Item
<1>3. \A n \in Nat : [o EXCEPT !.text = @ + n] \in Item
  BY <1>1 DEF Item
<1>4. \A n \in Finals : \A e \in {"text_done", "part_done", "done"} :
        [o EXCEPT !.stage = e, !.final = n] \in Item
  BY DEF Item, Finals
<1> QED
  BY <1>2, <1>3, <1>4

LEMMA FinalsNat == Nat \subseteq Finals /\ \A n \in Nat : Arguments(n) \in Finals
BY DEF Finals, Arguments

\* What the frames about an item do to it.
LEMMA ItemTold ==
    ASSUME NEW u \in View, NEW f \in Frames, f.index \in Indices,
           f.event \notin {"error", "completed", "created", "in_progress"}
    PROVE  LET i == f.index
               o == u.items[i]
           IN  /\ f.event = "item_added" =>
                    Told(u, f) = Put(u, i, [kind |-> f.kind, stage |-> "added",
                                            text |-> 0, final |-> None])
               /\ f.event = "part_added" => Told(u, f) = Put(u, i, [o EXCEPT !.stage = "part"])
               /\ f.event = "delta" => Told(u, f) = Put(u, i, [o EXCEPT !.text = @ + f.text])
               /\ f.event \in {"text_done", "part_done"} =>
                    Told(u, f) = Put(u, i, [o EXCEPT !.stage = f.event, !.final = f.text])
               /\ f.event = "item_done" =>
                    Told(u, f) = Put(u, i, [o EXCEPT !.stage = "done", !.final = f.text])
<1> DEFINE i == f.index
           o == u.items[i]
<1>1. CASE f.event = "item_added"
  BY <1>1 DEF Told, Put, View
<1>2. CASE f.event = "part_added"
  BY <1>2 DEF Told, Put, View
<1>3. CASE f.event = "delta"
  BY <1>3 DEF Told, Put, View
<1>4. CASE f.event \in {"text_done", "part_done"}
  BY <1>4 DEF Told, Put, View
<1>5. CASE f.event = "item_done"
  BY <1>5 DEF Told, Put, View
<1> QED
  BY <1>1, <1>2, <1>3, <1>4, <1>5

\* Every allowed frame leads to a view again.
LEMMA ToldView ==
    ASSUME NEW u \in View, NEW f \in Frames, Allowed(u, f)
    PROVE  /\ Told(u, f) \in View
           /\ u.response = "completed" => Told(u, f).response = "completed"
<1>1. CASE f.event = "error"
  BY <1>1 DEF Told, View
<1>2. CASE f.event \in {"created", "in_progress"}
  BY <1>2 DEF Told, View, Allowed, ItemAllowed
<1>3. CASE f.event = "completed"
  <2>1. f.outputs \in [Shown(u) -> Nat]
    BY <1>3, ItemNotNone DEF Allowed, ItemAllowed, View, Shown, Item
  <2>2. f.outputs \in Snapshots
    BY <2>1 DEF Snapshots, Shown
  <2> QED
    BY <1>3, <2>2 DEF Told, View
<1>4. CASE u.response = "in_progress" /\ ItemAllowed(u, f)
  <2> DEFINE i == f.index
             o == u.items[i]
  <2>1. i \in Indices /\ f.event \notin {"error", "completed", "created", "in_progress"}
    BY <1>4 DEF ItemAllowed
  <2>2. o \in Item \union {None} /\ f.text \in Finals
    BY <2>1 DEF View, Frames, PlainFrames
  <2>3. \A x \in Item : /\ Put(u, i, x) \in View
                        /\ u.response = "completed" => Put(u, i, x).response = "completed"
    BY <2>1, PutFacts
  <2>4. CASE f.event = "item_added"
    <3>1. [kind |-> f.kind, stage |-> "added", text |-> 0, final |-> None] \in Item
      BY <1>4, <2>4 DEF ItemAllowed, Item
    <3> QED
      BY <2>1, <2>3, <2>4, <3>1, ItemTold
  <2>5. CASE f.event # "item_added"
    <3>1. o \in Item
      BY <1>4, <2>1, <2>2, <2>5 DEF ItemAllowed
    <3>2. /\ [o EXCEPT !.stage = "part"] \in Item
          /\ f.text \in Nat => [o EXCEPT !.text = @ + f.text] \in Item
          /\ f.event \in {"text_done", "part_done"} =>
                [o EXCEPT !.stage = f.event, !.final = f.text] \in Item
          /\ [o EXCEPT !.stage = "done", !.final = f.text] \in Item
      BY <2>2, <3>1, ItemMoves
    <3>3. /\ f.event \in {"part_added", "delta", "text_done", "part_done", "item_done"}
          /\ f.event = "delta" => f.text \in Nat
      BY <1>4, <2>5, StreamAssumption DEF ItemAllowed
    <3> QED
      BY <2>1, <2>3, <3>2, <3>3, ItemTold
  <2> QED
    BY <2>4, <2>5
<1> QED
  BY <1>1, <1>2, <1>3, <1>4 DEF Allowed

-----------------------------------------------------------------------------
(* Paths.                                                                  *)

LEMMA PathEmpty == ASSUME NEW u \in View PROVE Path(u, <<>>, u)
<1> DEFINE v == [k \in 0..0 |-> u]
<1>1. v \in [0..Len(<<>>) -> View] /\ v[0] = u /\ v[Len(<<>>)] = u
  OBVIOUS
<1>2. \A k \in 1..Len(<<>>) : FALSE
  OBVIOUS
<1>3. <<>> \in Seq(Frames)
  OBVIOUS
<1> QED
  BY <1>1, <1>2, <1>3 DEF Path

\* A path ends in a view, and one without frames does not move.
LEMMA PathEnds ==
    ASSUME NEW u, NEW out, NEW w, Path(u, out, w)
    PROVE  u \in View /\ w \in View /\ out \in Seq(Frames) /\ (out = <<>> => u = w)
           /\ (u.response = "completed" => w.response = "completed")
<1>1. out \in Seq(Frames) /\ Len(out) \in Nat
  BY DEF Path
<1>2. PICK v \in [0..Len(out) -> View] :
          /\ v[0] = u /\ v[Len(out)] = w
          /\ \A k \in 0..Len(out) : v[k].response = "completed" => w.response = "completed"
  BY DEF Path
<1>3. 0 \in 0..Len(out) /\ Len(out) \in 0..Len(out)
  BY <1>1
<1> QED
  BY <1>1, <1>2, <1>3

\* One more frame.
LEMMA PathAppend ==
    ASSUME NEW u, NEW out, NEW w, NEW f \in Frames, Path(u, out, w), Allowed(w, f)
    PROVE  Path(u, Append(out, f), Told(w, f))
<1> DEFINE n == Len(out)
           x == Told(w, f)
<1>1. out \in Seq(Frames) /\ n \in Nat
  BY DEF Path
<1>2. PICK v \in [0..n -> View] :
          /\ v[0] = u /\ v[n] = w
          /\ \A k \in 1..n : Allowed(v[k - 1], out[k]) /\ v[k] = Told(v[k - 1], out[k])
          /\ \A k \in 0..n : v[k].response = "completed" => w.response = "completed"
  BY DEF Path
<1>3. w \in View /\ x \in View /\ (w.response = "completed" => x.response = "completed")
  BY PathEnds, ToldView
<1> DEFINE y == [k \in 0..(n + 1) |-> IF k <= n THEN v[k] ELSE x]
           more == Append(out, f)
<1>4. more \in Seq(Frames) /\ Len(more) = n + 1
  BY <1>1
<1>5. /\ \A k \in 1..n : more[k] = out[k]
      /\ more[n + 1] = f
  BY <1>1
<1> HIDE DEF x, more
<1>6. y \in [0..(n + 1) -> View] /\ y[0] = u /\ y[n + 1] = x
  BY <1>1, <1>2, <1>3
<1>7. \A k \in 0..n : y[k] = v[k]
  BY <1>1
<1>8. ASSUME NEW k \in 1..(n + 1)
      PROVE  Allowed(y[k - 1], more[k]) /\ y[k] = Told(y[k - 1], more[k])
  <2>1. CASE k <= n
    <3>1. k \in 1..n /\ k \in 0..n /\ k - 1 \in 0..n
      BY <1>1, <2>1
    <3>2. y[k] = v[k] /\ y[k - 1] = v[k - 1] /\ more[k] = out[k]
      BY <1>5, <1>7, <3>1
    <3> QED
      BY <1>2, <3>1, <3>2
  <2>2. CASE k = n + 1
    <3>1. n \in 0..n /\ k - 1 = n
      BY <1>1, <2>2
    <3>2. y[k - 1] = w /\ more[k] = f /\ y[k] = x
      BY <1>2, <1>5, <1>6, <1>7, <2>2, <3>1
    <3> QED
      BY <3>2 DEF x
  <2> QED
    BY <1>1, <2>1, <2>2
<1>9. ASSUME NEW k \in 0..(n + 1), y[k].response = "completed"
      PROVE  x.response = "completed"
  <2>1. k = n + 1 \/ k \in 0..n
    BY <1>1
  <2> QED
    BY <1>2, <1>3, <1>6, <1>7, <1>9, <2>1
<1> HIDE DEF y
<1>10. Path(u, more, x)
  BY <1>4, <1>6, <1>8, <1>9 DEF Path
<1> QED
  BY <1>10 DEF more, x

\* The first frame is allowed now, and the rest goes on from there.
LEMMA PathHead ==
    ASSUME NEW u, NEW out, NEW w, Path(u, out, w), out # <<>>
    PROVE  /\ Head(out) \in Frames /\ Allowed(u, Head(out))
           /\ Path(Told(u, Head(out)), Tail(out), w)
<1> DEFINE n == Len(out)
           rest == Tail(out)
           first == Head(out)
<1>1. out \in Seq(Frames) /\ n \in Nat /\ n > 0
  BY DEF Path
<1>2. PICK v \in [0..n -> View] :
          /\ v[0] = u /\ v[n] = w
          /\ \A k \in 1..n : Allowed(v[k - 1], out[k]) /\ v[k] = Told(v[k - 1], out[k])
          /\ \A k \in 0..n : v[k].response = "completed" => w.response = "completed"
  BY DEF Path
<1>3. first = out[1] /\ first \in Frames
  BY <1>1
<1>4. rest \in Seq(Frames) /\ Len(rest) = n - 1 /\ \A k \in 1..(n - 1) : rest[k] = out[k + 1]
  BY <1>1
<1> DEFINE y == [k \in 0..(n - 1) |-> v[k + 1]]
<1>5. 1 \in 1..n /\ 1 - 1 = 0
  BY <1>1
<1>6. Allowed(u, first) /\ v[1] = Told(u, first)
  BY <1>2, <1>3, <1>5
<1> HIDE DEF rest, first
<1>7. y \in [0..(n - 1) -> View] /\ y[0] = v[1] /\ y[n - 1] = w
  BY <1>1, <1>2
<1>8. ASSUME NEW k \in 1..(n - 1)
      PROVE  Allowed(y[k - 1], rest[k]) /\ y[k] = Told(y[k - 1], rest[k])
  <2>1. k + 1 \in 1..n /\ (k + 1) - 1 = k /\ (k - 1) + 1 = k /\ k - 1 \in 0..(n - 1) /\ k \in 0..(n - 1)
    BY <1>1
  <2>2. y[k - 1] = v[k] /\ y[k] = v[k + 1]
    BY <2>1
  <2> QED
    BY <1>2, <1>4, <2>1, <2>2
<1>9. \A k \in 0..(n - 1) : y[k].response = "completed" => w.response = "completed"
  BY <1>1, <1>2
<1> HIDE DEF y
<1>10. Path(v[1], rest, w)
  BY <1>4, <1>7, <1>8, <1>9 DEF Path
<1> QED
  BY <1>3, <1>6, <1>10 DEF rest, first

-----------------------------------------------------------------------------
(* The groups of frames that the converter emits.                          *)

LEMMA IndicesNat == Cardinality(Tools) \in Nat /\ Indices \subseteq Nat
<1>1. Cardinality(Tools) \in Nat
  BY StreamAssumption, FS_CardinalityType
<1> QED
  BY <1>1 DEF Indices

LEMMA PutTwice ==
    ASSUME NEW w \in View, NEW i, NEW a, NEW b
    PROVE  Put(Put(w, i, a), i, b) = Put(w, i, b)
BY DEF Put, View

LEMMA FrameTyped ==
    ASSUME NEW event \in Events, NEW i \in Indices, NEW kind \in Kinds \union {None}, NEW n \in Finals
    PROVE  /\ Frame(event, i, kind, n) \in Frames
           /\ Frame(event, i, kind, n).event = event /\ Frame(event, i, kind, n).index = i
           /\ Frame(event, i, kind, n).kind = kind /\ Frame(event, i, kind, n).text = n
<1>1. i \in Nat
  BY IndicesNat
<1> QED
  BY <1>1 DEF Frame, Frames, PlainFrames

LEMMA FinalFrames ==
    ASSUME NEW i \in Indices, NEW n \in Finals, NEW event \in {"text_done", "part_done", "item_done"}
    PROVE  LET f == Frame(event, i, None, n)
           IN  f \in Frames /\ f.event = event /\ f.index = i /\ f.text = n
BY FrameTyped DEF Events

\* What the frames that finish an item do to it.
LEMMA FinalTold ==
    ASSUME NEW u \in View, NEW f \in Frames, NEW i \in Indices, NEW n,
           f.index = i, f.text = n
    PROVE  /\ f.event = "text_done" =>
                Told(u, f) = Put(u, i, [u.items[i] EXCEPT !.stage = "text_done", !.final = n])
           /\ f.event = "part_done" =>
                Told(u, f) = Put(u, i, [u.items[i] EXCEPT !.stage = "part_done", !.final = n])
           /\ f.event = "item_done" =>
                Told(u, f) = Put(u, i, [u.items[i] EXCEPT !.stage = "done", !.final = n])
<1>1. CASE f.event = "text_done"
  BY <1>1, ItemTold
<1>2. CASE f.event = "part_done"
  BY <1>2, ItemTold
<1>3. CASE f.event = "item_done"
  BY <1>3, ItemTold
<1> QED
  BY <1>1, <1>2, <1>3

LEMMA Concatenated ==
    ASSUME NEW out \in Seq(Frames), NEW a \in Frames, NEW b \in Frames, NEW c \in Frames
    PROVE  /\ out \o <<a>> = Append(out, a)
           /\ out \o <<a, b>> = Append(Append(out, a), b)
           /\ out \o <<a, b, c>> = Append(Append(Append(out, a), b), c)
OBVIOUS

\* An item frame that is allowed carries a path on.
LEMMA PathItem ==
    ASSUME NEW u, NEW out, NEW w, Path(u, out, w), w.response = "in_progress", ~w.failed,
           NEW f \in Frames, ItemAllowed(w, f)
    PROVE  Path(u, Append(out, f), Told(w, f))
BY PathAppend DEF Allowed

LEMMA PathAdded ==
    ASSUME NEW u, NEW out, NEW w, Path(u, out, w), w.response = "in_progress", ~w.failed,
           NEW i \in Indices, NEW kind \in Kinds, w.items[i] = None
    PROVE  Path(u, Append(out, Frame("item_added", i, kind, 0)),
                Put(w, i, [kind |-> kind, stage |-> "added", text |-> 0, final |-> None]))
<1> DEFINE f == Frame("item_added", i, kind, 0)
<1>1. f \in Frames /\ f.event = "item_added" /\ f.index = i /\ f.kind = kind
  BY FrameTyped, FinalsNat DEF Events
<1> HIDE DEF f
<1>2. ItemAllowed(w, f)
  BY <1>1 DEF ItemAllowed
<1>3. Told(w, f) = Put(w, i, [kind |-> kind, stage |-> "added", text |-> 0, final |-> None])
  <2>1. w \in View
    BY PathEnds
  <2> QED
    BY <1>1, <2>1, ItemTold
<1> QED
  BY <1>1, <1>2, <1>3, PathItem DEF f

LEMMA PathDelta ==
    ASSUME NEW u, NEW out, NEW w, Path(u, out, w), w.response = "in_progress", ~w.failed,
           NEW i \in Indices, w.items[i] # None,
           \/ w.items[i].stage = (IF w.items[i].kind \in Parted THEN "part" ELSE "added")
           \/ w.items[i].stage = "done" /\ w.items[i].kind = "message",
           NEW n \in 1..MaxChunks
    PROVE  Path(u, out \o <<Frame("delta", i, None, n)>>,
                Put(w, i, [w.items[i] EXCEPT !.text = @ + n]))
<1> DEFINE f == Frame("delta", i, None, n)
<1>0. n \in Nat /\ n \in Finals
  BY StreamAssumption, FinalsNat
<1>1. f \in Frames /\ f.event = "delta" /\ f.index = i /\ f.text = n
  BY <1>0, FrameTyped DEF Events
<1> HIDE DEF f
<1>2. ItemAllowed(w, f)
  BY <1>1 DEF ItemAllowed
<1>3. Told(w, f) = Put(w, i, [w.items[i] EXCEPT !.text = @ + n])
  <2>1. w \in View
    BY PathEnds
  <2> QED
    BY <1>1, <2>1, ItemTold
<1>4. out \o <<f>> = Append(out, f)
  BY <1>1, PathEnds, Concatenated
<1> QED
  BY <1>1, <1>2, <1>3, <1>4, PathItem DEF f

LEMMA PathAnnounced ==
    ASSUME NEW u, NEW out, NEW w, Path(u, out, w), w.response = "in_progress", ~w.failed,
           NEW i \in Indices, NEW kind \in Parted, w.items[i] = None
    PROVE  Path(u, out \o Announced(kind, i),
                Put(w, i, [kind |-> kind, stage |-> "part", text |-> 0, final |-> None]))
<1> DEFINE a == Frame("item_added", i, kind, 0)
           b == Frame("part_added", i, None, 0)
           o == [kind |-> kind, stage |-> "added", text |-> 0, final |-> None]
           x == Put(w, i, o)
<1>1. kind \in Kinds /\ w \in View /\ out \in Seq(Frames)
  BY PathEnds DEF Parted, Kinds
<1>2. a \in Frames /\ b \in Frames /\ b.event = "part_added" /\ b.index = i
  <2>1. a \in Frames
    BY <1>1, FrameTyped, FinalsNat DEF Events
  <2>2. b \in Frames /\ b.event = "part_added" /\ b.index = i
    <3>1. "part_added" \in Events /\ 0 \in Finals
      BY FinalsNat DEF Events
    <3> QED
      BY <3>1, FrameTyped
  <2> QED
    BY <2>1, <2>2
<1>3. o \in Item
  BY <1>1 DEF Item
<1>4. /\ x \in View /\ x.items[i] = o /\ x.response = "in_progress" /\ ~x.failed
      /\ o.stage = "added" /\ o.kind = kind
  BY <1>1, <1>3, PutFacts
<1>5. Path(u, Append(out, a), x)
  BY <1>1, PathAdded
<1>6. o # None
  BY <1>3, ItemNotNone
<1> HIDE DEF a, b, x, o
<1>7. ItemAllowed(x, b)
  BY <1>2, <1>4, <1>6 DEF ItemAllowed
<1>8. Told(x, b) = Put(x, i, [o EXCEPT !.stage = "part"])
  BY <1>2, <1>4, ItemTold
<1>9. Put(x, i, [o EXCEPT !.stage = "part"]) = Put(w, i, [o EXCEPT !.stage = "part"])
  BY <1>1, PutTwice DEF x
<1>10. Path(u, Append(Append(out, a), b), Told(x, b))
  BY <1>2, <1>4, <1>5, <1>7, PathItem
<1>11. out \o <<a, b>> = Append(Append(out, a), b)
  BY <1>1, <1>2, Concatenated
<1>12. [o EXCEPT !.stage = "part"] = [kind |-> kind, stage |-> "part", text |-> 0, final |-> None]
  BY DEF o
<1> QED
  BY <1>8, <1>9, <1>10, <1>11, <1>12 DEF Announced, a, b

\* A part is finished by three frames, a call by two.
LEMMA PathDone ==
    ASSUME NEW u, NEW out, NEW w, Path(u, out, w), w.response = "in_progress", ~w.failed,
           NEW i \in Indices, w.items[i] # None,
           w.items[i].kind \in Parted, w.items[i].stage = "part"
    PROVE  Path(u, out \o DoneFrames(i, w.items[i].text),
                Put(w, i, [w.items[i] EXCEPT !.stage = "done", !.final = w.items[i].text]))
<1> DEFINE o == w.items[i]
           n == o.text
           a == Frame("text_done", i, None, n)
           b == Frame("part_done", i, None, n)
           c == Frame("item_done", i, None, n)
           o1 == [o EXCEPT !.stage = "text_done", !.final = n]
           o2 == [o EXCEPT !.stage = "part_done", !.final = n]
           o3 == [o EXCEPT !.stage = "done", !.final = n]
           x == Put(w, i, o1)
           y == Put(w, i, o2)
<1>1. w \in View /\ out \in Seq(Frames)
  BY PathEnds
<1>2. o \in Item
  BY <1>1 DEF View
<1>3. n \in Finals
  BY <1>2, FinalsNat DEF Item
<1>4. /\ a \in Frames /\ a.event = "text_done" /\ a.index = i /\ a.text = n
      /\ b \in Frames /\ b.event = "part_done" /\ b.index = i /\ b.text = n
      /\ c \in Frames /\ c.event = "item_done" /\ c.index = i /\ c.text = n
  <2> HIDE DEF n, o, o1, o2, o3
  <2> QED  BY <1>3, FinalFrames
<1>5. o1 \in Item /\ o2 \in Item
  BY <1>2, <1>3, ItemMoves
<1>6. /\ o1.kind = o.kind /\ o1.stage = "text_done" /\ o1.final = n
      /\ o2.kind = o.kind /\ o2.stage = "part_done" /\ o2.final = n
  BY <1>2 DEF Item
<1>7. /\ [o1 EXCEPT !.stage = "part_done", !.final = n] = o2
      /\ [o2 EXCEPT !.stage = "done", !.final = n] = o3
  BY <1>2 DEF Item
<1>8. /\ x \in View /\ x.items[i] = o1 /\ x.response = "in_progress" /\ ~x.failed
      /\ y \in View /\ y.items[i] = o2 /\ y.response = "in_progress" /\ ~y.failed
  <2> HIDE DEF o1, o2
  <2> QED  BY <1>1, <1>5, PutFacts
<1>9. o1 # None /\ o2 # None
  BY <1>5, ItemNotNone
<1>10. Put(x, i, o2) = y /\ Put(y, i, o3) = Put(w, i, o3)
  BY <1>1, PutTwice
<1>11. w.items[i] = o /\ o # None /\ o.kind \in Parted /\ o.stage = "part" /\ o.text = n
  OBVIOUS
<1> HIDE DEF a, b, c, o, n, o1, o2, o3, x, y
<1>12. ItemAllowed(w, a) /\ ItemAllowed(x, b) /\ ItemAllowed(y, c)
  BY <1>4, <1>6, <1>8, <1>9, <1>11 DEF ItemAllowed
<1>13. Told(w, a) = x
  BY <1>1, <1>4, <1>11, FinalTold DEF x, o1
<1>14. Told(x, b) = y
  <2>1. Told(x, b) = Put(x, i, [x.items[i] EXCEPT !.stage = "part_done", !.final = n])
    BY <1>4, <1>8, FinalTold
  <2> QED
    BY <2>1, <1>7, <1>8, <1>10
<1>15. Told(y, c) = Put(w, i, o3)
  <2>1. Told(y, c) = Put(y, i, [y.items[i] EXCEPT !.stage = "done", !.final = n])
    BY <1>4, <1>8, FinalTold
  <2> QED
    BY <2>1, <1>7, <1>8, <1>10
<1>16. Path(u, Append(out, a), x)
  BY <1>4, <1>12, <1>13, PathItem
<1>17. Path(u, Append(Append(out, a), b), y)
  BY <1>4, <1>8, <1>12, <1>14, <1>16, PathItem
<1>18. Path(u, Append(Append(Append(out, a), b), c), Put(w, i, o3))
  BY <1>4, <1>8, <1>12, <1>15, <1>17, PathItem
<1>19. out \o <<a, b, c>> = Append(Append(Append(out, a), b), c)
  BY <1>1, <1>4, Concatenated
<1> QED
  BY <1>18, <1>19 DEF DoneFrames, a, b, c, o3, n, o

LEMMA PathCallDone ==
    ASSUME NEW u, NEW out, NEW w, Path(u, out, w), w.response = "in_progress", ~w.failed,
           NEW i \in Indices, w.items[i] # None,
           w.items[i].kind = "function", w.items[i].stage = "added",
           NEW n, n = Arguments(w.items[i].text)
    PROVE  Path(u, out \o <<Frame("text_done", i, None, n), Frame("item_done", i, None, n)>>,
                Put(w, i, [w.items[i] EXCEPT !.stage = "done", !.final = n]))
<1> DEFINE o == w.items[i]
           a == Frame("text_done", i, None, n)
           c == Frame("item_done", i, None, n)
           o1 == [o EXCEPT !.stage = "text_done", !.final = n]
           o3 == [o EXCEPT !.stage = "done", !.final = n]
           x == Put(w, i, o1)
<1>1. w \in View /\ out \in Seq(Frames)
  BY PathEnds
<1>2. o \in Item
  BY <1>1 DEF View
<1>3. n \in Finals
  BY <1>2, FinalsNat DEF Item
<1>4. /\ a \in Frames /\ a.event = "text_done" /\ a.index = i /\ a.text = n
      /\ c \in Frames /\ c.event = "item_done" /\ c.index = i /\ c.text = n
  <2> HIDE DEF o, o1, o3
  <2> QED  BY <1>3, FinalFrames
<1>5. o1 \in Item
  BY <1>2, <1>3, ItemMoves
<1>6. o1.kind = "function" /\ o1.stage = "text_done" /\ o1.final = n
  BY <1>2 DEF Item
<1>7. [o1 EXCEPT !.stage = "done", !.final = n] = o3
  BY <1>2 DEF Item
<1>8. x \in View /\ x.items[i] = o1 /\ x.response = "in_progress" /\ ~x.failed
  <2> HIDE DEF o1
  <2> QED  BY <1>1, <1>5, PutFacts
<1>9. o1 # None /\ "function" \notin Parted
  BY <1>5, ItemNotNone DEF Parted
<1>10. Put(x, i, o3) = Put(w, i, o3)
  BY <1>1, PutTwice
<1>11. w.items[i] = o /\ o # None /\ o.kind = "function" /\ o.stage = "added" /\ n = Arguments(o.text)
  OBVIOUS
<1> HIDE DEF a, c, o, o1, o3, x
<1>12. ItemAllowed(w, a) /\ ItemAllowed(x, c)
  BY <1>4, <1>6, <1>8, <1>9, <1>11 DEF ItemAllowed
<1>13. Told(w, a) = x
  BY <1>1, <1>4, <1>11, FinalTold DEF x, o1
<1>14. Told(x, c) = Put(w, i, o3)
  <2>1. Told(x, c) = Put(x, i, [x.items[i] EXCEPT !.stage = "done", !.final = n])
    BY <1>4, <1>8, FinalTold
  <2> QED
    BY <2>1, <1>7, <1>8, <1>10
<1>15. Path(u, Append(out, a), x)
  BY <1>4, <1>12, <1>13, PathItem
<1>16. Path(u, Append(Append(out, a), c), Put(w, i, o3))
  BY <1>4, <1>8, <1>12, <1>14, <1>15, PathItem
<1>17. out \o <<a, c>> = Append(Append(out, a), c)
  BY <1>1, <1>4, Concatenated
<1> QED
  BY <1>16, <1>17 DEF a, c, o3, o

-----------------------------------------------------------------------------
(* The converter and what it has said.                                     *)

Converter == [started : BOOLEAN, pending : BOOLEAN, completed : BOOLEAN,
              message : Message \union {None}, reasoning : Reasoning \union {None},
              reasonings : Seq(Reasoning), calls : [Tools -> Call \union {None}],
              next : Nat, out : Seq(Frames)]

\* A client with the view w knows of an item like this.
Says(w, i, kind, stage, text) ==
    /\ i \in Indices /\ w.items[i] # None
    /\ w.items[i].kind = kind /\ w.items[i].stage = stage /\ w.items[i].text = text

MessageTold(s, w) ==
    s.message # None =>
        /\ s.message.index < s.next
        /\ Says(w, s.message.index, "message",
                IF s.message.done THEN "done" ELSE "part", s.message.text)

ReasoningTold(s, w) ==
    s.reasoning # None =>
        s.reasoning.index < s.next /\ Says(w, s.reasoning.index, "reasoning", "part", s.reasoning.text)

ReasoningsTold(s, w) ==
    \A k \in 1..Len(s.reasonings) :
        LET r == s.reasonings[k]
        IN  r.index < s.next /\ Says(w, r.index, "reasoning", "done", r.text)

\* A call that has not been announced has an index, but no item.
CallTold(s, w, c) ==
    /\ c.index \in Indices /\ c.index < s.next /\ c.sent <= c.text
    /\ c.done => c.added /\ c.sent = c.text
    /\ IF c.added THEN Says(w, c.index, "function", IF c.done THEN "done" ELSE "added", c.sent)
       ELSE w.items[c.index] = None /\ c.sent = 0

CallsTold(s, w) ==
    \A t \in Begun(s) :
        /\ CallTold(s, w, s.calls[t])
        /\ \A u \in Begun(s) : u # t => s.calls[u].index # s.calls[t].index

\* The converter has announced an item at index i.
Holds(s, i) ==
    \/ s.message # None /\ s.message.index = i
    \/ s.reasoning # None /\ s.reasoning.index = i
    \/ \E k \in 1..Len(s.reasonings) : s.reasonings[k].index = i
    \/ \E t \in Begun(s) : s.calls[t].added /\ s.calls[t].index = i

\* The client knows of nothing else.
NothingElse(s, w) == \A i \in Shown(w) : i < s.next /\ Holds(s, i)

Agrees(s, w) ==
    /\ MessageTold(s, w) /\ ReasoningTold(s, w) /\ ReasoningsTold(s, w)
    /\ CallsTold(s, w) /\ NothingElse(s, w)

\* A client with the view u will have heard what the converter has said, in the
\* middle of the answer.
Plays(u, s) ==
    /\ s \in Converter /\ s.started /\ ~s.completed
    /\ \E w : /\ Path(u, s.out, w) /\ ~w.failed /\ w.response = "in_progress"
              /\ Agrees(s, w)

\* How many pieces of reasoning there were: at most one per chunk.
Thoughts(s) == Len(s.reasonings) + IF s.reasoning = None THEN 0 ELSE 1

\* Every index belongs to an item in the making.
Counted(s) ==
    s.next = Cardinality(Begun(s)) + Thoughts(s) + IF s.message = None THEN 0 ELSE 1

LEMMA ThoughtsNat ==
    ASSUME NEW s, Len(s.reasonings) \in Nat
    PROVE  Thoughts(s) \in Nat
<1>1. CASE s.reasoning = None
  BY <1>1 DEF Thoughts
<1>2. CASE s.reasoning # None
  BY <1>2 DEF Thoughts
<1> QED
  BY <1>1, <1>2

LEMMA SaysPut ==
    ASSUME NEW w \in View, NEW i \in Indices, NEW o \in Item
    PROVE  /\ Says(Put(w, i, o), i, o.kind, o.stage, o.text)
           /\ \A j, kind, stage, text :
                j # i => (Says(Put(w, i, o), j, kind, stage, text) <=> Says(w, j, kind, stage, text))
           /\ \A j \in Shown(Put(w, i, o)) : j = i \/ j \in Shown(w)
<1>1. o # None
  BY ItemNotNone
<1> QED
  BY <1>1, PutFacts DEF Says, Shown

\* What is said of the items at other indices stays true.
Elsewhere(w, x, i) == \A j \in Indices : j # i => x.items[j] = w.items[j]

LEMMA MessageStays ==
    ASSUME NEW s, NEW r, NEW w, NEW x, NEW i, Elsewhere(w, x, i),
           MessageTold(s, w), r.message = s.message,
           r.message # None => r.message.index # i /\ r.message.index < r.next
    PROVE  MessageTold(r, x)
BY DEF MessageTold, Says, Elsewhere

LEMMA ReasoningStays ==
    ASSUME NEW s, NEW r, NEW w, NEW x, NEW i, Elsewhere(w, x, i),
           ReasoningTold(s, w), r.reasoning = s.reasoning,
           r.reasoning # None => r.reasoning.index # i /\ r.reasoning.index < r.next
    PROVE  ReasoningTold(r, x)
BY DEF ReasoningTold, Says, Elsewhere

LEMMA ReasoningsStay ==
    ASSUME NEW s, NEW r, NEW w, NEW x, NEW i, Elsewhere(w, x, i),
           ReasoningsTold(s, w), r.reasonings = s.reasonings,
           \A k \in 1..Len(s.reasonings) : /\ s.reasonings[k].index # i
                                           /\ s.reasonings[k].index < r.next
    PROVE  ReasoningsTold(r, x)
BY DEF ReasoningsTold, Says, Elsewhere

LEMMA CallStays ==
    ASSUME NEW s, NEW r, NEW w, NEW x, NEW i, Elsewhere(w, x, i),
           NEW c, CallTold(s, w, c), c.index # i, c.index < r.next
    PROVE  CallTold(r, x, c)
BY DEF CallTold, Says, Elsewhere

\* The items that are known are those that were known, and the one at i.
LEMMA NothingElseStays ==
    ASSUME NEW s, NEW r, NEW w, NEW x, NEW i, Elsewhere(w, x, i), NothingElse(s, w),
           s.next \in Nat, r.next \in Nat, s.next <= r.next, i < r.next,
           Holds(r, i), \A j \in Indices : Holds(s, j) => Holds(r, j)
    PROVE  NothingElse(r, x)
<1> SUFFICES ASSUME NEW j \in Shown(x), j # i
             PROVE  j < r.next /\ Holds(r, j)
  BY DEF NothingElse
<1>1. j \in Shown(w) /\ j \in Nat /\ j \in Indices
  BY IndicesNat DEF Shown, Elsewhere
<1> QED
  BY <1>1 DEF NothingElse

\* The same of what the converter and the client agree on.
LEMMA KeepsMessage ==
    ASSUME NEW s, NEW r, NEW w, NEW x, NEW i, Elsewhere(w, x, i), Agrees(s, w),
           s.next \in Nat, r.next \in Nat, s.next <= r.next,
           r.message = s.message, s.message # None => s.message.index # i
    PROVE  MessageTold(r, x)
<1>1. MessageTold(s, w)
  BY DEF Agrees
<1>2. ASSUME r.message # None
      PROVE  r.message.index # i /\ r.message.index < r.next
  <2>1. r.message.index \in Nat /\ r.message.index < s.next
    BY <1>1, <1>2, IndicesNat DEF MessageTold, Says
  <2> QED
    BY <1>2, <2>1
<1> QED
  BY <1>1, <1>2, MessageStays

LEMMA KeepsReasoning ==
    ASSUME NEW s, NEW r, NEW w, NEW x, NEW i, Elsewhere(w, x, i), Agrees(s, w),
           s.next \in Nat, r.next \in Nat, s.next <= r.next,
           r.reasoning = s.reasoning, s.reasoning # None => s.reasoning.index # i
    PROVE  ReasoningTold(r, x)
<1>1. ReasoningTold(s, w)
  BY DEF Agrees
<1>2. ASSUME r.reasoning # None
      PROVE  r.reasoning.index # i /\ r.reasoning.index < r.next
  <2>1. r.reasoning.index \in Nat /\ r.reasoning.index < s.next
    BY <1>1, <1>2, IndicesNat DEF ReasoningTold, Says
  <2> QED
    BY <1>2, <2>1
<1> QED
  BY <1>1, <1>2, ReasoningStays

LEMMA KeepsReasonings ==
    ASSUME NEW s, NEW r, NEW w, NEW x, NEW i, Elsewhere(w, x, i), Agrees(s, w),
           s.next \in Nat, r.next \in Nat, s.next <= r.next,
           r.reasonings = s.reasonings,
           \A k \in 1..Len(s.reasonings) : s.reasonings[k].index # i
    PROVE  ReasoningsTold(r, x)
<1>1. ReasoningsTold(s, w)
  BY DEF Agrees
<1>2. ASSUME NEW k \in 1..Len(s.reasonings)
      PROVE  s.reasonings[k].index # i /\ s.reasonings[k].index < r.next
  <2>1. s.reasonings[k].index \in Nat /\ s.reasonings[k].index < s.next
    BY <1>1, <1>2, IndicesNat DEF ReasoningsTold, Says
  <2> QED
    BY <1>2, <2>1
<1> QED
  BY <1>1, <1>2, ReasoningsStay

LEMMA KeepsCall ==
    ASSUME NEW s, NEW r, NEW w, NEW x, NEW i, Elsewhere(w, x, i), Agrees(s, w),
           s.next \in Nat, r.next \in Nat, s.next <= r.next,
           NEW t \in Begun(s), s.calls[t].index # i
    PROVE  CallTold(r, x, s.calls[t])
<1>1. CallTold(s, w, s.calls[t])
  BY DEF Agrees, CallsTold
<1>2. s.calls[t].index \in Nat /\ s.calls[t].index < s.next
  BY <1>1, IndicesNat DEF CallTold
<1>3. s.calls[t].index < r.next
  BY <1>2
<1> QED
  BY <1>1, <1>3, CallStays

\* Every item that the converter keeps lies below its next index.
LEMMA BelowNext ==
    ASSUME NEW s, NEW w, Agrees(s, w), s.next \in Indices
    PROVE  /\ s.message # None => s.message.index # s.next
           /\ s.reasoning # None => s.reasoning.index # s.next
           /\ \A k \in 1..Len(s.reasonings) : s.reasonings[k].index # s.next
           /\ \A t \in Begun(s) : s.calls[t].index # s.next
           /\ w.items[s.next] = None
<1>1. s.next \in Nat
  BY IndicesNat
<1>2. s.message # None => s.message.index # s.next
  BY <1>1 DEF Agrees, MessageTold
<1>3. s.reasoning # None => s.reasoning.index # s.next
  BY <1>1 DEF Agrees, ReasoningTold
<1>4. \A k \in 1..Len(s.reasonings) : s.reasonings[k].index # s.next
  BY <1>1 DEF Agrees, ReasoningsTold
<1>5. \A t \in Begun(s) : s.calls[t].index # s.next
  BY <1>1 DEF Agrees, CallsTold, CallTold
<1>6. s.next \notin Shown(w)
  BY <1>1 DEF Agrees, NothingElse
<1> QED
  BY <1>2, <1>3, <1>4, <1>5, <1>6 DEF Shown

\* The converter's types, and the view that the frames lead to.
LEMMA PlaysFacts ==
    ASSUME NEW u, NEW s, Plays(u, s)
    PROVE  /\ s \in Converter /\ s.started /\ ~s.completed
           /\ s.message \in Message \union {None} /\ s.reasoning \in Reasoning \union {None}
           /\ s.reasonings \in Seq(Reasoning) /\ Len(s.reasonings) \in Nat
           /\ s.calls \in [Tools -> Call \union {None}]
           /\ s.next \in Nat /\ s.out \in Seq(Frames)
           /\ \A t \in Begun(s) : s.calls[t] \in Call
           /\ u \in View
<1>1. s \in Converter /\ s.started /\ ~s.completed /\ \E w : Path(u, s.out, w)
  BY DEF Plays
<1>2. \A t \in Begun(s) : s.calls[t] \in Call
  BY <1>1 DEF Converter, Begun
<1> QED
  BY <1>1, <1>2, PathEnds DEF Converter

\* stopReasoning closes the reasoning item that is open.
LEMMA StopReasoningPlays ==
    ASSUME NEW u, NEW s, Plays(u, s)
    PROVE  LET r == StopReasoning(s)
           IN  /\ Plays(u, r) /\ r.reasoning = None
               /\ r.message = s.message /\ r.calls = s.calls /\ r.next = s.next
               /\ r.pending = s.pending /\ Thoughts(r) = Thoughts(s)
<1> DEFINE r == StopReasoning(s)
<1>1. CASE s.reasoning = None
  BY <1>1 DEF StopReasoning
<1>2. CASE s.reasoning # None
  <2> DEFINE i == s.reasoning.index
             n == s.reasoning.text
  <2>1. s \in Converter /\ s.started /\ ~s.completed /\ s.next \in Nat
    BY PlaysFacts
  <2>2. PICK w : /\ Path(u, s.out, w) /\ ~w.failed /\ w.response = "in_progress"
                 /\ Agrees(s, w)
    BY DEF Plays
  <2>3. s.reasoning \in Reasoning /\ s.reasonings \in Seq(Reasoning) /\ w \in View
    BY <1>2, <2>2, PlaysFacts, PathEnds
  <2>4. /\ r.reasoning = None /\ r.reasonings = Append(s.reasonings, s.reasoning)
        /\ r.out = s.out \o DoneFrames(i, n)
        /\ r.message = s.message /\ r.calls = s.calls /\ r.next = s.next
        /\ r.pending = s.pending /\ r.started = s.started /\ r.completed = s.completed
    BY <1>2, <2>1 DEF StopReasoning, Emit, Converter
  <2>5. i < s.next /\ Says(w, i, "reasoning", "part", n)
    BY <1>2, <2>2 DEF Agrees, ReasoningTold
  <2> DEFINE o == [w.items[i] EXCEPT !.stage = "done", !.final = w.items[i].text]
             x == Put(w, i, o)
  <2>6. Path(u, r.out, x)
    <3>1. /\ i \in Indices /\ w.items[i] # None /\ w.items[i].text = n
          /\ w.items[i].kind \in Parted /\ w.items[i].stage = "part"
      BY <2>5 DEF Says, Parted
    <3>2. Path(u, s.out \o DoneFrames(i, w.items[i].text), x)
      BY <2>2, <3>1, PathDone
    <3> QED
      BY <2>4, <3>1, <3>2
  <2>7. w.items[i] \in Item /\ i \in Indices
    BY <2>3, <2>5 DEF Says, View
  <2>8. o \in Item /\ o.kind = "reasoning" /\ o.stage = "done" /\ o.text = n
    BY <2>5, <2>7, ItemMoves, FinalsNat DEF Says, Item
  <2>9. x \in View /\ ~x.failed /\ x.response = "in_progress"
    BY <2>2, <2>3, <2>7, <2>8, PutFacts
  <2>10. Says(x, i, "reasoning", "done", n) /\ Elsewhere(w, x, i)
    <3> HIDE DEF o
    <3> QED  BY <2>3, <2>7, <2>8, SaysPut, PutFacts DEF Elsewhere
  <2> HIDE DEF r, x, o, i, n
  <2>11. /\ Thoughts(r) = Thoughts(s) /\ Len(r.reasonings) = Len(s.reasonings) + 1
         /\ \A k \in 1..Len(s.reasonings) : /\ k \in 1..Len(r.reasonings)
                                            /\ r.reasonings[k] = s.reasonings[k]
         /\ Len(r.reasonings) \in 1..Len(r.reasonings)
         /\ r.reasonings[Len(r.reasonings)] = s.reasoning
    BY <1>2, <2>3, <2>4 DEF Thoughts
  <2>12. MessageTold(r, x)
    <3>1. MessageTold(s, w)
      BY <2>2 DEF Agrees
    <3>2. r.message # None => r.message.index # i /\ r.message.index < r.next
      BY <2>4, <2>5, <3>1 DEF MessageTold, Says
    <3> QED
      BY <2>4, <2>10, <3>1, <3>2, MessageStays
  <2>13. ReasoningTold(r, x)
    BY <2>4 DEF ReasoningTold
  <2>14. ReasoningsTold(r, x)
    <3> SUFFICES ASSUME NEW k \in 1..Len(r.reasonings)
                 PROVE  LET q == r.reasonings[k]
                        IN  q.index < r.next /\ Says(x, q.index, "reasoning", "done", q.text)
      BY DEF ReasoningsTold
    <3>1. CASE k \in 1..Len(s.reasonings)
      <4>1. /\ s.reasonings[k].index < s.next
            /\ Says(w, s.reasonings[k].index, "reasoning", "done", s.reasonings[k].text)
        BY <2>2, <3>1 DEF Agrees, ReasoningsTold
      <4>2. s.reasonings[k].index # i
        BY <2>5, <4>1 DEF Says
      <4> QED
        BY <2>4, <2>10, <2>11, <3>1, <4>1, <4>2 DEF Says, Elsewhere
    <3>2. CASE k = Len(s.reasonings) + 1
      BY <2>3, <2>4, <2>5, <2>10, <2>11, <3>2 DEF i, n
    <3> QED
      BY <2>3, <2>11, <3>1, <3>2
  <2>15. CallsTold(r, x)
    <3> SUFFICES ASSUME NEW t \in Begun(s) PROVE CallTold(r, x, s.calls[t])
      BY <2>2, <2>4 DEF Agrees, CallsTold, Begun
    <3>1. CallTold(s, w, s.calls[t])
      BY <2>2 DEF Agrees, CallsTold
    <3>2. s.calls[t].index # i
      BY <2>5, <3>1 DEF Says, CallTold
    <3>3. s.calls[t].index < r.next
      BY <2>4, <3>1 DEF CallTold
    <3> QED
      BY <2>10, <3>1, <3>2, <3>3, CallStays
  <2>16. NothingElse(r, x)
    <3>1. NothingElse(s, w)
      BY <2>2 DEF Agrees
    <3>2. Begun(r) = Begun(s)
      BY <2>4 DEF Begun
    <3>3. Holds(r, i)
      BY <2>11 DEF i, Holds
    <3>4. ASSUME NEW j \in Indices, Holds(s, j) PROVE Holds(r, j)
      <4>1. CASE s.reasoning # None /\ s.reasoning.index = j
        BY <3>3, <4>1 DEF i
      <4>2. CASE \E k \in 1..Len(s.reasonings) : s.reasonings[k].index = j
        BY <2>11, <4>2 DEF Holds
      <4> QED
        BY <2>4, <3>2, <3>4, <4>1, <4>2 DEF Holds
    <3> QED
      BY <2>1, <2>4, <2>5, <2>10, <3>1, <3>3, <3>4, NothingElseStays
  <2>17. r \in Converter
    <3>1. r.out \in Seq(Frames)
      BY <2>6, PathEnds
    <3>2. r.reasonings \in Seq(Reasoning)
      BY <2>3, <2>4
    <3>3. r = [s EXCEPT !.out = r.out, !.reasonings = r.reasonings, !.reasoning = None]
      BY <1>2, <2>1, <2>4 DEF StopReasoning, Emit, Converter, r, i, n
    <3> QED
      BY <2>1, <3>1, <3>2, <3>3 DEF Converter
  <2>18. Plays(u, r)
    BY <2>1, <2>4, <2>6, <2>9, <2>12, <2>13, <2>14, <2>15, <2>16, <2>17 DEF Plays, Agrees
  <2> QED
    BY <2>4, <2>11, <2>18 DEF r
<1> QED
  BY <1>1, <1>2

\* closeMessage closes the message that is open.
LEMMA CloseMessagePlays ==
    ASSUME NEW u, NEW s, Plays(u, s)
    PROVE  LET r == CloseMessage(s)
           IN  /\ Plays(u, r) /\ (r.message = None <=> s.message = None)
               /\ r.message # None => r.message.done
               /\ r.reasoning = s.reasoning /\ r.reasonings = s.reasonings
               /\ r.calls = s.calls /\ r.next = s.next /\ r.pending = s.pending
<1> DEFINE r == CloseMessage(s)
<1>1. CASE s.message = None \/ s.message.done
  BY <1>1 DEF CloseMessage
<1>2. CASE s.message # None /\ ~s.message.done
  <2> DEFINE i == s.message.index
             n == s.message.text
  <2>1. s \in Converter /\ s.started /\ ~s.completed /\ s.next \in Nat
    BY PlaysFacts
  <2>2. PICK w : /\ Path(u, s.out, w) /\ ~w.failed /\ w.response = "in_progress"
                 /\ Agrees(s, w)
    BY DEF Plays
  <2>3. s.message \in Message /\ w \in View
    BY <1>2, <2>2, PlaysFacts, PathEnds
  <2>4. /\ r.message = [s.message EXCEPT !.done = TRUE]
        /\ r.out = s.out \o DoneFrames(i, n)
        /\ r.reasoning = s.reasoning /\ r.reasonings = s.reasonings
        /\ r.calls = s.calls /\ r.next = s.next
        /\ r.pending = s.pending /\ r.started = s.started /\ r.completed = s.completed
    BY <1>2, <2>1 DEF CloseMessage, Emit, Converter
  <2>5. i < s.next /\ Says(w, i, "message", "part", n)
    BY <1>2, <2>2 DEF Agrees, MessageTold
  <2>6. /\ r.message \in Message /\ r.message.done
        /\ r.message.index = i /\ r.message.text = n /\ r.message # None
    BY <2>3, <2>4, NoneAssumption DEF Message
  <2> DEFINE o == [w.items[i] EXCEPT !.stage = "done", !.final = w.items[i].text]
             x == Put(w, i, o)
  <2>7. Path(u, r.out, x)
    <3>1. /\ i \in Indices /\ w.items[i] # None /\ w.items[i].text = n
          /\ w.items[i].kind \in Parted /\ w.items[i].stage = "part"
      BY <2>5 DEF Says, Parted
    <3>2. Path(u, s.out \o DoneFrames(i, w.items[i].text), x)
      BY <2>2, <3>1, PathDone
    <3> QED
      BY <2>4, <3>1, <3>2
  <2>8. w.items[i] \in Item /\ i \in Indices
    BY <2>3, <2>5 DEF Says, View
  <2>9. o \in Item /\ o.kind = "message" /\ o.stage = "done" /\ o.text = n
    BY <2>5, <2>8, ItemMoves, FinalsNat DEF Says, Item
  <2>10. x \in View /\ ~x.failed /\ x.response = "in_progress"
    BY <2>2, <2>3, <2>8, <2>9, PutFacts
  <2>11. Says(x, i, "message", "done", n) /\ Elsewhere(w, x, i)
    <3> HIDE DEF o
    <3> QED  BY <2>3, <2>8, <2>9, SaysPut, PutFacts DEF Elsewhere
  <2> HIDE DEF r, x, o, i, n
  <2>12. MessageTold(r, x)
    BY <2>4, <2>5, <2>6, <2>11 DEF MessageTold
  <2>13. ReasoningTold(r, x) /\ ReasoningsTold(r, x)
    <3>1. s.reasoning # None => s.reasoning.index # i
      BY <2>2, <2>5 DEF Agrees, ReasoningTold, Says
    <3>2. \A k \in 1..Len(s.reasonings) : s.reasonings[k].index # i
      BY <2>2, <2>5 DEF Agrees, ReasoningsTold, Says
    <3>3. r.next \in Nat /\ s.next <= r.next
      BY <2>1, <2>4
    <3>4. ReasoningTold(r, x)
      BY <2>1, <2>2, <2>4, <2>11, <3>1, <3>3, KeepsReasoning
    <3>5. ReasoningsTold(r, x)
      BY <2>1, <2>2, <2>4, <2>11, <3>2, <3>3, KeepsReasonings
    <3> QED
      BY <3>4, <3>5
  <2>14. CallsTold(r, x)
    <3> SUFFICES ASSUME NEW t \in Begun(s) PROVE CallTold(r, x, s.calls[t])
      BY <2>2, <2>4 DEF Agrees, CallsTold, Begun
    <3>1. CallTold(s, w, s.calls[t])
      BY <2>2 DEF Agrees, CallsTold
    <3>2. s.calls[t].index # i
      BY <2>5, <3>1 DEF Says, CallTold
    <3>3. r.next \in Nat /\ s.next <= r.next
      BY <2>1, <2>4
    <3> QED
      BY <2>1, <2>2, <2>11, <3>2, <3>3, KeepsCall
  <2>15. NothingElse(r, x)
    <3>1. NothingElse(s, w)
      BY <2>2 DEF Agrees
    <3>2. Begun(r) = Begun(s)
      BY <2>4 DEF Begun
    <3>3. Holds(r, i) /\ \A j \in Indices : Holds(s, j) => Holds(r, j)
      BY <2>4, <2>6, <3>2 DEF Holds, i
    <3> QED
      BY <2>1, <2>4, <2>5, <2>11, <3>1, <3>3, NothingElseStays
  <2>16. r \in Converter
    <3>1. r.out \in Seq(Frames)
      BY <2>7, PathEnds
    <3>2. r = [s EXCEPT !.out = r.out, !.message = r.message]
      BY <1>2, <2>1, <2>4 DEF CloseMessage, Emit, Converter, r, i, n
    <3> QED
      BY <2>1, <2>6, <3>1, <3>2 DEF Converter
  <2>17. Plays(u, r)
    BY <2>1, <2>4, <2>7, <2>10, <2>12, <2>13, <2>14, <2>15, <2>16 DEF Plays, Agrees
  <2> QED
    BY <1>2, <2>4, <2>6, <2>17 DEF r
<1> QED
  BY <1>1, <1>2

-----------------------------------------------------------------------------
(* Text.                                                                   *)

\* A message and a reasoning item are opened, and get a piece of text.
OpenMessage(s) ==
    [Emit(s, Announced("message", s.next)) EXCEPT
        !.message = [index |-> s.next, text |-> 0, done |-> FALSE], !.next = @ + 1]

OpenReasoning(s) ==
    [Emit(s, Announced("reasoning", s.next)) EXCEPT
        !.reasoning = [index |-> s.next, text |-> 0], !.next = @ + 1]

\* The text that it gets.
MessageDelta(s) ==
    [Emit(s, <<Frame("delta", s.message.index, None, 1)>>) EXCEPT !.message.text = @ + 1]

ReasoningDelta(s) ==
    [Emit(s, <<Frame("delta", s.reasoning.index, None, 1)>>) EXCEPT !.reasoning.text = @ + 1]

LEMMA OpenMessagePlays ==
    ASSUME NEW u, NEW s, Plays(u, s), s.message = None, s.next \in Indices
    PROVE  LET r == OpenMessage(s)
           IN  /\ Plays(u, r) /\ r.message # None /\ ~r.message.done
               /\ r.reasoning = s.reasoning /\ r.reasonings = s.reasonings
               /\ r.calls = s.calls /\ r.next = s.next + 1 /\ r.pending = s.pending
<1> DEFINE r == OpenMessage(s)
           i == s.next
           o == [kind |-> "message", stage |-> "part", text |-> 0, final |-> None]
<1>1. s \in Converter /\ s.started /\ ~s.completed /\ s.next \in Nat
  BY PlaysFacts
<1>2. PICK w : /\ Path(u, s.out, w) /\ ~w.failed /\ w.response = "in_progress"
               /\ Agrees(s, w)
  BY DEF Plays
<1> DEFINE x == Put(w, i, o)
<1>3. /\ r.message = [index |-> i, text |-> 0, done |-> FALSE]
      /\ r.out = s.out \o Announced("message", i) /\ r.next = s.next + 1
      /\ r.reasoning = s.reasoning /\ r.reasonings = s.reasonings /\ r.calls = s.calls
      /\ r.pending = s.pending /\ r.started = s.started /\ r.completed = s.completed
  BY <1>1 DEF OpenMessage, Emit, Converter
<1>4. /\ r.message \in Message /\ ~r.message.done
      /\ r.message.index = i /\ r.message.text = 0 /\ r.message # None
  <2> DEFINE m == [index |-> i, text |-> 0, done |-> FALSE]
  <2>1. m \in Message /\ ~m.done /\ m.index = i /\ m.text = 0
    BY <1>1 DEF Message
  <2>2. m # None
    BY <2>1, NoneAssumption
  <2>3. r.message = m
    BY <1>3
  <2> HIDE DEF m, r
  <2> QED
    BY <2>1, <2>2, <2>3
<1>5. o \in Item /\ w \in View /\ o.kind = "message" /\ o.stage = "part" /\ o.text = 0
  BY <1>2, PathEnds DEF Item, Kinds
<1>6. /\ s.message # None => s.message.index # i
      /\ s.reasoning # None => s.reasoning.index # i
      /\ \A k \in 1..Len(s.reasonings) : s.reasonings[k].index # i
      /\ \A t \in Begun(s) : s.calls[t].index # i
      /\ w.items[i] = None
  BY <1>2, BelowNext
<1>7. Path(u, r.out, x)
  BY <1>2, <1>3, <1>6, PathAnnounced DEF Parted
<1>8. /\ x \in View /\ ~x.failed /\ x.response = "in_progress"
      /\ Says(x, i, "message", "part", 0) /\ Elsewhere(w, x, i)
  <2> HIDE DEF o
  <2> QED  BY <1>2, <1>5, PutFacts, SaysPut DEF Elsewhere
<1> HIDE DEF r, x, o
<1>9. MessageTold(r, x)
  BY <1>1, <1>3, <1>4, <1>8 DEF MessageTold
<1>10. /\ ReasoningTold(r, x) /\ ReasoningsTold(r, x)
       /\ \A t \in Begun(s) : CallTold(r, x, s.calls[t])
  <2>1. r.next \in Nat /\ s.next <= r.next
    BY <1>1, <1>3
  <2>2. ReasoningTold(r, x)
    BY <1>1, <1>2, <1>3, <1>6, <1>8, <2>1, KeepsReasoning
  <2>3. ReasoningsTold(r, x)
    BY <1>1, <1>2, <1>3, <1>6, <1>8, <2>1, KeepsReasonings
  <2>4. ASSUME NEW t \in Begun(s) PROVE CallTold(r, x, s.calls[t])
    BY <1>1, <1>2, <1>6, <1>8, <2>1, KeepsCall
  <2> QED
    BY <2>2, <2>3, <2>4
<1>11. CallsTold(r, x)
  BY <1>2, <1>3, <1>10 DEF Agrees, CallsTold, Begun
<1>12. NothingElse(r, x)
  <2>1. NothingElse(s, w)
    BY <1>2 DEF Agrees
  <2>2. Begun(r) = Begun(s)
    BY <1>3 DEF Begun
  <2>3. Holds(r, i) /\ \A j \in Indices : Holds(s, j) => Holds(r, j)
    BY <1>3, <1>4, <2>2 DEF Holds
  <2>4. r.next \in Nat /\ s.next <= r.next /\ i < r.next
    BY <1>1, <1>3
  <2> QED
    BY <1>1, <1>8, <2>1, <2>3, <2>4, NothingElseStays
<1>13. r \in Converter
  <2>1. r.out \in Seq(Frames)
    BY <1>7, PathEnds
  <2>2. r.next \in Nat
    BY <1>1, <1>3
  <2>3. r = [s EXCEPT !.out = r.out, !.message = r.message, !.next = r.next]
    BY <1>1, <1>3 DEF OpenMessage, Emit, Converter, r
  <2> QED
    BY <1>1, <1>4, <2>1, <2>2, <2>3 DEF Converter
<1>14. Plays(u, r)
  BY <1>1, <1>3, <1>7, <1>8, <1>9, <1>10, <1>11, <1>12, <1>13 DEF Plays, Agrees
<1> QED
  BY <1>3, <1>4, <1>14 DEF r
LEMMA OpenReasoningPlays ==
    ASSUME NEW u, NEW s, Plays(u, s), s.reasoning = None, s.next \in Indices
    PROVE  LET r == OpenReasoning(s)
           IN  /\ Plays(u, r) /\ r.reasoning # None
               /\ r.message = s.message /\ r.reasonings = s.reasonings
               /\ r.calls = s.calls /\ r.next = s.next + 1 /\ r.pending = s.pending
<1> DEFINE r == OpenReasoning(s)
           i == s.next
           o == [kind |-> "reasoning", stage |-> "part", text |-> 0, final |-> None]
<1>1. s \in Converter /\ s.started /\ ~s.completed /\ s.next \in Nat
  BY PlaysFacts
<1>2. PICK w : /\ Path(u, s.out, w) /\ ~w.failed /\ w.response = "in_progress"
               /\ Agrees(s, w)
  BY DEF Plays
<1> DEFINE x == Put(w, i, o)
<1>3. /\ r.reasoning = [index |-> i, text |-> 0]
      /\ r.out = s.out \o Announced("reasoning", i) /\ r.next = s.next + 1
      /\ r.message = s.message /\ r.reasonings = s.reasonings /\ r.calls = s.calls
      /\ r.pending = s.pending /\ r.started = s.started /\ r.completed = s.completed
  BY <1>1 DEF OpenReasoning, Emit, Converter
<1>4. /\ r.reasoning \in Reasoning /\ r.reasoning # None
      /\ r.reasoning.index = i /\ r.reasoning.text = 0
  <2> DEFINE m == [index |-> i, text |-> 0]
  <2>1. m \in Reasoning /\ m.index = i /\ m.text = 0
    BY <1>1 DEF Reasoning
  <2>2. m # None
    BY <2>1, NoneAssumption
  <2>3. r.reasoning = m
    BY <1>3
  <2> HIDE DEF m, r
  <2> QED
    BY <2>1, <2>2, <2>3
<1>5. o \in Item /\ w \in View /\ o.kind = "reasoning" /\ o.stage = "part" /\ o.text = 0
  BY <1>2, PathEnds DEF Item, Kinds
<1>6. /\ s.message # None => s.message.index # i
      /\ s.reasoning # None => s.reasoning.index # i
      /\ \A k \in 1..Len(s.reasonings) : s.reasonings[k].index # i
      /\ \A t \in Begun(s) : s.calls[t].index # i
      /\ w.items[i] = None
  BY <1>2, BelowNext
<1>7. Path(u, r.out, x)
  BY <1>2, <1>3, <1>6, PathAnnounced DEF Parted
<1>8. /\ x \in View /\ ~x.failed /\ x.response = "in_progress"
      /\ Says(x, i, "reasoning", "part", 0) /\ Elsewhere(w, x, i)
  <2> HIDE DEF o
  <2> QED  BY <1>2, <1>5, PutFacts, SaysPut DEF Elsewhere
<1> HIDE DEF r, x, o
<1>9. ReasoningTold(r, x)
  BY <1>1, <1>3, <1>4, <1>8 DEF ReasoningTold
<1>10. /\ MessageTold(r, x) /\ ReasoningsTold(r, x)
       /\ \A t \in Begun(s) : CallTold(r, x, s.calls[t])
  <2>1. r.next \in Nat /\ s.next <= r.next
    BY <1>1, <1>3
  <2>2. MessageTold(r, x)
    BY <1>1, <1>2, <1>3, <1>6, <1>8, <2>1, KeepsMessage
  <2>3. ReasoningsTold(r, x)
    BY <1>1, <1>2, <1>3, <1>6, <1>8, <2>1, KeepsReasonings
  <2>4. ASSUME NEW t \in Begun(s) PROVE CallTold(r, x, s.calls[t])
    BY <1>1, <1>2, <1>6, <1>8, <2>1, KeepsCall
  <2> QED
    BY <2>2, <2>3, <2>4
<1>11. CallsTold(r, x)
  BY <1>2, <1>3, <1>10 DEF Agrees, CallsTold, Begun
<1>12. NothingElse(r, x)
  <2>1. NothingElse(s, w)
    BY <1>2 DEF Agrees
  <2>2. Begun(r) = Begun(s)
    BY <1>3 DEF Begun
  <2>3. Holds(r, i) /\ \A j \in Indices : Holds(s, j) => Holds(r, j)
    BY <1>3, <1>4, <2>2 DEF Holds
  <2>4. r.next \in Nat /\ s.next <= r.next /\ i < r.next
    BY <1>1, <1>3
  <2> QED
    BY <1>1, <1>8, <2>1, <2>3, <2>4, NothingElseStays
<1>13. r \in Converter
  <2>1. r.out \in Seq(Frames)
    BY <1>7, PathEnds
  <2>2. r.next \in Nat
    BY <1>1, <1>3
  <2>3. r = [s EXCEPT !.out = r.out, !.reasoning = r.reasoning, !.next = r.next]
    BY <1>1, <1>3 DEF OpenReasoning, Emit, Converter, r
  <2> QED
    BY <1>1, <1>4, <2>1, <2>2, <2>3 DEF Converter
<1>14. Plays(u, r)
  BY <1>1, <1>3, <1>7, <1>8, <1>9, <1>10, <1>11, <1>12, <1>13 DEF Plays, Agrees
<1> QED
  BY <1>3, <1>4, <1>14 DEF r
LEMMA MessageDeltaPlays ==
    ASSUME NEW u, NEW s, Plays(u, s), s.message # None, MaxChunks > 0
    PROVE  LET r == MessageDelta(s)
           IN  /\ Plays(u, r) /\ r.message # None
               /\ r.message # None
               /\ r.reasoning = s.reasoning /\ r.reasonings = s.reasonings
               /\ r.calls = s.calls /\ r.next = s.next /\ r.pending = s.pending
<1> DEFINE r == MessageDelta(s)
           i == s.message.index
           n == s.message.text
           stage == IF s.message.done THEN "done" ELSE "part"
<1>1. s \in Converter /\ s.started /\ ~s.completed /\ s.next \in Nat
  BY PlaysFacts
<1>2. PICK w : /\ Path(u, s.out, w) /\ ~w.failed /\ w.response = "in_progress"
               /\ Agrees(s, w)
  BY DEF Plays
<1>3. s.message \in Message /\ w \in View
  BY <1>2, PlaysFacts, PathEnds
<1>4. /\ r.message = [s.message EXCEPT !.text = @ + 1]
      /\ r.out = s.out \o <<Frame("delta", i, None, 1)>> /\ r.next = s.next
      /\ r.reasoning = s.reasoning /\ r.reasonings = s.reasonings /\ r.calls = s.calls
      /\ r.pending = s.pending /\ r.started = s.started /\ r.completed = s.completed
  BY <1>1, <1>3 DEF MessageDelta, Emit, Converter
<1>5. i < s.next /\ Says(w, i, "message", stage, n)
  BY <1>2 DEF Agrees, MessageTold
<1>6. /\ r.message \in Message /\ r.message # None /\ r.message.done = s.message.done
      /\ r.message.index = i /\ r.message.text = n + 1
  <2>1. n + 1 \in Nat
    BY <1>3 DEF Message
  <2> HIDE DEF r
  <2>2. r.message \in Message /\ r.message.index = i /\ r.message.text = n + 1 /\ r.message.done = s.message.done
    BY <1>3, <1>4, <2>1 DEF Message
  <2> QED
    BY <2>2, NoneAssumption
<1> DEFINE o == [w.items[i] EXCEPT !.text = @ + 1]
           x == Put(w, i, o)
<1>7. Path(u, r.out, x)
  <2>1. /\ i \in Indices /\ w.items[i] # None
        /\ \/ w.items[i].stage = (IF w.items[i].kind \in Parted THEN "part" ELSE "added")
           \/ w.items[i].stage = "done" /\ w.items[i].kind = "message"
    BY <1>5 DEF Says, Parted
  <2>2. 1 \in 1..MaxChunks
    BY StreamAssumption
  <2>3. Path(u, s.out \o <<Frame("delta", i, None, 1)>>, x)
    BY <1>2, <2>1, <2>2, PathDelta
  <2> HIDE DEF r, x, i
  <2> QED
    BY <1>4, <2>3
<1>8. w.items[i] \in Item /\ i \in Indices
  BY <1>3, <1>5 DEF Says, View
<1>9. o \in Item /\ o.kind = "message" /\ o.stage = stage /\ o.text = n + 1
  <2>1. o \in Item
    BY <1>8, ItemMoves
  <2>2. /\ w.items[i].kind = "message" /\ w.items[i].stage = stage
        /\ w.items[i].text = n
    BY <1>5 DEF Says
  <2> QED
    BY <1>8, <2>1, <2>2 DEF Item
<1>10. x \in View /\ ~x.failed /\ x.response = "in_progress"
  BY <1>2, <1>3, <1>8, <1>9, PutFacts
<1>11. Says(x, i, "message", stage, n + 1) /\ Elsewhere(w, x, i)
  <2> HIDE DEF o
  <2> QED  BY <1>3, <1>8, <1>9, SaysPut, PutFacts DEF Elsewhere
<1> HIDE DEF r, x, o, i, n
<1>12. MessageTold(r, x)
  BY <1>4, <1>5, <1>6, <1>11 DEF MessageTold, stage
<1>13. ReasoningTold(r, x) /\ ReasoningsTold(r, x)
  <2>1. s.reasoning # None => s.reasoning.index # i
    BY <1>2, <1>5 DEF Agrees, ReasoningTold, Says
  <2>2. \A k \in 1..Len(s.reasonings) : s.reasonings[k].index # i
    BY <1>2, <1>5 DEF Agrees, ReasoningsTold, Says
  <2>3. r.next \in Nat /\ s.next <= r.next
    BY <1>1, <1>4
  <2>4. ReasoningTold(r, x)
    BY <1>1, <1>2, <1>4, <1>11, <2>1, <2>3, KeepsReasoning
  <2>5. ReasoningsTold(r, x)
    BY <1>1, <1>2, <1>4, <1>11, <2>2, <2>3, KeepsReasonings
  <2> QED
    BY <2>4, <2>5
<1>14. CallsTold(r, x)
  <2> SUFFICES ASSUME NEW t \in Begun(s) PROVE CallTold(r, x, s.calls[t])
    BY <1>2, <1>4 DEF Agrees, CallsTold, Begun
  <2>1. CallTold(s, w, s.calls[t])
    BY <1>2 DEF Agrees, CallsTold
  <2>2. s.calls[t].index # i
    BY <1>5, <2>1 DEF Says, CallTold
  <2>3. r.next \in Nat /\ s.next <= r.next
    BY <1>1, <1>4
  <2> QED
    BY <1>1, <1>2, <1>11, <2>2, <2>3, KeepsCall
<1>15. NothingElse(r, x)
  <2>1. NothingElse(s, w)
    BY <1>2 DEF Agrees
  <2>2. Begun(r) = Begun(s)
    BY <1>4 DEF Begun
  <2>3. Holds(r, i) /\ \A j \in Indices : Holds(s, j) => Holds(r, j)
    BY <1>4, <1>6, <2>2 DEF Holds, i
  <2> QED
    BY <1>1, <1>4, <1>5, <1>11, <2>1, <2>3, NothingElseStays
<1>16. r \in Converter
  <2>1. r.out \in Seq(Frames)
    BY <1>7, PathEnds
  <2>2. r = [s EXCEPT !.out = r.out, !.message = r.message]
    BY <1>1, <1>3, <1>4 DEF MessageDelta, Emit, Converter, r, i, n
  <2> QED
    BY <1>1, <1>6, <2>1, <2>2 DEF Converter
<1>17. Plays(u, r)
  BY <1>1, <1>4, <1>7, <1>10, <1>12, <1>13, <1>14, <1>15, <1>16 DEF Plays, Agrees
<1> QED
  BY <1>4, <1>6, <1>17 DEF r

LEMMA ReasoningDeltaPlays ==
    ASSUME NEW u, NEW s, Plays(u, s), s.reasoning # None, MaxChunks > 0
    PROVE  LET r == ReasoningDelta(s)
           IN  /\ Plays(u, r) /\ r.reasoning # None
               /\ r.message = s.message /\ r.reasonings = s.reasonings
               /\ r.calls = s.calls /\ r.next = s.next /\ r.pending = s.pending
<1> DEFINE r == ReasoningDelta(s)
           i == s.reasoning.index
           n == s.reasoning.text
<1>1. s \in Converter /\ s.started /\ ~s.completed /\ s.next \in Nat
  BY PlaysFacts
<1>2. PICK w : /\ Path(u, s.out, w) /\ ~w.failed /\ w.response = "in_progress"
               /\ Agrees(s, w)
  BY DEF Plays
<1>3. s.reasoning \in Reasoning /\ w \in View
  BY <1>2, PlaysFacts, PathEnds
<1>4. /\ r.reasoning = [s.reasoning EXCEPT !.text = @ + 1]
      /\ r.out = s.out \o <<Frame("delta", i, None, 1)>> /\ r.next = s.next
      /\ r.message = s.message /\ r.reasonings = s.reasonings /\ r.calls = s.calls
      /\ r.pending = s.pending /\ r.started = s.started /\ r.completed = s.completed
  BY <1>1, <1>3 DEF ReasoningDelta, Emit, Converter
<1>5. i < s.next /\ Says(w, i, "reasoning", "part", n)
  BY <1>2 DEF Agrees, ReasoningTold
<1>6. /\ r.reasoning \in Reasoning /\ r.reasoning # None
      /\ r.reasoning.index = i /\ r.reasoning.text = n + 1
  <2>1. n + 1 \in Nat
    BY <1>3 DEF Reasoning
  <2> HIDE DEF r
  <2>2. r.reasoning \in Reasoning /\ r.reasoning.index = i /\ r.reasoning.text = n + 1
    BY <1>3, <1>4, <2>1 DEF Reasoning
  <2> QED
    BY <2>2, NoneAssumption
<1> DEFINE o == [w.items[i] EXCEPT !.text = @ + 1]
           x == Put(w, i, o)
<1>7. Path(u, r.out, x)
  <2>1. /\ i \in Indices /\ w.items[i] # None
        /\ w.items[i].stage = (IF w.items[i].kind \in Parted THEN "part" ELSE "added")
    BY <1>5 DEF Says, Parted
  <2>2. 1 \in 1..MaxChunks
    BY StreamAssumption
  <2>3. Path(u, s.out \o <<Frame("delta", i, None, 1)>>, x)
    BY <1>2, <2>1, <2>2, PathDelta
  <2> HIDE DEF r, x, i
  <2> QED
    BY <1>4, <2>3
<1>8. w.items[i] \in Item /\ i \in Indices
  BY <1>3, <1>5 DEF Says, View
<1>9. o \in Item /\ o.kind = "reasoning" /\ o.stage = "part" /\ o.text = n + 1
  <2>1. o \in Item
    BY <1>8, ItemMoves
  <2>2. /\ w.items[i].kind = "reasoning" /\ w.items[i].stage = "part"
        /\ w.items[i].text = n
    BY <1>5 DEF Says
  <2> QED
    BY <1>8, <2>1, <2>2 DEF Item
<1>10. x \in View /\ ~x.failed /\ x.response = "in_progress"
  BY <1>2, <1>3, <1>8, <1>9, PutFacts
<1>11. Says(x, i, "reasoning", "part", n + 1) /\ Elsewhere(w, x, i)
  <2> HIDE DEF o
  <2> QED  BY <1>3, <1>8, <1>9, SaysPut, PutFacts DEF Elsewhere
<1> HIDE DEF r, x, o, i, n
<1>12. ReasoningTold(r, x)
  BY <1>4, <1>5, <1>6, <1>11 DEF ReasoningTold
<1>13. MessageTold(r, x) /\ ReasoningsTold(r, x)
  <2>1. s.message # None => s.message.index # i
    BY <1>2, <1>5 DEF Agrees, MessageTold, Says
  <2>2. \A k \in 1..Len(s.reasonings) : s.reasonings[k].index # i
    BY <1>2, <1>5 DEF Agrees, ReasoningsTold, Says
  <2>3. r.next \in Nat /\ s.next <= r.next
    BY <1>1, <1>4
  <2>4. MessageTold(r, x)
    BY <1>1, <1>2, <1>4, <1>11, <2>1, <2>3, KeepsMessage
  <2>5. ReasoningsTold(r, x)
    BY <1>1, <1>2, <1>4, <1>11, <2>2, <2>3, KeepsReasonings
  <2> QED
    BY <2>4, <2>5
<1>14. CallsTold(r, x)
  <2> SUFFICES ASSUME NEW t \in Begun(s) PROVE CallTold(r, x, s.calls[t])
    BY <1>2, <1>4 DEF Agrees, CallsTold, Begun
  <2>1. CallTold(s, w, s.calls[t])
    BY <1>2 DEF Agrees, CallsTold
  <2>2. s.calls[t].index # i
    BY <1>5, <2>1 DEF Says, CallTold
  <2>3. r.next \in Nat /\ s.next <= r.next
    BY <1>1, <1>4
  <2> QED
    BY <1>1, <1>2, <1>11, <2>2, <2>3, KeepsCall
<1>15. NothingElse(r, x)
  <2>1. NothingElse(s, w)
    BY <1>2 DEF Agrees
  <2>2. Begun(r) = Begun(s)
    BY <1>4 DEF Begun
  <2>3. Holds(r, i) /\ \A j \in Indices : Holds(s, j) => Holds(r, j)
    BY <1>4, <1>6, <2>2 DEF Holds, i
  <2> QED
    BY <1>1, <1>4, <1>5, <1>11, <2>1, <2>3, NothingElseStays
<1>16. r \in Converter
  <2>1. r.out \in Seq(Frames)
    BY <1>7, PathEnds
  <2>2. r = [s EXCEPT !.out = r.out, !.reasoning = r.reasoning]
    BY <1>1, <1>3, <1>4 DEF ReasoningDelta, Emit, Converter, r, i, n
  <2> QED
    BY <1>1, <1>6, <2>1, <2>2 DEF Converter
<1>17. Plays(u, r)
  BY <1>1, <1>4, <1>7, <1>10, <1>12, <1>13, <1>14, <1>15, <1>16 DEF Plays, Agrees
<1> QED
  BY <1>4, <1>6, <1>17 DEF r

\* Text of the answer closes the reasoning and goes to the message.
LEMMA ContentPlays ==
    ASSUME NEW u, NEW s, Plays(u, s), Counted(s),
           MaxChunks > 0, Thoughts(s) <= MaxChunks
    PROVE  LET r == Content(s)
           IN  /\ Plays(u, r) /\ Counted(r) /\ Thoughts(r) = Thoughts(s)
               /\ r.calls = s.calls /\ r.pending = s.pending
<1> DEFINE a == StopReasoning(s)
           b == IF a.message # None THEN a ELSE OpenMessage(a)
           r == MessageDelta(b)
<1>1. Content(s) = r
  BY DEF Content, OpenMessage, MessageDelta
<1>2. /\ Plays(u, a) /\ a.reasoning = None
      /\ a.message = s.message /\ a.calls = s.calls /\ a.next = s.next
      /\ a.pending = s.pending /\ Thoughts(a) = Thoughts(s)
  BY StopReasoningPlays
<1> HIDE DEF a
<1>3. Begun(a) = Begun(s) /\ Counted(a)
  BY <1>2 DEF Begun, Counted
<1>4. /\ Plays(u, b) /\ b.message # None
      /\ b.calls = s.calls /\ b.pending = s.pending
      /\ Thoughts(b) = Thoughts(s) /\ Counted(b)
  <2>1. CASE a.message # None
    BY <1>2, <1>3, <2>1
  <2>2. CASE a.message = None
    <3>1. a.next \in Nat /\ Len(a.reasonings) \in Nat /\ Thoughts(a) = Len(a.reasonings)
      BY <1>2, PlaysFacts DEF Thoughts
    <3>2. Cardinality(Begun(a)) \in Nat /\ Cardinality(Begun(a)) <= Cardinality(Tools)
      BY StreamAssumption, FS_Subset, FS_CardinalityType DEF Begun
    <3>3. a.next = Cardinality(Begun(a)) + Thoughts(a)
      BY <1>3, <2>2, <3>1, <3>2 DEF Counted
    <3>4. a.next \in Indices
      <4>1. Thoughts(a) <= MaxChunks /\ Thoughts(a) \in Nat
        BY <1>2, <3>1
      <4> QED
        BY <3>2, <3>3, <4>1, IndicesNat, StreamAssumption DEF Indices
    <3>5. /\ Plays(u, b) /\ b.message # None
          /\ b.reasoning = a.reasoning /\ b.reasonings = a.reasonings
          /\ b.calls = a.calls /\ b.next = a.next + 1 /\ b.pending = a.pending
      BY <1>2, <2>2, <3>4, OpenMessagePlays
    <3> HIDE DEF b
    <3>6. Thoughts(b) = Thoughts(a) /\ Begun(b) = Begun(a)
      BY <3>5 DEF Thoughts, Begun
    <3>7. Counted(b)
      BY <1>2, <2>2, <3>1, <3>2, <3>3, <3>5, <3>6 DEF Counted, Thoughts
    <3> QED
      BY <1>2, <3>5, <3>6, <3>7
  <2> QED
    BY <2>1, <2>2
<1> HIDE DEF b
<1>5. /\ Plays(u, r) /\ r.message # None
      /\ r.reasoning = b.reasoning /\ r.reasonings = b.reasonings
      /\ r.calls = b.calls /\ r.next = b.next /\ r.pending = b.pending
  BY <1>4, MessageDeltaPlays
<1> HIDE DEF r
<1>6. Thoughts(r) = Thoughts(b) /\ Begun(r) = Begun(b)
  BY <1>5 DEF Thoughts, Begun
<1>7. Counted(r)
  BY <1>4, <1>5, <1>6 DEF Counted
<1> QED
  BY <1>1, <1>4, <1>5, <1>6, <1>7

\* A piece of reasoning.
LEMMA ThinkPlays ==
    ASSUME NEW u, NEW s, Plays(u, s), Counted(s), Thoughts(s) < MaxChunks
    PROVE  LET r == Think(s)
           IN  /\ Plays(u, r) /\ Counted(r) /\ Thoughts(r) <= Thoughts(s) + 1
               /\ r.message = s.message /\ r.calls = s.calls /\ r.pending = s.pending
<1> DEFINE b == IF s.reasoning # None THEN s ELSE OpenReasoning(s)
           r == ReasoningDelta(b)
<1>1. Think(s) = r
  BY DEF Think, OpenReasoning, ReasoningDelta
<1>2. Len(s.reasonings) \in Nat /\ s.next \in Nat /\ Thoughts(s) \in Nat /\ MaxChunks > 0
  <2>1. Len(s.reasonings) \in Nat /\ s.next \in Nat
    BY PlaysFacts
  <2>2. Thoughts(s) \in Nat
    BY <2>1, ThoughtsNat
  <2> QED
    BY <2>1, <2>2, StreamAssumption
<1>3. /\ Plays(u, b) /\ b.reasoning # None
      /\ b.message = s.message /\ b.calls = s.calls /\ b.pending = s.pending
      /\ Thoughts(b) <= Thoughts(s) + 1 /\ Counted(b)
  <2>1. CASE s.reasoning # None
    BY <1>2, <2>1
  <2>2. CASE s.reasoning = None
    <3>1. Cardinality(Begun(s)) \in Nat /\ Cardinality(Begun(s)) <= Cardinality(Tools)
      BY StreamAssumption, FS_Subset, FS_CardinalityType DEF Begun
    <3>2. s.next \in Indices
      BY <1>2, <3>1, IndicesNat, StreamAssumption DEF Indices, Counted
    <3>3. /\ Plays(u, b) /\ b.reasoning # None
          /\ b.message = s.message /\ b.reasonings = s.reasonings
          /\ b.calls = s.calls /\ b.next = s.next + 1 /\ b.pending = s.pending
      BY <2>2, <3>2, OpenReasoningPlays
    <3> HIDE DEF b
    <3>4. Thoughts(b) = Thoughts(s) + 1 /\ Begun(b) = Begun(s)
      BY <1>2, <2>2, <3>3 DEF Thoughts, Begun
    <3>5. Counted(b)
      BY <1>2, <3>1, <3>3, <3>4 DEF Counted
    <3> QED
      BY <1>2, <3>3, <3>4, <3>5
  <2> QED
    BY <2>1, <2>2
<1> HIDE DEF b
<1>4. /\ Plays(u, r) /\ r.reasoning # None
      /\ r.message = b.message /\ r.reasonings = b.reasonings
      /\ r.calls = b.calls /\ r.next = b.next /\ r.pending = b.pending
  BY <1>2, <1>3, ReasoningDeltaPlays
<1> HIDE DEF r
<1>5. Thoughts(r) = Thoughts(b) /\ Begun(r) = Begun(b)
  BY <1>3, <1>4 DEF Thoughts, Begun
<1>6. Counted(r)
  BY <1>3, <1>4, <1>5 DEF Counted
<1> QED
  BY <1>1, <1>3, <1>4, <1>5, <1>6

-----------------------------------------------------------------------------
(* Tool calls.                                                             *)

\* Nothing else has the index of a call.
LEMMA CallApart ==
    ASSUME NEW s, NEW w, Agrees(s, w), NEW t \in Begun(s)
    PROVE  LET i == s.calls[t].index
           IN  /\ s.message # None => s.message.index # i
               /\ s.reasoning # None => s.reasoning.index # i
               /\ \A k \in 1..Len(s.reasonings) : s.reasonings[k].index # i
               /\ \A v \in Begun(s) : v # t => s.calls[v].index # i
<1> DEFINE i == s.calls[t].index
<1>1. w.items[i] = None \/ w.items[i].kind = "function"
  BY DEF Agrees, CallsTold, CallTold, Says
<1> HIDE DEF i
<1>2. s.message # None => s.message.index # i
  BY <1>1 DEF Agrees, MessageTold, Says
<1>3. s.reasoning # None => s.reasoning.index # i
  BY <1>1 DEF Agrees, ReasoningTold, Says
<1>4. \A k \in 1..Len(s.reasonings) : s.reasonings[k].index # i
  BY <1>1 DEF Agrees, ReasoningsTold, Says
<1>5. \A v \in Begun(s) : v # t => s.calls[v].index # i
  BY DEF Agrees, CallsTold, i
<1> QED
  BY <1>2, <1>3, <1>4, <1>5 DEF i

\* One call and its item move on.
WithCall(s, out, t, c) == [s EXCEPT !.out = out, !.calls = [@ EXCEPT ![t] = c]]

\* The call c, as the item o tells it, comes after the call t of s.
Advances(s, t, c, o) ==
    /\ c.index = s.calls[t].index /\ c.added /\ c.sent <= c.text
    /\ c.done => c.sent = c.text
    /\ o.kind = "function" /\ o.text = c.sent
    /\ o.stage = (IF c.done THEN "done" ELSE "added")

LEMMA CallMoves ==
    ASSUME NEW u, NEW s, Plays(u, s), NEW t \in Begun(s), NEW c \in Call, NEW o \in Item,
           Advances(s, t, c, o),
           NEW w \in View, ~w.failed, w.response = "in_progress", Agrees(s, w),
           NEW out, Path(u, out, Put(w, c.index, o))
    PROVE  LET r == WithCall(s, out, t, c)
           IN  /\ Plays(u, r) /\ Begun(r) = Begun(s) /\ r.calls[t] = c
               /\ \A v \in Tools : v # t => r.calls[v] = s.calls[v]
               /\ r.message = s.message /\ r.reasoning = s.reasoning
               /\ r.reasonings = s.reasonings
               /\ r.next = s.next /\ r.pending = s.pending
<1> DEFINE r == WithCall(s, out, t, c)
<1>a. /\ c.index = s.calls[t].index /\ c.added /\ c.sent <= c.text
      /\ c.done => c.sent = c.text
      /\ o.kind = "function" /\ o.text = c.sent
      /\ o.stage = (IF c.done THEN "done" ELSE "added")
  BY DEF Advances
<1> DEFINE i == c.index
           x == Put(w, i, o)
<1>1. /\ s \in Converter /\ s.started /\ ~s.completed /\ s.next \in Nat
      /\ s.calls \in [Tools -> Call \union {None}]
  BY PlaysFacts
<1>2. t \in Tools /\ c # None /\ s.calls[t] # None
  BY NoneAssumption DEF Begun
<1>3. /\ r.calls = [s.calls EXCEPT ![t] = c] /\ r.out = out
      /\ r.message = s.message /\ r.reasoning = s.reasoning /\ r.reasonings = s.reasonings
      /\ r.next = s.next /\ r.pending = s.pending
      /\ r.started = s.started /\ r.completed = s.completed
  BY <1>1 DEF Converter, WithCall
<1>4. r.calls[t] = c /\ \A v \in Tools : v # t => r.calls[v] = s.calls[v]
  BY <1>1, <1>2, <1>3
<1>5. Begun(r) = Begun(s)
  BY <1>2, <1>4 DEF Begun
<1>6. /\ s.message # None => s.message.index # i
      /\ s.reasoning # None => s.reasoning.index # i
      /\ \A k \in 1..Len(s.reasonings) : s.reasonings[k].index # i
      /\ \A v \in Begun(s) : v # t => s.calls[v].index # i
  BY <1>a, CallApart
<1>7. i \in Indices /\ i < s.next
  BY <1>a DEF Agrees, CallsTold, CallTold
<1>8. x \in View /\ ~x.failed /\ x.response = "in_progress"
  BY <1>7, PutFacts
<1>9. Says(x, i, "function", IF c.done THEN "done" ELSE "added", c.sent) /\ Elsewhere(w, x, i)
  BY <1>a, <1>7, SaysPut, PutFacts DEF Elsewhere
<1>b. r = [s EXCEPT !.out = out, !.calls = [@ EXCEPT ![t] = c]]
  BY DEF WithCall
<1> HIDE DEF x, r
<1>10. MessageTold(r, x) /\ ReasoningTold(r, x) /\ ReasoningsTold(r, x)
  <2>1. s.next <= r.next /\ r.next \in Nat
    BY <1>1, <1>3
  <2>2. MessageTold(r, x)
    BY <1>1, <1>3, <1>6, <1>9, <2>1, KeepsMessage
  <2>3. ReasoningTold(r, x)
    BY <1>1, <1>3, <1>6, <1>9, <2>1, KeepsReasoning
  <2>4. ReasoningsTold(r, x)
    BY <1>1, <1>3, <1>6, <1>9, <2>1, KeepsReasonings
  <2> QED
    BY <2>2, <2>3, <2>4
<1>11. CallsTold(r, x)
  <2> SUFFICES ASSUME NEW v \in Begun(s)
               PROVE  /\ CallTold(r, x, r.calls[v])
                      /\ \A q \in Begun(s) : q # v => r.calls[q].index # r.calls[v].index
    BY <1>5 DEF CallsTold
  <2>1. \A q \in Begun(s) : r.calls[q].index = s.calls[q].index
    BY <1>a, <1>4 DEF Begun
  <2>2. \A q \in Begun(s) : q # v => r.calls[q].index # r.calls[v].index
    BY <2>1 DEF Agrees, CallsTold
  <2>3. CASE v = t
    BY <1>a, <1>3, <1>4, <1>7, <1>9, <2>2, <2>3 DEF CallTold
  <2>4. CASE v # t
    <3>1. r.calls[v] = s.calls[v]
      BY <1>4, <2>4 DEF Begun
    <3>2. s.next <= r.next /\ r.next \in Nat
      BY <1>1, <1>3
    <3>3. CallTold(r, x, s.calls[v])
      BY <1>1, <1>6, <1>9, <2>4, <3>2, KeepsCall
    <3> QED
      BY <2>2, <3>1, <3>3
  <2> QED
    BY <2>3, <2>4
<1>12. NothingElse(r, x)
  <2>1. NothingElse(s, w)
    BY DEF Agrees
  <2>2. Holds(r, i)
    BY <1>a, <1>4, <1>5 DEF Holds
  <2>3. ASSUME NEW j \in Indices, Holds(s, j) PROVE Holds(r, j)
    <3>1. CASE \E v \in Begun(s) : s.calls[v].added /\ s.calls[v].index = j
      <4>1. PICK v \in Begun(s) : s.calls[v].added /\ s.calls[v].index = j
        BY <3>1
      <4>2. r.calls[v].added /\ r.calls[v].index = j
        BY <1>a, <1>4, <4>1 DEF Begun
      <4> QED
        BY <1>5, <4>2 DEF Holds
    <3> QED
      BY <1>3, <2>3, <3>1 DEF Holds
  <2>4. r.next \in Nat /\ s.next <= r.next /\ i < r.next
    BY <1>1, <1>3, <1>7
  <2> HIDE DEF i
  <2> QED
    BY <1>1, <1>9, <2>1, <2>2, <2>3, <2>4, NothingElseStays
<1>13. r \in Converter
  <2>1. out \in Seq(Frames) /\ [s.calls EXCEPT ![t] = c] \in [Tools -> Call \union {None}]
    BY <1>1, PathEnds
  <2> QED
    BY <1>1, <1>b, <2>1 DEF Converter
<1>14. Plays(u, r)
  BY <1>1, <1>3, <1>8, <1>10, <1>11, <1>12, <1>13 DEF Plays, Agrees, x
<1> QED
  BY <1>3, <1>4, <1>5, <1>14 DEF r

\* Of the calls only that of t has changed.
OnlyCall(r, s, t) ==
    /\ \A v \in Tools : v # t => r.calls[v] = s.calls[v]
    /\ r.message = s.message /\ r.reasoning = s.reasoning
    /\ r.reasonings = s.reasonings /\ r.pending = s.pending

\* The frames of the call t go on, and no text comes in.
Goes(u, s, r, t) ==
    /\ Plays(u, r) /\ OnlyCall(r, s, t) /\ Begun(r) = Begun(s) /\ r.next = s.next
    /\ r.calls[t].text = s.calls[t].text /\ r.calls[t].index = s.calls[t].index

\* emitToolItem announces a call, now or later.
LEMMA EmitToolItemPlays ==
    ASSUME NEW u, NEW s, Plays(u, s), NEW t \in Begun(s), NEW force \in BOOLEAN
    PROVE  LET r == EmitToolItem(s, t, force)
           IN  /\ Goes(u, s, r, t) /\ (~s.calls[t].done => ~r.calls[t].done)
               /\ force => r.calls[t].added
<1> DEFINE r == EmitToolItem(s, t, force)
           i == s.calls[t].index
           c == [s.calls[t] EXCEPT !.added = TRUE]
           out == s.out \o <<Frame("item_added", i, "function", 0)>>
           o == [kind |-> "function", stage |-> "added", text |-> 0, final |-> None]
<1>1. CASE s.calls[t].added \/ ~(force \/ s.calls[t].named)
  BY <1>1 DEF EmitToolItem, Goes, OnlyCall
<1>2. CASE ~s.calls[t].added /\ (force \/ s.calls[t].named)
  <2>1. PICK w : /\ Path(u, s.out, w) /\ ~w.failed /\ w.response = "in_progress"
                 /\ Agrees(s, w)
    BY DEF Plays
  <2>2. s \in Converter /\ s.calls[t] \in Call /\ s.out \in Seq(Frames) /\ w \in View /\ t \in Tools
    BY <2>1, PlaysFacts, PathEnds DEF Begun
  <2>3. /\ i \in Indices /\ w.items[i] = None /\ ~s.calls[t].done /\ s.calls[t].sent <= s.calls[t].text
    BY <1>2, <2>1 DEF Agrees, CallsTold, CallTold
  <2>4. r = WithCall(s, out, t, c)
    BY <1>2, <2>2 DEF WithCall, EmitToolItem, Emit, Converter
  <2>5. /\ c \in Call /\ c.added /\ c.index = i /\ c.text = s.calls[t].text
        /\ c.sent = s.calls[t].sent /\ c.done = s.calls[t].done
    BY <2>2 DEF Call
  <2>6. o \in Item
    BY DEF Item, Kinds
  <2>7. Path(u, out, Put(w, i, o))
    <3>1. Frame("item_added", i, "function", 0) \in Frames
      BY <2>3, FrameTyped, FinalsNat DEF Events, Kinds
    <3>2. out = Append(s.out, Frame("item_added", i, "function", 0))
      BY <2>2, <3>1, Concatenated
    <3> QED
      BY <2>1, <2>3, <3>2, PathAdded DEF Kinds
  <2>8. s.calls[t].sent = 0
    BY <1>2, <2>1 DEF Agrees, CallsTold, CallTold
  <2>9. o.kind = "function" /\ o.text = c.sent /\ o.stage = (IF c.done THEN "done" ELSE "added")
    BY <2>3, <2>5, <2>8
  <2>10. c.sent <= c.text /\ (c.done => c.sent = c.text)
    BY <2>3, <2>5
  <2> HIDE DEF r, o, c, out
  <2>11. /\ Plays(u, r) /\ Begun(r) = Begun(s) /\ r.calls[t] = c
         /\ \A v \in Tools : v # t => r.calls[v] = s.calls[v]
         /\ r.message = s.message /\ r.reasoning = s.reasoning /\ r.reasonings = s.reasonings
         /\ r.next = s.next /\ r.pending = s.pending
    <3>1. Path(u, out, Put(w, c.index, o)) /\ c.index = s.calls[t].index
      BY <2>5, <2>7 DEF i
    <3>2. Advances(s, t, c, o)
      BY <2>5, <2>9, <2>10 DEF i, Advances
    <3> HIDE DEF i
    <3> QED
      BY <2>1, <2>2, <2>4, <2>5, <2>6, <3>1, <3>2, CallMoves
  <2> QED
    BY <2>5, <2>11 DEF r, Goes, OnlyCall
<1> QED
  BY <1>1, <1>2

\* emitPendingFunctionArgs sends what is new.
LEMMA EmitPendingPlays ==
    ASSUME NEW u, NEW s, Plays(u, s), NEW t \in Begun(s), s.calls[t].text <= MaxChunks
    PROVE  LET r == EmitPendingFunctionArgs(s, t)
           IN  /\ Goes(u, s, r, t) /\ r.calls[t].done = s.calls[t].done
               /\ r.calls[t].added = s.calls[t].added
               /\ s.calls[t].added => r.calls[t].sent = r.calls[t].text
<1> DEFINE r == EmitPendingFunctionArgs(s, t)
           i == s.calls[t].index
           n == s.calls[t].text - s.calls[t].sent
           c == [s.calls[t] EXCEPT !.sent = s.calls[t].text]
           out == s.out \o <<Frame("delta", i, None, n)>>
<1>0. s \in Converter /\ s.calls[t] \in Call /\ s.out \in Seq(Frames) /\ t \in Tools
  BY PlaysFacts DEF Begun
<1>1. CASE ~s.calls[t].added \/ s.calls[t].text <= s.calls[t].sent
  <2>1. PICK w : Agrees(s, w)
    BY DEF Plays
  <2>2. s.calls[t].sent <= s.calls[t].text
    BY <2>1 DEF Agrees, CallsTold, CallTold
  <2>3. s.calls[t].added => s.calls[t].sent = s.calls[t].text
    BY <1>0, <1>1, <2>2 DEF Call
  <2>4. r = s
    BY <1>1 DEF EmitPendingFunctionArgs
  <2> HIDE DEF r
  <2> QED
    BY <2>3, <2>4 DEF r, Goes, OnlyCall
<1>2. CASE s.calls[t].added /\ ~(s.calls[t].text <= s.calls[t].sent)
  <2>1. PICK w : /\ Path(u, s.out, w) /\ ~w.failed /\ w.response = "in_progress"
                 /\ Agrees(s, w)
    BY DEF Plays
  <2>2. w \in View
    BY <2>1, PathEnds
  <2>3. /\ i \in Indices /\ s.calls[t].sent <= s.calls[t].text
        /\ s.calls[t].done => s.calls[t].sent = s.calls[t].text
        /\ Says(w, i, "function", IF s.calls[t].done THEN "done" ELSE "added", s.calls[t].sent)
    BY <1>2, <2>1 DEF Agrees, CallsTold, CallTold
  <2>4. /\ s.calls[t].text \in Nat /\ s.calls[t].sent \in Nat
        /\ ~s.calls[t].done /\ n \in 1..MaxChunks /\ s.calls[t].sent + n = s.calls[t].text
    BY <1>0, <1>2, <2>3, StreamAssumption DEF Call
  <2>5. r = WithCall(s, out, t, c)
    BY <1>0, <1>2 DEF WithCall, EmitPendingFunctionArgs, Emit, Converter
  <2>6. /\ c \in Call /\ c.added /\ c.index = i /\ c.text = s.calls[t].text
        /\ c.sent = s.calls[t].text /\ c.done = s.calls[t].done
    BY <1>0, <1>2, <2>4 DEF Call
  <2> DEFINE o == [w.items[i] EXCEPT !.text = @ + n]
  <2>7. Path(u, out, Put(w, i, o))
    <3>1. /\ w.items[i] # None
          /\ w.items[i].stage = (IF w.items[i].kind \in Parted THEN "part" ELSE "added")
      BY <2>3, <2>4 DEF Says, Parted
    <3> HIDE DEF n, i
    <3> QED
      BY <2>1, <2>3, <2>4, <3>1, PathDelta
  <2>8. w.items[i] \in Item /\ n \in Nat
    BY <2>2, <2>3, <2>4, StreamAssumption DEF Says, View
  <2>9. o \in Item /\ o.kind = "function" /\ o.text = c.sent
        /\ o.stage = (IF c.done THEN "done" ELSE "added")
    <3>1. o \in Item
      <4> HIDE DEF n, i
      <4> QED  BY <2>8, ItemMoves
    <3>2. /\ w.items[i].kind = "function" /\ w.items[i].stage = "added"
          /\ w.items[i].text = s.calls[t].sent
      BY <2>3, <2>4 DEF Says
    <3> HIDE DEF n, i, c
    <3> QED
      BY <2>4, <2>6, <2>8, <3>1, <3>2 DEF Item
  <2>10. c.sent <= c.text /\ (c.done => c.sent = c.text)
    BY <2>4, <2>6
  <2> HIDE DEF r, o, c, out
  <2>11. /\ Plays(u, r) /\ Begun(r) = Begun(s) /\ r.calls[t] = c
         /\ \A v \in Tools : v # t => r.calls[v] = s.calls[v]
         /\ r.message = s.message /\ r.reasoning = s.reasoning /\ r.reasonings = s.reasonings
         /\ r.next = s.next /\ r.pending = s.pending
    <3>1. Path(u, out, Put(w, c.index, o)) /\ c.index = s.calls[t].index
      BY <2>6, <2>7 DEF i
    <3>2. Advances(s, t, c, o)
      BY <2>6, <2>9, <2>10 DEF i, Advances
    <3> HIDE DEF i
    <3> QED
      BY <1>0, <2>1, <2>2, <2>5, <2>6, <2>9, <3>1, <3>2, CallMoves
  <2> QED
    BY <1>2, <2>6, <2>11 DEF r, Goes, OnlyCall
<1> QED
  BY <1>1, <1>2

\* A finish reason closes a call, whatever was announced of it before.
LEMMA FinishCallPlays ==
    ASSUME NEW u, NEW s, Plays(u, s), NEW t \in Begun(s), s.calls[t].text <= MaxChunks
    PROVE  LET r == FinishCall(s, t)
           IN  Goes(u, s, r, t) /\ r.calls[t].done
<1> DEFINE a == EmitToolItem(s, t, TRUE)
           e == EmitPendingFunctionArgs(a, t)
           r == FinishCall(s, t)
<1>1. Goes(u, s, a, t) /\ a.calls[t].added
  BY EmitToolItemPlays
<1> HIDE DEF a
<1>2. /\ Goes(u, s, e, t) /\ Plays(u, e) /\ Begun(e) = Begun(s)
      /\ e.calls[t].added /\ e.calls[t].sent = e.calls[t].text
  <2>1. t \in Begun(a) /\ a.calls[t].text <= MaxChunks /\ Plays(u, a)
    BY <1>1 DEF Goes
  <2>2. Goes(u, a, e, t) /\ e.calls[t].added = a.calls[t].added
        /\ (a.calls[t].added => e.calls[t].sent = e.calls[t].text)
    BY <2>1, EmitPendingPlays
  <2> HIDE DEF e
  <2> QED
    BY <1>1, <2>2 DEF Goes, OnlyCall
<1> DEFINE i == e.calls[t].index
           n == e.calls[t].text
           args == Arguments(n)
           c == [e.calls[t] EXCEPT !.done = TRUE]
           out == e.out \o <<Frame("text_done", i, None, args), Frame("item_done", i, None, args)>>
<1>3. r = IF e.calls[t].done THEN e
          ELSE [Emit(e, <<Frame("text_done", i, None, args), Frame("item_done", i, None, args)>>)
                  EXCEPT !.calls[t].done = TRUE]
  BY DEF FinishCall, a
<1> HIDE DEF e, r
<1>4. CASE e.calls[t].done
  BY <1>2, <1>3, <1>4 DEF r
<1>5. CASE ~e.calls[t].done
  <2>1. PICK w : /\ Path(u, e.out, w) /\ ~w.failed /\ w.response = "in_progress"
                 /\ Agrees(e, w)
    BY <1>2 DEF Plays
  <2>2. /\ e \in Converter /\ e.calls[t] \in Call /\ w \in View /\ t \in Tools /\ t \in Begun(e)
    BY <1>2, <2>1, PlaysFacts, PathEnds DEF Begun
  <2>3. Says(w, i, "function", "added", e.calls[t].sent)
    BY <1>2, <1>5, <2>1, <2>2 DEF Agrees, CallsTold, CallTold
  <2>4. /\ i \in Indices /\ w.items[i] # None /\ w.items[i] \in Item
        /\ w.items[i].kind = "function" /\ w.items[i].stage = "added" /\ n = w.items[i].text
    BY <1>2, <2>2, <2>3 DEF Says, View
  <2> DEFINE o == [w.items[i] EXCEPT !.stage = "done", !.final = args]
  <2>5. Path(u, out, Put(w, i, o))
    <3> HIDE DEF i, n
    <3> QED  BY <2>1, <2>4, PathCallDone
  <2>6. r = WithCall(e, out, t, c)
    BY <1>3, <1>5, <2>2 DEF WithCall, Emit, Converter
  <2>7. /\ c \in Call /\ c.added /\ c.index = i /\ c.text = n
        /\ c.sent = n /\ c.done
    BY <1>2, <2>2 DEF Call
  <2>8. o \in Item /\ o.kind = "function" /\ o.stage = "done" /\ o.text = n
    <3>1. args \in Finals
      BY <2>4, FinalsNat DEF Item
    <3> HIDE DEF args, n, i
    <3> QED
      BY <2>4, <3>1, ItemMoves DEF Item
  <2>9. n \in Nat /\ c.index = e.calls[t].index
    BY <2>2, <2>7 DEF Call
  <2> HIDE DEF o, c, out, n
  <2>10. Path(u, out, Put(w, c.index, o))
    BY <2>5, <2>7
  <2>11. Advances(e, t, c, o)
    BY <2>7, <2>8, <2>9 DEF Advances
  <2> HIDE DEF i
  <2>12. /\ Plays(u, r) /\ Begun(r) = Begun(e) /\ r.calls[t] = c
         /\ \A v \in Tools : v # t => r.calls[v] = e.calls[v]
         /\ r.message = e.message /\ r.reasoning = e.reasoning
         /\ r.reasonings = e.reasonings /\ r.next = e.next /\ r.pending = e.pending
    BY <1>2, <2>1, <2>2, <2>6, <2>7, <2>8, <2>10, <2>11, CallMoves
  <2> QED
    BY <1>2, <2>7, <2>9, <2>12 DEF Goes, OnlyCall, n, r
<1> QED
  BY <1>4, <1>5

\* A part of a call that is new gives it an index; what it brings is kept.
BeginCall(s, t) ==
    [s EXCEPT !.next = @ + 1,
        !.calls[t] = [index |-> s.next, named |-> FALSE, text |-> 0,
                      sent |-> 0, added |-> FALSE, done |-> FALSE]]

FillCall(s, part) ==
    [s EXCEPT !.calls[part.tool].named = @ \/ part.named,
              !.calls[part.tool].text = IF part.args THEN @ + 1 ELSE @]

LEMMA BeginCallPlays ==
    ASSUME NEW u, NEW s, Plays(u, s), NEW t \in Tools, s.calls[t] = None, s.next \in Indices
    PROVE  LET r == BeginCall(s, t)
           IN  /\ Plays(u, r) /\ OnlyCall(r, s, t)
               /\ Begun(r) = Begun(s) \union {t} /\ r.next = s.next + 1
               /\ r.calls[t].text = 0 /\ ~r.calls[t].done
<1> DEFINE r == BeginCall(s, t)
           i == s.next
           c == [index |-> i, named |-> FALSE, text |-> 0,
                 sent |-> 0, added |-> FALSE, done |-> FALSE]
<1>1. /\ s \in Converter /\ s.started /\ ~s.completed /\ s.next \in Nat
      /\ s.calls \in [Tools -> Call \union {None}]
  BY PlaysFacts
<1>2. PICK w : /\ Path(u, s.out, w) /\ ~w.failed /\ w.response = "in_progress"
               /\ Agrees(s, w)
  BY DEF Plays
<1>3. /\ c \in Call /\ c.index = i /\ c.text = 0 /\ c.sent = 0 /\ ~c.added /\ ~c.done
  BY <1>1 DEF Call
<1>4. c # None
  BY <1>3, NoneAssumption
<1>5. /\ r.calls = [s.calls EXCEPT ![t] = c] /\ r.next = i + 1 /\ r.out = s.out
      /\ r.message = s.message /\ r.reasoning = s.reasoning /\ r.reasonings = s.reasonings
      /\ r.pending = s.pending /\ r.started = s.started /\ r.completed = s.completed
      /\ r = [s EXCEPT !.calls = [s.calls EXCEPT ![t] = c], !.next = i + 1]
  BY <1>1 DEF BeginCall, Converter
<1> HIDE DEF r, c
<1>6. r.calls[t] = c /\ \A v \in Tools : v # t => r.calls[v] = s.calls[v]
  BY <1>1, <1>5
<1>7. Begun(r) = Begun(s) \union {t} /\ t \notin Begun(s)
  BY <1>4, <1>6 DEF Begun
<1>8. /\ s.message # None => s.message.index # i
      /\ s.reasoning # None => s.reasoning.index # i
      /\ \A k \in 1..Len(s.reasonings) : s.reasonings[k].index # i
      /\ \A v \in Begun(s) : s.calls[v].index # i
      /\ w.items[i] = None
  BY <1>2, BelowNext
<1>9. Elsewhere(w, w, i) /\ s.next <= r.next /\ r.next \in Nat /\ i < r.next
  BY <1>1, <1>5 DEF Elsewhere
<1>10. MessageTold(r, w) /\ ReasoningTold(r, w) /\ ReasoningsTold(r, w)
  <2>1. MessageTold(r, w)
    BY <1>1, <1>2, <1>5, <1>8, <1>9, KeepsMessage
  <2>2. ReasoningTold(r, w)
    BY <1>1, <1>2, <1>5, <1>8, <1>9, KeepsReasoning
  <2>3. ReasoningsTold(r, w)
    BY <1>1, <1>2, <1>5, <1>8, <1>9, KeepsReasonings
  <2> QED
    BY <2>1, <2>2, <2>3
<1>11. CallsTold(r, w)
  <2>1. CallTold(r, w, c)
    BY <1>3, <1>8, <1>9 DEF CallTold
  <2>2. ASSUME NEW v \in Begun(s) PROVE CallTold(r, w, s.calls[v])
    BY <1>1, <1>2, <1>8, <1>9, KeepsCall
  <2>3. \A v \in Begun(s) : r.calls[v] = s.calls[v]
    BY <1>6, <1>7 DEF Begun
  <2>4. \A v \in Begun(r), q \in Begun(r) : q # v => r.calls[q].index # r.calls[v].index
    <3>1. \A v \in Begun(s), q \in Begun(s) : q # v => s.calls[q].index # s.calls[v].index
      BY <1>2 DEF Agrees, CallsTold
    <3> QED
      BY <1>3, <1>6, <1>7, <1>8, <2>3, <3>1
  <2> QED
    BY <1>6, <1>7, <2>1, <2>2, <2>3, <2>4 DEF CallsTold
<1>12. NothingElse(r, w)
  <2> SUFFICES ASSUME NEW j \in Shown(w) PROVE j < r.next /\ Holds(r, j)
    BY DEF NothingElse
  <2>1. j < s.next /\ Holds(s, j) /\ j \in Nat
    BY <1>2, IndicesNat DEF Agrees, NothingElse, Shown
  <2>2. j < r.next
    BY <1>1, <1>5, <2>1
  <2>3. \A v \in Begun(s) : v \in Begun(r) /\ r.calls[v] = s.calls[v]
    BY <1>6, <1>7 DEF Begun
  <2>4. Holds(r, j)
    BY <1>5, <2>1, <2>3 DEF Holds
  <2> QED
    BY <2>2, <2>4
<1>13. r \in Converter
  <2>1. [s.calls EXCEPT ![t] = c] \in [Tools -> Call \union {None}] /\ i + 1 \in Nat
    BY <1>1, <1>3
  <2> QED
    BY <1>1, <1>5, <2>1 DEF Converter
<1>14. Plays(u, r)
  BY <1>1, <1>2, <1>5, <1>10, <1>11, <1>12, <1>13 DEF Plays, Agrees
<1> QED
  BY <1>3, <1>5, <1>6, <1>7, <1>14 DEF OnlyCall, r

LEMMA FillCallPlays ==
    ASSUME NEW u, NEW s, Plays(u, s), NEW part \in Part, part.tool \in Begun(s),
           ~s.calls[part.tool].done
    PROVE  LET r == FillCall(s, part)
               t == part.tool
           IN  /\ Plays(u, r) /\ OnlyCall(r, s, t)
               /\ Begun(r) = Begun(s) /\ r.next = s.next
               /\ r.calls[t].text <= s.calls[t].text + 1 /\ ~r.calls[t].done
<1> DEFINE r == FillCall(s, part)
           t == part.tool
           old == s.calls[t]
           c == [old EXCEPT !.named = @ \/ part.named,
                            !.text = IF part.args THEN @ + 1 ELSE @]
<1>1. /\ s \in Converter /\ s.started /\ ~s.completed /\ s.next \in Nat
      /\ s.calls \in [Tools -> Call \union {None}] /\ old \in Call /\ t \in Tools
  BY PlaysFacts DEF Begun
<1>2. PICK w : /\ Path(u, s.out, w) /\ ~w.failed /\ w.response = "in_progress"
               /\ Agrees(s, w)
  BY DEF Plays
<1>3. /\ c \in Call /\ c.index = old.index /\ c.sent = old.sent /\ c.added = old.added
      /\ c.done = old.done /\ old.text <= c.text /\ c.text <= old.text + 1
  <2>1. old.text \in Nat /\ old.named \in BOOLEAN /\ part.named \in BOOLEAN /\ part.args \in BOOLEAN
    BY <1>1 DEF Call, Part
  <2>2. (IF part.args THEN old.text + 1 ELSE old.text) \in Nat
    BY <2>1
  <2>3. (old.named \/ part.named) \in BOOLEAN
    BY <2>1
  <2> DEFINE m == old.named \/ part.named
             n == IF part.args THEN old.text + 1 ELSE old.text
  <2>4. c = [old EXCEPT !.named = m, !.text = n]
    BY <1>1 DEF Call
  <2>5. old.text <= n /\ n <= old.text + 1
    BY <2>1
  <2> HIDE DEF m, n, c, old
  <2>6. m \in BOOLEAN /\ n \in Nat
    BY <2>2, <2>3 DEF m, n
  <2>7. c.text = n /\ c.index = old.index /\ c.sent = old.sent /\ c.added = old.added /\ c.done = old.done
    BY <1>1, <2>4 DEF Call
  <2>8. c \in Call
    BY <1>1, <2>4, <2>6 DEF Call
  <2> QED
    BY <2>5, <2>7, <2>8
<1>4. c # None
  BY <1>3, NoneAssumption
<1>5. /\ r.calls = [s.calls EXCEPT ![t] = c] /\ r.next = s.next /\ r.out = s.out
      /\ r.message = s.message /\ r.reasoning = s.reasoning /\ r.reasonings = s.reasonings
      /\ r.pending = s.pending /\ r.started = s.started /\ r.completed = s.completed
      /\ r = [s EXCEPT !.calls = [s.calls EXCEPT ![t] = c]]
  <2>1. [s.calls EXCEPT ![t].named = @ \/ part.named,
                        ![t].text = IF part.args THEN @ + 1 ELSE @] = [s.calls EXCEPT ![t] = c]
    BY <1>1 DEF Call
  <2>2. r = [s EXCEPT !.calls = [s.calls EXCEPT ![t].named = @ \/ part.named,
                                   ![t].text = IF part.args THEN @ + 1 ELSE @]]
    BY <1>1 DEF FillCall, Converter
  <2>3. r = [s EXCEPT !.calls = [s.calls EXCEPT ![t] = c]]
    BY <2>1, <2>2
  <2> HIDE DEF r, c
  <2> QED
    BY <1>1, <2>3 DEF Converter
<1> HIDE DEF r, c
<1>6. r.calls[t] = c /\ \A v \in Tools : v # t => r.calls[v] = s.calls[v]
  BY <1>1, <1>5
<1>7. Begun(r) = Begun(s)
  BY <1>4, <1>6 DEF Begun
<1>8. CallTold(s, w, old)
  BY <1>2 DEF Agrees, CallsTold
<1>9. CallsTold(r, w)
  <2>1. CallTold(r, w, c)
    <3>1. old.sent \in Nat /\ old.text \in Nat /\ c.text \in Nat
      BY <1>1, <1>3 DEF Call
    <3> HIDE DEF old
    <3> QED
      BY <1>3, <1>5, <1>8, <3>1 DEF CallTold, old
  <2>2. ASSUME NEW v \in Begun(s) PROVE CallTold(r, w, s.calls[v])
    BY <1>2, <1>5 DEF Agrees, CallsTold, CallTold
  <2>3. \A v \in Begun(s) : v # t => r.calls[v] = s.calls[v]
    BY <1>6 DEF Begun
  <2>4. \A v \in Begun(s) : r.calls[v].index = s.calls[v].index
    BY <1>3, <1>6, <2>3
  <2>5. \A v \in Begun(s), q \in Begun(s) : q # v => s.calls[q].index # s.calls[v].index
    BY <1>2 DEF Agrees, CallsTold
  <2>6. \A v \in Begun(s) : CallTold(r, w, r.calls[v])
    BY <1>6, <2>1, <2>2, <2>3
  <2> QED
    BY <1>7, <2>4, <2>5, <2>6 DEF CallsTold
<1>10. NothingElse(r, w)
  <2> SUFFICES ASSUME NEW j \in Shown(w) PROVE j < r.next /\ Holds(r, j)
    BY DEF NothingElse
  <2>1. j < s.next /\ Holds(s, j)
    BY <1>2 DEF Agrees, NothingElse
  <2>2. \A v \in Begun(s) : r.calls[v].index = s.calls[v].index /\ r.calls[v].added = s.calls[v].added
    BY <1>3, <1>6 DEF Begun
  <2> QED
    BY <1>5, <1>7, <2>1, <2>2 DEF Holds
<1>11. r \in Converter
  <2>1. [s.calls EXCEPT ![t] = c] \in [Tools -> Call \union {None}]
    BY <1>1, <1>3
  <2> QED
    BY <1>1, <1>5, <2>1 DEF Converter
<1>12. MessageTold(r, w) /\ ReasoningTold(r, w) /\ ReasoningsTold(r, w)
  BY <1>2, <1>5 DEF Agrees, MessageTold, ReasoningTold, ReasoningsTold
<1>13. Plays(u, r)
  BY <1>1, <1>2, <1>5, <1>9, <1>10, <1>11, <1>12 DEF Plays, Agrees
<1> QED
  BY <1>3, <1>5, <1>6, <1>7, <1>13 DEF OnlyCall, r

\* Every call is open, and none has more than n pieces of text.
CallsOpen(s, n) == \A t \in Begun(s) : ~s.calls[t].done /\ s.calls[t].text <= n

LEMMA ToolCallPlays ==
    ASSUME NEW u, NEW s, Plays(u, s), Counted(s), Thoughts(s) <= MaxChunks,
           NEW part \in Part, NEW n \in Nat, n < MaxChunks, CallsOpen(s, n)
    PROVE  LET r == ToolCall(s, part)
           IN  /\ Plays(u, r) /\ Counted(r) /\ Thoughts(r) = Thoughts(s)
               /\ CallsOpen(r, n + 1) /\ r.message = s.message /\ r.pending = s.pending
<1> DEFINE t == part.tool
           known == IF s.calls[t] # None THEN s ELSE BeginCall(s, t)
           filled == FillCall(known, part)
           a == EmitToolItem(filled, t, FALSE)
           r == EmitPendingFunctionArgs(a, t)
<1>1. ToolCall(s, part) = r
  BY DEF ToolCall, BeginCall, FillCall
<1>2. t \in Tools /\ \A v \in Tools : s.calls[v] # None => s.calls[v] \in Call
  BY PlaysFacts DEF Part, Begun
<1>3. /\ Plays(u, known) /\ OnlyCall(known, s, t) /\ Begun(known) = Begun(s) \union {t}
      /\ ~known.calls[t].done /\ known.calls[t].text <= n
      /\ Counted(known)
  <2>1. CASE s.calls[t] # None
    BY <1>2, <2>1 DEF OnlyCall, CallsOpen, Begun
  <2>2. CASE s.calls[t] = None
    <3>1. /\ s.next \in Nat /\ Len(s.reasonings) \in Nat /\ Thoughts(s) \in Nat
      BY PlaysFacts, ThoughtsNat
    <3>2. t \notin Begun(s) /\ Begun(s) \union {t} \subseteq Tools
      BY <1>2, <2>2 DEF Begun
    <3>3. IsFiniteSet(Begun(s)) /\ Cardinality(Begun(s)) \in Nat
      BY StreamAssumption, FS_Subset, FS_CardinalityType DEF Begun
    <3>4. Cardinality(Begun(s) \union {t}) = Cardinality(Begun(s)) + 1
      BY <3>2, <3>3, FS_AddElement
    <3>5. Cardinality(Begun(s) \union {t}) <= Cardinality(Tools)
      BY <3>2, StreamAssumption, FS_Subset
    <3>6. s.next \in Indices
      <4>1. s.next <= MaxChunks + Cardinality(Tools)
        <5>1. s.next <= Cardinality(Begun(s)) + Thoughts(s) + 1
          BY <3>1, <3>3 DEF Counted
        <5> QED
          BY <3>1, <3>3, <3>4, <3>5, <5>1, IndicesNat, StreamAssumption
      <4> QED
        BY <3>1, <4>1, IndicesNat, StreamAssumption DEF Indices
    <3>7. /\ Plays(u, known) /\ OnlyCall(known, s, t)
          /\ Begun(known) = Begun(s) \union {t} /\ known.next = s.next + 1
          /\ known.calls[t].text = 0 /\ ~known.calls[t].done
      BY <1>2, <2>2, <3>6, BeginCallPlays
    <3> HIDE DEF known
    <3>8. Thoughts(known) = Thoughts(s) /\ known.message = s.message
      BY <3>7 DEF OnlyCall, Thoughts
    <3>9. Counted(known)
      BY <3>1, <3>3, <3>4, <3>7, <3>8 DEF Counted
    <3> QED
      BY <3>7, <3>9
  <2> QED
    BY <2>1, <2>2
<1> HIDE DEF known
<1>4. /\ Plays(u, filled) /\ OnlyCall(filled, known, t)
      /\ Begun(filled) = Begun(known) /\ filled.next = known.next
      /\ filled.calls[t].text <= known.calls[t].text + 1 /\ ~filled.calls[t].done
  <2>1. t \in Begun(known)
    BY <1>3
  <2> QED
    BY <1>3, <2>1, FillCallPlays
<1> HIDE DEF filled
<1>5. Goes(u, filled, a, t) /\ ~a.calls[t].done
  <2>1. t \in Begun(filled)
    BY <1>3, <1>4
  <2>2. Goes(u, filled, a, t)
    BY <1>4, <2>1, EmitToolItemPlays
  <2>3. ~a.calls[t].done
    BY <1>4, <2>1, EmitToolItemPlays
  <2> QED
    BY <2>2, <2>3
<1> HIDE DEF a
<1>6. a.calls[t].text <= n + 1
  <2>1. t \in Begun(known) /\ t \in Begun(filled)
    BY <1>3, <1>4
  <2>2. known.calls[t].text \in Nat /\ filled.calls[t].text \in Nat
    BY <1>3, <1>4, <2>1, PlaysFacts DEF Call
  <2> QED
    BY <1>3, <1>4, <1>5, <2>2 DEF Goes
<1>7. Goes(u, a, r, t) /\ r.calls[t].done = a.calls[t].done
  <2>1. t \in Begun(a) /\ Plays(u, a)
    BY <1>3, <1>4, <1>5 DEF Goes
  <2>2. a.calls[t].text \in Nat
    BY <2>1, PlaysFacts DEF Call
  <2>3. a.calls[t].text <= MaxChunks
    BY <1>6, <2>2, StreamAssumption
  <2> QED
    BY <2>1, <2>3, EmitPendingPlays
<1> HIDE DEF r
<1>8. /\ r.message = s.message /\ r.pending = s.pending /\ r.next = known.next
      /\ r.reasoning = s.reasoning /\ r.reasonings = s.reasonings
      /\ Begun(r) = Begun(known) /\ known.message = s.message
      /\ known.reasoning = s.reasoning /\ known.reasonings = s.reasonings
  BY <1>3, <1>4, <1>5, <1>7 DEF OnlyCall, Goes
<1>9. Thoughts(r) = Thoughts(s) /\ Thoughts(known) = Thoughts(s)
  BY <1>8 DEF Thoughts
<1>10. Counted(r)
  BY <1>3, <1>8, <1>9 DEF Counted
<1>11. CallsOpen(r, n + 1)
  <2> SUFFICES ASSUME NEW v \in Begun(r) PROVE ~r.calls[v].done /\ r.calls[v].text <= n + 1
    BY DEF CallsOpen
  <2>1. CASE v = t
    BY <1>4, <1>5, <1>6, <1>7, <2>1 DEF Goes
  <2>2. CASE v # t
    <3>1. v \in Tools /\ v \in Begun(s)
      BY <1>3, <1>8, <2>2 DEF Begun
    <3>2. r.calls[v] = s.calls[v]
      BY <1>3, <1>4, <1>5, <1>7, <2>2, <3>1 DEF OnlyCall, Goes
    <3>3. s.calls[v].text \in Nat /\ s.calls[v].text <= n /\ ~s.calls[v].done
      BY <3>1, PlaysFacts DEF CallsOpen, Call
    <3> QED
      BY <3>2, <3>3
  <2> QED
    BY <2>1, <2>2
<1> QED
  BY <1>1, <1>7, <1>8, <1>9, <1>10, <1>11 DEF Goes

\* tool_calls, even an empty list, closes the text, and nothing but calls follows.
LEMMA ToolCallsPlays ==
    ASSUME NEW u, NEW s, Plays(u, s), Counted(s), Thoughts(s) <= MaxChunks,
           NEW tools \in {<<>>} \union {<<p>> : p \in Part},
           NEW n \in Nat, n < MaxChunks, CallsOpen(s, n)
    PROVE  LET r == ToolCalls(s, tools)
           IN  /\ Plays(u, r) /\ Counted(r) /\ Thoughts(r) = Thoughts(s)
               /\ CallsOpen(r, n + 1) /\ r.pending = s.pending
               /\ r.message # None => r.message.done
<1> DEFINE a == StopReasoning(s)
           b == CloseMessage(a)
<1>1. /\ Plays(u, a) /\ a.message = s.message /\ a.calls = s.calls /\ a.next = s.next
      /\ a.pending = s.pending /\ Thoughts(a) = Thoughts(s)
  BY StopReasoningPlays
<1> HIDE DEF a
<1>2. /\ Plays(u, b) /\ (b.message = None <=> a.message = None)
      /\ b.message # None => b.message.done
      /\ b.reasoning = a.reasoning /\ b.reasonings = a.reasonings
      /\ b.calls = a.calls /\ b.next = a.next /\ b.pending = a.pending
  BY <1>1, CloseMessagePlays
<1>3. ToolCalls(s, tools) = IF tools = <<>> THEN b ELSE ToolCall(b, Head(tools))
  BY DEF ToolCalls, a
<1> HIDE DEF b
<1>4. Thoughts(b) = Thoughts(s) /\ Begun(b) = Begun(s) /\ Begun(a) = Begun(s)
  BY <1>1, <1>2 DEF Thoughts, Begun
<1>5. Counted(b)
  BY <1>1, <1>2, <1>4 DEF Counted
<1>6. CallsOpen(b, n) /\ CallsOpen(b, n + 1)
  <2>1. \A t \in Begun(s) : s.calls[t].text \in Nat
    BY PlaysFacts DEF Call
  <2> QED
    BY <1>1, <1>2, <1>4, <2>1 DEF CallsOpen
<1>7. CASE tools = <<>>
  BY <1>1, <1>2, <1>3, <1>4, <1>5, <1>6, <1>7
<1>8. CASE tools # <<>>
  <2>1. PICK p \in Part : tools = <<p>>
    BY <1>8
  <2>2. Head(tools) = p
    BY <2>1
  <2>3. Thoughts(b) <= MaxChunks
    BY <1>4
  <2>4. /\ Plays(u, ToolCall(b, p)) /\ Counted(ToolCall(b, p))
        /\ Thoughts(ToolCall(b, p)) = Thoughts(b) /\ CallsOpen(ToolCall(b, p), n + 1)
        /\ ToolCall(b, p).message = b.message /\ ToolCall(b, p).pending = b.pending
    BY <1>2, <1>5, <1>6, <2>3, ToolCallPlays
  <2>5. ToolCalls(s, tools) = ToolCall(b, p)
    BY <1>3, <1>8, <2>2
  <2> QED
    BY <1>1, <1>2, <1>4, <2>4, <2>5
<1> QED
  BY <1>7, <1>8

-----------------------------------------------------------------------------
(* The finish reason.                                                      *)

\* Among some of the begun calls one comes last.
LEMMA LastBegunIn ==
    ASSUME NEW s, \A t \in Begun(s) : s.calls[t].index \in Nat,
           NEW T \in SUBSET Begun(s), T # {}
    PROVE  LastBegun(s, T) \in T
<1> DEFINE Latest(t, S) == \A v \in S : s.calls[v].index <= s.calls[t].index
           C == {S \in SUBSET Begun(s) : S # {} /\ \A t \in S : ~Latest(t, S)}
<1>1. IsFiniteSet(Begun(s))
  BY StreamAssumption, FS_Subset DEF Begun
<1>2. C = {}
  <2> SUFFICES ASSUME C # {} PROVE FALSE
    OBVIOUS
  <2>0. C \in SUBSET (SUBSET Begun(s))
    OBVIOUS
  <2>1. \A S \in C : S \in SUBSET Begun(s) /\ S # {} /\ \A t \in S : ~Latest(t, S)
    OBVIOUS
  <2>2. \A S \in SUBSET Begun(s) : S \notin C /\ S # {} => \E t \in S : Latest(t, S)
    OBVIOUS
  <2> HIDE DEF C
  <2>3. PICK S \in C : \A R \in C : R \subseteq S => R = S
    BY <1>1, <2>0, Smallest
  <2>4. PICK t \in S : TRUE
    BY <2>1
  <2>5. t \in Begun(s) /\ s.calls[t].index \in Nat
    BY <2>1
  <2>6. CASE S = {t}
    <3>1. Latest(t, S)
      BY <2>5, <2>6
    <3> QED
      BY <2>1, <3>1
  <2>7. CASE S # {t}
    <3>1. S \ {t} \notin C /\ S \ {t} # {} /\ S \ {t} \in SUBSET Begun(s)
      BY <2>1, <2>3, <2>7
    <3>2. PICK l \in S \ {t} : Latest(l, S \ {t})
      BY <2>2, <3>1
    <3>3. l \in S /\ s.calls[l].index \in Nat
      BY <2>1
    <3>4. CASE s.calls[t].index <= s.calls[l].index
      <4>1. Latest(l, S)
        BY <3>2, <3>4
      <4> QED
        BY <2>1, <3>3, <4>1
    <3>5. CASE ~(s.calls[t].index <= s.calls[l].index)
      <4>1. Latest(t, S)
        <5> SUFFICES ASSUME NEW v \in S PROVE s.calls[v].index <= s.calls[t].index
          OBVIOUS
        <5>1. s.calls[v].index \in Nat
          BY <2>1
        <5>2. CASE v = t
          BY <5>1, <5>2
        <5>3. CASE v # t
          <6>1. s.calls[v].index <= s.calls[l].index
            BY <3>2, <5>3
          <6> QED
            BY <2>5, <3>3, <3>5, <5>1, <6>1
        <5> QED
          BY <5>2, <5>3
      <4> QED
        BY <2>1, <4>1
    <3> QED
      BY <3>4, <3>5
  <2> QED
    BY <2>6, <2>7
<1>3. \E t \in T : Latest(t, T)
  BY <1>2
<1>4. \E t \in T : \A v \in T : s.calls[v].index <= s.calls[t].index
  BY <1>3
<1> QED
  BY <1>4 DEF LastBegun

\* The converter when the calls of T are finished.
Finished(s) ==
    CHOOSE g : g = [T \in SUBSET Begun(s) |->
                      IF T = {} THEN StopReasoning(CloseMessage(s))
                      ELSE FinishCall(g[T \ {LastBegun(s, T)}], LastBegun(s, T))]

LEMMA FinishReasonIs ==
    ASSUME NEW s
    PROVE  FinishReason(s) = [Finished(s)[Begun(s)] EXCEPT !.pending = TRUE]
BY DEF FinishReason, Finished

\* The recursion has a solution.
LEMMA FinishedDefined ==
    ASSUME NEW s, \A t \in Begun(s) : s.calls[t].index \in Nat
    PROVE  Finished(s) = [T \in SUBSET Begun(s) |->
                            IF T = {} THEN StopReasoning(CloseMessage(s))
                            ELSE FinishCall(Finished(s)[T \ {LastBegun(s, T)}], LastBegun(s, T))]
<1> DEFINE S == Begun(s)
           Less(T) == T \ {LastBegun(s, T)}
           Value(g, T) == IF T = {} THEN StopReasoning(CloseMessage(s))
                          ELSE FinishCall(g[T \ {LastBegun(s, T)}], LastBegun(s, T))
           Upto(g, n) == \A T \in SUBSET S : Cardinality(T) <= n => g[T] = Value(g, T)
           After(g) == [T \in SUBSET S |-> Value(g, T)]
           C == {n \in Nat : \E g : Upto(g, n)}
<1>0. IsFiniteSet(S)
  BY StreamAssumption, FS_Subset DEF Begun
<1>1. \A T \in SUBSET S : IsFiniteSet(T) /\ Cardinality(T) \in Nat
  BY <1>0, FS_Subset, FS_CardinalityType
<1>2. \A T \in SUBSET S : T # {} => /\ Less(T) \in SUBSET S
                                    /\ Cardinality(Less(T)) = Cardinality(T) - 1
  <2> SUFFICES ASSUME NEW T \in SUBSET S, T # {}
               PROVE  Less(T) \in SUBSET S /\ Cardinality(Less(T)) = Cardinality(T) - 1
    OBVIOUS
  <2>1. LastBegun(s, T) \in T
    BY LastBegunIn
  <2> QED
    BY <1>1, <2>1, FS_RemoveElement
<1>3. 0 \in C
  <2>1. Upto([T \in SUBSET S |-> StopReasoning(CloseMessage(s))], 0)
    <3> SUFFICES ASSUME NEW T \in SUBSET S, Cardinality(T) <= 0 PROVE T = {}
      OBVIOUS
    <3> QED
      BY <1>1, FS_EmptySet
  <2> QED
    BY <2>1
<1>4. ASSUME NEW n \in Nat, NEW g, Upto(g, n)
      PROVE  Upto(After(g), n + 1)
  <2> SUFFICES ASSUME NEW T \in SUBSET S, Cardinality(T) <= n + 1
               PROVE  After(g)[T] = Value(After(g), T)
    OBVIOUS
  <2>1. CASE T = {}
    BY <2>1
  <2>2. CASE T # {}
    <3>1. Less(T) \in SUBSET S /\ Cardinality(Less(T)) <= n
      BY <1>1, <1>2, <2>2
    <3>2. g[Less(T)] = Value(g, Less(T))
      BY <1>4, <3>1
    <3>3. After(g)[Less(T)] = Value(g, Less(T))
      BY <3>1
    <3>4. After(g)[T] = FinishCall(g[Less(T)], LastBegun(s, T))
      BY <2>2
    <3> QED
      BY <2>2, <3>2, <3>3, <3>4
  <2> QED
    BY <2>1, <2>2
<1>5. Cardinality(S) \in C
  <2>1. ASSUME NEW n \in C PROVE n + 1 \in C
    <3>1. PICK g : Upto(g, n)
      BY <2>1
    <3>2. Upto(After(g), n + 1)
      <4>1. n \in Nat
        OBVIOUS
      <4> HIDE DEF Upto, After
      <4> QED
        BY <1>4, <3>1, <4>1
    <3>3. \E h : Upto(h, n + 1)
      <4> HIDE DEF Upto, After
      <4> QED
        BY <3>2, Zenon
    <3>4. n + 1 \in Nat
      BY <2>1
    <3> QED
      BY <3>3, <3>4, Zenon DEF C
  <2> HIDE DEF C
  <2>2. C \in SUBSET Nat
    BY DEF C
  <2>3. C = Nat
    BY <1>3, <2>1, <2>2, Reaches
  <2> QED
    BY <1>1, <2>3
<1>6. PICK g : Upto(g, Cardinality(S))
  BY <1>5
<1>7. \A T \in SUBSET S : Cardinality(T) <= Cardinality(S)
  BY <1>0, FS_Subset
<1>8. After(g) = After(After(g))
  <2> SUFFICES ASSUME NEW T \in SUBSET S PROVE Value(g, T) = Value(After(g), T)
    OBVIOUS
  <2>1. \A R \in SUBSET S : g[R] = Value(g, R) /\ After(g)[R] = Value(g, R)
    BY <1>6, <1>7
  <2> HIDE DEF After
  <2> QED
    BY <1>2, <2>1
<1>9. \E h : h = [T \in SUBSET S |-> IF T = {} THEN StopReasoning(CloseMessage(s))
                                     ELSE FinishCall(h[T \ {LastBegun(s, T)}], LastBegun(s, T))]
  BY <1>8
<1> QED
  BY <1>9, Zenon DEF Finished

\* Nothing is open.
Closed(s) ==
    /\ s.reasoning = None /\ (s.message # None => s.message.done)
    /\ \A t \in Begun(s) : s.calls[t].done

CallsShort(s, n) == \A t \in Begun(s) : s.calls[t].text <= n

\* The calls of T are finished, the others are as they were.
Finishing(u, s, b, r, T) ==
    /\ Plays(u, r) /\ Begun(r) = Begun(s) /\ r.next = b.next
    /\ r.message = b.message /\ r.reasoning = b.reasoning
    /\ r.reasonings = b.reasonings /\ r.pending = b.pending
    /\ \A t \in Begun(s) : r.calls[t].text = s.calls[t].text
    /\ \A t \in T : r.calls[t].done

LEMMA FinishedPlays ==
    ASSUME NEW u, NEW s, Plays(u, s), CallsShort(s, MaxChunks), NEW b,
           b = StopReasoning(CloseMessage(s)), Plays(u, b), b.calls = s.calls,
           NEW T \in SUBSET Begun(s)
    PROVE  Finishing(u, s, b, Finished(s)[T], T)
<1> DEFINE g == Finished(s)
           C == {S \in SUBSET Begun(s) : ~Finishing(u, s, b, g[S], S)}
<1>1. \A t \in Begun(s) : s.calls[t].index \in Nat
  BY PlaysFacts DEF Call
<1>2. g = [S \in SUBSET Begun(s) |->
             IF S = {} THEN StopReasoning(CloseMessage(s))
             ELSE FinishCall(g[S \ {LastBegun(s, S)}], LastBegun(s, S))]
  BY <1>1, FinishedDefined
<1> HIDE DEF g
<1>3. IsFiniteSet(Begun(s))
  BY StreamAssumption, FS_Subset DEF Begun
<1>4. C = {}
  <2> SUFFICES ASSUME C # {} PROVE FALSE
    OBVIOUS
  <2>0. C \in SUBSET (SUBSET Begun(s))
    OBVIOUS
  <2> HIDE DEF C
  <2>1. PICK S \in C : \A R \in C : R \subseteq S => R = S
    BY <1>3, <2>0, Smallest
  <2>2. S \in SUBSET Begun(s) /\ ~Finishing(u, s, b, g[S], S)
    BY <2>0 DEF C
  <2>3. CASE S = {}
    <3>1. g[S] = b
      BY <1>2, <2>2, <2>3
    <3>2. Begun(b) = Begun(s)
      BY DEF Begun
    <3>3. Finishing(u, s, b, b, S)
      BY <2>3, <3>2 DEF Finishing
    <3> QED
      BY <2>2, <3>1, <3>3
  <2>4. CASE S # {}
    <3> DEFINE t == LastBegun(s, S)
               R == S \ {t}
               e == g[R]
    <3>1. t \in S
      BY <1>1, <2>2, <2>4, LastBegunIn
    <3>2. R \in SUBSET Begun(s) /\ R \subseteq S /\ R # S /\ t \in Begun(s)
      BY <2>2, <3>1
    <3>3. Finishing(u, s, b, e, R)
      BY <2>1, <3>2 DEF C
    <3>4. g[S] = FinishCall(e, t)
      BY <1>2, <2>2, <2>4
    <3> HIDE DEF e, t
    <3>5. t \in Begun(e) /\ Plays(u, e) /\ e.calls[t].text <= MaxChunks
      BY <3>2, <3>3 DEF Finishing, CallsShort
    <3>6. Goes(u, e, FinishCall(e, t), t) /\ FinishCall(e, t).calls[t].done
      BY <3>5, FinishCallPlays
    <3>7. \A v \in Begun(s) : v \in Tools
      BY DEF Begun
    <3>8. Finishing(u, s, b, FinishCall(e, t), S)
      <4> DEFINE r == FinishCall(e, t)
      <4> HIDE DEF r, R
      <4>1. /\ Plays(u, r) /\ Begun(r) = Begun(s) /\ r.next = b.next
            /\ r.message = b.message /\ r.reasoning = b.reasoning
            /\ r.reasonings = b.reasonings /\ r.pending = b.pending
        BY <3>3, <3>6 DEF Goes, OnlyCall, Finishing, r
      <4>2. ASSUME NEW v \in Begun(s) PROVE r.calls[v].text = s.calls[v].text
        BY <3>3, <3>6, <3>7 DEF Goes, OnlyCall, Finishing, r
      <4>3. ASSUME NEW v \in S PROVE r.calls[v].done
        <5>1. CASE v = t
          BY <3>6, <5>1 DEF r
        <5>2. CASE v # t
          <6>1. v \in R /\ v \in Tools
            BY <2>2, <3>7, <5>2 DEF R
          <6>2. r.calls[v] = e.calls[v]
            BY <3>6, <5>2, <6>1 DEF Goes, OnlyCall, r
          <6> QED
            BY <3>3, <6>1, <6>2 DEF Finishing
        <5> QED
          BY <5>1, <5>2
      <4>4. Finishing(u, s, b, r, S)
        BY <4>1, <4>2, <4>3 DEF Finishing
      <4> QED
        BY <4>4 DEF r
    <3> QED
      BY <2>2, <3>4, <3>8
  <2> QED
    BY <2>3, <2>4
<1> QED
  BY <1>4 DEF g

\* A finish reason closes everything, and closes nothing twice.
LEMMA FinishReasonPlays ==
    ASSUME NEW u, NEW s, Plays(u, s), Counted(s),
           NEW n \in Nat, n <= MaxChunks, CallsShort(s, n)
    PROVE  LET r == FinishReason(s)
           IN  /\ Plays(u, r) /\ Counted(r) /\ Thoughts(r) = Thoughts(s)
               /\ CallsShort(r, n) /\ Closed(r) /\ r.pending
<1> DEFINE a == CloseMessage(s)
           b == StopReasoning(a)
           x == Finished(s)[Begun(s)]
           r == FinishReason(s)
<1>1. /\ Plays(u, a) /\ (a.message = None <=> s.message = None)
      /\ a.message # None => a.message.done
      /\ a.reasoning = s.reasoning /\ a.reasonings = s.reasonings
      /\ a.calls = s.calls /\ a.next = s.next /\ a.pending = s.pending
  BY CloseMessagePlays
<1>2. /\ Plays(u, b) /\ b.reasoning = None
      /\ b.message = a.message /\ b.calls = a.calls /\ b.next = a.next
      /\ b.pending = a.pending /\ Thoughts(b) = Thoughts(a)
  <2> HIDE DEF a
  <2> QED  BY <1>1, StopReasoningPlays
<1>3. CallsShort(s, MaxChunks)
  <2>1. \A t \in Begun(s) : s.calls[t].text \in Nat
    BY PlaysFacts DEF Call
  <2> QED
    BY <2>1, StreamAssumption DEF CallsShort
<1>4. b = StopReasoning(CloseMessage(s)) /\ r = [x EXCEPT !.pending = TRUE]
  BY FinishReasonIs
<1> HIDE DEF a, b, r
<1>5. Finishing(u, s, b, x, Begun(s))
  BY <1>1, <1>2, <1>3, <1>4, FinishedPlays
<1> HIDE DEF x
<1>6. /\ Plays(u, x) /\ Begun(x) = Begun(s) /\ x.next = b.next
      /\ x.message = b.message /\ x.reasoning = b.reasoning /\ x.reasonings = b.reasonings
  BY <1>5 DEF Finishing
<1>7. x \in Converter
  BY <1>6, PlaysFacts
<1>8. /\ r.started = x.started /\ r.completed = x.completed /\ r.message = x.message
      /\ r.reasoning = x.reasoning /\ r.reasonings = x.reasonings /\ r.calls = x.calls
      /\ r.next = x.next /\ r.out = x.out /\ r.pending /\ r \in Converter
  BY <1>4, <1>7 DEF Converter
<1>9. Begun(r) = Begun(x)
  BY <1>8 DEF Begun
<1>10. Plays(u, r)
  <2>1. PICK w : /\ Path(u, x.out, w) /\ ~w.failed /\ w.response = "in_progress"
                 /\ Agrees(x, w)
    BY <1>6 DEF Plays
  <2>2. MessageTold(r, w) /\ ReasoningTold(r, w) /\ ReasoningsTold(r, w)
    BY <1>8, <2>1 DEF Agrees, MessageTold, ReasoningTold, ReasoningsTold
  <2>3. CallsTold(r, w)
    BY <1>8, <1>9, <2>1 DEF Agrees, CallsTold, CallTold
  <2>4. NothingElse(r, w)
    BY <1>8, <1>9, <2>1 DEF Agrees, NothingElse, Holds
  <2> QED
    BY <1>6, <1>8, <2>1, <2>2, <2>3, <2>4, PlaysFacts DEF Plays, Agrees
<1>11. Thoughts(r) = Thoughts(s) /\ Thoughts(a) = Thoughts(s) /\ Thoughts(r) = Thoughts(b)
  BY <1>1, <1>2, <1>6, <1>8 DEF Thoughts
<1>12. Counted(r)
  BY <1>1, <1>2, <1>6, <1>8, <1>9, <1>11 DEF Counted
<1>13. Closed(r) /\ CallsShort(r, n)
  BY <1>1, <1>2, <1>5, <1>6, <1>8, <1>9 DEF Closed, Finishing, CallsShort
<1> QED
  BY <1>8, <1>10, <1>11, <1>12, <1>13 DEF r

-----------------------------------------------------------------------------
(* A whole chunk, the end and a failure.                                   *)

\* The frames that are queued lead from the view u to what the converter has
\* said, and to an error if there was one.
Leads(u, s, failed) ==
    \E w : /\ Path(u, s.out, w) /\ Agrees(s, w) /\ (w.failed <=> failed)
           /\ w.response = (IF s.completed THEN "completed"
                            ELSE IF s.started THEN "in_progress" ELSE "none")

\* What is agreed on is about the items.
LEMMA AgreesOnItems ==
    ASSUME NEW s, NEW w, NEW x, Agrees(s, w), x.items = w.items,
           NEW r, r.message = s.message, r.reasoning = s.reasoning,
           r.reasonings = s.reasonings, r.calls = s.calls, r.next = s.next
    PROVE  Agrees(r, x)
<1>1. Begun(r) = Begun(s)
  BY DEF Begun
<1>2. MessageTold(r, x) /\ ReasoningTold(r, x) /\ ReasoningsTold(r, x)
  BY DEF Agrees, MessageTold, ReasoningTold, ReasoningsTold, Says
<1>3. CallsTold(r, x)
  BY <1>1 DEF Agrees, CallsTold, CallTold, Says
<1>4. NothingElse(r, x)
  BY <1>1 DEF Agrees, NothingElse, Holds, Shown
<1> QED
  BY <1>2, <1>3, <1>4 DEF Agrees

\* The same converter, but for the frames and the stage of the answer.
SameItems(r, s) ==
    /\ r.message = s.message /\ r.reasoning = s.reasoning /\ r.reasonings = s.reasonings
    /\ r.calls = s.calls /\ r.next = s.next /\ r.pending = s.pending

\* The first event announces the answer.
LEMMA StartedPlays ==
    ASSUME NEW u, NEW s \in Converter, Leads(u, s, FALSE), ~s.completed
    PROVE  Plays(u, Started(s)) /\ SameItems(Started(s), s)
<1> DEFINE r == Started(s)
           a == Frame("created", 0, None, 0)
           b == Frame("in_progress", 0, None, 0)
<1>1. PICK w : /\ Path(u, s.out, w) /\ Agrees(s, w) /\ ~w.failed
               /\ w.response = (IF s.started THEN "in_progress" ELSE "none")
  BY DEF Leads
<1>2. CASE s.started
  BY <1>1, <1>2 DEF Started, Plays, SameItems
<1>3. CASE ~s.started
  <2> DEFINE x == [w EXCEPT !.response = "created"]
             y == [w EXCEPT !.response = "in_progress"]
  <2>1. w \in View /\ s.out \in Seq(Frames) /\ w.response = "none"
    BY <1>1, <1>3, PathEnds
  <2>2. 0 \in Indices
    BY IndicesNat, StreamAssumption DEF Indices
  <2>3. a \in Frames /\ a.event = "created" /\ b \in Frames /\ b.event = "in_progress"
    BY <2>2, FrameTyped, FinalsNat DEF Events
  <2>4. /\ r = [s EXCEPT !.out = s.out \o <<a, b>>, !.started = TRUE]
        /\ s.out \o <<a, b>> = Append(Append(s.out, a), b)
    BY <1>3, <2>1, <2>3, Concatenated DEF Started, Emit, Converter
  <2> HIDE DEF a, b
  <2>5. Told(w, a) = x /\ x.response = "created" /\ ~x.failed /\ x.items = w.items /\ x \in View
    BY <1>1, <2>1, <2>3 DEF Told, View
  <2>6. Told(x, b) = y /\ y.response = "in_progress" /\ ~y.failed /\ y.items = w.items
    BY <1>1, <2>1, <2>3 DEF Told, View
  <2> HIDE DEF x, y, r
  <2>7. Allowed(w, a) /\ Allowed(x, b)
    BY <1>1, <2>1, <2>3, <2>5 DEF Allowed
  <2>8. Path(u, Append(s.out, a), x)
    BY <1>1, <2>3, <2>5, <2>7, PathAppend
  <2>9. Path(u, Append(Append(s.out, a), b), y)
    BY <2>3, <2>6, <2>7, <2>8, PathAppend
  <2>10. /\ r.out = Append(Append(s.out, a), b) /\ r.started /\ ~r.completed
         /\ SameItems(r, s)
    BY <2>4 DEF Converter, SameItems
  <2>11. r \in Converter
    <3>1. Append(Append(s.out, a), b) \in Seq(Frames)
      BY <2>9, PathEnds
    <3> QED
      BY <2>4, <3>1 DEF Converter
  <2>12. Agrees(r, y)
    BY <1>1, <2>6, <2>10, AgreesOnItems DEF SameItems
  <2>13. Plays(u, r)
    BY <2>6, <2>9, <2>10, <2>11, <2>12 DEF Plays
  <2> QED
    BY <2>10, <2>13 DEF r
<1> QED
  BY <1>2, <1>3

\* What the converter keeps to when n chunks have come in.
Kept(s, n) ==
    /\ Counted(s) /\ Thoughts(s) <= n /\ CallsShort(s, n)
    /\ s.pending => Closed(s)
    /\ ~s.pending => CallsOpen(s, n)

LEMMA ConvertPlays ==
    ASSUME NEW u, NEW s \in Converter, Leads(u, s, FALSE), ~s.completed,
           NEW n \in Nat, n < MaxChunks, Kept(s, n), NEW c \in Chunk,
           s.pending => ~c.content /\ ~c.think /\ c.tools = None
    PROVE  LET r == Convert(s, c)
           IN  /\ Plays(u, r) /\ Kept(r, n + 1)
               /\ r.pending <=> s.pending \/ c.finish
<1> DEFINE a == Started(s)
           b == IF c.content THEN Content(a) ELSE a
           d == IF c.think THEN Think(b) ELSE b
           e == IF c.tools = None THEN d ELSE ToolCalls(d, c.tools)
           r == Convert(s, c)
<1>0. /\ c.content \in BOOLEAN /\ c.think \in BOOLEAN /\ c.finish \in BOOLEAN
      /\ c.tools # None => c.tools \in {<<>>} \union {<<p>> : p \in Part}
      /\ MaxChunks \in Nat /\ MaxChunks > 0 /\ s.pending \in BOOLEAN
  BY StreamAssumption DEF Chunk, Converter
<1>1. Plays(u, a) /\ SameItems(a, s)
  BY StartedPlays
<1>2. r = IF c.finish THEN FinishReason(e) ELSE e
  BY DEF Convert
<1> HIDE DEF a, r
<1>3. /\ Begun(a) = Begun(s) /\ Thoughts(a) = Thoughts(s)
      /\ Counted(a) /\ CallsShort(a, n)
      /\ (s.pending => Closed(a)) /\ (~s.pending => CallsOpen(a, n)) /\ a.pending = s.pending
  <2>1. Begun(a) = Begun(s) /\ Thoughts(a) = Thoughts(s)
    BY <1>1 DEF SameItems, Begun, Thoughts
  <2> QED
    BY <1>1, <2>1 DEF SameItems, Kept, Counted, CallsShort, Closed, CallsOpen
<1>4. Thoughts(s) <= n /\ Thoughts(s) \in Nat
  <2>1. Thoughts(a) \in Nat
    BY <1>1, PlaysFacts, ThoughtsNat
  <2> QED
    BY <1>3, <2>1 DEF Kept
<1>5. /\ Plays(u, b) /\ Counted(b) /\ Thoughts(b) = Thoughts(s)
      /\ b.calls = a.calls /\ b.pending = s.pending
      /\ (~c.content => b = a)
  <2>1. CASE c.content
    <3>2. Thoughts(a) <= MaxChunks
      BY <1>0, <1>3, <1>4
    <3>3. /\ Plays(u, Content(a)) /\ Counted(Content(a)) /\ Thoughts(Content(a)) = Thoughts(a)
          /\ Content(a).calls = a.calls /\ Content(a).pending = a.pending
      BY <1>0, <1>1, <1>3, <3>2, ContentPlays
    <3> QED
      BY <1>3, <2>1, <3>3
  <2>2. CASE ~c.content
    BY <1>1, <1>3, <2>2
  <2> QED
    BY <2>1, <2>2
<1> HIDE DEF b
<1>6. /\ Plays(u, d) /\ Counted(d) /\ Thoughts(d) <= n + 1 /\ d.calls = a.calls
      /\ d.pending = s.pending /\ (~c.think => d = b)
  <2>1. CASE c.think
    <3>1. Thoughts(b) < MaxChunks
      BY <1>0, <1>4, <1>5
    <3>2. /\ Plays(u, Think(b)) /\ Counted(Think(b)) /\ Thoughts(Think(b)) <= Thoughts(b) + 1
          /\ Think(b).message = b.message /\ Think(b).calls = b.calls
          /\ Think(b).pending = b.pending
      BY <1>5, <3>1, ThinkPlays
    <3>3. Thoughts(Think(b)) \in Nat
      BY <3>2, PlaysFacts, ThoughtsNat
    <3>4. Thoughts(Think(b)) <= n + 1
      BY <1>4, <1>5, <3>2, <3>3
    <3> QED
      BY <1>5, <2>1, <3>2, <3>4
  <2>2. CASE ~c.think
    BY <1>4, <1>5, <2>2
  <2> QED
    BY <2>1, <2>2
<1> HIDE DEF d
<1>7. Begun(d) = Begun(a) /\ CallsShort(d, n) /\ (~s.pending => CallsOpen(d, n))
  BY <1>3, <1>6 DEF Begun, CallsShort, CallsOpen
<1>8. \A t \in Begun(d) : d.calls[t].text \in Nat
  BY <1>6, PlaysFacts DEF Call
<1>9. CallsShort(d, n + 1) /\ (~s.pending => CallsOpen(d, n + 1))
  BY <1>7, <1>8 DEF CallsShort, CallsOpen
<1>10. /\ Plays(u, e) /\ Counted(e) /\ Thoughts(e) <= n + 1 /\ CallsShort(e, n + 1)
       /\ (~s.pending => CallsOpen(e, n + 1)) /\ e.pending = s.pending
       /\ (s.pending => Closed(e))
  <2>1. CASE c.tools = None
    <3>1. s.pending => e = a
      BY <1>5, <1>6, <2>1
    <3>2. e = d
      BY <2>1
    <3> HIDE DEF e
    <3> QED
      BY <1>3, <1>6, <1>9, <3>1, <3>2
  <2>2. CASE c.tools # None
    <3>1. ~s.pending /\ CallsOpen(d, n)
      BY <1>7, <2>2
    <3>2. Thoughts(d) <= MaxChunks
      <4>1. Thoughts(d) \in Nat
        BY <1>6, PlaysFacts, ThoughtsNat
      <4> QED
        BY <1>0, <1>6, <4>1
    <3>3. c.tools \in {<<>>} \union {<<p>> : p \in Part}
      BY <1>0, <2>2
    <3>4. /\ Plays(u, ToolCalls(d, c.tools)) /\ Counted(ToolCalls(d, c.tools))
          /\ Thoughts(ToolCalls(d, c.tools)) = Thoughts(d)
          /\ CallsOpen(ToolCalls(d, c.tools), n + 1)
          /\ ToolCalls(d, c.tools).pending = d.pending
      <4> HIDE DEF e
      <4> QED
        BY <1>6, <3>1, <3>2, <3>3, ToolCallsPlays
    <3>5. e = ToolCalls(d, c.tools)
      BY <2>2
    <3> HIDE DEF e
    <3>6. CallsShort(e, n + 1)
      BY <3>4, <3>5 DEF CallsOpen, CallsShort
    <3> QED
      BY <1>6, <2>2, <3>1, <3>4, <3>5, <3>6
  <2> QED
    BY <2>1, <2>2
<1> HIDE DEF e
<1>11. CASE c.finish
  <2>1. n + 1 \in Nat /\ n + 1 <= MaxChunks
    BY <1>0
  <2>2. /\ Plays(u, FinishReason(e)) /\ Counted(FinishReason(e))
        /\ Thoughts(FinishReason(e)) = Thoughts(e) /\ CallsShort(FinishReason(e), n + 1)
        /\ Closed(FinishReason(e)) /\ FinishReason(e).pending
    BY <1>10, <2>1, FinishReasonPlays
  <2>3. r = FinishReason(e)
    BY <1>2, <1>11
  <2>4. Kept(r, n + 1)
    BY <1>10, <2>2, <2>3 DEF Kept
  <2> QED
    BY <1>11, <2>2, <2>3, <2>4 DEF r
<1>12. CASE ~c.finish
  <2>1. r = e
    BY <1>2, <1>12
  <2>2. Kept(r, n + 1)
    BY <1>10, <2>1 DEF Kept
  <2>3. r.pending <=> s.pending \/ c.finish
    BY <1>10, <1>12, <2>1
  <2> QED
    BY <1>10, <1>12, <2>1, <2>2, <2>3 DEF r
<1> QED
  BY <1>11, <1>12

\* The completed answer repeats the text of every item that the client knows.
LEMMA OutputsTrue ==
    ASSUME NEW s \in Converter, NEW w \in View, Agrees(s, w), Closed(s)
    PROVE  /\ \A i \in Shown(w) : w.items[i].stage = "done"
           /\ Outputs(s) = [i \in Shown(w) |-> w.items[i].text]
<1> DEFINE more == IF s.message = None THEN <<>> ELSE <<s.message>>
           list == s.reasonings \o more
           calls == {s.calls[t] : t \in Begun(s)}
           all == ToSet(list) \union calls
           True(o) == o.index \in Shown(w) /\ w.items[o.index].stage = "done"
                      /\ w.items[o.index].text = o.text
<1>1. /\ s.reasonings \in Seq(Reasoning) /\ Len(s.reasonings) \in Nat
      /\ s.message # None => s.message \in Message
  BY DEF Converter
<1>2. \A o : o \in ToSet(list) <=> \/ \E k \in 1..Len(s.reasonings) : o = s.reasonings[k]
                                   \/ s.message # None /\ o = s.message
  <2>1. CASE s.message = None
    <3>1. list = s.reasonings
      BY <1>1, <2>1
    <3> HIDE DEF list
    <3>2. DOMAIN list = 1..Len(s.reasonings)
      BY <1>1, <3>1
    <3> QED
      BY <2>1, <3>1, <3>2 DEF ToSet
  <2>2. CASE s.message # None
    <3>1. /\ list = Append(s.reasonings, s.message)
      BY <1>1, <2>2
    <3> HIDE DEF list
    <3>2. /\ DOMAIN list = 1..(Len(s.reasonings) + 1)
          /\ \A k \in 1..Len(s.reasonings) : list[k] = s.reasonings[k]
          /\ list[Len(s.reasonings) + 1] = s.message
      BY <1>1, <3>1
    <3>3. \A k : k \in DOMAIN list <=> k \in 1..Len(s.reasonings) \/ k = Len(s.reasonings) + 1
      BY <1>1, <3>2
    <3>4. \A o : o \in ToSet(list) <=> \E k \in DOMAIN list : o = list[k]
      BY DEF ToSet
    <3> QED
      BY <2>2, <3>2, <3>3, <3>4
  <2> QED
    BY <2>1, <2>2
<1>3. ASSUME NEW k \in 1..Len(s.reasonings) PROVE True(s.reasonings[k])
  BY DEF Agrees, ReasoningsTold, Says, Shown
<1>4. ASSUME s.message # None PROVE True(s.message)
  BY <1>4 DEF Agrees, MessageTold, Says, Shown, Closed
<1>5. ASSUME NEW t \in Begun(s) PROVE True(s.calls[t]) /\ s.calls[t].added
  BY DEF Agrees, CallsTold, CallTold, Says, Shown, Closed
<1> HIDE DEF list
<1>6. \A o \in all : True(o)
  BY <1>2, <1>3, <1>4, <1>5
<1>7. \A i \in Shown(w) : \E o \in all : o.index = i
  <2> SUFFICES ASSUME NEW i \in Shown(w) PROVE \E o \in all : o.index = i
    OBVIOUS
  <2>1. Holds(s, i) /\ s.reasoning = None
    BY DEF Agrees, NothingElse, Closed
  <2>2. \A t \in Begun(s) : s.calls[t] \in all
    OBVIOUS
  <2>3. \A o \in ToSet(list) : o \in all
    OBVIOUS
  <2> HIDE DEF all
  <2> QED
    BY <1>2, <2>1, <2>2, <2>3 DEF Holds
<1>8. Outputs(s) = [i \in {o.index : o \in all} |-> (CHOOSE o \in all : o.index = i).text]
  BY DEF Outputs, list
<1> HIDE DEF all
<1>9. {o.index : o \in all} = Shown(w)
  BY <1>6, <1>7
<1>10. ASSUME NEW i \in Shown(w)
       PROVE  /\ w.items[i].stage = "done"
              /\ (CHOOSE o \in all : o.index = i).text = w.items[i].text
  <2> DEFINE o == CHOOSE q \in all : q.index = i
  <2>1. o \in all /\ o.index = i
    BY <1>7
  <2> HIDE DEF o
  <2>2. w.items[i].stage = "done" /\ w.items[i].text = o.text
    BY <1>6, <2>1
  <2> QED
    BY <2>2 DEF o
<1> DEFINE text(i) == (CHOOSE o \in all : o.index = i).text
<1>11. \A i \in Shown(w) : w.items[i].stage = "done" /\ text(i) = w.items[i].text
  BY <1>10
<1>12. Outputs(s) = [i \in {o.index : o \in all} |-> text(i)]
  BY <1>8
<1> HIDE DEF text
<1> QED
  BY <1>9, <1>11, <1>12

\* [DONE] completes an answer that has a finish reason.
LEMMA ConvertDoneLeads ==
    ASSUME NEW u, NEW s \in Converter, Leads(u, s, FALSE), ~s.completed,
           s.pending => s.started /\ Closed(s)
    PROVE  LET r == ConvertDone(s)
           IN  /\ r \in Converter /\ Leads(u, r, FALSE) /\ SameItems(r, s)
               /\ r.started = s.started
               /\ r.completed <=> s.pending
<1> DEFINE r == ConvertDone(s)
           f == Completed(s)
<1>1. CASE ~s.pending
  BY <1>1 DEF ConvertDone, SameItems
<1>2. CASE s.pending
  <2>1. PICK w : /\ Path(u, s.out, w) /\ Agrees(s, w) /\ ~w.failed
                 /\ w.response = "in_progress"
    BY <1>2 DEF Leads
  <2>2. w \in View /\ s.out \in Seq(Frames)
    BY <2>1, PathEnds
  <2>3. /\ \A i \in Shown(w) : w.items[i].stage = "done"
        /\ Outputs(s) = [i \in Shown(w) |-> w.items[i].text]
    BY <1>2, <2>1, <2>2, OutputsTrue
  <2>4. Outputs(s) \in Summaries
    <3>1. Outputs(s) \in [Shown(w) -> Nat]
      BY <2>2, <2>3, ItemNotNone DEF View, Shown, Item
    <3>2. Shown(w) \subseteq Nat
      BY IndicesNat DEF Shown
    <3> QED
      BY <3>1, <3>2 DEF Summaries
  <2>5. f \in Frames /\ f.event = "completed" /\ f.outputs = Outputs(s)
    BY <2>4 DEF Completed, Frames
  <2>6. r = [s EXCEPT !.out = s.out \o <<f>>, !.completed = TRUE]
    BY <1>2 DEF ConvertDone, Emit, Converter
  <2> HIDE DEF f
  <2>7. Allowed(w, f)
    BY <2>1, <2>3, <2>5 DEF Allowed
  <2>8. Path(u, Append(s.out, f), Told(w, f))
    BY <2>1, <2>5, <2>7, PathAppend
  <2>9. /\ Told(w, f).response = "completed" /\ ~Told(w, f).failed
        /\ Told(w, f).items = w.items
    BY <2>1, <2>2, <2>5 DEF Told, View
  <2>10. s.out \o <<f>> = Append(s.out, f)
    BY <2>2, <2>5, Concatenated
  <2> HIDE DEF r
  <2>11. /\ r.out = Append(s.out, f) /\ r.completed /\ r.started = s.started /\ SameItems(r, s)
    BY <2>6, <2>10 DEF Converter, SameItems
  <2>12. r \in Converter
    <3>1. Append(s.out, f) \in Seq(Frames)
      BY <2>8, PathEnds
    <3> QED
      BY <2>6, <2>10, <3>1 DEF Converter
  <2>13. Agrees(r, Told(w, f))
    BY <2>1, <2>9, <2>11, AgreesOnItems DEF SameItems
  <2>14. Leads(u, r, FALSE)
    BY <2>8, <2>9, <2>11, <2>13 DEF Leads
  <2> QED
    BY <1>2, <2>11, <2>12, <2>14 DEF r
<1> QED
  BY <1>1, <1>2

\* An error may come at any time, and is the last thing that is said.
LEMMA FailureLeads ==
    ASSUME NEW u, NEW s \in Converter, Leads(u, s, FALSE)
    PROVE  LET r == Failure(s)
           IN  /\ r \in Converter /\ Leads(u, r, TRUE) /\ SameItems(r, s)
               /\ r.started = s.started /\ r.completed = s.completed
<1> DEFINE r == Failure(s)
           f == [event |-> "error"]
<1>1. PICK w : /\ Path(u, s.out, w) /\ Agrees(s, w) /\ ~w.failed
               /\ w.response = (IF s.completed THEN "completed"
                                ELSE IF s.started THEN "in_progress" ELSE "none")
  BY DEF Leads
<1>2. w \in View /\ s.out \in Seq(Frames)
  BY <1>1, PathEnds
<1>3. f \in Frames /\ f.event = "error"
  BY DEF Frames
<1>4. r = [s EXCEPT !.out = s.out \o <<f>>]
  BY DEF Failure, Emit, Converter
<1> HIDE DEF f
<1>5. Allowed(w, f)
  BY <1>1, <1>3 DEF Allowed
<1>6. Path(u, Append(s.out, f), Told(w, f))
  BY <1>1, <1>3, <1>5, PathAppend
<1>7. /\ Told(w, f).response = w.response /\ Told(w, f).failed
      /\ Told(w, f).items = w.items
  BY <1>2, <1>3 DEF Told, View
<1>8. s.out \o <<f>> = Append(s.out, f)
  BY <1>2, <1>3, Concatenated
<1> HIDE DEF r
<1>9. /\ r.out = Append(s.out, f) /\ r.completed = s.completed /\ r.started = s.started
      /\ SameItems(r, s)
  BY <1>4, <1>8 DEF Converter, SameItems
<1>10. r \in Converter
  <2>1. Append(s.out, f) \in Seq(Frames)
    BY <1>6, PathEnds
  <2> QED
    BY <1>4, <1>8, <2>1 DEF Converter
<1>11. Agrees(r, Told(w, f))
  BY <1>1, <1>7, <1>9, AgreesOnItems DEF SameItems
<1>12. Leads(u, r, TRUE)
  BY <1>1, <1>6, <1>7, <1>9, <1>11 DEF Leads
<1> QED
  BY <1>9, <1>10, <1>12 DEF r

-----------------------------------------------------------------------------
(* The converter's types, whatever the upstream sends: until [DONE] it     *)
(* queues frames about the answer and its items, and nothing final.        *)

Plain(s) == s \in Converter /\ s.out \in Seq(PlainFrames)

Follows(r, s) ==
    Plain(r) /\ r.started = s.started /\ r.pending = s.pending /\ r.completed = s.completed

LEMMA PlainFrame ==
    ASSUME NEW event \in Events, NEW i \in Nat, NEW kind \in Kinds \union {None}, NEW n \in Finals
    PROVE  Frame(event, i, kind, n) \in PlainFrames
BY DEF Frame, PlainFrames

LEMMA AnnouncedPlain ==
    ASSUME NEW kind \in Kinds, NEW i \in Nat
    PROVE  Announced(kind, i) \in Seq(PlainFrames)
<1>1. Frame("item_added", i, kind, 0) \in PlainFrames /\ Frame("part_added", i, None, 0) \in PlainFrames
  BY PlainFrame, FinalsNat DEF Events
<1> QED
  BY <1>1 DEF Announced

LEMMA DonePlain ==
    ASSUME NEW i \in Nat, NEW n \in Nat
    PROVE  DoneFrames(i, n) \in Seq(PlainFrames)
<1>1. \A e \in {"text_done", "part_done", "item_done"} : Frame(e, i, None, n) \in PlainFrames
  BY PlainFrame, FinalsNat DEF Events
<1> QED
  BY <1>1 DEF DoneFrames

\* More frames.
LEMMA EmitPlain ==
    ASSUME NEW s, Plain(s), NEW more \in Seq(PlainFrames)
    PROVE  /\ Emit(s, more) = [s EXCEPT !.out = s.out \o more]
           /\ s.out \o more \in Seq(PlainFrames) /\ s.out \o more \in Seq(Frames)
<1>1. s.out \o more \in Seq(PlainFrames)
  BY DEF Plain
<1>2. s.out \o more \in Seq(Frames)
  BY <1>1 DEF Frames
<1> QED
  BY <1>1, <1>2 DEF Emit, Plain, Converter

LEMMA StopReasoningPlain ==
    ASSUME NEW s, Plain(s)
    PROVE  Follows(StopReasoning(s), s) /\ StopReasoning(s).calls = s.calls
<1>1. CASE s.reasoning = None
  BY <1>1 DEF StopReasoning, Follows
<1>2. CASE s.reasoning # None
  <2> DEFINE more == DoneFrames(s.reasoning.index, s.reasoning.text)
             out == s.out \o more
             list == Append(s.reasonings, s.reasoning)
  <2>1. s.reasoning \in Reasoning /\ s.reasonings \in Seq(Reasoning) /\ list \in Seq(Reasoning)
    BY <1>2 DEF Plain, Converter
  <2>2. more \in Seq(PlainFrames)
    BY <2>1, DonePlain DEF Reasoning
  <2>3. Emit(s, more) = [s EXCEPT !.out = out] /\ out \in Seq(PlainFrames) /\ out \in Seq(Frames)
    BY <2>2, EmitPlain
  <2>4. StopReasoning(s) = [s EXCEPT !.out = out, !.reasonings = list, !.reasoning = None]
    <3> HIDE DEF more, out
    <3> QED  BY <1>2, <2>3 DEF StopReasoning, Plain, Converter, more
  <2> HIDE DEF out, list
  <2> QED
    BY <2>1, <2>3, <2>4 DEF Follows, Plain, Converter
<1> QED
  BY <1>1, <1>2

LEMMA CloseMessagePlain ==
    ASSUME NEW s, Plain(s)
    PROVE  Follows(CloseMessage(s), s) /\ CloseMessage(s).calls = s.calls
<1>1. CASE s.message = None \/ s.message.done
  BY <1>1 DEF CloseMessage, Follows
<1>2. CASE s.message # None /\ ~s.message.done
  <2> DEFINE more == DoneFrames(s.message.index, s.message.text)
             out == s.out \o more
             m == [s.message EXCEPT !.done = TRUE]
  <2>1. s.message \in Message /\ m \in Message
    BY <1>2 DEF Plain, Converter, Message
  <2>2. more \in Seq(PlainFrames)
    BY <2>1, DonePlain DEF Message
  <2>3. Emit(s, more) = [s EXCEPT !.out = out] /\ out \in Seq(PlainFrames) /\ out \in Seq(Frames)
    BY <2>2, EmitPlain
  <2>4. CloseMessage(s) = [s EXCEPT !.out = out, !.message = m]
    <3> HIDE DEF more, out
    <3> QED  BY <1>2, <2>3 DEF CloseMessage, Plain, Converter, more
  <2> HIDE DEF out, m
  <2> QED
    BY <2>1, <2>3, <2>4 DEF Follows, Plain, Converter
<1> QED
  BY <1>1, <1>2

LEMMA ContentPlain ==
    ASSUME NEW s, Plain(s)
    PROVE  Follows(Content(s), s) /\ Content(s).calls = s.calls
<1> DEFINE a == StopReasoning(s)
           b == IF a.message # None THEN a ELSE OpenMessage(a)
           r == MessageDelta(b)
<1>1. Content(s) = r
  BY DEF Content, OpenMessage, MessageDelta
<1>2. Follows(a, s) /\ a.calls = s.calls
  BY StopReasoningPlain
<1> HIDE DEF a
<1>3. Follows(b, s) /\ b.calls = s.calls /\ b.message \in Message
  <2>1. CASE a.message # None
    BY <1>2, <2>1 DEF Follows, Plain, Converter
  <2>2. CASE a.message = None
    <3> DEFINE more == Announced("message", a.next)
               out == a.out \o more
               m == [index |-> a.next, text |-> 0, done |-> FALSE]
    <3>1. a.next \in Nat /\ a.next + 1 \in Nat /\ m \in Message
      BY <1>2 DEF Follows, Plain, Converter, Message
    <3>2. more \in Seq(PlainFrames)
      BY <3>1, AnnouncedPlain DEF Kinds
    <3>3. Emit(a, more) = [a EXCEPT !.out = out] /\ out \in Seq(PlainFrames) /\ out \in Seq(Frames)
      BY <1>2, <3>2, EmitPlain DEF Follows
    <3>4. b = [a EXCEPT !.out = out, !.message = m, !.next = a.next + 1]
      <4> HIDE DEF more, out
      <4> QED  BY <1>2, <2>2, <3>3 DEF OpenMessage, Follows, Plain, Converter, more
    <3> HIDE DEF out, m, b
    <3> QED
      BY <1>2, <3>1, <3>3, <3>4 DEF Follows, Plain, Converter
  <2> QED
    BY <2>1, <2>2
<1> HIDE DEF b
<1>4. Follows(r, b) /\ r.calls = b.calls
  <2> DEFINE more == <<Frame("delta", b.message.index, None, 1)>>
             out == b.out \o more
             m == [b.message EXCEPT !.text = @ + 1]
  <2>1. b.message.index \in Nat /\ m \in Message
    BY <1>3 DEF Message
  <2>2. Frame("delta", b.message.index, None, 1) \in PlainFrames
    BY <2>1, PlainFrame, FinalsNat DEF Events
  <2>3. Emit(b, more) = [b EXCEPT !.out = out] /\ out \in Seq(PlainFrames) /\ out \in Seq(Frames)
    <3>1. more \in Seq(PlainFrames)
      BY <2>2
    <3> QED
      BY <1>3, <3>1, EmitPlain DEF Follows
  <2>4. r = [b EXCEPT !.out = out, !.message = m]
    <3> HIDE DEF more, out
    <3> QED  BY <1>3, <2>3 DEF MessageDelta, Follows, Plain, Converter, more
  <2> HIDE DEF out, m, r
  <2> QED
    BY <1>3, <2>1, <2>3, <2>4 DEF Follows, Plain, Converter
<1> QED
  BY <1>1, <1>3, <1>4 DEF Follows

LEMMA ThinkPlain ==
    ASSUME NEW s, Plain(s)
    PROVE  Follows(Think(s), s) /\ Think(s).calls = s.calls
<1> DEFINE b == IF s.reasoning # None THEN s ELSE OpenReasoning(s)
           r == ReasoningDelta(b)
<1>1. Think(s) = r
  BY DEF Think, OpenReasoning, ReasoningDelta
<1>2. Follows(b, s) /\ b.calls = s.calls /\ b.reasoning \in Reasoning
  <2>1. CASE s.reasoning # None
    BY <2>1 DEF Follows, Plain, Converter
  <2>2. CASE s.reasoning = None
    <3> DEFINE more == Announced("reasoning", s.next)
               out == s.out \o more
               m == [index |-> s.next, text |-> 0]
    <3>1. s.next \in Nat /\ s.next + 1 \in Nat /\ m \in Reasoning
      BY DEF Plain, Converter, Reasoning
    <3>2. more \in Seq(PlainFrames)
      BY <3>1, AnnouncedPlain DEF Kinds
    <3>3. Emit(s, more) = [s EXCEPT !.out = out] /\ out \in Seq(PlainFrames) /\ out \in Seq(Frames)
      BY <3>2, EmitPlain
    <3>4. b = [s EXCEPT !.out = out, !.reasoning = m, !.next = s.next + 1]
      <4> HIDE DEF more, out
      <4> QED  BY <2>2, <3>3 DEF OpenReasoning, Plain, Converter, more
    <3> HIDE DEF out, m, b
    <3> QED
      BY <3>1, <3>3, <3>4 DEF Follows, Plain, Converter
  <2> QED
    BY <2>1, <2>2
<1> HIDE DEF b
<1>3. Follows(r, b) /\ r.calls = b.calls
  <2> DEFINE more == <<Frame("delta", b.reasoning.index, None, 1)>>
             out == b.out \o more
             m == [b.reasoning EXCEPT !.text = @ + 1]
  <2>1. b.reasoning.index \in Nat /\ m \in Reasoning
    BY <1>2 DEF Reasoning
  <2>2. Frame("delta", b.reasoning.index, None, 1) \in PlainFrames
    BY <2>1, PlainFrame, FinalsNat DEF Events
  <2>3. Emit(b, more) = [b EXCEPT !.out = out] /\ out \in Seq(PlainFrames) /\ out \in Seq(Frames)
    <3>1. more \in Seq(PlainFrames)
      BY <2>2
    <3> QED
      BY <1>2, <3>1, EmitPlain DEF Follows
  <2>4. r = [b EXCEPT !.out = out, !.reasoning = m]
    <3> HIDE DEF more, out
    <3> QED  BY <1>2, <2>3 DEF ReasoningDelta, Follows, Plain, Converter, more
  <2> HIDE DEF out, m, r
  <2> QED
    BY <1>2, <2>1, <2>3, <2>4 DEF Follows, Plain, Converter
<1> QED
  BY <1>1, <1>2, <1>3 DEF Follows

\* A step of the call t, with the frames that it emits.
LEMMA CallPlain ==
    ASSUME NEW s, Plain(s), NEW t \in Tools, NEW c \in Call, NEW more \in Seq(PlainFrames)
    PROVE  LET r == WithCall(s, s.out \o more, t, c)
           IN  /\ Follows(r, s) /\ r.calls[t] = c
               /\ Begun(s) \union {t} \subseteq Begun(r)
<1> DEFINE out == s.out \o more
           calls == [s.calls EXCEPT ![t] = c]
           r == WithCall(s, out, t, c)
<1>1. out \in Seq(PlainFrames) /\ out \in Seq(Frames)
  BY EmitPlain
<1>2. s.calls \in [Tools -> Call \union {None}] /\ s \in Converter
  BY DEF Plain, Converter
<1>3. calls \in [Tools -> Call \union {None}] /\ calls[t] = c
      /\ \A v \in Tools : v # t => calls[v] = s.calls[v]
  BY <1>2
<1>4. r = [s EXCEPT !.out = out, !.calls = calls]
  BY <1>2 DEF WithCall, Converter
<1> HIDE DEF out, calls, r
<1>5. Follows(r, s) /\ r.calls = calls
  BY <1>1, <1>2, <1>3, <1>4 DEF Follows, Plain, Converter
<1>6. c # None
  BY NoneAssumption
<1>7. Begun(s) \union {t} \subseteq Begun(r)
  BY <1>3, <1>5, <1>6 DEF Begun
<1> QED
  BY <1>3, <1>5, <1>7 DEF r, out

\* What the steps of the call t keep.
CallFollows(r, s, t) ==
    Follows(r, s) /\ Begun(s) \subseteq Begun(r) /\ t \in Begun(r) /\ r.calls[t] \in Call

LEMMA BegunCalls ==
    ASSUME NEW s, Plain(s)
    PROVE  /\ s.calls \in [Tools -> Call \union {None}] /\ s.next \in Nat
           /\ \A t \in Begun(s) : t \in Tools /\ s.calls[t] \in Call
BY DEF Plain, Converter, Begun

LEMMA EmitToolItemPlain ==
    ASSUME NEW s, Plain(s), NEW t \in Begun(s), NEW force \in BOOLEAN
    PROVE  CallFollows(EmitToolItem(s, t, force), s, t)
<1>1. t \in Tools /\ s.calls[t] \in Call
  BY BegunCalls
<1>2. CASE s.calls[t].added \/ ~(force \/ s.calls[t].named)
  BY <1>1, <1>2 DEF EmitToolItem, CallFollows, Follows
<1>3. CASE ~s.calls[t].added /\ (force \/ s.calls[t].named)
  <2> DEFINE f == Frame("item_added", s.calls[t].index, "function", 0)
             c == [s.calls[t] EXCEPT !.added = TRUE]
  <2>1. f \in PlainFrames /\ c \in Call
    BY <1>1, PlainFrame, FinalsNat DEF Call, Events, Kinds
  <2>2. <<f>> \in Seq(PlainFrames)
    BY <2>1
  <2>3. EmitToolItem(s, t, force) = WithCall(s, s.out \o <<f>>, t, c)
    BY <1>1, <1>3 DEF WithCall, EmitToolItem, Emit, Plain, Converter
  <2> HIDE DEF f, c
  <2> DEFINE r == WithCall(s, s.out \o <<f>>, t, c)
  <2>4. Follows(r, s) /\ r.calls[t] = c /\ Begun(s) \union {t} \subseteq Begun(r)
    BY <1>1, <2>1, <2>2, CallPlain
  <2> HIDE DEF r
  <2>5. CallFollows(r, s, t)
    BY <2>1, <2>4 DEF CallFollows
  <2> QED
    BY <2>3, <2>5 DEF r
<1> QED
  BY <1>2, <1>3

LEMMA EmitPendingPlain ==
    ASSUME NEW s, Plain(s), NEW t \in Begun(s)
    PROVE  CallFollows(EmitPendingFunctionArgs(s, t), s, t)
<1>1. t \in Tools /\ s.calls[t] \in Call
  BY BegunCalls
<1>2. CASE ~s.calls[t].added \/ s.calls[t].text <= s.calls[t].sent
  BY <1>1, <1>2 DEF EmitPendingFunctionArgs, CallFollows, Follows
<1>3. CASE s.calls[t].added /\ ~(s.calls[t].text <= s.calls[t].sent)
  <2> DEFINE n == s.calls[t].text - s.calls[t].sent
             f == Frame("delta", s.calls[t].index, None, n)
             c == [s.calls[t] EXCEPT !.sent = s.calls[t].text]
  <2>1. n \in Nat /\ c \in Call /\ s.calls[t].index \in Nat
    BY <1>1, <1>3 DEF Call
  <2>2. f \in PlainFrames
    <3> HIDE DEF n
    <3> QED  BY <2>1, PlainFrame, FinalsNat DEF Events
  <2>3. <<f>> \in Seq(PlainFrames)
    BY <2>2
  <2>4. EmitPendingFunctionArgs(s, t) = WithCall(s, s.out \o <<f>>, t, c)
    BY <1>1, <1>3 DEF WithCall, EmitPendingFunctionArgs, Emit, Plain, Converter
  <2> HIDE DEF f, c, n
  <2> DEFINE r == WithCall(s, s.out \o <<f>>, t, c)
  <2>5. Follows(r, s) /\ r.calls[t] = c /\ Begun(s) \union {t} \subseteq Begun(r)
    BY <1>1, <2>1, <2>3, CallPlain
  <2> HIDE DEF r
  <2>6. CallFollows(r, s, t)
    BY <2>1, <2>5 DEF CallFollows
  <2> QED
    BY <2>4, <2>6 DEF r
<1> QED
  BY <1>2, <1>3

LEMMA FinishCallPlain ==
    ASSUME NEW s, Plain(s), NEW t \in Begun(s)
    PROVE  CallFollows(FinishCall(s, t), s, t)
<1> DEFINE a == EmitToolItem(s, t, TRUE)
           e == EmitPendingFunctionArgs(a, t)
           r == FinishCall(s, t)
           n == Arguments(e.calls[t].text)
           f == Frame("text_done", e.calls[t].index, None, n)
           g == Frame("item_done", e.calls[t].index, None, n)
           c == [e.calls[t] EXCEPT !.done = TRUE]
<1>1. r = IF e.calls[t].done THEN e
          ELSE [Emit(e, <<f, g>>) EXCEPT !.calls[t].done = TRUE]
  BY DEF FinishCall
<1>2. CallFollows(a, s, t)
  BY EmitToolItemPlain
<1> HIDE DEF a
<1>3. CallFollows(e, a, t)
  BY <1>2, EmitPendingPlain DEF CallFollows, Follows
<1> HIDE DEF e
<1>4. CallFollows(e, s, t) /\ t \in Tools /\ Plain(e) /\ e.calls[t] \in Call
  BY <1>2, <1>3 DEF CallFollows, Follows, Begun
<1>5. CASE e.calls[t].done
  BY <1>1, <1>4, <1>5
<1>6. CASE ~e.calls[t].done
  <2>1. c \in Call /\ e.calls[t].index \in Nat /\ n \in Finals
    BY <1>4, FinalsNat DEF Call
  <2>2. f \in PlainFrames /\ g \in PlainFrames
    <3> HIDE DEF n
    <3> QED  BY <2>1, PlainFrame DEF Events
  <2>3. <<f, g>> \in Seq(PlainFrames)
    BY <2>2
  <2>4. r = WithCall(e, e.out \o <<f, g>>, t, c)
    <3> HIDE DEF f, g, r
    <3> QED  BY <1>1, <1>4, <1>6 DEF WithCall, Emit, Plain, Converter
  <2> HIDE DEF f, g, c, r, n
  <2>5. Follows(r, e) /\ r.calls[t] = c /\ Begun(e) \union {t} \subseteq Begun(r)
    BY <1>4, <2>1, <2>3, <2>4, CallPlain
  <2> QED
    BY <1>4, <2>1, <2>5 DEF CallFollows, Follows, r
<1> QED
  BY <1>5, <1>6

LEMMA ToolCallPlain ==
    ASSUME NEW s, Plain(s), NEW part \in Part
    PROVE  Follows(ToolCall(s, part), s)
<1> DEFINE t == part.tool
           known == IF s.calls[t] # None THEN s ELSE BeginCall(s, t)
           filled == FillCall(known, part)
           a == EmitToolItem(filled, t, FALSE)
           r == EmitPendingFunctionArgs(a, t)
<1>1. ToolCall(s, part) = r
  BY DEF ToolCall, BeginCall, FillCall
<1>2. t \in Tools /\ s.next \in Nat /\ s.calls \in [Tools -> Call \union {None}]
  BY BegunCalls DEF Part
<1>3. Follows(known, s) /\ t \in Begun(known)
  <2>1. CASE s.calls[t] # None
    BY <1>2, <2>1 DEF Follows, Begun
  <2>2. CASE s.calls[t] = None
    <3> DEFINE c == [index |-> s.next, named |-> FALSE, text |-> 0,
                     sent |-> 0, added |-> FALSE, done |-> FALSE]
               calls == [s.calls EXCEPT ![t] = c]
    <3>1. c \in Call
      BY <1>2 DEF Call
    <3>2. calls \in [Tools -> Call \union {None}] /\ calls[t] = c
      BY <1>2, <3>1
    <3>3. known = [s EXCEPT !.next = s.next + 1, !.calls = calls] /\ s.next + 1 \in Nat
      BY <1>2, <2>2 DEF BeginCall, Plain, Converter
    <3>4. c # None
      BY <3>1, NoneAssumption
    <3> HIDE DEF c, calls, known
    <3>5. Follows(known, s) /\ known.calls = calls
      BY <3>2, <3>3 DEF Follows, Plain, Converter
    <3> QED
      BY <1>2, <3>2, <3>4, <3>5 DEF Begun
  <2> QED
    BY <2>1, <2>2
<1> HIDE DEF known
<1>4. Follows(filled, s) /\ t \in Begun(filled)
  <2> DEFINE old == known.calls[t]
             m == old.named \/ part.named
             n == IF part.args THEN old.text + 1 ELSE old.text
             c == [old EXCEPT !.named = m, !.text = n]
             calls == [known.calls EXCEPT ![t] = c]
  <2>1. Plain(known) /\ old \in Call /\ known.calls \in [Tools -> Call \union {None}]
    BY <1>3, BegunCalls DEF Follows
  <2>2. c \in Call
    <3>1. m \in BOOLEAN /\ n \in Nat
      BY <2>1 DEF Call, Part
    <3> HIDE DEF m, n, old
    <3> QED  BY <2>1, <3>1 DEF Call
  <2>3. calls \in [Tools -> Call \union {None}] /\ calls[t] = c
    <3> HIDE DEF c
    <3> QED  BY <1>2, <2>1, <2>2
  <2>4. filled = [known EXCEPT !.calls = calls]
    <3>1. [known.calls EXCEPT ![t].named = @ \/ part.named,
                              ![t].text = IF part.args THEN @ + 1 ELSE @] = calls
      BY <1>2, <2>1 DEF Call
    <3>2. filled = [known EXCEPT !.calls = [known.calls EXCEPT ![t].named = @ \/ part.named,
                                              ![t].text = IF part.args THEN @ + 1 ELSE @]]
      BY <1>2, <2>1 DEF FillCall, Plain, Converter
    <3> QED
      BY <3>1, <3>2
  <2>5. c # None
    BY <2>2, NoneAssumption
  <2> HIDE DEF c, calls, filled
  <2>6. Follows(filled, known) /\ filled.calls = calls
    BY <2>1, <2>3, <2>4 DEF Follows, Plain, Converter
  <2> QED
    BY <1>2, <1>3, <2>3, <2>5, <2>6 DEF Follows, Begun
<1> HIDE DEF filled
<1>5. CallFollows(a, filled, t)
  BY <1>4, EmitToolItemPlain DEF Follows
<1> HIDE DEF a
<1>6. CallFollows(r, a, t)
  BY <1>5, EmitPendingPlain DEF CallFollows, Follows
<1> QED
  BY <1>1, <1>4, <1>5, <1>6 DEF CallFollows, Follows

LEMMA ToolCallsPlain ==
    ASSUME NEW s, Plain(s), NEW tools \in {<<>>} \union {<<p>> : p \in Part}
    PROVE  Follows(ToolCalls(s, tools), s)
<1> DEFINE a == StopReasoning(s)
           b == CloseMessage(a)
<1>1. Follows(a, s)
  BY StopReasoningPlain
<1>2. ToolCalls(s, tools) = IF tools = <<>> THEN b ELSE ToolCall(b, Head(tools))
  BY DEF ToolCalls
<1> HIDE DEF a
<1>3. Follows(b, a)
  BY <1>1, CloseMessagePlain DEF Follows
<1> HIDE DEF b
<1>4. CASE tools = <<>>
  BY <1>1, <1>2, <1>3, <1>4 DEF Follows
<1>5. CASE tools # <<>>
  <2>1. PICK p \in Part : tools = <<p>>
    BY <1>5
  <2>2. Head(tools) = p
    BY <2>1
  <2>3. Follows(ToolCall(b, p), b)
    BY <1>3, ToolCallPlain DEF Follows
  <2> QED
    BY <1>1, <1>2, <1>3, <1>5, <2>2, <2>3 DEF Follows
<1> QED
  BY <1>4, <1>5

LEMMA FinishReasonPlain ==
    ASSUME NEW s, Plain(s)
    PROVE  LET r == FinishReason(s)
           IN  Plain(r) /\ r.started = s.started /\ r.completed = s.completed /\ r.pending
<1> DEFINE g == Finished(s)
           b == StopReasoning(CloseMessage(s))
           Good(r) == Follows(r, s) /\ Begun(s) \subseteq Begun(r)
           C == {S \in SUBSET Begun(s) : ~Good(g[S])}
<1>1. \A t \in Begun(s) : s.calls[t].index \in Nat
  BY BegunCalls DEF Call
<1>2. g = [S \in SUBSET Begun(s) |->
             IF S = {} THEN b ELSE FinishCall(g[S \ {LastBegun(s, S)}], LastBegun(s, S))]
  BY <1>1, FinishedDefined
<1>3. Good(b)
  <2>1. Follows(CloseMessage(s), s) /\ CloseMessage(s).calls = s.calls
    BY CloseMessagePlain
  <2>2. Follows(b, CloseMessage(s)) /\ b.calls = CloseMessage(s).calls
    BY <2>1, StopReasoningPlain DEF Follows
  <2> HIDE DEF b
  <2> QED
    BY <2>1, <2>2 DEF Follows, Begun
<1> HIDE DEF g, b
<1>4. IsFiniteSet(Begun(s))
  BY StreamAssumption, FS_Subset DEF Begun
<1>5. C = {}
  <2> SUFFICES ASSUME C # {} PROVE FALSE
    OBVIOUS
  <2>0. C \in SUBSET (SUBSET Begun(s)) /\ \A S \in SUBSET Begun(s) : S \in C <=> ~Good(g[S])
    OBVIOUS
  <2> HIDE DEF C
  <2>1. PICK S \in C : \A R \in C : R \subseteq S => R = S
    BY <1>4, <2>0, Smallest
  <2>2. S \in SUBSET Begun(s) /\ ~Good(g[S])
    BY <2>0
  <2>3. CASE S = {}
    BY <1>2, <1>3, <2>2, <2>3
  <2>4. CASE S # {}
    <3> DEFINE t == LastBegun(s, S)
               R == S \ {t}
               e == g[R]
    <3>1. t \in S
      BY <1>1, <2>2, <2>4, LastBegunIn
    <3>2. R \in SUBSET Begun(s) /\ R \subseteq S /\ R # S /\ t \in Begun(s)
      BY <2>2, <3>1
    <3>3. Good(e)
      BY <2>0, <2>1, <3>2
    <3>4. g[S] = FinishCall(e, t)
      BY <1>2, <2>2, <2>4
    <3> HIDE DEF e, t
    <3>5. CallFollows(FinishCall(e, t), e, t)
      BY <3>2, <3>3, FinishCallPlain DEF Follows
    <3> QED
      BY <2>2, <3>3, <3>4, <3>5 DEF CallFollows, Follows
  <2> QED
    BY <2>3, <2>4
<1>6. Good(g[Begun(s)])
  BY <1>5
<1> DEFINE x == g[Begun(s)]
<1>7. FinishReason(s) = [x EXCEPT !.pending = TRUE]
  BY FinishReasonIs DEF g
<1> HIDE DEF x
<1>8. Follows(x, s)
  BY <1>6 DEF x
<1> QED
  BY <1>7, <1>8 DEF Follows, Plain, Converter

LEMMA StartedPlain ==
    ASSUME NEW s, Plain(s)
    PROVE  LET r == Started(s)
           IN  Plain(r) /\ r.started /\ r.pending = s.pending /\ r.completed = s.completed
<1>1. CASE s.started
  BY <1>1 DEF Started
<1>2. CASE ~s.started
  <2> DEFINE a == Frame("created", 0, None, 0)
             b == Frame("in_progress", 0, None, 0)
             out == s.out \o <<a, b>>
  <2>1. a \in PlainFrames /\ b \in PlainFrames
    BY PlainFrame, FinalsNat DEF Events
  <2>2. <<a, b>> \in Seq(PlainFrames)
    BY <2>1
  <2> HIDE DEF a, b
  <2>3. Emit(s, <<a, b>>) = [s EXCEPT !.out = out] /\ out \in Seq(PlainFrames) /\ out \in Seq(Frames)
    BY <2>2, EmitPlain
  <2> HIDE DEF out
  <2>4. Started(s) = [s EXCEPT !.out = out, !.started = TRUE]
    BY <1>2, <2>3 DEF Started, a, b, Plain, Converter
  <2> QED
    BY <2>3, <2>4 DEF Plain, Converter
<1> QED
  BY <1>1, <1>2

LEMMA ConvertPlain ==
    ASSUME NEW s, Plain(s), NEW c \in Chunk
    PROVE  LET r == Convert(s, c)
           IN  /\ Plain(r) /\ r.started /\ r.completed = s.completed
               /\ r.pending <=> s.pending \/ c.finish
<1> DEFINE a == Started(s)
           b == IF c.content THEN Content(a) ELSE a
           d == IF c.think THEN Think(b) ELSE b
           e == IF c.tools = None THEN d ELSE ToolCalls(d, c.tools)
<1>1. Convert(s, c) = IF c.finish THEN FinishReason(e) ELSE e
  BY DEF Convert
<1>2. Plain(a) /\ a.started /\ a.pending = s.pending /\ a.completed = s.completed
  BY StartedPlain
<1> HIDE DEF a
<1>3. Follows(b, a)
  BY <1>2, ContentPlain DEF Follows
<1> HIDE DEF b
<1>4. Follows(d, b)
  BY <1>3, ThinkPlain DEF Follows
<1> HIDE DEF d
<1>5. Follows(e, d)
  <2>1. c.tools # None => c.tools \in {<<>>} \union {<<p>> : p \in Part}
    BY DEF Chunk
  <2> QED
    BY <1>4, <2>1, ToolCallsPlain DEF Follows
<1> HIDE DEF e
<1>6. Plain(e) /\ e.started /\ e.pending = s.pending /\ e.completed = s.completed
  BY <1>2, <1>3, <1>4, <1>5 DEF Follows
<1>7. s.pending \in BOOLEAN
  BY DEF Plain, Converter
<1> QED
  BY <1>1, <1>6, <1>7, FinishReasonPlain

\* The completed answer has texts.
LEMMA OutputsTyped ==
    ASSUME NEW s \in Converter
    PROVE  Outputs(s) \in Summaries
<1> DEFINE more == IF s.message = None THEN <<>> ELSE <<s.message>>
           list == s.reasonings \o more
           calls == {s.calls[t] : t \in Begun(s)}
           all == ToSet(list) \union calls
           Texted(o) == o.index \in Nat /\ o.text \in Nat
<1>1. more \in Seq(Message) /\ s.reasonings \in Seq(Reasoning)
  BY DEF Converter
<1>2. \A o \in ToSet(list) : o \in Reasoning \union Message
  <2>1. list \in Seq(Reasoning \union Message)
    <3> DEFINE T == Reasoning \union Message
    <3>1. Reasoning \subseteq T /\ Message \subseteq T
      OBVIOUS
    <3> HIDE DEF more, T
    <3>2. s.reasonings \in Seq(T) /\ more \in Seq(T)
      BY <1>1, <3>1
    <3>3. s.reasonings \o more \in Seq(T)
      BY <3>2, ConcatProperties
    <3> QED
      BY <3>3 DEF T
  <2> HIDE DEF list
  <2> QED
    BY <2>1 DEF ToSet
<1>3. \A o \in calls : o \in Call
  BY DEF Converter, Begun
<1> HIDE DEF list, calls
<1>4. \A o \in all : Texted(o)
  BY <1>2, <1>3 DEF Reasoning, Message, Call
<1> DEFINE text(i) == (CHOOSE o \in all : o.index = i).text
           S == {o.index : o \in all}
<1>5. Outputs(s) = [i \in S |-> text(i)]
  BY DEF Outputs, list, calls
<1> HIDE DEF all
<1>6. S \in SUBSET Nat /\ \A i \in S : text(i) \in Nat
  <2>1. S \in SUBSET Nat
    BY <1>4
  <2>2. ASSUME NEW i \in S PROVE text(i) \in Nat
    <3> DEFINE o == CHOOSE q \in all : q.index = i
    <3>1. o \in all
      OBVIOUS
    <3> HIDE DEF o
    <3>2. o.text \in Nat
      BY <1>4, <3>1
    <3> QED
      BY <3>2 DEF o
  <2> QED
    BY <2>1, <2>2
<1> HIDE DEF S, text
<1>7. Outputs(s) \in [S -> Nat]
  BY <1>5, <1>6
<1> QED
  BY <1>6, <1>7 DEF Summaries

-----------------------------------------------------------------------------
(* The invariant.                                                          *)

\* What a client was told is a record of these four.
Account(u) == u = [response |-> u.response, items |-> u.items,
                   snapshot |-> u.snapshot, failed |-> u.failed]

TypeOK ==
    /\ st \in Converter /\ pc \in {"read", "write", "returned"}
    /\ error \in BOOLEAN /\ sawDone \in BOOLEAN /\ gone \in BOOLEAN
    /\ upstream \in [chunks : 0..MaxChunks, finish : BOOLEAN, late : BOOLEAN, done : BOOLEAN]
    /\ Account(client)

\* The converter's stages are those of what the upstream has sent.
Staged ==
    /\ st.pending => st.started /\ upstream.finish
    /\ st.completed => st.pending /\ upstream.done
    /\ sawDone => upstream.done /\ (st.completed \/ error)

\* The event loop writes what an event gave before it reads the next one.
Looped ==
    /\ pc = "read" => st.out = <<>> /\ ~error
    /\ pc = "returned" /\ ~gone => st.out = <<>> /\ (error \/ sawDone)

Queued(out, event) == \E k \in 1..Len(out) : out[k].event = event

\* How the answer ends is told or about to be told, and not taken back.
Heard ==
    /\ client.response = "completed" => st.completed
    /\ Queued(st.out, "completed") => st.completed
    /\ st.completed => /\ client.response = "completed" \/ Queued(st.out, "completed")
                       /\ ~Queued(st.out, "created") /\ ~Queued(st.out, "in_progress")
    /\ error => client.failed \/ Queued(st.out, "error")

\* The frames that are queued lead from what the client knows to what the converter
\* has said, until something follows the finish reason.
Faithful == ~upstream.late => Leads(client, st, error) /\ Kept(st, upstream.chunks)

IInv == TypeOK /\ Staged /\ Looped /\ Heard /\ Faithful

LEMMA PlainQueue ==
    ASSUME NEW out \in Seq(PlainFrames)
    PROVE  ~Queued(out, "completed") /\ ~Queued(out, "error")
<1>1. \A k \in 1..Len(out) : out[k] \in PlainFrames
  OBVIOUS
<1> QED
  BY <1>1 DEF Queued, PlainFrames, Events

\* A queue of frames is its first and the others.
LEMMA QueueHead ==
    ASSUME NEW out \in Seq(Frames), out # <<>>, NEW event
    PROVE  /\ Head(out) \in Frames /\ Tail(out) \in Seq(Frames)
           /\ Queued(out, event) <=> Head(out).event = event \/ Queued(Tail(out), event)
<1>1. /\ Len(out) \in Nat /\ Len(out) > 0 /\ Head(out) = out[1] /\ Head(out) \in Frames
      /\ Tail(out) \in Seq(Frames) /\ Len(Tail(out)) = Len(out) - 1
      /\ \A k \in 1..(Len(out) - 1) : Tail(out)[k] = out[k + 1]
  OBVIOUS
<1>2. ASSUME NEW k \in 1..Len(out), out[k].event = event
      PROVE  Head(out).event = event \/ Queued(Tail(out), event)
  <2>1. CASE k = 1
    BY <1>1, <1>2, <2>1
  <2>2. CASE k # 1
    <3>1. k - 1 \in 1..(Len(out) - 1) /\ (k - 1) + 1 = k
      BY <1>1, <2>2
    <3>2. Tail(out)[k - 1].event = event
      BY <1>1, <1>2, <3>1
    <3> QED
      BY <1>1, <3>1, <3>2 DEF Queued
  <2> QED
    BY <2>1, <2>2
<1>3. ASSUME NEW k \in 1..Len(Tail(out)), Tail(out)[k].event = event
      PROVE  Queued(out, event)
  <2>1. k \in 1..(Len(out) - 1) /\ k + 1 \in 1..Len(out)
    BY <1>1
  <2> QED
    BY <1>1, <1>3, <2>1 DEF Queued
<1>4. Head(out).event = event => Queued(out, event)
  <2>1. 1 \in 1..Len(out)
    BY <1>1
  <2> QED
    BY <1>1, <2>1 DEF Queued
<1> QED
  BY <1>1, <1>2, <1>3, <1>4 DEF Queued

\* One frame.
LEMMA QueueOne ==
    ASSUME NEW f \in Frames, NEW event
    PROVE  Queued(<<>> \o <<f>>, event) <=> f.event = event
BY DEF Queued

LEMMA InitIInv == Init => IInv
<1> SUFFICES ASSUME Init PROVE IInv
  OBVIOUS
<1>1. /\ st \in Converter /\ st.started = FALSE /\ st.pending = FALSE /\ st.completed = FALSE
      /\ st.message = None /\ st.reasoning = None /\ st.reasonings = <<>>
      /\ \A t \in Tools : st.calls[t] = None
      /\ st.next = 0 /\ st.out = <<>>
  BY DEF Init, Converter
<1>2. client \in View /\ client.response = "none" /\ client.failed = FALSE
      /\ \A i \in Indices : client.items[i] = None
  BY DEF Init, View
<1>3. Begun(st) = {} /\ Shown(client) = {} /\ Len(st.reasonings) = 0
  BY <1>1, <1>2 DEF Begun, Shown
<1>4. Agrees(st, client)
  BY <1>1, <1>3 DEF Agrees, MessageTold, ReasoningTold, ReasoningsTold, CallsTold, NothingElse
<1>5. Path(client, st.out, client)
  BY <1>1, <1>2, PathEmpty
<1>6. error = FALSE /\ pc = "read" /\ sawDone = FALSE /\ gone = FALSE
      /\ upstream = [chunks |-> 0, finish |-> FALSE, late |-> FALSE, done |-> FALSE]
  BY DEF Init
<1>7. Leads(client, st, error)
  BY <1>1, <1>2, <1>4, <1>5, <1>6 DEF Leads
<1>8. Kept(st, upstream.chunks)
  <2>1. Counted(st)
    BY <1>1, <1>3, FS_EmptySet DEF Counted, Thoughts
  <2>2. Thoughts(st) = 0
    BY <1>1, <1>3 DEF Thoughts
  <2> QED
    BY <1>1, <1>3, <1>6, <2>1, <2>2 DEF Kept, CallsShort, CallsOpen
<1>9. TypeOK
  <2>1. Account(client)
    BY DEF Init, Account
  <2>2. 0 \in 0..MaxChunks
    BY StreamAssumption
  <2>3. upstream \in [chunks : 0..MaxChunks, finish : BOOLEAN, late : BOOLEAN, done : BOOLEAN]
    BY <1>6, <2>2
  <2> QED
    BY <1>1, <1>6, <2>1, <2>3 DEF TypeOK
<1>10. Heard
  BY <1>1, <1>2, <1>6 DEF Heard, Queued
<1> QED
  BY <1>1, <1>6, <1>7, <1>8, <1>9, <1>10 DEF IInv, Staged, Looped, Faithful

\* A chunk that comes in.
LEMMA ReadChunkIInv == IInv /\ ReadChunk => IInv'
<1> SUFFICES ASSUME IInv, ReadChunk PROVE IInv'
  OBVIOUS
<1> DEFINE n == upstream.chunks
<1>1. PICK c \in Chunk :
         /\ st' = Convert(st, c)
         /\ upstream' = [upstream EXCEPT !.chunks = @ + 1,
                             !.late = @ \/ Late(c), !.finish = @ \/ c.finish]
  BY DEF ReadChunk
<1>2. /\ pc = "read" /\ ~upstream.done /\ upstream.chunks < MaxChunks /\ pc' = "write"
      /\ UNCHANGED <<error, sawDone, gone, client>>
  BY DEF ReadChunk
<1>3. TypeOK /\ Staged /\ Looped /\ Heard /\ Faithful
  BY DEF IInv
<1>4. /\ st \in Converter /\ st.out = <<>> /\ error = FALSE /\ ~st.completed
      /\ n \in Nat /\ n < MaxChunks /\ n + 1 \in 0..MaxChunks
  BY <1>2, <1>3, StreamAssumption DEF TypeOK, Looped, Staged
<1>5. Plain(st)
  BY <1>4 DEF Plain
<1>6. /\ Plain(st') /\ st'.started /\ st'.completed = st.completed
      /\ st'.pending <=> st.pending \/ c.finish
  BY <1>1, <1>5, ConvertPlain
<1>7. Late(c) \in BOOLEAN /\ c.finish \in BOOLEAN
  BY DEF Late, Chunk
<1>8. /\ upstream' \in [chunks : 0..MaxChunks, finish : BOOLEAN, late : BOOLEAN, done : BOOLEAN]
      /\ upstream'.chunks = n + 1 /\ upstream'.done = upstream.done
      /\ (upstream'.finish <=> upstream.finish \/ c.finish)
      /\ (upstream'.late <=> upstream.late \/ Late(c))
  BY <1>1, <1>3, <1>4, <1>7 DEF TypeOK
<1>9. TypeOK'
  BY <1>2, <1>3, <1>6, <1>8 DEF TypeOK, Plain
<1>10. Staged'
  BY <1>2, <1>3, <1>4, <1>6, <1>8 DEF Staged, TypeOK
<1>11. Looped'
  BY <1>2 DEF Looped
<1>12. Heard'
  <2>1. ~Queued(st'.out, "completed")
    BY <1>6, PlainQueue DEF Plain
  <2> QED
    BY <1>2, <1>3, <1>4, <1>6, <2>1 DEF Heard
<1>13. Faithful'
  <2> SUFFICES ASSUME ~upstream'.late
               PROVE  Leads(client, st', FALSE) /\ Kept(st', n + 1)
    <3>1. client' = client /\ error' = FALSE /\ upstream'.chunks = n + 1
      BY <1>2, <1>4, <1>8
    <3> QED
      BY <3>1 DEF Faithful
  <2>1. Leads(client, st, FALSE) /\ Kept(st, n)
    <3>1. Leads(client, st, error) /\ Kept(st, n)
      BY <1>3, <1>8 DEF Faithful
    <3> QED
      BY <1>4, <3>1
  <2>2. st.pending => ~c.content /\ ~c.think /\ c.tools = None
    BY <1>3, <1>8 DEF Staged, Late
  <2>3. Plays(client, st') /\ Kept(st', n + 1)
    BY <1>1, <1>4, <2>1, <2>2, ConvertPlays
  <2>4. Leads(client, st', FALSE)
    BY <2>3 DEF Plays, Leads
  <2> QED
    BY <2>3, <2>4
<1> QED
  BY <1>9, <1>10, <1>11, <1>12, <1>13 DEF IInv

\* The items in the making do not change when only frames come.
LEMMA KeptStays ==
    ASSUME NEW s, NEW r, SameItems(r, s), NEW n, Kept(s, n)
    PROVE  Kept(r, n) /\ (Closed(s) => Closed(r))
<1>1. Begun(r) = Begun(s) /\ Thoughts(r) = Thoughts(s)
  BY DEF SameItems, Begun, Thoughts
<1> QED
  BY <1>1 DEF SameItems, Kept, Counted, CallsShort, CallsOpen, Closed

\* One frame is queued, and it is an error.
LEMMA FailureQueues ==
    ASSUME NEW s \in Converter, s.out = <<>>
    PROVE  LET r == Failure(s)
           IN  /\ r \in Converter /\ r.started = s.started /\ r.pending = s.pending
               /\ r.completed = s.completed
               /\ \A event : Queued(r.out, event) <=> event = "error"
<1> DEFINE f == [event |-> "error"]
           out == <<>> \o <<f>>
<1>1. f \in Frames /\ f.event = "error"
  BY DEF Frames
<1>2. Failure(s) = [s EXCEPT !.out = out]
  BY DEF Failure, Emit, Converter
<1> HIDE DEF f
<1>3. out \in Seq(Frames)
  BY <1>1
<1>4. \A event : Queued(out, event) <=> event = "error"
  BY <1>1, QueueOne
<1> HIDE DEF out
<1> QED
  BY <1>2, <1>3, <1>4 DEF Converter

LEMMA CompletedQueues ==
    ASSUME NEW s \in Converter, s.out = <<>>, ~s.completed
    PROVE  LET r == ConvertDone(s)
           IN  /\ r \in Converter /\ r.started = s.started /\ r.pending = s.pending
               /\ r.completed <=> s.pending
               /\ ~s.pending => r.out = <<>>
               /\ s.pending => \A event : Queued(r.out, event) <=> event = "completed"
<1>1. CASE ~s.pending
  BY <1>1 DEF ConvertDone, Converter
<1>2. CASE s.pending
  <2> DEFINE f == Completed(s)
             out == <<>> \o <<f>>
  <2>1. f \in Frames /\ f.event = "completed"
    BY OutputsTyped DEF Completed, Frames
  <2>2. ConvertDone(s) = [s EXCEPT !.out = out, !.completed = TRUE]
    BY <1>2 DEF ConvertDone, Emit, Converter
  <2> HIDE DEF f
  <2>3. out \in Seq(Frames)
    BY <2>1
  <2>4. \A event : Queued(out, event) <=> event = "completed"
    BY <2>1, QueueOne
  <2> HIDE DEF out
  <2> QED
    BY <1>2, <2>2, <2>3, <2>4 DEF Converter
<1> QED
  BY <1>1, <1>2

LEMMA ReadDoneIInv == IInv /\ ReadDone => IInv'
<1> SUFFICES ASSUME IInv, ReadDone PROVE IInv'
  OBVIOUS
<1> DEFINE s == ConvertDone(st)
           n == upstream.chunks
<1>1. /\ TypeOK /\ Staged /\ Looped /\ Heard /\ Faithful
      /\ st \in Converter /\ pc = "read" /\ ~upstream.done /\ error = FALSE
      /\ st.out = <<>> /\ ~st.completed
  BY DEF IInv, ReadDone, TypeOK, Looped, Staged
<1>2. /\ st' = (IF s.completed THEN s ELSE Failure(s)) /\ error' = ~s.completed
      /\ upstream' = [upstream EXCEPT !.done = TRUE]
      /\ sawDone' = TRUE /\ pc' = "write" /\ gone' = gone /\ client' = client
  BY DEF ReadDone
<1>3. /\ s \in Converter /\ s.started = st.started /\ s.pending = st.pending
      /\ (s.completed <=> st.pending) /\ (~st.pending => s.out = <<>>)
      /\ st.pending => \A event : Queued(s.out, event) <=> event = "completed"
  BY <1>1, CompletedQueues
<1>4. /\ upstream' \in [chunks : 0..MaxChunks, finish : BOOLEAN, late : BOOLEAN, done : BOOLEAN]
      /\ upstream'.chunks = n /\ upstream'.done /\ upstream'.late = upstream.late
      /\ upstream'.finish = upstream.finish
  BY <1>1, <1>2 DEF TypeOK
<1>5. ~upstream.late => /\ Leads(client, s, FALSE) /\ SameItems(s, st) /\ Kept(st, n)
  <2> SUFFICES ASSUME ~upstream.late
               PROVE  Leads(client, s, FALSE) /\ SameItems(s, st) /\ Kept(st, n)
    OBVIOUS
  <2>1. Leads(client, st, FALSE) /\ Kept(st, n)
    <3>1. Leads(client, st, error) /\ Kept(st, n)
      BY <1>1 DEF Faithful
    <3> QED
      BY <1>1, <3>1
  <2>2. st.pending => st.started /\ Closed(st)
    BY <1>1, <2>1 DEF Staged, Kept
  <2> QED
    BY <1>1, <2>1, <2>2, ConvertDoneLeads
<1> HIDE DEF s
<1>6. CASE s.completed
  <2>1. st' = s /\ error' = FALSE
    BY <1>2, <1>6
  <2>2. TypeOK'
    BY <1>1, <1>2, <1>3, <1>4, <2>1 DEF TypeOK
  <2>3. Staged' /\ Looped'
    BY <1>1, <1>2, <1>3, <1>4, <1>6, <2>1 DEF Staged, Looped
  <2>4. Heard'
    BY <1>1, <1>2, <1>3, <1>6, <2>1 DEF Heard
  <2>5. Faithful'
    BY <1>2, <1>4, <1>5, <2>1, KeptStays DEF Faithful
  <2> QED
    BY <2>2, <2>3, <2>4, <2>5 DEF IInv
<1>7. CASE ~s.completed
  <2>1. st' = Failure(s) /\ error' = TRUE
    BY <1>2, <1>7
  <2>2. /\ st' \in Converter /\ st'.started = s.started /\ st'.pending = s.pending
        /\ ~st'.completed
        /\ \A event : Queued(st'.out, event) <=> event = "error"
    BY <1>3, <1>7, <2>1, FailureQueues
  <2>3. TypeOK'
    BY <1>1, <1>2, <1>4, <2>1, <2>2 DEF TypeOK
  <2>4. Staged' /\ Looped'
    BY <1>1, <1>2, <1>3, <1>4, <1>7, <2>1, <2>2 DEF Staged, Looped
  <2>5. Heard'
    BY <1>1, <1>2, <2>2 DEF Heard
  <2>6. Faithful'
    <3> SUFFICES ASSUME ~upstream.late
                 PROVE  Leads(client, st', TRUE) /\ Kept(st', n)
      BY <1>2, <1>4, <2>1 DEF Faithful
    <3>1. Leads(client, st', TRUE) /\ SameItems(st', s)
      BY <1>3, <1>5, <2>1, FailureLeads
    <3>2. SameItems(st', st)
      BY <1>5, <3>1 DEF SameItems
    <3> QED
      BY <1>5, <3>1, <3>2, KeptStays
  <2> QED
    BY <2>3, <2>4, <2>5, <2>6 DEF IInv
<1> QED
  BY <1>6, <1>7

\* A failure adds an error to what is queued.
LEMMA FailsIInv ==
    ASSUME IInv, pc = "read", st' = Failure(st), error' = TRUE, pc' = "write",
           UNCHANGED <<sawDone, upstream, gone, client>>
    PROVE  IInv'
<1>1. st \in Converter /\ st.out = <<>> /\ error = FALSE
  BY DEF IInv, TypeOK, Looped
<1>2. /\ st' \in Converter /\ st'.started = st.started /\ st'.pending = st.pending
      /\ st'.completed = st.completed
      /\ \A event : Queued(st'.out, event) <=> event = "error"
  BY <1>1, FailureQueues
<1>3. TypeOK' /\ Looped'
  BY <1>2 DEF IInv, TypeOK, Looped
<1>4. Staged'
  BY <1>2 DEF IInv, Staged
<1>5. Heard'
  <2>1. \A event : ~Queued(st.out, event)
    BY <1>1 DEF Queued
  <2> QED
    BY <1>2, <2>1 DEF IInv, Heard
<1>6. Faithful'
  <2> SUFFICES ASSUME ~upstream.late
               PROVE  Leads(client, st', TRUE) /\ Kept(st', upstream.chunks)
    BY DEF Faithful
  <2>1. Leads(client, st, error) /\ Kept(st, upstream.chunks)
    BY DEF IInv, Faithful
  <2>2. Leads(client, st, FALSE)
    BY <1>1, <2>1
  <2>3. Leads(client, st', TRUE) /\ SameItems(st', st)
    BY <1>1, <2>2, FailureLeads
  <2> QED
    BY <2>1, <2>3, KeptStays
<1> QED
  BY <1>3, <1>4, <1>5, <1>6 DEF IInv

LEMMA ReadFailureIInv == IInv /\ ReadFailure => IInv'
BY FailsIInv DEF ReadFailure

LEMMA ReadEofIInv == IInv /\ ReadEof => IInv'
<1> SUFFICES ASSUME IInv, ReadEof PROVE IInv'
  OBVIOUS
<1>1. CASE sawDone
  <2>1. /\ pc = "read" /\ pc' = "returned"
        /\ UNCHANGED <<st, error, sawDone, upstream, gone, client>>
    BY <1>1 DEF ReadEof
  <2>2. TypeOK' /\ Staged' /\ Looped' /\ Heard'
    BY <1>1, <2>1 DEF IInv, TypeOK, Staged, Looped, Heard
  <2>3. Faithful'
    BY <2>1 DEF IInv, Faithful
  <2> QED
    BY <2>2, <2>3 DEF IInv
<1>2. CASE ~sawDone
  BY <1>2, FailsIInv DEF ReadEof
<1> QED
  BY <1>1, <1>2

\* What a frame does to an account.
LEMMA ToldAccount ==
    ASSUME NEW u, Account(u), NEW f \in Frames
    PROVE  LET x == Told(u, f)
           IN  /\ Account(x)
               /\ x.response = (IF f.event \in {"created", "in_progress", "completed"}
                                THEN f.event ELSE u.response)
               /\ x.failed = (IF f.event = "error" THEN TRUE ELSE u.failed)
<1>1. f.event \in Events \union {"completed", "error"}
  BY DEF Frames, PlainFrames
<1>2. CASE f.event \in {"created", "in_progress"}
  BY <1>2 DEF Told, Account
<1>3. CASE f.event \in {"item_added", "part_added", "delta", "text_done", "part_done", "item_done"}
  BY <1>3 DEF Told, Account
<1>4. CASE f.event = "completed"
  BY <1>4 DEF Told, Account
<1>5. CASE f.event = "error"
  BY <1>5 DEF Told, Account
<1> QED
  BY <1>1, <1>2, <1>3, <1>4, <1>5 DEF Events

\* The client hears the first of the queued frames.
LEMMA WriteFrameIInv == IInv /\ WriteFrame => IInv'
<1> SUFFICES ASSUME IInv, WriteFrame PROVE IInv'
  OBVIOUS
<1> DEFINE f == Head(st.out)
           rest == Tail(st.out)
<1>1. /\ pc = "write" /\ st.out # <<>> /\ client' = Told(client, f)
      /\ st' = [st EXCEPT !.out = rest]
      /\ UNCHANGED <<pc, error, sawDone, upstream, gone>>
  BY DEF WriteFrame
<1>2. TypeOK /\ Staged /\ Looped /\ Heard /\ Faithful /\ st \in Converter /\ Account(client)
  BY DEF IInv, TypeOK
<1>3. st.out \in Seq(Frames)
  BY <1>2 DEF Converter
<1>4. /\ f \in Frames /\ rest \in Seq(Frames)
      /\ \A event : Queued(st.out, event) <=> f.event = event \/ Queued(rest, event)
  BY <1>1, <1>3, QueueHead
<1>5. /\ Account(client')
      /\ client'.response = (IF f.event \in {"created", "in_progress", "completed"}
                             THEN f.event ELSE client.response)
      /\ client'.failed = (IF f.event = "error" THEN TRUE ELSE client.failed)
  BY <1>1, <1>2, <1>4, ToldAccount
<1>6. Faithful'
  <2> SUFFICES ASSUME ~upstream.late
               PROVE  Leads(client', st', error) /\ Kept(st', upstream.chunks)
    BY <1>1 DEF Faithful
  <2>1. Leads(client, st, error) /\ Kept(st, upstream.chunks)
    BY <1>2 DEF Faithful
  <2>2. PICK w : /\ Path(client, st.out, w) /\ Agrees(st, w) /\ (w.failed <=> error)
                 /\ w.response = (IF st.completed THEN "completed"
                                  ELSE IF st.started THEN "in_progress" ELSE "none")
    BY <2>1 DEF Leads
  <2>3. Path(client', rest, w)
    BY <1>1, <2>2, PathHead
  <2>4. /\ st'.out = rest /\ SameItems(st', st)
        /\ st'.started = st.started /\ st'.completed = st.completed
    BY <1>1, <1>2 DEF Converter, SameItems
  <2>5. Agrees(st', w)
    BY <2>2, <2>4, AgreesOnItems DEF SameItems
  <2>6. Leads(client', st', error)
    BY <2>2, <2>3, <2>4, <2>5 DEF Leads
  <2> QED
    BY <2>1, <2>4, <2>6, KeptStays
<1> HIDE DEF f, rest
<1>7. st' \in Converter /\ st'.out = rest /\ st'.completed = st.completed
      /\ st'.pending = st.pending /\ st'.started = st.started
  BY <1>1, <1>2, <1>4 DEF Converter
<1>8. TypeOK' /\ Looped' /\ Staged'
  BY <1>1, <1>2, <1>5, <1>7 DEF TypeOK, Looped, Staged
<1>9. Heard'
  <2>1. st.completed => f.event \notin {"created", "in_progress"}
    BY <1>2, <1>4 DEF Heard
  <2> QED
    BY <1>1, <1>2, <1>4, <1>5, <1>7, <2>1 DEF Heard
<1> QED
  BY <1>6, <1>8, <1>9 DEF IInv

\* The other steps touch neither the converter nor the client.
LEMMA LoopIInv ==
    ASSUME IInv, Written \/ Abandon \/ Leave \/ UNCHANGED vars
    PROVE  IInv'
<1>1. st' = st /\ error' = error /\ upstream' = upstream /\ client' = client /\ sawDone' = sawDone
  BY DEF Written, Abandon, Leave, vars
<1>2. TypeOK' /\ Staged' /\ Heard'
  BY <1>1 DEF IInv, TypeOK, Staged, Heard, Written, Abandon, Leave, vars
<1>3. Looped'
  BY <1>1 DEF IInv, TypeOK, Looped, Written, Abandon, Leave, vars
<1>4. Faithful'
  BY <1>1 DEF IInv, Faithful
<1> QED
  BY <1>2, <1>3, <1>4 DEF IInv

\* The converter, the queued frames and the client stay in step: how the stream
\* ends, whatever the upstream sends, and what was said of the items, until something
\* but a finish reason follows the finish reason.
THEOREM StreamKeeps == Spec => []IInv
<1>1. IInv /\ [Next]_vars => IInv'
  <2> SUFFICES ASSUME IInv, [Next]_vars PROVE IInv'
    OBVIOUS
  <2> QED
    BY ReadChunkIInv, ReadDoneIInv, ReadFailureIInv, ReadEofIInv, WriteFrameIInv, LoopIInv DEF Next
<1> QED
  BY <1>1, InitIInv, PTL DEF Spec

\* A client is told that the answer is complete only when the upstream said so, and
\* is told how the stream ended if it stays, whatever the upstream sends.
THEOREM TellsTruly == Spec => []EndToldTruly
<1>1. IInv => EndToldTruly
  <2> SUFFICES ASSUME IInv PROVE EndToldTruly
    OBVIOUS
  <2>1. CompletedAfterDone
    BY DEF IInv, Staged, Heard, CompletedAfterDone
  <2>2. ASSUME pc = "returned", ~gone
        PROVE  client.response = "completed" \/ client.failed
    <3>1. st.out = <<>> /\ (st.completed \/ error)
      BY <2>2 DEF IInv, Looped, Staged
    <3>2. \A event : ~Queued(st.out, event)
      BY <3>1 DEF Queued
    <3> QED
      BY <3>1, <3>2 DEF IInv, Heard
  <2> QED
    BY <2>1, <2>2 DEF EndToldTruly
<1> QED
  BY <1>1, StreamKeeps, PTL

-----------------------------------------------------------------------------
(* The protocol.                                                           *)

\* A frame that is allowed is a step of the protocol.
LEMMA FrameIsStep ==
    ASSUME client \in View, NEW f, f \in Frames, Allowed(client, f), client' = Told(client, f)
    PROVE  Protocol!Next
<1> DEFINE i == f.index
           o == client.items[f.index]
<1>0. ~client.failed /\ client.failed \in BOOLEAN
  BY DEF Allowed, View
<1>1. CASE f.event = "error"
  <2>1. client' = [client EXCEPT !.failed = TRUE]
    BY <1>1 DEF Told
  <2> QED
    BY <1>0, <2>1 DEF View, Protocol!Next
<1>2. CASE f.event = "created" /\ client.response = "none"
  <2>1. client' = [client EXCEPT !.response = "created"]
    BY <1>2 DEF Told
  <2> QED
    BY <1>0, <1>2, <2>1 DEF View, Protocol!Next, Protocol!Created
<1>3. CASE f.event = "in_progress" /\ client.response = "created"
  <2>1. client' = [client EXCEPT !.response = "in_progress"]
    BY <1>3 DEF Told
  <2> QED
    BY <1>0, <1>3, <2>1 DEF View, Protocol!Next, Protocol!InProgress
<1>4. CASE /\ f.event = "completed" /\ client.response = "in_progress"
           /\ \A j \in Shown(client) : client.items[j].stage = "done"
           /\ f.outputs = [j \in Shown(client) |-> client.items[j].text]
  <2>1. client' = [client EXCEPT !.response = "completed", !.snapshot = f.outputs]
    BY <1>4 DEF Told
  <2>2. Protocol!Sent = Shown(client)
    BY DEF Protocol!Sent, Shown
  <2>3. /\ client'.response = "completed" /\ client'.snapshot = f.outputs
        /\ client'.items = client.items /\ client'.failed = client.failed
    BY <2>1 DEF View
  <2> QED
    BY <1>0, <1>4, <2>2, <2>3 DEF Protocol!Next, Protocol!Completed
<1>5. CASE client.response = "in_progress" /\ ItemAllowed(client, f)
  <2>1. i \in Indices /\ f.event \notin {"error", "completed", "created", "in_progress"}
    BY <1>5 DEF ItemAllowed
  <2>2. SUFFICES Protocol!Output(i) /\ client'.failed = client.failed
    BY <1>0, <2>1 DEF Protocol!Next
  <2>3. \A x : /\ Put(client, i, x).response = client.response
               /\ Put(client, i, x).snapshot = client.snapshot
               /\ Put(client, i, x).failed = client.failed
               /\ Put(client, i, x).items = [client.items EXCEPT ![i] = x]
    BY <2>1 DEF Put, View
  <2>4. CASE f.event = "item_added"
    <3> DEFINE x == [kind |-> f.kind, stage |-> "added", text |-> 0, final |-> None]
    <3>1. client' = Put(client, i, x)
      BY <2>1, <2>4, ItemTold
    <3>2. o = None /\ f.kind \in Kinds
      BY <1>5, <2>4 DEF ItemAllowed
    <3>3. Protocol!ItemAdded(i, f.kind)
      BY <2>3, <3>1, <3>2 DEF Protocol!ItemAdded
    <3> QED
      BY <1>5, <2>3, <3>1, <3>2, <3>3 DEF Protocol!Output
  <2>5. CASE f.event = "part_added"
    <3>1. client' = Put(client, i, [o EXCEPT !.stage = "part"])
      BY <2>1, <2>5, ItemTold
    <3>2. o # None /\ o.stage = "added" /\ o.kind \in Parted
      BY <1>5, <2>5 DEF ItemAllowed
    <3>3. Protocol!PartAdded(i)
      BY <2>1, <2>3, <3>1, <3>2 DEF Protocol!PartAdded, Protocol!Move, Parted, View
    <3> QED
      BY <1>5, <2>3, <3>1, <3>3 DEF Protocol!Output
  <2>6. CASE f.event = "delta"
    <3>1. client' = Put(client, i, [o EXCEPT !.text = @ + f.text])
      BY <2>1, <2>6, ItemTold
    <3>2. /\ o # None /\ f.text \in 1..MaxChunks
          /\ \/ o.stage = (IF o.kind \in Parted THEN "part" ELSE "added")
             \/ o.stage = "done" /\ o.kind = "message"
      BY <1>5, <2>6 DEF ItemAllowed
    <3>3. client'.items = [client.items EXCEPT ![i] = [o EXCEPT !.text = @ + f.text]]
      BY <2>3, <3>1
    <3>4. [client.items EXCEPT ![i].text = @ + f.text]
            = [client.items EXCEPT ![i] = [o EXCEPT !.text = @ + f.text]]
      BY <2>1 DEF View
    <3>5. Protocol!Delta(i) \/ Protocol!Reopened(i)
      BY <3>2, <3>3, <3>4 DEF Protocol!Delta, Protocol!Reopened, Protocol!Ready, Parted
    <3> QED
      BY <1>5, <2>3, <3>1, <3>5 DEF Protocol!Output
  <2>7. CASE f.event = "text_done"
    <3>1. client' = Put(client, i, [o EXCEPT !.stage = "text_done", !.final = f.text])
      BY <2>1, <2>7, ItemTold
    <3>2. /\ o # None /\ o.stage = (IF o.kind \in Parted THEN "part" ELSE "added")
          /\ f.text = (IF o.kind \in Parted THEN o.text ELSE Arguments(o.text))
      BY <1>5, <2>7 DEF ItemAllowed
    <3>3. client.items \in [Indices -> Item \union {None}] /\ o \in Item
      BY <2>1, <3>2 DEF View
    <3>4. f.text = Protocol!Final(i)
      BY <3>2 DEF Protocol!Final, Parted, Arguments
    <3>5. [client.items EXCEPT ![i].stage = "text_done", ![i].final = Protocol!Final(i)]
            = [client.items EXCEPT ![i] = [o EXCEPT !.stage = "text_done", !.final = Protocol!Final(i)]]
      BY <2>1, <3>3 DEF Item
    <3>6. client'.items = [client.items EXCEPT ![i] = [o EXCEPT !.stage = "text_done",
                                                                !.final = Protocol!Final(i)]]
      BY <2>3, <3>1, <3>4
    <3>7. Protocol!TextDone(i)
      BY <3>2, <3>5, <3>6 DEF Protocol!TextDone, Protocol!Ready, Parted
    <3> QED
      BY <1>5, <2>3, <3>1, <3>7 DEF Protocol!Output
  <2>8. CASE f.event = "part_done"
    <3>1. client' = Put(client, i, [o EXCEPT !.stage = "part_done", !.final = f.text])
      BY <2>1, <2>8, ItemTold
    <3>2. o # None /\ o.stage = "text_done" /\ o.kind \in Parted /\ f.text = o.final
      BY <1>5, <2>8 DEF ItemAllowed
    <3>3. o \in Item
      BY <2>1, <3>2 DEF View
    <3>4. [o EXCEPT !.stage = "part_done", !.final = f.text] = [o EXCEPT !.stage = "part_done"]
      BY <3>2, <3>3 DEF Item
    <3>5. Protocol!PartDone(i)
      BY <2>1, <2>3, <3>1, <3>2, <3>4 DEF Protocol!PartDone, Protocol!Move, Parted, View
    <3> QED
      BY <1>5, <2>3, <3>1, <3>5 DEF Protocol!Output
  <2>9. CASE f.event = "item_done"
    <3>1. client' = Put(client, i, [o EXCEPT !.stage = "done", !.final = f.text])
      BY <2>1, <2>9, ItemTold
    <3>2. /\ o # None /\ f.text = o.final
          /\ o.stage = (IF o.kind \in Parted THEN "part_done" ELSE "text_done")
      BY <1>5, <2>9 DEF ItemAllowed
    <3>3. o \in Item
      BY <2>1, <3>2 DEF View
    <3>4. [o EXCEPT !.stage = "done", !.final = f.text] = [o EXCEPT !.stage = "done"]
      BY <3>2, <3>3 DEF Item
    <3>5. Protocol!ItemDone(i)
      BY <2>1, <2>3, <3>1, <3>2, <3>4 DEF Protocol!ItemDone, Protocol!Move, Parted, View
    <3> QED
      BY <1>5, <2>3, <3>1, <3>5 DEF Protocol!Output
  <2> QED
    BY <1>5, <2>4, <2>5, <2>6, <2>7, <2>8, <2>9 DEF ItemAllowed
<1> QED
  BY <1>1, <1>2, <1>3, <1>4, <1>5 DEF Allowed

\* As long as nothing but finish reasons follows the finish reason, the translated
\* stream is one of ResponsesProtocol.
THEOREM StreamImplementsProtocol == Spec => ImplementsProtocol
<1>1. Init => Protocol!Init
  BY DEF Init, Protocol!Init
<1>2. IInv /\ [Next]_vars => [~upstream.late => Protocol!Next]_(Protocol!vars)
  <2> SUFFICES ASSUME IInv, [Next]_vars
               PROVE  (~upstream.late => Protocol!Next) \/ UNCHANGED Protocol!vars
    OBVIOUS
  <2>1. CASE WriteFrame /\ ~upstream.late
    <3>1. PICK w : Path(client, st.out, w)
      BY <2>1 DEF IInv, Faithful, Leads
    <3>2. st.out # <<>> /\ client' = Told(client, Head(st.out))
      BY <2>1 DEF WriteFrame
    <3>3. client \in View /\ Head(st.out) \in Frames /\ Allowed(client, Head(st.out))
      BY <3>1, <3>2, PathEnds, PathHead
    <3> QED
      BY <3>2, <3>3, FrameIsStep
  <2>2. CASE ~WriteFrame
    <3>1. client' = client
      BY <2>2 DEF Next, ReadChunk, ReadDone, ReadFailure, ReadEof, Written, Abandon, Leave, vars
    <3> QED
      BY <3>1 DEF Protocol!vars
  <2> QED
    BY <2>1, <2>2
<1> QED
  BY <1>1, <1>2, StreamKeeps, PTL DEF Spec, ImplementsProtocol
=============================================================================
