--------------------------- MODULE ResponsesStream ---------------------------
(***************************************************************************)
(* The translation of a streamed Chat Completions answer to the events of  *)
(* the Responses API (internal/modules/ai/responsescompat: TranslateStream *)
(* in stream.go and the converter in upstream_response.go).                *)
(*                                                                         *)
(* The upstream stream is read event by event.  An event is turned into    *)
(* frames, which are written to the client one by one; a write may fail.   *)
(*                                                                         *)
(* Data abstraction.  Text is its length in pieces; an item is known by    *)
(* its output index; ids, names, usage figures and sequence numbers are    *)
(* left out.  A request asks for one choice.  TranslateRequest refuses     *)
(* custom tools (validateTools, validateInput), so tool calls are function *)
(* calls.  Objects that the converter ignores (usage without choices,      *)
(* objects of another type) change nothing that is left here.              *)
(*                                                                         *)
(* The upstream may send anything at any time; upstream.late remembers     *)
(* that something but a finish reason came after the finish reason.        *)
(***************************************************************************)
EXTENDS Naturals, FiniteSets, Sequences, SequencesExt

CONSTANTS
    Tools,      \* indices of the tool calls
    MaxChunks,  \* bound: chunks of one answer
    EmptyObject,  \* the text {}
    None

ASSUME StreamAssumption == MaxChunks \in Nat /\ IsFiniteSet(Tools)

VARIABLES
    st,         \* oaiToResponsesState; out: the frames made from the event
    pc,         \* "read", "write" or "returned"
    error,      \* TranslateStream returns an error once the frames are written
    sawDone,    \* TranslateStream's variable
    upstream,   \* what the upstream has sent so far
    gone,       \* the client has left
    client      \* what the client was told

vars == <<st, pc, error, sawDone, upstream, gone, client>>

Indices == 0..(MaxChunks + Cardinality(Tools))
Kinds == {"message", "reasoning", "function"}

\* A part of a tool call: named once it brings both id and name.
Part == [tool : Tools, named : BOOLEAN, args : BOOLEAN]

\* tools: no tool_calls, an empty list, or the part of one call.
Chunk == [content : BOOLEAN, think : BOOLEAN,
          tools : {None, <<>>} \union {<<p>> : p \in Part}, finish : BOOLEAN]

\* The output items in the making, as the converter keeps them.
Message == [index : Nat, text : Nat, done : BOOLEAN]
Reasoning == [index : Nat, text : Nat]
Call == [index : Nat, named : BOOLEAN, text : Nat, sent : Nat, added : BOOLEAN, done : BOOLEAN]

\* An output item, as the client knows it.
Item == [kind : Kinds, stage : {"added", "part", "text_done", "part_done", "done"},
         text : Nat, final : Nat \union {EmptyObject, None}]

ASSUME NoneAssumption == None \notin Message \union Reasoning \union Call \union Item

Init ==
    /\ st = [started |-> FALSE, pending |-> FALSE, completed |-> FALSE,
             message |-> None, reasoning |-> None, reasonings |-> <<>>,
             calls |-> [t \in Tools |-> None], next |-> 0, out |-> <<>>]
    /\ pc = "read"
    /\ error = FALSE
    /\ sawDone = FALSE
    /\ upstream = [chunks |-> 0, finish |-> FALSE, late |-> FALSE, done |-> FALSE]
    /\ gone = FALSE
    /\ client = [response |-> "none", items |-> [i \in Indices |-> None],
                 snapshot |-> None, failed |-> FALSE]

-----------------------------------------------------------------------------
(* Frames.  Each operator takes the converter's state s to the next one.   *)

Frame(event, i, kind, n) == [event |-> event, index |-> i, kind |-> kind, text |-> n]

Emit(s, frames) == [s EXCEPT !.out = @ \o frames]

Started(s) ==
    IF s.started THEN s
    ELSE [Emit(s, <<Frame("created", 0, None, 0), Frame("in_progress", 0, None, 0)>>)
            EXCEPT !.started = TRUE]

\* The three events that finish a message or a reasoning item.
DoneFrames(i, n) ==
    <<Frame("text_done", i, None, n), Frame("part_done", i, None, n),
      Frame("item_done", i, None, n)>>

\* stopReasoning
StopReasoning(s) ==
    IF s.reasoning = None THEN s
    ELSE [Emit(s, DoneFrames(s.reasoning.index, s.reasoning.text))
            EXCEPT !.reasonings = Append(@, s.reasoning), !.reasoning = None]

CloseMessage(s) ==
    IF s.message = None \/ s.message.done THEN s
    ELSE [Emit(s, DoneFrames(s.message.index, s.message.text))
            EXCEPT !.message.done = TRUE]

\* An item with one content part is announced before its first text.
Announced(kind, i) == <<Frame("item_added", i, kind, 0), Frame("part_added", i, None, 0)>>

\* Text goes to the message, also to one that tool_calls or a finish reason closed:
\* it is neither announced nor closed again.
Content(s) ==
    LET r == StopReasoning(s)
        m == IF r.message # None THEN r
             ELSE [Emit(r, Announced("message", r.next)) EXCEPT
                     !.message = [index |-> r.next, text |-> 0, done |-> FALSE],
                     !.next = @ + 1] IN
    [Emit(m, <<Frame("delta", m.message.index, None, 1)>>)
        EXCEPT !.message.text = @ + 1]

Think(s) ==
    LET r == IF s.reasoning # None THEN s
             ELSE [Emit(s, Announced("reasoning", s.next)) EXCEPT
                     !.reasoning = [index |-> s.next, text |-> 0],
                     !.next = @ + 1] IN
    [Emit(r, <<Frame("delta", r.reasoning.index, None, 1)>>)
        EXCEPT !.reasoning.text = @ + 1]

\* emitToolItem: a call is announced once it has an id and a name, or by force.
EmitToolItem(s, t, force) ==
    IF s.calls[t].added \/ ~(force \/ s.calls[t].named) THEN s
    ELSE [Emit(s, <<Frame("item_added", s.calls[t].index, "function", 0)>>)
            EXCEPT !.calls[t].added = TRUE]

\* Mutant: what was sent is forgotten.
EmitAllFunctionArgs(s, t) ==
    IF ~s.calls[t].added \/ s.calls[t].text <= s.calls[t].sent THEN s
    ELSE Emit(s, <<Frame("delta", s.calls[t].index, None, s.calls[t].text)>>)

\* emitPendingFunctionArgs
EmitPendingFunctionArgs(s, t) ==
    IF ~s.calls[t].added \/ s.calls[t].text <= s.calls[t].sent THEN s
    ELSE [Emit(s, <<Frame("delta", s.calls[t].index, None,
                          s.calls[t].text - s.calls[t].sent)>>)
            EXCEPT !.calls[t].sent = s.calls[t].text]

ToolCall(s, part) ==
    LET t == part.tool
        known == IF s.calls[t] # None THEN s
                 ELSE [s EXCEPT !.next = @ + 1,
                         !.calls[t] = [index |-> s.next, named |-> FALSE, text |-> 0,
                                       sent |-> 0, added |-> FALSE, done |-> FALSE]]
        filled == [known EXCEPT
                     !.calls[t].named = @ \/ part.named,
                     !.calls[t].text = IF part.args THEN @ + 1 ELSE @] IN
    EmitPendingFunctionArgs(EmitToolItem(filled, t, FALSE), t)

\* tool_calls, even an empty list, closes what came before.
ToolCalls(s, tools) ==
    LET r == CloseMessage(StopReasoning(s)) IN
    IF tools = <<>> THEN r ELSE ToolCall(r, Head(tools))

\* The done events of a call without arguments say {}; buildResponsesCompletedEvent
\* repeats the empty buffer.
Arguments(n) == IF n = 0 THEN EmptyObject ELSE n

FinishCall(s, t) ==
    LET e == EmitPendingFunctionArgs(EmitToolItem(s, t, TRUE), t)
        c == e.calls[t] IN
    IF c.done THEN e
    ELSE [Emit(e, <<Frame("text_done", c.index, None, Arguments(c.text)),
                    Frame("item_done", c.index, None, Arguments(c.text))>>)
            EXCEPT !.calls[t].done = TRUE]

Begun(s) == {t \in Tools : s.calls[t] # None}

\* The call of T that was begun last.
LastBegun(s, T) == CHOOSE t \in T : \A u \in T : s.calls[u].index <= s.calls[t].index

\* Calls are finished in the order of their indices.
FinishReason(s) ==
    LET finished[T \in SUBSET Begun(s)] ==
            IF T = {} THEN StopReasoning(CloseMessage(s))
            ELSE FinishCall(finished[T \ {LastBegun(s, T)}], LastBegun(s, T)) IN
    [finished[Begun(s)] EXCEPT !.pending = TRUE]

\* One chunk through the converter.
Convert(s, c) ==
    LET a == Started(s)
        b == IF c.content THEN Content(a) ELSE a
        d == IF c.think THEN Think(b) ELSE b
        e == IF c.tools = None THEN d ELSE ToolCalls(d, c.tools) IN
    IF c.finish THEN FinishReason(e) ELSE e

\* buildResponsesCompletedEvent: the text of every item, by index.
Outputs(s) ==
    LET list == s.reasonings \o (IF s.message = None THEN <<>> ELSE <<s.message>>)
        calls == {s.calls[t] : t \in Begun(s)}
        all == ToSet(list) \union calls IN
    [i \in {o.index : o \in all} |-> (CHOOSE o \in all : o.index = i).text]

Completed(s) == [event |-> "completed", outputs |-> Outputs(s)]

ConvertDone(s) ==
    IF s.pending /\ ~s.completed
    THEN [Emit(s, <<Completed(s)>>) EXCEPT !.completed = TRUE]
    ELSE s

-----------------------------------------------------------------------------
(* TranslateStream: the event loop                                          *)

\* A chunk after the finish reason that brings more than another one.
Late(c) == upstream.finish /\ (c.content \/ c.think \/ c.tools # None)

ReadChunk ==
    /\ pc = "read" /\ ~upstream.done /\ ~gone
    /\ upstream.chunks < MaxChunks
    /\ \E c \in Chunk :
          /\ st' = Convert(st, c)
          /\ upstream' = [upstream EXCEPT !.chunks = @ + 1,
                              !.late = @ \/ Late(c),
                              !.finish = @ \/ c.finish]
    /\ pc' = "write"
    /\ UNCHANGED <<error, sawDone, gone, client>>

Failure(s) == Emit(s, <<[event |-> "error"]>>)

\* [DONE]; without a finish reason before it the stream is incomplete.
ReadDone ==
    /\ pc = "read" /\ ~upstream.done /\ ~gone
    /\ LET s == ConvertDone(st) IN
          /\ st' = IF s.completed THEN s ELSE Failure(s)
          /\ error' = ~s.completed
    /\ upstream' = [upstream EXCEPT !.done = TRUE]
    /\ sawDone' = TRUE
    /\ pc' = "write"
    /\ UNCHANGED <<gone, client>>

\* Malformed JSON, an error object, an object without choices, an event that is
\* too long, or a connection that breaks, also after [DONE].
ReadFailure ==
    /\ pc = "read" /\ ~gone
    /\ st' = Failure(st)
    /\ error' = TRUE
    /\ pc' = "write"
    /\ UNCHANGED <<sawDone, upstream, gone, client>>

\* Mutant: a finish reason is as good as [DONE].
ReadEofAfterFinish ==
    /\ pc = "read" /\ ~gone
    /\ IF sawDone \/ st.pending
       THEN /\ pc' = "returned"
            /\ UNCHANGED <<st, error>>
       ELSE /\ st' = Failure(st)
            /\ error' = TRUE
            /\ pc' = "write"
    /\ UNCHANGED <<sawDone, upstream, gone, client>>

ReadEof ==
    /\ pc = "read" /\ ~gone
    /\ IF sawDone
       THEN /\ pc' = "returned"
            /\ UNCHANGED <<st, error>>
       ELSE /\ st' = Failure(st)
            /\ error' = TRUE
            /\ pc' = "write"
    /\ UNCHANGED <<sawDone, upstream, gone, client>>

\* What a client that knows seen makes of a frame.
Told(seen, f) ==
    CASE f.event \in {"created", "in_progress"} ->
            [seen EXCEPT !.response = f.event]
      [] f.event = "item_added" ->
            [seen EXCEPT !.items[f.index] = [kind |-> f.kind, stage |-> "added",
                                               text |-> 0, final |-> None]]
      [] f.event = "part_added" -> [seen EXCEPT !.items[f.index].stage = "part"]
      [] f.event = "delta" -> [seen EXCEPT !.items[f.index].text = @ + f.text]
      [] f.event \in {"text_done", "part_done"} ->
            [seen EXCEPT !.items[f.index].stage = f.event,
                           !.items[f.index].final = f.text]
      [] f.event = "item_done" ->
            [seen EXCEPT !.items[f.index].stage = "done",
                           !.items[f.index].final = f.text]
      [] f.event = "completed" ->
            [seen EXCEPT !.response = "completed", !.snapshot = f.outputs]
      [] f.event = "error" -> [seen EXCEPT !.failed = TRUE]

\* writeChunks and writeError, one frame.
WriteFrame ==
    /\ pc = "write" /\ ~gone
    /\ st.out # <<>>
    /\ client' = Told(client, Head(st.out))
    /\ st' = [st EXCEPT !.out = Tail(@)]
    /\ UNCHANGED <<pc, error, sawDone, upstream, gone>>

Written ==
    /\ pc = "write"
    /\ st.out = <<>>
    /\ pc' = IF error THEN "returned" ELSE "read"
    /\ UNCHANGED <<st, error, sawDone, upstream, gone, client>>

\* A failing write, or the cancelled context at the head of the loop.
Abandon ==
    /\ pc # "returned" /\ gone
    /\ pc' = "returned"
    /\ UNCHANGED <<st, error, sawDone, upstream, gone, client>>

Leave ==
    /\ pc # "returned" /\ ~gone
    /\ gone' = TRUE
    /\ UNCHANGED <<st, pc, error, sawDone, upstream, client>>

Next ==
    \/ ReadChunk \/ ReadDone \/ ReadFailure \/ ReadEof
    \/ WriteFrame \/ Written \/ Abandon \/ Leave

Spec == Init /\ [][Next]_vars

-----------------------------------------------------------------------------
(* Properties *)

\* stream.go: "It never emits response.completed unless the upstream explicitly
\* terminates with [DONE] after a finish_reason."
CompletedAfterDone ==
    client.response = "completed" => upstream.done /\ upstream.finish

\* A client learns truly how the stream ended: it is told that the answer is
\* complete only when the upstream said so (CompletedAfterDone), and, if it
\* stays, TranslateStream does not return without response.completed or an error.
EndToldTruly ==
    /\ CompletedAfterDone
    /\ pc = "returned" /\ ~gone => client.response = "completed" \/ client.failed

Protocol == INSTANCE ResponsesProtocol WITH
    Lengths <- 1..MaxChunks, Parted <- {"message", "reasoning"}, Empty <- EmptyObject,
    response <- client.response, items <- client.items,
    snapshot <- client.snapshot, failed <- client.failed

\* As long as nothing but finish reasons follows the finish reason, the events are
\* those of ResponsesProtocol: items are announced, filled and closed in order, done
\* events carry what was streamed until then, and the completed answer all of it,
\* whatever the order and the mixture of text, reasoning and tool calls.
ImplementsProtocol ==
    /\ Protocol!Init
    /\ [][~upstream.late => Protocol!Next]_(Protocol!vars)
=============================================================================
