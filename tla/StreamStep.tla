----------------------------- MODULE StreamStep -----------------------------
(***************************************************************************)
(* The chunk protocol between a provider and the agent runtime (core/src/  *)
(* app/cc_agent_runtime.c): what stream_loop_callback makes of the chunks  *)
(* of one step, whether they come from a native stream or are made of a    *)
(* complete response, and what has to hold before any tool of the step is  *)
(* executed.                                                               *)
(*                                                                         *)
(* A chunk is a record [type, index, id, content].  Content counts one     *)
(* byte; what a tool's arguments say is abstracted to the pieces they came *)
(* in: "object" is a whole JSON object, "half" and "rest" make one         *)
(* together.                                                               *)
(***************************************************************************)
EXTENDS Integers, Sequences, SequencesExt

CONSTANTS
    MaxTools,           \* CC_STREAM_MAX_TOOL_CALLS, 8 in the code
    MaxStreamBytes      \* limits.max_stream_bytes; 0 means no limit

ASSUME StreamAssumption == MaxTools \in Nat \ {0} /\ MaxStreamBytes \in Nat

NoId == "no id"
NoIndex == -1
Chunk(type, index, id, content) == [type |-> type, index |-> index, id |-> id, content |-> content]
TextChunk == Chunk("text", NoIndex, NoId, "words")
FinishedChunk == Chunk("finished", NoIndex, NoId, "none")

(* stream_loop_ctx_t as a step finds it.  The slots are filled in order     *)
(* and none is given back before the step is over.  "rc" is what the        *)
(* callback last told the provider.                                         *)
NewContext == [slots |-> << >>, text |-> 0, thinking |-> 0, bytes |-> 0, finished |-> FALSE,
               cancelled |-> FALSE, limited |-> FALSE, rc |-> "ok"]

Fails(ctx, code) == [ctx EXCEPT !.rc = code]
-----------------------------------------------------------------------------
(* The slots *)

(* The first slot of that provider index or that id; 0 if there is none    *)
FindSlot(ctx, chunk) ==
    LET is == {i \in 1..Len(ctx.slots) :
                  \/ chunk.index >= 0 /\ ctx.slots[i].index = chunk.index
                  \/ chunk.id # NoId /\ ctx.slots[i].id = chunk.id} IN
    IF is = {} THEN 0 ELSE CHOOSE i \in is : \A j \in is : i <= j

ToolStart(ctx, chunk) ==
    IF FindSlot(ctx, chunk) # 0 THEN Fails(ctx, "model")
    ELSE IF Len(ctx.slots) >= MaxTools THEN Fails(ctx, "limit")
    ELSE [ctx EXCEPT !.slots = Append(@, [index |-> chunk.index, id |-> chunk.id,
                                          args |-> << >>, ended |-> FALSE])]

ToolDeltaMutant(ctx, chunk) ==
    LET i == IF FindSlot(ctx, chunk) # 0 THEN FindSlot(ctx, chunk) ELSE Len(ctx.slots) IN
    IF i = 0 \/ ctx.slots[i].ended THEN Fails(ctx, "model")
    ELSE IF chunk.content = "none" THEN ctx
    ELSE [ctx EXCEPT !.slots[i].args = Append(@, chunk.content)]

ToolDelta(ctx, chunk) ==
    LET i == FindSlot(ctx, chunk) IN
    IF i = 0 \/ ctx.slots[i].ended THEN Fails(ctx, "model")
    ELSE IF chunk.content = "none" THEN ctx
    ELSE [ctx EXCEPT !.slots[i].args = Append(@, chunk.content)]

(* An end that names no tool ends all that are open *)
ToolEnd(ctx, chunk) ==
    IF chunk.index < 0 /\ chunk.id = NoId
    THEN IF ctx.slots = << >> THEN Fails(ctx, "model")
         ELSE [ctx EXCEPT !.slots = [i \in 1..Len(@) |-> [@[i] EXCEPT !.ended = TRUE]]]
    ELSE LET i == FindSlot(ctx, chunk) IN
         IF i = 0 \/ ctx.slots[i].ended THEN Fails(ctx, "model")
         ELSE [ctx EXCEPT !.slots[i].ended = TRUE]
-----------------------------------------------------------------------------
(* The callback *)

(* stream_loop_forward_chunk: the limit on what the application is sent,    *)
(* then the application's own callback, which may refuse the chunk          *)
ForwardChunk(ctx, chunk, refuses) ==
    LET n == IF chunk.content = "none" THEN 0 ELSE 1 IN
    IF ctx.limited THEN Fails(ctx, "limit")
    ELSE IF MaxStreamBytes > 0 /\ ctx.bytes + n > MaxStreamBytes
         THEN [ctx EXCEPT !.limited = TRUE, !.finished = TRUE, !.rc = "limit"]
    ELSE [ctx EXCEPT !.bytes = IF MaxStreamBytes > 0 THEN @ + n ELSE @,
                     !.rc = IF refuses THEN "application" ELSE "ok"]

(* stream_loop_callback.  A chunk of another type (artifact, warning,       *)
(* error) is only forwarded and published.                                  *)
Accept(ctx, chunk) ==
    CASE chunk.type = "text" -> [ctx EXCEPT !.text = @ + 1]
      [] chunk.type = "thinking" -> [ctx EXCEPT !.thinking = @ + 1]
      [] chunk.type = "tool start" -> ToolStart(ctx, chunk)
      [] chunk.type = "tool delta" -> ToolDelta(ctx, chunk)
      [] chunk.type = "tool end" -> ToolEnd(ctx, chunk)
      [] chunk.type = "finished" -> [ctx EXCEPT !.finished = TRUE]
      [] OTHER -> ctx

Callback(ctx, chunk, cancelled, refuses) ==
    IF cancelled THEN [ctx EXCEPT !.cancelled = TRUE, !.finished = TRUE, !.rc = "cancelled"]
    ELSE LET forwarded == ForwardChunk(ctx, chunk, refuses) IN
         IF forwarded.rc # "ok" THEN forwarded ELSE Accept(forwarded, chunk)

(* A provider stops at the first chunk that is refused.  Up to the chunk    *)
(* "stop" the run is not cancelled, after it it is; "refuse" is the one the *)
(* application does not want; "sent" is what it was sent in earlier steps.  *)
ConsumeFrom(ctx, chunks, stop, refuse) ==
    LET after[i \in 0..Len(chunks)] ==
            IF i = 0 THEN ctx
            ELSE LET before == after[i - 1] IN
                 IF before.rc # "ok" THEN before
                 ELSE Callback(before, chunks[i], i > stop, i = refuse) IN
    after[Len(chunks)]

Consume(chunks, stop, refuse, sent) == ConsumeFrom([NewContext EXCEPT !.bytes = sent], chunks, stop, refuse)
-----------------------------------------------------------------------------
(* stream_loop_consume_sync_response: the chunks a complete response is     *)
(* turned into.  A response is [thinking, text, calls, artifacts]; a call   *)
(* is [id, args], and no arguments are an empty object.                     *)
SyncTooMany(response) == Len(response.calls) > MaxTools

SyncChunks(response) ==
    (IF response.thinking THEN <<Chunk("thinking", NoIndex, NoId, "words")>> ELSE << >>)
    \o (IF response.text THEN <<TextChunk>> ELSE << >>)
    \o FlattenSeq([i \in 1..Len(response.calls) |->
           LET call == response.calls[i] IN
           << Chunk("tool start", i - 1, call.id, "none"),
              Chunk("tool delta", i - 1, call.id, IF call.args = "none" THEN "object" ELSE call.args),
              Chunk("tool end", i - 1, call.id, "none") >>])
    \o (IF response.artifacts THEN <<Chunk("artifact", NoIndex, NoId, "words")>> ELSE << >>)
    \o <<FinishedChunk>>

(* execute_pending_tools looks at every slot before it executes the first:  *)
(* each has ended, and its arguments parse to an object                     *)
IsObject(args) == args \in {<< >>, <<"object">>, <<"half", "rest">>}
ToolsReadyMutant(ctx) == \A i \in 1..Len(ctx.slots) : IsObject(ctx.slots[i].args)
ToolsReady(ctx) ==
    \A i \in 1..Len(ctx.slots) : ctx.slots[i].ended /\ IsObject(ctx.slots[i].args)

HasToolCall(ctx) == ctx.slots # << >>
=============================================================================
