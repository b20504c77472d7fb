---------------------------- MODULE LlmProvider ----------------------------
(***************************************************************************)
(* What a provider makes of the body of an HTTP answer: the framing of     *)
(* adapters/src/llm/cc_http_llm_provider.c (server-sent events or lines of *)
(* JSON, cut anywhere by the network) and the three protocols,             *)
(* cc_openai_provider.c, cc_anthropic_provider.c, cc_ollama_provider.c,    *)
(* that turn one event into the chunks of StreamStep.                      *)
(*                                                                         *)
(* A body is a sequence of tokens: the head of a line ("half"; alone it is *)
(* not yet JSON), the rest of the line with the event it carries, another  *)
(* field of the event stream, "r" and "n".                                 *)
(***************************************************************************)
EXTENDS StreamStep

CONSTANT MaxPending     \* CC_HTTP_LLM_STREAM_MAX_PENDING_FRAME_BYTES, in tokens

ASSUME PendingAssumption == MaxPending \in Nat

(* An event: what is in the JSON of one line.  "tools" has one record for  *)
(* each piece of a tool call in it.                                        *)
Event(kind, thinking, text, tools, end) ==
    [kind |-> kind, thinking |-> thinking, text |-> text, tools |-> tools, end |-> end]
Tool(index, id, named, args) == [index |-> index, id |-> id, named |-> named, args |-> args]
Plain(kind) == Event(kind, FALSE, FALSE, << >>, "none")

Token(t) == [t |-> t, event |-> Plain("none")]
Line(event) == <<Token("half"), [t |-> "rest", event |-> event]>>

StreamKind(protocol) == IF protocol = "ollama" THEN "ndjson" ELSE "sse"
-----------------------------------------------------------------------------
(* One event in one protocol: the chunks it becomes, whether it ends the    *)
(* answer, and the error the parser returns                                 *)

ParsedAs(chunks, finished) == [rc |-> "ok", chunks |-> chunks, finished |-> finished]
Fault(rc) == [rc |-> rc, chunks |-> << >>, finished |-> FALSE]

ThinkingOf(e, index) ==
    IF e.thinking THEN <<Chunk("thinking", index, NoId, "words")>> ELSE << >>
TextOf(e, index) ==
    IF e.text THEN <<Chunk("text", index, NoId, "words")>> ELSE << >>
StartOf(tool, index) ==
    IF tool.named THEN <<Chunk("tool start", index, tool.id, "none")>> ELSE << >>
DeltaOf(tool, index, id) ==
    IF tool.args # "none" THEN <<Chunk("tool delta", index, id, tool.args)>> ELSE << >>
ToolEndChunk == Chunk("tool end", NoIndex, NoId, "none")

(* openai_parse_stream_event.  Only "stop" ends the answer here: after      *)
(* "tool_calls" and "length" the server still sends [DONE].                 *)
OpenAiEvent(e) ==
    CASE e.kind = "usage" -> ParsedAs(<< >>, FALSE)
      [] e.kind = "choice" ->
            ParsedAs(FlattenSeq([i \in 1..Len(e.tools) |->
                       StartOf(e.tools[i], e.tools[i].index)
                       \o DeltaOf(e.tools[i], e.tools[i].index, e.tools[i].id)])
                   \o ThinkingOf(e, NoIndex) \o TextOf(e, NoIndex)
                   \o (IF e.end = "tool_calls" THEN <<ToolEndChunk>> ELSE << >>),
                   e.end = "stop")
      [] OTHER -> Fault("json")

(* anthropic_parse_stream_event.  The end of one block ends no tool: the    *)
(* tools of a message end together.                                         *)
AnthropicMessage(e) ==
    CASE e.kind \in {"message_start", "ping"} -> ParsedAs(<< >>, FALSE)
      [] e.kind = "message_delta" ->
            ParsedAs(IF e.end = "tool_use" THEN <<ToolEndChunk>> ELSE << >>,
                   e.end \in {"end_turn", "max_tokens", "stop_sequence", "pause_turn", "refusal"})
      [] e.kind = "message_stop" -> ParsedAs(<< >>, TRUE)
      [] OTHER -> Fault("json")

AnthropicEvent(e) ==
    CASE e.kind = "error" -> Fault("model")
      [] e.kind = "content_block_stop" -> ParsedAs(<< >>, FALSE)
      [] e.kind = "content_block_start" ->
            ParsedAs(FlattenSeq([i \in 1..Len(e.tools) |-> StartOf(e.tools[i], e.tools[i].index)]), FALSE)
      [] e.kind = "content_block_delta" ->
            ParsedAs(TextOf(e, 0) \o ThinkingOf(e, 0)
                   \o FlattenSeq([i \in 1..Len(e.tools) |-> DeltaOf(e.tools[i], e.tools[i].index, NoId)]),
                   FALSE)
      [] OTHER -> AnthropicMessage(e)

(* ollama_parse_stream_event: a call comes whole, in one line              *)
OllamaEvent(e) ==
    CASE e.kind = "error" -> Fault("model")
      [] e.kind \in {"message", "done"} ->
            ParsedAs(ThinkingOf(e, NoIndex) \o TextOf(e, NoIndex)
                   \o FlattenSeq([i \in 1..Len(e.tools) |->
                          StartOf(e.tools[i], i - 1) \o DeltaOf(e.tools[i], i - 1, e.tools[i].id)])
                   \o (IF e.tools # << >> THEN <<ToolEndChunk>> ELSE << >>),
                   e.kind = "done")
      [] OTHER -> Fault("json")

ParseEvent(protocol, e) ==
    CASE protocol = "openai" -> OpenAiEvent(e)
      [] protocol = "anthropic" -> AnthropicEvent(e)
      [] protocol = "ollama" -> OllamaEvent(e)

(* parse_response of the three, on the body of an answer that was not       *)
(* streamed.  Half an object is an error, and so is the object of an error; *)
(* one with nothing the parser knows is an empty response.                  *)
Response(thinking, text, calls) ==
    [thinking |-> thinking, text |-> text, calls |-> calls, artifacts |-> FALSE]
CallsOf(e) == [i \in 1..Len(e.tools) |-> [id |-> e.tools[i].id, args |-> e.tools[i].args]]

OpenAiResponse(e) == Response(e.thinking, e.text, CallsOf(e))

(* The blocks are told by their type, and "thinking" is not one of them.   *)
AnthropicResponse(e) == Response(FALSE, e.text, CallsOf(e))

OllamaResponse(e) == Response(e.thinking, e.text, CallsOf(e))

ResponseIn(protocol, e) ==
    CASE protocol = "openai" -> OpenAiResponse(e)
      [] protocol = "anthropic" -> AnthropicResponse(e)
      [] protocol = "ollama" -> OllamaResponse(e)

ParseResponse(body) ==
    IF Len(body) = 2 /\ body[2].event.kind \notin {"none", "error"} THEN "ok" ELSE "model"
-----------------------------------------------------------------------------
(* cc_http_llm_stream_ctx_t, with the runtime's context behind on_chunk     *)

NewStream(protocol) ==
    [protocol |-> protocol, buffer |-> << >>, finished |-> FALSE, done |-> FALSE,
     out |-> NewContext, rc |-> "ok"]

(* stream_forward_chunk and what the runtime makes of the chunk            *)
Forward(s, chunk, cancelled) ==
    LET out == Callback(s.out, chunk, cancelled, FALSE) IN
    [s EXCEPT !.out = out, !.rc = out.rc]

ForwardAll(s, chunks, cancelled) ==
    LET out == ConsumeFrom(s.out, chunks, IF cancelled THEN 0 ELSE Len(chunks), 0) IN
    [s EXCEPT !.out = out, !.rc = out.rc]

EmitFinishedOnce(s, cancelled) ==
    IF s.finished THEN s
    ELSE Forward([s EXCEPT !.finished = TRUE, !.done = TRUE], FinishedChunk, cancelled)

(* dispatch_stream_event.  "none" is an empty event, "malformed" text that  *)
(* is no JSON object.                                                       *)
Dispatch(s, e, cancelled) ==
    IF e.kind = "none" THEN s
    ELSE IF e.kind = "[DONE]" THEN EmitFinishedOnce(s, cancelled)
    ELSE LET parsed == ParseEvent(s.protocol, e)
             sent == ForwardAll(s, parsed.chunks, cancelled) IN
         IF parsed.rc # "ok" THEN [s EXCEPT !.rc = parsed.rc]
         ELSE IF sent.rc = "ok" /\ parsed.finished THEN EmitFinishedOnce(sent, cancelled)
         ELSE sent

(* The event in the text of a frame: the only one, nothing, or text that    *)
(* no parser takes (half a line, two events run together).                  *)
EventIn(text) ==
    LET halves == {i \in 1..Len(text) : text[i].t = "half"}
        rests == {i \in 1..Len(text) : text[i].t = "rest"} IN
    IF halves = {} /\ rests = {} THEN Plain("none")
    ELSE IF \E i, j \in 1..Len(text) : halves = {i} /\ rests = {j}
    THEN text[CHOOSE j \in rests : TRUE].event
    ELSE Plain("malformed")

(* The first place where the separator is found, 0 if it is not there      *)
Find(buffer, separator) ==
    LET at == {i \in 1..(Len(buffer) - Len(separator) + 1) :
                  \A j \in 1..Len(separator) : buffer[i + j - 1].t = separator[j]} IN
    IF at = {} THEN 0 ELSE CHOOSE i \in at : \A j \in at : i <= j

Newline == <<"n">>
BlankLine == <<"n", "n">>
BlankLineCR == <<"r", "n", "r", "n">>

(* Two newlines anywhere are looked for before CR LF CR LF is.             *)
Separator(s) ==
    IF StreamKind(s.protocol) = "ndjson" THEN Newline
    ELSE IF Find(s.buffer, BlankLine) # 0 THEN BlankLine ELSE BlankLineCR

(* process_sse_buffer and process_ndjson_buffer: every whole frame of the   *)
(* buffer, up to the one that ends the answer; there are no more than the   *)
(* buffer has tokens                                                        *)
NextFrame(s, cancelled) ==
    LET separator == Separator(s)
        i == Find(s.buffer, separator) IN
    IF s.rc # "ok" \/ s.finished \/ i = 0 THEN s
    ELSE Dispatch([s EXCEPT !.buffer = SubSeq(@, i + Len(separator), Len(@))],
                  EventIn(SubSeq(s.buffer, 1, i - 1)), cancelled)

Process(s, cancelled) ==
    LET after[n \in 0..Len(s.buffer)] == IF n = 0 THEN s ELSE NextFrame(after[n - 1], cancelled) IN
    after[Len(s.buffer)]

(* stream_body_callback                                                     *)
StreamBody(s, data, cancelled) ==
    IF s.finished THEN [s EXCEPT !.rc = "ok"]
    ELSE IF Len(s.buffer) + Len(data) > MaxPending THEN [s EXCEPT !.rc = "limit"]
    ELSE Process([s EXCEPT !.buffer = @ \o data, !.rc = "ok"], cancelled)

(* flush_stream_tail: the last line of JSON needs no newline                *)
FlushTail(s, cancelled) ==
    IF s.finished \/ s.buffer = << >> \/ StreamKind(s.protocol) # "ndjson" THEN s
    ELSE Dispatch([s EXCEPT !.buffer = << >>], EventIn(s.buffer), cancelled)

(* http_post_json_stream_with_headers once the client has returned: an      *)
(* answer that never said it is complete is an error                        *)
ClassifyStatus(status) ==
    CASE status = 429 -> "rate limit" [] status \in 500..599 -> "network" [] OTHER -> "model"
IsSuccess(status) == status \in 200..299

StreamResultMutant(s, rc, status) ==
    IF rc # "ok" THEN rc
    ELSE IF s.rc # "ok" THEN s.rc
    ELSE IF ~IsSuccess(status) THEN ClassifyStatus(status)
    ELSE "ok"
StreamResult(s, rc, status) ==
    IF rc # "ok" THEN rc
    ELSE IF s.rc # "ok" THEN s.rc
    ELSE IF ~IsSuccess(status) THEN ClassifyStatus(status)
    ELSE IF ~s.done THEN "network"
    ELSE "ok"

(* http_llm_chat once the client has returned                               *)
ChatResult(rc, status, body) ==
    IF rc # "ok" THEN rc
    ELSE IF ~IsSuccess(status) THEN ClassifyStatus(status)
    ELSE ParseResponse(body)
=============================================================================
