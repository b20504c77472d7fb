----------------------------- MODULE LlmStream -----------------------------
(***************************************************************************)
(* Calls to a language model: the agent runtimes that ask for an answer,   *)
(* streamed or whole, and the http.request tools beside them, through one  *)
(* HTTP client of the platform.  The body of a streamed answer reaches the *)
(* callback of the runtime inside the callback of the client.              *)
(***************************************************************************)
EXTENDS HttpClient, LlmProvider

CONSTANTS
    Instances,                  \* what runs together: [platform, protocol, clients]
    ServerAnswers(_, _, _)      \* of callers, use and protocol: what the server may answer, [status, body]

(* A body is a sequence of tokens, whose events have sequences of tools.    *)
ASSUME ServerAssumption ==
    /\ \A i \in Instances : i.protocol \in {"openai", "anthropic", "ollama"}
    /\ \A i \in Instances, c \in Callers :
          \A a \in ServerAnswers(i.clients, UseOf[c], i.protocol) :
             /\ a.body \in Seq(Range(a.body))
             /\ \A x \in Range(a.body) : x.event.tools \in Seq(Range(x.event.tools))

VARIABLES protocol, clients, stream

streamVars == <<httpVars, protocol, clients, stream>>

WantsStream(c) == UseOf[c] = "stream"

StreamInit ==
    /\ \E i \in Instances :
          platform = i.platform /\ protocol = i.protocol /\ clients = i.clients
    /\ HttpInit
    /\ stream = [c \in Callers |-> NewStream(protocol)]

(* http_llm_chat, http_llm_chat_stream and http_req_call start a request.  *)
AskServer(c) ==
    /\ c \in clients /\ Perform(c)
    /\ stream' = [stream EXCEPT ![c] = NewStream(protocol)]

Answer(c) ==
    \E a \in ServerAnswers(clients, UseOf[c], protocol) : Headers(c, a.status, a.body)

(* Of the headers a status may be known and half a line have come.         *)
HeadersCut(c) ==
    \E status \in {0, 200}, text \in {<< >>, <<Token("half")>>} :
        PeerClosesInHeaders(c, status, text)

(* A client that streams calls back with every piece; FreeRTOS does once,   *)
(* at the end.  The callback is not for the body of a redirect.             *)
Receive(c) ==
    \E n \in 1..(Len(call[c].body) - call[c].pos) :
        LET data == SubSeq(call[c].body, call[c].pos + 1, call[c].pos + n)
            s == StreamBody(stream[c], data, cancelled[c]) IN
        IF WantsStream(c) /\ platform # "freertos"
        THEN BodyArrives(c, n, s.rc) /\ stream' = [stream EXCEPT ![c] = s]
        ELSE BodyArrives(c, n, "ok") /\ UNCHANGED stream

ReceiveAll(c) ==
    LET s == IF WantsStream(c) /\ call[c].pos > 0
             THEN StreamBody(stream[c], SubSeq(call[c].body, 1, call[c].pos), cancelled[c])
             ELSE stream[c] IN
    BufferedBody(c, s.rc) /\ stream' = [stream EXCEPT ![c] = s]

(* What the caller of the provider is told                                 *)
Flushed(c) == IF call[c].rc = "ok" THEN FlushTail(stream[c], cancelled[c]) ELSE stream[c]
Result(c) ==
    CASE WantsStream(c) -> StreamResult(Flushed(c), call[c].rc, call[c].status)
      [] UseOf[c] = "sync" ->
            ChatResult(call[c].rc, call[c].status, SubSeq(call[c].body, 1, call[c].pos))
      [] OTHER -> call[c].rc

(* What the runtime makes of chunks while it is not cancelled              *)
Delivered(chunks) == Consume(chunks, Len(chunks), 0, 0)

(* stream_loop_consume_sync_response: what the runtime makes of an answer   *)
(* that came whole                                                         *)
Given(c) ==
    Delivered(SyncChunks(ResponseIn(protocol, call[c].body[2].event)))

Forget(c) == [stream EXCEPT ![c] = NewStream(protocol)]

Lock(c) == (TakeConfig(c) \/ TakePool(c)) /\ UNCHANGED stream

Work(c) ==
    \/ Start(c) /\ UNCHANGED stream
    \/ BeginAttempt(c) /\ UNCHANGED stream
    \/ Connect(c) /\ UNCHANGED stream
    \/ Answer(c) /\ UNCHANGED stream
    \/ Receive(c)
    \/ ReceiveAll(c)
    \/ DataRefused(c) /\ UNCHANGED stream
    \/ AnswerEnds(c) /\ UNCHANGED stream
    \/ (PeerCloses(c) \/ HeadersCut(c)) /\ UNCHANGED stream
    \/ ExchangeFails(c) /\ UNCHANGED stream
    \/ Retry(c) /\ UNCHANGED stream
    \/ Complete(c) /\ stream' = IF call[c].rc = "ok" THEN stream ELSE Forget(c)
    \/ Return(c) /\ stream' = Forget(c)

Interruption(c) ==
    \/ DeadlineExpired(c) /\ UNCHANGED stream
    \/ CancelSeen(c) /\ UNCHANGED stream
    \/ Cancel(c) /\ UNCHANGED stream

Resets == (ResetLocks \/ ResetCloses) /\ UNCHANGED stream

(* Every call has returned: no step is then left to take.  A state without *)
(* a step in which a call has not returned would be a deadlock.             *)
Finished ==
    /\ \A c \in clients : call[c].phase = "idle" /\ call[c].calls = MaxCalls
    /\ UNCHANGED <<httpVars, stream>>

StreamNext ==
    /\ UNCHANGED <<protocol, clients>>
    /\ \/ \E c \in Callers : AskServer(c) \/ Lock(c) \/ Work(c) \/ Interruption(c)
       \/ ResetStarts /\ UNCHANGED stream
       \/ Resets
       \/ TimePasses /\ UNCHANGED stream
       \/ Finished

StreamSpec == StreamInit /\ [][StreamNext]_streamVars
-----------------------------------------------------------------------------
(* Properties *)

(* The chunks of an answer, up to the FINISHED of the event that ends it    *)
EventChunks(p, e) ==
    IF e.kind = "[DONE]" THEN <<FinishedChunk>>
    ELSE LET parsed == ParseEvent(p, e) IN
         parsed.chunks \o (IF parsed.finished THEN <<FinishedChunk>> ELSE << >>)

HasFinished(chunks) == chunks # << >> /\ chunks[Len(chunks)] = FinishedChunk

ChunksOf(p, body) ==
    LET upto[i \in 0..Len(body)] ==
            IF i = 0 THEN << >>
            ELSE LET before == upto[i - 1] IN
                 IF body[i].t # "rest" \/ HasFinished(before) THEN before
                 ELSE before \o EventChunks(p, body[i].event) IN
    upto[Len(body)]

Whole(c) == Delivered(ChunksOf(protocol, call[c].body))

(* What the runtime has been given is at any time the beginning of one      *)
(* answer: no retry repeats a chunk, no cut of the body loses or changes    *)
(* one (esp32_http_perform_single: "retrying would duplicate user-visible   *)
(* content").  When the answer is reported a success, it has been delivered *)
(* whole, with the one FINISHED at its end: however the network cut it,     *)
(* whatever attempts failed before, wherever the peer closed the connection *)
(* (cc_http_llm_provider.c, saw_done).                                      *)
ChunksInOrder ==
    \A c \in Callers : WantsStream(c) =>
        /\ stream[c].rc = "ok" /\ call[c].phase \in {"body", "buffered", "completed"} =>
              LET chunks == ChunksOf(protocol, call[c].body) IN
              \E i \in 0..Len(chunks) : stream[c].out = Delivered(SubSeq(chunks, 1, i))
        /\ call[c].phase = "returned" /\ Result(c) = "ok" =>
              Flushed(c).out = Whole(c) /\ Flushed(c).out.finished

(* What of a response counts against the limit of a stream                  *)
Pieces(response) ==
    (IF response.thinking THEN 1 ELSE 0) + (IF response.text THEN 1 ELSE 0) + Len(response.calls)

(* The server's share in a success: an answer that is streamed to its end   *)
(* has ended its tools, and one that is not streamed is one line of JSON,   *)
(* with no more than the limit of a stream, no more tools than the runtime  *)
(* has slots for, and none named twice.                                     *)
UsableAnswer(use, p, body) ==
    /\ use = "stream" =>
          LET all == Delivered(ChunksOf(p, body)) IN all.rc = "ok" /\ all.finished => ToolsReady(all)
    /\ use = "sync" =>
          /\ Len(body) <= 2
          /\ \A x \in Range(body) :
                LET tools == x.event.tools IN
                /\ MaxStreamBytes > 0 => Pieces(ResponseIn(p, x.event)) <= MaxStreamBytes
                /\ Len(tools) <= MaxTools
                /\ \A i \in 1..Len(tools) : tools[i].args \in {"none", "object"}
                /\ \A i, j \in 1..Len(tools) : tools[i].id = tools[j].id => i = j \/ tools[i].id = NoId
ServerIsUsable ==
    \A i \in Instances, c \in Callers :
       \A a \in ServerAnswers(i.clients, UseOf[c], i.protocol) : UsableAnswer(UseOf[c], i.protocol, a.body)

(* A success gives the runtime what it can use: every tool of a streamed    *)
(* answer is ready to be executed, and an answer that was not streamed came *)
(* whole, with its text and every tool that is in it, ready to be executed  *)
(* (parse_response, stream_loop_consume_sync_response).                     *)
SuccessIsComplete ==
    \A c \in Callers : call[c].phase = "returned" /\ Result(c) = "ok" =>
        /\ WantsStream(c) => ToolsReady(Flushed(c).out)
        /\ UseOf[c] = "sync" =>
              LET answer == call[c].body[2].event IN
              /\ call[c].pos = Len(call[c].body)
              /\ Given(c).rc = "ok" /\ Given(c).finished /\ ToolsReady(Given(c))
              /\ Given(c).text > 0 <=> answer.text
              /\ [i \in 1..Len(Given(c).slots) |-> Given(c).slots[i].id]
                    = [i \in 1..Len(answer.tools) |-> answer.tools[i].id]

(* An exchange on ESP32 has its handle to itself until it is over: a reset  *)
(* does not close it, it serves no other request, and a handle that is kept *)
(* for the next request brings nothing of an earlier answer                 *)
(* (http_client_ensure_pool_locked, http_pool_note_failure_locked).         *)
ExchangeOwnsHandle ==
    Esp =>
        /\ \A c \in Callers : call[c].phase \in OnTheWire =>
              LET h == pools[PoolOf(c)].handle IN
              /\ pools[PoolOf(c)].holder = c
              /\ h.client /\ h.origin = call[c].origin /\ h.shape = call[c].shape
        /\ \A p \in Pools :
              pools[p].holder = Free /\ pools[p].handle.client /\ pools[p].handle.healthy
                  => ~pools[p].handle.unread

(* The request of a tool is sent once: "the general tool must not be        *)
(* retried automatically, since a POST or a custom method would be executed *)
(* again" (cc_http_request_tool.c:180).                                     *)
ToolSentOnce == \A c \in Callers : UseOf[c] = "tool" => call[c].sent <= 1
=============================================================================
