----------------------------- MODULE HttpClient -----------------------------
(***************************************************************************)
(* The HTTP clients of the four platforms: libcurl on POSIX and Windows    *)
(* (platforms/{posix,windows}/src/cc_curl_http_client.c), sockets of lwIP  *)
(* on FreeRTOS (cc_freertos_lwip_http_client.c), and on ESP32              *)
(* (cc_esp32_http_client.c) handles kept open in pools, one request at a   *)
(* time in each, that a lock of the client hands out.                      *)
(*                                                                         *)
(* A call is one cc_http_client_perform.  Time is abstracted: a wait ends  *)
(* with data, with the end of the connection, or with an error, which is   *)
(* also what a timeout is.  The checks of addresses and the content of     *)
(* headers are left out.                                                   *)
(***************************************************************************)
EXTENDS Integers, Sequences, FiniteSets

CONSTANTS
    Callers, UseOf,     \* what each caller asks for: "stream", "sync", "tool"
    ClientRetries,      \* http.retry_count of the configuration, 1 by default
    MaxResponse,        \* max_response_bytes, in tokens
    ToolRedirects,      \* max_redirects of the http.request tool
    PoolOrder,          \* the pools of the ESP32 client, in the order of the array
    MaxReuse, StaleThreshold, RecoverSuccess,   \* CC_HTTP_POOL_...
    MaxCalls,           \* bound: the calls of each caller
    MaxCancels          \* bound: the calls that are cancelled

VARIABLES platform, call, cancelled, config, pools, reset

httpVars == <<platform, call, cancelled, config, pools, reset>>

Free == "free"
Resetter == "reset"
Pools == {PoolOrder[i] : i \in 1..Len(PoolOrder)}
Esp == platform = "esp32"
NoHandle == [client |-> FALSE, origin |-> "", shape |-> "", healthy |-> FALSE,
             reuse |-> 0, idle |-> FALSE, unread |-> FALSE]

(* http_pool_for_request, with the pools the callers name                  *)
PoolOf(c) ==
    CASE UseOf[c] = "stream" -> "llm_stream" [] UseOf[c] = "sync" -> "llm_sync"
      [] OTHER -> "default"

ASSUME PoolAssumption ==
    /\ PoolOrder \in Seq(Pools) /\ \A c \in Callers : PoolOf(c) \in Pools
    /\ Free \notin Callers /\ Resetter \notin Callers

Fresh(c, calls) ==
    [calls |-> calls, phase |-> "idle", attempt |-> 0, hops |-> 0,
     body |-> << >>, status |-> 0, pos |-> 0,
     sawHeader |-> FALSE, sawBody |-> FALSE, reused |-> FALSE, closed |-> FALSE,
     retryable |-> FALSE, rc |-> "ok", sent |-> 0,
     origin |-> IF UseOf[c] = "tool" THEN "site" ELSE "provider", shape |-> UseOf[c]]

HttpInit ==
    /\ call = [c \in Callers |-> Fresh(c, 0)]
    /\ cancelled = [c \in Callers |-> FALSE]
    /\ config = Free
    /\ pools = [p \in Pools |-> [holder |-> Free, handle |-> NoHandle,
                                 stale |-> 0, cooldown |-> FALSE, recover |-> 0]]
    /\ reset = [phase |-> "idle", locked |-> 0]

OnTheWire == {"connect", "headers", "body"}
To(c, phase) == call' = [call EXCEPT ![c].phase = phase]
Ends(c, rc) == call' = [call EXCEPT ![c].phase = "completed", ![c].rc = rc]
-----------------------------------------------------------------------------
(* The start of a call *)

Perform(c) ==
    /\ call[c].phase = "idle" /\ call[c].calls < MaxCalls
    /\ call' = [call EXCEPT ![c].calls = @ + 1, ![c].phase = "start"]
    /\ UNCHANGED <<platform, cancelled, config, pools, reset>>

(* Two of the clients look at the token before they start.                 *)
Start(c) ==
    /\ call[c].phase = "start"
    /\ IF cancelled[c] /\ platform \in {"freertos", "esp32"}
       THEN call' = [call EXCEPT ![c].phase = "returned", ![c].rc = "cancelled"]
       ELSE To(c, IF Esp THEN "config" ELSE "attempt")
    /\ UNCHANGED <<platform, cancelled, config, pools, reset>>

(* esp32_http_perform_single takes the lock of the client, then, still      *)
(* holding it, the lock of the pool                                         *)
TakeConfig(c) ==
    /\ call[c].phase = "config" /\ config = Free
    /\ config' = c /\ To(c, "pool")
    /\ UNCHANGED <<platform, cancelled, pools, reset>>

TakePoolMutant(c) ==
    /\ call[c].phase = "pool"
    /\ pools' = [pools EXCEPT ![PoolOf(c)].holder = c]
    /\ config' = Free /\ To(c, "attempt")
    /\ UNCHANGED <<platform, cancelled, reset>>
TakePool(c) ==
    /\ call[c].phase = "pool" /\ pools[PoolOf(c)].holder = Free
    /\ pools' = [pools EXCEPT ![PoolOf(c)].holder = c]
    /\ config' = Free /\ To(c, "attempt")
    /\ UNCHANGED <<platform, cancelled, reset>>
-----------------------------------------------------------------------------
(* One attempt *)

(* http_client_ensure_pool_locked: the handle that may be used again       *)
Usable(c, p) ==
    LET h == pools[p].handle IN
    /\ h.client /\ h.healthy /\ ~pools[p].cooldown /\ ~h.idle /\ h.reuse < MaxReuse
    /\ h.origin = call[c].origin /\ h.shape = call[c].shape

(* http_client_apply_request_locked: a handle keeps what a request has set  *)
(* in it, so that only a request of the same shape may use it again.        *)
HandleFor(request, handle, reused) ==
    IF reused THEN [handle EXCEPT !.unread = TRUE]
    ELSE [NoHandle EXCEPT !.client = TRUE, !.origin = request.origin, !.shape = request.shape]

(* A handle that is used again is connected, and the request is sent.      *)
BeginAttempt(c) ==
    LET reused == Esp /\ Usable(c, PoolOf(c)) IN
    /\ call[c].phase = "attempt"
    /\ call' = [call EXCEPT ![c] = [@ EXCEPT !.phase = IF reused THEN "headers" ELSE "connect",
                    !.body = << >>, !.pos = 0, !.status = 0, !.sawHeader = FALSE,
                    !.sawBody = FALSE, !.closed = FALSE, !.reused = reused,
                    !.sent = IF reused THEN @ + 1 ELSE @]]
    /\ pools' = IF ~Esp THEN pools
                ELSE [pools EXCEPT ![PoolOf(c)].handle = HandleFor(call[c], @, reused)]
    /\ UNCHANGED <<platform, cancelled, config, reset>>

(* A call that fails frees the response.                                   *)
Freed(request, rc) ==
    [request EXCEPT !.phase = "returned", !.rc = rc, !.body = << >>, !.pos = 0, !.status = 0,
                    !.attempt = 0, !.retryable = FALSE]

(* Only ESP32 looks at the deadline again before it tries again.  No handle *)
(* has been taken then, and the pool keeps the one it has.                  *)
DeadlineExpired(c) ==
    /\ call[c].phase = "attempt" /\ (call[c].attempt = 0 \/ Esp)
    /\ call' = [call EXCEPT ![c] = Freed(@, "timeout")]
    /\ pools' = IF Esp THEN [pools EXCEPT ![PoolOf(c)].holder = Free] ELSE pools
    /\ UNCHANGED <<platform, cancelled, config, reset>>

Connect(c) ==
    /\ call[c].phase = "connect"
    /\ call' = [call EXCEPT ![c].phase = "headers", ![c].sent = @ + 1]
    /\ pools' = IF Esp THEN [pools EXCEPT ![PoolOf(c)].handle.unread = TRUE] ELSE pools
    /\ UNCHANGED <<platform, cancelled, config, reset>>

(* The callbacks of the three clients that have them look at the token.    *)
Refuses(c) == cancelled[c] /\ platform # "freertos"

Headers(c, status, body) ==
    /\ call[c].phase = "headers" /\ ~Refuses(c)
    /\ call' = [call EXCEPT ![c].phase = "body", ![c].sawHeader = TRUE,
                            ![c].status = status, ![c].body = body]
    /\ UNCHANGED <<platform, cancelled, config, pools, reset>>

(* cc_curl_write_body and HTTP_EVENT_ON_DATA: n more tokens, and what the   *)
(* callback of the request makes of them.  FreeRTOS gathers the answer.     *)
BodyArrives(c, n, rc) ==
    LET pos == call[c].pos + n IN
    /\ call[c].phase = "body" /\ ~Refuses(c) /\ pos <= Len(call[c].body)
    /\ pos <= MaxResponse
    /\ call' = [call EXCEPT ![c] = [@ EXCEPT !.pos = pos, !.sawBody = TRUE,
                    !.phase = IF rc = "ok" THEN "body" ELSE "completed", !.rc = rc]]
    /\ UNCHANGED <<platform, cancelled, config, pools, reset>>

(* A callback that refuses more: the run is cancelled, or the answer is     *)
(* longer than the limit                                                    *)
DataRefused(c) ==
    /\ \/ /\ call[c].phase \in {"headers", "body"} /\ Refuses(c)
          /\ call' = [call EXCEPT ![c].phase = "completed", ![c].rc = "cancelled",
                                  ![c].sawHeader = TRUE]
       \/ /\ call[c].phase = "body" /\ ~Refuses(c)
          /\ Len(call[c].body) > MaxResponse /\ call[c].pos < Len(call[c].body)
          /\ Ends(c, "limit")
    /\ UNCHANGED <<platform, cancelled, config, pools, reset>>

(* The token is also seen when nothing arrives: by the progress callback of *)
(* libcurl, and by FreeRTOS between two reads.                              *)
CancelSeen(c) ==
    /\ cancelled[c]
    /\ \/ platform \in {"posix", "windows"} /\ call[c].phase \in OnTheWire
       \/ platform = "freertos" /\ call[c].phase \in {"headers", "body"}
    /\ Ends(c, "cancelled")
    /\ UNCHANGED <<platform, cancelled, config, pools, reset>>

Arrived(c) == IF platform = "freertos" THEN "buffered" ELSE "completed"

(* The whole answer has come; the peer may have said that it closes.       *)
AnswerEnds(c) ==
    /\ call[c].phase = "body" /\ call[c].pos = Len(call[c].body)
    /\ \E closes \in BOOLEAN :
          call' = [call EXCEPT ![c].phase = Arrived(c), ![c].closed = closes]
    /\ pools' = IF Esp THEN [pools EXCEPT ![PoolOf(c)].handle.unread = FALSE] ELSE pools
    /\ UNCHANGED <<platform, cancelled, config, reset>>

(* The peer closes early.  libcurl notices unless the answer had no length, *)
(* FreeRTOS never does, ESP32 asks whether the data is complete.            *)
PeerCloses(c) ==
    /\ call[c].phase = "body" /\ call[c].pos < Len(call[c].body)
    /\ platform # "esp32"
    /\ To(c, Arrived(c))
    /\ UNCHANGED <<platform, cancelled, config, pools, reset>>

(* FreeRTOS takes the end for the end of the answer among the headers too:  *)
(* what has come of them is then the body.                                  *)
PeerClosesInHeaders(c, status, text) ==
    /\ call[c].phase = "headers" /\ platform = "freertos"
    /\ call' = [call EXCEPT ![c].phase = "buffered", ![c].status = status,
                            ![c].body = text, ![c].pos = Len(text)]
    /\ UNCHANGED <<platform, cancelled, config, pools, reset>>

(* Everything else that ends an attempt.  libcurl tries again after some    *)
(* errors only: a failed name or connection, a send, a receive, a timeout.  *)
ExchangeFails(c) ==
    /\ call[c].phase \in OnTheWire
    /\ \E again \in BOOLEAN :
          /\ Esp => again
          /\ call' = [call EXCEPT ![c].phase = "failed", ![c].retryable = again, ![c].rc = "network"]
    /\ UNCHANGED <<platform, cancelled, config, pools, reset>>

(* should_retry, and can_retry of esp32_http_perform_single.  A request     *)
(* that asks for no retries gets those of the client.                       *)
CanRetry(c) ==
    /\ call[c].attempt < ClientRetries /\ call[c].retryable
    /\ \/ platform = "posix" /\ ~(UseOf[c] = "stream" /\ call[c].sawBody)
       \/ Esp /\ ~call[c].sawBody

(* http_pool_note_failure_locked: the handle is closed; a handle that was   *)
(* used again and brought no header counts against the pool.                *)
NoteFailureMutant(c, pool) ==
    IF call[c].reused /\ ~call[c].sawHeader
    THEN [pool EXCEPT !.handle = NoHandle, !.stale = @ + 1, !.cooldown = pool.stale + 1 >= StaleThreshold,
                      !.recover = 0]
    ELSE pool
NoteFailure(c, pool) ==
    LET stale == call[c].reused /\ ~call[c].sawHeader
        cools == stale /\ pool.stale + 1 >= StaleThreshold IN
    [pool EXCEPT !.handle = NoHandle,
                 !.stale = IF stale /\ @ < StaleThreshold THEN @ + 1 ELSE @,
                 !.cooldown = @ \/ cools,
                 !.recover = IF cools THEN 0 ELSE @]

(* http_pool_note_success_locked                                            *)
NoteSuccess(c, pool) ==
    LET recovers == ~call[c].reused /\ pool.recover + 1 >= RecoverSuccess IN
    [pool EXCEPT !.handle.healthy = ~call[c].closed, !.handle.reuse = @ + 1,
                 !.handle.idle = FALSE,
                 !.recover = IF call[c].reused \/ @ >= RecoverSuccess THEN @ ELSE @ + 1,
                 !.stale = IF call[c].reused \/ recovers THEN 0 ELSE @,
                 !.cooldown = @ /\ ~recovers]

RetryMutant(c) ==
    /\ call[c].phase = "failed"
    /\ IF call[c].attempt < ClientRetries /\ call[c].retryable /\ platform \in {"posix", "esp32"}
       THEN call' = [call EXCEPT ![c].phase = "attempt", ![c].attempt = @ + 1, ![c].rc = "ok"]
       ELSE To(c, "completed")
    /\ pools' = IF Esp THEN [pools EXCEPT ![PoolOf(c)] = NoteFailure(c, @)] ELSE pools
    /\ UNCHANGED <<platform, cancelled, config, reset>>
Retry(c) ==
    /\ call[c].phase = "failed"
    /\ IF CanRetry(c)
       THEN call' = [call EXCEPT ![c].phase = "attempt", ![c].attempt = @ + 1, ![c].rc = "ok"]
       ELSE To(c, "completed")
    /\ pools' = IF Esp /\ CanRetry(c) THEN [pools EXCEPT ![PoolOf(c)] = NoteFailure(c, @)] ELSE pools
    /\ UNCHANGED <<platform, cancelled, config, reset>>
-----------------------------------------------------------------------------
(* The end of a call *)

(* freertos_http_perform gives the whole answer to the callback.           *)
BufferedBody(c, rc) ==
    /\ call[c].phase = "buffered"
    /\ Ends(c, rc)
    /\ UNCHANGED <<platform, cancelled, config, pools, reset>>

IsRedirect(status) == status \in {301, 302, 303, 307, 308}

(* http_redirect_url and http_redirect_headers: the next hop asks the same  *)
(* or another origin, without the headers that are a secret of the first or *)
(* belong to a body that is not sent again; its headers have no name.       *)
Hops(request) ==
    {[request EXCEPT !.phase = "start", !.attempt = 0, !.hops = @ + 1, !.sent = 0,
                     !.origin = origin, !.shape = ""] : origin \in {request.origin, "elsewhere"}}

(* esp32_http_perform follows a redirect with a new hop, the locks taken    *)
(* anew, unless its Location is of no use.  The others return the answer.   *)
After(c) ==
    IF call[c].rc # "ok" THEN {Freed(call[c], call[c].rc)}
    ELSE IF ~(Esp /\ IsRedirect(call[c].status) /\ UseOf[c] = "tool")
    THEN {[call[c] EXCEPT !.phase = "returned"]}
    ELSE IF call[c].hops < ToolRedirects THEN Hops(call[c]) \cup {Freed(call[c], "network")}
    ELSE {Freed(call[c], "limit")}

Complete(c) ==
    /\ call[c].phase = "completed"
    /\ \E request \in After(c) : call' = [call EXCEPT ![c] = request]
    /\ pools' = IF ~Esp THEN pools
                ELSE [pools EXCEPT ![PoolOf(c)] =
                         [IF call[c].rc = "ok" THEN NoteSuccess(c, @) ELSE NoteFailure(c, @)
                             EXCEPT !.holder = Free]]
    /\ UNCHANGED <<platform, cancelled, config, reset>>

(* The caller takes the result, and may call again.                        *)
Return(c) ==
    /\ call[c].phase = "returned"
    /\ call' = [call EXCEPT ![c] = Fresh(c, @.calls)]
    /\ cancelled' = [cancelled EXCEPT ![c] = FALSE]
    /\ UNCHANGED <<platform, config, pools, reset>>
-----------------------------------------------------------------------------
(* esp32_http_reset_connections: the lock of the client, then every pool    *)
ResetStarts ==
    /\ Esp /\ reset.phase = "idle" /\ config = Free
    /\ config' = Resetter /\ reset' = [reset EXCEPT !.phase = "locking"]
    /\ UNCHANGED <<platform, call, cancelled, pools>>

ResetLocks ==
    LET p == PoolOrder[reset.locked + 1] IN
    /\ reset.phase = "locking" /\ reset.locked < Len(PoolOrder) /\ pools[p].holder = Free
    /\ pools' = [pools EXCEPT ![p].holder = Resetter]
    /\ reset' = [reset EXCEPT !.locked = @ + 1]
    /\ UNCHANGED <<platform, call, cancelled, config>>

ResetCloses ==
    /\ reset.phase = "locking" /\ reset.locked = Len(PoolOrder)
    /\ pools' = [p \in Pools |-> [pools[p] EXCEPT !.handle = NoHandle, !.holder = Free]]
    /\ config' = Free /\ reset' = [phase |-> "done", locked |-> 0]
    /\ UNCHANGED <<platform, call, cancelled>>

(* The environment: the application cancels, a handle has been idle for     *)
(* CC_HTTP_POOL_IDLE_TTL_MS, CC_HTTP_POOL_COOLDOWN_MS are over              *)
Cancel(c) ==
    /\ ~cancelled[c] /\ call[c].phase \notin {"idle", "returned"}
    /\ Cardinality({d \in Callers : cancelled[d]}) < MaxCancels
    /\ cancelled' = [cancelled EXCEPT ![c] = TRUE]
    /\ UNCHANGED <<platform, call, config, pools, reset>>

TimePasses ==
    /\ \E p \in Pools :
          \/ /\ pools[p].handle.client /\ pools[p].holder = Free /\ ~pools[p].handle.idle
             /\ pools' = [pools EXCEPT ![p].handle.idle = TRUE]
          \/ pools[p].cooldown /\ pools' = [pools EXCEPT ![p].cooldown = FALSE]
    /\ UNCHANGED <<platform, call, cancelled, config, reset>>
=============================================================================
