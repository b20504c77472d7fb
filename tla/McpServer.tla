------------------------------ MODULE McpServer ------------------------------
(***************************************************************************)
(* Calls to MCP servers (core/src/app/cc_mcp_runtime_manager.c): one mutex *)
(* per server, an idle connection that is reset and initialised again, and *)
(* JSON-RPC ids that tie a reply to its request.                           *)
(*                                                                         *)
(* The transport is the application's: a serial one is used under the      *)
(* mutex and is a pipe, so that a reply that came too late for its request *)
(* is read by the next; a parallel one is used without the mutex and       *)
(* answers each request by itself.                                         *)
(***************************************************************************)
EXTENDS Integers, Sequences, SequencesExt

CONSTANTS
    Servers, Callers,
    Serial,         \* the servers with a serial transport
    MaxCalls        \* bound on the request ids of each server

ASSUME McpAssumption == Serial \subseteq Servers /\ MaxCalls \in Nat /\ "free" \notin Callers

VARIABLES
    server,     \* of each server, the runtime's record of it
    link,       \* of each server, its transport
    caller      \* where each calling thread is

mcpVars == <<server, link, caller>>

(* needs_initialize, next_id, last_used_ms ("never", "fresh", "idle" for    *)
(* longer than the time to live) and the thread that holds the mutex       *)
NewServer == [life |-> "none", needsInit |-> TRUE, nextId |-> 0, used |-> "never",
              holder |-> "free"]

(* "ready": an initialize was sent since the last reset and answered.       *)
(* "refused": one failed since then.  "asked": the ids of the requests sent *)
(* so far; a request is known by its place there, also after a reset.       *)
(* "late": the requests whose replies nobody waits for yet                  *)
NewLink == [ready |-> FALSE, refused |-> FALSE, late |-> << >>, asked |-> << >>]

Idle == [at |-> "idle"]

McpInit ==
    /\ server = [s \in Servers |-> NewServer]
    /\ link = [s \in Servers |-> NewLink]
    /\ caller = [c \in Callers |-> Idle]

At(c, place) == caller[c].at = place
Go(c, r) == caller' = [caller EXCEPT ![c] = r]
Free(s) == server[s].holder = "free"

(* What the transport makes of the n-th request: it brings the reply to a  *)
(* request, the first in the pipe, or an error.  After an error the reply  *)
(* may still come.                                                         *)
NoReply == 0
Outcomes(s, n) ==
    LET waiting == Append(link[s].late, n) IN
    {[reply |-> Head(waiting), late |-> Tail(waiting)]}
    \cup {[reply |-> NoReply, late |-> l] :
              l \in {link[s].late} \cup (IF s \in Serial THEN {waiting} ELSE {})}

(* cc_mcp_jsonrpc_response_matches_request: only the ids are compared.      *)
Matches(asked, reply, id) == reply # NoReply /\ asked[reply] = id
-----------------------------------------------------------------------------
(* mcp_call_raw.  "then" says what the caller does with the outcome        *)

Called(s, m, then) == [at |-> "calling", server |-> s, method |-> m, then |-> then]

(* The idle connection is reset under the mutex; a reset that fails fails  *)
(* the call.  A transport without a reset keeps what it has.               *)
Expired(s) == server[s].used = "idle"
NeedsInit(s) == Expired(s) \/ server[s].needsInit

ResetIdle(s) ==
    IF Expired(s)
    THEN \E reset \in BOOLEAN :
            link' = [link EXCEPT ![s] = IF reset THEN [NewLink EXCEPT !.asked = link[s].asked] ELSE @]
    ELSE UNCHANGED link

(* Where the call goes on: to its request, out of the mutex and back in, or *)
(* to an initialize request first, which keeps the mutex                    *)
EnterMutant(c) ==
    /\ At(c, "calling") /\ Free(caller[c].server)
    /\ LET s == caller[c].server IN
        /\ ResetIdle(s)
        /\ \/ /\ caller[c].method = "initialize" \/ ~server[s].needsInit
              /\ server' = server
              /\ Go(c, [caller[c] EXCEPT !.at = "sending"])
           \/ /\ caller[c].method # "initialize" /\ server[s].needsInit
              /\ server' = [server EXCEPT ![s] = [server[s] EXCEPT !.holder = c, !.nextId = @ + 1]]
              /\ Go(c, [caller[c] EXCEPT !.at = "initialising"])

EnterRestartsMutant(c) ==
    /\ At(c, "calling") /\ Free(caller[c].server)
    /\ server[caller[c].server].nextId + 2 <= MaxCalls
    /\ LET s == caller[c].server
           last == IF Expired(s) THEN 0 ELSE server[s].nextId IN
        /\ ResetIdle(s)
        /\ \/ /\ caller[c].method = "initialize" \/ ~NeedsInit(s)
              /\ server' = [server EXCEPT ![s] = [server[s] EXCEPT !.needsInit = NeedsInit(s), !.nextId = last]]
              /\ Go(c, [caller[c] EXCEPT !.at = "sending"])
           \/ /\ caller[c].method # "initialize" /\ NeedsInit(s)
              /\ server' = [server EXCEPT ![s] = [server[s] EXCEPT !.needsInit = TRUE,
                                                                   !.holder = c, !.nextId = last + 1]]
              /\ Go(c, [caller[c] EXCEPT !.at = "initialising"])

Enter(c) ==
    /\ At(c, "calling") /\ Free(caller[c].server)
    /\ server[caller[c].server].nextId + 2 <= MaxCalls     \* the bound
    /\ LET s == caller[c].server IN
        /\ ResetIdle(s)
        /\ \/ /\ caller[c].method = "initialize" \/ ~NeedsInit(s)
              /\ server' = [server EXCEPT ![s].needsInit = NeedsInit(s)]
              /\ Go(c, [caller[c] EXCEPT !.at = "sending"])
           \/ /\ caller[c].method # "initialize" /\ NeedsInit(s)
              /\ server' = [server EXCEPT ![s] = [server[s] EXCEPT !.needsInit = TRUE,
                                                                   !.holder = c, !.nextId = @ + 1]]
              /\ Go(c, [caller[c] EXCEPT !.at = "initialising"])

(* The call is over, with the request that was answered and its own *)
Over(c, ok, reply, own) ==
    [at |-> "over", server |-> caller[c].server, then |-> caller[c].then,
     ok |-> ok, reply |-> reply, own |-> own]

(* The token of the run is looked at once, before the mutex is taken.      *)
CalledOff(c) ==
    /\ At(c, "calling") /\ caller[c].method = "tools/call"
    /\ Go(c, Over(c, FALSE, NoReply, NoReply))
    /\ UNCHANGED <<server, link>>

ResetFails(c) ==
    /\ At(c, "calling") /\ Free(caller[c].server)
    /\ server[caller[c].server].used = "idle"
    /\ Go(c, Over(c, FALSE, NoReply, NoReply))
    /\ UNCHANGED <<server, link>>

(* ensure_initialized_locked: the answer counts whatever it says, as long  *)
(* as it is the answer to this request                                     *)
Initialised(c) ==
    /\ At(c, "initialising")
    /\ LET s == caller[c].server
           asked == Append(link[s].asked, server[s].nextId) IN
        \E o \in Outcomes(s, Len(asked)) :
            LET ok == Matches(asked, o.reply, server[s].nextId) IN
            /\ link' = [link EXCEPT ![s] = [ready |-> @.ready \/ ok, refused |-> @.refused \/ ~ok,
                                            late |-> o.late, asked |-> asked]]
            /\ server' = [server EXCEPT ![s] = [server[s] EXCEPT !.needsInit = ~ok, !.holder = "free",
                                                         !.used = IF ok THEN "fresh" ELSE @]]
            /\ Go(c, IF ok THEN [caller[c] EXCEPT !.at = "sending"] ELSE Over(c, FALSE, NoReply, NoReply))

(* The mutex again: the request gets its id; a serial transport keeps the  *)
(* mutex until it has answered                                             *)
Send(c) ==
    /\ At(c, "sending") /\ Free(caller[c].server)
    /\ LET s == caller[c].server
           id == server[s].nextId + 1
           asked == Append(link[s].asked, id) IN
        /\ server' = [server EXCEPT ![s] = [server[s] EXCEPT !.nextId = id, !.used = "fresh",
                                                     !.holder = IF s \in Serial THEN c ELSE @]]
        /\ link' = [link EXCEPT ![s].asked = asked]
        /\ Go(c, [at |-> "sent", server |-> s, method |-> caller[c].method, then |-> caller[c].then,
                  id |-> id, own |-> Len(asked)])

Answered(c) ==
    /\ At(c, "sent")
    /\ LET s == caller[c].server IN
        \E o \in Outcomes(s, caller[c].own) :
            LET ok == Matches(link[s].asked, o.reply, caller[c].id)
                first == caller[c].method = "initialize" IN
            /\ link' = [link EXCEPT ![s] = [ready |-> @.ready \/ (first /\ ok),
                                            refused |-> @.refused \/ (first /\ ~ok),
                                            late |-> o.late, asked |-> @.asked]]
            /\ server' = [server EXCEPT ![s].holder = IF @ = c THEN "free" ELSE @]
            /\ Go(c, IF first /\ ok THEN [caller[c] EXCEPT !.at = "noting"]
                     ELSE Over(c, ok, o.reply, caller[c].own))

(* initialize itself is noted in a critical section of its own *)
Noted(c) ==
    /\ At(c, "noting") /\ Free(caller[c].server)
    /\ LET s == caller[c].server IN
        server' = [server EXCEPT ![s] = [server[s] EXCEPT !.needsInit = FALSE, !.used = "fresh"]]
    /\ Go(c, Over(c, TRUE, caller[c].own, caller[c].own))
    /\ UNCHANGED link

(* The time to live of a connection passes *)
Idles(s) ==
    /\ server[s].used = "fresh"
    /\ server' = [server EXCEPT ![s].used = "idle"]
    /\ UNCHANGED <<link, caller>>

McpNext ==
    \/ \E c \in Callers : Enter(c) \/ CalledOff(c) \/ ResetFails(c) \/ Initialised(c) \/ Send(c)
                          \/ Answered(c) \/ Noted(c)
    \/ \E s \in Servers : Idles(s)
-----------------------------------------------------------------------------
(* A call that succeeds got the answer to its own request, although only   *)
(* ids are compared: however many answers to requests that were given up    *)
(* are still in the pipe, whether a reset emptied it or the transport has   *)
(* none, and whoever shares the server, no two of its requests have the     *)
(* same id (mcp_call_raw, ensure_initialized_locked: ids are counted under  *)
(* the mutex, and over all connections of a server).                        *)
RepliesMatch ==
    \A c \in Callers : At(c, "over") /\ caller[c].ok => caller[c].reply = caller[c].own

(* A request is sent over a connection that was initialised since its last *)
(* reset, or whose initialize was refused since then: another thread may   *)
(* have been at it in between                                              *)
(* (mcp_call_raw, ensure_initialized_locked: the mutex is released and     *)
(* taken again between the two).                                           *)
SentWhenInitialised ==
    \A c \in Callers :
        At(c, "sent") /\ caller[c].method # "initialize" /\ caller[c].server \in Serial =>
            link[caller[c].server].ready \/ link[caller[c].server].refused
=============================================================================
