-------------------------- MODULE ToolRegistryProofs --------------------------
(* Theorems about McpServer and ToolRegistry, for every number of servers,  *)
(* threads and tools.                                                       *)
EXTENDS ToolRegistry, FiniteSetTheorems, WellFoundedInduction, TLAPS

USE McpAssumption DEF McpAssumption

(* What a thread may be doing, with what it has in hand *)
Methods == {"initialize", "tools/list", "tools/call"}
Thens == {"list", "register", "result"}
IdleCaller == {Idle}
Caller == [at : {"calling", "initialising", "sending"}, server : Servers, method : Methods, then : Thens]
SentCaller == [at : {"sent", "noting"}, server : Servers, method : Methods, then : Thens, id : Nat,
               own : Nat]
OverCaller == [at : {"over"}, server : Servers, then : Thens, ok : BOOLEAN, reply : Nat, own : Nat]

CallersTyped == caller \in [Callers -> IdleCaller \cup Caller \cup SentCaller \cup OverCaller]

ServerRecord == [life : {"none", "alive", "destroyed"}, needsInit : BOOLEAN, nextId : Nat,
                 used : {"never", "fresh", "idle"}, holder : Callers \cup {"free"}]
Link == [ready : BOOLEAN, refused : BOOLEAN, late : Seq(Nat), asked : Seq(Nat)]

ServersTyped == server \in [Servers -> ServerRecord] /\ link \in [Servers -> Link]

Names == ListedTools \cup Range(Builtins)
Tool == [name : Names, server : Servers \cup {"none"}]

BuildTyped ==
    /\ stage \in {"builtin", "undo", "mcp", "published", "servers", "gone"}
    /\ stage = "builtin" => left \in Seq(Names)
    /\ stage = "mcp" => left \in Seq(Servers)
    /\ registry \in Seq(Tool) /\ Len(registry) <= MaxTools

Typed == CallersTyped /\ ServersTyped /\ BuildTyped

(* While a generation is put together its builder is the only one who       *)
(* calls, an initialize is sent by nobody else, and before and after that   *)
(* nobody calls but for a tool's result.                                    *)
LoaderAlone ==
    \A c \in Callers :
        /\ caller[c] # Idle => stage = "published" \/ (stage = "mcp" /\ c = Loader)
        /\ caller[c].at \in {"calling", "initialising", "sending", "sent", "noting"}
              /\ caller[c].method = "initialize" => stage = "mcp"
        /\ caller[c].at = "noting" => caller[c].method = "initialize"
        /\ stage = "mcp" /\ caller[c] # Idle => left # << >> /\ caller[c].server = Head(left)
        /\ stage = "published" /\ caller[c] # Idle => caller[c].then = "result"

(* Who is inside the mutex of a server *)
HolderInside ==
    \A c \in Callers :
        caller[c].at = "initialising" \/ (caller[c].at = "sent" /\ caller[c].server \in Serial)
            => server[caller[c].server].holder = c

(* A connection that was initialised, or refused to be, since its reset *)
Known(s) == link[s].ready \/ link[s].refused

(* A server that needs no initialize has had one, and whoever is about to   *)
(* send had one before its eyes or waits for the thread that is at it.      *)
BeingInitialised(s) == \E h \in Callers : caller[h].at = "initialising" /\ caller[h].server = s

KnownBeforeSending ==
    /\ \A s \in Servers : ~server[s].needsInit => Known(s)
    /\ \A c \in Callers :
          /\ caller[c].at = "sending" /\ caller[c].method # "initialize" =>
                 Known(caller[c].server) \/ BeingInitialised(caller[c].server)
          /\ caller[c].at = "noting" => Known(caller[c].server)

Connected == Typed /\ LoaderAlone /\ HolderInside /\ KnownBeforeSending /\ SentWhenInitialised
-----------------------------------------------------------------------------
(* Where a thread is says what it has in hand. *)
LEMMA InHand ==
    ASSUME Typed, NEW c \in Callers
    PROVE  /\ caller[c].at \in {"calling", "initialising", "sending"} => caller[c] \in Caller
           /\ caller[c].at \in {"sent", "noting"} => caller[c] \in SentCaller
           /\ caller[c].at = "over" => caller[c] \in OverCaller
           /\ caller[c].at = "idle" <=> caller[c] = Idle
           /\ caller[c] # Idle => caller[c].server \in Servers
    BY DEF Typed, CallersTyped, IdleCaller, Caller, SentCaller, OverCaller, Idle

LEMMA InitConnected == Init => Connected
<1> SUFFICES ASSUME Init PROVE Connected
    OBVIOUS
<1> USE DEF Init, McpInit
<1>0. BuildTyped
    <2>1. Builtins \in Seq(Range(Builtins)) /\ Range(Builtins) \subseteq Names /\ MaxTools \in Nat
        BY RegistryAssumption DEF RegistryAssumption, Names
    <2>2. Builtins \in Seq(Names)
        BY <2>1
    <2>3. QED
        BY <2>1, <2>2 DEF BuildTyped
<1>1. Typed
    BY <1>0 DEF Typed, CallersTyped, IdleCaller, ServersTyped, ServerRecord, Link, NewServer, NewLink
<1>2. \A c \in Callers : caller[c] = Idle /\ caller[c].at = "idle"
    BY DEF Idle
<1>3. \A s \in Servers : server[s].needsInit
    BY DEF NewServer
<1>4. QED
    BY <1>1, <1>2, <1>3 DEF Connected, LoaderAlone, HolderInside, KnownBeforeSending,
                            SentWhenInitialised, At

(* What the calls make of a server's record is one again. *)
LEMMA RecordKept ==
    ASSUME NEW r \in ServerRecord, NEW c \in Callers
    PROVE  /\ [r EXCEPT !.needsInit = TRUE, !.holder = c, !.nextId = @ + 1] \in ServerRecord
           /\ \A ok \in BOOLEAN :
                 [r EXCEPT !.needsInit = ~ok, !.holder = "free", !.used = IF ok THEN "fresh" ELSE @]
                     \in ServerRecord
           /\ \A h \in {c, r.holder} :
                 [r EXCEPT !.nextId = @ + 1, !.used = "fresh", !.holder = h] \in ServerRecord
           /\ [r EXCEPT !.holder = "free"] \in ServerRecord
           /\ [r EXCEPT !.needsInit = FALSE, !.used = "fresh"] \in ServerRecord
           /\ [r EXCEPT !.used = "idle"] \in ServerRecord
           /\ \A l \in {"none", "alive", "destroyed"} : [r EXCEPT !.life = l] \in ServerRecord
<1>1. \A n \in Nat :
        /\ [r EXCEPT !.needsInit = TRUE, !.holder = c, !.nextId = n] \in ServerRecord
        /\ \A h \in {c, r.holder} : [r EXCEPT !.nextId = n, !.used = "fresh", !.holder = h] \in ServerRecord
    BY DEF ServerRecord
<1>2. r.nextId + 1 \in Nat
    BY DEF ServerRecord
<1>3. QED
    BY <1>1, <1>2, ZenonT(60) DEF ServerRecord

LEMMA OneServerChanges ==
    ASSUME ServersTyped, NEW s \in Servers, NEW r \in ServerRecord,
           server' = [server EXCEPT ![s] = r]
    PROVE  /\ server' \in [Servers -> ServerRecord]
           /\ server'[s] = r
           /\ \A q \in Servers \ {s} : server'[q] = server[q]
    BY DEF ServersTyped

LEMMA OneLinkChanges ==
    ASSUME ServersTyped, NEW s \in Servers, NEW r \in Link, link' = [link EXCEPT ![s] = r]
    PROVE  /\ link' \in [Servers -> Link]
           /\ link'[s] = r
           /\ \A q \in Servers \ {s} : link'[q] = link[q]
    BY DEF ServersTyped

LEMMA OneCallerMoves ==
    ASSUME CallersTyped, NEW c \in Callers,
           NEW r \in IdleCaller \cup Caller \cup SentCaller \cup OverCaller, Go(c, r)
    PROVE  /\ CallersTyped'
           /\ caller'[c] = r
           /\ \A d \in Callers \ {c} : caller'[d] = caller[d]
    BY DEF CallersTyped, Go

LEMMA ResetLink ==
    ASSUME Typed, NEW s \in Servers, ResetIdle(s)
    PROVE  /\ link' \in [Servers -> Link]
           /\ \A q \in Servers \ {s} : link'[q] = link[q]
           /\ link'[s].asked = link[s].asked /\ link'[s].late \in {link[s].late, << >>}
           /\ ~Expired(s) => link' = link
<1> DEFINE new == [NewLink EXCEPT !.asked = link[s].asked]
<1>1. /\ link \in [Servers -> Link] /\ new \in Link
      /\ new.asked = link[s].asked /\ new.late = << >>
    <2>1. link \in [Servers -> Link] /\ link[s].asked \in Seq(Nat)
        BY DEF Typed, ServersTyped, Link
    <2>2. NewLink \in Link
        BY DEF Link, NewLink
    <2>3. new \in Link
        BY <2>1, <2>2 DEF Link
    <2>4. new.asked = link[s].asked /\ new.late = << >>
        BY DEF NewLink
    <2>5. QED
        BY <2>1, <2>3, <2>4
<1>2. CASE ~Expired(s)
    BY <1>1, <1>2 DEF ResetIdle
<1>3. CASE Expired(s)
    <2>1. PICK reset \in BOOLEAN : link' = [link EXCEPT ![s] = IF reset THEN new ELSE @]
        BY <1>3 DEF ResetIdle
    <2> HIDE DEF new
    <2>2. QED
        BY <1>1, <1>3, <2>1
<1>4. QED
    BY <1>2, <1>3

LEMMA EnterKeeps ==
    ASSUME Connected, NEW c \in Callers, Enter(c), UNCHANGED regVars
    PROVE  Connected'
<1> USE DEF Connected
<1>1. caller[c] \in Caller /\ caller[c].server \in Servers
    BY InHand DEF Enter, At, Caller
<1> DEFINE s == caller[c].server
<1>2. server[s].holder = "free" /\ NeedsInit(s) \in BOOLEAN
      /\ (~NeedsInit(s) => ~server[s].needsInit /\ ~Expired(s))
    BY <1>1 DEF Enter, Free, NeedsInit, Expired, Typed, ServersTyped, ServerRecord
<1>0. \A d \in Callers : caller[d].at # "idle" => caller[d].server \in Servers
    BY InHand
<1>3. /\ \A d \in Callers \ {c} : caller'[d] = caller[d]
      /\ caller'[c] \in Caller /\ caller'[c].server = s /\ caller'[c].method = caller[c].method
      /\ caller'[c].then = caller[c].then
      /\ caller'[c].at \in {"sending", "initialising"}
      /\ caller' \in [Callers -> IdleCaller \cup Caller \cup SentCaller \cup OverCaller]
    BY <1>1 DEF Enter, Go, Caller, Typed, CallersTyped
<1>4. /\ link' \in [Servers -> Link]
      /\ \A q \in Servers \ {s} : link'[q] = link[q]
      /\ ~Expired(s) => link' = link
    BY <1>1, ResetLink DEF Enter
<1>5. /\ server' \in [Servers -> ServerRecord]
      /\ \A q \in Servers \ {s} : server'[q] = server[q]
      /\ \/ /\ caller[c].method = "initialize" \/ ~NeedsInit(s)
            /\ caller'[c].at = "sending" /\ server'[s].holder = "free"
            /\ server'[s].needsInit = NeedsInit(s)
         \/ /\ caller[c].method # "initialize" /\ NeedsInit(s)
            /\ caller'[c].at = "initialising" /\ server'[s].holder = c /\ server'[s].needsInit
    <2>1. CASE /\ caller[c].method = "initialize" \/ ~NeedsInit(s)
               /\ server' = [server EXCEPT ![s].needsInit = NeedsInit(s)]
               /\ Go(c, [caller[c] EXCEPT !.at = "sending"])
        BY <1>1, <1>2, <2>1 DEF Typed, ServersTyped, ServerRecord, CallersTyped, Go, Caller
    <2>2. CASE /\ caller[c].method # "initialize" /\ NeedsInit(s)
               /\ server' = [server EXCEPT ![s] = [server[s] EXCEPT !.needsInit = TRUE, !.holder = c,
                                                            !.nextId = @ + 1]]
               /\ Go(c, [caller[c] EXCEPT !.at = "initialising"])
        <3>1. server[s] \in ServerRecord
            BY <1>1 DEF Typed, ServersTyped
        <3>2. [server[s] EXCEPT !.needsInit = TRUE, !.holder = c, !.nextId = @ + 1] \in ServerRecord
            BY <3>1, RecordKept
        <3>3. server'[s].holder = c /\ server'[s].needsInit
            BY <1>1, <2>2, <3>1 DEF Typed, ServersTyped, ServerRecord
        <3>4. server' \in [Servers -> ServerRecord] /\ \A q \in Servers \ {s} : server'[q] = server[q]
            <4> DEFINE new == [server[s] EXCEPT !.needsInit = TRUE, !.holder = c, !.nextId = @ + 1]
            <4>1. server' = [server EXCEPT ![s] = new]
                BY <2>2
            <4>2. new \in ServerRecord
                BY <3>2
            <4> HIDE DEF new
            <4>3. QED
                BY <1>1, <4>1, <4>2, OneServerChanges DEF Typed
        <3>5. caller'[c].at = "initialising"
            BY <1>1, <2>2 DEF Typed, CallersTyped, Go, Caller
        <3>6. QED
            BY <2>2, <3>3, <3>4, <3>5
    <2>3. QED
        BY <2>1, <2>2 DEF Enter
<1>6. Typed'
    BY <1>3, <1>4, <1>5 DEF Typed, CallersTyped, ServersTyped, BuildTyped, regVars
<1>7. caller[c] # Idle /\ caller[c].at = "calling"
    BY <1>1 DEF Caller, Idle, Enter, At
<1>8. LoaderAlone'
    BY <1>3, <1>7 DEF LoaderAlone, regVars
<1>9. HolderInside'
    BY <1>0, <1>1, <1>2, <1>3, <1>5 DEF HolderInside
<1>10. KnownBeforeSending'
    <2>0. \A q : BeingInitialised(q) => BeingInitialised(q)'
        BY <1>3, <1>7 DEF BeingInitialised
    <2>1. ASSUME NEW q \in Servers, ~server'[q].needsInit PROVE Known(q)'
        BY <1>2, <1>4, <1>5, <2>1 DEF KnownBeforeSending, BeingInitialised, Known
    <2>2. ASSUME NEW d \in Callers, caller'[d].at = "sending", caller'[d].method # "initialize"
          PROVE  (Known(caller[d].server) \/ BeingInitialised(caller[d].server))'
        <3>1. CASE d = c
            BY <1>0, <1>1, <1>2, <1>3, <1>4, <1>5, <2>2, <3>1 DEF KnownBeforeSending, BeingInitialised, Known
        <3>2. CASE d # c /\ caller[d].server # s
            BY <1>0, <1>3, <1>4, <2>0, <2>2, <3>2 DEF KnownBeforeSending, Known
        <3>3. CASE d # c /\ caller[d].server = s /\ ~Expired(s)
            BY <1>0, <1>3, <1>4, <2>0, <2>2, <3>3 DEF KnownBeforeSending, Known
        <3>4. CASE d # c /\ caller[d].server = s /\ Expired(s)
            <4>1. caller[c].method # "initialize"
                BY <1>3, <1>7, <2>2, <3>4 DEF LoaderAlone, Idle
            <4>2. QED
                BY <1>2, <1>3, <1>5, <3>4, <4>1 DEF BeingInitialised
        <3>5. QED
            BY <3>1, <3>2, <3>3, <3>4
    <2>3. \A d \in Callers : caller'[d].at # "noting"
        BY <1>3, <1>7 DEF LoaderAlone, Idle
    <2>4. QED
        BY <2>1, <2>2, <2>3 DEF KnownBeforeSending
<1>11. SentWhenInitialised'
    BY <1>0, <1>2, <1>3, <1>4 DEF SentWhenInitialised, HolderInside, At
<1>12. QED
    BY <1>6, <1>8, <1>9, <1>10, <1>11

(* A step that touches no connection, and lets threads only begin or end a  *)
(* call                                                                     *)
LEMMA QuietKeeps ==
    ASSUME Connected, Typed', LoaderAlone', UNCHANGED link,
           \A s \in Servers : server'[s].needsInit = server[s].needsInit
                               /\ server'[s].holder = server[s].holder,
           \A c \in Callers :
               \/ caller'[c] = caller[c]
               \/ /\ caller[c].at # "initialising"
                  /\ caller'[c].at \in {"idle", "calling", "over"}
    PROVE  Connected'
<1> USE DEF Connected
<1>1. \A d \in Callers : caller[d].at # "idle" => caller[d].server \in Servers
    BY InHand
<1>2. HolderInside'
    BY <1>1 DEF HolderInside
<1>3. KnownBeforeSending'
    BY <1>1 DEF KnownBeforeSending, BeingInitialised, Known
<1>4. SentWhenInitialised'
    BY <1>1 DEF SentWhenInitialised, At
<1>5. QED
    BY <1>2, <1>3, <1>4

(* A reply is that to a request in the pipe, the new one among them. *)
LEMMA OutcomeIsInPipe ==
    ASSUME Typed, NEW s \in Servers, NEW n \in Nat, NEW o \in Outcomes(s, n)
    PROVE  /\ o.late \in Seq(Nat) /\ o.reply \in Nat
           /\ \A i \in DOMAIN o.late : o.late[i] = n \/ \E j \in DOMAIN link[s].late : o.late[i] = link[s].late[j]
           /\ o.reply # NoReply => o.reply = n \/ \E j \in DOMAIN link[s].late : o.reply = link[s].late[j]
<1> DEFINE pipe == Append(link[s].late, n)
<1>1. link[s].late \in Seq(Nat)
    BY DEF Typed, ServersTyped, Link
<1>2. /\ pipe \in Seq(Nat) /\ pipe # << >>
      /\ \A i \in DOMAIN pipe : pipe[i] = n \/ \E j \in DOMAIN link[s].late : pipe[i] = link[s].late[j]
    <2> DEFINE late == link[s].late
    <2>1. late \in Seq(Nat)
        BY <1>1
    <2> HIDE DEF late
    <2>2. /\ Append(late, n) \in Seq(Nat) /\ Append(late, n) # << >>
          /\ DOMAIN late = 1..Len(late) /\ Len(late) \in Nat
          /\ DOMAIN Append(late, n) = 1..(Len(late) + 1)
          /\ \A i \in 1..Len(late) : Append(late, n)[i] = late[i]
          /\ Append(late, n)[Len(late) + 1] = n
        BY <2>1
    <2>3. \A i \in DOMAIN Append(late, n) :
              i = Len(late) + 1 \/ i \in DOMAIN late
        BY <2>2
    <2>4. \A i \in DOMAIN Append(late, n) :
              Append(late, n)[i] = n \/ \E j \in DOMAIN late : Append(late, n)[i] = late[j]
        BY <2>2, <2>3
    <2>5. QED
        BY <2>2, <2>4 DEF late
<1>3. \/ o.reply = Head(pipe) /\ o.late = Tail(pipe)
      \/ o.reply = NoReply /\ o.late \in {link[s].late, pipe}
    BY DEF Outcomes
<1> HIDE DEF pipe
<1>4. /\ Head(pipe) = pipe[1] /\ 1 \in DOMAIN pipe /\ Tail(pipe) \in Seq(Nat)
      /\ \A i \in DOMAIN Tail(pipe) : i + 1 \in DOMAIN pipe /\ Tail(pipe)[i] = pipe[i + 1]
    BY <1>2
<1>5. CASE o.reply = Head(pipe) /\ o.late = Tail(pipe)
    BY <1>2, <1>4, <1>5
<1>6. CASE o.reply = NoReply /\ o.late \in {link[s].late, pipe}
    BY <1>1, <1>2, <1>6 DEF NoReply
<1>7. QED
    BY <1>3, <1>5, <1>6

LEMMA GivenUpKeeps ==
    ASSUME Connected, NEW c \in Callers, ResetFails(c) \/ CalledOff(c), UNCHANGED regVars
    PROVE  Connected'
<1> USE DEF Connected
<1>1. caller[c] \in Caller /\ caller[c].at = "calling"
    BY InHand DEF ResetFails, CalledOff, At
<1>2. Over(c, FALSE, NoReply, NoReply) \in OverCaller /\ Over(c, FALSE, NoReply, NoReply).at = "over" /\ ~Over(c, FALSE, NoReply, NoReply).ok
      /\ Over(c, FALSE, NoReply, NoReply).server = caller[c].server /\ Over(c, FALSE, NoReply, NoReply).then = caller[c].then
    BY <1>1 DEF Over, Caller, OverCaller, NoReply
<1>3. /\ CallersTyped' /\ caller'[c] = Over(c, FALSE, NoReply, NoReply)
      /\ \A d \in Callers \ {c} : caller'[d] = caller[d]
    BY <1>2, OneCallerMoves DEF ResetFails, CalledOff, Typed
<1>4. Typed'
    BY <1>3 DEF ResetFails, CalledOff, Typed, ServersTyped, BuildTyped, regVars
<1>5. LoaderAlone'
    <2>1. caller[c] # Idle
        BY <1>1 DEF Idle
    <2>2. stage' = stage /\ left' = left
        BY DEF regVars
    <2>3. QED
        BY <1>2, <1>3, <2>1, <2>2 DEF LoaderAlone
<1>6. QED
    BY <1>1, <1>2, <1>3, <1>4, <1>5, QuietKeeps DEF ResetFails, CalledOff

LEMMA InitialisedKeeps ==
    ASSUME Connected, NEW c \in Callers, Initialised(c), UNCHANGED regVars
    PROVE  Connected'
<1> USE DEF Connected
<1>1. caller[c] \in Caller /\ caller[c].at = "initialising" /\ caller[c].server \in Servers
    BY InHand DEF Initialised, At, Caller
<1> DEFINE s == caller[c].server
           asked == Append(link[s].asked, server[s].nextId)
<1>2. server[s] \in ServerRecord /\ server[s].nextId \in Nat /\ link[s] \in Link /\ server[s].holder = c
      /\ asked \in Seq(Nat) /\ Len(asked) \in Nat
    BY <1>1 DEF Typed, ServersTyped, ServerRecord, Link, HolderInside
<1>3. PICK o \in Outcomes(s, Len(asked)) :
          LET ok == Matches(asked, o.reply, server[s].nextId) IN
          /\ link' = [link EXCEPT ![s] = [ready |-> @.ready \/ ok, refused |-> @.refused \/ ~ok,
                                          late |-> o.late, asked |-> asked]]
          /\ server' = [server EXCEPT ![s] = [server[s] EXCEPT !.needsInit = ~ok, !.holder = "free",
                                                       !.used = IF ok THEN "fresh" ELSE @]]
          /\ Go(c, IF ok THEN [caller[c] EXCEPT !.at = "sending"] ELSE Over(c, FALSE, NoReply, NoReply))
    BY DEF Initialised
<1> DEFINE ok == Matches(asked, o.reply, server[s].nextId)
<1>4. ok \in BOOLEAN /\ o.late \in Seq(Nat)
    BY <1>1, <1>2, OutcomeIsInPipe DEF Matches
<1> HIDE DEF ok, asked
<1>5. link' \in [Servers -> Link] /\ (link'[s].ready \/ link'[s].refused)
      /\ \A q \in Servers \ {s} : link'[q] = link[q]
    <2> DEFINE new == [ready |-> link[s].ready \/ ok, refused |-> link[s].refused \/ ~ok, late |-> o.late,
                       asked |-> asked]
    <2>1. link' = [link EXCEPT ![s] = new]
        BY <1>3 DEF ok
    <2>2. new \in Link /\ (new.ready \/ new.refused)
        BY <1>2, <1>4 DEF Link
    <2> HIDE DEF new
    <2>3. link'[s] = new /\ link' \in [Servers -> Link] /\ \A q \in Servers \ {s} : link'[q] = link[q]
        BY <1>1, <2>1, <2>2, OneLinkChanges DEF Typed
    <2>4. link'[s].ready \/ link'[s].refused
        BY <2>2, <2>3
    <2>5. QED
        BY <2>3, <2>4
<1>6. /\ server' \in [Servers -> ServerRecord] /\ server'[s].holder = "free"
      /\ \A q \in Servers \ {s} : server'[q] = server[q]
    <2> DEFINE new == [server[s] EXCEPT !.needsInit = ~ok, !.holder = "free",
                                        !.used = IF ok THEN "fresh" ELSE @]
    <2>1. server' = [server EXCEPT ![s] = new]
        BY <1>3 DEF ok
    <2>2. new \in ServerRecord
        BY <1>2, <1>4, RecordKept
    <2>3. new.holder = "free"
        BY <1>2 DEF ServerRecord
    <2> HIDE DEF new
    <2>4. QED
        BY <1>1, <2>1, <2>2, <2>3, OneServerChanges DEF Typed
<1>7. /\ CallersTyped' /\ \A d \in Callers \ {c} : caller'[d] = caller[d]
      /\ caller'[c].server = s /\ caller'[c].then = caller[c].then
      /\ \/ caller'[c] \in Caller /\ caller'[c].at = "sending" /\ caller'[c].method = caller[c].method
         \/ caller'[c] \in OverCaller /\ caller'[c].at = "over" /\ ~caller'[c].ok
    <2> DEFINE new == IF ok THEN [caller[c] EXCEPT !.at = "sending"] ELSE Over(c, FALSE, NoReply, NoReply)
    <2>1. Go(c, new)
        BY <1>3 DEF ok
    <2>2. /\ new.server = s /\ new.then = caller[c].then
          /\ \/ new \in Caller /\ new.at = "sending" /\ new.method = caller[c].method
             \/ new \in OverCaller /\ new.at = "over" /\ ~new.ok
        BY <1>1 DEF Over, Caller, OverCaller, NoReply
    <2> HIDE DEF new
    <2>3. QED
        BY <2>1, <2>2, OneCallerMoves DEF Typed
<1>8. Typed'
    BY <1>5, <1>6, <1>7 DEF Typed, ServersTyped, BuildTyped, regVars
<1>9. \A d \in Callers : caller[d].at # "idle" => caller[d].server \in Servers
    BY InHand
<1>10. LoaderAlone'
    <2>1. caller[c] # Idle
        BY <1>1 DEF Idle
    <2>2. stage' = stage /\ left' = left
        BY DEF regVars
    <2>3. QED
        BY <1>1, <1>7, <2>1, <2>2 DEF LoaderAlone
<1>11. HolderInside'
    BY <1>1, <1>2, <1>6, <1>7, <1>9 DEF HolderInside
<1>12. KnownBeforeSending'
    BY <1>1, <1>5, <1>6, <1>7, <1>9 DEF KnownBeforeSending, BeingInitialised, Known
<1>13. SentWhenInitialised'
    BY <1>1, <1>5, <1>7, <1>9 DEF SentWhenInitialised, At, Known
<1>14. QED
    BY <1>8, <1>10, <1>11, <1>12, <1>13

LEMMA SendKeeps ==
    ASSUME Connected, NEW c \in Callers, Send(c), UNCHANGED regVars
    PROVE  Connected'
<1> USE DEF Connected
<1>1. caller[c] \in Caller /\ caller[c].at = "sending" /\ caller[c].server \in Servers
    BY InHand DEF Send, At, Caller
<1> DEFINE s == caller[c].server
           asked == Append(link[s].asked, server[s].nextId + 1)
<1>2. server[s] \in ServerRecord /\ server[s].nextId + 1 \in Nat /\ server[s].holder = "free"
      /\ link[s] \in Link /\ asked \in Seq(Nat) /\ Len(asked) \in Nat
    BY <1>1 DEF Typed, ServersTyped, ServerRecord, Link, Send, Free
<1>3. /\ server' \in [Servers -> ServerRecord] /\ server'[s].needsInit = server[s].needsInit
      /\ s \in Serial => server'[s].holder = c
      /\ s \notin Serial => server'[s].holder = "free"
      /\ \A q \in Servers \ {s} : server'[q] = server[q]
    <2> DEFINE h == IF s \in Serial THEN c ELSE server[s].holder
               new == [server[s] EXCEPT !.nextId = @ + 1, !.used = "fresh", !.holder = h]
    <2>1. server' = [server EXCEPT ![s] = new]
        BY DEF Send
    <2>2. new \in ServerRecord /\ new.holder = h /\ new.needsInit = server[s].needsInit
        <3>1. h \in {c, server[s].holder}
            OBVIOUS
        <3> HIDE DEF h
        <3>2. QED
            <4>1. new \in ServerRecord
                BY <1>2, <3>1, RecordKept
            <4>2. QED
                BY <1>2, <4>1 DEF ServerRecord
    <2>3. (s \in Serial => h = c) /\ (s \notin Serial => h = "free")
        BY <1>2
    <2> HIDE DEF new, h
    <2>4. QED
        BY <1>1, <2>1, <2>2, <2>3, OneServerChanges DEF Typed
<1>4. /\ CallersTyped' /\ \A d \in Callers \ {c} : caller'[d] = caller[d]
      /\ caller'[c].server = s /\ caller'[c].method = caller[c].method /\ caller'[c].at = "sent"
      /\ caller'[c].then = caller[c].then
    <2> DEFINE new == [at |-> "sent", server |-> s, method |-> caller[c].method, then |-> caller[c].then,
                       id |-> server[s].nextId + 1, own |-> Len(asked)]
    <2>1. Go(c, new)
        BY DEF Send
    <2>2. new \in SentCaller /\ new.server = s /\ new.method = caller[c].method /\ new.at = "sent"
          /\ new.then = caller[c].then
        BY <1>1, <1>2 DEF Caller, SentCaller
    <2> HIDE DEF new, asked
    <2>3. QED
        BY <2>1, <2>2, OneCallerMoves DEF Typed
<1>5. Typed' /\ \A q \in Servers : Known(q)' <=> Known(q)
    <2> DEFINE new == [link[s] EXCEPT !.asked = asked]
    <2>1. link' = [link EXCEPT ![s] = new]
        BY DEF Send
    <2>2. new \in Link /\ new.ready = link[s].ready /\ new.refused = link[s].refused
        <3> HIDE DEF asked
        <3>1. QED
            BY <1>2 DEF Link
    <2> HIDE DEF new, asked
    <2>3. link'[s] = new /\ link' \in [Servers -> Link] /\ \A q \in Servers \ {s} : link'[q] = link[q]
        BY <1>1, <2>1, <2>2, OneLinkChanges DEF Typed
    <2>4. Typed'
        BY <1>3, <1>4, <2>3 DEF Typed, ServersTyped, BuildTyped, regVars
    <2>5. QED
        BY <2>2, <2>3, <2>4 DEF Known
<1>6. \A d \in Callers : caller[d].at # "idle" => caller[d].server \in Servers
    BY InHand
<1>7. LoaderAlone'
    <2>1. caller[c] # Idle
        BY <1>1 DEF Idle
    <2>2. stage' = stage /\ left' = left
        BY DEF regVars
    <2>3. QED
        BY <1>1, <1>4, <2>1, <2>2 DEF LoaderAlone
<1>8. HolderInside'
    BY <1>1, <1>2, <1>3, <1>4, <1>6 DEF HolderInside
<1>9. KnownBeforeSending'
    <2>1. \A q \in Servers : Known(q)' <=> Known(q)
        BY <1>5
    <2>2. \A q : BeingInitialised(q) => BeingInitialised(q)'
        BY <1>1, <1>4 DEF BeingInitialised
    <2>3. \A q \in Servers : server'[q].needsInit = server[q].needsInit
        BY <1>3
    <2>4. ASSUME NEW d \in Callers, caller'[d].at \in {"sending", "noting"} PROVE caller'[d] = caller[d]
        BY <1>4, <2>4
    <2>5. \A q \in Servers : ~server'[q].needsInit => Known(q)'
        BY <2>1, <2>3 DEF KnownBeforeSending
    <2>6. ASSUME NEW d \in Callers
          PROVE  (/\ caller[d].at = "sending" /\ caller[d].method # "initialize" =>
                        Known(caller[d].server) \/ BeingInitialised(caller[d].server)
                  /\ caller[d].at = "noting" => Known(caller[d].server))'
        BY <1>6, <2>1, <2>2, <2>4 DEF KnownBeforeSending
    <2>7. QED
        BY <2>5, <2>6 DEF KnownBeforeSending
<1>10. SentWhenInitialised'
    <2>1. ~BeingInitialised(s)
        BY <1>2 DEF BeingInitialised, HolderInside
    <2>2. QED
        BY <1>1, <1>4, <1>5, <1>6, <2>1 DEF SentWhenInitialised, At, Known, KnownBeforeSending
<1>11. QED
    BY <1>5, <1>7, <1>8, <1>9, <1>10

LEMMA AnsweredKeeps ==
    ASSUME Connected, NEW c \in Callers, Answered(c), UNCHANGED regVars
    PROVE  Connected'
<1> USE DEF Connected
<1>1. caller[c] \in SentCaller /\ caller[c].at = "sent" /\ caller[c].server \in Servers /\ caller[c].own \in Nat
    BY InHand DEF Answered, At, SentCaller
<1> DEFINE s == caller[c].server
           first == caller[c].method = "initialize"
<1>2. server[s] \in ServerRecord /\ link[s] \in Link /\ link[s].asked \in Seq(Nat)
    BY <1>1 DEF Typed, ServersTyped, Link
<1>3. PICK o \in Outcomes(s, caller[c].own) :
          LET ok == Matches(link[s].asked, o.reply, caller[c].id) IN
          /\ link' = [link EXCEPT ![s] = [ready |-> @.ready \/ (first /\ ok),
                                          refused |-> @.refused \/ (first /\ ~ok),
                                          late |-> o.late, asked |-> @.asked]]
          /\ server' = [server EXCEPT ![s].holder = IF @ = c THEN "free" ELSE @]
          /\ Go(c, IF first /\ ok THEN [caller[c] EXCEPT !.at = "noting"]
                   ELSE Over(c, ok, o.reply, caller[c].own))
    BY DEF Answered
<1> DEFINE ok == Matches(link[s].asked, o.reply, caller[c].id)
<1>4. ok \in BOOLEAN /\ o.late \in Seq(Nat) /\ o.reply \in Nat
    BY <1>1, OutcomeIsInPipe DEF Matches
<1> HIDE DEF ok
<1>5. /\ link' \in [Servers -> Link]
      /\ (link[s].ready \/ link[s].refused) \/ first => link'[s].ready \/ link'[s].refused
      /\ first /\ ok => link'[s].ready
      /\ \A q \in Servers \ {s} : link'[q] = link[q]
    <2> DEFINE new == [ready |-> link[s].ready \/ (first /\ ok), refused |-> link[s].refused \/ (first /\ ~ok),
                       late |-> o.late, asked |-> link[s].asked]
    <2>1. link' = [link EXCEPT ![s] = new]
        BY <1>3 DEF ok
    <2>2. /\ new \in Link
          /\ (link[s].ready \/ link[s].refused) \/ first => new.ready \/ new.refused
          /\ first /\ ok => new.ready
        BY <1>2, <1>4 DEF Link
    <2> HIDE DEF new
    <2>3. link'[s] = new /\ link' \in [Servers -> Link] /\ \A q \in Servers \ {s} : link'[q] = link[q]
        BY <1>1, <2>1, <2>2, OneLinkChanges DEF Typed
    <2>4. QED
        BY <2>2, <2>3
<1>6. /\ server' \in [Servers -> ServerRecord] /\ server'[s].needsInit = server[s].needsInit
      /\ server[s].holder # c => server'[s].holder = server[s].holder
      /\ \A q \in Servers \ {s} : server'[q] = server[q]
    <2> DEFINE h == IF server[s].holder = c THEN "free" ELSE server[s].holder
               new == [server[s] EXCEPT !.holder = h]
    <2>1. server' = [server EXCEPT ![s] = new]
        BY <1>3
    <2>2. new \in ServerRecord /\ new.needsInit = server[s].needsInit
          /\ (server[s].holder # c => new.holder = server[s].holder)
        BY <1>2 DEF ServerRecord
    <2> HIDE DEF new
    <2>3. QED
        BY <1>1, <2>1, <2>2, OneServerChanges DEF Typed
<1>7. /\ CallersTyped' /\ \A d \in Callers \ {c} : caller'[d] = caller[d]
      /\ caller'[c].server = s /\ caller'[c].then = caller[c].then
      /\ \/ first /\ ok /\ caller'[c].at = "noting" /\ caller'[c].method = caller[c].method
         \/ caller'[c].at = "over"
    <2> DEFINE new == IF first /\ ok THEN [caller[c] EXCEPT !.at = "noting"]
                      ELSE Over(c, ok, o.reply, caller[c].own)
    <2>1. Go(c, new)
        BY <1>3 DEF ok
    <2>2. /\ new \in SentCaller \cup OverCaller /\ new.server = s /\ new.then = caller[c].then
          /\ \/ first /\ ok /\ new.at = "noting" /\ new.method = caller[c].method
             \/ new.at = "over"
        BY <1>1, <1>4 DEF Over, SentCaller, OverCaller
    <2> HIDE DEF new
    <2>3. QED
        BY <2>1, <2>2, OneCallerMoves DEF Typed
<1>8. Typed'
    BY <1>5, <1>6, <1>7 DEF Typed, ServersTyped, BuildTyped, regVars
<1>9. \A d \in Callers : caller[d].at # "idle" => caller[d].server \in Servers
    BY InHand
<1>10. LoaderAlone'
    <2>1. caller[c] # Idle
        BY <1>1 DEF Idle
    <2>2. stage' = stage /\ left' = left
        BY DEF regVars
    <2>3. QED
        BY <1>1, <1>7, <2>1, <2>2 DEF LoaderAlone
<1>11. HolderInside'
    BY <1>1, <1>6, <1>7, <1>9 DEF HolderInside
<1>12. KnownBeforeSending'
    <2>1. \A q : BeingInitialised(q) => BeingInitialised(q)'
        BY <1>1, <1>7 DEF BeingInitialised
    <2>2. QED
        BY <1>1, <1>5, <1>6, <1>7, <1>9, <2>1 DEF KnownBeforeSending, Known
<1>13. SentWhenInitialised'
    BY <1>1, <1>5, <1>7, <1>9 DEF SentWhenInitialised, At
<1>14. QED
    BY <1>8, <1>10, <1>11, <1>12, <1>13

LEMMA NotedKeeps ==
    ASSUME Connected, NEW c \in Callers, Noted(c), UNCHANGED regVars
    PROVE  Connected'
<1> USE DEF Connected
<1>1. caller[c] \in SentCaller /\ caller[c].at = "noting" /\ caller[c].server \in Servers /\ caller[c].own \in Nat
    BY InHand DEF Noted, At, SentCaller
<1> DEFINE s == caller[c].server
<1>2. server[s] \in ServerRecord /\ Known(s)
    BY <1>1 DEF Typed, ServersTyped, KnownBeforeSending
<1>3. /\ server' \in [Servers -> ServerRecord] /\ server'[s].holder = server[s].holder
      /\ \A q \in Servers \ {s} : server'[q] = server[q]
    <2> DEFINE new == [server[s] EXCEPT !.needsInit = FALSE, !.used = "fresh"]
    <2>1. server' = [server EXCEPT ![s] = new]
        BY DEF Noted
    <2>2. new \in ServerRecord /\ new.holder = server[s].holder
        BY <1>2 DEF ServerRecord
    <2> HIDE DEF new
    <2>3. QED
        BY <1>1, <2>1, <2>2, OneServerChanges DEF Typed
<1>4. /\ CallersTyped' /\ \A d \in Callers \ {c} : caller'[d] = caller[d]
      /\ caller'[c].server = s /\ caller'[c].at = "over"
      /\ caller'[c].then = caller[c].then
    <2> DEFINE new == Over(c, TRUE, caller[c].own, caller[c].own)
    <2>1. new \in OverCaller /\ new.server = s /\ new.at = "over"
          /\ new.then = caller[c].then
        BY <1>1 DEF Over, SentCaller, OverCaller
    <2>2. Go(c, new)
        BY DEF Noted
    <2> HIDE DEF new
    <2>3. QED
        BY <2>1, <2>2, OneCallerMoves DEF Typed
<1>5. link' = link
    BY DEF Noted
<1>6. Typed'
    BY <1>3, <1>4, <1>5 DEF Typed, ServersTyped, BuildTyped, regVars
<1>7. \A d \in Callers : caller[d].at # "idle" => caller[d].server \in Servers
    BY InHand
<1>8. LoaderAlone'
    <2>1. caller[c] # Idle
        BY <1>1 DEF Idle
    <2>2. stage' = stage /\ left' = left
        BY DEF regVars
    <2>3. QED
        BY <1>1, <1>4, <2>1, <2>2 DEF LoaderAlone
<1>9. HolderInside'
    BY <1>1, <1>3, <1>4, <1>7 DEF HolderInside
<1>10. KnownBeforeSending'
    <2>1. \A q : BeingInitialised(q) => BeingInitialised(q)'
        BY <1>1, <1>4 DEF BeingInitialised
    <2>2. QED
        BY <1>2, <1>3, <1>4, <1>5, <1>7, <2>1 DEF KnownBeforeSending, Known
<1>11. SentWhenInitialised'
    BY <1>1, <1>4, <1>5, <1>7 DEF SentWhenInitialised, At
<1>12. QED
    BY <1>6, <1>8, <1>9, <1>10, <1>11

LEMMA IdlesKeeps ==
    ASSUME Connected, NEW s \in Servers, Idles(s), UNCHANGED regVars
    PROVE  Connected'
<1> USE DEF Connected
<1> DEFINE new == [server[s] EXCEPT !.used = "idle"]
<1>1. server' = [server EXCEPT ![s] = new]
    BY DEF Idles
<1>2. new \in ServerRecord /\ new.needsInit = server[s].needsInit /\ new.holder = server[s].holder
    BY DEF Typed, ServersTyped, ServerRecord
<1> HIDE DEF new
<1>3. /\ server' \in [Servers -> ServerRecord]
      /\ \A q \in Servers : server'[q].needsInit = server[q].needsInit /\ server'[q].holder = server[q].holder
    BY <1>1, <1>2, OneServerChanges DEF Typed
<1>4. UNCHANGED <<link, caller, stage, left, registry>>
    BY DEF Idles, regVars
<1>5. Typed' /\ LoaderAlone'
    BY <1>3, <1>4 DEF Typed, CallersTyped, ServersTyped, BuildTyped, LoaderAlone
<1>6. QED
    BY <1>3, <1>4, <1>5, QuietKeeps
-----------------------------------------------------------------------------
(* The steps of the build *)

(* While nobody calls, a step that leaves the callers and connections alone *)
LEMMA NobodyCallsKeeps ==
    ASSUME Connected, \A c \in Callers : caller[c] = Idle,
           UNCHANGED <<caller, link>>, BuildTyped', server' \in [Servers -> ServerRecord],
           \A s \in Servers : server'[s].needsInit = server[s].needsInit
                               /\ server'[s].holder = server[s].holder
    PROVE  Connected'
<1>1. Typed'
    BY DEF Connected, Typed, CallersTyped, ServersTyped
<1>2. LoaderAlone'
    BY DEF LoaderAlone, Idle
<1>3. QED
    BY <1>1, <1>2, QuietKeeps

LEMMA Orders == ServerOrders \subseteq Seq(Servers)
<1>1. Cardinality(Servers) \in Nat
    BY FS_CardinalityType, RegistryAssumption DEF RegistryAssumption
<1>2. QED
    BY <1>1 DEF ServerOrders, SetToSeqs

LEMMA BuiltinsKeep ==
    ASSUME Connected, MakeBuiltin \/ BuiltinFails \/ LoadPlugins
    PROVE  Connected'
<1>1. \A c \in Callers : caller[c] = Idle
    BY DEF Connected, LoaderAlone, MakeBuiltin, BuiltinFails, LoadPlugins
<1>2. UNCHANGED <<caller, link, server>>
    BY DEF MakeBuiltin, BuiltinFails, LoadPlugins, mcpVars
<1>3. BuildTyped'
    <2>1. Len(registry) \in Nat /\ MaxTools \in Nat /\ BuildTyped
        BY RegistryAssumption DEF RegistryAssumption, Connected, Typed, BuildTyped
    <2>2. CASE MakeBuiltin
        <3>1. Builtin(Head(left)) \in Tool /\ Tail(left) \in Seq(Names)
            BY <2>1, <2>2 DEF MakeBuiltin, BuildTyped, Builtin, Tool
        <3> DEFINE new == Builtin(Head(left))
        <3>2. \/ registry' = Append(registry, new) /\ Len(registry) < MaxTools
              \/ registry' = registry
            BY <2>2 DEF MakeBuiltin, AddOrDestroy, CanAdd, Add
        <3>3. new \in Tool
            BY <3>1
        <3> HIDE DEF new
        <3>4. registry' \in Seq(Tool) /\ Len(registry') <= MaxTools
            BY <2>1, <3>2, <3>3 DEF BuildTyped
        <3>5. \/ stage' = "builtin" /\ left' = Tail(left)
              \/ stage' = "undo"
            BY <2>2 DEF MakeBuiltin, BuildFails
        <3>6. QED
            BY <3>1, <3>4, <3>5 DEF BuildTyped
    <2>3. CASE BuiltinFails
        <3>1. registry' = registry /\ (stage' = "undo" \/ (stage' = "builtin" /\ left' \in Seq(Names)))
            BY <2>1, <2>3, SMTT(30) DEF BuiltinFails, BuildTyped, BuildFails
        <3>2. QED
            BY <2>1, <3>1 DEF BuildTyped
    <2>4. CASE LoadPlugins
        <3>1. registry' = registry /\ (stage' = "undo" \/ (stage' = "mcp" /\ left' \in Seq(Servers)))
            BY <2>4, Orders DEF LoadPlugins, BuildFails
        <3>2. QED
            BY <2>1, <3>1 DEF BuildTyped
    <2>5. QED
        BY <2>2, <2>3, <2>4
<1>4. QED
    BY <1>1, <1>2, <1>3, NobodyCallsKeeps DEF Connected, Typed, ServersTyped

LEMMA PublishedKeeps ==
    ASSUME Connected, FreezeRegistry \/ Retire \/ DestroyRegistry
    PROVE  Connected'
<1> USE DEF Connected
<1>1. \A c \in Callers : caller[c] = Idle
    BY InHand DEF LoaderAlone, FreezeRegistry, Retire, DestroyRegistry, At
<1>2. UNCHANGED <<caller, link, server>>
    BY DEF FreezeRegistry, Retire, DestroyRegistry, mcpVars
<1>3. BuildTyped'
    <2>1. registry' = registry \/ registry' = << >>
        BY DEF FreezeRegistry, Retire, DestroyRegistry
    <2>2. registry' \in Seq(Tool) /\ Len(registry') <= MaxTools
        <3>1. registry \in Seq(Tool) /\ Len(registry) <= MaxTools
            BY DEF Typed, BuildTyped
        <3>2. << >> \in Seq(Tool) /\ Len(<< >>) = 0 /\ MaxTools \in Nat
            BY RegistryAssumption DEF RegistryAssumption
        <3>3. CASE registry' = registry
            BY <3>1, <3>3
        <3>4. CASE registry' = << >>
            BY <3>2, <3>4
        <3>5. QED
            BY <2>1, <3>3, <3>4
    <2>3. QED
        BY <2>2 DEF BuildTyped, FreezeRegistry, Retire, DestroyRegistry
<1>4. QED
    BY <1>1, <1>2, <1>3, NobodyCallsKeeps DEF Typed, ServersTyped

LEMMA DestroyServersKeeps ==
    ASSUME Connected, DestroyServers
    PROVE  Connected'
<1> USE DEF Connected
<1>1. \A c \in Callers : caller[c] = Idle
    BY DEF LoaderAlone, DestroyServers
<1>2. ASSUME NEW s \in Servers
      PROVE  /\ server'[s] \in ServerRecord
             /\ server'[s].needsInit = server[s].needsInit /\ server'[s].holder = server[s].holder
    <2>1. server[s] \in ServerRecord
        BY DEF Typed, ServersTyped
    <2>2. server'[s] = IF server[s].life = "alive" THEN [server[s] EXCEPT !.life = "destroyed"] ELSE server[s]
        BY DEF DestroyServers
    <2>3. QED
        BY <2>1, <2>2 DEF ServerRecord
<1>3. server' \in [Servers -> ServerRecord]
    BY <1>2 DEF DestroyServers
<1>4. BuildTyped' /\ UNCHANGED <<caller, link>>
    BY DEF DestroyServers, Typed, BuildTyped
<1>5. QED
    BY <1>1, <1>2, <1>3, <1>4, NobodyCallsKeeps

LEMMA UnavailableKeeps ==
    ASSUME Connected, ServerUnavailable
    PROVE  Connected'
<1> USE DEF Connected
<1>1. \A c \in Callers : caller[c] = Idle
    BY InHand DEF LoaderAlone, ServerUnavailable, At
<1>2. UNCHANGED <<caller, link, server, registry>> /\ stage' = stage /\ stage = "mcp"
    BY DEF ServerUnavailable, mcpVars, NextServer
<1>3. BuildTyped'
    <2>1. left \in Seq(Servers) /\ left # << >>
        BY DEF ServerUnavailable, Typed, BuildTyped
    <2>2. left' \in Seq(Servers)
        BY <2>1 DEF ServerUnavailable, NextServer
    <2>3. QED
        BY <1>2, <2>2 DEF Typed, BuildTyped
<1>4. QED
    BY <1>1, <1>2, <1>3, NobodyCallsKeeps DEF Typed, ServersTyped

(* While one thread begins or ends a call, or a server begins or ends *)
LEMMA CallerKeeps ==
    ASSUME Connected, NEW c \in Callers, NEW r \in IdleCaller \cup Caller, Go(c, r),
           caller[c].at \in {"idle", "over"}, r.at \in {"idle", "calling"},
           UNCHANGED link, BuildTyped', server' \in [Servers -> ServerRecord],
           \A s \in Servers : server'[s].needsInit = server[s].needsInit
                               /\ server'[s].holder = server[s].holder,
           LoaderAlone'
    PROVE  Connected'
<1>1. /\ CallersTyped' /\ caller'[c] = r
      /\ \A d \in Callers \ {c} : caller'[d] = caller[d]
    BY OneCallerMoves DEF Connected, Typed
<1>2. Typed'
    BY <1>1 DEF Connected, Typed, ServersTyped
<1>3. QED
    BY <1>1, <1>2, QuietKeeps

LEMMA LifeChanges ==
    ASSUME ServersTyped, NEW s, NEW l \in {"none", "alive", "destroyed"},
           server' = [server EXCEPT ![s].life = l]
    PROVE  /\ server' \in [Servers -> ServerRecord]
           /\ \A q \in Servers : server'[q].needsInit = server[q].needsInit
                               /\ server'[q].holder = server[q].holder
<1>1. \A q \in Servers : server'[q] = IF q = s THEN [server[q] EXCEPT !.life = l] ELSE server[q]
    BY DEF ServersTyped
<1>2. \A q \in Servers : server[q] \in ServerRecord
    BY DEF ServersTyped
<1>3. ASSUME NEW q \in Servers
      PROVE  /\ server'[q] \in ServerRecord
             /\ server'[q].needsInit = server[q].needsInit /\ server'[q].holder = server[q].holder
    BY <1>1, <1>2 DEF ServerRecord
<1>4. DOMAIN server' = Servers /\ server' = [q \in Servers |-> server'[q]]
    BY DEF ServersTyped
<1>5. QED
    BY <1>3, <1>4

LEMMA CalledTyped ==
    ASSUME NEW s \in Servers, NEW m \in Methods, NEW then \in Thens
    PROVE  Called(s, m, then) \in Caller
    BY DEF Called, Caller

LEMMA ConnectKeeps ==
    ASSUME Connected, Connect
    PROVE  Connected'
<1> USE DEF Connected
<1>0. Loader \in Callers
    BY RegistryAssumption DEF RegistryAssumption
<1>1. /\ stage = "mcp" /\ left # << >> /\ caller[Loader].at = "idle"
      /\ link' = link /\ stage' = stage /\ left' = left /\ registry' = registry
    BY DEF Connect, At, regVars
<1>2. Head(left) \in Servers
    BY <1>1 DEF Typed, BuildTyped
<1> DEFINE r == Called(Head(left), "initialize", "list")
<1>3. /\ r \in Caller /\ r.at = "calling" /\ r.server = Head(left) /\ r.method = "initialize"
      /\ Go(Loader, r)
    BY <1>2, CalledTyped DEF Methods, Thens, Called, Connect
<1> HIDE DEF r
<1>4. \A c \in Callers : caller[c] = Idle
    BY <1>0, <1>1, InHand DEF LoaderAlone
<1>5. caller'[Loader] = r /\ \A d \in Callers \ {Loader} : caller'[d] = Idle
    BY <1>0, <1>3, <1>4, OneCallerMoves DEF Typed
<1>6. LoaderAlone'
    BY <1>1, <1>3, <1>5 DEF LoaderAlone, Idle
<1>7. BuildTyped'
    BY <1>1 DEF Typed, BuildTyped
<1>8. QED
    BY <1>0, <1>1, <1>3, <1>6, <1>7, CallerKeeps, LifeChanges DEF Connect, Typed

LEMMA InitializeOverKeeps ==
    ASSUME Connected, InitializeOver
    PROVE  Connected'
<1> USE DEF Connected
<1>0. Loader \in Callers
    BY RegistryAssumption DEF RegistryAssumption
<1>1. /\ caller[Loader].at = "over" /\ caller[Loader] # Idle /\ caller[Loader].then = "list"
      /\ link' = link /\ stage' = stage /\ registry' = registry
    BY DEF InitializeOver, At, Idle
<1>2. stage = "mcp" /\ left # << >> /\ \A d \in Callers \ {Loader} : caller[d] = Idle
    BY <1>0, <1>1 DEF LoaderAlone
<1>3. Head(left) \in Servers /\ Tail(left) \in Seq(Servers)
    BY <1>2 DEF Typed, BuildTyped
<1>4. CASE caller[Loader].ok
    <2> DEFINE r == Called(Head(left), "tools/list", "register")
    <2>1. /\ r \in Caller /\ r.at = "calling" /\ r.server = Head(left) /\ r.method = "tools/list"
          /\ Go(Loader, r) /\ server' = server /\ left' = left
        BY <1>3, <1>4, CalledTyped DEF Methods, Thens, Called, InitializeOver
    <2> HIDE DEF r
    <2>2. caller'[Loader] = r /\ \A d \in Callers \ {Loader} : caller'[d] = Idle
        BY <1>0, <1>2, <2>1, OneCallerMoves DEF Typed
    <2>3. LoaderAlone'
        BY <1>1, <1>2, <2>1, <2>2 DEF LoaderAlone, Idle
    <2>4. BuildTyped'
        BY <1>1, <2>1 DEF Typed, BuildTyped
    <2>5. QED
        BY <1>0, <1>1, <2>1, <2>3, <2>4, CallerKeeps DEF Typed, ServersTyped
<1>5. CASE ~caller[Loader].ok
    <2>1. /\ server' = [server EXCEPT ![Head(left)].life = "destroyed"]
          /\ Go(Loader, Idle) /\ left' = Tail(left)
        BY <1>5 DEF InitializeOver
    <2>2. Idle \in IdleCaller /\ Idle.at = "idle"
        BY DEF Idle, IdleCaller
    <2>3. \A d \in Callers : caller'[d] = Idle
        BY <1>0, <1>2, <2>1, <2>2, OneCallerMoves DEF Typed
    <2>4. LoaderAlone'
        BY <2>3 DEF LoaderAlone, Idle
    <2>5. BuildTyped'
        BY <1>1, <1>2, <1>3, <2>1 DEF Typed, BuildTyped
    <2>6. QED
        BY <1>0, <1>1, <2>1, <2>2, <2>4, <2>5, CallerKeeps, LifeChanges DEF Typed
<1>6. QED
    BY <1>4, <1>5

(* A list of names is taken as far as the registry has room. *)
LEMMA RegisterTyped ==
    ASSUME Typed, NEW s \in Servers, NEW names \in SUBSET ListedTools, NEW list \in SetToSeqs(names),
           Register(s, list)
    PROVE  registry' \in Seq(Tool) /\ Len(registry') <= MaxTools
<1>1. /\ registry \in Seq(Tool) /\ Len(registry) \in Nat /\ Len(registry) <= MaxTools
      /\ MaxTools \in Nat
    BY RegistryAssumption DEF RegistryAssumption, Typed, BuildTyped
<1>2. Cardinality(names) \in Nat
    BY FS_CardinalityType, FS_Subset, RegistryAssumption DEF RegistryAssumption
<1>3. list \in Seq(ListedTools) /\ Len(list) \in Nat
    BY <1>2 DEF SetToSeqs
<1> DEFINE n == IF Len(registry) + Len(list) <= MaxTools THEN Len(list) ELSE MaxTools - Len(registry)
           taken == [i \in 1..n |-> McpTool(s, list[i])]
<1>4. n \in Nat /\ n <= Len(list) /\ Len(registry) + n <= MaxTools
    BY <1>1, <1>3
<1>5. registry' = registry \o taken
    BY DEF Register
<1> HIDE DEF n
<1>6. \A i \in 1..n : McpTool(s, list[i]) \in Tool
    <2>1. \A i \in 1..n : list[i] \in Names
        BY <1>3, <1>4 DEF Names
    <2>2. QED
        BY <2>1 DEF McpTool, Tool
<1>7. taken \in Seq(Tool) /\ Len(taken) = n
    BY <1>4, <1>6
<1> HIDE DEF taken
<1>8. QED
    BY <1>1, <1>4, <1>5, <1>7

LEMMA ListOverKeeps ==
    ASSUME Connected, ListOver
    PROVE  Connected'
<1> USE DEF Connected
<1>0. Loader \in Callers
    BY RegistryAssumption DEF RegistryAssumption
<1>1. /\ caller[Loader].at = "over" /\ caller[Loader] # Idle /\ caller[Loader].then = "register"
      /\ link' = link /\ stage' = stage /\ left' = Tail(left) /\ Go(Loader, Idle)
    BY DEF ListOver, At, Idle, NextServer
<1>2. stage = "mcp" /\ left # << >> /\ \A d \in Callers \ {Loader} : caller[d] = Idle
    BY <1>0, <1>1 DEF LoaderAlone
<1>3. Tail(left) \in Seq(Servers)
    BY <1>2 DEF Typed, BuildTyped
<1>4. Idle \in IdleCaller /\ Idle.at = "idle"
    BY DEF Idle, IdleCaller
<1>5. \A d \in Callers : caller'[d] = Idle
    BY <1>0, <1>1, <1>2, <1>4, OneCallerMoves DEF Typed
<1>6. LoaderAlone'
    BY <1>5 DEF LoaderAlone, Idle
<1>7. server' = server /\ registry' \in Seq(Tool) /\ Len(registry') <= MaxTools
    <2>1. CASE caller[Loader].ok
        <3>1. PICK names \in SUBSET ListedTools : \E list \in SetToSeqs(names) :
                  Register(caller[Loader].server, list)
            BY <2>1 DEF ListOver
        <3>2. caller[Loader].server \in Servers
            BY <1>0, <1>1, InHand
        <3>3. registry' \in Seq(Tool) /\ Len(registry') <= MaxTools
            BY <3>1, <3>2, RegisterTyped
        <3>4. server' = server
            BY <3>1 DEF Register
        <3>5. QED
            BY <3>3, <3>4
    <2>2. CASE ~caller[Loader].ok
        BY <2>2 DEF ListOver, Typed, BuildTyped
    <2>3. QED
        BY <2>1, <2>2
<1>8. BuildTyped'
    BY <1>1, <1>2, <1>3, <1>7 DEF Typed, BuildTyped
<1>9. QED
    BY <1>0, <1>1, <1>4, <1>6, <1>7, <1>8, CallerKeeps DEF Typed, ServersTyped

(* What is found is a tool of the registry. *)
LEMMA FindsTool ==
    ASSUME Typed, NEW i \in 1..Len(registry)
    PROVE  /\ Find(registry[i].name) \in Tool
           /\ \E k \in DOMAIN registry : Find(registry[i].name) = registry[k]
<1> DEFINE is == {j \in 1..Len(registry) : registry[j].name = registry[i].name}
<1>1. registry \in Seq(Tool) /\ Len(registry) \in Nat
    BY DEF Typed, BuildTyped
<1>2. is \subseteq Nat /\ is # {}
    BY <1>1
<1>3. PICK first \in is : \A j \in is : <<j, first>> \notin OpToRel(<, Nat)
    BY <1>2, WFMin, NatLessThanWellFounded, Zenon
<1>4. \A j \in is : first <= j
    <2>1. \A j \in is : j \in Nat /\ first \in Nat /\ ~(j < first)
        BY <1>2, <1>3, Zenon DEF OpToRel
    <2>2. QED
        BY <2>1
<1>5. \E k \in is : \A j \in is : k <= j
    BY <1>3, <1>4
<1>6. (CHOOSE k \in is : \A j \in is : k <= j) \in is
    BY <1>5
<1>7. Find(registry[i].name) = registry[CHOOSE k \in is : \A j \in is : k <= j]
    BY DEF Find
<1>8. is \subseteq 1..Len(registry)
    OBVIOUS
<1> DEFINE k == CHOOSE k \in is : \A j \in is : k <= j
<1>9. k \in 1..Len(registry) /\ Find(registry[i].name) = registry[k]
    BY <1>6, <1>7, <1>8
<1> HIDE DEF k
<1>10. QED
    BY <1>1, <1>9

LEMMA CallToolKeeps ==
    ASSUME Connected, NEW c \in Callers, CallTool(c)
    PROVE  Connected'
<1> USE DEF Connected
<1>1. /\ stage = "published" /\ caller[c].at = "idle"
      /\ link' = link /\ server' = server /\ stage' = stage /\ left' = left /\ registry' = registry
    BY DEF CallTool, At, regVars
<1>2. PICK i \in 1..Len(registry) :
          LET tool == Find(registry[i].name) IN
          tool.server # "none" /\ Go(c, Called(tool.server, "tools/call", "result"))
    BY DEF CallTool
<1> DEFINE s == Find(registry[i].name).server
           r == Called(s, "tools/call", "result")
<1>3. s \in Servers
    BY <1>2, FindsTool DEF Tool
<1> HIDE DEF s
<1>4. r \in Caller /\ r.at = "calling" /\ r.method = "tools/call" /\ r.then = "result"
    BY <1>3, CalledTyped DEF Methods, Thens, Called
<1>5. Go(c, r)
    BY <1>2 DEF s
<1> HIDE DEF r
<1>6. caller'[c] = r /\ \A d \in Callers \ {c} : caller'[d] = caller[d]
    BY <1>4, <1>5, OneCallerMoves DEF Typed
<1>7. LoaderAlone'
    BY <1>1, <1>4, <1>6 DEF LoaderAlone
<1>8. BuildTyped'
    BY <1>1 DEF Typed, BuildTyped
<1>9. QED
    BY <1>1, <1>4, <1>5, <1>7, <1>8, CallerKeeps DEF Typed, ServersTyped

LEMMA ToolResultKeeps ==
    ASSUME Connected, NEW c \in Callers, ToolResult(c)
    PROVE  Connected'
<1> USE DEF Connected
<1>1. /\ caller[c].at = "over" /\ Go(c, Idle)
      /\ link' = link /\ server' = server /\ stage' = stage /\ left' = left /\ registry' = registry
    BY DEF ToolResult, At, regVars
<1>2. Idle \in IdleCaller /\ Idle.at = "idle"
    BY DEF Idle, IdleCaller
<1>3. caller'[c] = Idle /\ \A d \in Callers \ {c} : caller'[d] = caller[d]
    BY <1>1, <1>2, OneCallerMoves DEF Typed
<1>4. LoaderAlone'
    BY <1>1, <1>2, <1>3 DEF LoaderAlone
<1>5. BuildTyped'
    BY <1>1 DEF Typed, BuildTyped
<1>6. QED
    BY <1>1, <1>2, <1>4, <1>5, CallerKeeps DEF Typed, ServersTyped

LEMMA StepConnected == Connected /\ [Next]_vars => Connected'
<1> SUFFICES ASSUME Connected, [Next]_vars PROVE Connected'
    OBVIOUS
<1>1. CASE MakeBuiltin \/ BuiltinFails \/ LoadPlugins
    BY <1>1, BuiltinsKeep
<1>2. CASE ServerUnavailable
    BY <1>2, UnavailableKeeps
<1>3. CASE Connect
    BY <1>3, ConnectKeeps
<1>4. CASE InitializeOver
    BY <1>4, InitializeOverKeeps
<1>5. CASE ListOver
    BY <1>5, ListOverKeeps
<1>6. CASE FreezeRegistry \/ Retire \/ DestroyRegistry
    BY <1>6, PublishedKeeps
<1>7. CASE \E c \in Callers : CallTool(c) \/ ToolResult(c)
    BY <1>7, CallToolKeeps, ToolResultKeeps
<1>8. CASE DestroyServers
    BY <1>8, DestroyServersKeeps
<1>9. CASE McpNext /\ UNCHANGED regVars
    BY <1>9, EnterKeeps, GivenUpKeeps, InitialisedKeeps, SendKeeps, AnsweredKeeps, NotedKeeps,
       IdlesKeeps DEF McpNext
<1>10. CASE UNCHANGED vars
    <2>1. UNCHANGED <<server, link, caller, registry, stage, left>>
        BY <1>10 DEF vars, mcpVars, regVars
    <2>2. Typed' /\ LoaderAlone'
        BY <2>1 DEF Connected, Typed, CallersTyped, ServersTyped, BuildTyped, LoaderAlone
    <2>3. QED
        BY <2>1, <2>2, QuietKeeps
<1>11. QED
    BY <1>1, <1>2, <1>3, <1>4, <1>5, <1>6, <1>7, <1>8, <1>9, <1>10 DEF Next

(* The inductive invariant of the tools of a generation: while it is put    *)
(* together only its builder calls; a server that needs no initialize has   *)
(* had one, accepted or refused, since its last reset; a thread about to    *)
(* send has seen that or waits for the one that is at it                    *)
(* (cc_mcp_runtime_manager.c).                                              *)
THEOREM ConnectedHolds == Spec => []Connected
<1>1. Init => Connected
    BY InitConnected
<1>2. Connected /\ [Next]_vars => Connected'
    BY StepConnected
<1>3. QED
    BY <1>1, <1>2, PTL DEF Spec

(* What goes over a serial connection was preceded by an initialize since   *)
(* the last reset of the connection (mcp_call_raw,                          *)
(* ensure_initialized_locked).                                              *)
THEOREM RequestsFollowInitialize == Spec => []SentWhenInitialised
<1>1. Connected => SentWhenInitialised
    BY DEF Connected
<1>2. QED
    BY <1>1, ConnectedHolds, PTL
-----------------------------------------------------------------------------
(* The ids of the requests *)

(* No two requests of a server have the same id, over all its connections:  *)
(* ids grow in the order the requests are sent, an initialize request that   *)
(* is about to be sent has its id already, and only replies to requests that *)
(* were sent are in the pipe.                                               *)
Counted(s) ==
    /\ \A i, j \in DOMAIN link[s].asked : i < j => link[s].asked[i] < link[s].asked[j]
    /\ \A i \in DOMAIN link[s].asked :
          /\ link[s].asked[i] <= server[s].nextId
          /\ BeingInitialised(s) => link[s].asked[i] < server[s].nextId
    /\ \A i \in DOMAIN link[s].late : link[s].late[i] \in DOMAIN link[s].asked

(* A thread that waits knows which request is its own. *)
KnowsOwn(c) ==
    caller[c].at \in {"sent", "noting"} =>
        /\ caller[c].own \in DOMAIN link[caller[c].server].asked
        /\ link[caller[c].server].asked[caller[c].own] = caller[c].id

Numbered == (\A s \in Servers : Counted(s)) /\ (\A c \in Callers : KnowsOwn(c)) /\ RepliesMatch

LEMMA InitNumbered == Init => Numbered
    BY DEF Init, McpInit, NewLink, Idle, Numbered, Counted, KnowsOwn, RepliesMatch, At

(* A step that sends nothing and ends no call well *)
LEMMA QuietNumbers ==
    ASSUME Connected, Numbered,
           \A s \in Servers : /\ link'[s].asked = link[s].asked
                              /\ link'[s].late \in {link[s].late, << >>}
                              /\ server'[s].nextId = server[s].nextId,
           \A c \in Callers :
               \/ caller'[c] = caller[c]
               \/ /\ caller'[c].at \notin {"initialising", "sent", "noting"}
                  /\ caller'[c].at = "over" => ~caller'[c].ok
    PROVE  Numbered'
<1>1. ASSUME NEW s \in Servers PROVE Counted(s)'
    <2>1. BeingInitialised(s)' => BeingInitialised(s)
        BY DEF BeingInitialised
    <2>2. \A i \in DOMAIN link'[s].late : link'[s].late = link[s].late
        OBVIOUS
    <2>3. QED
        BY <2>1, <2>2 DEF Numbered, Counted
<1>2. \A c \in Callers : KnowsOwn(c)'
    BY InHand DEF Connected, Numbered, KnowsOwn
<1>3. RepliesMatch'
    BY DEF Numbered, RepliesMatch, At
<1>4. QED
    BY <1>1, <1>2, <1>3 DEF Numbered

LEMMA EnterNumbers ==
    ASSUME Connected, Numbered, NEW c \in Callers, Enter(c)
    PROVE  Numbered'
<1> USE DEF Connected
<1>0. \A d \in Callers : caller[d].at \in {"sent", "noting"} => caller[d].server \in Servers
    BY InHand DEF SentCaller
<1>1. caller[c] \in Caller /\ caller[c].server \in Servers
    BY InHand DEF Enter, At, Caller
<1> PICK s \in Servers : s = caller[c].server
    BY <1>1
<1>2. server[s].holder = "free" /\ server[s] \in ServerRecord
    BY <1>1 DEF Enter, Free, Typed, ServersTyped
<1>3. /\ \A q \in Servers \ {s} : link'[q] = link[q]
      /\ link'[s].asked = link[s].asked /\ link'[s].late \in {link[s].late, << >>}
    BY <1>1, ResetLink DEF Enter
<1>4. \A d \in Callers \ {c} : caller'[d] = caller[d]
    BY DEF Enter, Go, Typed, CallersTyped
<1>5. CASE /\ server' = [server EXCEPT ![s].needsInit = NeedsInit(s)]
           /\ Go(c, [caller[c] EXCEPT !.at = "sending"])
    <2>1. \A q \in Servers : server'[q].nextId = server[q].nextId
        BY <1>5 DEF Typed, ServersTyped, ServerRecord
    <2>2. caller'[c].at = "sending"
        BY <1>1, <1>5 DEF Go, Caller, Typed, CallersTyped
    <2>3. QED
        BY <1>3, <1>4, <2>1, <2>2, QuietNumbers
<1>6. CASE /\ server' = [server EXCEPT ![s] = [server[s] EXCEPT !.needsInit = TRUE, !.holder = c,
                                                        !.nextId = @ + 1]]
           /\ Go(c, [caller[c] EXCEPT !.at = "initialising"])
    <2>1. /\ server'[s].nextId = server[s].nextId + 1 /\ server[s].nextId \in Nat
          /\ \A q \in Servers \ {s} : server'[q] = server[q]
        BY <1>1, <1>2, <1>6 DEF Typed, ServersTyped, ServerRecord
    <2>2. caller'[c].at = "initialising" /\ caller'[c].server = s
        BY <1>1, <1>6 DEF Go, Caller, Typed, CallersTyped
    <2>3. ASSUME NEW q \in Servers \ {s} PROVE Counted(q)'
        <3>1. BeingInitialised(q)' => BeingInitialised(q)
            BY <1>4, <2>2 DEF BeingInitialised
        <3>2. QED
            BY <1>3, <2>1, <3>1 DEF Numbered, Counted
    <2>4. Counted(s)'
        <3>1. link[s].asked \in Seq(Nat)
            BY <1>1 DEF Typed, ServersTyped, Link
        <3>2. \A i \in DOMAIN link[s].asked : link[s].asked[i] < server'[s].nextId
            BY <1>1, <2>1, <3>1 DEF Numbered, Counted
        <3>3. \A i \in DOMAIN link'[s].late : link'[s].late = link[s].late
            BY <1>3
        <3>4. \A i \in DOMAIN link[s].asked : link[s].asked[i] <= server'[s].nextId
            BY <2>1, <3>1, <3>2
        <3>5. QED
            BY <1>1, <1>3, <3>2, <3>3, <3>4 DEF Numbered, Counted
    <2>5. \A d \in Callers : KnowsOwn(d)'
        BY <1>0, <1>3, <1>4, <2>2 DEF Numbered, KnowsOwn
    <2>6. RepliesMatch'
        BY <1>4, <2>2 DEF Numbered, RepliesMatch, At
    <2>7. QED
        BY <2>3, <2>4, <2>5, <2>6 DEF Numbered
<1>7. QED
    BY <1>5, <1>6 DEF Enter

(* A request that is sent with a new id is the last of those sent. *)
Follows(asked, old, id) ==
    /\ DOMAIN asked = 1..Len(asked) /\ Len(asked) \in DOMAIN asked /\ asked[Len(asked)] = id
    /\ \A i \in DOMAIN old : i \in DOMAIN asked /\ asked[i] = old[i]
    /\ \A i, j \in DOMAIN asked : i < j => asked[i] < asked[j]
    /\ \A i \in DOMAIN asked : asked[i] <= id

LEMMA OneMoreAsked ==
    ASSUME Typed, NEW s \in Servers, Counted(s), NEW id \in Nat,
           \A i \in DOMAIN link[s].asked : link[s].asked[i] < id
    PROVE  Follows(Append(link[s].asked, id), link[s].asked, id)
<1>1. link[s].asked \in Seq(Nat)
    BY DEF Typed, ServersTyped, Link
<1>2. \A i, j \in DOMAIN link[s].asked : i < j => link[s].asked[i] < link[s].asked[j]
    BY DEF Counted
<1> DEFINE old == link[s].asked
           asked == Append(old, id)
<1>3. /\ DOMAIN old = 1..Len(old) /\ Len(old) \in Nat /\ \A i \in 1..Len(old) : old[i] \in Nat
      /\ DOMAIN asked = 1..(Len(old) + 1) /\ Len(asked) = Len(old) + 1 /\ asked[Len(old) + 1] = id
      /\ \A i \in 1..Len(old) : asked[i] = old[i]
    BY <1>1
<1> HIDE DEF old, asked
<1>4. \A i, j \in DOMAIN asked : i < j => asked[i] < asked[j]
    <2> SUFFICES ASSUME NEW i \in DOMAIN asked, NEW j \in DOMAIN asked, i < j PROVE asked[i] < asked[j]
        OBVIOUS
    <2>1. i \in 1..Len(old)
        BY <1>3
    <2>2. CASE j = Len(old) + 1
        BY <1>3, <2>1, <2>2 DEF old
    <2>3. CASE j \in 1..Len(old)
        BY <1>2, <1>3, <2>1, <2>3 DEF old
    <2>4. QED
        BY <1>3, <2>2, <2>3
<1>5. \A i \in DOMAIN asked : asked[i] <= id
    <2> SUFFICES ASSUME NEW i \in DOMAIN asked PROVE asked[i] <= id
        OBVIOUS
    <2>1. CASE i = Len(old) + 1
        BY <1>3, <2>1
    <2>2. CASE i \in 1..Len(old)
        <3>1. old[i] < id /\ old[i] \in Nat
            BY <1>3, <2>2 DEF old
        <3>2. QED
            BY <1>3, <2>2, <3>1
    <2>3. QED
        BY <1>3, <2>1, <2>2
<1>6. /\ DOMAIN asked = 1..Len(asked) /\ Len(asked) \in DOMAIN asked /\ asked[Len(asked)] = id
      /\ \A i \in DOMAIN old : i \in DOMAIN asked /\ asked[i] = old[i]
    BY <1>3
<1>7. QED
    BY <1>4, <1>5, <1>6 DEF old, asked, Follows

LEMMA InitialisedNumbers ==
    ASSUME Connected, Numbered, NEW c \in Callers, Initialised(c)
    PROVE  Numbered'
<1> USE DEF Connected
<1>0. \A d \in Callers : caller[d].at \in {"sent", "noting"} => caller[d].server \in Servers
    BY InHand DEF SentCaller
<1>1. caller[c] \in Caller /\ caller[c].at = "initialising" /\ caller[c].server \in Servers
    BY InHand DEF Initialised, At, Caller
<1> PICK s \in Servers : s = caller[c].server
    BY <1>1
<1> DEFINE id == server[s].nextId
           asked == Append(link[s].asked, id)
<1>2. server[s] \in ServerRecord /\ id \in Nat /\ server[s].holder = c /\ BeingInitialised(s)
    BY <1>1 DEF Typed, ServersTyped, ServerRecord, HolderInside, BeingInitialised
<1>3. Counted(s) /\ \A i \in DOMAIN link[s].asked : link[s].asked[i] < id
    BY <1>1, <1>2 DEF Numbered, Counted
<1>4. Follows(asked, link[s].asked, id)
    BY <1>1, <1>2, <1>3, OneMoreAsked, Zenon
<1>5. PICK o \in Outcomes(s, Len(asked)) :
          LET ok == Matches(asked, o.reply, id) IN
          /\ link' = [link EXCEPT ![s] = [ready |-> @.ready \/ ok, refused |-> @.refused \/ ~ok,
                                          late |-> o.late, asked |-> asked]]
          /\ server' = [server EXCEPT ![s] = [server[s] EXCEPT !.needsInit = ~ok, !.holder = "free",
                                                       !.used = IF ok THEN "fresh" ELSE @]]
          /\ Go(c, IF ok THEN [caller[c] EXCEPT !.at = "sending"] ELSE Over(c, FALSE, NoReply, NoReply))
    BY DEF Initialised
<1>6. \A i \in DOMAIN o.late : o.late[i] \in DOMAIN asked
    <2>1. Len(asked) \in Nat
        BY <1>1, <1>2 DEF Typed, ServersTyped, Link
    <2> HIDE DEF asked
    <2>2. \A i \in DOMAIN o.late :
              o.late[i] = Len(asked) \/ \E j \in DOMAIN link[s].late : o.late[i] = link[s].late[j]
        BY <2>1, OutcomeIsInPipe
    <2>3. \A j \in DOMAIN link[s].late : link[s].late[j] \in DOMAIN link[s].asked
        BY <1>3 DEF Counted
    <2>4. QED
        BY <1>4, <2>2, <2>3 DEF Follows
<1> DEFINE ok == Matches(asked, o.reply, id)
<1>7. /\ link'[s].asked = asked /\ link'[s].late = o.late
      /\ \A q \in Servers \ {s} : link'[q] = link[q]
    <2> DEFINE new == [ready |-> link[s].ready \/ ok, refused |-> link[s].refused \/ ~ok,
                       late |-> o.late, asked |-> asked]
    <2>1. link' = [link EXCEPT ![s] = new]
        BY <1>5
    <2>2. new.asked = asked /\ new.late = o.late
        OBVIOUS
    <2> HIDE DEF new
    <2>3. QED
        BY <1>1, <2>1, <2>2 DEF Typed, ServersTyped
<1>8. server'[s].nextId = id /\ \A q \in Servers \ {s} : server'[q] = server[q]
    <2> DEFINE new == [server[s] EXCEPT !.needsInit = ~ok, !.holder = "free",
                                        !.used = IF ok THEN "fresh" ELSE @]
    <2>1. server' = [server EXCEPT ![s] = new]
        BY <1>5
    <2>2. new.nextId = id
        BY <1>2 DEF ServerRecord
    <2> HIDE DEF new
    <2>3. QED
        BY <1>1, <2>1, <2>2 DEF Typed, ServersTyped
<1>9. /\ \A d \in Callers \ {c} : caller'[d] = caller[d]
      /\ caller'[c].at = "sending" \/ (caller'[c].at = "over" /\ ~caller'[c].ok)
    <2> DEFINE new == IF ok THEN [caller[c] EXCEPT !.at = "sending"] ELSE Over(c, FALSE, NoReply, NoReply)
    <2>1. caller' = [caller EXCEPT ![c] = new]
        BY <1>5 DEF Go
    <2>2. new.at = "sending" \/ (new.at = "over" /\ ~new.ok)
        <3> HIDE DEF ok
        <3>1. QED
            BY <1>1 DEF Over, Caller
    <2> HIDE DEF new
    <2>3. QED
        BY <2>1, <2>2 DEF Typed, CallersTyped
<1> HIDE DEF ok, asked
<1>10. ASSUME NEW q \in Servers PROVE Counted(q)'
    <2>1. CASE q = s
        <3>1. ~BeingInitialised(q)'
            <4>1. \A h \in Callers \ {c} : ~(caller[h].at = "initialising" /\ caller[h].server = s)
                BY <1>2 DEF HolderInside
            <4>2. QED
                BY <1>9, <2>1, <4>1 DEF BeingInitialised
        <3>2. QED
            BY <1>4, <1>6, <1>7, <1>8, <2>1, <3>1 DEF Counted, Follows
    <2>2. CASE q # s
        <3>1. BeingInitialised(q)' => BeingInitialised(q)
            BY <1>9 DEF BeingInitialised
        <3>2. QED
            BY <1>7, <1>8, <2>2, <3>1 DEF Numbered, Counted
    <2>3. QED
        BY <2>1, <2>2
<1>11. ASSUME NEW d \in Callers PROVE KnowsOwn(d)'
    <2>1. CASE caller'[d].at \notin {"sent", "noting"}
        BY <2>1 DEF KnowsOwn
    <2>2. CASE caller'[d].at \in {"sent", "noting"}
        <3>1. caller'[d] = caller[d] /\ caller[d].server \in Servers /\ KnowsOwn(d)
            BY <1>0, <1>9, <2>2 DEF Numbered
        <3>2. CASE caller[d].server = s
            BY <1>4, <1>7, <3>1, <3>2 DEF KnowsOwn, Follows
        <3>3. CASE caller[d].server # s
            BY <1>7, <3>1, <3>3 DEF KnowsOwn
        <3>4. QED
            BY <3>2, <3>3
    <2>3. QED
        BY <2>1, <2>2
<1>12. RepliesMatch'
    BY <1>9 DEF Numbered, RepliesMatch, At
<1>13. QED
    BY <1>10, <1>11, <1>12 DEF Numbered

LEMMA SendNumbers ==
    ASSUME Connected, Numbered, NEW c \in Callers, Send(c)
    PROVE  Numbered'
<1> USE DEF Connected
<1>0. \A d \in Callers : caller[d].at \in {"sent", "noting"} => caller[d].server \in Servers
    BY InHand DEF SentCaller
<1>1. caller[c] \in Caller /\ caller[c].at = "sending" /\ caller[c].server \in Servers
    BY InHand DEF Send, At, Caller
<1> PICK s \in Servers : s = caller[c].server
    BY <1>1
<1> DEFINE id == server[s].nextId + 1
           asked == Append(link[s].asked, id)
<1>2. server[s] \in ServerRecord /\ server[s].nextId \in Nat /\ id \in Nat /\ server[s].holder = "free"
    BY <1>1 DEF Typed, ServersTyped, ServerRecord, Send, Free
<1>3. Counted(s) /\ \A i \in DOMAIN link[s].asked : link[s].asked[i] < id
    <2>1. link[s].asked \in Seq(Nat)
        BY <1>1 DEF Typed, ServersTyped, Link
    <2>2. Counted(s) /\ \A i \in DOMAIN link[s].asked : link[s].asked[i] <= server[s].nextId
        BY <1>1 DEF Numbered, Counted
    <2>3. QED
        BY <1>2, <2>1, <2>2
<1>4. Follows(asked, link[s].asked, id)
    BY <1>1, <1>2, <1>3, OneMoreAsked, Zenon
<1>5. /\ link'[s].asked = asked /\ link'[s].late = link[s].late
      /\ \A q \in Servers \ {s} : link'[q] = link[q]
    <2>1. link' = [link EXCEPT ![s].asked = asked]
        BY DEF Send
    <2> HIDE DEF asked
    <2>2. QED
        BY <1>1, <2>1 DEF Typed, ServersTyped, Link
<1>6. server'[s].nextId = id /\ \A q \in Servers \ {s} : server'[q] = server[q]
    <2> DEFINE new == [server[s] EXCEPT !.nextId = id, !.used = "fresh",
                                        !.holder = IF s \in Serial THEN c ELSE @]
    <2>1. server' = [server EXCEPT ![s] = new]
        BY DEF Send
    <2>2. new.nextId = id
        BY <1>2 DEF ServerRecord
    <2> HIDE DEF new
    <2>3. QED
        BY <1>1, <2>1, <2>2 DEF Typed, ServersTyped
<1>7. /\ \A d \in Callers \ {c} : caller'[d] = caller[d]
      /\ caller'[c].at = "sent" /\ caller'[c].server = s
      /\ caller'[c].own = Len(asked) /\ caller'[c].id = id
    <2> DEFINE new == [at |-> "sent", server |-> s, method |-> caller[c].method, then |-> caller[c].then,
                       id |-> id, own |-> Len(asked)]
    <2>1. caller' = [caller EXCEPT ![c] = new]
        BY DEF Send, Go
    <2>2. new.at = "sent" /\ new.server = s /\ new.own = Len(asked) /\ new.id = id
        OBVIOUS
    <2> HIDE DEF new
    <2>3. QED
        BY <2>1, <2>2 DEF Typed, CallersTyped
<1> HIDE DEF asked
<1>8. ASSUME NEW q \in Servers PROVE Counted(q)'
    <2>1. CASE q = s
        <3>1. ~BeingInitialised(q)'
            <4>1. \A h \in Callers : ~(caller[h].at = "initialising" /\ caller[h].server = s)
                BY <1>2 DEF HolderInside
            <4>2. QED
                BY <1>7, <2>1, <4>1 DEF BeingInitialised
        <3>2. \A i \in DOMAIN link[s].late : link[s].late[i] \in DOMAIN asked
            BY <1>3, <1>4 DEF Counted, Follows
        <3>3. QED
            BY <1>4, <1>5, <1>6, <2>1, <3>1, <3>2 DEF Counted, Follows
    <2>2. CASE q # s
        <3>1. BeingInitialised(q)' => BeingInitialised(q)
            BY <1>7 DEF BeingInitialised
        <3>2. QED
            BY <1>5, <1>6, <2>2, <3>1 DEF Numbered, Counted
    <2>3. QED
        BY <2>1, <2>2
<1>9. ASSUME NEW d \in Callers PROVE KnowsOwn(d)'
    <2>1. CASE d = c
        BY <1>4, <1>5, <1>7, <2>1 DEF KnowsOwn, Follows
    <2>2. CASE d # c /\ caller[d].at \notin {"sent", "noting"}
        BY <1>7, <2>2 DEF KnowsOwn
    <2>3. CASE d # c /\ caller[d].at \in {"sent", "noting"}
        <3>1. caller'[d] = caller[d] /\ caller[d].server \in Servers /\ KnowsOwn(d)
            BY <1>0, <1>7, <2>3 DEF Numbered
        <3>2. CASE caller[d].server = s
            BY <1>4, <1>5, <3>1, <3>2 DEF KnowsOwn, Follows
        <3>3. CASE caller[d].server # s
            BY <1>5, <3>1, <3>3 DEF KnowsOwn
        <3>4. QED
            BY <3>2, <3>3
    <2>4. QED
        BY <2>1, <2>2, <2>3
<1>10. RepliesMatch'
    BY <1>7 DEF Numbered, RepliesMatch, At
<1>11. QED
    BY <1>8, <1>9, <1>10 DEF Numbered

(* Only ids are compared, and the ids of two requests differ. *)
LEMMA AnsweredNumbers ==
    ASSUME Connected, Numbered, NEW c \in Callers, Answered(c)
    PROVE  Numbered'
<1> USE DEF Connected
<1>0. \A d \in Callers : caller[d].at \in {"sent", "noting"} => caller[d].server \in Servers
    BY InHand DEF SentCaller
<1>1. caller[c] \in SentCaller /\ caller[c].at = "sent" /\ caller[c].server \in Servers /\ caller[c].own \in Nat
    BY InHand DEF Answered, At, SentCaller
<1> PICK s \in Servers : s = caller[c].server
    BY <1>1
<1> DEFINE first == caller[c].method = "initialize"
<1>2. server[s] \in ServerRecord /\ link[s].asked \in Seq(Nat)
    BY <1>1 DEF Typed, ServersTyped, Link
<1>3. PICK o \in Outcomes(s, caller[c].own) :
          LET ok == Matches(link[s].asked, o.reply, caller[c].id) IN
          /\ link' = [link EXCEPT ![s] = [ready |-> @.ready \/ (first /\ ok),
                                          refused |-> @.refused \/ (first /\ ~ok),
                                          late |-> o.late, asked |-> @.asked]]
          /\ server' = [server EXCEPT ![s].holder = IF @ = c THEN "free" ELSE @]
          /\ Go(c, IF first /\ ok THEN [caller[c] EXCEPT !.at = "noting"]
                   ELSE Over(c, ok, o.reply, caller[c].own))
    BY DEF Answered
<1> DEFINE ok == Matches(link[s].asked, o.reply, caller[c].id)
<1>4. caller[c].own \in DOMAIN link[s].asked /\ link[s].asked[caller[c].own] = caller[c].id /\ Counted(s)
    BY <1>1 DEF Numbered, KnowsOwn
<1>5. /\ \A i \in DOMAIN o.late : o.late[i] \in DOMAIN link[s].asked
      /\ o.reply # NoReply => o.reply \in DOMAIN link[s].asked
    BY <1>1, <1>4, OutcomeIsInPipe DEF Counted
<1>6. ok => o.reply = caller[c].own
    <2> SUFFICES ASSUME ok PROVE o.reply = caller[c].own
        OBVIOUS
    <2>1. o.reply \in DOMAIN link[s].asked /\ link[s].asked[o.reply] = link[s].asked[caller[c].own]
        BY <1>4, <1>5 DEF Matches
    <2>2. \A i, j \in DOMAIN link[s].asked : i < j => link[s].asked[i] < link[s].asked[j]
        BY <1>4 DEF Counted
    <2>3. ~(o.reply < caller[c].own) /\ ~(caller[c].own < o.reply)
        <3>1. link[s].asked[o.reply] \in Nat
            BY <1>2, <2>1
        <3>2. QED
            BY <1>4, <2>1, <2>2, <3>1
    <2>4. o.reply \in Nat
        BY <1>2, <2>1
    <2>5. QED
        BY <1>1, <2>3, <2>4
<1> HIDE DEF ok
<1>7. /\ link'[s].asked = link[s].asked /\ link'[s].late = o.late
      /\ \A q \in Servers \ {s} : link'[q] = link[q]
    <2> DEFINE new == [ready |-> link[s].ready \/ (first /\ ok), refused |-> link[s].refused \/ (first /\ ~ok),
                       late |-> o.late, asked |-> link[s].asked]
    <2>1. link' = [link EXCEPT ![s] = new]
        BY <1>3 DEF ok
    <2>2. new.asked = link[s].asked /\ new.late = o.late
        OBVIOUS
    <2> HIDE DEF new
    <2>3. QED
        BY <1>1, <2>1, <2>2 DEF Typed, ServersTyped
<1>8. \A q \in Servers : server'[q].nextId = server[q].nextId
    <2> DEFINE new == [server[s] EXCEPT !.holder = IF @ = c THEN "free" ELSE @]
    <2>1. server' = [server EXCEPT ![s] = new]
        BY <1>3
    <2>2. new.nextId = server[s].nextId
        BY <1>2 DEF ServerRecord
    <2> HIDE DEF new
    <2>3. QED
        BY <1>1, <2>1, <2>2 DEF Typed, ServersTyped
<1>9. /\ \A d \in Callers \ {c} : caller'[d] = caller[d]
      /\ \/ /\ caller'[c].at = "noting" /\ caller'[c].server = s
            /\ caller'[c].own = caller[c].own /\ caller'[c].id = caller[c].id
         \/ caller'[c].at = "over" /\ (caller'[c].ok => caller'[c].reply = caller'[c].own)
    <2> DEFINE new == IF first /\ ok THEN [caller[c] EXCEPT !.at = "noting"]
                      ELSE Over(c, ok, o.reply, caller[c].own)
    <2>1. caller' = [caller EXCEPT ![c] = new]
        BY <1>3 DEF Go, ok
    <2>2. \/ new.at = "noting" /\ new.server = s /\ new.own = caller[c].own /\ new.id = caller[c].id
          \/ new.at = "over" /\ (new.ok => new.reply = new.own)
        BY <1>1, <1>6 DEF Over, SentCaller
    <2> HIDE DEF new
    <2>3. QED
        BY <2>1, <2>2 DEF Typed, CallersTyped
<1>10. ASSUME NEW q \in Servers PROVE Counted(q)'
    <2>1. BeingInitialised(q)' => BeingInitialised(q)
        BY <1>9 DEF BeingInitialised
    <2>2. CASE q = s
        BY <1>4, <1>5, <1>7, <1>8, <2>1, <2>2 DEF Counted
    <2>3. CASE q # s
        BY <1>7, <1>8, <2>1, <2>3 DEF Numbered, Counted
    <2>4. QED
        BY <2>2, <2>3
<1>11. \A d \in Callers : KnowsOwn(d)'
    BY <1>0, <1>4, <1>7, <1>9 DEF Numbered, KnowsOwn
<1>12. RepliesMatch'
    BY <1>9 DEF Numbered, RepliesMatch, At
<1>13. QED
    BY <1>10, <1>11, <1>12 DEF Numbered

LEMMA NotedNumbers ==
    ASSUME Connected, Numbered, NEW c \in Callers, Noted(c)
    PROVE  Numbered'
<1> USE DEF Connected
<1>1. caller[c] \in SentCaller /\ caller[c].server \in Servers
    BY InHand DEF Noted, At, SentCaller
<1>2. link' = link /\ \A q \in Servers : server'[q].nextId = server[q].nextId
    BY <1>1 DEF Noted, Typed, ServersTyped, ServerRecord
<1>3. /\ \A d \in Callers \ {c} : caller'[d] = caller[d]
      /\ caller'[c].at = "over" /\ caller'[c].reply = caller'[c].own
    BY DEF Noted, Go, Over, Typed, CallersTyped
<1>4. \A q \in Servers : Counted(q)'
    <2>1. \A q : BeingInitialised(q)' => BeingInitialised(q)
        BY <1>3 DEF BeingInitialised
    <2>2. QED
        BY <1>2, <2>1 DEF Numbered, Counted
<1>5. (\A d \in Callers : KnowsOwn(d)') /\ RepliesMatch'
    BY <1>2, <1>3 DEF Numbered, KnowsOwn, RepliesMatch, At
<1>6. QED
    BY <1>4, <1>5 DEF Numbered

(* The builder's steps, those of a tool's use, and the steps of a call that *)
(* send nothing                                                             *)
LEMMA OthersAreQuiet ==
    ASSUME Connected, Numbered,
           \/ MakeBuiltin \/ BuiltinFails \/ LoadPlugins \/ ServerUnavailable \/ Connect \/ InitializeOver
           \/ ListOver \/ FreezeRegistry \/ Retire \/ DestroyRegistry \/ DestroyServers \/ UNCHANGED vars
           \/ \E c \in Callers : CallTool(c) \/ ToolResult(c) \/ CalledOff(c) \/ ResetFails(c)
           \/ \E s \in Servers : Idles(s)
    PROVE  Numbered'
<1> USE DEF Connected
<1>0. Loader \in Callers /\ server \in [Servers -> ServerRecord] /\ \A q \in Servers : server[q] \in ServerRecord
    BY RegistryAssumption DEF RegistryAssumption, Typed, ServersTyped
<1>1. UNCHANGED link
    BY DEF MakeBuiltin, BuiltinFails, LoadPlugins, ServerUnavailable, Connect, InitializeOver, ListOver,
           FreezeRegistry, Retire, DestroyRegistry, DestroyServers, CallTool, ToolResult, CalledOff,
           ResetFails, Idles, vars, mcpVars
<1>2. \A q \in Servers : server'[q].nextId = server[q].nextId
    <2>1. CASE \E s \in Servers, l \in {"alive", "destroyed"} : server' = [server EXCEPT ![s].life = l]
        BY <1>0, <2>1 DEF ServerRecord
    <2>2. CASE \E s \in Servers : Idles(s)
        BY <1>0, <2>2 DEF Idles, ServerRecord
    <2>3. CASE DestroyServers
        BY <1>0, <2>3 DEF DestroyServers, ServerRecord
    <2>4. ASSUME Connect \/ InitializeOver
          PROVE  server' = server \/ \E l \in {"alive", "destroyed"} : server' = [server EXCEPT ![Head(left)].life = l]
        BY <2>4 DEF Connect, InitializeOver
    <2>5. ASSUME Connect \/ InitializeOver PROVE Head(left) \in Servers
        BY <1>0, <2>5 DEF Connect, InitializeOver, LoaderAlone, At, Idle, Typed, BuildTyped
    <2>6. CASE UNCHANGED server
        BY <2>6
    <2>7. ASSUME ListOver PROVE UNCHANGED server
        BY <2>7 DEF ListOver, Register
    <2>8. QED
        BY <2>1, <2>2, <2>3, <2>4, <2>5, <2>6, <2>7
           DEF MakeBuiltin, BuiltinFails, LoadPlugins, ServerUnavailable, FreezeRegistry, Retire,
               DestroyRegistry, CallTool, ToolResult, CalledOff, ResetFails, vars, mcpVars
<1>3. \/ UNCHANGED caller
      \/ \E c \in Callers : \E r : Go(c, r) /\ r.at \in {"idle", "calling", "over"} /\ (r.at = "over" => ~r.ok)
    <2>1. Idle.at = "idle" /\ \A s, m, then : Called(s, m, then).at = "calling"
        BY DEF Idle, Called
    <2>2. \A c : Over(c, FALSE, NoReply, NoReply).at = "over" /\ ~Over(c, FALSE, NoReply, NoReply).ok
        BY DEF Over
    <2>3. CASE Connect \/ InitializeOver \/ ListOver
        BY <1>0, <2>1, <2>3 DEF Connect, InitializeOver, ListOver
    <2>4. CASE \E c \in Callers : CallTool(c) \/ ToolResult(c)
        BY <2>1, <2>4 DEF CallTool, ToolResult
    <2>5. CASE \E c \in Callers : CalledOff(c) \/ ResetFails(c)
        BY <2>2, <2>5 DEF CalledOff, ResetFails
    <2>6. QED
        BY <2>3, <2>4, <2>5
           DEF MakeBuiltin, BuiltinFails, LoadPlugins, ServerUnavailable, FreezeRegistry, Retire,
               DestroyRegistry, DestroyServers, Idles, vars, mcpVars
<1>4. \A d \in Callers :
         \/ caller'[d] = caller[d]
         \/ /\ caller'[d].at \notin {"initialising", "sent", "noting"}
            /\ caller'[d].at = "over" => ~caller'[d].ok
    BY <1>3 DEF Go, Typed, CallersTyped
<1>5. QED
    BY <1>1, <1>2, <1>4, QuietNumbers

(* A call that succeeds got the reply to its own request, although only ids *)
(* are compared: for every number of servers, threads and late replies in a *)
(* pipe, no two requests of a server have the same id, as ids are drawn     *)
(* under the mutex and go on through resets (mcp_call_raw,                  *)
(* ensure_initialized_locked, cc_mcp_jsonrpc_response_matches_request).     *)
THEOREM RepliesAreOwn == Spec => []RepliesMatch
<1>1. Init => Numbered
    BY InitNumbered
<1>2. Connected /\ Numbered /\ [Next]_vars => Numbered'
    <2> SUFFICES ASSUME Connected, Numbered, [Next]_vars PROVE Numbered'
        OBVIOUS
    <2>1. CASE \E c \in Callers : Enter(c) \/ Initialised(c) \/ Send(c) \/ Answered(c) \/ Noted(c)
        BY <2>1, EnterNumbers, InitialisedNumbers, SendNumbers, AnsweredNumbers, NotedNumbers
    <2>2. QED
        BY <2>1, OthersAreQuiet DEF Next, McpNext
<1>3. Numbered => RepliesMatch
    BY DEF Numbered
<1>4. QED
    BY <1>1, <1>2, <1>3, ConnectedHolds, PTL DEF Spec
-----------------------------------------------------------------------------
(* Tools and their servers, from the build to the end *)

(* A server is alive while a tool of the registry calls it or somebody is  *)
(* in a call to it; the ones still to be connected have no tools.          *)
Alive(s) == server[s].life = "alive"
Lives ==
    /\ \A i \in DOMAIN registry : registry[i].server # "none" => Alive(registry[i].server)
    /\ \A c \in Callers : caller[c] # Idle => Alive(caller[c].server)
    /\ stage \in {"servers", "gone"} => registry = << >>
    /\ stage = "gone" => \A s \in Servers : ~Alive(s)
    /\ stage = "published" => frozen

(* A tool is made once, and is registered, destroyed or yet to be made.    *)
Distinct(q) == \A i, j \in DOMAIN q : q[i] = q[j] => i = j
NotIn(tool, q) == \A i \in DOMAIN q : q[i] # tool
Apart(q, r) == \A i \in DOMAIN q : NotIn(q[i], r)
NoToolOf(s, q) == \A i \in DOMAIN q : q[i].server # s

Once ==
    /\ destroyed \in Seq(Tool)
    /\ Distinct(registry) /\ Distinct(destroyed) /\ Apart(registry, destroyed)
    /\ stage \in {"builtin", "mcp"} => Distinct(left)
    /\ stage = "builtin" =>
          /\ \A i \in DOMAIN registry : registry[i].server = "none"
          /\ \A i \in DOMAIN destroyed : destroyed[i].server = "none"
          /\ \A k \in DOMAIN left : NotIn(Builtin(left[k]), registry) /\ NotIn(Builtin(left[k]), destroyed)
    /\ stage = "mcp" =>
          \A k \in DOMAIN left : NoToolOf(left[k], registry) /\ NoToolOf(left[k], destroyed)

Kept == Connected /\ Lives /\ Once

LEMMA InitKept == Init => Kept
<1> SUFFICES ASSUME Init PROVE Kept
    OBVIOUS
<1>1. Connected
    BY InitConnected
<1>2. stage = "builtin" /\ registry = << >> /\ destroyed = << >> /\ left = Builtins
      /\ \A c \in Callers : caller[c] = Idle
    BY DEF Init, McpInit
<1>3. Lives
    BY <1>2 DEF Lives
<1>4. Distinct(left)
    BY <1>2, RegistryAssumption DEF RegistryAssumption, Distinct, IsInjective
<1>5. Once
    BY <1>2, <1>4 DEF Once, Distinct, Apart, NotIn
<1>6. QED
    BY <1>1, <1>3, <1>5 DEF Kept

(* Calls leave the lives of the servers alone, and nobody begins one. *)
LEMMA CallsKeepServers ==
    ASSUME Typed, McpNext
    PROVE  /\ \A s \in Servers : server'[s].life = server[s].life
           /\ \A c \in Callers : caller'[c] # Idle =>
                  caller[c] # Idle /\ caller'[c].server = caller[c].server
<1>0. server \in [Servers -> ServerRecord] /\ caller \in [Callers -> IdleCaller \cup Caller \cup SentCaller \cup OverCaller]
    BY DEF Typed, ServersTyped, CallersTyped
<1>1. ASSUME NEW s \in Servers, Idles(s)
      PROVE  (\A q \in Servers : server'[q].life = server[q].life) /\ caller' = caller
    BY <1>0, <1>1 DEF Idles, ServerRecord
<1>2. ASSUME NEW c \in Callers, Enter(c)
      PROVE  /\ \A q \in Servers : server'[q].life = server[q].life
             /\ \A d \in Callers \ {c} : caller'[d] = caller[d]
             /\ caller[c] # Idle /\ caller'[c].server = caller[c].server
    <2>1. caller[c] \in Caller /\ caller[c] # Idle
        BY <1>2, InHand DEF Enter, At, Idle
    <2>2. \/ server' = [server EXCEPT ![caller[c].server].needsInit = NeedsInit(caller[c].server)]
          \/ server' = [server EXCEPT ![caller[c].server] =
                           [server[caller[c].server] EXCEPT !.needsInit = TRUE, !.holder = c, !.nextId = @ + 1]]
        BY <1>2 DEF Enter
    <2>3. \A q \in Servers : server'[q].life = server[q].life
        <3> DEFINE s == caller[c].server
        <3>1. s \in Servers /\ server[s] \in ServerRecord
            BY <1>0, <2>1 DEF Caller
        <3>2. \A q \in Servers \ {s} : server'[q] = server[q]
            BY <1>0, <2>2
        <3>3. CASE server' = [server EXCEPT ![s].needsInit = NeedsInit(s)]
            <4>1. server'[s] = [server[s] EXCEPT !.needsInit = NeedsInit(s)]
                BY <1>0, <3>1, <3>3
            <4>2. QED
                <5>1. server'[s].life = server[s].life
                    BY <3>1, <4>1 DEF ServerRecord
                <5>2. QED
                    BY <3>2, <5>1
        <3>4. CASE server' = [server EXCEPT ![s] =
                           [server[s] EXCEPT !.needsInit = TRUE, !.holder = c, !.nextId = @ + 1]]
            <4>1. server'[s] = [server[s] EXCEPT !.needsInit = TRUE, !.holder = c, !.nextId = server[s].nextId + 1]
                BY <1>0, <3>1, <3>4
            <4>2. QED
                <5>1. server'[s].life = server[s].life
                    BY <3>1, <4>1 DEF ServerRecord
                <5>2. QED
                    BY <3>2, <5>1
        <3>5. QED
            BY <2>2, <3>3, <3>4
    <2>4. Go(c, [caller[c] EXCEPT !.at = "sending"]) \/ Go(c, [caller[c] EXCEPT !.at = "initialising"])
        BY <1>2 DEF Enter
    <2>5. QED
        BY <1>0, <2>1, <2>3, <2>4 DEF Go, Caller
<1>3. ASSUME NEW c \in Callers, ResetFails(c) \/ CalledOff(c)
      PROVE  /\ \A q \in Servers : server'[q].life = server[q].life
             /\ \A d \in Callers \ {c} : caller'[d] = caller[d]
             /\ caller[c] # Idle /\ caller'[c].server = caller[c].server
    BY <1>0, <1>3 DEF ResetFails, CalledOff, Go, Over, At, Idle
<1>4. ASSUME NEW c \in Callers, Initialised(c)
      PROVE  /\ \A q \in Servers : server'[q].life = server[q].life
             /\ \A d \in Callers \ {c} : caller'[d] = caller[d]
             /\ caller[c] # Idle /\ caller'[c].server = caller[c].server
    <2>1. caller[c] \in Caller /\ caller[c] # Idle
        BY <1>4, InHand DEF Initialised, At, Idle
    <2>2. PICK ok :
              /\ server' = [server EXCEPT ![caller[c].server] =
                                [server[caller[c].server] EXCEPT !.needsInit = ~ok, !.holder = "free",
                                                                 !.used = IF ok THEN "fresh" ELSE @]]
              /\ Go(c, IF ok THEN [caller[c] EXCEPT !.at = "sending"] ELSE Over(c, FALSE, NoReply, NoReply))
        BY <1>4 DEF Initialised
    <2>3. \A q \in Servers : server'[q].life = server[q].life
        <3> DEFINE s == caller[c].server
                   u == IF ok THEN "fresh" ELSE server[s].used
        <3>1. s \in Servers /\ server[s] \in ServerRecord
            BY <1>0, <2>1 DEF Caller
        <3>2. \A q \in Servers \ {s} : server'[q] = server[q]
            BY <1>0, <2>2
        <3>3. server'[s] = [server[s] EXCEPT !.needsInit = ~ok, !.holder = "free", !.used = u]
            BY <1>0, <2>2, <3>1
        <3> HIDE DEF u
        <3>4. QED
            <4>1. server'[s].life = server[s].life
                BY <3>1, <3>3 DEF ServerRecord
            <4>2. QED
                BY <3>2, <4>1
    <2>4. Go(c, [caller[c] EXCEPT !.at = "sending"]) \/ Go(c, Over(c, FALSE, NoReply, NoReply))
        BY <2>2
    <2>5. QED
        BY <1>0, <2>1, <2>3, <2>4 DEF Go, Caller, Over
<1>5. ASSUME NEW c \in Callers, Send(c)
      PROVE  /\ \A q \in Servers : server'[q].life = server[q].life
             /\ \A d \in Callers \ {c} : caller'[d] = caller[d]
             /\ caller[c] # Idle /\ caller'[c].server = caller[c].server
    <2>1. caller[c] # Idle
        BY <1>5 DEF Send, At, Idle
    <2>2. \A q \in Servers : server'[q].life = server[q].life
        BY <1>0, <1>5 DEF Send, ServerRecord
    <2>3. QED
        BY <1>0, <1>5, <2>1, <2>2 DEF Send, Go
<1>6. ASSUME NEW c \in Callers, Answered(c)
      PROVE  /\ \A q \in Servers : server'[q].life = server[q].life
             /\ \A d \in Callers \ {c} : caller'[d] = caller[d]
             /\ caller[c] # Idle /\ caller'[c].server = caller[c].server
    <2>1. caller[c] \in SentCaller /\ caller[c] # Idle
        BY <1>6, InHand DEF Answered, At, Idle
    <2>2. \A q \in Servers : server'[q].life = server[q].life
        BY <1>0, <1>6 DEF Answered, ServerRecord
    <2>3. \E ok, reply : Go(c, [caller[c] EXCEPT !.at = "noting"]) \/ Go(c, Over(c, ok, reply, caller[c].own))
        BY <1>6 DEF Answered
    <2>4. QED
        BY <1>0, <2>1, <2>2, <2>3 DEF Go, Over, SentCaller
<1>7. ASSUME NEW c \in Callers, Noted(c)
      PROVE  /\ \A q \in Servers : server'[q].life = server[q].life
             /\ \A d \in Callers \ {c} : caller'[d] = caller[d]
             /\ caller[c] # Idle /\ caller'[c].server = caller[c].server
    <2>1. caller[c] # Idle
        BY <1>7 DEF Noted, At, Idle
    <2>2. \A q \in Servers : server'[q].life = server[q].life
        BY <1>0, <1>7 DEF Noted, ServerRecord
    <2>3. QED
        BY <1>0, <1>7, <2>1, <2>2 DEF Noted, Go, Over
<1>8. QED
    BY <1>1, <1>2, <1>3, <1>4, <1>5, <1>6, <1>7 DEF McpNext

LEMMA CallsKeep ==
    ASSUME Kept, McpNext, UNCHANGED regVars
    PROVE  Lives' /\ Once'
<1>1. /\ \A s \in Servers : server'[s].life = server[s].life
      /\ \A c \in Callers : caller'[c] # Idle => caller[c] # Idle /\ caller'[c].server = caller[c].server
    BY CallsKeepServers DEF Kept, Connected
<1>2. registry' = registry /\ frozen' = frozen /\ stage' = stage /\ left' = left /\ destroyed' = destroyed
    BY DEF regVars
<1>3. \A c \in Callers : caller[c] # Idle => caller[c].server \in Servers
    BY InHand DEF Kept, Connected
<1>4. \A i \in DOMAIN registry : registry[i].server # "none" => registry[i].server \in Servers
    <2>1. registry \in Seq(Tool)
        BY DEF Kept, Connected, Typed, BuildTyped
    <2>2. \A i \in DOMAIN registry : registry[i] \in Tool
        BY <2>1
    <2>3. QED
        BY <2>2 DEF Tool
<1>5. Lives'
    BY <1>1, <1>2, <1>3, <1>4 DEF Kept, Lives, Alive
<1>6. Once'
    BY <1>2 DEF Kept, Once
<1>7. QED
    BY <1>5, <1>6

(* What is appended to a sequence, or follows it, keeps its members apart. *)
LEMMA OneMoreApart ==
    ASSUME NEW q \in Seq(Tool), NEW tool \in Tool
    PROVE  /\ Append(q, tool) \in Seq(Tool)
           /\ Distinct(q) /\ NotIn(tool, q) => Distinct(Append(q, tool))
           /\ \A other : NotIn(other, q) /\ other # tool => NotIn(other, Append(q, tool))
           /\ \A s : NoToolOf(s, q) /\ tool.server # s => NoToolOf(s, Append(q, tool))
           /\ \A i \in DOMAIN Append(q, tool) : Append(q, tool)[i] = tool \/ \E j \in DOMAIN q : Append(q, tool)[i] = q[j]
<1> DEFINE r == Append(q, tool)
<1>1. /\ r \in Seq(Tool)
      /\ DOMAIN r = 1..(Len(q) + 1) /\ DOMAIN q = 1..Len(q) /\ Len(q) \in Nat
      /\ \A i \in 1..Len(q) : r[i] = q[i]
      /\ r[Len(q) + 1] = tool
    OBVIOUS
<1> HIDE DEF r
<1>2. \A i \in DOMAIN r : (i \in DOMAIN q /\ r[i] = q[i]) \/ (i = Len(q) + 1 /\ r[i] = tool)
    BY <1>1
<1>3. Distinct(q) /\ NotIn(tool, q) => Distinct(r)
    BY <1>2 DEF Distinct, NotIn
<1>4. QED
    BY <1>1, <1>2, <1>3 DEF r, NotIn, NoToolOf

LEMMA TwoApart ==
    ASSUME NEW q \in Seq(Tool), NEW r \in Seq(Tool)
    PROVE  /\ q \o r \in Seq(Tool)
           /\ \A i \in DOMAIN (q \o r) :
                  \/ \E j \in DOMAIN q : (q \o r)[i] = q[j]
                  \/ \E j \in DOMAIN r : (q \o r)[i] = r[j]
           /\ Distinct(q) /\ Distinct(r) /\ Apart(q, r) => Distinct(q \o r)
<1>1. /\ q \o r \in Seq(Tool)
      /\ DOMAIN (q \o r) = 1..(Len(q) + Len(r)) /\ DOMAIN q = 1..Len(q) /\ DOMAIN r = 1..Len(r)
      /\ Len(q) \in Nat /\ Len(r) \in Nat
      /\ \A i \in 1..(Len(q) + Len(r)) : (q \o r)[i] = IF i <= Len(q) THEN q[i] ELSE r[i - Len(q)]
    OBVIOUS
<1> DEFINE p == q \o r
<1>2. \A i \in DOMAIN p :
          \/ i \in DOMAIN q /\ p[i] = q[i]
          \/ i > Len(q) /\ i \in Nat /\ i - Len(q) \in DOMAIN r /\ p[i] = r[i - Len(q)]
    <2>1. ASSUME NEW i \in DOMAIN p, i <= Len(q) PROVE i \in DOMAIN q /\ p[i] = q[i]
        BY <1>1, <2>1
    <2>2. ASSUME NEW i \in DOMAIN p, ~(i <= Len(q))
          PROVE  i > Len(q) /\ i \in Nat /\ i - Len(q) \in DOMAIN r /\ p[i] = r[i - Len(q)]
        BY <1>1, <2>2
    <2>3. QED
        BY <2>1, <2>2
<1> HIDE DEF p
<1>3. ASSUME Distinct(q), Distinct(r), Apart(q, r), NEW i \in DOMAIN p, NEW j \in DOMAIN p, p[i] = p[j]
      PROVE  i = j
    <2>1. CASE i \in DOMAIN q /\ p[i] = q[i] /\ j \in DOMAIN q /\ p[j] = q[j]
        BY <1>3, <2>1 DEF Distinct
    <2>2. CASE /\ i \in Nat /\ i - Len(q) \in DOMAIN r /\ p[i] = r[i - Len(q)]
               /\ j \in Nat /\ j - Len(q) \in DOMAIN r /\ p[j] = r[j - Len(q)]
        <3>1. i - Len(q) = j - Len(q)
            BY <1>3, <2>2 DEF Distinct
        <3>2. QED
            BY <1>1, <2>2, <3>1
    <2>3. CASE i \in DOMAIN q /\ p[i] = q[i] /\ j - Len(q) \in DOMAIN r /\ p[j] = r[j - Len(q)]
        BY <1>3, <2>3 DEF Apart, NotIn
    <2>4. CASE j \in DOMAIN q /\ p[j] = q[j] /\ i - Len(q) \in DOMAIN r /\ p[i] = r[i - Len(q)]
        BY <1>3, <2>4 DEF Apart, NotIn
    <2>5. QED
        BY <1>2, <2>1, <2>2, <2>3, <2>4
<1>4. Distinct(q) /\ Distinct(r) /\ Apart(q, r) => Distinct(p)
    BY <1>3 DEF Distinct
<1>5. QED
    BY <1>1, <1>2, <1>4 DEF p

(* The rest of a sequence of distinct members has distinct members, all    *)
(* others than the first.                                                  *)
LEMMA RestDistinct ==
    ASSUME NEW S, NEW q \in Seq(S), q # << >>, Distinct(q)
    PROVE  /\ Distinct(Tail(q))
           /\ \A k \in DOMAIN Tail(q) : \E j \in DOMAIN q : Tail(q)[k] = q[j] /\ q[j] # Head(q)
           /\ 1 \in DOMAIN q /\ q[1] = Head(q)
<1>1. /\ DOMAIN q = 1..Len(q) /\ Len(q) \in Nat \ {0} /\ Head(q) = q[1]
      /\ DOMAIN Tail(q) = 1..(Len(q) - 1) /\ \A k \in 1..(Len(q) - 1) : Tail(q)[k] = q[k + 1]
    OBVIOUS
<1> DEFINE r == Tail(q)
<1>2. /\ \A k \in DOMAIN r : k \in Nat /\ k + 1 \in DOMAIN q /\ k + 1 # 1 /\ r[k] = q[k + 1]
      /\ 1 \in DOMAIN q
    BY <1>1
<1> HIDE DEF r
<1>3. Distinct(r)
    <2>1. ASSUME NEW i \in DOMAIN r, NEW j \in DOMAIN r, r[i] = r[j] PROVE i = j
        <3>1. i + 1 = j + 1
            BY <1>2, <2>1 DEF Distinct
        <3>2. QED
            BY <1>2, <3>1
    <2>2. QED
        BY <2>1 DEF Distinct
<1>4. \A k \in DOMAIN r : \E j \in DOMAIN q : r[k] = q[j] /\ q[j] # Head(q)
    BY <1>1, <1>2 DEF Distinct
<1>5. QED
    BY <1>1, <1>2, <1>3, <1>4 DEF r

LEMMA MakeBuiltinKeepsOnce ==
    ASSUME Kept, MakeBuiltin
    PROVE  Once'
<1> DEFINE new == Builtin(Head(left))
<1>0. /\ registry \in Seq(Tool) /\ destroyed \in Seq(Tool)
      /\ left \in Seq(Names) /\ left # << >> /\ Distinct(left) /\ stage = "builtin"
      /\ Distinct(registry) /\ Distinct(destroyed) /\ Apart(registry, destroyed)
      /\ \A i \in DOMAIN registry : registry[i].server = "none"
      /\ \A i \in DOMAIN destroyed : destroyed[i].server = "none"
      /\ \A k \in DOMAIN left : NotIn(Builtin(left[k]), registry) /\ NotIn(Builtin(left[k]), destroyed)
    BY DEF Kept, Connected, Typed, BuildTyped, Once, MakeBuiltin
<1>1. /\ Distinct(Tail(left))
      /\ \A k \in DOMAIN Tail(left) : \E j \in DOMAIN left : Tail(left)[k] = left[j] /\ left[j] # Head(left)
      /\ 1 \in DOMAIN left /\ left[1] = Head(left)
    BY <1>0, RestDistinct
<1>2. new \in Tool /\ NotIn(new, registry) /\ NotIn(new, destroyed) /\ new.server = "none"
    BY <1>0, <1>1 DEF Builtin, Tool
<1>3. \A k \in DOMAIN Tail(left) :
          /\ NotIn(Builtin(Tail(left)[k]), registry) /\ NotIn(Builtin(Tail(left)[k]), destroyed)
          /\ Builtin(Tail(left)[k]) # new
    <2>1. \A m, n : Builtin(m) = Builtin(n) => m = n
        BY DEF Builtin
    <2>2. QED
        BY <1>0, <1>1, <2>1
<1>4. \/ /\ registry' = Append(registry, new) /\ destroyed' = destroyed
         /\ stage' = "builtin" /\ left' = Tail(left)
      \/ /\ destroyed' = Append(destroyed, new) /\ registry' = registry /\ stage' = "undo"
    BY DEF MakeBuiltin, AddOrDestroy, Add, BuildFails
<1> HIDE DEF new
<1>5. CASE /\ registry' = Append(registry, new) /\ destroyed' = destroyed
           /\ stage' = "builtin" /\ left' = Tail(left)
    <2> PICK q : q = Append(registry, new)
        OBVIOUS
    <2> PICK r : r = Tail(left)
        OBVIOUS
    <2>1. /\ Distinct(q)
          /\ \A other : NotIn(other, registry) /\ other # new => NotIn(other, q)
          /\ \A i \in DOMAIN q : q[i] = new \/ \E j \in DOMAIN registry : q[i] = registry[j]
        BY <1>0, <1>2, OneMoreApart
    <2>2. Apart(q, destroyed) /\ \A i \in DOMAIN q : q[i].server = "none"
        BY <1>0, <1>2, <2>1 DEF Apart
    <2>3. \A k \in DOMAIN r : NotIn(Builtin(r[k]), q) /\ NotIn(Builtin(r[k]), destroyed)
        BY <1>3, <2>1
    <2>4. Distinct(r)
        BY <1>1
    <2>5. registry' = q /\ destroyed' = destroyed /\ stage' = "builtin" /\ left' = r
        BY <1>5
    <2>6. QED
        BY <1>0, <2>1, <2>2, <2>3, <2>4, <2>5 DEF Once
<1>6. CASE destroyed' = Append(destroyed, new) /\ registry' = registry /\ stage' = "undo"
    <2> PICK q : q = Append(destroyed, new)
        OBVIOUS
    <2>1. /\ q \in Seq(Tool) /\ Distinct(q)
          /\ \A other : NotIn(other, destroyed) /\ other # new => NotIn(other, q)
        BY <1>0, <1>2, OneMoreApart
    <2>2. Apart(registry, q)
        BY <1>0, <1>2, <2>1 DEF Apart, NotIn
    <2>3. destroyed' = q /\ registry' = registry /\ stage' = "undo"
        BY <1>6
    <2>4. QED
        BY <1>0, <2>1, <2>2, <2>3 DEF Once
<1>7. QED
    BY <1>4, <1>5, <1>6

(* The orders in which the servers are configured *)
LEMMA OrdersDistinct == ASSUME NEW q \in ServerOrders PROVE Distinct(q)
    BY DEF ServerOrders, SetToSeqs, Distinct

LEMMA BuildKeeps ==
    ASSUME Kept, MakeBuiltin \/ BuiltinFails \/ LoadPlugins
    PROVE  Lives' /\ Once'
<1>1. stage = "builtin" /\ stage' \in {"builtin", "undo", "mcp"} /\ UNCHANGED <<server, caller>>
    BY DEF MakeBuiltin, BuiltinFails, LoadPlugins, BuildFails, mcpVars
<1>2. /\ registry \in Seq(Tool) /\ destroyed \in Seq(Tool) /\ left \in Seq(Names)
      /\ Distinct(left) /\ Distinct(registry) /\ Distinct(destroyed) /\ Apart(registry, destroyed)
      /\ \A i \in DOMAIN registry : registry[i].server = "none"
      /\ \A i \in DOMAIN destroyed : destroyed[i].server = "none"
      /\ \A k \in DOMAIN left : NotIn(Builtin(left[k]), registry) /\ NotIn(Builtin(left[k]), destroyed)
    BY <1>1 DEF Kept, Connected, Typed, BuildTyped, Once
<1>3. CASE MakeBuiltin
    <2>1. Once'
        BY <1>3, MakeBuiltinKeepsOnce
    <2>2. \A i \in DOMAIN registry' : registry'[i].server = "none"
        <3>1. Builtin(Head(left)) \in Tool /\ Builtin(Head(left)).server = "none"
            BY <1>2, <1>3 DEF MakeBuiltin, Builtin, Tool
        <3>2. registry' = registry \/ registry' = Append(registry, Builtin(Head(left)))
            BY <1>3 DEF MakeBuiltin, AddOrDestroy, Add
        <3>3. QED
            <4> PICK tool : tool = Builtin(Head(left))
                OBVIOUS
            <4> PICK q : q = Append(registry, tool)
                OBVIOUS
            <4>1. \A i \in DOMAIN q : q[i] = tool \/ \E j \in DOMAIN registry : q[i] = registry[j]
                BY <1>2, <3>1, OneMoreApart
            <4>2. \A i \in DOMAIN q : q[i].server = "none"
                BY <1>2, <3>1, <4>1
            <4>3. registry' = registry \/ registry' = q
                BY <3>2
            <4>4. QED
                BY <1>2, <4>2, <4>3
    <2>3. Lives'
        BY <1>1, <2>2 DEF Kept, Lives, Alive
    <2>4. QED
        BY <2>1, <2>3
<1>4. CASE BuiltinFails
    <2>1. registry' = registry /\ destroyed' = destroyed
          /\ (stage' = "undo" \/ (stage' = "builtin" /\ left' = Tail(left) /\ left # << >>))
        BY <1>4 DEF BuiltinFails, BuildFails
    <2>2. Lives'
        BY <1>1, <2>1 DEF Kept, Lives, Alive
    <2>3. CASE stage' = "undo"
        BY <1>2, <2>1, <2>2, <2>3 DEF Once
    <2>4. CASE stage' = "builtin" /\ left' = Tail(left) /\ left # << >>
        <3>1. /\ Distinct(Tail(left))
              /\ \A k \in DOMAIN Tail(left) : \E j \in DOMAIN left : Tail(left)[k] = left[j]
            BY <1>2, <2>4, RestDistinct
        <3> PICK r : r = Tail(left)
            OBVIOUS
        <3>2. Distinct(r) /\ \A k \in DOMAIN r : NotIn(Builtin(r[k]), registry) /\ NotIn(Builtin(r[k]), destroyed)
            BY <1>2, <3>1
        <3>3. left' = r /\ stage' = "builtin"
            BY <2>4
        <3>4. QED
            BY <1>2, <2>1, <2>2, <3>2, <3>3 DEF Once
    <2>5. QED
        BY <2>1, <2>2, <2>3, <2>4
<1>5. CASE LoadPlugins
    <2>1. registry' = registry /\ destroyed' = destroyed
          /\ (stage' = "undo" \/ (stage' = "mcp" /\ left' \in ServerOrders))
        BY <1>5 DEF LoadPlugins, BuildFails
    <2>2. Lives'
        BY <1>1, <2>1 DEF Kept, Lives, Alive
    <2>3. CASE stage' = "undo"
        BY <1>2, <2>1, <2>2, <2>3 DEF Once
    <2>4. CASE stage' = "mcp" /\ left' \in ServerOrders
        <3> PICK r \in ServerOrders : r = left'
            BY <2>4
        <3>1. Distinct(r) /\ r \in Seq(Servers) /\ "none" \notin Servers
            BY Orders, OrdersDistinct, RegistryAssumption DEF RegistryAssumption
        <3>2. \A k \in DOMAIN r : NoToolOf(r[k], registry) /\ NoToolOf(r[k], destroyed)
            BY <1>2, <3>1 DEF NoToolOf
        <3>3. left' = r /\ stage' = "mcp"
            BY <2>4
        <3>4. QED
            BY <1>2, <2>1, <2>2, <3>1, <3>2, <3>3 DEF Once
    <2>5. QED
        BY <2>1, <2>2, <2>3, <2>4
<1>6. QED
    BY <1>3, <1>4, <1>5

(* While the servers are connected *)
LEMMA RestOfServers ==
    ASSUME Kept, stage = "mcp", left # << >>
    PROVE  /\ Distinct(Tail(left)) /\ Head(left) \in Servers
           /\ NoToolOf(Head(left), registry) /\ NoToolOf(Head(left), destroyed)
           /\ \A k \in DOMAIN Tail(left) :
                 /\ NoToolOf(Tail(left)[k], registry) /\ NoToolOf(Tail(left)[k], destroyed)
                 /\ Tail(left)[k] # Head(left)
<1>1. /\ left \in Seq(Servers) /\ Distinct(left)
      /\ \A k \in DOMAIN left : NoToolOf(left[k], registry) /\ NoToolOf(left[k], destroyed)
    BY DEF Kept, Connected, Typed, BuildTyped, Once
<1>2. /\ Distinct(Tail(left))
      /\ \A k \in DOMAIN Tail(left) : \E j \in DOMAIN left : Tail(left)[k] = left[j] /\ left[j] # Head(left)
      /\ 1 \in DOMAIN left /\ left[1] = Head(left) /\ Head(left) \in Servers
    BY <1>1, RestDistinct
<1>3. QED
    BY <1>1, <1>2

LEMMA SkipKeepsOnce ==
    ASSUME Kept, stage = "mcp", left # << >>, left' = Tail(left), UNCHANGED <<registry, destroyed, stage>>
    PROVE  Once'
<1> PICK r : r = Tail(left)
    OBVIOUS
<1>1. Distinct(r) /\ \A k \in DOMAIN r : NoToolOf(r[k], registry) /\ NoToolOf(r[k], destroyed)
    BY RestOfServers
<1>2. QED
    BY <1>1 DEF Kept, Once

LEMMA ConnectingKeeps ==
    ASSUME Kept, ServerUnavailable \/ Connect \/ InitializeOver
    PROVE  Lives' /\ Once'
<1>0. Loader \in Callers /\ "none" \notin Servers
    BY RegistryAssumption DEF RegistryAssumption
<1>1. stage = "mcp" /\ left # << >> /\ \A d \in Callers \ {Loader} : caller[d] = Idle
    BY <1>0, InHand DEF Kept, Connected, LoaderAlone, ServerUnavailable, Connect, InitializeOver, At, Idle
<1>2. registry' = registry /\ destroyed' = destroyed /\ stage' = stage /\ frozen' = frozen
    BY DEF InitializeOver, ServerUnavailable, Connect, NextServer, regVars
<1>3. /\ Head(left) \in Servers /\ NoToolOf(Head(left), registry)
      /\ server \in [Servers -> ServerRecord] /\ CallersTyped
      /\ registry \in Seq(Tool)
    BY <1>1, RestOfServers DEF Kept, Connected, Typed, ServersTyped, BuildTyped
<1>4. \A i \in DOMAIN registry : registry[i].server # "none" =>
          registry[i].server \in Servers \ {Head(left)} /\ server[registry[i].server].life = "alive"
    <2>1. \A i \in DOMAIN registry : registry[i] \in Tool
        BY <1>3
    <2>2. QED
        BY <1>3, <2>1 DEF Tool, NoToolOf, Kept, Lives, Alive
<1>5. CASE ServerUnavailable
    <2>1. left' = Tail(left) /\ UNCHANGED <<server, caller>>
        BY <1>5 DEF ServerUnavailable, NextServer, mcpVars
    <2>2. QED
        BY <1>1, <1>2, <2>1, SkipKeepsOnce DEF Kept, Lives, Alive
<1>6. CASE Connect
    <2> DEFINE r == Called(Head(left), "initialize", "list")
    <2>1. /\ r \in Caller /\ r.server = Head(left) /\ Go(Loader, r) /\ left' = left
          /\ server' = [server EXCEPT ![Head(left)].life = "alive"]
        BY <1>3, <1>6, CalledTyped DEF Methods, Thens, Called, Connect, regVars
    <2> HIDE DEF r
    <2>2. caller'[Loader] = r /\ \A d \in Callers \ {Loader} : caller'[d] = Idle
        BY <1>0, <1>1, <1>3, <2>1, OneCallerMoves
    <2>3. /\ server'[Head(left)].life = "alive"
          /\ \A s \in Servers \ {Head(left)} : server'[s] = server[s]
        BY <1>3, <2>1 DEF ServerRecord
    <2>4. Lives'
        BY <1>1, <1>2, <1>4, <2>1, <2>2, <2>3 DEF Kept, Lives, Alive
    <2>5. QED
        BY <1>2, <2>1, <2>4 DEF Kept, Once
<1>7. CASE InitializeOver
    <2>1. /\ caller[Loader] # Idle /\ caller[Loader].server = Head(left)
          /\ server[Head(left)].life = "alive"
        BY <1>0, <1>1, <1>7 DEF Kept, Connected, LoaderAlone, InitializeOver, At, Idle, Lives, Alive
    <2>2. CASE caller[Loader].ok
        <3> DEFINE r == Called(Head(left), "tools/list", "register")
        <3>1. r \in Caller /\ r.server = Head(left) /\ Go(Loader, r) /\ left' = left /\ server' = server
            BY <1>3, <1>7, <2>2, CalledTyped DEF Methods, Thens, Called, InitializeOver
        <3> HIDE DEF r
        <3>2. caller'[Loader] = r /\ \A d \in Callers \ {Loader} : caller'[d] = Idle
            BY <1>0, <1>1, <1>3, <3>1, OneCallerMoves
        <3>3. Lives'
            BY <1>1, <1>2, <2>1, <3>1, <3>2 DEF Kept, Lives, Alive
        <3>4. QED
            BY <1>2, <3>1, <3>3 DEF Kept, Once
    <2>3. CASE ~caller[Loader].ok
        <3>1. /\ server' = [server EXCEPT ![Head(left)].life = "destroyed"]
              /\ Go(Loader, Idle) /\ left' = Tail(left)
            BY <1>7, <2>3 DEF InitializeOver
        <3>2. Idle \in IdleCaller
            BY DEF IdleCaller
        <3>3. \A d \in Callers : caller'[d] = Idle
            BY <1>0, <1>1, <1>3, <3>1, <3>2, OneCallerMoves
        <3>4. \A s \in Servers \ {Head(left)} : server'[s] = server[s]
            BY <1>3, <3>1
        <3>5. Lives'
            BY <1>1, <1>2, <1>4, <3>3, <3>4 DEF Kept, Lives, Alive
        <3>6. QED
            BY <1>1, <1>2, <3>1, <3>5, SkipKeepsOnce
    <2>4. QED
        BY <2>2, <2>3
<1>8. QED
    BY <1>5, <1>6, <1>7

(* The tools of a list are new, and different from each other. *)
LEMMA ListKeepsOnce ==
    ASSUME Kept, ListOver
    PROVE  Lives' /\ Once'
<1>0. Loader \in Callers /\ "none" \notin Servers
    BY RegistryAssumption DEF RegistryAssumption
<1>1. /\ caller[Loader] # Idle /\ caller[Loader].then = "register"
      /\ stage' = stage /\ frozen' = frozen /\ left' = Tail(left) /\ Go(Loader, Idle)
    BY DEF ListOver, At, Idle, NextServer
<1>2. /\ stage = "mcp" /\ left # << >> /\ caller[Loader].server = Head(left)
      /\ \A d \in Callers \ {Loader} : caller[d] = Idle
    BY <1>0, <1>1 DEF Kept, Connected, LoaderAlone
<1> DEFINE s == caller[Loader].server
<1>3. s \in Servers /\ NoToolOf(s, registry) /\ NoToolOf(s, destroyed) /\ server[s].life = "alive"
    BY <1>0, <1>1, <1>2, RestOfServers DEF Kept, Lives, Alive
<1>4. /\ registry \in Seq(Tool) /\ destroyed \in Seq(Tool) /\ CallersTyped
      /\ Distinct(registry) /\ Distinct(destroyed) /\ Apart(registry, destroyed)
    BY DEF Kept, Connected, Typed, BuildTyped, Once
<1>5. \A d \in Callers : caller'[d] = Idle
    <2>1. Idle \in IdleCaller
        BY DEF IdleCaller
    <2>2. QED
        BY <1>0, <1>1, <1>2, <1>4, <2>1, OneCallerMoves
<1>6. CASE ~caller[Loader].ok
    <2>1. UNCHANGED <<registry, destroyed, server>>
        BY <1>6 DEF ListOver
    <2>2. Once'
        BY <1>1, <1>2, <2>1, SkipKeepsOnce
    <2>3. QED
        BY <1>1, <1>5, <2>1, <2>2 DEF Kept, Lives, Alive
<1>7. CASE caller[Loader].ok
    <2>1. PICK names \in SUBSET ListedTools : \E list \in SetToSeqs(names) : Register(s, list)
        BY <1>7 DEF ListOver
    <2>2. PICK list \in SetToSeqs(names) : Register(s, list)
        BY <2>1
    <2>3. Cardinality(names) \in Nat
        BY FS_CardinalityType, FS_Subset, RegistryAssumption DEF RegistryAssumption
    <2>4. list \in Seq(Names) /\ Len(list) \in Nat /\ \A i, j \in 1..Len(list) : list[i] = list[j] => i = j
        BY <2>3 DEF SetToSeqs, Names
    <2> DEFINE n == IF Len(registry) + Len(list) <= MaxTools THEN Len(list) ELSE MaxTools - Len(registry)
               taken == [i \in 1..n |-> McpTool(s, list[i])]
    <2>5. n \in Nat /\ n <= Len(list)
        BY <1>4, <2>4, RegistryAssumption DEF RegistryAssumption, Kept, Connected, Typed, BuildTyped
    <2>6. /\ registry' = registry \o taken /\ server' = server
          /\ \/ n < Len(list) /\ destroyed' = Append(destroyed, McpTool(s, list[n + 1]))
             \/ destroyed' = destroyed
        BY <2>2 DEF Register
    <2> HIDE DEF n
    <2>7. \A i \in 1..Len(list) : /\ McpTool(s, list[i]) \in Tool
                                  /\ McpTool(s, list[i]).server = s /\ McpTool(s, list[i]).name = list[i]
        BY <1>3, <2>4 DEF McpTool, Tool
    <2>8. /\ taken \in Seq(Tool) /\ DOMAIN taken = 1..n
          /\ \A i \in 1..n : taken[i] = McpTool(s, list[i]) /\ i \in 1..Len(list)
        BY <2>5, <2>7
    <2> HIDE DEF taken
    <2>9. Distinct(taken) /\ \A i \in DOMAIN taken : taken[i].server = s
        BY <2>4, <2>7, <2>8 DEF Distinct
    <2>10. Apart(registry, taken) /\ Apart(taken, destroyed)
        BY <1>3, <2>9 DEF Apart, NotIn, NoToolOf
    <2> PICK q : q = registry \o taken
        OBVIOUS
    <2>11. /\ q \in Seq(Tool) /\ Distinct(q)
           /\ \A i \in DOMAIN q : (\E j \in DOMAIN registry : q[i] = registry[j])
                                  \/ (\E j \in DOMAIN taken : q[i] = taken[j])
        <3>1. /\ registry \o taken \in Seq(Tool) /\ Distinct(registry \o taken)
              /\ \A i \in DOMAIN (registry \o taken) :
                     \/ \E j \in DOMAIN registry : (registry \o taken)[i] = registry[j]
                     \/ \E j \in DOMAIN taken : (registry \o taken)[i] = taken[j]
            BY <1>4, <2>8, <2>9, <2>10, TwoApart
        <3>2. QED
            BY <3>1
    <2>12. PICK r : /\ destroyed' = r /\ r \in Seq(Tool) /\ Distinct(r) /\ Apart(q, r)
                    /\ \A t : NoToolOf(t, destroyed) /\ t # s => NoToolOf(t, r)
        <3>1. Apart(q, destroyed)
            BY <1>4, <2>10, <2>11 DEF Apart
        <3>2. CASE destroyed' = destroyed
            BY <1>4, <3>1, <3>2
        <3>3. CASE n < Len(list) /\ destroyed' = Append(destroyed, McpTool(s, list[n + 1]))
            <4>1. n + 1 \in 1..Len(list) /\ \A i \in 1..n : i # n + 1
                BY <2>4, <2>5, <3>3
            <4> PICK tool : tool = McpTool(s, list[n + 1])
                OBVIOUS
            <4>2. tool \in Tool /\ tool.server = s /\ NotIn(tool, destroyed)
                BY <1>3, <2>7, <4>1 DEF NotIn, NoToolOf
            <4>3. \A i \in DOMAIN taken : taken[i] # tool
                BY <2>4, <2>7, <2>8, <4>1
            <4>4. \A i \in DOMAIN q : q[i] # tool
                BY <1>3, <2>11, <4>2, <4>3 DEF NoToolOf
            <4> PICK r : r = Append(destroyed, tool)
                OBVIOUS
            <4>5. /\ r \in Seq(Tool) /\ Distinct(r)
                  /\ \A other : NotIn(other, destroyed) /\ other # tool => NotIn(other, r)
                  /\ \A t : NoToolOf(t, destroyed) /\ tool.server # t => NoToolOf(t, r)
                BY <1>4, <4>2, OneMoreApart
            <4>6. Apart(q, r)
                BY <3>1, <4>4, <4>5 DEF Apart
            <4>7. destroyed' = r
                BY <3>3
            <4>8. QED
                BY <4>2, <4>5, <4>6, <4>7
        <3>4. QED
            BY <2>6, <3>2, <3>3
    <2>13. PICK rest : rest = Tail(left)
        OBVIOUS
    <2>14. /\ Distinct(rest)
           /\ \A k \in DOMAIN rest : NoToolOf(rest[k], registry) /\ NoToolOf(rest[k], destroyed) /\ rest[k] # s
        BY <1>2, <2>13, RestOfServers
    <2>15. \A k \in DOMAIN rest : NoToolOf(rest[k], q) /\ NoToolOf(rest[k], r)
        <3>1. ASSUME NEW t, NoToolOf(t, registry), t # s PROVE NoToolOf(t, q)
            BY <2>9, <2>11, <3>1 DEF NoToolOf
        <3>2. \A k \in DOMAIN rest : NoToolOf(rest[k], r)
            BY <2>12, <2>14
        <3>3. QED
            BY <2>14, <3>1, <3>2
    <2>16. registry' = q /\ left' = rest /\ server' = server
        BY <1>1, <2>6, <2>13
    <2>17. Once'
        BY <1>1, <1>2, <2>11, <2>12, <2>14, <2>15, <2>16 DEF Once
    <2>18. Lives'
        <3>1. \A i \in DOMAIN q : q[i].server # "none" => server[q[i].server].life = "alive"
            BY <1>3, <2>9, <2>11 DEF Kept, Lives, Alive
        <3>2. QED
            BY <1>1, <1>2, <1>5, <2>16, <3>1 DEF Lives, Alive
    <2>19. QED
        BY <2>17, <2>18
<1>8. QED
    BY <1>6, <1>7

LEMMA UseKeeps ==
    ASSUME Kept, NEW c \in Callers, CallTool(c) \/ ToolResult(c)
    PROVE  Lives' /\ Once'
<1>1. /\ stage' = stage /\ left' = left /\ registry' = registry /\ destroyed' = destroyed
      /\ frozen' = frozen /\ server' = server
    BY DEF CallTool, ToolResult, regVars
<1>2. Once'
    BY <1>1 DEF Kept, Once
<1>3. PICK r \in IdleCaller \cup Caller : Go(c, r) /\ (r # Idle => Alive(r.server))
    <2>1. CASE ToolResult(c)
        BY <2>1 DEF ToolResult, IdleCaller
    <2>2. CASE CallTool(c)
        <3>1. PICK i \in 1..Len(registry) :
                  LET tool == Find(registry[i].name) IN
                  tool.server # "none" /\ Go(c, Called(tool.server, "tools/call", "result"))
            BY <2>2 DEF CallTool
        <3>2. PICK k \in DOMAIN registry : Find(registry[i].name) = registry[k] /\ registry[k] \in Tool
            BY FindsTool DEF Kept, Connected
        <3> DEFINE s == registry[k].server
        <3>3. s # "none" /\ Go(c, Called(s, "tools/call", "result"))
            BY <3>1, <3>2
        <3>4. s \in Servers /\ Alive(s)
            BY <3>2, <3>3 DEF Tool, Kept, Lives
        <3> HIDE DEF s
        <3>5. Called(s, "tools/call", "result") \in Caller /\ Called(s, "tools/call", "result").server = s
            BY <3>4, CalledTyped DEF Methods, Thens, Called
        <3>6. QED
            BY <3>3, <3>4, <3>5
    <2>3. QED
        BY <2>1, <2>2
<1>4. caller'[c] = r /\ \A d \in Callers \ {c} : caller'[d] = caller[d]
    BY <1>3, OneCallerMoves DEF Kept, Connected, Typed
<1>5. Lives'
    BY <1>1, <1>3, <1>4 DEF Kept, Lives, Alive
<1>6. QED
    BY <1>2, <1>5

LEMMA EndKeeps ==
    ASSUME Kept, FreezeRegistry \/ Retire \/ DestroyRegistry \/ DestroyServers
    PROVE  Lives' /\ Once'
<1>1. /\ registry \in Seq(Tool) /\ destroyed \in Seq(Tool)
      /\ Distinct(registry) /\ Distinct(destroyed) /\ Apart(registry, destroyed)
    BY DEF Kept, Connected, Typed, BuildTyped, Once
<1>2. CASE FreezeRegistry
    BY <1>2 DEF FreezeRegistry, mcpVars, Kept, Lives, Once, Alive
<1>3. CASE Retire
    BY <1>3 DEF Retire, mcpVars, Kept, Lives, Once, Alive
<1>4. CASE DestroyRegistry
    <2>1. UNCHANGED <<server, caller>> /\ registry' = << >> /\ stage' = "servers"
          /\ destroyed' = destroyed \o registry
        BY <1>4 DEF DestroyRegistry, mcpVars
    <2> PICK q : q = destroyed \o registry
        OBVIOUS
    <2>2. Apart(destroyed, registry)
        BY <1>1 DEF Apart, NotIn
    <2>3. q \in Seq(Tool) /\ Distinct(q)
        BY <1>1, <2>2, TwoApart
    <2>4. destroyed' = q
        BY <2>1
    <2>5. Once'
        BY <2>1, <2>3, <2>4 DEF Once, Distinct, Apart
    <2>6. Lives'
        BY <2>1 DEF Kept, Lives, Alive
    <2>7. QED
        BY <2>5, <2>6
<1>5. CASE DestroyServers
    <2>1. /\ stage = "servers" /\ stage' = "gone" /\ registry' = registry /\ destroyed' = destroyed
          /\ caller' = caller
          /\ \A s \in Servers : server'[s] = IF server[s].life = "alive"
                                            THEN [server[s] EXCEPT !.life = "destroyed"] ELSE server[s]
        BY <1>5 DEF DestroyServers
    <2>2. \A s \in Servers : server'[s].life # "alive"
        <3>1. \A s \in Servers : server[s] \in ServerRecord
            BY DEF Kept, Connected, Typed, ServersTyped
        <3>2. QED
            BY <2>1, <3>1 DEF ServerRecord
    <2>3. registry = << >> /\ \A c \in Callers : caller[c] = Idle
        BY <2>1 DEF Kept, Lives, Connected, LoaderAlone
    <2>4. Lives'
        BY <2>1, <2>2, <2>3 DEF Lives, Alive
    <2>5. Once'
        BY <2>1 DEF Kept, Once
    <2>6. QED
        BY <2>4, <2>5
<1>6. QED
    BY <1>2, <1>3, <1>4, <1>5

LEMMA StepKept == Kept /\ [Next]_vars => Kept'
<1> SUFFICES ASSUME Kept, [Next]_vars PROVE Kept'
    OBVIOUS
<1>1. Connected'
    BY StepConnected DEF Kept
<1>2. Lives' /\ Once'
    <2>1. CASE MakeBuiltin \/ BuiltinFails \/ LoadPlugins
        BY <2>1, BuildKeeps
    <2>2. CASE ServerUnavailable \/ Connect \/ InitializeOver
        BY <2>2, ConnectingKeeps
    <2>3. CASE ListOver
        BY <2>3, ListKeepsOnce
    <2>4. CASE \E c \in Callers : CallTool(c) \/ ToolResult(c)
        BY <2>4, UseKeeps
    <2>5. CASE FreezeRegistry \/ Retire \/ DestroyRegistry \/ DestroyServers
        BY <2>5, EndKeeps
    <2>6. CASE McpNext /\ UNCHANGED regVars
        BY <2>6, CallsKeep
    <2>7. CASE UNCHANGED vars
        BY <2>7 DEF vars, mcpVars, regVars, Kept, Lives, Once, Alive
    <2>8. QED
        BY <2>1, <2>2, <2>3, <2>4, <2>5, <2>6, <2>7 DEF Next
<1>3. QED
    BY <1>1, <1>2 DEF Kept

(* Every tool that was made is in the registry or was destroyed. *)
Accounted == made = Range(registry) \cup Range(destroyed)

LEMMA RangeGrows ==
    ASSUME NEW S, NEW q \in Seq(S), NEW r \in Seq(S), NEW x \in S
    PROVE  Range(Append(q, x)) = Range(q) \cup {x} /\ Range(q \o r) = Range(q) \cup Range(r)
<1>1. Range(Append(q, x)) = Range(q) \cup {x}
    <2> DEFINE p == Append(q, x)
    <2>1. /\ DOMAIN p = 1..(Len(q) + 1) /\ DOMAIN q = 1..Len(q) /\ Len(q) \in Nat
          /\ \A i \in 1..Len(q) : p[i] = q[i]
          /\ p[Len(q) + 1] = x
        OBVIOUS
    <2> HIDE DEF p
    <2>2. \A i \in DOMAIN p : (i \in DOMAIN q /\ p[i] = q[i]) \/ p[i] = x
        BY <2>1
    <2>3. (\A i \in DOMAIN q : i \in DOMAIN p /\ p[i] = q[i]) /\ \E i \in DOMAIN p : p[i] = x
        BY <2>1
    <2>4. Range(p) = Range(q) \cup {x}
        BY <2>2, <2>3 DEF Range
    <2>5. QED
        BY <2>4 DEF p
<1>2. Range(q \o r) = Range(q) \cup Range(r)
    <2> DEFINE p == q \o r
    <2>1. /\ DOMAIN p = 1..(Len(q) + Len(r)) /\ DOMAIN q = 1..Len(q) /\ DOMAIN r = 1..Len(r)
          /\ Len(q) \in Nat /\ Len(r) \in Nat
          /\ \A i \in 1..(Len(q) + Len(r)) : p[i] = IF i <= Len(q) THEN q[i] ELSE r[i - Len(q)]
        OBVIOUS
    <2> HIDE DEF p
    <2>2. ASSUME NEW i \in DOMAIN p
          PROVE  (i \in DOMAIN q /\ p[i] = q[i]) \/ \E j \in DOMAIN r : p[i] = r[j]
        <3>1. CASE i <= Len(q)
            BY <2>1, <3>1
        <3>2. CASE ~(i <= Len(q))
            <4>1. i - Len(q) \in DOMAIN r /\ p[i] = r[i - Len(q)]
                BY <2>1, <3>2
            <4>2. QED
                BY <4>1
        <3>3. QED
            BY <3>1, <3>2
    <2>3. \A i \in DOMAIN q : i \in DOMAIN p /\ p[i] = q[i]
        BY <2>1
    <2>4. ASSUME NEW j \in DOMAIN r PROVE \E i \in DOMAIN p : p[i] = r[j]
        <3>1. j + Len(q) \in DOMAIN p /\ p[j + Len(q)] = r[j]
            BY <2>1
        <3>2. QED
            BY <3>1
    <2>5. Range(p) = Range(q) \cup Range(r)
        BY <2>2, <2>3, <2>4 DEF Range
    <2>6. QED
        BY <2>5 DEF p
<1>3. QED
    BY <1>1, <1>2

LEMMA RegisterAccounts ==
    ASSUME Kept, Accounted, NEW s \in Servers, NEW list \in Seq(Names), Register(s, list)
    PROVE  Accounted'
<1> DEFINE n == IF Len(registry) + Len(list) <= MaxTools THEN Len(list) ELSE MaxTools - Len(registry)
           taken == [i \in 1..n |-> McpTool(s, list[i])]
<1>1. registry \in Seq(Tool) /\ Len(registry) <= MaxTools /\ destroyed \in Seq(Tool)
    BY DEF Kept, Connected, Typed, BuildTyped, Once
<1>2. n \in Nat /\ n <= Len(list) /\ Len(list) \in Nat
    BY <1>1, RegistryAssumption DEF RegistryAssumption
<1>3. \A i \in 1..Len(list) : McpTool(s, list[i]) \in Tool
    BY DEF McpTool, Tool
<1>4. /\ registry' = registry \o taken
      /\ \/ /\ n < Len(list)
            /\ made' = made \cup Range(taken) \cup {McpTool(s, list[n + 1])}
            /\ destroyed' = Append(destroyed, McpTool(s, list[n + 1]))
         \/ made' = made \cup Range(taken) /\ destroyed' = destroyed
    BY DEF Register
<1> HIDE DEF n
<1>5. taken \in Seq(Tool)
    BY <1>2, <1>3
<1> HIDE DEF taken
<1>6. Range(registry') = Range(registry) \cup Range(taken)
    BY <1>1, <1>4, <1>5, RangeGrows DEF Tool
<1>7. CASE /\ n < Len(list)
           /\ made' = made \cup Range(taken) \cup {McpTool(s, list[n + 1])}
           /\ destroyed' = Append(destroyed, McpTool(s, list[n + 1]))
    <2> PICK tool : tool = McpTool(s, list[n + 1])
        OBVIOUS
    <2>1. tool \in Tool
        BY <1>2, <1>3, <1>7
    <2>2. Range(Append(destroyed, tool)) = Range(destroyed) \cup {tool}
        BY <1>1, <2>1, RangeGrows
    <2>3. destroyed' = Append(destroyed, tool) /\ made' = made \cup Range(taken) \cup {tool}
        BY <1>7
    <2>4. Range(destroyed') = Range(destroyed) \cup {tool}
        BY <2>2, <2>3
    <2>5. QED
        BY <1>6, <2>3, <2>4, Zenon DEF Accounted
<1>8. CASE made' = made \cup Range(taken) /\ destroyed' = destroyed
    BY <1>6, <1>8, Zenon DEF Accounted
<1>9. QED
    BY <1>4, <1>7, <1>8

LEMMA StepAccounts == Kept /\ Accounted /\ [Next]_vars => Accounted'
<1> SUFFICES ASSUME Kept, Accounted, [Next]_vars PROVE Accounted'
    OBVIOUS
<1>1. registry \in Seq(Tool) /\ destroyed \in Seq(Tool)
    BY DEF Kept, Connected, Typed, BuildTyped, Once
<1>2. CASE UNCHANGED <<registry, made, destroyed>>
    BY <1>2 DEF Accounted
<1>3. CASE MakeBuiltin
    <2> PICK tool : tool = Builtin(Head(left))
        OBVIOUS
    <2>1. tool \in Tool
        BY <1>3 DEF MakeBuiltin, Kept, Connected, Typed, BuildTyped, Builtin, Tool
    <2>2. /\ made' = made \cup {tool}
          /\ \/ registry' = Append(registry, tool) /\ destroyed' = destroyed
             \/ registry' = registry /\ destroyed' = Append(destroyed, tool)
        BY <1>3 DEF MakeBuiltin, AddOrDestroy, Add
    <2>3. /\ Range(Append(registry, tool)) = Range(registry) \cup {tool}
          /\ Range(Append(destroyed, tool)) = Range(destroyed) \cup {tool}
        BY <1>1, <2>1, RangeGrows
    <2>4. CASE registry' = Append(registry, tool) /\ destroyed' = destroyed
        <3>1. Range(registry') = Range(registry) \cup {tool}
            BY <2>3, <2>4
        <3>2. QED
            BY <2>2, <2>4, <3>1, Zenon DEF Accounted
    <2>5. CASE registry' = registry /\ destroyed' = Append(destroyed, tool)
        <3>1. Range(destroyed') = Range(destroyed) \cup {tool}
            BY <2>3, <2>5
        <3>2. QED
            BY <2>2, <2>5, <3>1, Zenon DEF Accounted
    <2>6. QED
        BY <2>2, <2>4, <2>5
<1>4. CASE ListOver
    <2>1. CASE ~caller[Loader].ok
        BY <1>2, <1>4, <2>1 DEF ListOver
    <2>2. CASE caller[Loader].ok
        <3>1. PICK names \in SUBSET ListedTools :
                  \E list \in SetToSeqs(names) : Register(caller[Loader].server, list)
            BY <1>4, <2>2 DEF ListOver
        <3>2. PICK list \in SetToSeqs(names) : Register(caller[Loader].server, list)
            BY <3>1
        <3>3. Cardinality(names) \in Nat
            BY FS_CardinalityType, FS_Subset, RegistryAssumption DEF RegistryAssumption
        <3>4. list \in Seq(Names)
            BY <3>3 DEF SetToSeqs, Names
        <3>5. caller[Loader].server \in Servers
            BY <1>4, InHand, RegistryAssumption DEF RegistryAssumption, ListOver, At, Idle, Kept, Connected
        <3>6. QED
            BY <3>2, <3>4, <3>5, RegisterAccounts
    <2>3. QED
        BY <2>1, <2>2
<1>5. CASE DestroyRegistry
    <2>1. destroyed' = destroyed \o registry /\ registry' = << >> /\ made' = made
        BY <1>5 DEF DestroyRegistry
    <2>2. Range(destroyed \o registry) = Range(destroyed) \cup Range(registry)
        <3>1. CASE registry = << >>
            <4>1. destroyed \o registry = destroyed /\ Range(registry) = {}
                BY <1>1, <3>1 DEF Range
            <4>2. QED
                BY <4>1
        <3>2. CASE registry # << >>
            <4>1. registry[1] \in Tool
                BY <1>1, <3>2
            <4>2. QED
                BY <1>1, <4>1, RangeGrows
        <3>3. QED
            BY <3>1, <3>2
    <2>3. Range(<< >>) = {}
        BY DEF Range
    <2>4. Range(destroyed') = Range(destroyed) \cup Range(registry) /\ Range(registry') = {}
        BY <2>1, <2>2, <2>3
    <2>5. QED
        BY <2>1, <2>4, Zenon DEF Accounted
<1>6. QED
    <2>1. ASSUME ~(MakeBuiltin \/ ListOver \/ DestroyRegistry) PROVE UNCHANGED <<registry, made, destroyed>>
        BY <2>1 DEF Next, BuiltinFails, LoadPlugins, ServerUnavailable, Connect, InitializeOver,
                    FreezeRegistry, CallTool, ToolResult, Retire, DestroyServers, vars, regVars
    <2>2. QED
        BY <1>2, <1>3, <1>4, <1>5, <2>1

(* No tool in the registry calls a server that is gone, whatever fails and  *)
(* whoever still calls; every tool that was made is in the registry or was  *)
(* destroyed, and that once, so that none is left when all is gone          *)
(* (register_created_tool, register_mcp_tool, list_server_tools,            *)
(* server_runtime_destroy, destroy_tool_build_state), for every number of   *)
(* servers, threads and tools.                                              *)
THEOREM ToolsEndBeforeServers == Spec => []NoToolOutlivesItsServer
<1>1. Init => Kept /\ Accounted
    <2>1. Init => Accounted
        BY DEF Init, Accounted, Range
    <2>2. QED
        BY <2>1, InitKept
<1>2. Kept /\ Accounted /\ [Next]_vars => (Kept /\ Accounted)'
    BY StepKept, StepAccounts
<1>3. Kept /\ Accounted => NoToolOutlivesItsServer
    <2> SUFFICES ASSUME Kept, Accounted PROVE NoToolOutlivesItsServer
        OBVIOUS
    <2>1. registry \in Seq(Tool) /\ Len(registry) <= MaxTools
        BY DEF Kept, Connected, Typed, BuildTyped
    <2>2. \A i \in 1..Len(registry) :
              registry[i].server # "none" => server[registry[i].server].life = "alive"
        BY <2>1 DEF Kept, Lives, Alive
    <2>3. \A c \in Callers : ~At(c, "idle") => server[caller[c].server].life = "alive"
        BY DEF Kept, Lives, Alive, At, Idle
    <2>4. IsInjective(registry \o destroyed)
        <3>1. destroyed \in Seq(Tool) /\ Distinct(registry) /\ Distinct(destroyed) /\ Apart(registry, destroyed)
            BY DEF Kept, Once
        <3>2. Distinct(registry \o destroyed)
            BY <2>1, <3>1, TwoApart
        <3>3. QED
            BY <3>2 DEF Distinct, IsInjective
    <2>5. stage = "gone" => registry = << >> /\ \A s \in Servers : server[s].life # "alive"
        BY DEF Kept, Lives, Alive
    <2>6. stage = "published" => frozen
        BY DEF Kept, Lives
    <2>7. QED
        BY <2>1, <2>2, <2>3, <2>4, <2>5, <2>6 DEF Accounted, NoToolOutlivesItsServer
<1>4. QED
    BY <1>1, <1>2, <1>3, PTL DEF Spec
===============================================================================
