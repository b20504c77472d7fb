---------------------------- MODULE ToolExecutor ----------------------------
(***************************************************************************)
(* One tool call after another, on several threads: the tool executor      *)
(* (core/src/app/cc_tool_executor.c), the pool of lanes that limits it     *)
(* (cc_tool_executor_pool.c) and the cancel token it reads                 *)
(* (cc_cancel_token.c).                                                    *)
(*                                                                         *)
(* The pool has one mutex and one condition variable; a critical section   *)
(* is one action.  A waiter sleeps for at most 50 ms and looks again, so   *)
(* it never depends on being woken: Wake stands for every return of the    *)
(* wait that finds something to do.  A token and a deadline change at any  *)
(* time, behind the executor's back.                                       *)
(*                                                                         *)
(* An operator named ...Mutant is the definition below it with a plausible *)
(* bug in it; nothing uses it, it shows which property would catch the bug.*)
(*                                                                         *)
(* Left out: the content of arguments, schemas and results (each check is  *)
(* a choice of its outcome), events, per-lane statistics, exhaustion of    *)
(* memory, destruction of the pool (its owner has no call left then).      *)
(***************************************************************************)
EXTENDS Integers, FiniteSets

CONSTANTS
    Callers,             \* threads that execute tool calls
    MaxCalls,            \* bound: number of calls made in a behaviour
    Tools,               \* tool names, split at their dots: see LaneOf
    Registered,          \* the tools the registry knows
    UsePool,             \* the runtime has a tool pool
    Policies,            \* configured concurrency of some lanes
    DefaultConcurrency,  \* configured concurrency of all others
    HungTools            \* tools that may never return

(* A limit below one would close a lane for ever. *)
Normalized(value) == IF value <= 0 THEN 1 ELSE value

LaneOfMutant(tool) ==
    IF tool.space = "builtin" THEN <<"tool", tool.name>> ELSE <<tool.space>>

(* Tools of one MCP server or plugin share a lane; any other has its own. *)
LaneOf(tool) ==
    IF tool.space = "builtin" THEN <<"tool", tool.name>>
                              ELSE <<tool.space, tool.server>>

LaneNames == {LaneOf(tool) : tool \in Tools}

ASSUME CallersAssumption == IsFiniteSet(Callers)

ASSUME ToolAssumption ==
    /\ \A tool \in Tools : /\ tool.space \in {"builtin", "mcp", "plugin"}
                           /\ tool.space # "builtin" => "server" \in DOMAIN tool
    /\ Registered \subseteq Tools
    /\ HungTools \subseteq Tools

ASSUME PoolAssumption ==
    /\ MaxCalls \in Nat
    /\ UsePool \in BOOLEAN
    /\ DefaultConcurrency \in Int
    /\ DOMAIN Policies \subseteq LaneNames
    /\ \A l \in DOMAIN Policies : Policies[l] \in Int

VARIABLES
    lanes,      \* the pool's lanes, created on first use
    acquired, released, cancelledWaits,   \* counters of the pool
    pc,         \* where each thread is in its call
    tool,       \* the tool it calls
    expired,    \* its deadline has passed
    cancelledAt,\* where it was when its token was cancelled, or "never"
    result,     \* what its last call returned
    calls       \* calls made so far

pool == <<lanes, acquired, released, cancelledWaits>>
vars == <<pool, pc, tool, expired, cancelledAt, result, calls>>

NoTool == [space |-> "none"]   \* of a thread that is in no call

Places == {"idle", "lookup", "policy", "approval", "acquire", "lock", "wait", "tool"}
Results == {"none", "ok", "error", "cancelled", "timeout"}

Cancelled(c) == cancelledAt[c] # "never"
MyLane(c) == LaneOf(tool[c])

NewLane(concurrency) ==
    [concurrency |-> Normalized(concurrency), in_flight |-> 0, waiting |-> 0]

Init ==
    /\ lanes = [l \in DOMAIN Policies |-> NewLane(Policies[l])]
    /\ acquired = 0 /\ released = 0 /\ cancelledWaits = 0
    /\ pc = [c \in Callers |-> "idle"]
    /\ tool = [c \in Callers |-> NoTool]
    /\ expired = [c \in Callers |-> FALSE]
    /\ cancelledAt = [c \in Callers |-> "never"]
    /\ result = [c \in Callers |-> "none"]
    /\ calls = 0

-----------------------------------------------------------------------------
(* The pool.  Lanes are never removed: a ticket keeps its meaning. *)

WithLane(l) ==
    IF l \in DOMAIN lanes THEN lanes
    ELSE [k \in DOMAIN lanes \cup {l} |->
            IF k = l THEN NewLane(DefaultConcurrency) ELSE lanes[k]]

LaneFullMutant(lane) == lane.in_flight > lane.concurrency

LaneFull(lane) == lane.in_flight >= lane.concurrency

Decrement(count) == IF count > 0 THEN count - 1 ELSE count

Admit(known, l) ==
    /\ lanes' = [known EXCEPT ![l].in_flight = @ + 1]
    /\ acquired' = acquired + 1
    /\ UNCHANGED <<released, cancelledWaits>>

(* A wait that ends leaves the lane's count of waiters. *)
NoLongerWaiting(l) == [lanes EXCEPT ![l].waiting = Decrement(@)]

Release(l) ==
    /\ IF lanes[l].in_flight > 0
       THEN lanes' = [lanes EXCEPT ![l].in_flight = @ - 1] /\ released' = released + 1
       ELSE UNCHANGED <<lanes, released>>
    /\ UNCHANGED <<acquired, cancelledWaits>>

-----------------------------------------------------------------------------
(* A call. *)

Goto(c, place) ==
    /\ pc' = [pc EXCEPT ![c] = place]
    /\ UNCHANGED <<result, tool, expired, cancelledAt, calls>>

(* The token and the deadline are the call's: they go with it. *)
Return(c, code) ==
    /\ pc' = [pc EXCEPT ![c] = "idle"]
    /\ result' = [result EXCEPT ![c] = code]
    /\ tool' = [tool EXCEPT ![c] = NoTool]
    /\ expired' = [expired EXCEPT ![c] = FALSE]
    /\ cancelledAt' = [cancelledAt EXCEPT ![c] = "never"]
    /\ UNCHANGED calls

(* A call starts with the token and the deadline its run already has. *)
Execute(c, t, expiredAlready, cancelledAlready) ==
    /\ pc[c] = "idle" /\ calls < MaxCalls
    /\ calls' = calls + 1
    /\ tool' = [tool EXCEPT ![c] = t]
    /\ expired' = [expired EXCEPT ![c] = expiredAlready]
    /\ cancelledAt' = [cancelledAt EXCEPT ![c] = IF cancelledAlready THEN "idle" ELSE "never"]
    /\ pc' = [pc EXCEPT ![c] = "lookup"]
    /\ UNCHANGED <<pool, result>>

(* Unknown tools and arguments the schema rejects are answers, not errors.  *)
(* Asking for the lane's timeout creates the lane.                          *)
Lookup(c) ==
    /\ pc[c] = "lookup"
    /\ \/ Cancelled(c) /\ Return(c, "cancelled") /\ UNCHANGED pool
       \/ ~Cancelled(c) /\ expired[c] /\ Return(c, "timeout") /\ UNCHANGED pool
       \/ /\ ~Cancelled(c) /\ ~expired[c]
          /\ Return(c, "error")
          /\ UNCHANGED pool
       \/ /\ ~Cancelled(c) /\ ~expired[c] /\ tool[c] \in Registered
          /\ Goto(c, "policy")
          /\ IF UsePool
             THEN lanes' = WithLane(MyLane(c)) /\ UNCHANGED <<acquired, released, cancelledWaits>>
             ELSE UNCHANGED pool

(* The deadline is looked at, the token, the deadline again; then the      *)
(* policy, which is missing, fails, refuses, allows or wants an approval.  *)
CheckPolicy(c) ==
    /\ pc[c] = "policy"
    /\ \/ Cancelled(c) /\ Return(c, "cancelled")
       \/ expired[c] /\ Return(c, "timeout")
       \/ /\ ~Cancelled(c) /\ ~expired[c]
          /\ Return(c, "error") \/ Goto(c, "acquire") \/ Goto(c, "approval")
    /\ UNCHANGED pool

(* The user answers, after any length of time. *)
Approve(c) ==
    /\ pc[c] = "approval"
    /\ Return(c, "error") \/ Goto(c, "acquire")
    /\ UNCHANGED pool

(* The call is announced; acquire looks at the token and the deadline *)
(* before it takes the pool's lock.  Without a pool the tool starts.  *)
StartTool(c) ==
    /\ pc[c] = "acquire"
    /\ IF ~UsePool THEN Goto(c, "tool")
       ELSE IF Cancelled(c) THEN Return(c, "cancelled")
       ELSE IF expired[c] THEN Return(c, "error")
       ELSE Goto(c, "lock")
    /\ UNCHANGED pool

Acquire(c) ==
    LET l == MyLane(c)
        known == WithLane(l) IN
    /\ pc[c] = "lock"
    /\ IF LaneFull(known[l])
       THEN /\ lanes' = [known EXCEPT ![l].waiting = @ + 1]
            /\ UNCHANGED <<acquired, released, cancelledWaits>>
            /\ Goto(c, "wait")
       ELSE Admit(known, l) /\ Goto(c, "tool")

WakeRefusedMutant(c) ==
    LET l == MyLane(c) IN
    /\ ~LaneFull(lanes[l]) /\ (Cancelled(c) \/ expired[c])
    /\ lanes' = NoLongerWaiting(l)
    /\ cancelledWaits' = cancelledWaits + 1
    /\ UNCHANGED <<acquired, released>>
    /\ Return(c, IF Cancelled(c) THEN "cancelled" ELSE "error")

(* A cancelled or late waiter leaves, even when its lane has room. *)
WakeRefused(c) ==
    LET l == MyLane(c) IN
    /\ Cancelled(c) \/ expired[c]
    /\ lanes' = NoLongerWaiting(l)
    /\ cancelledWaits' = cancelledWaits + 1
    /\ UNCHANGED <<acquired, released>>
    /\ Return(c, IF Cancelled(c) THEN "cancelled" ELSE "error")

WakeAdmittedMutant(c) ==
    LET l == MyLane(c) IN
    /\ ~LaneFull(lanes[l])
    /\ Admit(NoLongerWaiting(l), l)
    /\ Goto(c, "tool")

WakeAdmitted(c) ==
    LET l == MyLane(c) IN
    /\ ~Cancelled(c) /\ ~expired[c] /\ ~LaneFull(lanes[l])
    /\ Admit(NoLongerWaiting(l), l)
    /\ Goto(c, "tool")

(* A waiter that finds nothing changed counts itself again and sleeps on. *)
Wake(c) ==
    /\ pc[c] = "wait"
    /\ WakeRefused(c) \/ WakeAdmitted(c)

(* The tool returns; its slot is given back whatever it returned. *)
ToolReturns(c) ==
    /\ pc[c] = "tool"
    /\ IF UsePool THEN Release(MyLane(c)) ELSE UNCHANGED pool
    /\ IF expired[c] THEN Return(c, "timeout")
       ELSE Return(c, "ok") \/ Return(c, "error") \/ Return(c, "cancelled")

-----------------------------------------------------------------------------
(* What happens to a call from outside. *)

Cancel(c) ==
    /\ pc[c] # "idle" /\ ~Cancelled(c)
    /\ cancelledAt' = [cancelledAt EXCEPT ![c] = pc[c]]
    /\ UNCHANGED <<pool, pc, tool, expired, result, calls>>

DeadlinePasses(c) ==
    /\ pc[c] # "idle" /\ ~expired[c]
    /\ expired' = [expired EXCEPT ![c] = TRUE]
    /\ UNCHANGED <<pool, pc, tool, cancelledAt, result, calls>>

CallerStep(c) ==
    \/ Lookup(c) \/ CheckPolicy(c) \/ Approve(c) \/ StartTool(c)
    \/ Acquire(c) \/ Wake(c)

Next ==
    \E c \in Callers :
        \/ \E t \in Tools, e, k \in BOOLEAN : Execute(c, t, e, k)
        \/ CallerStep(c) \/ ToolReturns(c)
        \/ Cancel(c) \/ DeadlinePasses(c)

Spec == Init /\ [][Next]_vars

(* Threads run and the user answers.  A waiter looks again every 50 ms, so *)
(* weak fairness of Wake is all there is: a lane may be full each time.    *)
(* A tool returns unless it is one of HungTools.                           *)
Fairness ==
    /\ \A c \in Callers : WF_vars(CallerStep(c))
    /\ \A c \in Callers : WF_vars(tool[c] \notin HungTools /\ ToolReturns(c))

FairSpec == Spec /\ Fairness

-----------------------------------------------------------------------------
(* Properties *)

Holders(l) == {c \in Callers : pc[c] = "tool" /\ MyLane(c) = l}
Waiters(l) == {c \in Callers : pc[c] = "wait" /\ MyLane(c) = l}

Lane == [concurrency : Nat \ {0}, in_flight : Nat, waiting : Nat]

(* The shape of the state; every lane admits at least one call. *)
TypeOK ==
    /\ DOMAIN lanes \subseteq LaneNames
    /\ lanes \in [DOMAIN lanes -> Lane]
    /\ acquired \in Nat /\ released \in Nat /\ cancelledWaits \in Nat
    /\ pc \in [Callers -> Places]
    /\ tool \in [Callers -> Tools \cup {NoTool}]
    /\ \A c \in Callers : pc[c] # "idle" => tool[c] \in Tools
    /\ expired \in [Callers -> BOOLEAN]
    /\ cancelledAt \in [Callers -> Places \cup {"never"}]
    /\ result \in [Callers -> Results]
    /\ calls \in 0..MaxCalls

(* The counts of a lane are the calls that hold a slot of it and the calls *)
(* asleep for one, whatever path each took: cancelled while it waited,     *)
(* late, or failed in the tool.  No slot leaks and none is given twice.    *)
GaugesMatch ==
    \A l \in DOMAIN lanes :
        /\ UsePool => lanes[l].in_flight = Cardinality(Holders(l))
        /\ lanes[l].waiting = Cardinality(Waiters(l))

(* No more tools of a lane run at once than the lane was configured for,   *)
(* however often calls wait, give up and return.                           *)
LaneLimit ==
    UsePool => \A l \in DOMAIN lanes : Cardinality(Holders(l)) <= lanes[l].concurrency

(* A tool runs only for a call whose token was live when the pool was      *)
(* asked for a slot, and stayed live until the slot was there: an approval *)
(* or a wait that outlasts the cancellation starts nothing.                *)
(* (cc_tool_executor.h: the executor checks the token at the policy, while *)
(* it waits for the lane and before it executes the tool.)                 *)
CancelledStartsNothing ==
    \A c \in Callers : pc[c] = "tool" => cancelledAt[c] \in {"never", "lock", "tool"}

(* A cancelled waiter is told so, even if its lane stays full for ever, and *)
(* not given a slot first.                                                  *)
CancelReachesWaiter ==
    \A c \in Callers :
        pc[c] = "wait" /\ Cancelled(c) ~> pc[c] = "idle" /\ result[c] = "cancelled"

SameServer(t, u) == t.space = u.space /\ t.space # "builtin" /\ t.server = u.server

(* Tools that hang hold up the tools of their own MCP server or plugin and *)
(* no others: every other call returns.                                    *)
HungLaneIsContained ==
    \A c \in Callers :
        /\ pc[c] # "idle"
        /\ \A hung \in HungTools : tool[c] # hung /\ ~SameServer(tool[c], hung)
        ~> pc[c] = "idle"
=============================================================================
