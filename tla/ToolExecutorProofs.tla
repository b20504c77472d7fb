------------------------- MODULE ToolExecutorProofs -------------------------
(* Theorems about ToolExecutor, for every number of callers, calls, tools  *)
(* and lanes and every configuration of the pool.                          *)
EXTENDS ToolExecutor, FiniteSetTheorems, TLAPS

USE CallersAssumption, ToolAssumption, PoolAssumption
    DEF CallersAssumption, PoolAssumption, Results, Places

(* A call past its lookup has its lane in the pool, and only a runtime with *)
(* a pool asks for a slot.                                                  *)
LanesKnown ==
    \A c \in Callers :
        /\ UsePool /\ pc[c] \in {"policy", "approval", "acquire", "lock", "wait", "tool"}
               => MyLane(c) \in DOMAIN lanes
        /\ ~UsePool => pc[c] \notin {"lock", "wait"}

(* What the code itself compares: the count and the limit of a lane. *)
CountLimited == \A l \in DOMAIN lanes : lanes[l].in_flight <= lanes[l].concurrency

(* Past the check in acquire the token can only have been cancelled there. *)
TokenChecked ==
    UsePool => \A c \in Callers :
        /\ pc[c] = "lock" => cancelledAt[c] \in {"never", "lock"}
        /\ pc[c] = "tool" => cancelledAt[c] \in {"never", "lock", "tool"}

IInv == TypeOK /\ LanesKnown /\ GaugesMatch /\ CountLimited /\ TokenChecked

-----------------------------------------------------------------------------
(* Counting the calls in a lane *)

In(c, place, l) == pc[c] = place /\ MyLane(c) = l
Bit(b) == IF b THEN 1 ELSE 0

LEMMA CountsAreNat ==
    ASSUME NEW l
    PROVE  /\ IsFiniteSet(Holders(l)) /\ Cardinality(Holders(l)) \in Nat
           /\ IsFiniteSet(Waiters(l)) /\ Cardinality(Waiters(l)) \in Nat
<1>1. Holders(l) \in SUBSET Callers /\ Waiters(l) \in SUBSET Callers
    BY DEF Holders, Waiters
<1>2. IsFiniteSet(Holders(l)) /\ IsFiniteSet(Waiters(l))
    BY <1>1, FS_Subset
<1>3. QED
    BY <1>2, FS_CardinalityType

(* A set that gains or loses at most one known element *)
LEMMA OneMoves ==
    ASSUME NEW S, NEW T, NEW x, IsFiniteSet(S), Cardinality(S) \in Nat,
           NEW after \in BOOLEAN, T = IF after THEN S \cup {x} ELSE S \ {x}
    PROVE  Cardinality(T) = Cardinality(S) + Bit(after) - Bit(x \in S)
<1>1. CASE after
    <2>1. T = S \cup {x}
        BY <1>1
    <2>2. Cardinality(T) = IF x \in S THEN Cardinality(S) ELSE Cardinality(S) + 1
        BY <2>1, FS_AddElement
    <2>3. QED
        BY <1>1, <2>2 DEF Bit
<1>2. CASE ~after
    <2>1. T = S \ {x}
        BY <1>2
    <2>2. Cardinality(T) = IF x \in S THEN Cardinality(S) - 1 ELSE Cardinality(S)
        BY <2>1, FS_RemoveElement
    <2>3. QED
        BY <1>2, <2>2 DEF Bit
<1>3. QED
    BY <1>1, <1>2

(* When one call goes from place to place the counts of a lane change by it. *)
LEMMA CountsMove ==
    ASSUME TypeOK, NEW c \in Callers, NEW p, pc' = [pc EXCEPT ![c] = p],
           \A d \in Callers \ {c} : tool'[d] = tool[d],
           NEW l
    PROVE  /\ Cardinality(Holders(l))' = Cardinality(Holders(l))
                    + Bit(In(c, "tool", l)') - Bit(In(c, "tool", l))
           /\ Cardinality(Waiters(l))' = Cardinality(Waiters(l))
                    + Bit(In(c, "wait", l)') - Bit(In(c, "wait", l))
<1>0. pc'[c] = p /\ \A d \in Callers \ {c} : pc'[d] = pc[d]
    BY DEF TypeOK
<1>1. Holders(l)' = IF In(c, "tool", l)' THEN Holders(l) \cup {c} ELSE Holders(l) \ {c}
    BY <1>0 DEF Holders, In, MyLane
<1>2. Waiters(l)' = IF In(c, "wait", l)' THEN Waiters(l) \cup {c} ELSE Waiters(l) \ {c}
    BY <1>0 DEF Waiters, In, MyLane
<1>3. In(c, "tool", l)' \in BOOLEAN /\ In(c, "wait", l)' \in BOOLEAN
    BY DEF In
<1>4. c \in Holders(l) <=> In(c, "tool", l)
    BY DEF Holders, In
<1>5. c \in Waiters(l) <=> In(c, "wait", l)
    BY DEF Waiters, In
<1>6. Cardinality(Holders(l)') = Cardinality(Holders(l))
            + Bit(In(c, "tool", l)') - Bit(c \in Holders(l))
    BY <1>1, <1>3, CountsAreNat, OneMoves
<1>7. Cardinality(Waiters(l)') = Cardinality(Waiters(l))
            + Bit(In(c, "wait", l)') - Bit(c \in Waiters(l))
    BY <1>2, <1>3, CountsAreNat, OneMoves
<1>8. QED
    BY <1>4, <1>5, <1>6, <1>7 DEF Bit

-----------------------------------------------------------------------------
(* The lanes of the pool *)

LEMMA NewLaneType ==
    ASSUME NEW v \in Int
    PROVE  NewLane(v) \in Lane /\ NewLane(v).in_flight = 0 /\ NewLane(v).waiting = 0
                /\ NewLane(v).concurrency > 0
BY DEF NewLane, Lane, Normalized

LEMMA WithLaneKeeps ==
    ASSUME TypeOK, NEW l \in LaneNames
    PROVE  /\ DOMAIN WithLane(l) = DOMAIN lanes \cup {l}
           /\ WithLane(l) \in [DOMAIN lanes \cup {l} -> Lane]
           /\ \A k \in DOMAIN lanes : WithLane(l)[k] = lanes[k]
           /\ l \notin DOMAIN lanes => WithLane(l)[l] = NewLane(DefaultConcurrency)
<1>1. NewLane(DefaultConcurrency) \in Lane
    BY NewLaneType
<1>2. CASE l \in DOMAIN lanes
    BY <1>2 DEF WithLane, TypeOK
<1>3. CASE l \notin DOMAIN lanes
    BY <1>1, <1>3 DEF WithLane, TypeOK
<1>4. QED
    BY <1>2, <1>3

LEMMA MyLaneNamed ==
    ASSUME TypeOK, NEW c \in Callers, pc[c] # "idle"
    PROVE  MyLane(c) \in LaneNames
BY DEF TypeOK, MyLane, LaneNames

-----------------------------------------------------------------------------
(* The initial state *)

LEMMA InitTypeOK == Init => TypeOK
<1> SUFFICES ASSUME Init PROVE TypeOK
    OBVIOUS
<1>1. \A l \in DOMAIN Policies : NewLane(Policies[l]) \in Lane
    BY NewLaneType
<1>2. DOMAIN lanes \subseteq LaneNames /\ lanes \in [DOMAIN lanes -> Lane]
    BY <1>1 DEF Init
<1>3. QED
    BY <1>2 DEF Init, TypeOK

LEMMA InitIInv == Init => IInv
<1> SUFFICES ASSUME Init PROVE IInv
    OBVIOUS
<1>1. TypeOK
    BY InitTypeOK
<1>2. LanesKnown /\ TokenChecked
    BY DEF Init, LanesKnown, TokenChecked
<1>3. ASSUME NEW l \in DOMAIN lanes
      PROVE  lanes[l].in_flight = 0 /\ lanes[l].waiting = 0 /\ lanes[l].concurrency > 0
    BY NewLaneType DEF Init
<1>4. \A l : Holders(l) = {} /\ Waiters(l) = {}
    BY DEF Init, Holders, Waiters
<1>5. GaugesMatch
    BY <1>3, <1>4, FS_EmptySet DEF GaugesMatch
<1>6. CountLimited
    BY <1>1, <1>3 DEF CountLimited, TypeOK, Lane
<1>7. QED
    BY <1>1, <1>2, <1>5, <1>6 DEF IInv

-----------------------------------------------------------------------------
(* The type invariant *)

LEMMA ReturnType ==
    ASSUME TypeOK, NEW c \in Callers, NEW code \in Results, Return(c, code)
    PROVE  /\ pc' \in [Callers -> Places] /\ result' \in [Callers -> Results]
           /\ tool' \in [Callers -> Tools \cup {NoTool}]
           /\ \A d \in Callers : pc'[d] # "idle" => tool'[d] \in Tools
           /\ expired' \in [Callers -> BOOLEAN]
           /\ cancelledAt' \in [Callers -> Places \cup {"never"}]
           /\ calls' \in 0..MaxCalls
BY DEF TypeOK, Return

LEMMA GotoType ==
    ASSUME TypeOK, NEW c \in Callers, NEW p \in Places, pc[c] # "idle", Goto(c, p)
    PROVE  /\ pc' \in [Callers -> Places] /\ result' \in [Callers -> Results]
           /\ tool' \in [Callers -> Tools \cup {NoTool}]
           /\ \A d \in Callers : pc'[d] # "idle" => tool'[d] \in Tools
           /\ expired' \in [Callers -> BOOLEAN]
           /\ cancelledAt' \in [Callers -> Places \cup {"never"}]
           /\ calls' \in 0..MaxCalls
BY DEF TypeOK, Goto

-----------------------------------------------------------------------------
(* The counts of the lanes *)

LEMMA UnknownIsEmpty ==
    ASSUME IInv, NEW l, l \notin DOMAIN lanes
    PROVE  /\ UsePool => Cardinality(Holders(l)) = 0
           /\ Cardinality(Waiters(l)) = 0
<1>1. UsePool => Holders(l) = {}
    BY DEF IInv, LanesKnown, Holders
<1>2. Waiters(l) = {}
    BY DEF IInv, LanesKnown, Waiters
<1>3. QED
    BY <1>1, <1>2, FS_EmptySet

(* The counts of the lanes K are right: what the invariant says of lanes. *)
Counted(K) ==
    \A l \in DOMAIN K :
        /\ K[l] \in Lane
        /\ UsePool => K[l].in_flight = Cardinality(Holders(l))
        /\ K[l].waiting = Cardinality(Waiters(l))
        /\ K[l].in_flight <= K[l].concurrency

LEMMA LanesCounted == IInv => Counted(lanes)
BY DEF IInv, TypeOK, GaugesMatch, CountLimited, Counted

LEMMA WithLaneCounted ==
    ASSUME IInv, NEW l \in LaneNames
    PROVE  Counted(WithLane(l))
<1>1. /\ DOMAIN WithLane(l) = DOMAIN lanes \cup {l}
      /\ \A k \in DOMAIN lanes : WithLane(l)[k] = lanes[k]
      /\ l \notin DOMAIN lanes => WithLane(l)[l] = NewLane(DefaultConcurrency)
    BY WithLaneKeeps DEF IInv
<1>2. CASE l \in DOMAIN lanes
    BY <1>1, <1>2, LanesCounted DEF Counted
<1>3. CASE l \notin DOMAIN lanes
    <2>1. WithLane(l)[l] \in Lane /\ WithLane(l)[l].in_flight = 0 /\ WithLane(l)[l].waiting = 0
            /\ WithLane(l)[l].concurrency > 0
        BY <1>1, <1>3, NewLaneType
    <2>2. WithLane(l)[l].in_flight <= WithLane(l)[l].concurrency
        BY <2>1 DEF Lane
    <2>3. QED
        BY <1>1, <1>3, <2>1, <2>2, LanesCounted, UnknownIsEmpty DEF Counted
<1>4. QED
    BY <1>2, <1>3

(* A call goes to p, and nothing changes for the others. *)
Moves(c, p) ==
    /\ pc' = [pc EXCEPT ![c] = p]
    /\ \A d \in Callers \ {c} : tool'[d] = tool[d]

LEMMA GotoMoves ==
    ASSUME NEW c, NEW p, Goto(c, p)
    PROVE  Moves(c, p) /\ MyLane(c)' = MyLane(c)
BY DEF Goto, Moves, MyLane

LEMMA ReturnMoves ==
    ASSUME TypeOK, NEW c \in Callers, NEW code, Return(c, code)
    PROVE  Moves(c, "idle")
BY DEF Return, Moves, TypeOK

(* Lanes counted before a move that touches no slot are counted after it. *)
LEMMA QuietMove ==
    ASSUME TypeOK, Counted(lanes'), NEW c \in Callers, NEW p, Moves(c, p),
           pc[c] # "wait", p # "wait",
           UsePool => pc[c] # "tool" /\ p # "tool"
    PROVE  Counted(lanes)'
<1>1. ASSUME NEW l
      PROVE  /\ UsePool => Cardinality(Holders(l))' = Cardinality(Holders(l))
             /\ Cardinality(Waiters(l))' = Cardinality(Waiters(l))
    <2>1. pc'[c] = p
        BY DEF TypeOK, Moves
    <2>2. ~In(c, "wait", l) /\ ~In(c, "wait", l)'
          /\ (UsePool => ~In(c, "tool", l) /\ ~In(c, "tool", l)')
        BY <2>1 DEF In
    <2>3. /\ Cardinality(Holders(l))' = Cardinality(Holders(l))
                    + Bit(In(c, "tool", l)') - Bit(In(c, "tool", l))
          /\ Cardinality(Waiters(l))' = Cardinality(Waiters(l))
                    + Bit(In(c, "wait", l)') - Bit(In(c, "wait", l))
        BY CountsMove DEF Moves
    <2>4. QED
        BY <2>2, <2>3, CountsAreNat DEF Bit
<1>2. QED
    BY <1>1 DEF Counted

(* The counts of lane l change by held and asleep; no other lane changes. *)
Recount(l, held, asleep) ==
    /\ DOMAIN lanes' = DOMAIN lanes
    /\ \A k \in DOMAIN lanes \ {l} : lanes'[k] = lanes[k]
    /\ lanes'[l] \in Lane
    /\ lanes'[l].in_flight = lanes[l].in_flight + held
    /\ lanes'[l].waiting = lanes[l].waiting + asleep
    /\ lanes'[l].in_flight <= lanes'[l].concurrency

Into(p, c, place) == Bit(p = place) - Bit(pc[c] = place)

(* A call goes into, out of, or between the two counts of its lane. *)
LEMMA LaneMove ==
    ASSUME TypeOK, Counted(lanes), UsePool, NEW c \in Callers, NEW p, Moves(c, p),
           NEW l \in DOMAIN lanes, MyLane(c) = l,
           p = "idle" \/ MyLane(c)' = l,
           Recount(l, Into(p, c, "tool"), Into(p, c, "wait"))
    PROVE  Counted(lanes)'
<1>1. pc'[c] = p
    BY DEF TypeOK, Moves
<1>2. ASSUME NEW k
      PROVE  /\ Cardinality(Holders(k))' = Cardinality(Holders(k))
                    + Bit(In(c, "tool", k)') - Bit(In(c, "tool", k))
             /\ Cardinality(Waiters(k))' = Cardinality(Waiters(k))
                    + Bit(In(c, "wait", k)') - Bit(In(c, "wait", k))
             /\ Cardinality(Holders(k)) \in Nat /\ Cardinality(Waiters(k)) \in Nat
    BY CountsMove, CountsAreNat DEF Moves
<1>3. /\ Cardinality(Holders(l))' = Cardinality(Holders(l)) + Into(p, c, "tool")
      /\ Cardinality(Waiters(l))' = Cardinality(Waiters(l)) + Into(p, c, "wait")
    <2>1. /\ Cardinality(Holders(l))' = Cardinality(Holders(l))
                    + Bit(In(c, "tool", l)') - Bit(In(c, "tool", l))
          /\ Cardinality(Waiters(l))' = Cardinality(Waiters(l))
                    + Bit(In(c, "wait", l)') - Bit(In(c, "wait", l))
          /\ Cardinality(Holders(l)) \in Nat /\ Cardinality(Waiters(l)) \in Nat
        BY <1>2
    <2>2. /\ In(c, "tool", l)' <=> p = "tool"
          /\ In(c, "wait", l)' <=> p = "wait"
          /\ In(c, "tool", l) <=> pc[c] = "tool"
          /\ In(c, "wait", l) <=> pc[c] = "wait"
        BY <1>1 DEF In
    <2>3. QED
        BY <2>1, <2>2 DEF Into, Bit
<1>4. ASSUME NEW k, k # l
      PROVE  /\ Cardinality(Holders(k))' = Cardinality(Holders(k))
             /\ Cardinality(Waiters(k))' = Cardinality(Waiters(k))
    <2>1. ~In(c, "tool", k) /\ ~In(c, "wait", k) /\ ~In(c, "tool", k)' /\ ~In(c, "wait", k)'
        BY <1>1, <1>4 DEF In
    <2>2. /\ Cardinality(Holders(k))' = Cardinality(Holders(k))
                    + Bit(In(c, "tool", k)') - Bit(In(c, "tool", k))
          /\ Cardinality(Waiters(k))' = Cardinality(Waiters(k))
                    + Bit(In(c, "wait", k)') - Bit(In(c, "wait", k))
          /\ Cardinality(Holders(k)) \in Nat /\ Cardinality(Waiters(k)) \in Nat
        BY <1>2
    <2>3. QED
        BY <2>1, <2>2 DEF Bit
<1>5. QED
    BY <1>3, <1>4 DEF Counted, Recount

-----------------------------------------------------------------------------
(* The pool's part of the state after a step *)

PoolOK ==
    /\ DOMAIN lanes \subseteq LaneNames
    /\ Counted(lanes)
    /\ acquired \in Nat /\ released \in Nat /\ cancelledWaits \in Nat

LEMMA PoolOfIInv == IInv => PoolOK
BY LanesCounted DEF IInv, TypeOK, PoolOK

LEMMA IInvOfPool ==
    ASSUME PoolOK', LanesKnown', TokenChecked',
           lanes' = [l \in DOMAIN lanes' |-> lanes'[l]],
           pc' \in [Callers -> Places], result' \in [Callers -> Results],
           tool' \in [Callers -> Tools \cup {NoTool}],
           \A d \in Callers : pc'[d] # "idle" => tool'[d] \in Tools,
           expired' \in [Callers -> BOOLEAN],
           cancelledAt' \in [Callers -> Places \cup {"never"}],
           calls' \in 0..MaxCalls
    PROVE  IInv'
<1>1. lanes' \in [DOMAIN lanes' -> Lane]
    BY DEF PoolOK, Counted
<1>2. TypeOK'
    BY <1>1 DEF PoolOK, TypeOK
<1>3. GaugesMatch' /\ CountLimited'
    BY DEF PoolOK, Counted, GaugesMatch, CountLimited
<1>4. QED
    BY <1>2, <1>3 DEF IInv

(* A step that leaves the pool alone and moves no call into or out of a slot *)
LEMMA QuietPool ==
    ASSUME IInv, NEW c \in Callers, NEW p, Moves(c, p), UNCHANGED pool,
           pc[c] # "wait", p # "wait",
           UsePool => pc[c] # "tool" /\ p # "tool"
    PROVE  PoolOK' /\ lanes' = [l \in DOMAIN lanes' |-> lanes'[l]]
<1>1. UNCHANGED <<lanes, acquired, released, cancelledWaits>>
    BY DEF pool
<1>2. Counted(lanes')
    BY <1>1, LanesCounted
<1>3. Counted(lanes)'
    BY <1>2, QuietMove DEF IInv
<1>4. QED
    BY <1>1, <1>3 DEF PoolOK, IInv, TypeOK

LEMMA QuietReturn ==
    ASSUME IInv, NEW c \in Callers, NEW code \in Results, Return(c, code), UNCHANGED pool,
           pc[c] # "wait", UsePool => pc[c] # "tool"
    PROVE  IInv'
<1>1. TypeOK /\ UNCHANGED lanes
    BY DEF IInv, pool
<1>2. Moves(c, "idle")
    BY <1>1, ReturnMoves
<1>3. PoolOK' /\ lanes' = [l \in DOMAIN lanes' |-> lanes'[l]]
    BY <1>2, QuietPool
<1>4. LanesKnown' /\ TokenChecked'
    BY <1>1 DEF IInv, TypeOK, Return, LanesKnown, TokenChecked, MyLane
<1>5. QED
    BY <1>1, <1>3, <1>4, ReturnType, IInvOfPool

LEMMA QuietGoto ==
    ASSUME IInv, NEW c \in Callers, NEW p \in Places, Goto(c, p), UNCHANGED pool,
           pc[c] \notin {"idle", "wait"}, p # "wait",
           UsePool => pc[c] # "tool" /\ p # "tool" /\ MyLane(c) \in DOMAIN lanes,
           p = "lock" => UsePool /\ cancelledAt[c] = "never"
    PROVE  IInv'
<1>1. TypeOK /\ UNCHANGED lanes
    BY DEF IInv, pool
<1>2. Moves(c, p)
    BY <1>1, GotoMoves
<1>3. PoolOK' /\ lanes' = [l \in DOMAIN lanes' |-> lanes'[l]]
    BY <1>2, QuietPool
<1>4. LanesKnown' /\ TokenChecked'
    BY <1>1 DEF IInv, TypeOK, Goto, LanesKnown, TokenChecked, MyLane
<1>5. QED
    BY <1>1, <1>3, <1>4, GotoType, IInvOfPool

-----------------------------------------------------------------------------
(* The steps of a call *)

LEMMA ExecuteKeeps ==
    ASSUME IInv, NEW c \in Callers, NEW t \in Tools, NEW e \in BOOLEAN, NEW k \in BOOLEAN,
           Execute(c, t, e, k)
    PROVE  IInv'
<1>1. TypeOK /\ UNCHANGED lanes /\ UNCHANGED pool /\ pc[c] = "idle"
    BY DEF IInv, pool, Execute
<1>2. Moves(c, "lookup")
    BY <1>1 DEF TypeOK, Execute, Moves
<1>3. PoolOK' /\ lanes' = [l \in DOMAIN lanes' |-> lanes'[l]]
    BY <1>1, <1>2, QuietPool
<1>4. LanesKnown' /\ TokenChecked'
    BY <1>1 DEF IInv, TypeOK, Execute, LanesKnown, TokenChecked, MyLane
<1>5. /\ pc' \in [Callers -> Places] /\ result' \in [Callers -> Results]
      /\ tool' \in [Callers -> Tools \cup {NoTool}]
      /\ \A d \in Callers : pc'[d] # "idle" => tool'[d] \in Tools
      /\ expired' \in [Callers -> BOOLEAN]
      /\ cancelledAt' \in [Callers -> Places \cup {"never"}]
      /\ calls' \in 0..MaxCalls
    BY <1>1 DEF TypeOK, Execute
<1>6. QED
    BY <1>3, <1>4, <1>5, IInvOfPool

LEMMA LookupKeeps ==
    ASSUME IInv, NEW c \in Callers, Lookup(c)
    PROVE  IInv'
<1>1. TypeOK /\ pc[c] = "lookup"
    BY DEF IInv, Lookup
<1>2. CASE \E code \in Results : Return(c, code) /\ UNCHANGED pool
    BY <1>1, <1>2, QuietReturn
<1>3. CASE Goto(c, "policy") /\ ~UsePool /\ UNCHANGED pool
    BY <1>1, <1>3, QuietGoto
<1>4. CASE /\ Goto(c, "policy") /\ UsePool
           /\ lanes' = WithLane(MyLane(c)) /\ UNCHANGED <<acquired, released, cancelledWaits>>
    <2> DEFINE l == MyLane(c)
    <2>1. l \in LaneNames
        BY <1>1, MyLaneNamed
    <2>2. Moves(c, "policy")
        BY <1>4, GotoMoves
    <2>3. Counted(lanes')
        BY <1>4, <2>1, WithLaneCounted
    <2>4. Counted(lanes)'
        BY <1>1, <2>2, <2>3, QuietMove
    <2>5. DOMAIN lanes' = DOMAIN lanes \cup {l} /\ lanes' = [k \in DOMAIN lanes' |-> lanes'[k]]
        BY <1>1, <1>4, <2>1, WithLaneKeeps
    <2>6. PoolOK'
        BY <1>1, <1>4, <2>1, <2>4, <2>5 DEF PoolOK, TypeOK
    <2>7. LanesKnown' /\ TokenChecked'
        BY <1>1, <1>4, <2>5 DEF IInv, TypeOK, Goto, LanesKnown, TokenChecked, MyLane
    <2>8. QED
        BY <1>1, <1>4, <2>5, <2>6, <2>7, GotoType, IInvOfPool
<1>5. QED
    BY <1>2, <1>3, <1>4 DEF Lookup

LEMMA CheckPolicyKeeps ==
    ASSUME IInv, NEW c \in Callers, CheckPolicy(c)
    PROVE  IInv'
<1>1. pc[c] = "policy" /\ UNCHANGED pool
    BY DEF CheckPolicy
<1>2. CASE \E code \in Results : Return(c, code)
    BY <1>1, <1>2, QuietReturn
<1>3. CASE Goto(c, "acquire") \/ Goto(c, "approval")
    <2>1. UsePool => MyLane(c) \in DOMAIN lanes
        BY <1>1 DEF IInv, LanesKnown
    <2>2. QED
        BY <1>1, <1>3, <2>1, QuietGoto
<1>4. QED
    BY <1>2, <1>3 DEF CheckPolicy

LEMMA ApproveKeeps ==
    ASSUME IInv, NEW c \in Callers, Approve(c)
    PROVE  IInv'
<1>1. pc[c] = "approval" /\ UNCHANGED pool
    BY DEF Approve
<1>2. CASE Return(c, "error")
    BY <1>1, <1>2, QuietReturn
<1>3. CASE Goto(c, "acquire")
    <2>1. UsePool => MyLane(c) \in DOMAIN lanes
        BY <1>1 DEF IInv, LanesKnown
    <2>2. QED
        BY <1>1, <1>3, <2>1, QuietGoto
<1>4. QED
    BY <1>2, <1>3 DEF Approve

LEMMA StartToolKeeps ==
    ASSUME IInv, NEW c \in Callers, StartTool(c)
    PROVE  IInv'
<1>1. pc[c] = "acquire" /\ UNCHANGED pool
    BY DEF StartTool
<1>2. UsePool => MyLane(c) \in DOMAIN lanes
    BY <1>1 DEF IInv, LanesKnown
<1>3. CASE ~UsePool /\ Goto(c, "tool")
    BY <1>1, <1>3, QuietGoto
<1>4. CASE UsePool /\ \E code \in Results : Return(c, code)
    BY <1>1, <1>4, QuietReturn
<1>5. CASE UsePool /\ ~Cancelled(c) /\ Goto(c, "lock")
    BY <1>1, <1>2, <1>5, QuietGoto DEF Cancelled
<1>6. QED
    BY <1>3, <1>4, <1>5 DEF StartTool

LEMMA AcquireKeeps ==
    ASSUME IInv, NEW c \in Callers, Acquire(c)
    PROVE  IInv'
<1> DEFINE l == MyLane(c)
           K == WithLane(l)
<1>1. TypeOK /\ pc[c] = "lock" /\ UsePool
    BY DEF IInv, Acquire, LanesKnown
<1>2. l \in DOMAIN lanes /\ l \in LaneNames
    BY <1>1, MyLaneNamed DEF IInv, LanesKnown
<1>3. K = lanes /\ K[l] \in Lane /\ Counted(lanes)
    BY <1>2, LanesCounted DEF WithLane, Counted
<1>4. CASE LaneFull(K[l])
    <2> DEFINE lane == [K[l] EXCEPT !.waiting = @ + 1]
    <2>1. /\ lanes' = [lanes EXCEPT ![l] = lane] /\ Goto(c, "wait")
          /\ UNCHANGED <<acquired, released, cancelledWaits>>
        BY <1>3, <1>4 DEF Acquire
    <2>2. /\ lane \in Lane /\ lane.in_flight = lanes[l].in_flight
          /\ lane.waiting = lanes[l].waiting + 1 /\ lane.in_flight <= lane.concurrency
        BY <1>2, <1>3 DEF Lane, Counted
    <2>3. Moves(c, "wait") /\ MyLane(c)' = l
        BY <2>1, GotoMoves
    <2>4. Counted(lanes)'
        <3>1. /\ Into("wait", c, "tool") = lane.in_flight - lanes[l].in_flight
              /\ Into("wait", c, "wait") = lane.waiting - lanes[l].waiting
            BY <1>1, <1>2, <1>3, <2>1, <2>2, <2>3 DEF Into, Bit, Lane
        <3>2. Recount(l, Into("wait", c, "tool"), Into("wait", c, "wait"))
            BY <1>1, <1>2, <1>3, <2>1, <2>2, <2>3, <3>1 DEF Recount, Lane
        <3>3. QED
            BY <1>1, <1>2, <1>3, <2>1, <2>2, <2>3, <3>2, LaneMove
    <2>5. DOMAIN lanes' = DOMAIN lanes /\ lanes' = [k \in DOMAIN lanes' |-> lanes'[k]]
        BY <1>1, <2>1 DEF TypeOK
    <2>6. PoolOK'
        BY <1>1, <2>1, <2>4, <2>5 DEF PoolOK, TypeOK
    <2>7. LanesKnown' /\ TokenChecked'
        BY <1>1, <1>2, <2>1, <2>5 DEF IInv, TypeOK, Goto, LanesKnown, TokenChecked, MyLane
    <2>8. QED
        BY <1>1, <2>1, <2>5, <2>6, <2>7, GotoType, IInvOfPool
<1>5. CASE ~LaneFull(K[l])
    <2> DEFINE lane == [K[l] EXCEPT !.in_flight = @ + 1]
    <2>1. /\ lanes' = [lanes EXCEPT ![l] = lane] /\ Goto(c, "tool")
          /\ acquired' = acquired + 1 /\ UNCHANGED <<released, cancelledWaits>>
        BY <1>3, <1>5 DEF Acquire, Admit
    <2>2. /\ lane \in Lane /\ lane.in_flight = lanes[l].in_flight + 1
          /\ lane.waiting = lanes[l].waiting /\ lane.in_flight <= lane.concurrency
        BY <1>2, <1>3, <1>5 DEF Lane, Counted, LaneFull
    <2>3. Moves(c, "tool") /\ MyLane(c)' = l
        BY <2>1, GotoMoves
    <2>4. Counted(lanes)'
        <3>1. /\ Into("tool", c, "tool") = lane.in_flight - lanes[l].in_flight
              /\ Into("tool", c, "wait") = lane.waiting - lanes[l].waiting
            BY <1>1, <1>2, <1>3, <2>1, <2>2, <2>3 DEF Into, Bit, Lane
        <3>2. Recount(l, Into("tool", c, "tool"), Into("tool", c, "wait"))
            BY <1>1, <1>2, <1>3, <2>1, <2>2, <2>3, <3>1 DEF Recount, Lane
        <3>3. QED
            BY <1>1, <1>2, <1>3, <2>1, <2>2, <2>3, <3>2, LaneMove
    <2>5. DOMAIN lanes' = DOMAIN lanes /\ lanes' = [k \in DOMAIN lanes' |-> lanes'[k]]
        BY <1>1, <2>1 DEF TypeOK
    <2>6. PoolOK'
        BY <1>1, <2>1, <2>4, <2>5 DEF PoolOK, TypeOK
    <2>7. LanesKnown' /\ TokenChecked'
        BY <1>1, <1>2, <2>1, <2>5 DEF IInv, TypeOK, Goto, LanesKnown, TokenChecked, MyLane
    <2>8. QED
        BY <1>1, <2>1, <2>5, <2>6, <2>7, GotoType, IInvOfPool
<1>6. QED
    BY <1>4, <1>5

(* A sleeping call is counted in its lane, so its count can go down. *)
LEMMA WaiterCounted ==
    ASSUME IInv, NEW c \in Callers, pc[c] = "wait"
    PROVE  /\ UsePool /\ MyLane(c) \in DOMAIN lanes
           /\ lanes[MyLane(c)] \in Lane /\ lanes[MyLane(c)].waiting > 0
<1> DEFINE l == MyLane(c)
<1>1. UsePool /\ l \in DOMAIN lanes
    BY DEF IInv, LanesKnown
<1>2. c \in Waiters(l)
    BY DEF Waiters
<1>3. Cardinality(Waiters(l)) # 0 /\ Cardinality(Waiters(l)) \in Nat
    BY <1>2, CountsAreNat, FS_EmptySet
<1>4. QED
    BY <1>1, <1>3, LanesCounted DEF Counted, Lane

LEMMA HolderCounted ==
    ASSUME IInv, NEW c \in Callers, pc[c] = "tool", UsePool
    PROVE  /\ MyLane(c) \in DOMAIN lanes
           /\ lanes[MyLane(c)] \in Lane /\ lanes[MyLane(c)].in_flight > 0
<1> DEFINE l == MyLane(c)
<1>1. l \in DOMAIN lanes
    BY DEF IInv, LanesKnown
<1>2. c \in Holders(l)
    BY DEF Holders
<1>3. Cardinality(Holders(l)) # 0 /\ Cardinality(Holders(l)) \in Nat
    BY <1>2, CountsAreNat, FS_EmptySet
<1>4. QED
    BY <1>1, <1>3, LanesCounted DEF Counted, Lane

LEMMA WakeKeeps ==
    ASSUME IInv, NEW c \in Callers, Wake(c)
    PROVE  IInv'
<1> DEFINE l == MyLane(c)
<1>1. TypeOK /\ pc[c] = "wait" /\ UsePool /\ Counted(lanes)
    BY WaiterCounted, LanesCounted DEF IInv, Wake
<1>2. l \in DOMAIN lanes /\ lanes[l] \in Lane /\ lanes[l].waiting > 0
    BY <1>1, WaiterCounted
<1>3. CASE WakeRefused(c)
    <2> DEFINE lane == [lanes[l] EXCEPT !.waiting = @ - 1]
    <2>1. PICK code \in Results : Return(c, code)
        BY <1>3 DEF WakeRefused
    <2>2. /\ lanes' = [lanes EXCEPT ![l] = lane]
          /\ cancelledWaits' = cancelledWaits + 1 /\ UNCHANGED <<acquired, released>>
        BY <1>2, <1>3 DEF WakeRefused, NoLongerWaiting, Decrement
    <2>3. /\ lane \in Lane /\ lane.in_flight = lanes[l].in_flight
          /\ lane.waiting = lanes[l].waiting - 1 /\ lane.in_flight <= lane.concurrency
        BY <1>1, <1>2 DEF Lane, Counted
    <2>4. Moves(c, "idle") /\ pc'[c] = "idle"
        BY <1>1, <2>1, ReturnMoves DEF TypeOK, Return
    <2>5. ~In(c, "tool", l)' /\ ~In(c, "wait", l)'
        BY <2>4 DEF In
    <2>6. Counted(lanes)'
        <3>1. /\ Into("idle", c, "tool") = lane.in_flight - lanes[l].in_flight
              /\ Into("idle", c, "wait") = lane.waiting - lanes[l].waiting
            BY <1>1, <1>2, <2>2, <2>3, <2>4, <2>5 DEF Into, Bit, Lane
        <3>2. Recount(l, Into("idle", c, "tool"), Into("idle", c, "wait"))
            BY <1>1, <1>2, <2>2, <2>3, <2>4, <2>5, <3>1 DEF Recount, Lane
        <3>3. QED
            BY <1>1, <1>2, <2>2, <2>3, <2>4, <2>5, <3>2, LaneMove
    <2>7. DOMAIN lanes' = DOMAIN lanes /\ lanes' = [k \in DOMAIN lanes' |-> lanes'[k]]
        BY <1>1, <2>2 DEF TypeOK
    <2>8. PoolOK'
        BY <1>1, <2>2, <2>6, <2>7 DEF PoolOK, TypeOK
    <2>9. LanesKnown' /\ TokenChecked'
        BY <1>1, <2>1, <2>7 DEF IInv, TypeOK, Return, LanesKnown, TokenChecked, MyLane
    <2>10. QED
        BY <1>1, <2>1, <2>7, <2>8, <2>9, ReturnType, IInvOfPool
<1>4. CASE WakeAdmitted(c)
    <2> DEFINE rest == [lanes[l] EXCEPT !.waiting = @ - 1]
               lane == [rest EXCEPT !.in_flight = @ + 1]
    <2>1. Goto(c, "tool") /\ cancelledAt[c] = "never" /\ ~LaneFull(lanes[l])
        BY <1>4 DEF WakeAdmitted, Cancelled
    <2>2. /\ lanes' = [lanes EXCEPT ![l] = lane]
          /\ acquired' = acquired + 1 /\ UNCHANGED <<released, cancelledWaits>>
        <3>1. NoLongerWaiting(l) = [lanes EXCEPT ![l] = rest]
            BY <1>2 DEF NoLongerWaiting, Decrement
        <3>2. NoLongerWaiting(l)[l] = rest
            BY <1>2, <3>1
        <3>3. lanes' = [NoLongerWaiting(l) EXCEPT ![l] = lane]
            BY <1>4, <3>2 DEF WakeAdmitted, Admit
        <3>4. lanes' = [lanes EXCEPT ![l] = lane]
            BY <1>2, <3>1, <3>3
        <3>5. QED
            BY <1>4, <3>4 DEF WakeAdmitted, Admit
    <2>3. /\ lane \in Lane /\ lane.in_flight = lanes[l].in_flight + 1
          /\ lane.waiting = lanes[l].waiting - 1 /\ lane.in_flight <= lane.concurrency
        <3>1. lanes[l].in_flight < lanes[l].concurrency
            BY <1>2, <2>1 DEF LaneFull, Lane
        <3>2. /\ rest \in Lane /\ rest.in_flight = lanes[l].in_flight
              /\ rest.waiting = lanes[l].waiting - 1 /\ rest.concurrency = lanes[l].concurrency
            BY <1>2 DEF Lane
        <3> HIDE DEF rest
        <3>3. /\ lane \in Lane /\ lane.in_flight = rest.in_flight + 1
              /\ lane.waiting = rest.waiting /\ lane.concurrency = rest.concurrency
            BY <3>2 DEF Lane
        <3>4. QED
            BY <1>2, <3>1, <3>2, <3>3 DEF Lane
    <2> HIDE DEF lane
    <2>4. Moves(c, "tool") /\ MyLane(c)' = l
        BY <2>1, GotoMoves
    <2>5. Counted(lanes)'
        <3>1. /\ Into("tool", c, "tool") = lane.in_flight - lanes[l].in_flight
              /\ Into("tool", c, "wait") = lane.waiting - lanes[l].waiting
            BY <1>1, <1>2, <2>2, <2>3, <2>4 DEF Into, Bit, Lane
        <3>2. Recount(l, Into("tool", c, "tool"), Into("tool", c, "wait"))
            BY <1>1, <1>2, <2>2, <2>3, <2>4, <3>1 DEF Recount, Lane
        <3>3. QED
            BY <1>1, <1>2, <2>2, <2>3, <2>4, <3>2, LaneMove
    <2>6. DOMAIN lanes' = DOMAIN lanes /\ lanes' = [k \in DOMAIN lanes' |-> lanes'[k]]
        BY <1>1, <2>2 DEF TypeOK
    <2>7. PoolOK'
        BY <1>1, <2>2, <2>5, <2>6 DEF PoolOK, TypeOK
    <2>8. LanesKnown' /\ TokenChecked'
        BY <1>1, <1>2, <2>1, <2>6 DEF IInv, TypeOK, Goto, LanesKnown, TokenChecked, MyLane
    <2>9. QED
        BY <1>1, <2>1, <2>6, <2>7, <2>8, GotoType, IInvOfPool
<1>5. QED
    BY <1>3, <1>4 DEF Wake

LEMMA ToolReturnsKeeps ==
    ASSUME IInv, NEW c \in Callers, ToolReturns(c)
    PROVE  IInv'
<1> DEFINE l == MyLane(c)
           lane == [lanes[l] EXCEPT !.in_flight = @ - 1]
<1>1. TypeOK /\ pc[c] = "tool" /\ Counted(lanes)
    BY LanesCounted DEF IInv, ToolReturns
<1>2. PICK code \in Results : Return(c, code)
    BY DEF ToolReturns
<1>3. CASE ~UsePool
    BY <1>1, <1>2, <1>3, QuietReturn DEF ToolReturns
<1>4. CASE UsePool
    <2>1. l \in DOMAIN lanes /\ lanes[l] \in Lane /\ lanes[l].in_flight > 0
        BY <1>1, <1>4, HolderCounted
    <2>2. /\ lanes' = [lanes EXCEPT ![l] = lane]
          /\ released' = released + 1 /\ UNCHANGED <<acquired, cancelledWaits>>
        BY <1>4, <2>1 DEF ToolReturns, Release
    <2>3. /\ lane \in Lane /\ lane.in_flight = lanes[l].in_flight - 1
          /\ lane.waiting = lanes[l].waiting /\ lane.in_flight <= lane.concurrency
        BY <1>1, <2>1 DEF Lane, Counted
    <2>4. Moves(c, "idle") /\ pc'[c] = "idle"
        BY <1>1, <1>2, ReturnMoves DEF TypeOK, Return
    <2>5. ~In(c, "tool", l)' /\ ~In(c, "wait", l)'
        BY <2>4 DEF In
    <2>6. Counted(lanes)'
        <3>1. /\ Into("idle", c, "tool") = lane.in_flight - lanes[l].in_flight
              /\ Into("idle", c, "wait") = lane.waiting - lanes[l].waiting
            BY <1>1, <2>1, <2>2, <2>3, <2>4, <2>5 DEF Into, Bit, Lane
        <3>2. Recount(l, Into("idle", c, "tool"), Into("idle", c, "wait"))
            BY <1>1, <2>1, <2>2, <2>3, <2>4, <2>5, <3>1 DEF Recount, Lane
        <3>3. QED
            BY <1>1, <1>4, <2>1, <2>4, <3>2, LaneMove
    <2>7. DOMAIN lanes' = DOMAIN lanes /\ lanes' = [k \in DOMAIN lanes' |-> lanes'[k]]
        BY <1>1, <2>2 DEF TypeOK
    <2>8. PoolOK'
        BY <1>1, <2>2, <2>6, <2>7 DEF PoolOK, TypeOK
    <2>9. LanesKnown' /\ TokenChecked'
        BY <1>1, <1>2, <2>7 DEF IInv, TypeOK, Return, LanesKnown, TokenChecked, MyLane
    <2>10. QED
        BY <1>1, <1>2, <2>7, <2>8, <2>9, ReturnType, IInvOfPool
<1>5. QED
    BY <1>3, <1>4

-----------------------------------------------------------------------------
(* Steps from outside a call: nobody moves. *)

LEMMA NobodyMoves ==
    ASSUME IInv, UNCHANGED <<pool, pc, tool>>
    PROVE  PoolOK' /\ lanes' = [l \in DOMAIN lanes' |-> lanes'[l]] /\ LanesKnown'
<1>1. UNCHANGED <<lanes, acquired, released, cancelledWaits, pc, tool>>
    BY DEF pool
<1>2. \A l : Holders(l)' = Holders(l) /\ Waiters(l)' = Waiters(l)
    BY <1>1 DEF Holders, Waiters, MyLane
<1>3. PoolOK'
    BY <1>1, <1>2, PoolOfIInv DEF PoolOK, Counted
<1>4. QED
    BY <1>1, <1>3 DEF IInv, TypeOK, LanesKnown, MyLane

LEMMA CancelKeeps ==
    ASSUME IInv, NEW c \in Callers, Cancel(c)
    PROVE  IInv'
<1>1. TypeOK /\ UNCHANGED <<pool, pc, tool, expired, result, calls>>
    BY DEF IInv, Cancel
<1>2. PoolOK' /\ lanes' = [l \in DOMAIN lanes' |-> lanes'[l]] /\ LanesKnown'
    BY <1>1, NobodyMoves
<1>3. TokenChecked' /\ cancelledAt' \in [Callers -> Places \cup {"never"}]
    BY <1>1 DEF IInv, TypeOK, Cancel, TokenChecked
<1>4. QED
    BY <1>1, <1>2, <1>3, IInvOfPool DEF TypeOK

LEMMA DeadlineKeeps ==
    ASSUME IInv, NEW c \in Callers, DeadlinePasses(c)
    PROVE  IInv'
<1>1. TypeOK /\ UNCHANGED <<pool, pc, tool, cancelledAt, result, calls>>
    BY DEF IInv, DeadlinePasses
<1>2. PoolOK' /\ lanes' = [l \in DOMAIN lanes' |-> lanes'[l]] /\ LanesKnown'
    BY <1>1, NobodyMoves
<1>3. TokenChecked' /\ expired' \in [Callers -> BOOLEAN]
    BY <1>1 DEF IInv, TypeOK, DeadlinePasses, TokenChecked
<1>4. QED
    BY <1>1, <1>2, <1>3, IInvOfPool DEF TypeOK

LEMMA NothingHappens == IInv /\ UNCHANGED vars => IInv'
<1> SUFFICES ASSUME IInv, UNCHANGED vars PROVE IInv'
    OBVIOUS
<1>1. TypeOK /\ UNCHANGED <<pool, pc, tool, expired, cancelledAt, result, calls>>
    BY DEF IInv, vars
<1>2. PoolOK' /\ lanes' = [l \in DOMAIN lanes' |-> lanes'[l]] /\ LanesKnown'
    BY <1>1, NobodyMoves
<1>3. TokenChecked'
    BY <1>1 DEF IInv, TokenChecked
<1>4. QED
    BY <1>1, <1>2, <1>3, IInvOfPool DEF TypeOK

-----------------------------------------------------------------------------
(* The theorems *)

LEMMA StepKeepsIInv == IInv /\ [Next]_vars => IInv'
<1> SUFFICES ASSUME IInv, [Next]_vars PROVE IInv'
    OBVIOUS
<1>1. ASSUME NEW c \in Callers, NEW t \in Tools, NEW e \in BOOLEAN, NEW k \in BOOLEAN,
             Execute(c, t, e, k)
      PROVE  IInv'
    BY <1>1, ExecuteKeeps
<1>2. ASSUME NEW c \in Callers, CallerStep(c) PROVE IInv'
    BY <1>2, LookupKeeps, CheckPolicyKeeps, ApproveKeeps, StartToolKeeps,
       AcquireKeeps, WakeKeeps DEF CallerStep
<1>3. ASSUME NEW c \in Callers, ToolReturns(c) PROVE IInv'
    BY <1>3, ToolReturnsKeeps
<1>4. ASSUME NEW c \in Callers, Cancel(c) \/ DeadlinePasses(c) PROVE IInv'
    BY <1>4, CancelKeeps, DeadlineKeeps
<1>5. CASE UNCHANGED vars
    BY <1>5, NothingHappens
<1>6. QED
    BY <1>1, <1>2, <1>3, <1>4, <1>5 DEF Next

(* The strengthened invariant: the counts of every lane are the calls that *)
(* sleep for it and hold it, and no count is above its limit.              *)
THEOREM Inductive == Spec => []IInv
<1>1. QED
    BY InitIInv, StepKeepsIInv, PTL DEF Spec

(* The state always has its shape. *)
THEOREM TypeCorrect == Spec => []TypeOK
<1>1. IInv => TypeOK
    BY DEF IInv
<1>2. QED
    BY <1>1, Inductive, PTL

(* However calls wait, give up, fail or return, a lane's counts stay those  *)
(* of the calls in it: no slot leaks, none is given back twice.             *)
THEOREM NoSlotLeaks == Spec => []GaugesMatch
<1>1. IInv => GaugesMatch
    BY DEF IInv
<1>2. QED
    BY <1>1, Inductive, PTL

(* Never more tools of a lane at once than the pool was configured for. *)
THEOREM LimitHolds == Spec => []LaneLimit
<1>1. IInv => LaneLimit
    BY DEF IInv, GaugesMatch, CountLimited, LaneLimit
<1>2. QED
    BY <1>1, Inductive, PTL

(* With a pool, no tool starts for a call cancelled before acquire looked   *)
(* at its token, or while it slept for a slot.                              *)
THEOREM CancelledNeverStarts ==
    ASSUME UsePool
    PROVE  Spec => []CancelledStartsNothing
<1>1. IInv => CancelledStartsNothing
    BY DEF IInv, TokenChecked, CancelledStartsNothing
<1>2. QED
    BY <1>1, Inductive, PTL
=============================================================================
