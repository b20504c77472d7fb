----------------------------- MODULE MCEventBus -----------------------------
(* Instances of EventBus for TLC. *)
EXTENDS EventBus

CONSTANTS w1, w2, t1, t2, t3
Symmetry == Permutations(Workers) \cup Permutations(Threads)

(* eb_bus: every thread unsubscribes                                       *)
BusCalls == [t \in Threads |-> {"unsubscribe"}]

(* eb_live: one thread drains and stops the bus, the other unsubscribes    *)
LiveCalls == [t \in Threads |-> IF t = t1 THEN {"flush", "shutdown"} ELSE {"unsubscribe"}]

(* eb_live starts where every slot has a subscription, one of them to all  *)
(* topics, and, on an asynchronous bus, where a first event is in every    *)
(* mailbox, which no worker has looked at yet.                             *)
FirstEvent == [by |-> t1, n |-> 1]
LiveInit ==
    /\ async \in Modes
    /\ active = [s \in Slots |-> TRUE] /\ busy = [s \in Slots |-> FALSE]
    /\ generation = [s \in Slots |-> 1] /\ inflight = [s \in Slots |-> 0]
    /\ handler = [s \in Slots |-> s]
    /\ topic = [s \in Slots |-> IF s = 1 THEN "a" ELSE AnyTopic]
    /\ policy = [s \in Slots |-> IF s = 1 THEN "block" ELSE "oldest"]
    /\ mailbox = [s \in Slots |-> IF async THEN <<FirstEvent>> ELSE <<>>]
    /\ ring = IF async THEN [i \in Slots |-> i] ELSE <<>>
    /\ shuttingDown = FALSE /\ joined = FALSE
    /\ worker = [w \in Workers |-> IF async THEN Looping ELSE Gone]
    /\ thread = [t \in Threads |-> Idle]
    /\ holder = {} /\ asleep = {}
    /\ subscribed = NSlots /\ published = IF async THEN 1 ELSE 0
    /\ handle = [n \in Subscriptions |-> [slot |-> n, gen |-> 1]]
    /\ ended = {}
    /\ last = [n \in Subscriptions |-> [t \in Threads |-> 0]]

LiveSpec == LiveInit /\ [][Next]_vars /\ Fairness
=============================================================================
