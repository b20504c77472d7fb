------------------------------ MODULE EventBus ------------------------------
(***************************************************************************)
(* The event bus (core/src/core/cc_event_bus.c): a fixed array of          *)
(* subscriber slots, each with a bounded mailbox, a ring of the slots that *)
(* have something to deliver, and workers that take a slot from the ring   *)
(* and call its handler with the mutex released.  In synchronous mode the  *)
(* publisher calls the handlers itself.                                    *)
(*                                                                         *)
(* One mutex guards everything and one condition variable serves everyone: *)
(* idle workers, publishers waiting for room, flush, shutdown and          *)
(* unsubscribe.  "asleep" is who waits on it.  A step runs one critical    *)
(* section; a publisher walks over the slots without releasing the mutex,  *)
(* which is "holder" between the steps of that walk.                       *)
(*                                                                         *)
(* A subscription is a number, given in the order of subscribe, and stands *)
(* for its handler; an event is a publisher and a number.  All waits but   *)
(* those of the workers are timed: a timeout is a step that may be taken   *)
(* whenever the waiter is awake.                                           *)
(*                                                                         *)
(* Left out: metrics, memory exhaustion, reference counts of envelopes,    *)
(* the wrap of the 16-bit generation, the hash table of topics (a bit of   *)
(* it is set exactly while the slot is active) and destroy, which is       *)
(* shutdown followed by free.  Handlers do not call the bus themselves.    *)
(* A mutant (...Mutant) precedes the definition it varies.                 *)
(***************************************************************************)
EXTENDS Integers, SequencesExt

CONSTANTS
    Modes,             \* TRUE: the bus may be created with CC_EVENT_BUS_MODE_ASYNC
    Workers, Threads,  \* the bus's workers; threads that call it
    NSlots, Capacity,  \* subscriber slots; mailbox_capacity
    Topics, AnyTopic,  \* event types; AnyTopic is a subscription to all of them
    Policies,          \* overflow policies that subscribers choose from
    MaxSubscriptions,  \* bound: subscriptions made
    MaxEvents,         \* bound: events published
    Calls              \* of flush, shutdown, unsubscribe: the calls each thread makes

ASSUME Assumption ==
    /\ Modes \subseteq BOOLEAN
    /\ NSlots \in Nat \ {0} /\ Capacity \in Nat \ {0}
    /\ MaxSubscriptions \in Nat /\ MaxEvents \in Nat
    /\ Policies \subseteq {"block", "newest", "oldest", "coalesce"}
    /\ AnyTopic \notin Topics
    /\ Workers \cap Threads = {} /\ IsFiniteSet(Threads)

Slots == 1..NSlots
Subscriptions == 1..MaxSubscriptions
Nobody == 0                       \* handler == NULL

VARIABLES
    async,         \* the bus's mode
    active, generation, handler, topic, policy, mailbox, inflight, busy,
    ring,          \* ready_ring
    shuttingDown, joined,
    worker,        \* where each worker is: its handler call, if any
    thread,        \* the call each thread is in
    holder,        \* the publisher that keeps the mutex, if any
    asleep,        \* who waits on the condition variable
    subscribed, published,
    handle,        \* the handle subscribe returned: slot and generation
    ended,         \* subscriptions whose unsubscribe returned success
    last           \* last event of each publisher a handler was called with

slotVars == <<active, generation, handler, topic, policy, inflight, busy>>
history == <<async, handle, ended, last>>
vars == <<slotVars, mailbox, ring, shuttingDown, joined, worker, thread, holder,
          asleep, subscribed, published, history>>

Idle == [op |-> "idle"]
Looping == [at |-> "loop"]
Gone == [at |-> "gone"]
Handling(w) == worker[w].at = "handling"

Init ==
    /\ active = [s \in Slots |-> FALSE] /\ busy = [s \in Slots |-> FALSE]
    /\ generation = [s \in Slots |-> 1] /\ inflight = [s \in Slots |-> 0]
    /\ handler = [s \in Slots |-> Nobody]
    /\ topic = [s \in Slots |-> AnyTopic] /\ policy \in [Slots -> {CHOOSE p \in Policies : TRUE}]
    /\ mailbox = [s \in Slots |-> <<>>] /\ ring = <<>>
    /\ shuttingDown = FALSE /\ joined = FALSE
    /\ async \in Modes
    /\ worker = [w \in Workers |-> IF async THEN Looping ELSE Gone]
    /\ thread = [t \in Threads |-> Idle]
    /\ holder = {} /\ asleep = {}
    /\ subscribed = 0 /\ published = 0
    /\ handle = [n \in Subscriptions |-> [slot |-> 1, gen |-> 0]]
    /\ ended = {}
    /\ last = [n \in Subscriptions |-> [t \in Threads |-> 0]]
-----------------------------------------------------------------------------
(* The mutex and the condition variable *)

MutexFree == holder = {}

(* t runs with the mutex: it kept it, or takes it after it was woken. *)
Runs(t) == holder = {t} \/ (MutexFree /\ t \notin asleep)

(* Mutant: nobody is woken. *)
BroadcastMutant == UNCHANGED asleep

Broadcast == asleep' = {}
Signal == IF asleep = {} THEN asleep' = {} ELSE \E x \in asleep : asleep' = asleep \ {x}
Sleep(x) == asleep' = asleep \cup {x}

(* A timed wait ends by itself. *)
TimerWakes(t) ==
    /\ t \in asleep
    /\ asleep' = asleep \ {t}
    /\ UNCHANGED <<slotVars, mailbox, ring, shuttingDown, joined, worker, thread, holder,
                   subscribed, published, history>>

Become(t, call) == thread' = [thread EXCEPT ![t] = call]

(* ready_push_locked, for a mailbox that is to be m *)
ReadyPush(s, m) ==
    IF s \notin Range(ring) /\ ~busy[s] /\ active[s] /\ m # <<>>
    THEN ring' = Append(ring, s) /\ Signal
    ELSE UNCHANGED <<ring, asleep>>

(* ready_remove_slot_locked: a slot is in the ring once at most. *)
ReadyRemove(s) ==
    IF s \in Range(ring)
    THEN \E k \in DOMAIN ring : ring[k] = s /\ ring' = RemoveAt(ring, k)
    ELSE UNCHANGED ring
-----------------------------------------------------------------------------
(* subscribe and unsubscribe *)

(* A slot whose unsubscribe timed out keeps its handler and is not free. *)
Unused(s) == ~active[s] /\ inflight[s] = 0 /\ handler[s] = Nobody

Subscribe(e, p) ==
    /\ MutexFree /\ ~shuttingDown /\ subscribed < MaxSubscriptions
    /\ \E s \in Slots :
        /\ Unused(s) /\ \A i \in 1..(s - 1) : ~Unused(i)
        /\ active' = [active EXCEPT ![s] = TRUE]
        /\ handler' = [handler EXCEPT ![s] = subscribed + 1]
        /\ topic' = [topic EXCEPT ![s] = e]
        /\ policy' = [policy EXCEPT ![s] = p]
        /\ handle' = [handle EXCEPT ![subscribed + 1] = [slot |-> s, gen |-> generation[s]]]
    /\ subscribed' = subscribed + 1
    /\ UNCHANGED <<generation, inflight, busy, mailbox, ring, shuttingDown, joined, worker,
                   thread, holder, asleep, published, async, ended, last>>

(* A handle of another generation is refused; the slot is deactivated and  *)
(* its mailbox dropped at once, then the handlers in flight are waited for.*)
Unsubscribe(t, n) ==
    /\ "unsubscribe" \in Calls[t]
    /\ MutexFree /\ thread[t] = Idle /\ n <= subscribed
    /\ LET s == handle[n].slot IN
        /\ generation[s] = handle[n].gen
        /\ IF active[s]
           THEN /\ active' = [active EXCEPT ![s] = FALSE]
                /\ ReadyRemove(s)
                /\ mailbox' = [mailbox EXCEPT ![s] = <<>>]
                /\ Broadcast
           ELSE UNCHANGED <<active, ring, mailbox, asleep>>
    /\ Become(t, [op |-> "unsubscribe", sub |-> n])
    /\ holder' = {t}
    /\ UNCHANGED <<generation, handler, topic, policy, inflight, busy, shuttingDown, joined,
                   worker, subscribed, published, history>>

UnsubscribeWaits(t) ==
    /\ thread[t].op = "unsubscribe" /\ Runs(t)
    /\ inflight[handle[thread[t].sub].slot] > 0
    /\ Sleep(t) /\ holder' = {}
    /\ UNCHANGED <<slotVars, mailbox, ring, shuttingDown, joined, worker, thread, subscribed,
                   published, history>>

UnsubscribeTimeout(t) ==
    /\ thread[t].op = "unsubscribe" /\ Runs(t)
    /\ inflight[handle[thread[t].sub].slot] > 0
    /\ Become(t, Idle) /\ holder' = {}
    /\ UNCHANGED <<slotVars, mailbox, ring, shuttingDown, joined, worker, asleep, subscribed,
                   published, history>>

Freed(t) ==
    LET s == handle[thread[t].sub].slot IN
    /\ handler' = [handler EXCEPT ![s] = Nobody]
    /\ generation' = [generation EXCEPT ![s] = @ + 1]
    /\ ended' = ended \cup {thread[t].sub}
    /\ Become(t, Idle) /\ holder' = {}
    /\ UNCHANGED <<active, topic, policy, inflight, busy, mailbox, ring, shuttingDown, joined,
                   worker, asleep, subscribed, published, async, handle, last>>

(* Mutant: unsubscribe does not wait for the handler in flight. *)
UnsubscribeReturnMutant(t) ==
    /\ thread[t].op = "unsubscribe" /\ Runs(t)
    /\ Freed(t)

UnsubscribeReturn(t) ==
    /\ thread[t].op = "unsubscribe" /\ Runs(t)
    /\ inflight[handle[thread[t].sub].slot] = 0
    /\ Freed(t)
-----------------------------------------------------------------------------
(* publish, asynchronous: the set of matching slots is computed once, then *)
(* every slot of it that is still active gets the event, in their order.   *)

Matching(e) == {s \in Slots : active[s] /\ topic[s] \in {e, AnyTopic}}

Publish(t, e) ==
    /\ async /\ MutexFree /\ ~shuttingDown
    /\ thread[t] = Idle /\ published < MaxEvents
    /\ published' = published + 1
    /\ Become(t, [op |-> "publish", event |-> [by |-> t, n |-> published + 1],
                  left |-> Matching(e)])
    /\ holder' = {t}
    /\ UNCHANGED <<slotVars, mailbox, ring, shuttingDown, joined, worker, asleep, subscribed,
                   history>>

Current(t) == Min(thread[t].left)
NextSlot(t) ==
    /\ Become(t, [op |-> "publish", event |-> thread[t].event,
                  left |-> thread[t].left \ {Current(t)}])
    /\ holder' = {t}
Full(s) == Len(mailbox[s]) >= Capacity

(* Mutant: the event takes the place of the oldest. *)
CoalesceHeadMutant(m, p, event) ==
    IF Len(m) < Capacity THEN Append(m, event)
    ELSE CASE p = "oldest" -> Append(Tail(m), event)
           [] p = "coalesce" -> <<event>> \o Tail(m)
           [] OTHER -> m

(* enqueue_for_subscriber_locked, when it does not wait *)
Enqueued(m, p, event) ==
    IF Len(m) < Capacity THEN Append(m, event)
    ELSE CASE p = "newest" -> m
           [] p = "oldest" -> Append(Tail(m), event)
           [] p = "coalesce" -> Append(Front(m), event)
           [] OTHER -> m

(* An event that is dropped, or takes the place of another, makes no slot  *)
(* ready.                                                                  *)
Enqueue(t) ==
    LET s == Current(t)
        m == Enqueued(mailbox[s], policy[s], thread[t].event)
    IN  /\ mailbox' = [mailbox EXCEPT ![s] = m]
        /\ IF Full(s) /\ policy[s] # "oldest" THEN UNCHANGED <<ring, asleep>> ELSE ReadyPush(s, m)
        /\ NextSlot(t)
        /\ UNCHANGED <<slotVars, shuttingDown, joined, worker, subscribed, published, history>>

SkipSlot(t) ==
    /\ NextSlot(t)
    /\ UNCHANGED <<slotVars, mailbox, ring, shuttingDown, joined, worker, asleep, subscribed,
                   published, history>>

WaitForRoom(t) ==
    /\ Become(t, [op |-> "blocked", event |-> thread[t].event, left |-> thread[t].left,
                  gen |-> generation[Current(t)], sub |-> handler[Current(t)]])
    /\ Sleep(t) /\ holder' = {}
    /\ UNCHANGED <<slotVars, mailbox, ring, shuttingDown, joined, worker, subscribed,
                   published, history>>

Walking(t) == thread[t].op = "publish" /\ holder = {t} /\ thread[t].left # {}
MustWait(s) == Full(s) /\ policy[s] = "block"

PublishSkips(t) == Walking(t) /\ ~active[Current(t)] /\ SkipSlot(t)
PublishEnqueues(t) ==
    Walking(t) /\ active[Current(t)] /\ ~MustWait(Current(t)) /\ Enqueue(t)
PublishBlocks(t) ==
    Walking(t) /\ active[Current(t)] /\ MustWait(Current(t)) /\ WaitForRoom(t)

PublishReturns(t) ==
    /\ thread[t].op = "publish" /\ holder = {t} /\ thread[t].left = {}
    /\ Become(t, Idle) /\ holder' = {}
    /\ UNCHANGED <<slotVars, mailbox, ring, shuttingDown, joined, worker, asleep, subscribed,
                   published, history>>

Blocked(t) == thread[t].op = "blocked" /\ MutexFree /\ t \notin asleep

(* Mutant: a slot that was reused is taken for the same. *)
ChangedMutant(t) == ~active[Current(t)]

Changed(t) == ~active[Current(t)] \/ generation[Current(t)] # thread[t].gen

BlockedTimeout(t) == Blocked(t) /\ SkipSlot(t)
BlockedCancelled(t) == Blocked(t) /\ (shuttingDown \/ Changed(t)) /\ SkipSlot(t)
BlockedAgain(t) ==
    /\ Blocked(t) /\ ~shuttingDown /\ ~Changed(t)
    /\ MustWait(Current(t))
    /\ WaitForRoom(t)
BlockedEnqueues(t) ==
    /\ Blocked(t) /\ ~shuttingDown /\ ~Changed(t)
    /\ ~MustWait(Current(t))
    /\ Enqueue(t)
-----------------------------------------------------------------------------
(* publish, synchronous: every matching subscriber is counted as in flight *)
(* before the first handler is called.                                     *)

PublishSync(t, e) ==
    /\ ~async /\ MutexFree /\ ~shuttingDown
    /\ thread[t] = Idle /\ published < MaxEvents
    /\ published' = published + 1
    /\ LET m == Matching(e) IN
        /\ m # {}
        /\ inflight' = [s \in Slots |-> inflight[s] + (IF s \in m THEN 1 ELSE 0)]
        /\ Become(t, [op |-> "deliver", event |-> [by |-> t, n |-> published + 1],
                      left |-> {[slot |-> s, gen |-> generation[s], sub |-> handler[s]] : s \in m}])
    /\ UNCHANGED <<active, generation, handler, topic, policy, busy, mailbox, ring, shuttingDown,
                   joined, worker, holder, asleep, subscribed, history>>

(* The handler of the first snapshot returns. *)
SyncHandlerReturns(t) ==
    /\ thread[t].op = "deliver" /\ MutexFree
    /\ \E v \in thread[t].left :
        /\ \A u \in thread[t].left : v.slot <= u.slot
        /\ inflight' = IF generation[v.slot] = v.gen /\ inflight[v.slot] > 0
                       THEN [inflight EXCEPT ![v.slot] = @ - 1] ELSE inflight
        /\ Become(t, IF thread[t].left = {v} THEN Idle
                     ELSE [op |-> "deliver", event |-> thread[t].event,
                           left |-> thread[t].left \ {v}])
    /\ Broadcast
    /\ UNCHANGED <<active, generation, handler, topic, policy, busy, mailbox, ring, shuttingDown,
                   joined, worker, holder, subscribed, published, history>>
-----------------------------------------------------------------------------
(* event_worker_main *)

Deliverable(s) == active[s] /\ ~busy[s] /\ mailbox[s] # <<>>
AtLoop(w) == worker[w] = Looping /\ w \notin asleep /\ MutexFree

(* ready_pop_locked passes over slots that have nothing to deliver. *)
WorkerTakes(w) ==
    /\ AtLoop(w)
    /\ \E k \in DOMAIN ring :
        /\ Deliverable(ring[k]) /\ \A i \in 1..(k - 1) : ~Deliverable(ring[i])
        /\ LET s == ring[k]
               event == Head(mailbox[s])
           IN  /\ ring' = SubSeq(ring, k + 1, Len(ring))
               /\ mailbox' = [mailbox EXCEPT ![s] = Tail(@)]
               /\ busy' = [busy EXCEPT ![s] = TRUE]
               /\ inflight' = [inflight EXCEPT ![s] = @ + 1]
               /\ worker' = [worker EXCEPT ![w] =
                     [at |-> "handling", slot |-> s, event |-> event, sub |-> handler[s]]]
               /\ last' = IF handler[s] = Nobody THEN last
                          ELSE [last EXCEPT ![handler[s]][event.by] = event.n]
    /\ Broadcast
    /\ UNCHANGED <<active, generation, handler, topic, policy, shuttingDown, joined, thread,
                   holder, subscribed, published, async, handle, ended>>

NothingReady == \A s \in Range(ring) : ~Deliverable(s)

WorkerWaits(w) ==
    /\ AtLoop(w) /\ NothingReady /\ ~shuttingDown
    /\ ring' = <<>> /\ Sleep(w)
    /\ UNCHANGED <<slotVars, mailbox, shuttingDown, joined, worker, thread, holder, subscribed,
                   published, history>>

WorkerExits(w) ==
    /\ AtLoop(w) /\ NothingReady /\ shuttingDown
    /\ ring' = <<>>
    /\ worker' = [worker EXCEPT ![w] = Gone]
    /\ UNCHANGED <<slotVars, mailbox, shuttingDown, joined, thread, holder, asleep, subscribed,
                   published, history>>

(* Mutant: the slot is not made ready again. *)
HandlerReturnsMutant(w) ==
    /\ Handling(w) /\ MutexFree
    /\ LET s == worker[w].slot IN
        /\ busy' = [busy EXCEPT ![s] = FALSE]
        /\ inflight' = [inflight EXCEPT ![s] = IF @ > 0 THEN @ - 1 ELSE 0]
    /\ worker' = [worker EXCEPT ![w] = Looping]
    /\ Broadcast
    /\ UNCHANGED <<active, generation, handler, topic, policy, mailbox, ring, shuttingDown, joined,
                   thread, holder, subscribed, published, history>>

(* The handler returns; the broadcast also covers the signal of the push.  *)
HandlerReturns(w) ==
    /\ Handling(w) /\ MutexFree
    /\ LET s == worker[w].slot IN
        /\ busy' = [busy EXCEPT ![s] = FALSE]
        /\ inflight' = [inflight EXCEPT ![s] = IF @ > 0 THEN @ - 1 ELSE 0]
        /\ ring' = IF s \notin Range(ring) /\ active[s] /\ mailbox[s] # <<>>
                   THEN Append(ring, s) ELSE ring
    /\ worker' = [worker EXCEPT ![w] = Looping]
    /\ Broadcast
    /\ UNCHANGED <<active, generation, handler, topic, policy, mailbox, shuttingDown, joined,
                   thread, holder, subscribed, published, history>>
-----------------------------------------------------------------------------
(* flush and shutdown *)

Drained == \A s \in Slots : mailbox[s] = <<>> /\ inflight[s] = 0

Flush(t) ==
    /\ "flush" \in Calls[t] /\ async
    /\ MutexFree /\ thread[t] = Idle
    /\ Become(t, [op |-> "flush"])
    /\ UNCHANGED <<slotVars, mailbox, ring, shuttingDown, joined, worker, holder, asleep,
                   subscribed, published, history>>

Shutdown(t) ==
    /\ "shutdown" \in Calls[t]
    /\ MutexFree /\ thread[t] = Idle /\ ~joined
    /\ \A u \in Threads : thread[u].op \notin {"shutdown", "join"}
    /\ shuttingDown' = TRUE
    /\ Broadcast
    /\ Become(t, [op |-> "shutdown"])
    /\ UNCHANGED <<slotVars, mailbox, ring, joined, worker, holder, subscribed, published,
                   history>>

FlushWaits(t) ==
    /\ thread[t].op \in {"flush", "shutdown"} /\ Runs(t)
    /\ async /\ ~Drained
    /\ Sleep(t)
    /\ UNCHANGED <<slotVars, mailbox, ring, shuttingDown, joined, worker, thread, holder,
                   subscribed, published, history>>

FlushTimeout(t) ==
    /\ thread[t].op \in {"flush", "shutdown"} /\ Runs(t)
    /\ async /\ ~Drained
    /\ Become(t, Idle)
    /\ UNCHANGED <<slotVars, mailbox, ring, shuttingDown, joined, worker, holder, asleep,
                   subscribed, published, history>>

FlushReturns(t) ==
    /\ thread[t].op = "flush" /\ Runs(t)
    /\ Drained
    /\ Become(t, Idle)
    /\ UNCHANGED <<slotVars, mailbox, ring, shuttingDown, joined, worker, holder, asleep,
                   subscribed, published, history>>

(* The synchronous bus does not wait for the handlers in flight. *)
ShutdownDrained(t) ==
    /\ thread[t].op = "shutdown" /\ Runs(t)
    /\ ~async \/ Drained
    /\ Broadcast
    /\ Become(t, [op |-> "join"])
    /\ UNCHANGED <<slotVars, mailbox, ring, shuttingDown, joined, worker, holder, subscribed,
                   published, history>>

ShutdownReturns(t) ==
    /\ thread[t].op = "join"
    /\ \A w \in Workers : worker[w] = Gone
    /\ joined' = TRUE
    /\ Become(t, Idle)
    /\ UNCHANGED <<slotVars, mailbox, ring, shuttingDown, worker, holder, asleep, subscribed,
                   published, history>>
-----------------------------------------------------------------------------
PublishStep(t) ==
    \/ PublishSkips(t) \/ PublishEnqueues(t) \/ PublishBlocks(t) \/ PublishReturns(t)
    \/ BlockedCancelled(t) \/ BlockedAgain(t) \/ BlockedEnqueues(t)
UnsubscribeStep(t) == UnsubscribeWaits(t) \/ UnsubscribeReturn(t)
FlushStep(t) == FlushWaits(t) \/ FlushReturns(t) \/ ShutdownDrained(t) \/ ShutdownReturns(t)
Timeout(t) == BlockedTimeout(t) \/ UnsubscribeTimeout(t) \/ FlushTimeout(t) \/ TimerWakes(t)
Continue(t) == PublishStep(t) \/ SyncHandlerReturns(t) \/ UnsubscribeStep(t) \/ FlushStep(t)
WorkerStep(w) == WorkerTakes(w) \/ WorkerWaits(w) \/ WorkerExits(w)

Caller(t) ==
    \/ \E n \in Subscriptions : Unsubscribe(t, n)
    \/ \E e \in Topics : Publish(t, e) \/ PublishSync(t, e)
    \/ Flush(t) \/ Shutdown(t)
    \/ Continue(t) \/ Timeout(t)

Next ==
    \/ \E e \in Topics \cup {AnyTopic}, p \in Policies : Subscribe(e, p)
    \/ \E t \in Threads : Caller(t)
    \/ \E w \in Workers : WorkerStep(w) \/ HandlerReturns(w)

Spec == Init /\ [][Next]_vars

(* Whoever keeps asking for the mutex gets it, and handlers return; no     *)
(* timeout is needed.                                                      *)
Fairness ==
    /\ \A t \in Threads : SF_vars(Continue(t))
    /\ \A w \in Workers : SF_vars(WorkerStep(w) \/ HandlerReturns(w))

FairSpec == Spec /\ Fairness
-----------------------------------------------------------------------------
(* Safety *)

(* The calls of handlers by workers that are under way *)
WorkerCalls == {w \in Workers : Handling(w)}

(* After unsubscribe returned success its handler is not running and will  *)
(* never be called again, although workers and publishers call handlers    *)
(* from copies taken without the mutex.                                    *)
NoLateHandler ==
    /\ \A w \in WorkerCalls : worker[w].sub \notin ended
    /\ \A t \in Threads : thread[t].op = "deliver" =>
          \A v \in thread[t].left : v.sub \notin ended

(* A handler is called by one worker at a time and gets the events of each *)
(* publisher in the order they were published.                             *)
InOrder ==
    /\ \A v, w \in WorkerCalls : worker[v].slot = worker[w].slot => v = w
    /\ \A s \in Slots : handler[s] # Nobody =>
          \A j \in DOMAIN mailbox[s] :
              /\ mailbox[s][j].n > last[handler[s]][mailbox[s][j].by]
              /\ \A k \in (j + 1)..Len(mailbox[s]) :
                    mailbox[s][j].by = mailbox[s][k].by => mailbox[s][j].n < mailbox[s][k].n

(* A worker does not sleep while a slot is ready and the workers that are  *)
(* awake are all busy with handlers: a slow handler delays no other slot.  *)
(* TLC refutes it: README, section 9.                                      *)
SlowHandlerIsolated ==
    ring # <<>> /\ MutexFree /\ (\E w \in Workers : w \in asleep) =>
        \E w \in Workers : AtLoop(w)

(* What shutdown drained stays drained: no event is accepted that nobody   *)
(* will deliver.  TLC refutes it: README, section 9.                       *)
NothingLeftBehind == joined => \A s \in Slots : mailbox[s] = <<>>

(* A publisher that waited for room in a mailbox puts its event there only *)
(* if the slot still belongs to the subscription it waited for: the slot   *)
(* may have been given up and taken by another while the mutex was free.   *)
WaitKeepsSubscription ==
    [][\A t \in Threads :
          BlockedEnqueues(t) => handler[Current(t)] = thread[t].sub]_vars
-----------------------------------------------------------------------------
(* Liveness *)

(* An event that a publisher, released by shutdown, put into its next slot  *)
(* when the workers had left: each of them leaves the ring empty, so what  *)
(* is in it afterwards came later (README, section 9).                     *)
LeftBehind(s) == (\A w \in Workers : worker[w] = Gone) /\ s \in Range(ring)

(* What is in a mailbox is delivered or dropped in the end, unless it came *)
(* after the workers had left.  ready_push wakes one sleeper, who may be a *)
(* publisher of another slot or a flush and go back to sleep: no event     *)
(* needs that signal, because no worker sleeps or leaves without a look at *)
(* the ring, and one that is in a handler comes back to it.                *)
EventsLeave == []<>(\A s \in Slots : mailbox[s] = <<>> \/ LeftBehind(s))

(* Waiting for room, for handlers in flight, for a drain: with handlers    *)
(* that return every call comes back without its timeout.  Only flush and  *)
(* shutdown need theirs, when an event was left behind.                    *)
CallsReturn ==
    \A t \in Threads :
        []<>(\/ thread[t] = Idle
             \/ thread[t].op \in {"flush", "shutdown"} /\ \E s \in Slots : LeftBehind(s))
=============================================================================
