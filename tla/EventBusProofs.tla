--------------------------- MODULE EventBusProofs ---------------------------
(* Safety of the event bus for any number of slots, threads and workers:   *)
(* who may call a handler, when a slot may change hands, and in which      *)
(* order a mailbox is filled.                                              *)
(*                                                                         *)
(* The generation of a slot and the handler in it change together, and     *)
(* only while no handler of the slot is in flight; that is what makes the  *)
(* copies workers and publishers take without the mutex safe.              *)
EXTENDS EventBus, FiniteSetTheorems, WellFoundedInduction, TLAPS

-----------------------------------------------------------------------------
(* The inductive invariant *)

Event == [by : Threads, n : Nat \ {0}]
Snapshot == [slot : Slots, gen : Nat, sub : 0..subscribed]
Publishing(t) == thread[t].op \in {"publish", "blocked"}
Delivering(t) == thread[t].op = "deliver"

SlotsTyped ==
    /\ active \in [Slots -> BOOLEAN] /\ busy \in [Slots -> BOOLEAN]
    /\ generation \in [Slots -> Nat] /\ inflight \in [Slots -> Nat]
    /\ handler \in [Slots -> 0..subscribed]
    /\ mailbox \in [Slots -> Seq(Event)] /\ ring \in Seq(Slots)

HistoryTyped ==
    /\ async \in BOOLEAN
    /\ subscribed \in 0..MaxSubscriptions /\ published \in Nat
    /\ handle \in [Subscriptions -> [slot : Slots, gen : Nat]]
    /\ ended \subseteq 1..subscribed
    /\ last \in [Subscriptions -> [Threads -> Nat]]

ThreadsTyped ==
    /\ thread = [t \in Threads |-> thread[t]]
    /\ \A t \in Threads :
        /\ thread[t].op = "unsubscribe" => thread[t].sub \in 1..subscribed
        /\ Publishing(t) => /\ thread[t].left \subseteq Slots
                            /\ thread[t].event \in Event
                            /\ thread[t].event.by = t /\ thread[t].event.n <= published
        /\ thread[t].op = "blocked" => thread[t].left # {} /\ thread[t].gen \in Nat
        /\ Delivering(t) => thread[t].left \subseteq Snapshot /\ ~async

WorkersTyped ==
    /\ worker = [w \in Workers |-> worker[w]]
    /\ \A w \in Workers :
        /\ Handling(w) => worker[w].slot \in Slots /\ worker[w].sub \in 0..subscribed
        /\ ~async => worker[w] = Gone

Typed == SlotsTyped /\ HistoryTyped /\ ThreadsTyped /\ WorkersTyped

(* A subscription whose generation its slot still has is the one in it.    *)
Owned ==
    /\ \A s \in Slots : handler[s] # Nobody =>
          /\ handle[handler[s]] = [slot |-> s, gen |-> generation[s]]
          /\ handler[s] \notin ended
    /\ \A n \in 1..subscribed :
          /\ handle[n].gen <= generation[handle[n].slot]
          /\ handle[n].gen = generation[handle[n].slot] => handler[handle[n].slot] = n

(* A worker calls a handler of a slot that is busy with it, has it in      *)
(* flight and is still of the generation of the handler.                   *)
Called ==
    /\ \A w \in WorkerCalls :
        LET s == worker[w].slot
            n == worker[w].sub
        IN  /\ busy[s] /\ inflight[s] > 0
            /\ n # Nobody => /\ n \notin ended
                             /\ handle[n] = [slot |-> s, gen |-> generation[s]]
    /\ \A v, w \in WorkerCalls : worker[v].slot = worker[w].slot => v = w

(* The publishers that have the handler of slot s in flight or before them *)
InCallsOf(s) == {t \in Threads : Delivering(t) /\ \E v \in thread[t].left : v.slot = s}

Delivered ==
    /\ \A t \in Threads : Delivering(t) =>
        /\ \A v \in thread[t].left :
            /\ v.gen = generation[v.slot]
            /\ v.sub # Nobody => v.sub \notin ended /\ handle[v.sub].slot = v.slot
        /\ \A u, v \in thread[t].left : u.slot = v.slot => u = v
    /\ ~async => \A s \in Slots : inflight[s] = Cardinality(InCallsOf(s))

(* While a slot keeps the generation a publisher waits for, it keeps its   *)
(* handler; one that has none (a second unsubscribe of the same handle     *)
(* cleared it) is not free.                                                *)
Waited ==
    \A t \in Threads : thread[t].op = "blocked" =>
        LET s == Current(t) IN
        /\ thread[t].gen <= generation[s]
        /\ thread[t].gen = generation[s] =>
            handler[s] = thread[t].sub /\ (handler[s] # Nobody \/ active[s])

(* The events of one publisher are in a mailbox in rising order, after     *)
(* what the handler had of them and before what is still to come.          *)
Rising(m) == \A j, k \in DOMAIN m : j < k /\ m[j].by = m[k].by => m[j].n < m[k].n

Above(m, event) == \A j \in DOMAIN m : m[j].by = event.by => m[j].n < event.n

Filed ==
    /\ \A s \in Slots :
        /\ ~active[s] => mailbox[s] = <<>>
        /\ Rising(mailbox[s])
        /\ \A j \in DOMAIN mailbox[s] : mailbox[s][j].n <= published
        /\ handler[s] # Nobody => \A j \in DOMAIN mailbox[s] :
                mailbox[s][j].n > last[handler[s]][mailbox[s][j].by]
    /\ \A n \in Subscriptions, t \in Threads :
        last[n][t] <= published /\ (n > subscribed => last[n][t] = 0)
    /\ \A t \in Threads : Publishing(t) => \A s \in thread[t].left :
        /\ Above(mailbox[s], thread[t].event)
        /\ handler[s] # Nobody => last[handler[s]][t] < thread[t].event.n

IInv == Typed /\ Owned /\ Called /\ Delivered /\ Waited /\ Filed

-----------------------------------------------------------------------------
(* Basic facts *)

LEMMA BecomeMoves ==
    ASSUME Typed, NEW t \in Threads, NEW call, Become(t, call)
    PROVE  /\ thread' = [u \in Threads |-> thread'[u]]
           /\ thread'[t] = call
           /\ \A u \in Threads \ {t} : thread'[u] = thread[u]
BY DEF Become, Typed, ThreadsTyped

(* The next slot of a publisher is one of those left to it. *)
LEMMA SmallestSlot ==
    ASSUME NEW S, S \subseteq Slots, S # {}
    PROVE  Min(S) \in S
<1>1. S \subseteq Nat
    BY Assumption DEF Assumption, Slots
<1>2. PICK s \in S : \A r \in S : <<r, s>> \notin OpToRel(<, Nat)
    BY <1>1, WFMin, NatLessThanWellFounded, Zenon
<1>3. \A r \in S : s <= r
    <2>1. \A r \in S : r \in Nat /\ s \in Nat /\ ~(r < s)
        BY <1>1, <1>2, Zenon DEF OpToRel
    <2>2. QED
        BY <2>1
<1>4. QED
    BY <1>3 DEF Min

LEMMA CurrentIsLeft ==
    ASSUME Typed, NEW t \in Threads, Publishing(t), thread[t].left # {}
    PROVE  Current(t) \in thread[t].left /\ Current(t) \in Slots
BY SmallestSlot DEF Current, Typed, ThreadsTyped

LEMMA SubscribedAre ==
    ASSUME HistoryTyped
    PROVE  1..subscribed \subseteq Subscriptions /\ subscribed \in Nat
BY Assumption DEF Assumption, HistoryTyped, Subscriptions

LEMMA RingKeeps ==
    ASSUME ring \in Seq(Slots)
    PROVE  /\ \A s \in Slots : Append(ring, s) \in Seq(Slots)
           /\ \A s : ReadyRemove(s) => ring' \in Seq(Slots)
           /\ \A k \in DOMAIN ring : SubSeq(ring, k + 1, Len(ring)) \in Seq(Slots)
           /\ \A k \in DOMAIN ring : ring[k] \in Slots
<1>1. ASSUME NEW s, ReadyRemove(s) PROVE ring' \in Seq(Slots)
    <2>1. CASE UNCHANGED ring
        BY <2>1
    <2>2. CASE \E k \in DOMAIN ring : ring' = RemoveAt(ring, k)
        <3>1. \E k \in 1..Len(ring) : ring' = SubSeq(ring, 1, k - 1) \o SubSeq(ring, k + 1, Len(ring))
            <4>1. DOMAIN ring = 1..Len(ring)
                OBVIOUS
            <4>2. QED
                BY <2>2, <4>1, Zenon DEF RemoveAt
        <3>2. \A k \in 1..Len(ring) : /\ SubSeq(ring, 1, k - 1) \in Seq(Slots)
                                      /\ SubSeq(ring, k + 1, Len(ring)) \in Seq(Slots)
            OBVIOUS
        <3>3. QED
            BY <3>1, <3>2
    <2>3. QED
        BY <1>1, <2>1, <2>2 DEF ReadyRemove
<1>2. QED
    BY <1>1

LEMMA PushKeepsRing ==
    ASSUME ring \in Seq(Slots), NEW s \in Slots, NEW m, ReadyPush(s, m)
    PROVE  ring' \in Seq(Slots)
BY DEF ReadyPush

-----------------------------------------------------------------------------
(* Steps that concern nobody's handlers and events *)

Resting == {"idle", "flush", "shutdown", "join"}

Restful ==
    /\ UNCHANGED <<slotVars, mailbox, subscribed, published, history>>
    /\ ring' \in Seq(Slots)
    /\ worker' = [w \in Workers |-> worker'[w]]
    /\ \A w \in Workers : worker'[w] = worker[w] \/ (~Handling(w) /\ worker'[w] = Gone)
    /\ \/ UNCHANGED thread
       \/ \E t \in Threads : \E call :
            Become(t, call) /\ call.op \in Resting /\ ~Delivering(t)

LEMMA RestfulKeeps == ASSUME IInv, Restful PROVE IInv'
<1>1. UNCHANGED <<active, generation, handler, inflight, busy, mailbox, subscribed, published,
                  async, handle, ended, last>>
    BY DEF Restful, slotVars, history
<1>2. \/ UNCHANGED thread
      \/ \E t \in Threads : \E call :
            /\ call.op \in Resting /\ ~Delivering(t)
            /\ thread' = [u \in Threads |-> thread'[u]]
            /\ thread'[t] = call /\ \A u \in Threads \ {t} : thread'[u] = thread[u]
    BY BecomeMoves DEF Restful, IInv
<1>3. /\ thread' = [u \in Threads |-> thread'[u]]
      /\ \A u \in Threads : \/ thread'[u] = thread[u]
                            \/ thread'[u].op \in Resting /\ ~Delivering(u)
    BY <1>2 DEF IInv, Typed, ThreadsTyped
<1>4. Typed'
    <2>1. SlotsTyped' /\ HistoryTyped'
        BY <1>1 DEF IInv, Typed, SlotsTyped, HistoryTyped, Restful
    <2>2. ThreadsTyped'
        BY <1>1, <1>3 DEF IInv, Typed, ThreadsTyped, Publishing, Delivering, Resting, Snapshot
    <2>3. WorkersTyped'
        BY <1>1 DEF IInv, Typed, WorkersTyped, Restful, Handling, Gone
    <2>4. QED
        BY <2>1, <2>2, <2>3 DEF Typed
<1>5. Owned'
    BY <1>1 DEF IInv, Owned
<1>6. Called'
    <2>1. \A w \in Workers : w \in WorkerCalls' => w \in WorkerCalls /\ worker'[w] = worker[w]
        BY DEF Restful, WorkerCalls, Handling, Gone
    <2>2. QED
        BY <1>1, <2>1 DEF IInv, Called, WorkerCalls
<1>7. Delivered'
    <2>1. \A u \in Threads : Delivering(u)' <=> Delivering(u)
        BY <1>3 DEF Delivering, Resting
    <2>2. \A u \in Threads : Delivering(u) => thread'[u] = thread[u]
        BY <1>3 DEF Delivering
    <2>3. \A s \in Slots : InCallsOf(s)' = InCallsOf(s)
        BY <2>1, <2>2 DEF InCallsOf
    <2>4. QED
        BY <1>1, <2>1, <2>2, <2>3 DEF IInv, Delivered
<1>8. Waited'
    BY <1>1, <1>3 DEF IInv, Waited, Current, Resting
<1>9. Filed'
    <2>1. \A u \in Threads : Publishing(u)' => Publishing(u) /\ thread'[u] = thread[u]
        BY <1>3 DEF Publishing, Resting
    <2>2. QED
        BY <1>1, <2>1 DEF IInv, Filed
<1>10. QED
    BY <1>4, <1>5, <1>6, <1>7, <1>8, <1>9 DEF IInv

-----------------------------------------------------------------------------
(* subscribe and unsubscribe *)

LEMMA SubscribeKeeps ==
    ASSUME IInv, NEW e, NEW p, Subscribe(e, p)
    PROVE  IInv'
<1> DEFINE n == subscribed + 1
<1>1. PICK s \in Slots :
        /\ Unused(s)
        /\ active' = [active EXCEPT ![s] = TRUE]
        /\ handler' = [handler EXCEPT ![s] = subscribed + 1]
        /\ handle' = [handle EXCEPT ![subscribed + 1] = [slot |-> s, gen |-> generation[s]]]
    BY DEF Subscribe
<1>2. /\ subscribed < MaxSubscriptions /\ subscribed' = subscribed + 1
      /\ UNCHANGED <<generation, inflight, busy, mailbox, ring, worker, thread, published, async,
                     ended, last>>
    BY DEF Subscribe
<1>3. /\ SlotsTyped /\ HistoryTyped /\ ThreadsTyped /\ WorkersTyped
      /\ Owned /\ Called /\ Delivered /\ Waited /\ Filed
    BY DEF IInv, Typed
<1>4. ~active[s] /\ inflight[s] = 0 /\ handler[s] = Nobody
    BY <1>1 DEF Unused
<1>5. /\ subscribed \in Nat /\ MaxSubscriptions \in Nat /\ n \in Subscriptions /\ n # Nobody
      /\ n \notin ended
    BY <1>2, <1>3, Assumption DEF HistoryTyped, Assumption, Subscriptions, Nobody
<1>6. /\ handler'[s] = n /\ \A r \in Slots \ {s} : handler'[r] = handler[r]
      /\ active'[s] = TRUE /\ \A r \in Slots \ {s} : active'[r] = active[r]
      /\ handle'[n] = [slot |-> s, gen |-> generation[s]]
      /\ \A i \in Subscriptions \ {n} : handle'[i] = handle[i]
    BY <1>1, <1>3, <1>5 DEF SlotsTyped, HistoryTyped
<1>7. Typed'
    <2>1. SlotsTyped'
        BY <1>1, <1>2, <1>3, <1>5 DEF SlotsTyped
    <2>2. HistoryTyped'
        <3>1. handle' \in [Subscriptions -> [slot : Slots, gen : Nat]]
            BY <1>1, <1>3, <1>5 DEF HistoryTyped, SlotsTyped
        <3>2. QED
            BY <1>2, <1>3, <1>5, <3>1 DEF HistoryTyped
    <2>3. ThreadsTyped'
        BY <1>2, <1>3, <1>5 DEF ThreadsTyped, Publishing, Delivering, Snapshot
    <2>4. WorkersTyped'
        BY <1>2, <1>3, <1>5 DEF WorkersTyped, Handling
    <2>5. QED
        BY <2>1, <2>2, <2>3, <2>4 DEF Typed
<1>8. \A i \in 1..subscribed : i \in Subscriptions \ {n}
    BY <1>3, <1>5 DEF Subscriptions, HistoryTyped
<1>9. Owned'
    <2>1. ASSUME NEW r \in Slots, handler'[r] # Nobody
          PROVE  /\ handle'[handler'[r]] = [slot |-> r, gen |-> generation[r]]
                 /\ handler'[r] \notin ended
        <3>1. CASE r = s
            BY <1>5, <1>6, <3>1
        <3>2. CASE r # s
            <4>1. handler'[r] = handler[r] /\ handler[r] \in 1..subscribed
                BY <1>3, <1>6, <2>1, <3>2 DEF SlotsTyped, Nobody
            <4>2. QED
                BY <1>3, <1>6, <1>8, <2>1, <4>1 DEF Owned
        <3>3. QED
            BY <3>1, <3>2
    <2>2. ASSUME NEW i \in 1..(subscribed + 1)
          PROVE  /\ handle'[i].gen <= generation[handle'[i].slot]
                 /\ handle'[i].gen = generation[handle'[i].slot] => handler'[handle'[i].slot] = i
        <3>1. CASE i = n
            BY <1>3, <1>6, <3>1 DEF SlotsTyped
        <3>2. CASE i # n
            <4>1. i \in 1..subscribed /\ handle'[i] = handle[i]
                BY <1>5, <1>6, <1>8, <3>2
            <4>2. handle[i].slot \in Slots
                BY <1>3, <1>8, <4>1 DEF HistoryTyped
            <4>3. handle[i].slot = s => handle[i].gen # generation[s]
                BY <1>3, <1>4, <4>1 DEF Owned, Nobody
            <4>4. QED
                BY <1>3, <1>6, <4>1, <4>2, <4>3 DEF Owned
        <3>3. QED
            BY <3>1, <3>2
    <2>3. QED
        BY <1>2, <2>1, <2>2 DEF Owned
<1>10. Called'
    <2>1. WorkerCalls' = WorkerCalls
        BY <1>2 DEF WorkerCalls, Handling
    <2>2. ASSUME NEW w \in WorkerCalls, worker[w].sub # Nobody
          PROVE  handle'[worker[w].sub] = handle[worker[w].sub]
        BY <1>3, <1>6, <1>8, <2>2 DEF WorkersTyped, WorkerCalls, Nobody
    <2>3. QED
        BY <1>2, <1>3, <2>1, <2>2 DEF Called
<1>11. Delivered'
    <2>1. \A u : (Delivering(u)' <=> Delivering(u)) /\ thread'[u] = thread[u]
        BY <1>2 DEF Delivering
    <2>2. ASSUME NEW t \in Threads, Delivering(t), NEW v \in thread[t].left, v.sub # Nobody
          PROVE  handle'[v.sub] = handle[v.sub]
        <3>1. v.sub \in 1..subscribed
            BY <1>3, <2>2 DEF ThreadsTyped, Snapshot, Nobody
        <3>2. QED
            BY <1>6, <1>8, <3>1
    <2>3. \A r : InCallsOf(r)' = InCallsOf(r)
        BY <2>1 DEF InCallsOf
    <2>4. QED
        BY <1>2, <1>3, <2>1, <2>2, <2>3 DEF Delivered
<1>12. Waited'
    <2>1. ASSUME NEW t \in Threads, thread[t].op = "blocked"
          PROVE  /\ thread[t].gen <= generation[Current(t)]
                 /\ thread[t].gen = generation[Current(t)] =>
                      /\ handler'[Current(t)] = thread[t].sub
                      /\ handler'[Current(t)] # Nobody \/ active'[Current(t)]
        <3>1. Current(t) \in Slots
            BY <1>3, <2>1, CurrentIsLeft DEF IInv, Publishing, ThreadsTyped
        <3>2. Current(t) = s => thread[t].gen # generation[s]
            BY <1>3, <1>4, <2>1 DEF Waited
        <3>3. QED
            BY <1>3, <1>6, <2>1, <3>1, <3>2 DEF Waited
    <2>2. \A t : Current(t)' = Current(t)
        BY <1>2 DEF Current
    <2>3. QED
        BY <1>2, <2>1, <2>2 DEF Waited
<1>13. Filed'
    <2>1. mailbox[s] = <<>> /\ \A t \in Threads : last[n][t] = 0
        BY <1>3, <1>4, <1>5 DEF Filed
    <2>2. \A t : Publishing(t)' <=> Publishing(t)
        BY <1>2 DEF Publishing
    <2>3. ASSUME NEW t \in Threads, Publishing(t), NEW r \in thread[t].left, handler'[r] # Nobody
          PROVE  last[handler'[r]][t] < thread[t].event.n
        <3>1. r \in Slots /\ thread[t].event.n \in Nat \ {0}
            BY <1>3, <2>3 DEF ThreadsTyped, Event
        <3>2. QED
            BY <1>3, <1>6, <2>1, <2>3, <3>1 DEF Filed
    <2>4. ASSUME NEW r \in Slots
          PROVE  /\ ~active'[r] => mailbox[r] = <<>>
                 /\ handler'[r] # Nobody => \A j \in DOMAIN mailbox[r] :
                        mailbox[r][j].n > last[handler'[r]][mailbox[r][j].by]
        BY <1>3, <1>6, <2>1 DEF Filed
    <2>5. \A i \in Subscriptions, t \in Threads : i > subscribed + 1 => last[i][t] = 0
        BY <1>3, <1>5 DEF Filed, Subscriptions
    <2>6. QED
        BY <1>2, <1>3, <2>2, <2>3, <2>4, <2>5 DEF Filed, Above
<1>14. QED
    BY <1>7, <1>9, <1>10, <1>11, <1>12, <1>13 DEF IInv

LEMMA UnsubscribeKeeps ==
    ASSUME IInv, NEW t \in Threads, NEW n \in Subscriptions, Unsubscribe(t, n)
    PROVE  IInv'
<1> DEFINE s == handle[n].slot
<1>1. /\ SlotsTyped /\ HistoryTyped /\ ThreadsTyped /\ WorkersTyped
      /\ Owned /\ Called /\ Delivered /\ Waited /\ Filed
    BY DEF IInv, Typed
<1>2. /\ thread[t] = Idle /\ n <= subscribed /\ generation[s] = handle[n].gen
      /\ UNCHANGED <<generation, handler, inflight, busy, worker, subscribed, published, async,
                     handle, ended, last>>
      /\ Become(t, [op |-> "unsubscribe", sub |-> n])
    BY DEF Unsubscribe, history
<1>3. s \in Slots /\ n \in 1..subscribed
    BY <1>1, <1>2 DEF HistoryTyped, Subscriptions
<1>4. handler[s] = n /\ n # Nobody
    BY <1>1, <1>2, <1>3 DEF Owned, Nobody
<1>5. /\ ring' \in Seq(Slots) /\ active' \in [Slots -> BOOLEAN] /\ mailbox' \in [Slots -> Seq(Event)]
      /\ \A r \in Slots \ {s} : active'[r] = active[r] /\ mailbox'[r] = mailbox[r]
      /\ ~active'[s] /\ mailbox'[s] = <<>>
    <2>1. CASE active[s]
        <3>1. /\ active' = [active EXCEPT ![s] = FALSE] /\ ReadyRemove(s)
              /\ mailbox' = [mailbox EXCEPT ![s] = <<>>]
            BY <2>1 DEF Unsubscribe
        <3>2. ring' \in Seq(Slots)
            BY <3>1, <1>1, RingKeeps DEF SlotsTyped
        <3>3. active' \in [Slots -> BOOLEAN] /\ mailbox' \in [Slots -> Seq(Event)]
            BY <3>1, <1>1, <1>3 DEF SlotsTyped
        <3>4. QED
            BY <3>1, <3>2, <3>3, <1>1, <1>3 DEF SlotsTyped
    <2>2. CASE ~active[s]
        BY <2>2, <1>1, <1>3 DEF Unsubscribe, SlotsTyped, Filed
    <2>3. QED
        BY <2>1, <2>2
<1>6. /\ thread' = [u \in Threads |-> thread'[u]]
      /\ thread'[t] = [op |-> "unsubscribe", sub |-> n]
      /\ \A u \in Threads \ {t} : thread'[u] = thread[u]
    BY <1>2, BecomeMoves DEF IInv
<1>7. thread[t].op = "idle" /\ thread'[t].op = "unsubscribe" /\ thread'[t].sub = n
    BY <1>2, <1>6 DEF Idle
<1> HIDE DEF s
<1>8. Typed'
    <2>1. SlotsTyped' /\ HistoryTyped' /\ WorkersTyped'
        BY <1>1, <1>2, <1>5 DEF SlotsTyped, HistoryTyped, WorkersTyped, Handling
    <2>2. ThreadsTyped'
        BY <1>1, <1>2, <1>3, <1>6, <1>7 DEF ThreadsTyped, Publishing, Delivering, Snapshot
    <2>3. QED
        BY <2>1, <2>2 DEF Typed
<1>9. Owned'
    BY <1>1, <1>2 DEF Owned
<1>10. Called'
    BY <1>1, <1>2 DEF Called, WorkerCalls, Handling
<1>11. Delivered'
    <2>1. \A u \in Threads : (Delivering(u)' <=> Delivering(u)) /\ (Delivering(u) => thread'[u] = thread[u])
        BY <1>6, <1>7 DEF Delivering
    <2>2. \A r : InCallsOf(r)' = InCallsOf(r)
        BY <2>1 DEF InCallsOf
    <2>3. QED
        BY <1>1, <1>2, <2>1, <2>2 DEF Delivered
<1>12. Waited'
    <2>1. ASSUME NEW u \in Threads, thread'[u].op = "blocked"
          PROVE  /\ thread'[u].gen <= generation[Current(u)']
                 /\ thread'[u].gen = generation[Current(u)'] =>
                      /\ handler[Current(u)'] = thread'[u].sub
                      /\ handler[Current(u)'] # Nobody \/ active'[Current(u)']
        <3>1. u # t /\ thread'[u] = thread[u] /\ Current(u)' = Current(u)
            BY <1>6, <1>7, <2>1 DEF Current
        <3>2. Current(u) \in Slots
            BY <1>1, <2>1, <3>1, CurrentIsLeft DEF IInv, Publishing, ThreadsTyped
        <3>3. QED
            BY <1>1, <1>4, <1>5, <2>1, <3>1, <3>2 DEF Waited
    <2>2. QED
        BY <1>2, <2>1 DEF Waited
<1>13. Filed'
    <2>1. \A u \in Threads : Publishing(u)' => Publishing(u) /\ thread'[u] = thread[u]
        BY <1>6, <1>7 DEF Publishing
    <2>2. \A r \in Slots : mailbox'[r] = mailbox[r] \/ mailbox'[r] = <<>>
        BY <1>5
    <2>3. ASSUME NEW r \in Slots
          PROVE  /\ ~active'[r] => mailbox'[r] = <<>>
                 /\ Rising(mailbox'[r])
                 /\ \A j \in DOMAIN mailbox'[r] : mailbox'[r][j].n <= published
                 /\ handler[r] # Nobody => \A j \in DOMAIN mailbox'[r] :
                        mailbox'[r][j].n > last[handler[r]][mailbox'[r][j].by]
        <3>1. CASE r = s
            BY <1>5, <3>1 DEF Rising
        <3>2. CASE r # s
            BY <1>1, <1>5, <3>2 DEF Filed
        <3>3. QED
            BY <3>1, <3>2
    <2>4. ASSUME NEW u \in Threads, Publishing(u)', NEW r \in thread[u].left
          PROVE  /\ Above(mailbox'[r], thread[u].event)
                 /\ handler[r] # Nobody => last[handler[r]][u] < thread[u].event.n
        <3>1. r \in Slots /\ Publishing(u)
            BY <1>1, <2>1, <2>4 DEF ThreadsTyped
        <3>2. QED
            BY <1>1, <2>2, <3>1 DEF Filed, Above
    <2>5. QED
        BY <1>1, <1>2, <2>1, <2>3, <2>4 DEF Filed
<1>14. QED
    BY <1>8, <1>9, <1>10, <1>11, <1>12, <1>13 DEF IInv

(* A slot changes hands while no handler of it is in flight.               *)
LEMMA FreedKeeps ==
    ASSUME IInv, NEW t \in Threads, UnsubscribeReturn(t)
    PROVE  IInv'
<1> SUFFICES ASSUME NEW n, n = thread[t].sub, NEW s, s = handle[n].slot PROVE IInv'
    OBVIOUS
<1>1. /\ SlotsTyped /\ HistoryTyped /\ ThreadsTyped /\ WorkersTyped
      /\ Owned /\ Called /\ Delivered /\ Waited /\ Filed
    BY DEF IInv, Typed
<1>2. /\ thread[t].op = "unsubscribe" /\ inflight[s] = 0
      /\ handler' = [handler EXCEPT ![s] = Nobody]
      /\ generation' = [generation EXCEPT ![s] = @ + 1]
      /\ ended' = ended \cup {n}
      /\ Become(t, Idle)
      /\ UNCHANGED <<active, inflight, busy, mailbox, ring, worker, subscribed, published, async,
                     handle, last>>
    BY DEF UnsubscribeReturn, Freed
<1>3. n \in 1..subscribed /\ n \in Subscriptions /\ s \in Slots
    <2>1. n \in 1..subscribed
        BY <1>1, <1>2 DEF ThreadsTyped
    <2>2. QED
        BY <1>1, <2>1, SubscribedAre DEF HistoryTyped
<1>4. /\ handler'[s] = Nobody /\ \A r \in Slots \ {s} : handler'[r] = handler[r]
      /\ generation'[s] = generation[s] + 1 /\ generation[s] \in Nat
      /\ \A r \in Slots \ {s} : generation'[r] = generation[r]
    BY <1>1, <1>2, <1>3 DEF SlotsTyped
<1>5. /\ thread' = [u \in Threads |-> thread'[u]]
      /\ thread'[t].op = "idle" /\ \A u \in Threads \ {t} : thread'[u] = thread[u]
    BY <1>2, BecomeMoves DEF IInv, Idle
<1>6. Typed'
    <2>1. SlotsTyped'
        <3>1. Nobody \in 0..subscribed
            BY <1>1, SubscribedAre DEF Nobody
        <3>2. handler' \in [Slots -> 0..subscribed]
            BY <1>1, <1>2, <1>3, <3>1 DEF SlotsTyped
        <3>3. generation' \in [Slots -> Nat]
            <4>1. generation \in [Slots -> Nat]
                BY <1>1 DEF SlotsTyped
            <4>2. QED
                BY <4>1, <1>2, <1>3
        <3>4. QED
            BY <1>1, <1>2, <3>2, <3>3 DEF SlotsTyped
    <2>2. HistoryTyped' /\ WorkersTyped'
        BY <1>1, <1>2, <1>3 DEF HistoryTyped, WorkersTyped, Handling
    <2>3. ThreadsTyped'
        BY <1>1, <1>2, <1>5 DEF ThreadsTyped, Publishing, Delivering, Snapshot
    <2>4. QED
        BY <2>1, <2>2, <2>3 DEF Typed
<1>7. \A i \in 1..subscribed : handle[i].slot \in Slots /\ handle[i].gen \in Nat
    BY <1>1, SubscribedAre DEF HistoryTyped
<1>8. \A r \in Slots : handler[r] \in 0..subscribed
    BY <1>1 DEF SlotsTyped
<1>9. Owned'
    <2>1. ASSUME NEW r \in Slots, handler'[r] # Nobody
          PROVE  /\ handle[handler'[r]] = [slot |-> r, gen |-> generation'[r]]
                 /\ handler'[r] \notin ended \cup {n}
        <3>1. r # s /\ handler'[r] = handler[r] /\ generation'[r] = generation[r]
            BY <1>4, <2>1
        <3>2. handle[handler[r]].slot = r /\ handler[r] \notin ended
              /\ handle[handler[r]] = [slot |-> r, gen |-> generation[r]]
            BY <1>1, <2>1, <3>1 DEF Owned
        <3>3. QED
            BY <3>1, <3>2
    <2>2. ASSUME NEW i \in 1..subscribed
          PROVE  /\ handle[i].gen <= generation'[handle[i].slot]
                 /\ handle[i].gen = generation'[handle[i].slot] => handler'[handle[i].slot] = i
        <3>1. /\ handle[i].gen <= generation[handle[i].slot]
              /\ handle[i].gen = generation[handle[i].slot] => handler[handle[i].slot] = i
            BY <1>1 DEF Owned
        <3>2. CASE handle[i].slot = s
            BY <1>4, <1>7, <3>1, <3>2
        <3>3. CASE handle[i].slot # s
            BY <1>4, <1>7, <3>1, <3>3
        <3>4. QED
            BY <3>2, <3>3
    <2>3. handle' = handle /\ subscribed' = subscribed /\ ended' = ended \cup {n}
        BY <1>2
    <2>4. (\A r \in Slots : handler[r] # Nobody =>
               handle[handler[r]] = [slot |-> r, gen |-> generation[r]] /\ handler[r] \notin ended)'
        BY <2>1, <2>3
    <2>5. (\A i \in 1..subscribed :
               /\ handle[i].gen <= generation[handle[i].slot]
               /\ handle[i].gen = generation[handle[i].slot] => handler[handle[i].slot] = i)'
        BY <2>2, <2>3
    <2>6. QED
        BY <2>4, <2>5 DEF Owned
<1>10. Called'
    <2>1. WorkerCalls' = WorkerCalls
        BY <1>2 DEF WorkerCalls, Handling
    <2>2. ASSUME NEW w \in WorkerCalls
          PROVE  /\ worker[w].slot # s /\ generation'[worker[w].slot] = generation[worker[w].slot]
                 /\ worker[w].sub # Nobody => worker[w].sub # n
        <3>1. worker[w].slot \in Slots /\ inflight[worker[w].slot] > 0
            BY <1>1 DEF WorkersTyped, WorkerCalls, Called
        <3>2. worker[w].slot # s
            BY <1>2, <3>1
        <3>3. worker[w].sub # Nobody => handle[worker[w].sub].slot = worker[w].slot
            <4>1. worker[w].sub # Nobody =>
                    handle[worker[w].sub] = [slot |-> worker[w].slot,
                                             gen |-> generation[worker[w].slot]]
                BY <1>1 DEF Called
            <4>2. QED
                BY <4>1
        <3>4. QED
            BY <1>4, <3>1, <3>2, <3>3
    <2>3. QED
        BY <1>1, <1>2, <2>1, <2>2 DEF Called
<1>11. Delivered'
    <2>1. \A u \in Threads : (Delivering(u)' <=> Delivering(u)) /\ (Delivering(u) => thread'[u] = thread[u])
        BY <1>2, <1>5 DEF Delivering
    <2>2. \A r : InCallsOf(r)' = InCallsOf(r)
        BY <2>1 DEF InCallsOf
    <2>3. ASSUME NEW u \in Threads, Delivering(u), NEW v \in thread[u].left
          PROVE  v.slot \in Slots /\ v.slot # s
        <3>1. v.slot \in Slots /\ ~async
            BY <1>1, <2>3 DEF ThreadsTyped, Snapshot
        <3>2. u \in InCallsOf(v.slot) /\ IsFiniteSet(InCallsOf(v.slot))
            BY <2>3, Assumption, FS_Subset DEF InCallsOf, Assumption
        <3>3. inflight[v.slot] # 0
            BY <1>1, <3>1, <3>2, FS_EmptySet DEF Delivered
        <3>4. QED
            BY <1>2, <3>1, <3>3
    <2>4. ASSUME NEW u \in Threads, Delivering(u), NEW v \in thread[u].left
          PROVE  /\ v.gen = generation'[v.slot]
                 /\ v.sub # Nobody => v.sub \notin ended \cup {n} /\ handle[v.sub].slot = v.slot
        BY <1>1, <1>4, <2>3, <2>4 DEF Delivered
    <2>5. QED
        BY <1>1, <1>2, <2>1, <2>2, <2>4 DEF Delivered
<1>12. Waited'
    <2>1. ASSUME NEW u \in Threads, thread'[u].op = "blocked"
          PROVE  /\ thread'[u].gen <= generation'[Current(u)']
                 /\ thread'[u].gen = generation'[Current(u)'] =>
                      /\ handler'[Current(u)'] = thread'[u].sub
                      /\ handler'[Current(u)'] # Nobody \/ active[Current(u)']
        <3>1. u # t /\ thread'[u] = thread[u] /\ Current(u)' = Current(u)
            BY <1>5, <2>1 DEF Current
        <3>2. Current(u) \in Slots /\ thread[u].gen \in Nat
            BY <1>1, <2>1, <3>1, CurrentIsLeft DEF IInv, Publishing, ThreadsTyped
        <3>3. CASE Current(u) = s
            BY <1>1, <1>4, <2>1, <3>1, <3>2, <3>3 DEF Waited
        <3>4. CASE Current(u) # s
            BY <1>1, <1>4, <2>1, <3>1, <3>2, <3>4 DEF Waited
        <3>5. QED
            BY <3>3, <3>4
    <2>2. QED
        BY <1>2, <2>1 DEF Waited
<1>13. Filed'
    <2>1. \A u \in Threads : Publishing(u)' => Publishing(u) /\ thread'[u] = thread[u]
        BY <1>5 DEF Publishing
    <2>2. \A r \in Slots : handler'[r] # Nobody => handler'[r] = handler[r]
        BY <1>4
    <2>3. \A u \in Threads : Publishing(u) => thread[u].left \subseteq Slots
        BY <1>1 DEF ThreadsTyped
    <2>4. QED
        BY <1>1, <1>2, <2>1, <2>2, <2>3 DEF Filed
<1>14. QED
    BY <1>6, <1>9, <1>10, <1>11, <1>12, <1>13 DEF IInv

-----------------------------------------------------------------------------
(* publish *)

(* A publisher that moves on changes nothing but its own call and the      *)
(* mailboxes.                                                              *)
Walked(t) ==
    /\ UNCHANGED <<active, generation, handler, inflight, busy, worker, subscribed, history>>
    /\ ring' \in Seq(Slots)
    /\ ~Delivering(t) /\ ~Delivering(t)'
    /\ thread' = [u \in Threads |-> thread'[u]]
    /\ \A u \in Threads \ {t} : thread'[u] = thread[u]

LEMMA WalkedKeeps ==
    ASSUME IInv, NEW t \in Threads, Walked(t)
    PROVE  /\ Owned' /\ Called' /\ Delivered'
           /\ published' \in Nat => HistoryTyped' /\ WorkersTyped'
           /\ mailbox' \in [Slots -> Seq(Event)] => SlotsTyped'
<1>1. /\ SlotsTyped /\ HistoryTyped /\ WorkersTyped /\ Owned /\ Called /\ Delivered
      /\ UNCHANGED <<active, generation, handler, inflight, busy, worker, subscribed, async, handle,
                     ended, last>>
    BY DEF IInv, Typed, Walked, history
<1>2. \A u \in Threads : (Delivering(u)' <=> Delivering(u)) /\ (Delivering(u) => thread'[u] = thread[u])
    BY DEF Walked, Delivering
<1>3. \A r : InCallsOf(r)' = InCallsOf(r)
    BY <1>2 DEF InCallsOf
<1>4. Owned'
    BY <1>1 DEF Owned
<1>5. Called'
    BY <1>1 DEF Called, WorkerCalls, Handling
<1>6. Delivered'
    BY <1>1, <1>2, <1>3 DEF Delivered
<1>7. published' \in Nat => HistoryTyped' /\ WorkersTyped'
    BY <1>1 DEF HistoryTyped, WorkersTyped, Handling
<1>8. mailbox' \in [Slots -> Seq(Event)] => SlotsTyped'
    BY <1>1 DEF SlotsTyped, Walked
<1>9. QED
    BY <1>4, <1>5, <1>6, <1>7, <1>8

(* The call in which a publisher begins, or goes on after a slot *)
Going(event, left) == [op |-> "publish", event |-> event, left |-> left]

LEMMA GoingTyped ==
    ASSUME ThreadsTyped, NEW t \in Threads, NEW event \in Event, NEW left \in SUBSET Slots,
           thread' = [u \in Threads |-> thread'[u]], thread'[t] = Going(event, left),
           \A u \in Threads \ {t} : thread'[u] = thread[u],
           published \in Nat, published' \in Nat, published <= published',
           event.by = t, event.n <= published', UNCHANGED <<subscribed, async>>
    PROVE  ThreadsTyped'
<1>1. thread'[t].op = "publish" /\ thread'[t].event = event /\ thread'[t].left = left
    BY DEF Going
<1>2. Snapshot' = Snapshot
    BY DEF Snapshot
<1>3. ASSUME NEW u \in Threads
      PROVE  /\ thread'[u].op = "unsubscribe" => thread'[u].sub \in 1..subscribed
             /\ Publishing(u)' => /\ thread'[u].left \subseteq Slots
                                  /\ thread'[u].event \in Event
                                  /\ thread'[u].event.by = u /\ thread'[u].event.n <= published'
             /\ thread'[u].op = "blocked" => thread'[u].left # {} /\ thread'[u].gen \in Nat
             /\ Delivering(u)' => thread'[u].left \subseteq Snapshot /\ ~async
    <2>1. CASE u = t
        BY <1>1, <2>1 DEF Delivering, Publishing
    <2>2. CASE u # t
        <3>1. thread'[u] = thread[u]
            BY <2>2
        <3>2. thread[u].event \in Event => thread[u].event.n \in Nat
            BY DEF Event
        <3>3. QED
            BY <3>1, <3>2 DEF Delivering, Publishing, ThreadsTyped
    <2>3. QED
        BY <2>1, <2>2
<1>4. QED
    BY <1>2, <1>3 DEF ThreadsTyped

LEMMA PublishKeeps ==
    ASSUME IInv, NEW t \in Threads, NEW e, Publish(t, e)
    PROVE  IInv'
<1> SUFFICES ASSUME NEW event, event = [by |-> t, n |-> published + 1],
                    NEW left, left = Matching(e)
             PROVE  IInv'
    OBVIOUS
<1>1. /\ SlotsTyped /\ HistoryTyped /\ ThreadsTyped /\ Waited /\ Filed
    BY DEF IInv, Typed
<1>2. /\ thread[t].op = "idle" /\ published' = published + 1
      /\ Become(t, Going(event, left))
      /\ UNCHANGED <<slotVars, mailbox, ring, worker, subscribed, history>>
    BY DEF Publish, Idle, Going
<1>3. UNCHANGED <<active, generation, handler, inflight, busy, async, handle, ended, last>>
    BY <1>2 DEF slotVars, history
<1>4. /\ thread' = [u \in Threads |-> thread'[u]]
      /\ thread'[t] = Going(event, left) /\ \A u \in Threads \ {t} : thread'[u] = thread[u]
    BY <1>2, BecomeMoves DEF IInv
<1>5. thread'[t].op = "publish" /\ thread'[t].event = event /\ thread'[t].left = left
    BY <1>4 DEF Going
<1>6. /\ event \in Event /\ event.by = t /\ event.n = published + 1 /\ left \subseteq Slots
      /\ published \in Nat
    BY <1>1 DEF Event, Matching, HistoryTyped
<1>7. Walked(t)
    BY <1>1, <1>2, <1>3, <1>4, <1>5 DEF Walked, Delivering, SlotsTyped
<1>8. Typed'
    <2>1. SlotsTyped' /\ HistoryTyped' /\ WorkersTyped'
        BY <1>1, <1>2, <1>6, <1>7, WalkedKeeps DEF SlotsTyped
    <2>2. ThreadsTyped'
        BY <1>1, <1>2, <1>3, <1>4, <1>6, GoingTyped
    <2>3. QED
        BY <2>1, <2>2 DEF Typed
<1>9. Waited'
    BY <1>1, <1>3, <1>4, <1>5 DEF Waited, Current
<1>10. Filed'
    <2>1. ASSUME NEW r \in Slots
          PROVE  /\ \A j \in DOMAIN mailbox[r] : mailbox[r][j].n < published + 1
                 /\ handler[r] # Nobody => last[handler[r]][t] < published + 1
        <3>1. \A j \in DOMAIN mailbox[r] : mailbox[r][j].n <= published /\ mailbox[r][j].n \in Nat
            <4>1. \A j \in DOMAIN mailbox[r] : mailbox[r][j] \in Event
                BY <1>1 DEF SlotsTyped
            <4>2. QED
                BY <1>1, <4>1 DEF Filed, Event
        <3>2. handler[r] # Nobody => handler[r] \in Subscriptions
            BY <1>1, SubscribedAre DEF SlotsTyped, Nobody
        <3>3. handler[r] # Nobody => last[handler[r]][t] <= published /\ last[handler[r]][t] \in Nat
            BY <1>1, <3>2 DEF Filed, HistoryTyped
        <3>4. QED
            BY <1>6, <3>1, <3>3
    <2>2. \A n \in Subscriptions, u \in Threads : last[n][u] \in Nat
        BY <1>1 DEF HistoryTyped
    <2>3. \A n \in Subscriptions, u \in Threads : last[n][u] <= published + 1
        BY <1>1, <1>6, <2>2 DEF Filed
    <2>4. \A r \in Slots : \A j \in DOMAIN mailbox[r] : mailbox[r][j].n <= published + 1
        <3>1. \A r \in Slots : \A j \in DOMAIN mailbox[r] : mailbox[r][j] \in Event
            BY <1>1 DEF SlotsTyped
        <3>2. QED
            BY <1>6, <2>1, <3>1 DEF Event
    <2>5. ASSUME NEW u \in Threads, Publishing(u)', NEW r \in thread'[u].left
          PROVE  /\ Above(mailbox[r], thread'[u].event)
                 /\ handler[r] # Nobody => last[handler[r]][u] < thread'[u].event.n
        <3>1. CASE u = t
            BY <1>5, <1>6, <2>1, <2>5, <3>1 DEF Above
        <3>2. CASE u # t
            BY <1>1, <1>4, <2>5, <3>2 DEF Filed, Publishing
        <3>3. QED
            BY <3>1, <3>2
    <2>6. QED
        BY <1>1, <1>2, <1>3, <2>3, <2>4, <2>5 DEF Filed
<1>11. QED
    BY <1>7, <1>8, <1>9, <1>10, WalkedKeeps DEF IInv

LEMMA SkipKeeps ==
    ASSUME IInv, NEW t \in Threads, Publishing(t), SkipSlot(t)
    PROVE  IInv'
<1> SUFFICES ASSUME NEW event, event = thread[t].event,
                    NEW left, left = thread[t].left \ {Current(t)}
             PROVE  IInv'
    OBVIOUS
<1>1. /\ SlotsTyped /\ HistoryTyped /\ ThreadsTyped /\ Waited /\ Filed
    BY DEF IInv, Typed
<1>2. /\ Become(t, Going(event, left))
      /\ UNCHANGED <<slotVars, mailbox, ring, worker, subscribed, published, history>>
    BY DEF SkipSlot, NextSlot, Going
<1>3. UNCHANGED <<active, generation, handler, inflight, busy, async, handle, ended, last>>
    BY <1>2 DEF slotVars, history
<1>4. /\ thread' = [u \in Threads |-> thread'[u]]
      /\ thread'[t] = Going(event, left) /\ \A u \in Threads \ {t} : thread'[u] = thread[u]
    BY <1>2, BecomeMoves DEF IInv
<1>5. thread'[t].op = "publish" /\ thread'[t].event = event /\ thread'[t].left = left
    BY <1>4 DEF Going
<1>6. /\ event \in Event /\ event.by = t /\ event.n <= published
      /\ left \subseteq thread[t].left /\ left \subseteq Slots
    BY <1>1 DEF ThreadsTyped
<1>7. Walked(t)
    BY <1>1, <1>2, <1>3, <1>4, <1>5 DEF Walked, Delivering, SlotsTyped, Publishing
<1>8. Typed'
    <2>1. SlotsTyped' /\ HistoryTyped' /\ WorkersTyped'
        BY <1>1, <1>2, <1>7, WalkedKeeps DEF SlotsTyped, HistoryTyped
    <2>2. ThreadsTyped'
        <3>1. published \in Nat /\ published' = published
            BY <1>1, <1>2 DEF HistoryTyped
        <3>2. QED
            BY <1>1, <1>2, <1>3, <1>4, <1>6, <3>1, GoingTyped
    <2>3. QED
        BY <2>1, <2>2 DEF Typed
<1>9. Waited'
    BY <1>1, <1>3, <1>4, <1>5 DEF Waited, Current
<1>10. Filed'
    <2>1. ASSUME NEW u \in Threads, Publishing(u)', NEW r \in thread'[u].left
          PROVE  /\ Above(mailbox[r], thread'[u].event)
                 /\ handler[r] # Nobody => last[handler[r]][u] < thread'[u].event.n
        <3>1. CASE u = t
            BY <1>1, <1>5, <1>6, <2>1, <3>1 DEF Filed
        <3>2. CASE u # t
            BY <1>1, <1>4, <2>1, <3>2 DEF Filed, Publishing
        <3>3. QED
            BY <3>1, <3>2
    <2>2. QED
        BY <1>1, <1>2, <1>3, <2>1 DEF Filed
<1>11. QED
    BY <1>7, <1>8, <1>9, <1>10, WalkedKeeps DEF IInv

LEMMA PrefixOf ==
    ASSUME NEW m \in Seq(Event), Len(m) >= 1
    PROVE  /\ SubSeq(m, 1, Len(m) - 1) \in Seq(Event) /\ Len(SubSeq(m, 1, Len(m) - 1)) = Len(m) - 1
           /\ \A j \in 1..(Len(m) - 1) : SubSeq(m, 1, Len(m) - 1)[j] = m[j]
<1>1. ASSUME NEW n \in Nat, Len(m) = n + 1
      PROVE  /\ SubSeq(m, 1, n) \in Seq(Event) /\ Len(SubSeq(m, 1, n)) = n
             /\ \A j \in 1..n : SubSeq(m, 1, n)[j] = m[j]
    <2>1. SubSeq(m, 1, n) = [j \in 1..n |-> m[j]]
        BY <1>1
    <2>2. \A j \in 1..n : m[j] \in Event
        BY <1>1
    <2>3. [j \in 1..n |-> m[j]] \in Seq(Event) /\ Len([j \in 1..n |-> m[j]]) = n
        BY <2>2
    <2>4. QED
        BY <2>1, <2>3
<1>2. Len(m) - 1 \in Nat /\ Len(m) = (Len(m) - 1) + 1
    OBVIOUS
<1>3. QED
    BY <1>1, <1>2

(* Whatever the overflow policy, what is in the mailbox afterwards was in  *)
(* it before, in the same order, except for the new event at its end.      *)
LEMMA EnqueuedKeeps ==
    ASSUME NEW m \in Seq(Event), NEW p, NEW event \in Event, Rising(m), Above(m, event)
    PROVE  /\ Enqueued(m, p, event) \in Seq(Event)
           /\ Rising(Enqueued(m, p, event))
           /\ \A j \in DOMAIN Enqueued(m, p, event) :
                Enqueued(m, p, event)[j] = event \/ \E i \in DOMAIN m : Enqueued(m, p, event)[j] = m[i]
<1> DEFINE Kept(q) == /\ q \in Seq(Event) /\ Rising(q)
                      /\ \A j \in DOMAIN q : q[j] = event \/ \E i \in DOMAIN m : q[j] = m[i]
<1>1. ASSUME NEW q \in Seq(Event), NEW d \in {0, 1}, Len(m) >= d, Len(q) <= Len(m),
             \A j \in 1..Len(q) : j + d \in DOMAIN m /\ q[j] = m[j + d]
      PROVE  Kept(Append(q, event))
    <2> DEFINE a == Append(q, event)
    <2>1. a \in Seq(Event) /\ DOMAIN a = 1..(Len(q) + 1) /\ Len(q) \in Nat
        OBVIOUS
    <2>2. a[Len(q) + 1] = event /\ \A j \in 1..Len(q) : a[j] = q[j]
        OBVIOUS
    <2> HIDE DEF a
    <2>3. \A j \in DOMAIN a : a[j] = event \/ \E i \in DOMAIN m : a[j] = m[i]
        BY <1>1, <2>1, <2>2
    <2>4. ASSUME NEW j \in DOMAIN a, NEW k \in DOMAIN a, j < k, a[j].by = a[k].by
          PROVE  a[j].n < a[k].n
        <3>1. j \in 1..Len(q) /\ a[j] = m[j + d] /\ j + d \in DOMAIN m
            BY <1>1, <2>1, <2>2, <2>4
        <3>2. CASE k = Len(q) + 1
            BY <2>2, <2>4, <3>1, <3>2 DEF Above
        <3>3. CASE k # Len(q) + 1
            <4>1. k \in 1..Len(q)
                BY <2>1, <3>3
            <4>2. a[k] = m[k + d] /\ k + d \in DOMAIN m
                BY <1>1, <2>2, <4>1
            <4>3. j + d < k + d
                BY <2>4, <3>1, <4>1
            <4>4. QED
                BY <2>4, <3>1, <4>2, <4>3 DEF Rising
        <3>4. QED
            BY <3>2, <3>3
    <2>5. QED
        BY <2>1, <2>3, <2>4 DEF Rising, a
<1>2. Kept(m)
    OBVIOUS
<1> HIDE DEF Kept
<1>3. Kept(Append(m, event))
    <2>1. \A j \in 1..Len(m) : j + 0 \in DOMAIN m /\ m[j] = m[j + 0]
        OBVIOUS
    <2>2. QED
        BY <1>1, <2>1
<1>4. Len(m) >= Capacity => Len(m) >= 1 /\ Len(m) \in Nat
    BY Assumption DEF Assumption
<1>5. ASSUME Len(m) >= Capacity PROVE Kept(Append(Tail(m), event))
    <2>1. Len(m) >= 1 /\ Len(m) \in Nat
        BY <1>4, <1>5
    <2>2. Tail(m) \in Seq(Event) /\ Len(Tail(m)) = Len(m) - 1
        BY <2>1
    <2>3. \A j \in 1..Len(Tail(m)) : j + 1 \in DOMAIN m /\ Tail(m)[j] = m[j + 1]
        BY <2>1, <2>2
    <2>4. 1 \in {0, 1} /\ Len(m) >= 1 /\ Len(Tail(m)) <= Len(m)
        BY <2>1, <2>2
    <2>5. QED
        BY <1>1, <2>2, <2>3, <2>4
<1>6. ASSUME Len(m) >= Capacity PROVE Kept(Append(Front(m), event))
    <2>1. Len(m) >= 1 /\ Len(m) \in Nat
        BY <1>4, <1>6
    <2>2. Front(m) = SubSeq(m, 1, Len(m) - 1)
        BY DEF Front
    <2>3. /\ SubSeq(m, 1, Len(m) - 1) \in Seq(Event) /\ Len(SubSeq(m, 1, Len(m) - 1)) = Len(m) - 1
          /\ \A j \in 1..(Len(m) - 1) : SubSeq(m, 1, Len(m) - 1)[j] = m[j]
        BY <2>1, PrefixOf
    <2>4. \A j \in 1..Len(Front(m)) : j + 0 \in DOMAIN m /\ Front(m)[j] = m[j + 0]
        BY <2>1, <2>2, <2>3
    <2>5. 0 \in {0, 1} /\ Len(m) >= 0 /\ Len(Front(m)) <= Len(m) /\ Front(m) \in Seq(Event)
        BY <2>1, <2>2, <2>3
    <2>6. QED
        BY <1>1, <2>4, <2>5
<1>7. \/ Enqueued(m, p, event) = m
      \/ Enqueued(m, p, event) = Append(m, event)
      \/ Len(m) >= Capacity /\ Enqueued(m, p, event) = Append(Tail(m), event)
      \/ Len(m) >= Capacity /\ Enqueued(m, p, event) = Append(Front(m), event)
    BY Assumption DEF Enqueued, Assumption
<1>8. Kept(Enqueued(m, p, event))
    BY <1>2, <1>3, <1>5, <1>6, <1>7
<1>9. QED
    BY <1>8 DEF Kept

LEMMA EnqueueKeeps ==
    ASSUME IInv, NEW t \in Threads, Publishing(t), thread[t].left # {}, active[Current(t)], Enqueue(t)
    PROVE  IInv'
<1> SUFFICES ASSUME NEW event, event = thread[t].event, NEW s, s = Current(t),
                    NEW left, left = thread[t].left \ {s},
                    NEW m, m = Enqueued(mailbox[s], policy[s], event)
             PROVE  IInv'
    OBVIOUS
<1>1. /\ SlotsTyped /\ HistoryTyped /\ ThreadsTyped /\ Owned /\ Waited /\ Filed
    BY DEF IInv, Typed
<1>2. /\ Become(t, Going(event, left)) /\ (ReadyPush(s, m) \/ UNCHANGED ring)
      /\ mailbox' = [mailbox EXCEPT ![s] = m]
      /\ UNCHANGED <<slotVars, worker, subscribed, published, history>>
    BY DEF Enqueue, NextSlot, Going
<1>3. UNCHANGED <<active, generation, handler, inflight, busy, async, handle, ended, last>>
    BY <1>2 DEF slotVars, history
<1>4. /\ thread' = [u \in Threads |-> thread'[u]]
      /\ thread'[t] = Going(event, left) /\ \A u \in Threads \ {t} : thread'[u] = thread[u]
    BY <1>2, BecomeMoves DEF IInv
<1>5. thread'[t].op = "publish" /\ thread'[t].event = event /\ thread'[t].left = left
    BY <1>4 DEF Going
<1>6. /\ s \in Slots /\ s \in thread[t].left /\ active[s]
      /\ event \in Event /\ event.by = t /\ event.n <= published
      /\ left \subseteq thread[t].left /\ left \subseteq Slots
    BY <1>1, CurrentIsLeft DEF IInv, ThreadsTyped
<1>7. /\ mailbox[s] \in Seq(Event) /\ Rising(mailbox[s]) /\ Above(mailbox[s], event)
      /\ handler[s] # Nobody => last[handler[s]][t] < event.n
    BY <1>1, <1>6 DEF SlotsTyped, Filed
<1>8. /\ m \in Seq(Event) /\ Rising(m)
      /\ \A j \in DOMAIN m : m[j] = event \/ \E i \in DOMAIN mailbox[s] : m[j] = mailbox[s][i]
    BY <1>6, <1>7, EnqueuedKeeps
<1>9. /\ mailbox' \in [Slots -> Seq(Event)] /\ mailbox'[s] = m
      /\ \A r \in Slots \ {s} : mailbox'[r] = mailbox[r]
    BY <1>1, <1>2, <1>6, <1>8 DEF SlotsTyped
<1>10. Walked(t)
    <2>1. ring' \in Seq(Slots)
        BY <1>1, <1>2, <1>6, PushKeepsRing DEF SlotsTyped
    <2>2. QED
        BY <1>2, <1>3, <1>4, <1>5, <2>1 DEF Walked, Delivering, Publishing
<1>11. Typed'
    <2>1. SlotsTyped' /\ HistoryTyped' /\ WorkersTyped'
        BY <1>1, <1>2, <1>9, <1>10, WalkedKeeps DEF HistoryTyped
    <2>2. ThreadsTyped'
        <3>1. published \in Nat /\ published' = published
            BY <1>1, <1>2 DEF HistoryTyped
        <3>2. QED
            BY <1>1, <1>2, <1>3, <1>4, <1>6, <3>1, GoingTyped
    <2>3. QED
        BY <2>1, <2>2 DEF Typed
<1>12. Waited'
    BY <1>1, <1>3, <1>4, <1>5 DEF Waited, Current
<1>13. Filed'
    <2>1. ASSUME NEW r \in Slots
          PROVE  /\ ~active[r] => mailbox'[r] = <<>>
                 /\ Rising(mailbox'[r])
                 /\ \A j \in DOMAIN mailbox'[r] : mailbox'[r][j].n <= published
                 /\ handler[r] # Nobody => \A j \in DOMAIN mailbox'[r] :
                        mailbox'[r][j].n > last[handler[r]][mailbox'[r][j].by]
        <3>1. CASE r = s
            <4>1. \A j \in DOMAIN m : m[j].n <= published
                BY <1>1, <1>6, <1>8 DEF Filed
            <4>2. handler[s] # Nobody => \A j \in DOMAIN m : m[j].n > last[handler[s]][m[j].by]
                <5>1. handler[s] # Nobody => event.n > last[handler[s]][event.by]
                    <6>1. handler[s] # Nobody => handler[s] \in Subscriptions
                        BY <1>1, <1>6, SubscribedAre DEF SlotsTyped, Nobody
                    <6>2. handler[s] # Nobody => last[handler[s]][t] \in Nat
                        BY <1>1, <6>1 DEF HistoryTyped
                    <6>3. event.n \in Nat
                        BY <1>6 DEF Event
                    <6>4. QED
                        BY <1>6, <1>7, <6>2, <6>3
                <5>2. handler[s] # Nobody => \A i \in DOMAIN mailbox[s] :
                        mailbox[s][i].n > last[handler[s]][mailbox[s][i].by]
                    BY <1>1, <1>6 DEF Filed
                <5>3. QED
                    BY <1>8, <5>1, <5>2
            <4>3. QED
                BY <1>6, <1>8, <1>9, <3>1, <4>1, <4>2
        <3>2. CASE r # s
            BY <1>1, <1>9, <3>2 DEF Filed
        <3>3. QED
            BY <3>1, <3>2
    <2>2. ASSUME NEW u \in Threads, Publishing(u)', NEW r \in thread'[u].left
          PROVE  /\ Above(mailbox'[r], thread'[u].event)
                 /\ handler[r] # Nobody => last[handler[r]][u] < thread'[u].event.n
        <3>1. CASE u = t
            <4>1. r \in Slots /\ r # s /\ r \in thread[t].left
                BY <1>5, <1>6, <2>2, <3>1
            <4>2. QED
                BY <1>1, <1>5, <1>9, <2>2, <3>1, <4>1 DEF Filed
        <3>2. CASE u # t
            <4>1. /\ thread'[u] = thread[u] /\ Publishing(u) /\ r \in thread[u].left /\ r \in Slots
                  /\ thread[u].event.by = u
                BY <1>1, <1>4, <2>2, <3>2 DEF Publishing, ThreadsTyped
            <4>2. Above(mailbox[r], thread[u].event)
                BY <1>1, <4>1 DEF Filed
            <4>3. Above(mailbox'[r], thread[u].event)
                <5>1. CASE r = s
                    BY <1>6, <1>8, <1>9, <3>2, <4>1, <4>2, <5>1 DEF Above
                <5>2. CASE r # s
                    BY <1>9, <4>1, <4>2, <5>2
                <5>3. QED
                    BY <5>1, <5>2
            <4>4. QED
                BY <1>1, <4>1, <4>3 DEF Filed
        <3>3. QED
            BY <3>1, <3>2
    <2>3. QED
        BY <1>1, <1>2, <1>3, <2>1, <2>2, ZenonT(40) DEF Filed
<1>14. QED
    BY <1>10, <1>11, <1>12, <1>13, WalkedKeeps DEF IInv

LEMMA WaitKeeps ==
    ASSUME IInv, NEW t \in Threads, Publishing(t), thread[t].left # {}, active[Current(t)],
           WaitForRoom(t)
    PROVE  IInv'
<1> SUFFICES ASSUME NEW s, s = Current(t) PROVE IInv'
    OBVIOUS
<1>1. /\ SlotsTyped /\ HistoryTyped /\ ThreadsTyped /\ Waited /\ Filed
    BY DEF IInv, Typed
<1>2. /\ Become(t, [op |-> "blocked", event |-> thread[t].event, left |-> thread[t].left,
                    gen |-> generation[s], sub |-> handler[s]])
      /\ UNCHANGED <<slotVars, mailbox, ring, worker, subscribed, published, history>>
    BY DEF WaitForRoom
<1>3. UNCHANGED <<active, generation, handler, inflight, busy, async, handle, ended, last>>
    BY <1>2 DEF slotVars, history
<1>4. /\ thread' = [u \in Threads |-> thread'[u]]
      /\ thread'[t] = [op |-> "blocked", event |-> thread[t].event, left |-> thread[t].left,
                       gen |-> generation[s], sub |-> handler[s]]
      /\ \A u \in Threads \ {t} : thread'[u] = thread[u]
    BY <1>2, BecomeMoves DEF IInv
<1>5. /\ thread'[t].op = "blocked" /\ thread'[t].event = thread[t].event
      /\ thread'[t].left = thread[t].left /\ thread'[t].gen = generation[s]
      /\ thread'[t].sub = handler[s]
    BY <1>4
<1>6. s \in Slots /\ s \in thread[t].left /\ active[s] /\ generation[s] \in Nat
    BY <1>1, CurrentIsLeft DEF IInv, SlotsTyped
<1>7. Walked(t)
    BY <1>1, <1>2, <1>3, <1>4, <1>5 DEF Walked, Delivering, SlotsTyped, Publishing
<1>8. \A u \in Threads : (Publishing(u)' <=> Publishing(u)) /\
        (Publishing(u) => thread'[u].left = thread[u].left /\ thread'[u].event = thread[u].event)
    BY <1>4, <1>5 DEF Publishing
<1>9. Typed'
    <2>1. SlotsTyped' /\ HistoryTyped' /\ WorkersTyped'
        BY <1>1, <1>2, <1>7, WalkedKeeps DEF SlotsTyped, HistoryTyped
    <2>2. \A u \in Threads : thread'[u].op = "unsubscribe" => thread'[u].sub \in 1..subscribed
        BY <1>1, <1>4, <1>5 DEF ThreadsTyped
    <2>3. \A u \in Threads : thread'[u].op = "blocked" => thread'[u].left # {} /\ thread'[u].gen \in Nat
        BY <1>1, <1>4, <1>5, <1>6 DEF ThreadsTyped
    <2>4. \A u \in Threads : Delivering(u)' => Delivering(u) /\ thread'[u] = thread[u]
        BY <1>4, <1>5 DEF Delivering
    <2>5. ThreadsTyped'
        BY <1>1, <1>2, <1>3, <1>4, <1>8, <2>2, <2>3, <2>4 DEF ThreadsTyped, Snapshot
    <2>6. QED
        BY <2>1, <2>5 DEF Typed
<1>10. Waited'
    <2>1. ASSUME NEW u \in Threads, thread'[u].op = "blocked"
          PROVE  /\ thread'[u].gen <= generation[Current(u)']
                 /\ thread'[u].gen = generation[Current(u)'] =>
                      /\ handler[Current(u)'] = thread'[u].sub
                      /\ handler[Current(u)'] # Nobody \/ active[Current(u)']
        <3>1. CASE u = t
            <4>1. Current(u)' = s
                BY <1>5, <3>1 DEF Current
            <4>2. QED
                BY <1>5, <1>6, <3>1, <4>1
        <3>2. CASE u # t
            <4>1. thread'[u] = thread[u] /\ Current(u)' = Current(u)
                BY <1>4, <3>2 DEF Current
            <4>2. QED
                BY <1>1, <2>1, <4>1 DEF Waited
        <3>3. QED
            BY <3>1, <3>2
    <2>2. QED
        BY <1>3, <2>1 DEF Waited
<1>11. Filed'
    BY <1>1, <1>2, <1>3, <1>8 DEF Filed
<1>12. QED
    BY <1>7, <1>9, <1>10, <1>11, WalkedKeeps DEF IInv

-----------------------------------------------------------------------------
(* publish, synchronous *)

LEMMA CallsCounted ==
    \A s : /\ IsFiniteSet(InCallsOf(s)) /\ Cardinality(InCallsOf(s)) \in Nat
           /\ Cardinality(InCallsOf(s)) = 0 => InCallsOf(s) = {}
<1>1. ASSUME NEW s PROVE IsFiniteSet(InCallsOf(s))
    BY Assumption, FS_Subset DEF InCallsOf, Assumption
<1>2. QED
    BY <1>1, FS_CardinalityType, FS_EmptySet

(* A synchronous bus has no workers. *)
LEMMA NoWorkerCalls == ASSUME WorkersTyped, ~async PROVE WorkerCalls = {}
BY DEF WorkersTyped, WorkerCalls, Handling, Gone

LEMMA PublishSyncKeeps ==
    ASSUME IInv, NEW t \in Threads, NEW e, PublishSync(t, e)
    PROVE  IInv'
<1> SUFFICES ASSUME NEW event, event = [by |-> t, n |-> published + 1],
                    NEW m, m = Matching(e),
                    NEW left, left = {[slot |-> s, gen |-> generation[s], sub |-> handler[s]] : s \in m}
             PROVE  IInv'
    OBVIOUS
<1>1. /\ SlotsTyped /\ HistoryTyped /\ ThreadsTyped /\ WorkersTyped
      /\ Owned /\ Called /\ Delivered /\ Waited /\ Filed
    BY DEF IInv, Typed
<1>2. /\ thread[t].op = "idle" /\ ~async /\ published' = published + 1
      /\ inflight' = [s \in Slots |-> inflight[s] + (IF s \in m THEN 1 ELSE 0)]
      /\ Become(t, [op |-> "deliver", event |-> event, left |-> left])
      /\ UNCHANGED <<active, generation, handler, busy, mailbox, ring, worker, subscribed, async,
                     handle, ended, last>>
    BY DEF PublishSync, Idle, history
<1>3. /\ thread' = [u \in Threads |-> thread'[u]]
      /\ thread'[t].op = "deliver" /\ thread'[t].left = left
      /\ \A u \in Threads \ {t} : thread'[u] = thread[u]
    BY <1>2, BecomeMoves DEF IInv
<1>4. m \subseteq Slots
    BY DEF Matching
<1>5. /\ \A v \in left : v.slot \in m /\ v.gen = generation[v.slot] /\ v.sub = handler[v.slot]
      /\ \A u, v \in left : u.slot = v.slot => u = v
      /\ \A s \in m : \E v \in left : v.slot = s
    <2>1. \A v \in left : v.slot \in m /\ v.gen = generation[v.slot] /\ v.sub = handler[v.slot]
        OBVIOUS
    <2>2. \A v \in left : v = [slot |-> v.slot, gen |-> generation[v.slot], sub |-> handler[v.slot]]
        OBVIOUS
    <2>3. ASSUME NEW s \in m PROVE \E v \in left : v.slot = s
        <3>1. [slot |-> s, gen |-> generation[s], sub |-> handler[s]] \in left
            OBVIOUS
        <3>2. QED
            BY <3>1
    <2>4. ASSUME NEW u \in left, NEW v \in left, u.slot = v.slot PROVE u = v
        BY <2>2, <2>4, Zenon
    <2>5. QED
        BY <2>1, <2>3, <2>4
<1>6. left \subseteq Snapshot
    BY <1>1, <1>4 DEF Snapshot, SlotsTyped
<1>7. Typed'
    <2>1. inflight' \in [Slots -> Nat]
        <3>1. \A s \in Slots : inflight[s] \in Nat
            BY <1>1 DEF SlotsTyped
        <3>2. QED
            BY <1>2, <3>1
    <2>2. SlotsTyped'
        BY <1>1, <1>2, <2>1 DEF SlotsTyped
    <2>3. HistoryTyped' /\ WorkersTyped'
        BY <1>1, <1>2 DEF HistoryTyped, WorkersTyped, Handling
    <2>4. \A u \in Threads : /\ Publishing(u)' => Publishing(u) /\ thread'[u] = thread[u]
                             /\ thread'[u].op \in {"unsubscribe", "blocked"} => thread'[u] = thread[u]
        BY <1>3 DEF Publishing
    <2>5. \A u \in Threads : Delivering(u)' => thread'[u].left \subseteq Snapshot /\ ~async
        BY <1>1, <1>2, <1>3, <1>6 DEF ThreadsTyped, Delivering
    <2>6. \A u \in Threads : Publishing(u) => thread[u].event.n \in Nat
        BY <1>1 DEF ThreadsTyped, Event
    <2>7. published \in Nat
        BY <1>1 DEF HistoryTyped
    <2>8. \A u \in Threads : Publishing(u)' => /\ thread'[u].left \subseteq Slots
                                               /\ thread'[u].event \in Event
                                               /\ thread'[u].event.by = u
                                               /\ thread'[u].event.n <= published'
        BY <1>1, <1>2, <2>4, <2>6, <2>7 DEF ThreadsTyped
    <2>9. \A u \in Threads :
            /\ thread'[u].op = "unsubscribe" => thread'[u].sub \in 1..subscribed
            /\ thread'[u].op = "blocked" => thread'[u].left # {} /\ thread'[u].gen \in Nat
        BY <1>1, <2>4 DEF ThreadsTyped
    <2>10. ThreadsTyped'
        BY <1>2, <1>3, <2>5, <2>8, <2>9 DEF ThreadsTyped, Snapshot
    <2>11. QED
        BY <2>2, <2>3, <2>10 DEF Typed
<1>8. Owned'
    BY <1>1, <1>2 DEF Owned
<1>9. Called'
    <2>1. WorkerCalls' = {}
        BY <1>1, <1>2, NoWorkerCalls DEF WorkerCalls, Handling
    <2>2. QED
        BY <2>1 DEF Called
<1>10. Delivered'
    <2>1. ASSUME NEW u \in Threads, Delivering(u)'
          PROVE  /\ \A v \in thread'[u].left :
                    /\ v.gen = generation[v.slot]
                    /\ v.sub # Nobody => v.sub \notin ended /\ handle[v.sub].slot = v.slot
                 /\ \A v, w \in thread'[u].left : v.slot = w.slot => v = w
        <3>1. CASE u = t
            <4>1. \A s \in Slots : handler[s] # Nobody =>
                    handler[s] \notin ended /\ handle[handler[s]].slot = s
                <5>1. ASSUME NEW s \in Slots, handler[s] # Nobody
                      PROVE  handler[s] \notin ended /\ handle[handler[s]].slot = s
                    <6>1. /\ handle[handler[s]] = [slot |-> s, gen |-> generation[s]]
                          /\ handler[s] \notin ended
                        BY <1>1, <5>1 DEF Owned
                    <6>2. QED
                        BY <6>1
                <5>2. QED
                    BY <5>1
            <4>2. QED
                BY <1>3, <1>4, <1>5, <3>1, <4>1
        <3>2. CASE u # t
            BY <1>1, <1>3, <2>1, <3>2 DEF Delivered, Delivering
        <3>3. QED
            BY <3>1, <3>2
    <2>2. ASSUME NEW s \in Slots PROVE inflight'[s] = Cardinality(InCallsOf(s)')
        <3>1. InCallsOf(s)' = IF s \in m THEN InCallsOf(s) \cup {t} ELSE InCallsOf(s)
            <4>1. \A u \in Threads \ {t} : u \in InCallsOf(s)' <=> u \in InCallsOf(s)
                BY <1>3 DEF InCallsOf, Delivering
            <4>2. t \in InCallsOf(s)' <=> s \in m
                BY <1>3, <1>5 DEF InCallsOf, Delivering
            <4>3. InCallsOf(s) \subseteq Threads /\ InCallsOf(s)' \subseteq Threads
                BY DEF InCallsOf
            <4>4. t \notin InCallsOf(s)
                BY <1>2 DEF InCallsOf, Delivering
            <4>5. QED
                BY <4>1, <4>2, <4>3, <4>4
        <3>2. t \notin InCallsOf(s)
            BY <1>2 DEF InCallsOf, Delivering
        <3>3. Cardinality(InCallsOf(s) \cup {t}) = Cardinality(InCallsOf(s)) + 1
            BY <3>2, CallsCounted, FS_AddElement
        <3>4. inflight[s] = Cardinality(InCallsOf(s)) /\ inflight[s] \in Nat
            BY <1>1, <1>2 DEF Delivered, SlotsTyped
        <3>5. inflight'[s] = inflight[s] + (IF s \in m THEN 1 ELSE 0)
            BY <1>2
        <3>6. QED
            BY <3>1, <3>3, <3>4, <3>5
    <2>3. QED
        BY <1>2, <2>1, <2>2 DEF Delivered
<1>11. Waited'
    <2>1. \A u \in Threads : thread'[u].op = "blocked" => thread'[u] = thread[u]
        BY <1>3
    <2>2. \A u \in Threads : thread'[u] = thread[u] => Current(u)' = Current(u)
        BY DEF Current
    <2>3. QED
        BY <1>1, <1>2, <2>1, <2>2 DEF Waited
<1>12. Filed'
    <2>1. \A u \in Threads : Publishing(u)' => Publishing(u) /\ thread'[u] = thread[u]
        BY <1>3 DEF Publishing
    <2>2. published \in Nat /\ \A i \in Subscriptions, u \in Threads : last[i][u] \in Nat
        BY <1>1 DEF HistoryTyped
    <2>3. \A i \in Subscriptions, u \in Threads :
            last[i][u] <= published + 1 /\ (i > subscribed => last[i][u] = 0)
        BY <1>1, <2>2 DEF Filed
    <2>4. ASSUME NEW s \in Slots, NEW j \in DOMAIN mailbox[s] PROVE mailbox[s][j].n <= published + 1
        <3>1. mailbox[s][j] \in Event
            BY <1>1 DEF SlotsTyped
        <3>2. mailbox[s][j].n \in Nat
            BY <3>1 DEF Event
        <3>3. QED
            BY <1>1, <2>2, <3>2 DEF Filed
    <2>5. QED
        BY <1>1, <1>2, <2>1, <2>3, <2>4 DEF Filed
<1>13. QED
    BY <1>7, <1>8, <1>9, <1>10, <1>11, <1>12 DEF IInv

LEMMA SyncHandlerReturnsKeeps ==
    ASSUME IInv, NEW t \in Threads, SyncHandlerReturns(t)
    PROVE  IInv'
<1>1. /\ SlotsTyped /\ HistoryTyped /\ ThreadsTyped /\ WorkersTyped
      /\ Owned /\ Called /\ Delivered /\ Waited /\ Filed
    BY DEF IInv, Typed
<1>2. PICK v \in thread[t].left :
        /\ inflight' = IF generation[v.slot] = v.gen /\ inflight[v.slot] > 0
                       THEN [inflight EXCEPT ![v.slot] = @ - 1] ELSE inflight
        /\ Become(t, IF thread[t].left = {v} THEN Idle
                     ELSE [op |-> "deliver", event |-> thread[t].event,
                           left |-> thread[t].left \ {v}])
    BY DEF SyncHandlerReturns
<1> SUFFICES ASSUME NEW s, s = v.slot, NEW left, left = thread[t].left PROVE IInv'
    OBVIOUS
<1>3. /\ Delivering(t) /\ ~async
      /\ UNCHANGED <<active, generation, handler, busy, mailbox, ring, worker, subscribed, published,
                     async, handle, ended, last>>
    BY <1>1 DEF SyncHandlerReturns, history, ThreadsTyped, Delivering
<1>4. /\ s \in Slots /\ generation[s] = v.gen /\ left \subseteq Snapshot
      /\ \A u \in left : u.slot = s => u = v
    BY <1>1, <1>3 DEF ThreadsTyped, Delivered, Snapshot
<1>5. t \in InCallsOf(s) /\ inflight[s] = Cardinality(InCallsOf(s)) /\ inflight[s] \in Nat \ {0}
    <2>1. t \in InCallsOf(s)
        BY <1>3 DEF InCallsOf
    <2>2. inflight[s] = Cardinality(InCallsOf(s)) /\ inflight[s] \in Nat
        BY <1>1, <1>3, <1>4 DEF Delivered, SlotsTyped
    <2>3. QED
        BY <2>1, <2>2, CallsCounted
<1>6. inflight' = [inflight EXCEPT ![s] = inflight[s] - 1]
    BY <1>2, <1>4, <1>5
<1>7. /\ thread' = [u \in Threads |-> thread'[u]]
      /\ \A u \in Threads \ {t} : thread'[u] = thread[u]
      /\ thread'[t] = IF left = {v} THEN Idle
                      ELSE [op |-> "deliver", event |-> thread[t].event, left |-> left \ {v}]
    BY <1>2, BecomeMoves DEF IInv
<1>8. \/ left = {v} /\ thread'[t].op = "idle"
      \/ left # {v} /\ thread'[t].op = "deliver" /\ thread'[t].left = left \ {v}
    BY <1>7 DEF Idle
<1>9. \A u \in Threads : /\ thread'[u].op \in {"publish", "blocked", "unsubscribe"} => thread'[u] = thread[u]
                         /\ Delivering(u)' => /\ Delivering(u)
                                              /\ thread'[u].left \subseteq thread[u].left
    BY <1>3, <1>7, <1>8 DEF Delivering
<1>10. Typed'
    <2>1. inflight' \in [Slots -> Nat]
        <3>1. inflight \in [Slots -> Nat] /\ inflight[s] - 1 \in Nat
            BY <1>1, <1>5 DEF SlotsTyped
        <3>2. QED
            BY <1>4, <1>6, <3>1
    <2>2. SlotsTyped' /\ HistoryTyped' /\ WorkersTyped'
        BY <1>1, <1>3, <2>1 DEF SlotsTyped, HistoryTyped, WorkersTyped, Handling
    <2>3. ThreadsTyped'
        BY <1>1, <1>3, <1>7, <1>9 DEF ThreadsTyped, Publishing, Delivering, Snapshot
    <2>4. QED
        BY <2>2, <2>3 DEF Typed
<1>11. Owned'
    BY <1>1, <1>3 DEF Owned
<1>12. Called'
    <2>1. WorkerCalls' = {}
        BY <1>1, <1>3, NoWorkerCalls DEF WorkerCalls, Handling
    <2>2. QED
        BY <2>1 DEF Called
<1>13. Delivered'
    <2>1. ASSUME NEW r \in Slots PROVE inflight'[r] = Cardinality(InCallsOf(r)')
        <3>1. \A u \in Threads \ {t} : u \in InCallsOf(r)' <=> u \in InCallsOf(r)
            BY <1>7 DEF InCallsOf, Delivering
        <3>2. t \in InCallsOf(r)' <=> r # s /\ t \in InCallsOf(r)
            BY <1>3, <1>4, <1>8 DEF InCallsOf, Delivering
        <3>3. InCallsOf(r) \subseteq Threads /\ InCallsOf(r)' \subseteq Threads
            BY DEF InCallsOf
        <3>4. CASE r = s
            <4>1. InCallsOf(r)' = InCallsOf(s) \ {t}
                BY <3>1, <3>2, <3>3, <3>4
            <4>2. Cardinality(InCallsOf(s) \ {t}) = Cardinality(InCallsOf(s)) - 1
                BY <1>5, CallsCounted, FS_RemoveElement
            <4>3. inflight'[s] = inflight[s] - 1
                BY <1>1, <1>4, <1>6 DEF SlotsTyped
            <4>4. QED
                BY <1>5, <3>4, <4>1, <4>2, <4>3
        <3>5. CASE r # s
            <4>1. InCallsOf(r)' = InCallsOf(r)
                BY <3>1, <3>2, <3>3, <3>5
            <4>2. inflight'[r] = inflight[r]
                BY <1>1, <1>6, <3>5 DEF SlotsTyped
            <4>3. QED
                BY <1>1, <1>3, <4>1, <4>2 DEF Delivered
        <3>6. QED
            BY <3>4, <3>5
    <2>2. QED
        BY <1>1, <1>3, <1>9, <2>1 DEF Delivered
<1>14. Waited'
    <2>1. \A u \in Threads : thread'[u] = thread[u] => Current(u)' = Current(u)
        BY DEF Current
    <2>2. QED
        BY <1>1, <1>3, <1>9, <2>1 DEF Waited
<1>15. Filed'
    <2>1. \A u \in Threads : Publishing(u)' => Publishing(u) /\ thread'[u] = thread[u]
        BY <1>9 DEF Publishing
    <2>2. QED
        BY <1>1, <1>3, <2>1 DEF Filed
<1>16. QED
    BY <1>10, <1>11, <1>12, <1>13, <1>14, <1>15 DEF IInv

-----------------------------------------------------------------------------
(* Workers *)

(* An asynchronous bus has no publisher that calls handlers. *)
LEMMA NobodyDelivers == ASSUME ThreadsTyped, async PROVE \A t \in Threads : ~Delivering(t)
BY DEF ThreadsTyped

LEMMA WorkerTakesKeeps ==
    ASSUME IInv, NEW w \in Workers, WorkerTakes(w)
    PROVE  IInv'
<1>1. /\ SlotsTyped /\ HistoryTyped /\ ThreadsTyped /\ WorkersTyped
      /\ Owned /\ Called /\ Delivered /\ Waited /\ Filed
    BY DEF IInv, Typed
<1>2. PICK k \in DOMAIN ring :
        /\ Deliverable(ring[k])
        /\ ring' = SubSeq(ring, k + 1, Len(ring))
        /\ mailbox' = [mailbox EXCEPT ![ring[k]] = Tail(@)]
        /\ busy' = [busy EXCEPT ![ring[k]] = TRUE]
        /\ inflight' = [inflight EXCEPT ![ring[k]] = @ + 1]
        /\ worker' = [worker EXCEPT ![w] =
              [at |-> "handling", slot |-> ring[k], event |-> Head(mailbox[ring[k]]),
               sub |-> handler[ring[k]]]]
        /\ last' = IF handler[ring[k]] = Nobody THEN last
                   ELSE [last EXCEPT ![handler[ring[k]]][Head(mailbox[ring[k]]).by]
                                        = Head(mailbox[ring[k]]).n]
    BY DEF WorkerTakes
<1> SUFFICES ASSUME NEW s, s = ring[k], NEW m, m = mailbox[s], NEW event, event = Head(m),
                    NEW n, n = handler[s]
             PROVE  IInv'
    OBVIOUS
<1>3. /\ worker[w] = Looping
      /\ UNCHANGED <<active, generation, handler, thread, subscribed, published, async, handle, ended>>
    BY DEF WorkerTakes, AtLoop
<1>4. s \in Slots /\ active[s] /\ ~busy[s] /\ m # <<>> /\ ring' \in Seq(Slots)
    BY <1>1, <1>2, RingKeeps DEF SlotsTyped, Deliverable
<1>5. m \in Seq(Event) /\ event \in Event /\ event = m[1] /\ 1 \in DOMAIN m
    BY <1>1, <1>4 DEF SlotsTyped
<1>6. /\ Tail(m) \in Seq(Event)
      /\ \A j \in DOMAIN Tail(m) : j + 1 \in DOMAIN m /\ Tail(m)[j] = m[j + 1] /\ j \in Nat /\ j + 1 > 1
    BY <1>4, <1>5
<1>7. async
    BY <1>1, <1>3 DEF WorkersTyped, Looping, Gone, HistoryTyped
<1>8. n \in 0..subscribed /\ (n # Nobody => n \in 1..subscribed /\ n \in Subscriptions)
    BY <1>1, <1>4, SubscribedAre DEF SlotsTyped, Nobody
<1>9. /\ mailbox' \in [Slots -> Seq(Event)] /\ mailbox'[s] = Tail(m)
      /\ \A r \in Slots \ {s} : mailbox'[r] = mailbox[r]
    BY <1>1, <1>2, <1>4, <1>6 DEF SlotsTyped
<1>10. /\ busy' \in [Slots -> BOOLEAN] /\ busy'[s] = TRUE
       /\ \A r \in Slots \ {s} : busy'[r] = busy[r]
    BY <1>1, <1>2, <1>4 DEF SlotsTyped
<1>11. /\ inflight' \in [Slots -> Nat] /\ inflight'[s] > 0
       /\ \A r \in Slots \ {s} : inflight'[r] = inflight[r]
    <2>1. inflight \in [Slots -> Nat] /\ inflight' = [inflight EXCEPT ![s] = @ + 1]
        BY <1>1, <1>2 DEF SlotsTyped
    <2>2. QED
        BY <1>4, <2>1
<1>12. /\ worker' = [x \in Workers |-> worker'[x]]
       /\ worker'[w] = [at |-> "handling", slot |-> s, event |-> event, sub |-> n]
       /\ \A x \in Workers \ {w} : worker'[x] = worker[x]
    BY <1>1, <1>2 DEF WorkersTyped
<1>13. worker'[w].at = "handling" /\ worker'[w].slot = s /\ worker'[w].sub = n
    BY <1>12
<1>14. event.by \in Threads /\ event.n \in Nat /\ event.n <= published
    BY <1>1, <1>4, <1>5 DEF Event, Filed
<1>15. /\ last' \in [Subscriptions -> [Threads -> Nat]]
       /\ n # Nobody => last'[n][event.by] = event.n
       /\ \A i \in Subscriptions, u \in Threads : i # n \/ u # event.by => last'[i][u] = last[i][u]
    <2>1. last \in [Subscriptions -> [Threads -> Nat]]
        BY <1>1 DEF HistoryTyped
    <2>2. CASE n = Nobody
        <3>1. last' = last
            BY <1>2, <2>2
        <3>2. QED
            BY <2>1, <2>2, <3>1
    <2>3. CASE n # Nobody
        <3>1. last' = [last EXCEPT ![n][event.by] = event.n]
            BY <1>2, <2>3
        <3>2. n \in Subscriptions
            BY <1>8, <2>3
        <3>3. QED
            BY <1>14, <2>1, <3>1, <3>2
    <2>4. QED
        BY <2>2, <2>3
<1>16. Typed'
    <2>1. SlotsTyped'
        BY <1>1, <1>3, <1>4, <1>9, <1>10, <1>11 DEF SlotsTyped
    <2>2. HistoryTyped' /\ ThreadsTyped'
        BY <1>1, <1>3, <1>15 DEF HistoryTyped, ThreadsTyped, Publishing, Delivering, Snapshot
    <2>3. WorkersTyped'
        BY <1>1, <1>3, <1>4, <1>7, <1>8, <1>12, <1>13 DEF WorkersTyped, Handling
    <2>4. QED
        BY <2>1, <2>2, <2>3 DEF Typed
<1>17. Owned'
    BY <1>1, <1>3 DEF Owned
<1>18. Called'
    <2>1. \A x \in Workers : x \in WorkerCalls' => x = w \/ (x \in WorkerCalls /\ worker'[x] = worker[x])
        BY <1>12 DEF WorkerCalls, Handling
    <2>2. \A x \in WorkerCalls : worker[x].slot \in Slots \ {s}
        BY <1>1, <1>4 DEF Called, WorkersTyped, WorkerCalls
    <2>3. n # Nobody => n \notin ended /\ handle[n] = [slot |-> s, gen |-> generation[s]]
        BY <1>1, <1>4 DEF Owned
    <2>4. \A x \in WorkerCalls' : x \in Workers
        BY DEF WorkerCalls
    <2>5. ASSUME NEW x \in WorkerCalls'
          PROVE  LET r == worker'[x].slot
                     i == worker'[x].sub
                 IN  /\ busy'[r] /\ inflight'[r] > 0
                     /\ i # Nobody => /\ i \notin ended
                                      /\ handle[i] = [slot |-> r, gen |-> generation[r]]
        <3>1. CASE x = w
            BY <1>10, <1>11, <1>13, <2>3, <3>1
        <3>2. CASE x # w
            <4>1. x \in WorkerCalls /\ worker'[x] = worker[x]
                BY <2>1, <2>4, <3>2
            <4>2. QED
                BY <1>1, <1>10, <1>11, <2>2, <4>1 DEF Called
        <3>3. QED
            BY <3>1, <3>2
    <2>6. ASSUME NEW x \in WorkerCalls', NEW y \in WorkerCalls', worker'[x].slot = worker'[y].slot
          PROVE  x = y
        BY <1>1, <1>13, <2>1, <2>2, <2>4, <2>6 DEF Called
    <2>7. QED
        BY <1>3, <2>5, <2>6 DEF Called
<1>19. Delivered'
    BY <1>1, <1>3, <1>7, NobodyDelivers DEF Delivered, Delivering
<1>20. Waited'
    BY <1>1, <1>3 DEF Waited, Current
<1>21. Filed'
    <2>1. \A j \in DOMAIN Tail(m) : Tail(m)[j].by = event.by => Tail(m)[j].n > event.n
        <3>1. Rising(m)
            BY <1>1, <1>4 DEF Filed
        <3>2. ASSUME NEW j \in DOMAIN Tail(m), Tail(m)[j].by = event.by PROVE Tail(m)[j].n > event.n
            <4>1. m[1].n < m[j + 1].n
                BY <1>5, <1>6, <3>1, <3>2 DEF Rising
            <4>2. m[1].n \in Nat /\ m[j + 1].n \in Nat
                <5>1. m[1] \in Event /\ m[j + 1] \in Event
                    BY <1>5, <1>6
                <5>2. QED
                    BY <5>1 DEF Event
            <4>3. QED
                BY <1>5, <1>6, <4>1, <4>2
        <3>3. QED
            BY <3>2
    <2>2. Rising(Tail(m))
        <3>1. Rising(m)
            BY <1>1, <1>4 DEF Filed
        <3>2. ASSUME NEW i \in DOMAIN Tail(m), NEW j \in DOMAIN Tail(m), i < j,
                     Tail(m)[i].by = Tail(m)[j].by
              PROVE  Tail(m)[i].n < Tail(m)[j].n
            <4>1. i + 1 < j + 1 /\ i + 1 \in DOMAIN m /\ j + 1 \in DOMAIN m
                BY <1>6, <3>2
            <4>2. Tail(m)[i] = m[i + 1] /\ Tail(m)[j] = m[j + 1]
                BY <1>6
            <4>3. QED
                BY <3>1, <3>2, <4>1, <4>2 DEF Rising
        <3>3. QED
            BY <3>2 DEF Rising
    <2>3. \A j \in DOMAIN Tail(m) : \E i \in DOMAIN m : Tail(m)[j] = m[i]
        BY <1>6
    <2>4. ASSUME NEW r \in Slots
          PROVE  /\ ~active[r] => mailbox'[r] = <<>>
                 /\ Rising(mailbox'[r])
                 /\ \A j \in DOMAIN mailbox'[r] : mailbox'[r][j].n <= published
                 /\ handler[r] # Nobody => \A j \in DOMAIN mailbox'[r] :
                        mailbox'[r][j].n > last'[handler[r]][mailbox'[r][j].by]
        <3>1. CASE r = s
            <4>1. \A j \in DOMAIN Tail(m) : Tail(m)[j].n <= published
                BY <1>1, <1>4, <2>3 DEF Filed
            <4>2. ASSUME n # Nobody, NEW j \in DOMAIN Tail(m)
                  PROVE  Tail(m)[j].n > last'[n][Tail(m)[j].by]
                <5>1. CASE Tail(m)[j].by = event.by
                    BY <1>15, <2>1, <4>2, <5>1
                <5>2. CASE Tail(m)[j].by # event.by
                    <6>1. Tail(m)[j].by \in Threads
                        <7>1. Tail(m)[j] \in Event
                            BY <1>6
                        <7>2. QED
                            BY <7>1 DEF Event
                    <6>2. Tail(m)[j].n > last[n][Tail(m)[j].by]
                        BY <1>1, <1>4, <2>3, <4>2 DEF Filed
                    <6>3. QED
                        BY <1>8, <1>15, <4>2, <5>2, <6>1, <6>2
                <5>3. QED
                    BY <5>1, <5>2
            <4>3. QED
                BY <1>4, <1>9, <2>2, <3>1, <4>1, <4>2
        <3>2. CASE r # s
            <4>1. handler[r] # Nobody => handler[r] # n /\ handler[r] \in Subscriptions
                <5>1. ASSUME handler[r] # Nobody, handler[r] = n PROVE FALSE
                    <6>1. /\ handle[handler[r]] = [slot |-> r, gen |-> generation[r]]
                          /\ handle[handler[s]] = [slot |-> s, gen |-> generation[s]]
                        BY <1>1, <1>4, <5>1 DEF Owned
                    <6>2. [slot |-> r, gen |-> generation[r]] = [slot |-> s, gen |-> generation[s]]
                        BY <5>1, <6>1
                    <6>3. QED
                        BY <3>2, <6>2
                <5>2. handler[r] # Nobody => handler[r] \in Subscriptions
                    BY <1>1, SubscribedAre DEF SlotsTyped, Nobody
                <5>3. QED
                    BY <5>1, <5>2
            <4>2. \A j \in DOMAIN mailbox[r] : mailbox[r][j].by \in Threads
                <5>1. \A j \in DOMAIN mailbox[r] : mailbox[r][j] \in Event
                    BY <1>1 DEF SlotsTyped
                <5>2. QED
                    BY <5>1 DEF Event
            <4>3. handler[r] # Nobody => \A j \in DOMAIN mailbox[r] :
                    last'[handler[r]][mailbox[r][j].by] = last[handler[r]][mailbox[r][j].by]
                BY <1>15, <4>1, <4>2
            <4>4. mailbox'[r] = mailbox[r]
                BY <1>9, <3>2
            <4>5. QED
                BY <1>1, <4>3, <4>4 DEF Filed
        <3>3. QED
            BY <3>1, <3>2
    <2>5. ASSUME NEW i \in Subscriptions, NEW u \in Threads
          PROVE  last'[i][u] <= published /\ (i > subscribed => last'[i][u] = 0)
        <3>1. CASE i = n /\ u = event.by
            <4>1. n # Nobody /\ n <= subscribed /\ subscribed \in Nat /\ n \in Nat
                BY <1>1, <1>8, <3>1 DEF Subscriptions, Nobody, HistoryTyped
            <4>2. last'[i][u] = event.n
                BY <1>15, <3>1, <4>1
            <4>3. QED
                BY <1>14, <3>1, <4>1, <4>2
        <3>2. CASE i # n \/ u # event.by
            BY <1>1, <1>15, <3>2 DEF Filed
        <3>3. QED
            BY <3>1, <3>2
    <2>6. ASSUME NEW u \in Threads, Publishing(u), NEW r \in thread[u].left
          PROVE  /\ Above(mailbox'[r], thread[u].event)
                 /\ handler[r] # Nobody => last'[handler[r]][u] < thread[u].event.n
        <3>1. r \in Slots /\ thread[u].event.by = u
            BY <1>1, <2>6 DEF ThreadsTyped
        <3>2. /\ Above(mailbox[r], thread[u].event)
              /\ handler[r] # Nobody => last[handler[r]][u] < thread[u].event.n
            BY <1>1, <2>6 DEF Filed
        <3>3. Above(mailbox'[r], thread[u].event)
            <4>1. CASE r = s
                <5>1. Above(m, thread[u].event)
                    BY <3>2, <4>1
                <5>2. Above(Tail(m), thread[u].event)
                    BY <2>3, <5>1 DEF Above
                <5>3. QED
                    BY <1>9, <4>1, <5>2
            <4>2. CASE r # s
                BY <1>9, <3>1, <3>2, <4>2
            <4>3. QED
                BY <4>1, <4>2
        <3>4. ASSUME handler[r] # Nobody PROVE last'[handler[r]][u] < thread[u].event.n
            <4>1. handler[r] \in Subscriptions
                BY <1>1, <3>1, <3>4, SubscribedAre DEF SlotsTyped, Nobody
            <4>2. CASE handler[r] # n \/ u # event.by
                BY <1>15, <3>2, <3>4, <4>1, <4>2
            <4>3. CASE handler[r] = n /\ u = event.by
                <5>1. r = s
                    <6>1. /\ handle[handler[r]] = [slot |-> r, gen |-> generation[r]]
                          /\ handle[handler[s]] = [slot |-> s, gen |-> generation[s]]
                        BY <1>1, <1>4, <3>1, <3>4, <4>3 DEF Owned
                    <6>2. [slot |-> r, gen |-> generation[r]] = [slot |-> s, gen |-> generation[s]]
                        BY <4>3, <6>1
                    <6>3. QED
                        BY <6>2
                <5>2. event.n < thread[u].event.n
                    BY <1>5, <3>1, <3>2, <4>3, <5>1 DEF Above
                <5>3. last'[handler[r]][u] = event.n
                    BY <1>15, <3>4, <4>3
                <5>4. QED
                    BY <5>2, <5>3
            <4>4. QED
                BY <4>2, <4>3
        <3>5. QED
            BY <3>3, <3>4
    <2>7. QED
        BY <1>1, <1>3, <2>4, <2>5, <2>6 DEF Filed, Publishing
<1>22. QED
    BY <1>16, <1>17, <1>18, <1>19, <1>20, <1>21 DEF IInv

LEMMA HandlerReturnsKeeps ==
    ASSUME IInv, NEW w \in Workers, HandlerReturns(w)
    PROVE  IInv'
<1> SUFFICES ASSUME NEW s, s = worker[w].slot PROVE IInv'
    OBVIOUS
<1>1. /\ SlotsTyped /\ HistoryTyped /\ ThreadsTyped /\ WorkersTyped
      /\ Owned /\ Called /\ Delivered /\ Waited /\ Filed
    BY DEF IInv, Typed
<1>2. /\ w \in WorkerCalls
      /\ busy' = [busy EXCEPT ![s] = FALSE]
      /\ inflight' = [inflight EXCEPT ![s] = IF @ > 0 THEN @ - 1 ELSE 0]
      /\ ring' = Append(ring, s) \/ ring' = ring
      /\ worker' = [worker EXCEPT ![w] = Looping]
      /\ UNCHANGED <<active, generation, handler, mailbox, thread, subscribed, published, async,
                     handle, ended, last>>
    BY DEF HandlerReturns, WorkerCalls, history
<1>3. s \in Slots
    BY <1>1, <1>2 DEF WorkersTyped, WorkerCalls
<1>4. async
    BY <1>1, <1>2, NoWorkerCalls DEF HistoryTyped
<1>5. busy' \in [Slots -> BOOLEAN] /\ \A r \in Slots \ {s} : busy'[r] = busy[r]
    BY <1>1, <1>2 DEF SlotsTyped
<1>6. inflight' \in [Slots -> Nat] /\ \A r \in Slots \ {s} : inflight'[r] = inflight[r]
    <2>1. inflight \in [Slots -> Nat] /\ (IF inflight[s] > 0 THEN inflight[s] - 1 ELSE 0) \in Nat
        BY <1>1, <1>3 DEF SlotsTyped
    <2>2. QED
        BY <1>2, <1>3, <2>1
<1>7. ring' \in Seq(Slots)
    BY <1>1, <1>2, <1>3, RingKeeps DEF SlotsTyped
<1>8. /\ worker' = [x \in Workers |-> worker'[x]]
      /\ worker'[w].at = "loop" /\ \A x \in Workers \ {w} : worker'[x] = worker[x]
    BY <1>1, <1>2 DEF WorkersTyped, Looping
<1>9. Typed'
    <2>1. SlotsTyped'
        BY <1>1, <1>2, <1>5, <1>6, <1>7 DEF SlotsTyped
    <2>2. HistoryTyped' /\ ThreadsTyped'
        BY <1>1, <1>2 DEF HistoryTyped, ThreadsTyped, Publishing, Delivering, Snapshot
    <2>3. WorkersTyped'
        BY <1>1, <1>2, <1>4, <1>8 DEF WorkersTyped, Handling
    <2>4. QED
        BY <2>1, <2>2, <2>3 DEF Typed
<1>10. Owned'
    BY <1>1, <1>2 DEF Owned
<1>11. Called'
    <2>1. \A x \in WorkerCalls' : x \in WorkerCalls /\ x # w /\ worker'[x] = worker[x]
        BY <1>8 DEF WorkerCalls, Handling
    <2>2. \A x \in WorkerCalls' : worker[x].slot \in Slots \ {s}
        BY <1>1, <1>2, <2>1 DEF Called, WorkersTyped, WorkerCalls
    <2>3. QED
        BY <1>1, <1>2, <1>5, <1>6, <2>1, <2>2 DEF Called
<1>12. Delivered'
    BY <1>1, <1>2, <1>4, NobodyDelivers DEF Delivered, Delivering
<1>13. Waited'
    BY <1>1, <1>2 DEF Waited, Current
<1>14. Filed'
    BY <1>1, <1>2 DEF Filed, Publishing
<1>15. QED
    BY <1>9, <1>10, <1>11, <1>12, <1>13, <1>14 DEF IInv

-----------------------------------------------------------------------------
(* The theorems *)

LEMMA InitHolds == Init => IInv
<1> SUFFICES ASSUME Init PROVE IInv
    OBVIOUS
<1>1. 1 \in Slots /\ 0 \in 0..0 /\ MaxSubscriptions \in Nat /\ 0 \in 0..MaxSubscriptions
    BY Assumption DEF Assumption, Slots
<1>2. /\ \A t \in Threads : thread[t].op = "idle"
      /\ \A w \in Workers : worker[w].at # "handling"
    BY DEF Init, Idle, Looping, Gone
<1>3. Typed
    <2>1. SlotsTyped
        BY <1>1 DEF Init, SlotsTyped, Nobody
    <2>2. handle \in [Subscriptions -> [slot : Slots, gen : Nat]]
        <3>1. [slot |-> 1, gen |-> 0] \in [slot : Slots, gen : Nat]
            BY <1>1
        <3>2. QED
            BY <3>1, Zenon DEF Init
    <2>3. async \in BOOLEAN
        BY Assumption DEF Init, Assumption
    <2>4. HistoryTyped
        BY <1>1, <2>2, <2>3 DEF Init, HistoryTyped
    <2>5. ThreadsTyped
        BY <1>2 DEF Init, ThreadsTyped, Publishing, Delivering
    <2>6. WorkersTyped
        BY <1>2 DEF Init, WorkersTyped, Handling
    <2>7. QED
        BY <2>1, <2>4, <2>5, <2>6 DEF Typed
<1>4. Owned
    BY DEF Init, Owned
<1>5. Called
    BY <1>2 DEF Called, WorkerCalls, Handling
<1>6. Delivered
    <2>1. \A s : InCallsOf(s) = {}
        BY <1>2 DEF InCallsOf, Delivering
    <2>2. \A s \in Slots : inflight[s] = 0
        BY DEF Init
    <2>3. Cardinality({}) = 0
        BY FS_EmptySet
    <2>4. QED
        BY <1>2, <2>1, <2>2, <2>3 DEF Delivered, Delivering
<1>7. Waited
    BY <1>2 DEF Waited
<1>8. Filed
    <2>1. \A t \in Threads : ~Publishing(t)
        BY <1>2 DEF Publishing
    <2>2. \A s \in Slots : mailbox[s] = <<>>
        BY DEF Init
    <2>3. \A n \in Subscriptions, t \in Threads : last[n][t] = 0
        BY DEF Init
    <2>4. published = 0
        BY DEF Init
    <2>5. QED
        BY <2>1, <2>2, <2>3, <2>4 DEF Filed, Rising
<1>9. QED
    BY <1>3, <1>4, <1>5, <1>6, <1>7, <1>8 DEF IInv

(* The steps of a thread that only wait, time out, return or begin *)
Bystep(t) ==
    \/ TimerWakes(t) \/ UnsubscribeWaits(t) \/ UnsubscribeTimeout(t) \/ PublishReturns(t)
    \/ Flush(t) \/ Shutdown(t) \/ FlushWaits(t) \/ FlushTimeout(t) \/ FlushReturns(t)
    \/ ShutdownDrained(t) \/ ShutdownReturns(t)

LEMMA BystepsRest == ASSUME IInv, NEW t \in Threads, Bystep(t) PROVE Restful
<1>1. ring \in Seq(Slots) /\ worker = [w \in Workers |-> worker[w]]
    BY DEF IInv, Typed, SlotsTyped, WorkersTyped
<1>2. UNCHANGED <<slotVars, mailbox, ring, worker, subscribed, published, history>>
    BY DEF Bystep, TimerWakes, UnsubscribeWaits, UnsubscribeTimeout, PublishReturns, Flush, Shutdown,
           FlushWaits, FlushTimeout, FlushReturns, ShutdownDrained, ShutdownReturns
<1>3. \/ UNCHANGED thread
      \/ \E call : Become(t, call) /\ call.op \in Resting /\ ~Delivering(t)
    BY DEF Bystep, TimerWakes, UnsubscribeWaits, UnsubscribeTimeout, PublishReturns, Flush, Shutdown,
           FlushWaits, FlushTimeout, FlushReturns, ShutdownDrained, ShutdownReturns, Idle, Resting,
           Delivering
<1>4. QED
    BY <1>1, <1>2, <1>3 DEF Restful

LEMMA WorkersRest == ASSUME IInv, NEW w \in Workers, WorkerWaits(w) \/ WorkerExits(w) PROVE Restful
<1>1. worker = [x \in Workers |-> worker[x]] /\ worker[w] # Gone /\ ~Handling(w)
    BY DEF IInv, Typed, WorkersTyped, WorkerWaits, WorkerExits, AtLoop, Handling, Looping, Gone
<1>2. UNCHANGED <<slotVars, mailbox, thread, subscribed, published, history>> /\ ring' = <<>>
    BY DEF WorkerWaits, WorkerExits
<1>3. worker' = worker \/ worker' = [worker EXCEPT ![w] = Gone]
    BY DEF WorkerWaits, WorkerExits
<1>4. QED
    BY <1>1, <1>2, <1>3 DEF Restful

LEMMA StepKeeps == ASSUME IInv, [Next]_vars PROVE IInv'
<1>1. /\ ring \in Seq(Slots) /\ worker = [w \in Workers |-> worker[w]]
      /\ ThreadsTyped
    BY DEF IInv, Typed, SlotsTyped, WorkersTyped
<1>2. ASSUME NEW t \in Threads, Caller(t) PROVE IInv'
    <2>1. CASE Bystep(t)
        BY <2>1, BystepsRest, RestfulKeeps
    <2>2. CASE \E n \in Subscriptions : Unsubscribe(t, n)
        BY <2>2, UnsubscribeKeeps
    <2>3. CASE \E e \in Topics : Publish(t, e) \/ PublishSync(t, e)
        BY <2>3, PublishKeeps, PublishSyncKeeps
    <2>4. CASE SyncHandlerReturns(t) \/ UnsubscribeReturn(t)
        BY <2>4, SyncHandlerReturnsKeeps, FreedKeeps
    <2>5. CASE PublishSkips(t) \/ PublishEnqueues(t) \/ PublishBlocks(t)
        <3>1. Publishing(t) /\ thread[t].left # {}
            BY <2>5 DEF PublishSkips, PublishEnqueues, PublishBlocks, Walking, Publishing
        <3>2. QED
            BY <2>5, <3>1, SkipKeeps, EnqueueKeeps, WaitKeeps
               DEF PublishSkips, PublishEnqueues, PublishBlocks
    <2>6. CASE BlockedTimeout(t) \/ BlockedCancelled(t) \/ BlockedAgain(t) \/ BlockedEnqueues(t)
        <3>1. Publishing(t) /\ thread[t].left # {}
            BY <1>1, <2>6 DEF BlockedTimeout, BlockedCancelled, BlockedAgain, BlockedEnqueues,
                              Blocked, Publishing, ThreadsTyped
        <3>2. QED
            BY <2>6, <3>1, SkipKeeps, EnqueueKeeps, WaitKeeps
               DEF BlockedTimeout, BlockedCancelled, BlockedAgain, BlockedEnqueues, Changed
    <2>7. QED
        BY <1>2, <2>1, <2>2, <2>3, <2>4, <2>5, <2>6
           DEF Caller, Continue, Timeout, PublishStep, UnsubscribeStep, FlushStep, Bystep
<1>3. ASSUME NEW w \in Workers, WorkerStep(w) \/ HandlerReturns(w) PROVE IInv'
    BY <1>3, WorkersRest, RestfulKeeps, WorkerTakesKeeps, HandlerReturnsKeeps DEF WorkerStep
<1>4. ASSUME UNCHANGED vars PROVE IInv'
    BY <1>1, <1>4, RestfulKeeps DEF vars, Restful
<1>5. QED
    BY <1>2, <1>3, <1>4, SubscribeKeeps DEF Next

(* After unsubscribe returned success, no worker and no publisher is in    *)
(* the handler or will call it from a copy it took before: the slot's      *)
(* generation cannot move while a call of it is in flight.                 *)
THEOREM EndedHandlersRest == Spec => []NoLateHandler
<1>1. IInv => NoLateHandler
    <2>1. Nobody \notin 1..subscribed
        BY DEF Nobody
    <2>2. ASSUME IInv PROVE NoLateHandler
        BY <2>1, <2>2, ZenonT(40) DEF IInv, Typed, HistoryTyped, Called, Delivered, NoLateHandler, Delivering
    <2>3. QED
        BY <2>2
<1>2. QED
    BY <1>1, InitHolds, StepKeeps, PTL DEF Spec

(* A handler is called by one worker at a time, and the events of each     *)
(* publisher reach it in the order they were published, whatever the       *)
(* overflow policy and however publishers, workers and the reuse of slots  *)
(* interleave.                                                             *)
THEOREM EventsInOrder == Spec => []InOrder
<1>1. ASSUME IInv PROVE InOrder
    <2>1. \A v, w \in WorkerCalls : worker[v].slot = worker[w].slot => v = w
        BY <1>1 DEF IInv, Called
    <2>2. ASSUME NEW s \in Slots, handler[s] # Nobody, NEW j \in DOMAIN mailbox[s]
          PROVE  /\ mailbox[s][j].n > last[handler[s]][mailbox[s][j].by]
                 /\ \A k \in (j + 1)..Len(mailbox[s]) :
                       mailbox[s][j].by = mailbox[s][k].by => mailbox[s][j].n < mailbox[s][k].n
        <3>1. mailbox[s][j].n > last[handler[s]][mailbox[s][j].by] /\ Rising(mailbox[s])
            BY <1>1, <2>2 DEF IInv, Filed
        <3>2. mailbox[s] \in Seq(Event)
            BY <1>1 DEF IInv, Typed, SlotsTyped
        <3>3. \A k \in (j + 1)..Len(mailbox[s]) : k \in DOMAIN mailbox[s] /\ j < k
            BY <3>2
        <3>4. QED
            BY <3>1, <3>3 DEF Rising
    <2>3. QED
        BY <2>1, <2>2 DEF InOrder
<1>2. QED
    BY <1>1, InitHolds, StepKeeps, PTL DEF Spec

(* A publisher that slept until a mailbox had room fills it only on behalf *)
(* of the subscription it waited for; slot number and generation, compared *)
(* after the wait, are enough to tell.                                     *)
THEOREM WaitersKnowTheirSlot == Spec => WaitKeepsSubscription
<1>1. ASSUME IInv
      PROVE  \A t \in Threads : BlockedEnqueues(t) => handler[Current(t)] = thread[t].sub
    BY <1>1 DEF IInv, Waited, BlockedEnqueues, Blocked, Changed
<1>2. QED
    BY <1>1, InitHolds, StepKeeps, PTL DEF Spec, WaitKeepsSubscription
=============================================================================
