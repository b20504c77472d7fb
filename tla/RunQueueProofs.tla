--------------------------- MODULE RunQueueProofs ---------------------------
(* Theorems about RunQueue, for every number of sessions, lanes, workers,  *)
(* callers and runs and every configuration: its representation, who owns  *)
(* a running job, what the gauges count, what a shutdown that returned has *)
(* left behind, who is woken, and that the queue is the service its header *)
(* describes.                                                              *)
EXTENDS RunQueue, FiniteSetTheorems, FunctionTheorems, TLAPS

USE ConfigAssumption, ThreadAssumption DEF ConfigAssumption, ThreadAssumption, NoRun, Runs, Results, JobStates, Actions
-----------------------------------------------------------------------------
(* The representation *)

(* What the helper that counts down does on the natural numbers *)
LEMMA LessType ==
    ASSUME NEW n \in Nat, NEW S, IsFiniteSet(S)
    PROVE  Less(n, S) \in Nat
BY FS_CardinalityType DEF Less

LEMMA LiveFinite == TypeOK => IsFiniteSet(Live)
<1> SUFFICES ASSUME TypeOK PROVE IsFiniteSet(Live)
    OBVIOUS
<1>1. submitted \in Int
    BY DEF TypeOK
<1>2. IsFiniteSet(1..submitted)
    BY <1>1, FS_Interval
<1>3. QED
    BY <1>2, FS_Subset DEF TypeOK, Live

LEMMA InitTypeOK == Init => TypeOK
<1> SUFFICES ASSUME Init PROVE TypeOK
    OBVIOUS
<1>1. jobs \in [DOMAIN jobs -> Job] /\ DOMAIN jobs = {}
    <2>1. jobs = [r \in {} |-> 0]
        BY DEF Init
    <2>2. DOMAIN jobs = {}
        BY <2>1
    <2>3. [r \in {} |-> 0] \in [{} -> Job]
        OBVIOUS
    <2>4. jobs \in [{} -> Job]
        BY <2>1, <2>3
    <2>5. [DOMAIN jobs -> Job] = [{} -> Job]
        BY <2>2
    <2>6. QED
        BY <2>2, <2>4, <2>5
<1>2. /\ submitted \in 0..MaxRuns /\ DOMAIN jobs \subseteq 1..submitted
      /\ tracked \subseteq Sessions /\ sessionInFlight \in [Sessions -> Nat]
      /\ \A s \in Sessions \ tracked : sessionInFlight[s] = 0
      /\ laneInFlight \in [Lanes -> Nat]
    BY <1>1 DEF Init
<1>3. /\ totalPending \in Nat /\ totalInFlight \in Nat
      /\ totalCompleted \in Nat /\ totalJobs \in Nat
      /\ completedTotal \in Nat /\ cancelledTotal \in Nat
      /\ shuttingDown \in BOOLEAN /\ closing \in BOOLEAN /\ destroyed \in BOOLEAN
    BY DEF Init
<1>4. /\ worker \in [Workers -> {"loop", "claimed", "executing", "finishing", "exited"}]
      /\ held \in [Workers -> 0..MaxRuns]
    BY DEF Init
<1>5. /\ caller \in [Callers -> {"idle", "collecting", "stopping", "destroying", "joining"}]
      /\ target \in [Callers -> 0..MaxRuns] /\ timed \in [Callers -> BOOLEAN]
      /\ answer \in [Callers -> Answers] /\ asleep \subseteq Workers \cup Callers
    BY DEF Init, Answers
<1>6. QED
    BY <1>1, <1>2, <1>3, <1>4, <1>5 DEF TypeOK

LEMMA StoppedType ==
    ASSUME TypeOK, NEW P, NEW K
    PROVE  Stopped(P, K) \in [Live -> Job]
<1>1. jobs \in [Live -> Job]
    BY DEF TypeOK, Live
<1>2. ASSUME NEW r \in Live
      PROVE  /\ [jobs[r] EXCEPT !.state = "completed", !.result = "cancelled", !.cancelled = TRUE] \in Job
             /\ [jobs[r] EXCEPT !.cancelled = TRUE] \in Job
             /\ jobs[r] \in Job
    BY <1>1, <1>2 DEF Job
<1>3. QED
    BY <1>2 DEF Stopped

LEMMA CardinalityOfLive ==
    ASSUME TypeOK, NEW P, P \subseteq Live
    PROVE  IsFiniteSet(P) /\ Cardinality(P) \in Nat
BY LiveFinite, FS_Subset, FS_CardinalityType

LEMMA StatesAreLive ==
    /\ \A st : InState(st) \subseteq Live
    /\ \A s : PendingOf(s) \subseteq Live /\ RunningOf(s) \subseteq Live
BY DEF InState, PendingOf, RunningOf, OfSession

LEMMA ExpirableIsLive == ASSUME NEW E \in Expirable PROVE E \subseteq InState("completed")
BY DEF Expirable

LEMMA StopType ==
    ASSUME TypeOK, NEW P, NEW K, P \subseteq Live, Stop(P, K)
    PROVE  /\ jobs' \in [Live -> Job]
           /\ totalPending' \in Nat /\ totalCompleted' \in Nat
           /\ completedTotal' \in Nat /\ cancelledTotal' \in Nat
<1>1. IsFiniteSet(P) /\ Cardinality(P) \in Nat
    BY CardinalityOfLive
<1>2. Less(totalPending, P) \in Nat
    BY <1>1, LessType DEF TypeOK
<1>3. QED
    BY <1>1, <1>2, StoppedType DEF Stop, TypeOK, CountCancelled

LEMMA InterruptKeepsType ==
    ASSUME TypeOK, NEW P, NEW K, P \subseteq Live,
           Stop(P, K), shuttingDown' \in BOOLEAN, closing' \in BOOLEAN,
           caller' \in [Callers -> {"idle", "collecting", "stopping", "destroying", "joining"}],
           target' \in [Callers -> 0..MaxRuns],
           timed' \in [Callers -> BOOLEAN],
           answer' \in [Callers -> Answers]
    PROVE  TypeOK'
<1>1. /\ UNCHANGED <<submitted, tracked, sessionInFlight, laneInFlight>>
      /\ UNCHANGED <<totalInFlight, totalJobs, worker, held, destroyed>>
      /\ asleep' = {}
    BY DEF Stop, limits, threads, Broadcast
<1>2. DOMAIN jobs' = Live
    BY StopType
<1>3. QED
    BY <1>1, <1>2, StopType DEF TypeOK, Live

LEMMA PurgeKeepsType ==
    ASSUME TypeOK, NEW E \in Expirable, Purge(E)
    PROVE  TypeOK'
<1>1. E \subseteq Live
    BY ExpirableIsLive, StatesAreLive
<1>2. Less(totalJobs, E) \in Nat /\ Less(totalCompleted, E) \in Nat
    BY <1>1, CardinalityOfLive, LessType DEF TypeOK
<1>3. jobs' \in [Live \ E -> Job] /\ DOMAIN jobs' \subseteq Live
    BY DEF Purge, TypeOK, Live
<1>4. QED
    BY <1>2, <1>3 DEF Purge, TypeOK, Live, limits, totals, threads, calls

LEMMA SubmitKeepsType ==
    ASSUME TypeOK, NEW s \in Sessions, NEW l \in Lanes, NEW a \in Actions, Submit(s, l, a)
    PROVE  TypeOK'
<1>1. PICK E \in Expirable :
          \/ Purge(E)
          \/ /\ submitted' = submitted + 1
             /\ jobs' = [q \in (Live \ E) \cup {submitted + 1} |->
                            IF q = submitted + 1 THEN NewJob(s, l)
                            ELSE Stopped(SupersededBy(s, a), CancelledBy(s, a))[q]]
             /\ totalPending' = Less(totalPending, SupersededBy(s, a)) + 1
             /\ totalCompleted' = Less(totalCompleted, E) + Cardinality(SupersededBy(s, a))
             /\ totalJobs' = Less(totalJobs, E) + 1
             /\ CountCancelled(SupersededBy(s, a))
             /\ Broadcast
             /\ UNCHANGED <<limits, totalInFlight, shuttingDown, threads, calls,
                            closing, destroyed>>
    BY DEF Submit
<1>2. CASE Purge(E)
    BY <1>2, PurgeKeepsType
<1>3. CASE ~Purge(E)
    <2> DEFINE P == SupersededBy(s, a)
    <2>1. E \subseteq Live /\ P \subseteq Live
        BY ExpirableIsLive, StatesAreLive DEF SupersededBy
    <2>2. /\ Less(totalJobs, E) \in Nat /\ Less(totalCompleted, E) \in Nat
          /\ Less(totalPending, P) \in Nat /\ Cardinality(P) \in Nat
        BY <2>1, CardinalityOfLive, LessType DEF TypeOK
    <2>3. submitted' \in 0..MaxRuns /\ submitted \in Nat
        BY <1>1, <1>3 DEF Submit, TypeOK
    <2>4. NewJob(s, l) \in Job
        BY DEF NewJob, Job
    <2>5. jobs' \in [DOMAIN jobs' -> Job] /\ DOMAIN jobs' \subseteq 1..submitted'
        BY <1>1, <1>3, <2>3, <2>4, StoppedType DEF TypeOK, Live
    <2>6. QED
        BY <1>1, <1>3, <2>2, <2>3, <2>5
        DEF TypeOK, limits, threads, calls, CountCancelled, Broadcast
<1>4. QED
    BY <1>2, <1>3

LEMMA AbandonKeepsType ==
    ASSUME TypeOK, NEW r \in 1..submitted, AbandonUnstarted(r) \/ AbandonRunning(r)
    PROVE  TypeOK'
<1>1. CASE AbandonUnstarted(r)
    <2> DEFINE P == {r} \cap InState("pending")
    <2>1. r \in Live /\ P \subseteq Live /\ {r} \subseteq Live
        BY <1>1 DEF AbandonUnstarted
    <2>2. /\ Cardinality(P) \in Nat /\ IsFiniteSet(P) /\ IsFiniteSet({r})
        BY <2>1, CardinalityOfLive
    <2>3. totalCompleted + Cardinality(P) \in Nat
        BY <2>2 DEF TypeOK
    <2>4. /\ Less(totalPending, P) \in Nat /\ Less(totalJobs, {r}) \in Nat
          /\ Less(totalCompleted + Cardinality(P), {r}) \in Nat
        BY <2>2, <2>3, LessType DEF TypeOK
    <2>5. jobs' \in [Live \ {r} -> Job] /\ DOMAIN jobs' \subseteq Live
        BY <1>1 DEF AbandonUnstarted, TypeOK, Live
    <2>6. QED
        BY <1>1, <2>2, <2>4, <2>5
        DEF AbandonUnstarted, TypeOK, Live, limits, threads, calls, CountCancelled, Broadcast
<1>2. CASE AbandonRunning(r)
    <2>1. jobs' \in [Live -> Job] /\ DOMAIN jobs' = Live
        <3>1. jobs \in [Live -> Job] /\ r \in Live
            BY <1>2 DEF AbandonRunning, TypeOK, Live
        <3>2. [jobs[r] EXCEPT !.abandoned = TRUE, !.cancelled = TRUE] \in Job
            BY <3>1 DEF Job
        <3>3. QED
            BY <1>2, <3>1, <3>2 DEF AbandonRunning
    <2>2. QED
        BY <1>2, <2>1
        DEF AbandonRunning, TypeOK, Live, limits, gauges, totals, threads, calls, Broadcast
<1>3. QED
    BY <1>1, <1>2

LEMMA WalkKeepsType ==
    ASSUME TypeOK, NEW r \in InState("pending") \cup {NoRun}, Walk(r)
    PROVE  /\ tracked \subseteq tracked' /\ tracked' \subseteq Sessions
           /\ jobs' \in [Live -> Job] /\ DOMAIN jobs' = Live
           /\ totalPending' \in Nat /\ totalCompleted' \in Nat
           /\ completedTotal' \in Nat /\ cancelledTotal' \in Nat
<1> DEFINE walk == {q \in InState("pending") : r = NoRun \/ q <= r}
           D == Dropped(walk)
           S == {r} \ {NoRun}
<1>1. D \subseteq Live /\ S \subseteq Live
    BY StatesAreLive DEF Dropped
<1>2. IsFiniteSet(D) /\ IsFiniteSet(S) /\ Cardinality(D) \in Nat
    BY <1>1, CardinalityOfLive
<1>3. Less(totalPending, D) \in Nat
    BY <1>2, LessType DEF TypeOK
<1>4. Less(Less(totalPending, D), S) \in Nat
    BY <1>2, <1>3, LessType
<1>5. ASSUME NEW q \in Live
      PROVE  [jobs[q] EXCEPT !.state = "running"] \in Job /\ Stopped(D, {})[q] \in Job
    BY <1>5, StoppedType, SMTT(40) DEF TypeOK, Live, Job
<1>6. jobs' \in [Live -> Job] /\ DOMAIN jobs' = Live
    BY <1>5 DEF Walk
<1>7. tracked \subseteq tracked' /\ tracked' \subseteq Sessions
    BY DEF Walk, TrackedAfter, TypeOK
<1>8. totalPending' \in Nat
    BY <1>4 DEF Walk
<1>9. totalCompleted' = totalCompleted + Cardinality(D) /\ CountCancelled(D)
    BY DEF Walk
<1>10. QED
    BY <1>2, <1>6, <1>7, <1>8, <1>9 DEF CountCancelled, TypeOK

LEMMA WorkerKeepsType ==
    ASSUME TypeOK, NEW w \in Workers, Worker(w)
    PROVE  TypeOK'
<1>1. CASE WorkerClaim(w)
    <2>1. PICK r \in First(Runnable) :
              /\ Walk(r)
              /\ sessionInFlight' = [sessionInFlight EXCEPT ![jobs[r].session] = @ + 1]
              /\ laneInFlight' = [laneInFlight EXCEPT ![jobs[r].lane] = @ + 1]
              /\ held' = [held EXCEPT ![w] = r]
        BY <1>1 DEF WorkerClaim
    <2>2. r \in InState("pending") /\ r \in Live /\ CanTrack(jobs[r].session)
        BY <2>1 DEF First, Runnable, InState
    <2>3. jobs[r].session \in tracked' /\ r \in 0..MaxRuns
        <3>1. r \in PendingOf(jobs[r].session) /\ jobs[r].session \in Sessions
            BY <2>2 DEF PendingOf, OfSession, TypeOK, Live, Job
        <3>2. r \in {q \in InState("pending") : r = NoRun \/ q <= r}
            BY <2>2 DEF TypeOK, Live
        <3>3. QED
            BY <2>1, <2>2, <3>1, <3>2 DEF Walk, TrackedAfter, TypeOK, Live
    <2>4. /\ tracked \subseteq tracked' /\ tracked' \subseteq Sessions
          /\ jobs' \in [Live -> Job] /\ DOMAIN jobs' = Live
          /\ totalPending' \in Nat /\ totalCompleted' \in Nat
          /\ completedTotal' \in Nat /\ cancelledTotal' \in Nat
        BY <2>1, <2>2, WalkKeepsType
    <2>5. /\ sessionInFlight' \in [Sessions -> Nat]
          /\ \A s \in Sessions \ tracked' : sessionInFlight'[s] = 0
          /\ laneInFlight' \in [Lanes -> Nat]
          /\ held' \in [Workers -> 0..MaxRuns]
        <3>1. jobs[r].session \in Sessions /\ jobs[r].lane \in Lanes
            BY <2>2 DEF TypeOK, Live, Job
        <3>2. /\ sessionInFlight' \in [Sessions -> Nat]
              /\ \A s \in Sessions : s # jobs[r].session => sessionInFlight'[s] = sessionInFlight[s]
            BY <2>1, <3>1 DEF TypeOK
        <3>3. \A s \in Sessions \ tracked' : sessionInFlight'[s] = 0
            BY <2>3, <2>4, <3>2 DEF TypeOK
        <3>4. laneInFlight' \in [Lanes -> Nat] /\ held' \in [Workers -> 0..MaxRuns]
            BY <2>1, <2>3, <3>1 DEF TypeOK
        <3>5. QED
            BY <3>2, <3>3, <3>4
    <2>6. QED
        BY <1>1, <2>4, <2>5 DEF WorkerClaim, TypeOK, Live, calls
<1>2. CASE WorkerWait(w)
    <2>1. /\ tracked \subseteq tracked' /\ tracked' \subseteq Sessions
          /\ jobs' \in [Live -> Job] /\ DOMAIN jobs' = Live
          /\ totalPending' \in Nat /\ totalCompleted' \in Nat
          /\ completedTotal' \in Nat /\ cancelledTotal' \in Nat
        BY <1>2, WalkKeepsType DEF WorkerWait
    <2>2. QED
        BY <1>2, <2>1 DEF WorkerWait, TypeOK, Live, threads, calls
<1>3. CASE WorkerExit(w)
    BY <1>3 DEF WorkerExit, TypeOK, queue, limits, gauges, totals, calls
<1>4. CASE WorkerCheck(w) \/ TaskReturns(w)
    <2>1. jobs' \in [Live -> Job] /\ DOMAIN jobs' = Live
        BY <1>4 DEF WorkerCheck, TaskReturns, TypeOK, Live, Job
    <2>2. QED
        BY <1>4, <2>1
        DEF WorkerCheck, TaskReturns, TypeOK, Live, limits, gauges, totals, calls
<1>5. CASE WorkerFinish(w)
    <2> DEFINE r == held[w]
               s == jobs[r].session
    <2>1. \A n \in Nat : Decrement(n) \in Nat
        BY DEF Decrement
    <2>2. jobs' \in [DOMAIN jobs' -> Job] /\ DOMAIN jobs' \subseteq Live
        BY <1>5 DEF WorkerFinish, TypeOK, Live, Job
    <2>3. laneInFlight' \in [Lanes -> Nat]
        BY <1>5, <2>1 DEF WorkerFinish, TypeOK
    <2>4. /\ sessionInFlight' \in [Sessions -> Nat]
          /\ tracked' \subseteq Sessions
          /\ \A t \in Sessions \ tracked' : sessionInFlight'[t] = 0
        BY <1>5, <2>1 DEF WorkerFinish, TypeOK, RemoveIdle
    <2>5. /\ totalInFlight' \in Nat /\ totalJobs' \in Nat /\ totalCompleted' \in Nat
          /\ completedTotal' \in Nat /\ cancelledTotal' \in Nat
        BY <1>5, <2>1 DEF WorkerFinish, TypeOK
    <2>6. held' \in [Workers -> 0..MaxRuns] /\ worker' \in [Workers -> {"loop", "claimed", "executing", "finishing", "exited"}]
        BY <1>5 DEF WorkerFinish, TypeOK
    <2>7. QED
        BY <1>5, <2>2, <2>3, <2>4, <2>5, <2>6 DEF WorkerFinish, TypeOK, Live, calls, Broadcast
<1>6. QED
    BY <1>1, <1>2, <1>3, <1>4, <1>5 DEF Worker

LEMMA ReturnKeepsType ==
    ASSUME TypeOK, NEW c \in Callers, NEW a \in Answers, Return(c, a)
    PROVE  /\ caller' \in [Callers -> {"idle", "collecting", "stopping", "destroying", "joining"}]
           /\ target' \in [Callers -> 0..MaxRuns] /\ timed' \in [Callers -> BOOLEAN]
           /\ answer' \in [Callers -> Answers]
BY DEF Return, TypeOK

LEMMA CallKeepsType ==
    ASSUME TypeOK, NEW c \in Callers, NEW t \in BOOLEAN, NEW r \in 0..MaxRuns,
           NEW what \in {"collecting", "stopping", "destroying"}, Call(c, what, r, t)
    PROVE  /\ caller' \in [Callers -> {"idle", "collecting", "stopping", "destroying", "joining"}]
           /\ target' \in [Callers -> 0..MaxRuns] /\ timed' \in [Callers -> BOOLEAN]
           /\ answer' \in [Callers -> Answers]
BY DEF Call, TypeOK, Answers

LEMMA BeginKeepsType ==
    ASSUME TypeOK, NEW c \in Callers, NEW t \in BOOLEAN, Shutdown(c, t) \/ Destroy(c)
    PROVE  TypeOK'
<1>1. /\ caller' \in [Callers -> {"idle", "collecting", "stopping", "destroying", "joining"}]
      /\ target' \in [Callers -> 0..MaxRuns] /\ timed' \in [Callers -> BOOLEAN]
      /\ answer' \in [Callers -> Answers]
    <2>1. NoRun \in 0..MaxRuns
        OBVIOUS
    <2>2. CASE Call(c, "stopping", NoRun, t)
        BY <2>1, <2>2, CallKeepsType
    <2>3. CASE Call(c, "destroying", NoRun, FALSE)
        BY <2>1, <2>3, CallKeepsType
    <2>4. QED
        BY <2>2, <2>3 DEF Shutdown, Destroy
<1>2. BeginStopping /\ closing' \in BOOLEAN
    BY DEF Shutdown, Destroy, TypeOK
<1>3. CASE shuttingDown
    BY <1>1, <1>2, <1>3 DEF BeginStopping, TypeOK, queue, limits, gauges, totals, threads
<1>4. CASE ~shuttingDown
    <2>1. Stop(InState("pending"), InState("running")) /\ shuttingDown'
        BY <1>2, <1>4 DEF BeginStopping
    <2>2. QED
        BY <1>1, <1>2, <2>1, StatesAreLive, InterruptKeepsType
<1>5. QED
    BY <1>3, <1>4

LEMMA CallerKeepsType ==
    ASSUME TypeOK, NEW c \in Callers, Caller(c) \/ Timeout(c)
    PROVE  TypeOK'
<1>1. CASE CollectWait(c) \/ ShutdownWait(c)
    BY <1>1 DEF CollectWait, ShutdownWait, Sleep, TypeOK, queue, limits, gauges, totals,
                threads, calls
<1>2. CASE CollectMissing(c) \/ CollectTimeout(c) \/ ShutdownTimeout(c)
    <2>1. \E a \in Answers : Return(c, a)
        BY <1>2 DEF CollectMissing, CollectTimeout, ShutdownTimeout, Answers
    <2>2. QED
        BY <1>2, <2>1, ReturnKeepsType
        DEF CollectMissing, CollectTimeout, ShutdownTimeout, TypeOK, queue, limits,
            gauges, totals, threads
<1>3. CASE CollectTake(c)
    <2>1. jobs[target[c]].result \in Answers
        BY <1>3 DEF CollectTake, Completed, TypeOK, Live, Job, Answers
    <2>2. jobs' \in [DOMAIN jobs' -> Job] /\ DOMAIN jobs' \subseteq Live
        BY <1>3 DEF CollectTake, TypeOK, Live
    <2>3. QED
        BY <1>3, <2>1, <2>2, ReturnKeepsType
        DEF CollectTake, Decrement, TypeOK, Live, limits, totals, threads
<1>4. CASE ShutdownReturn(c)
    <2>1. "done" \in Answers
        BY DEF Answers
    <2>2. /\ caller' \in [Callers -> {"idle", "collecting", "stopping", "destroying", "joining"}]
          /\ target' \in [Callers -> 0..MaxRuns] /\ timed' \in [Callers -> BOOLEAN]
          /\ answer' \in [Callers -> Answers]
        BY <1>4, <2>1, ReturnKeepsType DEF ShutdownReturn, TypeOK
    <2>3. QED
        BY <1>4, <2>2 DEF ShutdownReturn, TypeOK, queue, limits, gauges, totals, threads
<1>5. CASE DestroyReturn(c)
    <2>1. "done" \in Answers
        BY DEF Answers
    <2>2. QED
        BY <1>5, <2>1, ReturnKeepsType
        DEF DestroyReturn, TypeOK, queue, limits, gauges, totals, threads
<1>6. QED
    BY <1>1, <1>2, <1>3, <1>4, <1>5 DEF Caller, Timeout

LEMMA StepKeepsType == TypeOK /\ [Next]_vars => TypeOK'
<1> SUFFICES ASSUME TypeOK, [Next]_vars PROVE TypeOK'
    OBVIOUS
<1>1. CASE Client
    <2>1. ASSUME NEW s \in Sessions, NEW l \in Lanes, NEW a \in Actions, Submit(s, l, a)
          PROVE  TypeOK'
        BY <2>1, SubmitKeepsType
    <2>2. CASE GetStatus
        BY <2>2, PurgeKeepsType DEF GetStatus
    <2>3. ASSUME NEW s \in Sessions, InterruptSession(s)
          PROVE  TypeOK'
        BY <2>3, StatesAreLive, InterruptKeepsType DEF InterruptSession, TypeOK, calls
    <2>4. ASSUME NEW r \in 1..submitted, InterruptRun(r)
          PROVE  TypeOK'
        BY <2>4, InterruptKeepsType DEF InterruptRun, TypeOK, calls
    <2>5. ASSUME NEW r \in 1..submitted, AbandonUnstarted(r) \/ AbandonRunning(r)
          PROVE  TypeOK'
        BY <2>5, AbandonKeepsType
    <2>6. ASSUME NEW c \in Callers, NEW t \in BOOLEAN, Shutdown(c, t) \/ Destroy(c)
          PROVE  TypeOK'
        BY <2>6, BeginKeepsType
    <2>7. ASSUME NEW c \in Callers, NEW t \in BOOLEAN, NEW r \in 1..submitted, Collect(c, r, t)
          PROVE  TypeOK'
        <3>1. r \in 0..MaxRuns
            BY DEF TypeOK
        <3>2. QED
            BY <2>7, <3>1, CallKeepsType
            DEF Collect, TypeOK, queue, limits, gauges, totals, threads
    <2>8. QED
        BY <1>1, <2>1, <2>2, <2>3, <2>4, <2>5, <2>6, <2>7 DEF Client
<1>2. ASSUME NEW w \in Workers, Worker(w) PROVE TypeOK'
    BY <1>2, WorkerKeepsType
<1>3. ASSUME NEW c \in Callers, Caller(c) \/ Timeout(c) PROVE TypeOK'
    BY <1>3, CallerKeepsType
<1>4. ASSUME NEW t \in Workers \cup Callers, Wake(t) PROVE TypeOK'
    BY <1>4 DEF Wake, TypeOK, queue, limits, gauges, totals, threads, calls
<1>5. CASE UNCHANGED vars
    BY <1>5 DEF vars, TypeOK, queue, limits, gauges, totals, threads, calls
<1>6. QED
    BY <1>1, <1>2, <1>3, <1>4, <1>5 DEF Next

(* The representation invariant holds in every reachable state. *)
THEOREM TypeCorrect == Spec => []TypeOK
BY InitTypeOK, StepKeepsType, PTL DEF Spec

-----------------------------------------------------------------------------
(* The safety theorems.  Each handler moves runs between three sets, the   *)
(* pending, the running and the completed ones, and out of the list.  The  *)
(* first lemmas say which runs it moves; the rest follows from them.       *)

Pend == InState("pending")
Run == InState("running")
Comp == InState("completed")

AtWork == {"claimed", "executing", "finishing"}

(* A worker holds a job exactly while it is at work on it. *)
Ownership ==
    /\ WorkerOwnsItsJob
    /\ \A w \in Workers : (held[w] # NoRun) = (worker[w] \in AtWork)

LEMMA ThreeStates ==
    ASSUME TypeOK
    PROVE  /\ Live = Pend \cup Run \cup Comp
           /\ Pend \cap Run = {} /\ Pend \cap Comp = {} /\ Run \cap Comp = {}
BY DEF Pend, Run, Comp, InState, TypeOK, Live, Job

LEMMA Finite ==
    ASSUME TypeOK, NEW S, S \subseteq Live
    PROVE  IsFiniteSet(S) /\ Cardinality(S) \in Nat
BY CardinalityOfLive

-----------------------------------------------------------------------------
(* Which runs each step moves *)

LEMMA StoppedMoves ==
    ASSUME TypeOK, NEW P, NEW K, P \subseteq Pend, NEW q \in Live
    PROVE  /\ q \in P => Stopped(P, K)[q].state = "completed"
           /\ q \notin P => Stopped(P, K)[q].state = jobs[q].state
           /\ Stopped(P, K)[q].session = jobs[q].session
           /\ Stopped(P, K)[q].lane = jobs[q].lane
BY DEF Stopped, TypeOK, Live, Job

LEMMA StopMoves ==
    ASSUME TypeOK, NEW P, NEW K, P \subseteq Pend, Stop(P, K)
    PROVE  /\ Pend' = Pend \ P /\ Run' = Run /\ Comp' = Comp \cup P /\ Live' = Live
           /\ \A q \in Live : jobs'[q].session = jobs[q].session /\ jobs'[q].lane = jobs[q].lane
<1>1. jobs' = Stopped(P, K) /\ DOMAIN Stopped(P, K) = Live
    BY DEF Stop, Stopped
<1>2. Live' = Live
    BY <1>1 DEF Live
<1>3. QED
    BY <1>1, <1>2, StoppedMoves DEF Pend, Run, Comp, InState

LEMMA PurgeMoves ==
    ASSUME TypeOK, NEW E \in Expirable, Purge(E)
    PROVE  /\ Pend' = Pend /\ Run' = Run /\ Comp' = Comp \ E /\ Live' = Live \ E
           /\ E \subseteq Comp
           /\ \A q \in Live \ E : jobs'[q] = jobs[q]
<1>1. E \subseteq Comp
    BY ExpirableIsLive DEF Comp
<1>2. jobs' = [r \in Live \ E |-> jobs[r]] /\ Live' = Live \ E
    BY DEF Purge, Live
<1>3. QED
    BY <1>1, <1>2 DEF Pend, Run, Comp, InState

(* A submission that is accepted, with the purge E before it *)
Accepted(s, l, a, E) ==
    /\ submitted' = submitted + 1
    /\ jobs' = [q \in (Live \ E) \cup {submitted + 1} |->
                    IF q = submitted + 1 THEN NewJob(s, l)
                    ELSE Stopped(SupersededBy(s, a), CancelledBy(s, a))[q]]
    /\ totalPending' = Less(totalPending, SupersededBy(s, a)) + 1
    /\ totalCompleted' = Less(totalCompleted, E) + Cardinality(SupersededBy(s, a))
    /\ totalJobs' = Less(totalJobs, E) + 1
    /\ CountCancelled(SupersededBy(s, a))
    /\ Broadcast
    /\ UNCHANGED <<limits, totalInFlight, shuttingDown, threads, calls, closing, destroyed>>

LEMMA SubmitCases ==
    ASSUME NEW s \in Sessions, NEW l \in Lanes, NEW a \in Actions, Submit(s, l, a)
    PROVE  /\ ~shuttingDown
           /\ \E E \in Expirable : Purge(E) \/ (~Refused(s, a, E) /\ Accepted(s, l, a, E))
BY DEF Submit, Accepted

LEMMA AcceptedMoves ==
    ASSUME TypeOK, NEW s \in Sessions, NEW l \in Lanes, NEW a \in Actions,
           NEW E \in Expirable, Accepted(s, l, a, E)
    PROVE  /\ SupersededBy(s, a) \subseteq Pend /\ E \subseteq Comp
           /\ submitted + 1 \notin Live
           /\ Pend' = (Pend \ SupersededBy(s, a)) \cup {submitted + 1}
           /\ Run' = Run
           /\ Comp' = (Comp \ E) \cup SupersededBy(s, a)
           /\ Live' = (Live \ E) \cup {submitted + 1}
           /\ \A q \in Run : jobs'[q].session = jobs[q].session /\ jobs'[q].lane = jobs[q].lane
<1> DEFINE P == SupersededBy(s, a)
           K == CancelledBy(s, a)
           r == submitted + 1
<1>1. P \subseteq Pend
    BY DEF SupersededBy, PendingOf, Pend
<1>2. E \subseteq Comp
    BY ExpirableIsLive DEF Comp
<1>3. r \notin Live /\ submitted \in Nat
    BY DEF TypeOK, Live
<1>4. Live' = (Live \ E) \cup {r}
    BY DEF Accepted, Live
<1>5. \A q \in Live \ E : jobs'[q] = Stopped(P, K)[q]
    BY <1>3 DEF Accepted
<1>6. jobs'[r].state = "pending"
    BY DEF Accepted, NewJob
<1>7. ASSUME NEW q \in Live
      PROVE  /\ q \in P => Stopped(P, K)[q].state = "completed"
             /\ q \notin P => Stopped(P, K)[q].state = jobs[q].state
             /\ Stopped(P, K)[q].session = jobs[q].session
             /\ Stopped(P, K)[q].lane = jobs[q].lane
    BY <1>1, StoppedMoves
<1> HIDE DEF P, K, r
<1>8. Pend \subseteq Live /\ Run \subseteq Live /\ Comp \subseteq Live
    BY DEF Pend, Run, Comp, InState
<1>9. Pend' = (Pend \ P) \cup {r}
    BY <1>1, <1>2, <1>3, <1>4, <1>5, <1>6, <1>7 DEF Pend, Comp, InState
<1>10. Run' = Run /\ Comp' = (Comp \ E) \cup P
    BY <1>1, <1>2, <1>3, <1>4, <1>5, <1>6, <1>7 DEF Pend, Run, Comp, InState
<1>11. Run \cap E = {}
    BY <1>2 DEF Run, Comp, InState
<1>12. QED
    BY <1>1, <1>2, <1>3, <1>4, <1>5, <1>7, <1>8, <1>9, <1>10, <1>11 DEF P, r

LEMMA AbandonMoves ==
    ASSUME TypeOK, NEW r \in 1..submitted, AbandonUnstarted(r)
    PROVE  /\ r \in Live /\ r \notin Run
           /\ Pend' = Pend \ {r} /\ Run' = Run /\ Comp' = Comp \ {r} /\ Live' = Live \ {r}
           /\ \A q \in Run : jobs'[q] = jobs[q]
<1>1. r \in Live /\ jobs[r].state # "running" /\ jobs' = [q \in Live \ {r} |-> jobs[q]]
    BY DEF AbandonUnstarted
<1>2. Live' = Live \ {r}
    BY <1>1 DEF Live
<1>3. QED
    BY <1>1, <1>2 DEF Pend, Run, Comp, InState

(* A step that leaves every run in its state *)
Unmoved ==
    /\ Pend' = Pend /\ Run' = Run /\ Comp' = Comp /\ Live' = Live
    /\ \A q \in Live : jobs'[q].session = jobs[q].session /\ jobs'[q].lane = jobs[q].lane

LEMMA MarkingMoves ==
    ASSUME TypeOK, DOMAIN jobs' = Live,
           \A q \in Live : /\ jobs'[q].state = jobs[q].state
                           /\ jobs'[q].session = jobs[q].session
                           /\ jobs'[q].lane = jobs[q].lane
    PROVE  Unmoved
<1>1. Live' = Live
    BY DEF Live
<1>2. QED
    BY <1>1 DEF Unmoved, Pend, Run, Comp, InState

LEMMA AbandonRunningMoves ==
    ASSUME TypeOK, NEW r \in 1..submitted, AbandonRunning(r)
    PROVE  Unmoved
<1>1. r \in Live /\ jobs' = [jobs EXCEPT ![r] = [@ EXCEPT !.abandoned = TRUE, !.cancelled = TRUE]]
    BY DEF AbandonRunning
<1>2. jobs \in [Live -> Job]
    BY DEF TypeOK, Live
<1>3. DOMAIN jobs' = Live
    BY <1>1, <1>2
<1>4. ASSUME NEW q \in Live
      PROVE  /\ jobs'[q].state = jobs[q].state
             /\ jobs'[q].session = jobs[q].session
             /\ jobs'[q].lane = jobs[q].lane
    BY <1>1, <1>2, <1>4 DEF Job
<1>5. QED
    BY <1>3, <1>4, MarkingMoves

LEMMA SameJobsMoves ==
    ASSUME TypeOK, UNCHANGED jobs
    PROVE  Unmoved
BY MarkingMoves DEF Live

(* The walk passes the runs in D, which it drops, and ends at the runs S. *)
LEMMA WalkMoves ==
    ASSUME TypeOK, NEW r \in Runnable \cup {NoRun}, Walk(r)
    PROVE  \E D, S :
               /\ D \subseteq Pend /\ S \subseteq Pend /\ D \cap S = {}
               /\ S = {r} \ {NoRun}
               /\ Pend' = (Pend \ D) \ S /\ Run' = Run \cup S /\ Comp' = Comp \cup D
               /\ Live' = Live
               /\ \A q \in Live : /\ jobs'[q].session = jobs[q].session
                                  /\ jobs'[q].lane = jobs[q].lane
               /\ totalPending' = Less(Less(totalPending, D), S)
               /\ totalCompleted' = totalCompleted + Cardinality(D)
               /\ CountCancelled(D)
<1> DEFINE walk == {q \in InState("pending") : r = NoRun \/ q <= r}
           D == Dropped(walk)
           S == {r} \ {NoRun}
<1>1. D \subseteq Pend /\ S \subseteq Pend /\ D \cap S = {}
    BY DEF Dropped, Runnable, Pend
<1>2. /\ jobs' = [q \in Live |-> IF q = r THEN [jobs[q] EXCEPT !.state = "running"]
                                  ELSE Stopped(D, {})[q]]
      /\ totalPending' = Less(Less(totalPending, D), S)
      /\ totalCompleted' = totalCompleted + Cardinality(D)
      /\ CountCancelled(D)
    BY DEF Walk
<1>3. Live' = Live
    BY <1>2 DEF Live
<1>4. ASSUME NEW q \in Live
      PROVE  /\ q \in D => Stopped(D, {})[q].state = "completed"
             /\ q \notin D => Stopped(D, {})[q].state = jobs[q].state
             /\ Stopped(D, {})[q].session = jobs[q].session
             /\ Stopped(D, {})[q].lane = jobs[q].lane
    BY <1>1, StoppedMoves
<1>5. NoRun \notin Live
    BY DEF TypeOK, Live
<1> HIDE DEF D
<1>6. ASSUME NEW q \in Live
      PROVE  /\ q \in S => jobs'[q].state = "running"
             /\ q \in D => jobs'[q].state = "completed"
             /\ q \notin S \cup D => jobs'[q].state = jobs[q].state
             /\ jobs'[q].session = jobs[q].session /\ jobs'[q].lane = jobs[q].lane
    <2>1. CASE q = r
        <3>1. jobs'[q] = [jobs[q] EXCEPT !.state = "running"]
            BY <1>2, <2>1
        <3>2. q \in S /\ q \notin D
            BY <1>1, <1>5, <2>1
        <3>3. QED
            BY <3>1, <3>2 DEF TypeOK, Live, Job
    <2>2. CASE q # r
        BY <1>2, <1>4, <2>2
    <2>3. QED
        BY <2>1, <2>2
<1> HIDE DEF S
<1>7. Pend' = (Pend \ D) \ S /\ Run' = Run \cup S /\ Comp' = Comp \cup D
    BY <1>1, <1>3, <1>6 DEF Pend, Run, Comp, InState
<1>8. S = {r} \ {NoRun}
    BY DEF S
<1>9. QED
    BY <1>1, <1>2, <1>3, <1>6, <1>7, <1>8

LEMMA FinishMoves ==
    ASSUME TypeOK, NEW w \in Workers, WorkerFinish(w), held[w] \in Run
    PROVE  /\ Run' = Run \ {held[w]} /\ Pend' = Pend
           /\ IF jobs[held[w]].abandoned
              THEN Comp' = Comp /\ Live' = Live \ {held[w]}
              ELSE Comp' = Comp \cup {held[w]} /\ Live' = Live
           /\ \A q \in Run' : jobs'[q] = jobs[q]
<1> DEFINE r == held[w]
<1>1. r \in Live /\ jobs[r].state = "running"
    BY DEF Run, InState
<1>2. CASE jobs[r].abandoned
    <2>1. jobs' = [q \in Live \ {r} |-> jobs[q]]
        BY <1>2 DEF WorkerFinish
    <2>2. Live' = Live \ {r}
        BY <2>1 DEF Live
    <2>3. QED
        BY <1>1, <1>2, <2>1, <2>2 DEF Pend, Run, Comp, InState
<1>3. CASE ~jobs[r].abandoned
    <2>1. jobs' = [jobs EXCEPT ![r].state = "completed"]
        BY <1>3 DEF WorkerFinish
    <2>2. jobs \in [Live -> Job]
        BY DEF TypeOK, Live
    <2>3. Live' = Live /\ jobs'[r].state = "completed" /\ \A q \in Live \ {r} : jobs'[q] = jobs[q]
        BY <1>1, <2>1, <2>2 DEF Live, Job
    <2>4. QED
        BY <1>1, <1>3, <2>3 DEF Pend, Run, Comp, InState
<1>4. QED
    BY <1>2, <1>3

LEMMA TakeMoves ==
    ASSUME TypeOK, NEW c \in Callers, CollectTake(c)
    PROVE  /\ target[c] \in Comp
           /\ Pend' = Pend /\ Run' = Run
           /\ Comp' = Comp \ {target[c]} /\ Live' = Live \ {target[c]}
           /\ \A q \in Run : jobs'[q] = jobs[q]
<1>1. /\ target[c] \in Live /\ jobs[target[c]].state = "completed"
      /\ jobs' = [q \in Live \ {target[c]} |-> jobs[q]]
    BY DEF CollectTake, Completed
<1>2. Live' = Live \ {target[c]}
    BY <1>1 DEF Live
<1>3. QED
    BY <1>1, <1>2 DEF Pend, Run, Comp, InState

LEMMA WorkMoves ==
    ASSUME TypeOK, NEW w \in Workers, WorkerCheck(w) \/ TaskReturns(w), held[w] \in Run
    PROVE  Unmoved
<1>1. jobs \in [Live -> Job] /\ held[w] \in Live
    BY DEF TypeOK, Live, Run, InState
<1>2. \/ UNCHANGED jobs
      \/ \E res \in Results : jobs' = [jobs EXCEPT ![held[w]].result = res]
    BY DEF WorkerCheck, TaskReturns
<1>3. DOMAIN jobs' = Live
    BY <1>1, <1>2
<1>4. ASSUME NEW q \in Live
      PROVE  /\ jobs'[q].state = jobs[q].state
             /\ jobs'[q].session = jobs[q].session
             /\ jobs'[q].lane = jobs[q].lane
    BY <1>1, <1>2, <1>4 DEF Job
<1>5. QED
    BY <1>3, <1>4, MarkingMoves

-----------------------------------------------------------------------------
(* Counting *)

LEMMA LessCounts ==
    ASSUME NEW S, IsFiniteSet(S), NEW D, D \subseteq S
    PROVE  /\ Less(Cardinality(S), D) = Cardinality(S \ D)
           /\ Cardinality(S \ D) = Cardinality(S) - Cardinality(D)
           /\ Cardinality(S) \in Nat /\ Cardinality(D) \in Nat /\ Cardinality(S \ D) \in Nat
<1>1. S \cap D = D /\ IsFiniteSet(D) /\ IsFiniteSet(S \ D)
    BY FS_Subset
<1>2. Cardinality(S \ D) = Cardinality(S) - Cardinality(D)
    BY <1>1, FS_Difference
<1>3. Cardinality(S) \in Nat /\ Cardinality(D) \in Nat /\ Cardinality(S \ D) \in Nat
    BY <1>1, FS_CardinalityType
<1>4. QED
    BY <1>2, <1>3 DEF Less

LEMMA UnionCounts ==
    ASSUME NEW S, IsFiniteSet(S), NEW D, IsFiniteSet(D), S \cap D = {}
    PROVE  Cardinality(S \cup D) = Cardinality(S) + Cardinality(D)
<1>1. Cardinality(S \cup D) = Cardinality(S) + Cardinality(D) - Cardinality(S \cap D)
    BY FS_Union
<1>2. Cardinality(S \cap D) = 0 /\ Cardinality(S) \in Nat /\ Cardinality(D) \in Nat
    BY FS_EmptySet, FS_CardinalityType
<1>3. QED
    BY <1>1, <1>2

LEMMA SingletonCounts == ASSUME NEW r PROVE IsFiniteSet({r}) /\ Cardinality({r}) = 1
BY FS_Singleton

LEMMA AddCounts ==
    ASSUME NEW S, IsFiniteSet(S), NEW r, r \notin S
    PROVE  Cardinality(S \cup {r}) = Cardinality(S) + 1
BY FS_AddElement

(* The gauges and the totals, on the sets *)
Counted ==
    /\ totalPending = Cardinality(Pend) /\ totalInFlight = Cardinality(Run)
    /\ totalCompleted = Cardinality(Comp) /\ totalJobs = Cardinality(Live)
    /\ submitted = totalPending + totalInFlight + completedTotal

LEMMA CountedMeaning == Counted <=> GaugesMatchList /\ TotalsAddUp
BY DEF Counted, GaugesMatchList, TotalsAddUp, Pend, Run, Comp

LEMMA SetsFinite ==
    ASSUME TypeOK
    PROVE  /\ IsFiniteSet(Pend) /\ IsFiniteSet(Run) /\ IsFiniteSet(Comp) /\ IsFiniteSet(Live)
           /\ Cardinality(Pend) \in Nat /\ Cardinality(Run) \in Nat
           /\ Cardinality(Comp) \in Nat /\ Cardinality(Live) \in Nat
BY ThreeStates, Finite

LEMMA StopCounts ==
    ASSUME TypeOK, Counted, NEW P, NEW K, P \subseteq Pend, Stop(P, K)
    PROVE  Counted'
<1>1. Pend' = Pend \ P /\ Run' = Run /\ Comp' = Comp \cup P /\ Live' = Live
    BY StopMoves
<1>2. /\ totalPending' = Less(totalPending, P)
      /\ totalCompleted' = totalCompleted + Cardinality(P)
      /\ completedTotal' = completedTotal + Cardinality(P)
      /\ UNCHANGED <<totalInFlight, totalJobs, submitted>>
    BY DEF Stop, CountCancelled
<1>3. IsFiniteSet(P) /\ P \cap Comp = {}
    BY ThreeStates, SetsFinite, FS_Subset
<1>4. /\ Less(Cardinality(Pend), P) = Cardinality(Pend \ P)
      /\ Cardinality(Pend \ P) = Cardinality(Pend) - Cardinality(P)
      /\ Cardinality(P) \in Nat
    BY SetsFinite, LessCounts
<1>5. Cardinality(Comp \cup P) = Cardinality(Comp) + Cardinality(P)
    BY <1>3, SetsFinite, UnionCounts
<1>6. QED
    BY <1>1, <1>2, <1>4, <1>5, SetsFinite DEF Counted, TypeOK

LEMMA PurgeCounts ==
    ASSUME TypeOK, Counted, NEW E \in Expirable, Purge(E)
    PROVE  Counted'
<1>1. Pend' = Pend /\ Run' = Run /\ Comp' = Comp \ E /\ Live' = Live \ E /\ E \subseteq Comp
    BY PurgeMoves
<1>2. /\ totalJobs' = Less(totalJobs, E) /\ totalCompleted' = Less(totalCompleted, E)
      /\ UNCHANGED <<totalPending, totalInFlight, submitted, completedTotal>>
    BY DEF Purge, totals
<1>3. E \subseteq Live
    BY <1>1, ThreeStates
<1>4. Less(Cardinality(Comp), E) = Cardinality(Comp \ E)
    BY <1>1, SetsFinite, LessCounts
<1>5. Less(Cardinality(Live), E) = Cardinality(Live \ E)
    BY <1>3, SetsFinite, LessCounts
<1>6. QED
    BY <1>1, <1>2, <1>4, <1>5 DEF Counted

LEMMA AcceptedCounts ==
    ASSUME TypeOK, Counted, NEW s \in Sessions, NEW l \in Lanes, NEW a \in Actions,
           NEW E \in Expirable, Accepted(s, l, a, E)
    PROVE  Counted' /\ Cardinality(Live') = Less(totalJobs, E) + 1
<1> DEFINE P == SupersededBy(s, a)
           r == submitted + 1
<1>1. /\ P \subseteq Pend /\ E \subseteq Comp /\ r \notin Live
      /\ Pend' = (Pend \ P) \cup {r} /\ Run' = Run
      /\ Comp' = (Comp \ E) \cup P /\ Live' = (Live \ E) \cup {r}
    BY AcceptedMoves
<1>2. /\ totalPending' = Less(totalPending, P) + 1
      /\ totalCompleted' = Less(totalCompleted, E) + Cardinality(P)
      /\ totalJobs' = Less(totalJobs, E) + 1
      /\ completedTotal' = completedTotal + Cardinality(P)
      /\ totalInFlight' = totalInFlight /\ submitted' = submitted + 1
    BY DEF Accepted, CountCancelled
<1> HIDE DEF P, r
<1>3. /\ E \subseteq Live /\ (Comp \ E) \cap P = {} /\ (Pend \ P) \cap {r} = {}
      /\ (Live \ E) \cap {r} = {}
    BY <1>1, ThreeStates
<1>4. /\ IsFiniteSet(P) /\ IsFiniteSet(Pend \ P) /\ IsFiniteSet(Comp \ E) /\ IsFiniteSet(Live \ E)
    BY <1>1, SetsFinite, FS_Subset
<1>5. /\ Less(Cardinality(Pend), P) = Cardinality(Pend \ P)
      /\ Cardinality(Pend \ P) = Cardinality(Pend) - Cardinality(P)
      /\ Cardinality(P) \in Nat
    BY <1>1, SetsFinite, LessCounts
<1>6. Less(Cardinality(Comp), E) = Cardinality(Comp \ E)
    BY <1>1, SetsFinite, LessCounts
<1>7. Less(Cardinality(Live), E) = Cardinality(Live \ E)
    BY <1>3, SetsFinite, LessCounts
<1>8. /\ Cardinality((Pend \ P) \cup {r}) = Cardinality(Pend \ P) + 1
      /\ Cardinality((Live \ E) \cup {r}) = Cardinality(Live \ E) + 1
    <2>1. r \notin Pend \ P /\ r \notin Live \ E
        BY <1>3
    <2>2. QED
        BY <2>1, <1>4, AddCounts
<1>9. Cardinality((Comp \ E) \cup P) = Cardinality(Comp \ E) + Cardinality(P)
    BY <1>3, <1>4, UnionCounts
<1>10. Counted'
    BY <1>1, <1>2, <1>5, <1>6, <1>7, <1>8, <1>9, SetsFinite DEF Counted, TypeOK
<1>11. QED
    BY <1>1, <1>7, <1>8, <1>10 DEF Counted

LEMMA AbandonCounts ==
    ASSUME TypeOK, Counted, NEW r \in 1..submitted, AbandonUnstarted(r)
    PROVE  Counted'
<1> DEFINE P == {r} \cap InState("pending")
<1>1. /\ r \in Live /\ r \notin Run
      /\ Pend' = Pend \ {r} /\ Run' = Run /\ Comp' = Comp \ {r} /\ Live' = Live \ {r}
    BY AbandonMoves
<1>2. /\ totalPending' = Less(totalPending, P)
      /\ totalCompleted' = Less(totalCompleted + Cardinality(P), {r})
      /\ totalJobs' = Less(totalJobs, {r})
      /\ completedTotal' = completedTotal + Cardinality(P)
      /\ UNCHANGED <<totalInFlight, submitted>>
    BY DEF AbandonUnstarted, CountCancelled
<1>3. Less(Cardinality(Live), {r}) = Cardinality(Live \ {r})
    BY <1>1, SetsFinite, LessCounts
<1>4. CASE r \in Pend
    <2>1. P = {r} /\ r \notin Comp /\ Comp \ {r} = Comp
        BY <1>4, ThreeStates DEF Pend
    <2>2. /\ Less(Cardinality(Pend), {r}) = Cardinality(Pend \ {r})
          /\ Cardinality(Pend \ {r}) = Cardinality(Pend) - 1
        BY <1>4, SetsFinite, LessCounts, SingletonCounts
    <2>3. Less(Cardinality(Comp) + 1, {r}) = Cardinality(Comp)
        <3>1. Cardinality({r}) = 1 /\ Cardinality(Comp) \in Nat
            BY SetsFinite, SingletonCounts
        <3>2. QED
            BY <3>1 DEF Less
    <2>4. Cardinality(P) = 1
        BY <2>1, SingletonCounts
    <2>5. totalPending' = Cardinality(Pend') /\ totalPending' = totalPending - 1
        BY <1>1, <1>2, <2>1, <2>2 DEF Counted
    <2>6. totalCompleted' = Cardinality(Comp')
        BY <1>1, <1>2, <2>1, <2>3, <2>4 DEF Counted
    <2>7. completedTotal' = completedTotal + 1
        BY <1>2, <2>4
    <2> HIDE DEF P
    <2>8. QED
        BY <1>1, <1>2, <1>3, <2>5, <2>6, <2>7, SetsFinite DEF Counted, TypeOK
<1>5. CASE r \in Comp
    <2>1. P = {} /\ Pend \ {r} = Pend
        BY <1>5, ThreeStates DEF Pend
    <2>2. Less(Cardinality(Comp), {r}) = Cardinality(Comp \ {r})
        BY <1>5, SetsFinite, LessCounts
    <2>3. Cardinality(P) = 0
        BY <2>1, FS_EmptySet
    <2>4. Less(Cardinality(Pend), P) = Cardinality(Pend)
        BY <2>3, SetsFinite DEF Less
    <2>5. totalPending' = Cardinality(Pend') /\ totalPending' = totalPending
        BY <1>1, <1>2, <2>1, <2>4 DEF Counted
    <2>6. totalCompleted + Cardinality(P) = Cardinality(Comp)
        BY <2>3, SetsFinite DEF Counted
    <2>7. totalCompleted' = Cardinality(Comp')
        BY <1>1, <1>2, <2>2, <2>6
    <2>8. completedTotal' = completedTotal
        BY <1>2, <2>3 DEF TypeOK
    <2> HIDE DEF P
    <2>9. QED
        BY <1>1, <1>2, <1>3, <2>5, <2>7, <2>8, SetsFinite DEF Counted, TypeOK
<1>6. QED
    BY <1>1, <1>4, <1>5, ThreeStates

LEMMA UnmovedCounts ==
    ASSUME TypeOK, Counted, Unmoved, UNCHANGED <<gauges, totals, submitted>>
    PROVE  Counted'
BY DEF Unmoved, Counted, gauges, totals

LEMMA WaitCounts ==
    ASSUME TypeOK, Counted, NEW w \in Workers, WorkerWait(w)
    PROVE  Counted'
<1>1. Walk(NoRun) /\ UNCHANGED <<totalInFlight, totalJobs, submitted>>
    BY DEF WorkerWait
<1>2. PICK D, S :
        /\ D \subseteq Pend /\ S = {}
        /\ Pend' = (Pend \ D) \ S /\ Run' = Run \cup S /\ Comp' = Comp \cup D /\ Live' = Live
        /\ totalPending' = Less(Less(totalPending, D), S)
        /\ totalCompleted' = totalCompleted + Cardinality(D)
        /\ CountCancelled(D)
    BY <1>1, WalkMoves
<1>3. IsFiniteSet(D) /\ D \cap Comp = {}
    BY <1>2, ThreeStates, SetsFinite, FS_Subset
<1>4. /\ Less(Cardinality(Pend), D) = Cardinality(Pend \ D)
      /\ Cardinality(Pend \ D) = Cardinality(Pend) - Cardinality(D)
      /\ Cardinality(D) \in Nat /\ Cardinality(Pend \ D) \in Nat
    BY <1>2, SetsFinite, LessCounts
<1>5. Less(Cardinality(Pend \ D), S) = Cardinality(Pend \ D)
    <2>1. Cardinality(S) = 0
        BY <1>2, FS_EmptySet
    <2>2. QED
        BY <2>1, <1>4 DEF Less
<1>6. Cardinality(Comp \cup D) = Cardinality(Comp) + Cardinality(D)
    BY <1>3, SetsFinite, UnionCounts
<1>7. Pend' = Pend \ D /\ Run' = Run /\ completedTotal' = completedTotal + Cardinality(D)
    BY <1>2 DEF CountCancelled
<1>8. QED
    BY <1>1, <1>2, <1>4, <1>5, <1>6, <1>7, SetsFinite DEF Counted, TypeOK

LEMMA ClaimMoves ==
    ASSUME TypeOK, NEW w \in Workers, WorkerClaim(w)
    PROVE  \E r \in Pend, D \in SUBSET Pend :
               /\ r \notin D /\ r \in Runnable /\ Walk(r)
               /\ sessionInFlight' = [sessionInFlight EXCEPT ![jobs[r].session] = @ + 1]
               /\ laneInFlight' = [laneInFlight EXCEPT ![jobs[r].lane] = @ + 1]
               /\ held' = [held EXCEPT ![w] = r]
               /\ Pend' = (Pend \ D) \ {r} /\ Run' = Run \cup {r} /\ Comp' = Comp \cup D
               /\ Live' = Live
               /\ \A q \in Live : /\ jobs'[q].session = jobs[q].session
                                  /\ jobs'[q].lane = jobs[q].lane
               /\ totalPending' = Less(Less(totalPending, D), {r})
               /\ totalCompleted' = totalCompleted + Cardinality(D)
               /\ CountCancelled(D)
<1>1. PICK r \in First(Runnable) :
        /\ Walk(r)
        /\ sessionInFlight' = [sessionInFlight EXCEPT ![jobs[r].session] = @ + 1]
        /\ laneInFlight' = [laneInFlight EXCEPT ![jobs[r].lane] = @ + 1]
        /\ held' = [held EXCEPT ![w] = r]
    BY DEF WorkerClaim
<1>2. r \in Runnable /\ r \in Pend /\ r # NoRun
    BY <1>1 DEF First, Runnable, Pend, InState, TypeOK, Live
<1>3. PICK D, S :
        /\ D \subseteq Pend /\ S \subseteq Pend /\ D \cap S = {}
        /\ S = {r} \ {NoRun}
        /\ Pend' = (Pend \ D) \ S /\ Run' = Run \cup S /\ Comp' = Comp \cup D
        /\ Live' = Live
        /\ \A q \in Live : /\ jobs'[q].session = jobs[q].session
                           /\ jobs'[q].lane = jobs[q].lane
        /\ totalPending' = Less(Less(totalPending, D), S)
        /\ totalCompleted' = totalCompleted + Cardinality(D)
        /\ CountCancelled(D)
    BY <1>1, <1>2, WalkMoves
<1>4. S = {r} /\ D \in SUBSET Pend /\ r \notin D
    BY <1>2, <1>3
<1>5. QED
    BY <1>1, <1>2, <1>3, <1>4

LEMMA ClaimCounts ==
    ASSUME TypeOK, Counted, NEW w \in Workers, WorkerClaim(w)
    PROVE  Counted'
<1>1. totalInFlight' = totalInFlight + 1 /\ UNCHANGED <<totalJobs, submitted>>
    BY DEF WorkerClaim
<1>2. PICK r \in Pend, D \in SUBSET Pend :
        /\ r \notin D
        /\ Pend' = (Pend \ D) \ {r} /\ Run' = Run \cup {r} /\ Comp' = Comp \cup D
        /\ Live' = Live
        /\ totalPending' = Less(Less(totalPending, D), {r})
        /\ totalCompleted' = totalCompleted + Cardinality(D)
        /\ CountCancelled(D)
    BY ClaimMoves
<1>3. IsFiniteSet(D) /\ D \cap Comp = {} /\ D \subseteq Pend /\ r \notin Run /\ r \in Pend \ D
    BY <1>2, ThreeStates, SetsFinite, FS_Subset
<1>4. /\ Less(Cardinality(Pend), D) = Cardinality(Pend \ D)
      /\ Cardinality(Pend \ D) = Cardinality(Pend) - Cardinality(D)
      /\ Cardinality(D) \in Nat /\ Cardinality(Pend \ D) \in Nat
    BY <1>3, SetsFinite, LessCounts
<1>5. /\ Less(Cardinality(Pend \ D), {r}) = Cardinality((Pend \ D) \ {r})
      /\ Cardinality((Pend \ D) \ {r}) = Cardinality(Pend \ D) - 1
    <2>1. IsFiniteSet(Pend \ D) /\ {r} \subseteq Pend \ D
        BY <1>3, SetsFinite, FS_Subset
    <2>2. /\ Less(Cardinality(Pend \ D), {r}) = Cardinality((Pend \ D) \ {r})
          /\ Cardinality((Pend \ D) \ {r}) = Cardinality(Pend \ D) - Cardinality({r})
        BY <2>1, LessCounts
    <2>3. QED
        BY <2>2, SingletonCounts
<1>6. Cardinality(Comp \cup D) = Cardinality(Comp) + Cardinality(D)
    BY <1>3, SetsFinite, UnionCounts
<1>7. Cardinality(Run \cup {r}) = Cardinality(Run) + 1
    BY <1>3, SetsFinite, AddCounts
<1>8. completedTotal' = completedTotal + Cardinality(D)
    BY <1>2 DEF CountCancelled
<1>9. QED
    BY <1>1, <1>2, <1>4, <1>5, <1>6, <1>7, <1>8, SetsFinite DEF Counted, TypeOK

LEMMA RemoveCounts ==
    ASSUME NEW S, IsFiniteSet(S), NEW r \in S
    PROVE  /\ Cardinality(S \ {r}) = Cardinality(S) - 1
           /\ Decrement(Cardinality(S)) = Cardinality(S \ {r})
           /\ Cardinality(S) \in Nat /\ Cardinality(S \ {r}) \in Nat
<1>1. /\ Cardinality(S \ {r}) = Cardinality(S) - Cardinality({r})
      /\ Cardinality(S) \in Nat /\ Cardinality(S \ {r}) \in Nat
    BY LessCounts
<1>2. Cardinality({r}) = 1
    BY SingletonCounts
<1>3. QED
    BY <1>1, <1>2 DEF Decrement

LEMMA FinishCounts ==
    ASSUME TypeOK, Counted, NEW w \in Workers, WorkerFinish(w), held[w] \in Run
    PROVE  Counted'
<1> DEFINE r == held[w]
<1>1. /\ totalInFlight' = Decrement(totalInFlight)
      /\ completedTotal' = completedTotal + 1
      /\ UNCHANGED <<submitted, totalPending>>
    BY DEF WorkerFinish
<1>2. Run' = Run \ {r} /\ Pend' = Pend
    BY FinishMoves
<1>3. /\ Decrement(Cardinality(Run)) = Cardinality(Run \ {r})
      /\ Cardinality(Run \ {r}) = Cardinality(Run) - 1
      /\ Cardinality(Run) \in Nat
    BY SetsFinite, RemoveCounts
<1>4. r \in Live /\ r \notin Comp
    BY ThreeStates
<1>5. CASE jobs[r].abandoned
    <2>1. Comp' = Comp /\ Live' = Live \ {r}
        BY <1>5, FinishMoves
    <2>2. totalJobs' = Decrement(totalJobs) /\ totalCompleted' = totalCompleted
        BY <1>5 DEF WorkerFinish
    <2>3. Decrement(Cardinality(Live)) = Cardinality(Live \ {r})
        BY <1>4, SetsFinite, RemoveCounts
    <2> HIDE DEF r
    <2>4. QED
        BY <1>1, <1>2, <1>3, <2>1, <2>2, <2>3, SetsFinite DEF Counted, TypeOK
<1>6. CASE ~jobs[r].abandoned
    <2>1. Comp' = Comp \cup {r} /\ Live' = Live
        BY <1>6, FinishMoves
    <2>2. totalCompleted' = totalCompleted + 1 /\ totalJobs' = totalJobs
        BY <1>6 DEF WorkerFinish
    <2>3. Cardinality(Comp \cup {r}) = Cardinality(Comp) + 1
        BY <1>4, SetsFinite, AddCounts
    <2> HIDE DEF r
    <2>4. QED
        BY <1>1, <1>2, <1>3, <2>1, <2>2, <2>3, SetsFinite DEF Counted, TypeOK
<1>7. QED
    BY <1>5, <1>6

LEMMA TakeCounts ==
    ASSUME TypeOK, Counted, NEW c \in Callers, CollectTake(c)
    PROVE  Counted'
<1>1. /\ target[c] \in Comp
      /\ Pend' = Pend /\ Run' = Run
      /\ Comp' = Comp \ {target[c]} /\ Live' = Live \ {target[c]}
    BY TakeMoves
<1>2. /\ totalJobs' = Decrement(totalJobs) /\ totalCompleted' = Decrement(totalCompleted)
      /\ UNCHANGED <<submitted, totalPending, totalInFlight, completedTotal>>
    BY DEF CollectTake, totals
<1>3. target[c] \in Live
    BY <1>1, ThreeStates
<1>4. Decrement(Cardinality(Comp)) = Cardinality(Comp \ {target[c]})
    BY <1>1, SetsFinite, RemoveCounts
<1>5. Decrement(Cardinality(Live)) = Cardinality(Live \ {target[c]})
    BY <1>3, SetsFinite, RemoveCounts
<1>6. QED
    BY <1>1, <1>2, <1>4, <1>5 DEF Counted

LEMMA StepKeepsCounts == TypeOK /\ Ownership /\ Counted /\ [Next]_vars => Counted'
<1> SUFFICES ASSUME TypeOK, Ownership, Counted, [Next]_vars PROVE Counted'
    OBVIOUS
<1>1. CASE UNCHANGED queue
    BY <1>1, SameJobsMoves, UnmovedCounts DEF queue
<1>2. CASE Client
    <2>1. ASSUME NEW s \in Sessions, NEW l \in Lanes, NEW a \in Actions, Submit(s, l, a)
          PROVE  Counted'
        BY <2>1, SubmitCases, PurgeCounts, AcceptedCounts
    <2>2. CASE GetStatus
        BY <2>2, PurgeCounts DEF GetStatus
    <2>3. ASSUME NEW s \in Sessions, InterruptSession(s)
          PROVE  Counted'
        <3>1. PendingOf(s) \subseteq Pend /\ Stop(PendingOf(s), RunningOf(s))
            BY <2>3 DEF InterruptSession, PendingOf, Pend
        <3>2. QED
            BY <3>1, StopCounts
    <2>4. ASSUME NEW r \in 1..submitted, InterruptRun(r)
          PROVE  Counted'
        <3>1. Stop({r} \cap Pend, {r} \cap InState("running"))
            BY <2>4 DEF InterruptRun, Pend
        <3>2. {r} \cap Pend \subseteq Pend
            OBVIOUS
        <3>3. QED
            BY <3>1, <3>2, StopCounts
    <2>5. ASSUME NEW r \in 1..submitted, AbandonUnstarted(r)
          PROVE  Counted'
        BY <2>5, AbandonCounts
    <2>6. ASSUME NEW r \in 1..submitted, AbandonRunning(r)
          PROVE  Counted'
        BY <2>6, AbandonRunningMoves, UnmovedCounts DEF AbandonRunning
    <2>7. ASSUME BeginStopping
          PROVE  Counted'
        <3>1. CASE shuttingDown
            BY <2>7, <3>1, <1>1 DEF BeginStopping
        <3>2. CASE ~shuttingDown
            <4>1. Stop(Pend, InState("running"))
                BY <2>7, <3>2 DEF BeginStopping, Pend
            <4>2. QED
                BY <4>1, StopCounts
        <3>3. QED
            BY <3>1, <3>2
    <2>8. ASSUME NEW c \in Callers, NEW t \in BOOLEAN,
                 Shutdown(c, t) \/ Destroy(c) \/ \E r \in 1..submitted : Collect(c, r, t)
          PROVE  Counted'
        BY <2>7, <2>8, <1>1 DEF Shutdown, Destroy, Collect
    <2>9. QED
        BY <1>2, <2>1, <2>2, <2>3, <2>4, <2>5, <2>6, <2>8 DEF Client
<1>3. ASSUME NEW w \in Workers, Worker(w) PROVE Counted'
    <2>1. CASE WorkerClaim(w)
        BY <2>1, ClaimCounts
    <2>2. CASE WorkerWait(w)
        BY <2>2, WaitCounts
    <2>3. CASE WorkerExit(w)
        BY <2>3, <1>1 DEF WorkerExit
    <2>4. CASE WorkerCheck(w) \/ TaskReturns(w) \/ WorkerFinish(w)
        <3>1. worker[w] \in AtWork
            BY <2>4 DEF WorkerCheck, TaskReturns, WorkerFinish, AtWork
        <3>2. held[w] \in Run
            BY <3>1 DEF Ownership, WorkerOwnsItsJob, Run, InState
        <3>3. CASE WorkerFinish(w)
            BY <3>2, <3>3, FinishCounts
        <3>4. CASE WorkerCheck(w) \/ TaskReturns(w)
            BY <3>2, <3>4, WorkMoves, UnmovedCounts DEF WorkerCheck, TaskReturns
        <3>5. QED
            BY <2>4, <3>3, <3>4
    <2>5. QED
        BY <1>3, <2>1, <2>2, <2>3, <2>4 DEF Worker
<1>4. ASSUME NEW c \in Callers, Caller(c) \/ Timeout(c) PROVE Counted'
    <2>1. CASE CollectTake(c)
        BY <2>1, TakeCounts
    <2>2. CASE ~CollectTake(c)
        BY <1>4, <2>2, <1>1
        DEF Caller, Timeout, CollectWait, CollectMissing, ShutdownWait, ShutdownReturn,
            DestroyReturn, CollectTimeout, ShutdownTimeout, Sleep
    <2>3. QED
        BY <2>1, <2>2
<1>5. CASE (\E t \in Workers \cup Callers : Wake(t)) \/ UNCHANGED vars
    BY <1>5, <1>1 DEF Wake, vars
<1>6. QED
    BY <1>2, <1>3, <1>4, <1>5 DEF Next

-----------------------------------------------------------------------------
(* Ownership *)

LEMMA OwnershipMeaning ==
    Ownership <=> /\ \A w \in Workers : held[w] # NoRun => held[w] \in Run
                  /\ \A v, w \in Workers : held[v] = held[w] /\ held[v] # NoRun => v = w
                  /\ \A r \in Run : \E w \in Workers : held[w] = r
                  /\ \A w \in Workers : (held[w] # NoRun) = (worker[w] \in AtWork)
BY DEF Ownership, WorkerOwnsItsJob, Run, InState

(* Most steps neither move a running job nor change who is at work. *)
LEMMA OthersKeepOwnership ==
    ASSUME Ownership, Run' = Run, held' = held,
           \A w \in Workers : (worker'[w] \in AtWork) = (worker[w] \in AtWork)
    PROVE  Ownership'
BY OwnershipMeaning DEF Ownership, WorkerOwnsItsJob, Run, InState

LEMMA StepKeepsOwnership == TypeOK /\ Ownership /\ [Next]_vars => Ownership'
<1> SUFFICES ASSUME TypeOK, Ownership, [Next]_vars PROVE Ownership'
    OBVIOUS
<1>1. ASSUME UNCHANGED threads, Run' = Run PROVE Ownership'
    BY <1>1, OthersKeepOwnership DEF threads
<1>2. ASSUME UNCHANGED threads, UNCHANGED jobs PROVE Ownership'
    BY <1>1, <1>2, SameJobsMoves DEF Unmoved
<1>3. CASE Client
    <2>1. ASSUME NEW s \in Sessions, NEW l \in Lanes, NEW a \in Actions, Submit(s, l, a)
          PROVE  Ownership'
        <3>1. PICK E \in Expirable : Purge(E) \/ Accepted(s, l, a, E)
            BY <2>1, SubmitCases
        <3>2. CASE Purge(E)
            BY <3>2, <1>1, PurgeMoves DEF Purge
        <3>3. CASE Accepted(s, l, a, E)
            BY <3>3, <1>1, AcceptedMoves DEF Accepted
        <3>4. QED
            BY <3>1, <3>2, <3>3
    <2>2. CASE GetStatus
        BY <2>2, <1>1, PurgeMoves DEF GetStatus, Purge
    <2>3. ASSUME NEW P, NEW K, P \subseteq Pend, Stop(P, K)
          PROVE  Ownership'
        BY <2>3, <1>1, StopMoves DEF Stop
    <2>4. ASSUME NEW s \in Sessions, InterruptSession(s)
          PROVE  Ownership'
        <3>1. PendingOf(s) \subseteq Pend /\ Stop(PendingOf(s), RunningOf(s))
            BY <2>4 DEF InterruptSession, PendingOf, Pend
        <3>2. QED
            BY <3>1, <2>3
    <2>5. ASSUME NEW r \in 1..submitted, InterruptRun(r)
          PROVE  Ownership'
        <3>1. {r} \cap Pend \subseteq Pend /\ Stop({r} \cap Pend, {r} \cap InState("running"))
            BY <2>5 DEF InterruptRun, Pend
        <3>2. QED
            BY <3>1, <2>3
    <2>6. ASSUME NEW r \in 1..submitted, AbandonUnstarted(r) \/ AbandonRunning(r)
          PROVE  Ownership'
        <3>1. CASE AbandonUnstarted(r)
            BY <3>1, <1>1, AbandonMoves DEF AbandonUnstarted
        <3>2. CASE AbandonRunning(r)
            BY <3>2, <1>1, AbandonRunningMoves DEF AbandonRunning, Unmoved
        <3>3. QED
            BY <2>6, <3>1, <3>2
    <2>7. ASSUME BeginStopping
          PROVE  Ownership'
        <3>1. CASE shuttingDown
            BY <2>7, <3>1, <1>2 DEF BeginStopping, queue
        <3>2. CASE ~shuttingDown
            <4>1. Stop(Pend, InState("running"))
                BY <2>7, <3>2 DEF BeginStopping, Pend
            <4>2. QED
                BY <4>1, <2>3
        <3>3. QED
            BY <3>1, <3>2
    <2>8. ASSUME NEW c \in Callers, NEW t \in BOOLEAN,
                 Shutdown(c, t) \/ Destroy(c) \/ \E r \in 1..submitted : Collect(c, r, t)
          PROVE  Ownership'
        BY <2>7, <2>8, <1>2 DEF Shutdown, Destroy, Collect, queue
    <2>9. QED
        BY <1>3, <2>1, <2>2, <2>4, <2>5, <2>6, <2>8 DEF Client
<1>4. ASSUME NEW w \in Workers, Worker(w) PROVE Ownership'
    <2>1. CASE WorkerClaim(w)
        <3>1. PICK r \in Pend : held' = [held EXCEPT ![w] = r] /\ Run' = Run \cup {r}
            BY <2>1, ClaimMoves
        <3>2. r \notin Run /\ r # NoRun
            BY ThreeStates DEF Pend, InState, TypeOK, Live
        <3>3. worker[w] = "loop" /\ worker' = [worker EXCEPT ![w] = "claimed"]
            BY <2>1 DEF WorkerClaim
        <3>4. held[w] = NoRun
            BY <3>3 DEF Ownership, AtWork
        <3>5. /\ held'[w] = r /\ worker'[w] = "claimed"
              /\ \A v \in Workers \ {w} : held'[v] = held[v] /\ worker'[v] = worker[v]
            BY <3>1, <3>3 DEF TypeOK
        <3>6. /\ \A v \in Workers : held'[v] # NoRun => held'[v] \in Run'
              /\ \A v \in Workers : (held'[v] # NoRun) = (worker'[v] \in AtWork)
            BY <3>1, <3>2, <3>5, OwnershipMeaning DEF AtWork
        <3>7. \A u, v \in Workers : held'[u] = held'[v] /\ held'[u] # NoRun => u = v
            BY <3>2, <3>5, OwnershipMeaning
        <3>8. \A q \in Run' : \E v \in Workers : held'[v] = q
            BY <3>1, <3>4, <3>5, OwnershipMeaning DEF Run, InState, TypeOK, Live
        <3>9. QED
            BY <3>6, <3>7, <3>8 DEF Ownership, WorkerOwnsItsJob, Run, InState
    <2>2. CASE WorkerWait(w)
        <3>1. Walk(NoRun)
            BY <2>2 DEF WorkerWait
        <3>2. \E D, S : S = {NoRun} \ {NoRun} /\ Run' = Run \cup S
            BY <3>1, WalkMoves
        <3>3. Run' = Run
            BY <3>2
        <3>4. QED
            BY <2>2, <3>3, <1>1 DEF WorkerWait
    <2>3. CASE WorkerExit(w)
        <3>1. \A v \in Workers : (worker'[v] \in AtWork) = (worker[v] \in AtWork)
            BY <2>3 DEF WorkerExit, AtWork, TypeOK
        <3>2. Run' = Run /\ held' = held
            BY <2>3, SameJobsMoves DEF WorkerExit, queue, Unmoved
        <3>3. QED
            BY <3>1, <3>2, OthersKeepOwnership
    <2>4. CASE WorkerCheck(w) \/ TaskReturns(w)
        <3>1. worker[w] \in AtWork /\ held' = held
              /\ \E x \in AtWork : worker' = [worker EXCEPT ![w] = x]
            BY <2>4 DEF WorkerCheck, TaskReturns, AtWork
        <3>2. held[w] \in Run
            BY <3>1, OwnershipMeaning
        <3>3. Run' = Run
            BY <2>4, <3>2, WorkMoves DEF Unmoved
        <3>4. \A v \in Workers : (worker'[v] \in AtWork) = (worker[v] \in AtWork)
            BY <3>1 DEF TypeOK
        <3>5. QED
            BY <3>1, <3>3, <3>4, OthersKeepOwnership
    <2>5. CASE WorkerFinish(w)
        <3>1. /\ worker[w] = "finishing" /\ held' = [held EXCEPT ![w] = NoRun]
              /\ worker' = [worker EXCEPT ![w] = "loop"]
            BY <2>5 DEF WorkerFinish
        <3>2. held[w] \in Run /\ held[w] # NoRun
            BY <3>1, OwnershipMeaning DEF AtWork
        <3>3. Run' = Run \ {held[w]}
            BY <2>5, <3>2, FinishMoves
        <3>4. /\ held'[w] = NoRun /\ worker'[w] = "loop"
              /\ \A v \in Workers \ {w} : held'[v] = held[v] /\ worker'[v] = worker[v]
            BY <3>1 DEF TypeOK
        <3>5. /\ \A v \in Workers : held'[v] # NoRun => held'[v] \in Run'
              /\ \A v \in Workers : (held'[v] # NoRun) = (worker'[v] \in AtWork)
            BY <3>2, <3>3, <3>4, OwnershipMeaning DEF AtWork
        <3>6. \A u, v \in Workers : held'[u] = held'[v] /\ held'[u] # NoRun => u = v
            BY <3>4, OwnershipMeaning
        <3>7. \A q \in Run' : \E v \in Workers : held'[v] = q
            BY <3>3, <3>4, OwnershipMeaning
        <3>8. QED
            BY <3>5, <3>6, <3>7 DEF Ownership, WorkerOwnsItsJob, Run, InState
    <2>6. QED
        BY <1>4, <2>1, <2>2, <2>3, <2>4, <2>5 DEF Worker
<1>5. ASSUME NEW c \in Callers, Caller(c) \/ Timeout(c) PROVE Ownership'
    <2>1. CASE CollectTake(c)
        BY <2>1, <1>1, TakeMoves DEF CollectTake
    <2>2. CASE ~CollectTake(c)
        BY <1>5, <2>2, <1>2
        DEF Caller, Timeout, CollectWait, CollectMissing, ShutdownWait, ShutdownReturn,
            DestroyReturn, CollectTimeout, ShutdownTimeout, Sleep, queue
    <2>3. QED
        BY <2>1, <2>2
<1>6. CASE (\E t \in Workers \cup Callers : Wake(t)) \/ UNCHANGED vars
    BY <1>6, <1>2 DEF Wake, vars, queue
<1>7. QED
    BY <1>3, <1>4, <1>5, <1>6 DEF Next

-----------------------------------------------------------------------------
(* Shutdown *)

Closers == {"stopping", "destroying", "joining"}

(* Once shutting down nothing is pending, and nothing is in flight once a  *)
(* shutdown has returned success or a destroy has gone on to join.         *)
Quiet ==
    /\ shuttingDown => Pend = {}
    /\ \A c \in Callers : caller[c] \in Closers => shuttingDown
    /\ \A c \in Callers : caller[c] = "joining" \/ answer[c] = "done" => shuttingDown /\ Run = {}

LEMMA OthersStayQuiet ==
    ASSUME Quiet, UNCHANGED <<caller, answer, shuttingDown>>,
           ~shuttingDown \/ (Pend' \subseteq Pend /\ Run' \subseteq Run)
    PROVE  Quiet'
BY DEF Quiet

(* A step of one caller, which leaves every run where it is *)
LEMMA CallerStaysQuiet ==
    ASSUME TypeOK, Quiet, UNCHANGED queue, NEW c \in Callers, NEW x, NEW a,
           caller' = [caller EXCEPT ![c] = x], answer' = [answer EXCEPT ![c] = a],
           x \in Closers => shuttingDown,
           x = "joining" \/ (a = "done" /\ answer[c] # "done") => shuttingDown /\ Run = {}
    PROVE  Quiet'
<1>1. Pend' = Pend /\ Run' = Run /\ shuttingDown' = shuttingDown
    BY SameJobsMoves DEF Unmoved, queue
<1>2. /\ caller'[c] = x /\ answer'[c] = a
      /\ \A d \in Callers \ {c} : caller'[d] = caller[d] /\ answer'[d] = answer[d]
    BY DEF TypeOK
<1>3. \A d \in Callers : caller'[d] \in Closers => shuttingDown
    BY <1>2 DEF Quiet
<1>4. \A d \in Callers : caller'[d] = "joining" \/ answer'[d] = "done" => shuttingDown /\ Run = {}
    BY <1>2 DEF Quiet
<1>5. QED
    BY <1>1, <1>3, <1>4 DEF Quiet

LEMMA BeginStaysQuiet ==
    ASSUME TypeOK, Quiet, NEW c \in Callers, NEW t \in BOOLEAN, Shutdown(c, t) \/ Destroy(c)
    PROVE  Quiet'
<1>1. PICK x \in {"stopping", "destroying"} :
            caller' = [caller EXCEPT ![c] = x] /\ answer' = [answer EXCEPT ![c] = "none"]
    BY DEF Shutdown, Destroy, Call
<1>2. BeginStopping
    BY DEF Shutdown, Destroy
<1>3. CASE shuttingDown
    <2>1. UNCHANGED queue
        BY <1>2, <1>3 DEF BeginStopping
    <2>2. QED
        BY <1>1, <1>3, <2>1, CallerStaysQuiet
<1>4. CASE ~shuttingDown
    <2>1. Stop(Pend, InState("running")) /\ shuttingDown' = TRUE
        BY <1>2, <1>4 DEF BeginStopping, Pend
    <2>2. Pend' = {} /\ Run' = Run
        BY <2>1, StopMoves
    <2>3. \A d \in Callers : answer[d] # "done" /\ caller[d] # "joining"
        BY <1>4 DEF Quiet
    <2>4. \A d \in Callers : answer'[d] # "done" /\ caller'[d] # "joining"
        BY <1>1, <2>3 DEF TypeOK
    <2>5. QED
        BY <2>1, <2>2, <2>4 DEF Quiet
<1>5. QED
    BY <1>3, <1>4

LEMMA StepStaysQuiet == TypeOK /\ Ownership /\ Counted /\ Quiet /\ [Next]_vars => Quiet'
<1> SUFFICES ASSUME TypeOK, Ownership, Counted, Quiet, [Next]_vars PROVE Quiet'
    OBVIOUS
<1>1. ASSUME UNCHANGED <<queue, calls>> PROVE Quiet'
    BY <1>1, OthersStayQuiet, SameJobsMoves DEF Unmoved, queue, calls
<1>2. CASE Client
    <2>1. ASSUME NEW s \in Sessions, NEW l \in Lanes, NEW a \in Actions, Submit(s, l, a)
          PROVE  Quiet'
        BY <2>1, SubmitCases, OthersStayQuiet DEF Purge, Accepted, calls
    <2>2. CASE GetStatus
        BY <2>2, PurgeMoves, OthersStayQuiet DEF GetStatus, Purge, calls
    <2>3. ASSUME NEW s \in Sessions, InterruptSession(s)
          PROVE  Quiet'
        <3>1. PendingOf(s) \subseteq Pend /\ Stop(PendingOf(s), RunningOf(s))
            BY <2>3 DEF InterruptSession, PendingOf, Pend
        <3>2. Pend' \subseteq Pend /\ Run' \subseteq Run
            BY <3>1, StopMoves
        <3>3. QED
            BY <2>3, <3>2, OthersStayQuiet DEF InterruptSession, calls
    <2>4. ASSUME NEW r \in 1..submitted, InterruptRun(r)
          PROVE  Quiet'
        <3>1. {r} \cap Pend \subseteq Pend /\ Stop({r} \cap Pend, {r} \cap InState("running"))
            BY <2>4 DEF InterruptRun, Pend
        <3>2. Pend' \subseteq Pend /\ Run' \subseteq Run
            BY <3>1, StopMoves
        <3>3. QED
            BY <2>4, <3>2, OthersStayQuiet DEF InterruptRun, calls
    <2>5. ASSUME NEW r \in 1..submitted, AbandonUnstarted(r) \/ AbandonRunning(r)
          PROVE  Quiet'
        <3>1. Pend' \subseteq Pend /\ Run' \subseteq Run
            BY <2>5, AbandonMoves, AbandonRunningMoves DEF Unmoved
        <3>2. QED
            BY <2>5, <3>1, OthersStayQuiet DEF AbandonUnstarted, AbandonRunning, calls
    <2>6. ASSUME NEW c \in Callers, NEW t \in BOOLEAN, Shutdown(c, t) \/ Destroy(c)
          PROVE  Quiet'
        BY <2>6, BeginStaysQuiet
    <2>7. ASSUME NEW c \in Callers, NEW t \in BOOLEAN, NEW r \in 1..submitted, Collect(c, r, t)
          PROVE  Quiet'
        BY <2>7, CallerStaysQuiet DEF Collect, Call, Closers
    <2>8. QED
        BY <1>2, <2>1, <2>2, <2>3, <2>4, <2>5, <2>6, <2>7 DEF Client
<1>3. ASSUME NEW w \in Workers, Worker(w) PROVE Quiet'
    <2>1. CASE WorkerClaim(w)
        BY <2>1, OthersStayQuiet DEF WorkerClaim, calls
    <2>2. CASE WorkerWait(w)
        BY <2>2, OthersStayQuiet DEF WorkerWait, calls
    <2>3. CASE WorkerExit(w)
        BY <2>3, <1>1 DEF WorkerExit
    <2>4. CASE WorkerCheck(w) \/ TaskReturns(w) \/ WorkerFinish(w)
        <3>1. held[w] \in Run
            BY <2>4, OwnershipMeaning DEF WorkerCheck, TaskReturns, WorkerFinish, AtWork
        <3>2. Pend' \subseteq Pend /\ Run' \subseteq Run
            BY <2>4, <3>1, FinishMoves, WorkMoves DEF Unmoved
        <3>3. QED
            BY <2>4, <3>2, OthersStayQuiet DEF WorkerCheck, TaskReturns, WorkerFinish, calls
    <2>5. QED
        BY <1>3, <2>1, <2>2, <2>3, <2>4 DEF Worker
<1>4. ASSUME NEW c \in Callers, Caller(c) \/ Timeout(c) PROVE Quiet'
    <2>1. CASE CollectWait(c) \/ ShutdownWait(c)
        BY <2>1, <1>1 DEF CollectWait, ShutdownWait, Sleep
    <2>2. CASE CollectTimeout(c) \/ CollectMissing(c) \/ ShutdownTimeout(c)
        BY <2>2, CallerStaysQuiet
        DEF CollectTimeout, CollectMissing, ShutdownTimeout, Return, Closers
    <2>3. CASE CollectTake(c)
        <3>1. Pend' = Pend /\ Run' = Run /\ shuttingDown' = shuttingDown
            BY <2>3, TakeMoves DEF CollectTake
        <3>2. jobs[target[c]].result # "done"
            BY <2>3 DEF CollectTake, Completed, TypeOK, Live, Job
        <3>3. \A d \in Callers : /\ caller'[d] \in Closers => caller[d] = caller'[d]
                                 /\ answer'[d] = "done" => answer[d] = "done"
            BY <2>3, <3>2 DEF CollectTake, Return, Closers, TypeOK
        <3>4. QED
            BY <3>1, <3>3 DEF Quiet, Closers
    <2>4. CASE ShutdownReturn(c)
        <3>1. shuttingDown /\ UNCHANGED queue
            BY <2>4 DEF ShutdownReturn, Stopping, Quiet, Closers
        <3>2. Run = {}
            BY <2>4, SetsFinite, FS_EmptySet DEF ShutdownReturn, Counted
        <3>3. \/ /\ caller' = [caller EXCEPT ![c] = "idle"]
                 /\ answer' = [answer EXCEPT ![c] = "done"]
              \/ /\ caller' = [caller EXCEPT ![c] = "joining"]
                 /\ answer' = [answer EXCEPT ![c] = answer[c]]
            BY <2>4 DEF ShutdownReturn, Return, TypeOK
        <3>4. QED
            BY <3>1, <3>2, <3>3, CallerStaysQuiet
    <2>5. CASE DestroyReturn(c)
        <3>1. shuttingDown /\ Run = {}
            BY <2>5 DEF DestroyReturn, Quiet
        <3>2. QED
            BY <2>5, <3>1, CallerStaysQuiet DEF DestroyReturn, Return
    <2>6. QED
        BY <1>4, <2>1, <2>2, <2>3, <2>4, <2>5 DEF Caller, Timeout
<1>5. CASE (\E t \in Workers \cup Callers : Wake(t)) \/ UNCHANGED vars
    BY <1>5, <1>1 DEF Wake, vars
<1>6. QED
    BY <1>2, <1>3, <1>4, <1>5 DEF Next

-----------------------------------------------------------------------------
(* The list: its bound, and runs that have left it *)

(* Most steps add nothing to the list and start nothing. *)
Kept == submitted' = submitted /\ Live' \subseteq Live /\ Run' \subseteq Run

(* Accepting a run puts the list at its bound at most. *)
Grown ==
    /\ submitted' = submitted + 1 /\ Live' \subseteq Live \cup {submitted + 1}
    /\ MaxTotal > 0 => Cardinality(Live') <= MaxTotal
    /\ Run' = Run /\ UNCHANGED calls

Started == submitted' = submitted /\ Live' = Live /\ \E w \in Workers : WorkerClaim(w)

LEMMA SubmitGrows ==
    ASSUME TypeOK, Counted, NEW s \in Sessions, NEW l \in Lanes, NEW a \in Actions, Submit(s, l, a)
    PROVE  Kept \/ Grown
<1>1. PICK E \in Expirable : Purge(E) \/ (~Refused(s, a, E) /\ Accepted(s, l, a, E))
    BY SubmitCases
<1>2. CASE Purge(E)
    BY <1>2, PurgeMoves DEF Purge, Kept
<1>3. CASE ~Refused(s, a, E) /\ Accepted(s, l, a, E)
    <2>1. Live' = (Live \ E) \cup {submitted + 1} /\ Run' = Run
        BY <1>3, AcceptedMoves
    <2>2. Cardinality(Live') = Less(totalJobs, E) + 1
        BY <1>3, AcceptedCounts
    <2>3. E \subseteq Live
        BY ExpirableIsLive, ThreeStates DEF Comp
    <2>4. Less(totalJobs, E) \in Nat
        BY <2>3, Finite, LessType DEF TypeOK
    <2>5. MaxTotal > 0 => Less(totalJobs, E) < MaxTotal
        BY <1>3, <2>4 DEF Refused
    <2>6. MaxTotal > 0 => Cardinality(Live') <= MaxTotal
        BY <2>2, <2>4, <2>5
    <2>7. submitted' = submitted + 1 /\ UNCHANGED calls
        BY <1>3 DEF Accepted
    <2>8. QED
        BY <2>1, <2>6, <2>7 DEF Grown
<1>4. QED
    BY <1>1, <1>2, <1>3

LEMMA ListMoves ==
    ASSUME TypeOK, Ownership, Counted, [Next]_vars
    PROVE  Kept \/ Grown \/ Started
<1>1. ASSUME UNCHANGED queue PROVE Kept
    BY <1>1, SameJobsMoves DEF queue, Unmoved, Kept
<1>2. ASSUME NEW P, NEW K, P \subseteq Pend, Stop(P, K) PROVE Kept
    BY <1>2, StopMoves DEF Stop, Kept
<1>3. CASE Client
    <2>1. CASE GetStatus
        BY <2>1, PurgeMoves DEF GetStatus, Purge, Kept
    <2>2. ASSUME NEW s \in Sessions, InterruptSession(s) PROVE Kept
        <3>1. PendingOf(s) \subseteq Pend /\ Stop(PendingOf(s), RunningOf(s))
            BY <2>2 DEF InterruptSession, PendingOf, Pend
        <3>2. QED
            BY <3>1, <1>2
    <2>3. ASSUME NEW r \in 1..submitted, InterruptRun(r) PROVE Kept
        <3>1. {r} \cap Pend \subseteq Pend /\ Stop({r} \cap Pend, {r} \cap InState("running"))
            BY <2>3 DEF InterruptRun, Pend
        <3>2. QED
            BY <3>1, <1>2
    <2>4. ASSUME NEW r \in 1..submitted, AbandonUnstarted(r) \/ AbandonRunning(r) PROVE Kept
        <3>1. Live' \subseteq Live /\ Run' = Run
            BY <2>4, AbandonMoves, AbandonRunningMoves DEF Unmoved
        <3>2. QED
            BY <2>4, <3>1 DEF AbandonUnstarted, AbandonRunning, Kept
    <2>5. ASSUME BeginStopping PROVE Kept
        <3>1. CASE shuttingDown
            BY <2>5, <3>1, <1>1 DEF BeginStopping
        <3>2. CASE ~shuttingDown
            <4>1. Stop(Pend, InState("running"))
                BY <2>5, <3>2 DEF BeginStopping, Pend
            <4>2. QED
                BY <4>1, <1>2
        <3>3. QED
            BY <3>1, <3>2
    <2>6. ASSUME NEW c \in Callers, NEW t \in BOOLEAN,
                 Shutdown(c, t) \/ Destroy(c) \/ \E r \in 1..submitted : Collect(c, r, t)
          PROVE  Kept
        BY <1>1, <2>5, <2>6 DEF Shutdown, Destroy, Collect
    <2>7. QED
        BY <1>3, <2>1, <2>2, <2>3, <2>4, <2>6, SubmitGrows DEF Client
<1>4. ASSUME NEW w \in Workers, Worker(w) PROVE Kept \/ Started
    <2>1. submitted' = submitted
        BY <1>4 DEF Worker, WorkerClaim, WorkerWait, WorkerExit, WorkerCheck, TaskReturns,
                    WorkerFinish, queue
    <2>2. CASE WorkerClaim(w)
        BY <2>1, <2>2, ClaimMoves DEF Started
    <2>3. CASE WorkerWait(w)
        <3>1. Walk(NoRun)
            BY <2>3 DEF WorkerWait
        <3>2. \E D, S : S = {NoRun} \ {NoRun} /\ Run' = Run \cup S /\ Live' = Live
            BY <3>1, WalkMoves
        <3>3. QED
            BY <2>1, <3>2 DEF Kept
    <2>4. CASE WorkerExit(w)
        BY <2>4, <1>1 DEF WorkerExit
    <2>5. CASE WorkerCheck(w) \/ TaskReturns(w) \/ WorkerFinish(w)
        <3>1. held[w] \in Run
            BY <2>5, OwnershipMeaning DEF WorkerCheck, TaskReturns, WorkerFinish, AtWork
        <3>2. QED
            BY <2>1, <2>5, <3>1, FinishMoves, WorkMoves DEF Unmoved, Kept
    <2>6. QED
        BY <1>4, <2>2, <2>3, <2>4, <2>5 DEF Worker
<1>5. ASSUME NEW c \in Callers, Caller(c) \/ Timeout(c) PROVE Kept
    <2>1. CASE CollectTake(c)
        BY <2>1, TakeMoves DEF CollectTake, Kept
    <2>2. CASE ~CollectTake(c)
        BY <1>1, <1>5, <2>2
        DEF Caller, Timeout, CollectWait, CollectMissing, ShutdownWait, ShutdownReturn,
            DestroyReturn, CollectTimeout, ShutdownTimeout, Sleep
    <2>3. QED
        BY <2>1, <2>2
<1>6. CASE (\E t \in Workers \cup Callers : Wake(t)) \/ UNCHANGED vars
    BY <1>1, <1>6 DEF Wake, vars
<1>7. QED
    BY <1>3, <1>4, <1>5, <1>6 DEF Next

LEMMA StepKeepsBound == TypeOK /\ Ownership /\ Counted /\ TotalBound /\ [Next]_vars => TotalBound'
<1> SUFFICES ASSUME TypeOK, Ownership, Counted, TotalBound, [Next]_vars, MaxTotal > 0
             PROVE  Cardinality(Live') <= MaxTotal
    BY DEF TotalBound
<1>1. CASE Live' \subseteq Live
    <2>1. IsFiniteSet(Live) /\ Cardinality(Live) <= MaxTotal
        BY SetsFinite DEF TotalBound
    <2>2. IsFiniteSet(Live') /\ Cardinality(Live') <= Cardinality(Live)
        BY <1>1, <2>1, FS_Subset
    <2>3. Cardinality(Live) \in Nat /\ Cardinality(Live') \in Nat
        BY <2>1, <2>2, FS_CardinalityType
    <2>4. QED
        BY <2>1, <2>2, <2>3
<1>2. QED
    BY <1>1, ListMoves DEF Kept, Grown, Started

(* A run whose result a collector has taken has left the list for good.    *)
Taken ==
    /\ ResultTakenOnce
    /\ \A c \in Callers : answer[c] \in Results => target[c] \in (1..submitted) \ Live

(* A caller that makes a call, or returns without a result *)
LEMMA OthersKeepTaken ==
    ASSUME TypeOK, Ownership, Counted, Taken, [Next]_vars,
           \A c \in Callers : answer'[c] \in Results
                => answer[c] = answer'[c] /\ target[c] = target'[c]
    PROVE  Taken'
<1>1. \A c \in Callers : answer'[c] \in Results => target'[c] \in (1..submitted') \ Live'
    <2>1. \/ submitted' = submitted /\ Live' \subseteq Live
          \/ /\ submitted' = submitted + 1 /\ Live' \subseteq Live \cup {submitted + 1}
             /\ UNCHANGED calls
        BY ListMoves DEF Kept, Grown, Started
    <2>2. QED
        BY <2>1 DEF Taken, TypeOK
<1>2. ResultTakenOnce'
    BY DEF Taken, ResultTakenOnce
<1>3. QED
    BY <1>1, <1>2 DEF Taken

LEMMA TakeKeepsTaken ==
    ASSUME TypeOK, Ownership, Counted, Taken, NEW c \in Callers, CollectTake(c)
    PROVE  Taken'
<1>1. /\ Live' = Live \ {target[c]} /\ target[c] \in Live
      /\ target' = target /\ submitted' = submitted
      /\ answer' = [answer EXCEPT ![c] = jobs[target[c]].result]
    BY TakeMoves, ThreeStates DEF CollectTake, Return
<1>2. \A d \in Callers \ {c} : answer'[d] = answer[d]
    BY <1>1 DEF TypeOK
<1>3. \A d \in Callers : answer'[d] \in Results => target'[d] \in (1..submitted') \ Live'
    BY <1>1, <1>2 DEF Taken, TypeOK, Live
<1>4. \A d \in Callers \ {c} : answer'[d] \in Results => target[d] # target[c]
    BY <1>1, <1>2 DEF Taken
<1>5. ResultTakenOnce'
    BY <1>1, <1>2, <1>4 DEF Taken, ResultTakenOnce
<1>6. QED
    BY <1>3, <1>5 DEF Taken

LEMMA StepKeepsTaken == TypeOK /\ Ownership /\ Counted /\ Taken /\ [Next]_vars => Taken'
<1> SUFFICES ASSUME TypeOK, Ownership, Counted, Taken, [Next]_vars PROVE Taken'
    OBVIOUS
<1>1. CASE UNCHANGED <<answer, target>>
    BY <1>1, OthersKeepTaken
<1>2. ASSUME NEW c \in Callers, NEW x, NEW r, NEW t, Call(c, x, r, t) PROVE Taken'
    <2>1. \A d \in Callers : answer'[d] \in Results => answer[d] = answer'[d] /\ target[d] = target'[d]
        BY <1>2 DEF Call, TypeOK
    <2>2. QED
        BY <2>1, OthersKeepTaken
<1>3. ASSUME NEW c \in Callers, NEW a, a \notin Results, Return(c, a) PROVE Taken'
    <2>1. \A d \in Callers : answer'[d] \in Results => answer[d] = answer'[d] /\ target[d] = target'[d]
        BY <1>3 DEF Return, TypeOK
    <2>2. QED
        BY <2>1, OthersKeepTaken
<1>4. CASE Client
    <2>1. CASE \E c \in Callers, t \in BOOLEAN :
                  Shutdown(c, t) \/ Destroy(c) \/ \E r \in 1..submitted : Collect(c, r, t)
        BY <2>1, <1>2 DEF Shutdown, Destroy, Collect
    <2>2. CASE \E s \in Sessions, l \in Lanes, a \in Actions : Submit(s, l, a)
        BY <2>2, <1>1, SubmitCases DEF Purge, Accepted, calls
    <2>3. CASE GetStatus \/ \E s \in Sessions : InterruptSession(s)
        BY <2>3, <1>1 DEF GetStatus, Purge, InterruptSession, calls
    <2>4. CASE \E r \in 1..submitted : InterruptRun(r) \/ AbandonUnstarted(r) \/ AbandonRunning(r)
        BY <2>4, <1>1 DEF InterruptRun, AbandonUnstarted, AbandonRunning, calls
    <2>5. QED
        BY <1>4, <2>1, <2>2, <2>3, <2>4 DEF Client
<1>5. CASE \E w \in Workers : Worker(w)
    BY <1>5, <1>1
    DEF Worker, WorkerClaim, WorkerWait, WorkerExit, WorkerCheck, TaskReturns, WorkerFinish, calls
<1>6. ASSUME NEW c \in Callers, Caller(c) \/ Timeout(c) PROVE Taken'
    <2>1. CASE CollectTake(c)
        BY <2>1, TakeKeepsTaken
    <2>2. CASE CollectWait(c) \/ ShutdownWait(c)
        BY <2>2, <1>1 DEF CollectWait, ShutdownWait, Sleep, calls
    <2>3. CASE ~CollectTake(c) /\ ~CollectWait(c) /\ ~ShutdownWait(c)
        BY <1>6, <2>3, <1>1, <1>3
        DEF Caller, Timeout, CollectMissing, ShutdownReturn, DestroyReturn, CollectTimeout,
            ShutdownTimeout, Return
    <2>4. QED
        BY <2>1, <2>2, <2>3
<1>7. CASE (\E t \in Workers \cup Callers : Wake(t)) \/ UNCHANGED vars
    BY <1>7, <1>1 DEF Wake, vars, calls
<1>8. QED
    BY <1>4, <1>5, <1>6, <1>7 DEF Next

-----------------------------------------------------------------------------
(* Destroy *)

Waiting == {"collecting", "stopping", "destroying"}

(* Only workers looking for a job and callers in a waiting loop sleep.     *)
Sleepers ==
    /\ \A w \in Workers : w \in asleep => worker[w] = "loop"
    /\ \A c \in Callers : c \in asleep => caller[c] \in Waiting

(* Destroy is called when no other call is in progress, and none follows.  *)
Alone ==
    /\ closing => \A c, d \in Callers : caller[c] # "idle" /\ caller[d] # "idle" => c = d
    /\ \A c \in Callers : caller[c] \in {"destroying", "joining"} => closing
    /\ destroyed => /\ \A w \in Workers : worker[w] = "exited"
                    /\ closing /\ \A c \in Callers : caller[c] = "idle"

Parting == Sleepers /\ Alone

LEMMA OthersKeepParting ==
    ASSUME Parting, asleep' \subseteq asleep, UNCHANGED <<worker, caller, closing, destroyed>>
    PROVE  Parting'
BY DEF Parting, Sleepers, Alone

(* A step that moves one worker, awake before and after *)
LEMMA WorkerKeepsParting ==
    ASSUME TypeOK, Parting, NEW w \in Workers, NEW x,
           worker' = [worker EXCEPT ![w] = x], worker[w] # "exited", w \notin asleep',
           asleep' \subseteq asleep, UNCHANGED <<caller, closing, destroyed>>
    PROVE  Parting'
<1>1. \A v \in Workers \ {w} : worker'[v] = worker[v]
    BY DEF TypeOK
<1>2. Sleepers'
    BY <1>1 DEF Parting, Sleepers
<1>3. ~destroyed
    BY DEF Parting, Alone
<1>4. Alone'
    BY <1>3 DEF Parting, Alone
<1>5. QED
    BY <1>2, <1>4 DEF Parting

(* A step that moves one caller *)
LEMMA CallerKeepsParting ==
    ASSUME TypeOK, Parting, NEW c \in Callers, NEW x,
           caller' = [caller EXCEPT ![c] = x],
           caller[c] # "idle" \/ ~closing,
           asleep' \subseteq asleep, c \in asleep' => x \in Waiting,
           UNCHANGED <<worker, closing, destroyed>>,
           x \in {"destroying", "joining"} => closing
    PROVE  Parting'
<1>1. caller'[c] = x /\ \A d \in Callers \ {c} : caller'[d] = caller[d]
    BY DEF TypeOK
<1>2. Sleepers'
    BY <1>1 DEF Parting, Sleepers
<1>3. ~destroyed
    BY DEF Parting, Alone
<1>4. closing => \A d \in Callers \ {c} : caller[d] = "idle"
    BY DEF Parting, Alone
<1>5. Alone'
    BY <1>1, <1>3, <1>4 DEF Parting, Alone
<1>6. QED
    BY <1>2, <1>5 DEF Parting

LEMMA StepKeepsParting == TypeOK /\ Parting /\ [Next]_vars => Parting'
<1> SUFFICES ASSUME TypeOK, Parting, [Next]_vars PROVE Parting'
    OBVIOUS
<1>1. CASE Client
    <2>1. ASSUME NEW s \in Sessions, NEW l \in Lanes, NEW a \in Actions, Submit(s, l, a)
          PROVE  Parting'
        BY <2>1, SubmitCases, OthersKeepParting DEF Purge, Accepted, Broadcast, threads, calls
    <2>2. CASE GetStatus \/ \E s \in Sessions : InterruptSession(s)
        BY <2>2, OthersKeepParting
        DEF GetStatus, Purge, InterruptSession, Stop, Broadcast, threads, calls
    <2>3. CASE \E r \in 1..submitted : InterruptRun(r) \/ AbandonUnstarted(r) \/ AbandonRunning(r)
        BY <2>3, OthersKeepParting
        DEF InterruptRun, AbandonUnstarted, AbandonRunning, Stop, Broadcast, threads, calls
    <2>4. ASSUME NEW c \in Callers PROVE caller[c] = "idle" => c \notin asleep
        BY <2>4 DEF Parting, Sleepers, Waiting
    <2>5. ASSUME BeginStopping PROVE asleep' \subseteq asleep /\ UNCHANGED <<worker, destroyed>>
        BY <2>5 DEF BeginStopping, Stop, Broadcast, threads
    <2>6. ASSUME NEW c \in Callers, NEW t \in BOOLEAN, Shutdown(c, t) PROVE Parting'
        BY <2>4, <2>5, <2>6, CallerKeepsParting DEF Shutdown, Call, Waiting
    <2>7. ASSUME NEW c \in Callers, NEW t \in BOOLEAN, NEW r \in 1..submitted, Collect(c, r, t)
          PROVE  Parting'
        BY <2>4, <2>7, CallerKeepsParting DEF Collect, Call, Waiting, threads
    <2>8. ASSUME NEW c \in Callers, Destroy(c) PROVE Parting'
        <3>1. /\ \A d \in Callers : caller[d] = "idle"
              /\ caller' = [caller EXCEPT ![c] = "destroying"] /\ ~closing /\ closing' = TRUE
              /\ asleep' \subseteq asleep /\ UNCHANGED <<worker, destroyed>>
            BY <2>5, <2>8 DEF Destroy, Call
        <3>2. \A d \in Callers : caller'[d] # "idle" => d = c
            BY <3>1 DEF TypeOK
        <3>3. Callers \cap asleep' = {}
            BY <2>4, <3>1
        <3>4. QED
            BY <3>1, <3>2, <3>3 DEF Parting, Sleepers, Alone
    <2>9. QED
        BY <1>1, <2>1, <2>2, <2>3, <2>6, <2>7, <2>8 DEF Client
<1>2. ASSUME NEW w \in Workers, Worker(w) PROVE Parting'
    <2>1. CASE WorkerClaim(w)
        BY <2>1, WorkerKeepsParting DEF WorkerClaim, Awake, calls
    <2>2. CASE WorkerWait(w)
        BY <2>2 DEF WorkerWait, Parting, Sleepers, Alone, threads, calls, ThreadAssumption
    <2>3. CASE WorkerExit(w)
        BY <2>3, WorkerKeepsParting DEF WorkerExit, Awake, calls
    <2>4. CASE WorkerCheck(w) \/ TaskReturns(w)
        <3>1. w \notin asleep
            BY <2>4 DEF WorkerCheck, TaskReturns, Parting, Sleepers
        <3>2. QED
            BY <2>4, <3>1, WorkerKeepsParting DEF WorkerCheck, TaskReturns, calls
    <2>5. CASE WorkerFinish(w)
        BY <2>5, WorkerKeepsParting DEF WorkerFinish, Broadcast, calls
    <2>6. QED
        BY <1>2, <2>1, <2>2, <2>3, <2>4, <2>5 DEF Worker
<1>3. ASSUME NEW c \in Callers, Caller(c) \/ Timeout(c) PROVE Parting'
    <2>1. CASE CollectWait(c) \/ ShutdownWait(c)
        <3>1. /\ asleep' = asleep \cup {c} /\ caller[c] \in Waiting /\ c \notin Workers
              /\ UNCHANGED <<worker, caller, closing, destroyed>>
            BY <2>1 DEF CollectWait, ShutdownWait, Collecting, Stopping, Sleep, Waiting, threads,
                        calls
        <3>2. QED
            BY <3>1 DEF Parting, Sleepers, Alone
    <2>2. CASE CollectTimeout(c) \/ CollectMissing(c) \/ CollectTake(c) \/ ShutdownTimeout(c)
        <3>1. /\ caller[c] # "idle" /\ c \notin asleep /\ asleep' = asleep
              /\ caller' = [caller EXCEPT ![c] = "idle"]
              /\ UNCHANGED <<worker, closing, destroyed>>
            BY <2>2 DEF CollectTimeout, CollectMissing, CollectTake, ShutdownTimeout, Collecting,
                        Stopping, Awake, Return, threads
        <3>2. QED
            BY <3>1, CallerKeepsParting
    <2>3. CASE ShutdownReturn(c)
        <3>1. /\ caller[c] # "idle" /\ c \notin asleep /\ asleep' = asleep
              /\ UNCHANGED <<worker, closing, destroyed>>
              /\ \/ caller' = [caller EXCEPT ![c] = "idle"]
                 \/ caller[c] = "destroying" /\ caller' = [caller EXCEPT ![c] = "joining"]
            BY <2>3 DEF ShutdownReturn, Stopping, Awake, Return, threads
        <3>2. caller[c] = "destroying" => closing
            BY DEF Parting, Alone
        <3>3. QED
            BY <3>1, <3>2, CallerKeepsParting
    <2>4. CASE DestroyReturn(c)
        <3>1. /\ caller[c] = "joining" /\ caller' = [caller EXCEPT ![c] = "idle"]
              /\ \A w \in Workers : worker[w] = "exited"
              /\ UNCHANGED <<worker, closing, asleep>>
            BY <2>4 DEF DestroyReturn, Return, threads
        <3>2. closing /\ \A d \in Callers \ {c} : caller[d] = "idle"
            BY <3>1 DEF Parting, Alone
        <3>3. \A d \in Callers : caller'[d] = "idle"
            BY <3>1, <3>2 DEF TypeOK
        <3>4. \A d \in Callers : d \notin asleep
            BY <3>1, <3>2 DEF Parting, Sleepers, Waiting
        <3>5. QED
            BY <3>1, <3>2, <3>3, <3>4 DEF Parting, Sleepers, Alone
    <2>5. QED
        BY <1>3, <2>1, <2>2, <2>3, <2>4 DEF Caller, Timeout
<1>4. CASE (\E t \in Workers \cup Callers : Wake(t)) \/ UNCHANGED vars
    BY <1>4, OthersKeepParting DEF Wake, vars, threads, calls
<1>5. QED
    BY <1>1, <1>2, <1>3, <1>4 DEF Next

-----------------------------------------------------------------------------
(* Concurrency limits *)

LaneRun(l) == {r \in Run : jobs[r].lane = l}
SessionRun(s) == {r \in Run : jobs[r].session = s}

(* The counters the scheduler consults count the runs in flight, which is  *)
(* exact only because a session with a run in flight keeps its table entry.*)
Limited ==
    /\ \A l \in Lanes : laneInFlight[l] = Cardinality(LaneRun(l)) /\ laneInFlight[l] <= LaneLimit[l]
    /\ \A s \in Sessions : /\ sessionInFlight[s] = Cardinality(SessionRun(s))
                           /\ sessionInFlight[s] <= SessionLimit
    /\ \A r \in Run : jobs[r].session \in tracked

LEMMA LimitedMeaning == ASSUME Limited PROVE ConcurrencyLimits
<1>1. \A l \in Lanes : LaneRun(l) = {r \in InState("running") : jobs[r].lane = l}
    BY DEF LaneRun, Run
<1>2. \A s \in Sessions : SessionRun(s) = RunningOf(s)
    BY DEF SessionRun, Run, RunningOf, OfSession, InState
<1>3. QED
    BY <1>1, <1>2 DEF Limited, ConcurrencyLimits

(* Most steps leave the runs in flight, their session and their lane.      *)
SameRunning ==
    /\ Run' = Run
    /\ \A r \in Run : jobs'[r].session = jobs[r].session /\ jobs'[r].lane = jobs[r].lane

LEMMA OthersKeepLimits ==
    ASSUME Limited, SameRunning, UNCHANGED <<sessionInFlight, laneInFlight>>, tracked \subseteq tracked'
    PROVE  Limited'
<1>1. \A l \in Lanes : LaneRun(l)' = LaneRun(l)
    BY DEF LaneRun, SameRunning
<1>2. \A s \in Sessions : SessionRun(s)' = SessionRun(s)
    BY DEF SessionRun, SameRunning
<1>3. \A r \in Run' : jobs'[r].session \in tracked'
    BY DEF SameRunning, Limited
<1>4. QED
    BY <1>1, <1>2, <1>3 DEF Limited

LEMMA ClaimKeepsLimits ==
    ASSUME TypeOK, Limited, NEW w \in Workers, WorkerClaim(w)
    PROVE  Limited'
<1>1. PICK r \in Pend :
        /\ r \in Runnable /\ Walk(r)
        /\ sessionInFlight' = [sessionInFlight EXCEPT ![jobs[r].session] = @ + 1]
        /\ laneInFlight' = [laneInFlight EXCEPT ![jobs[r].lane] = @ + 1]
        /\ Run' = Run \cup {r}
        /\ \A q \in Live : jobs'[q].session = jobs[q].session /\ jobs'[q].lane = jobs[q].lane
    BY ClaimMoves
<1> DEFINE s0 == jobs[r].session
           l0 == jobs[r].lane
<1>2. r \notin Run /\ r \in Live /\ Run \subseteq Live /\ s0 \in Sessions /\ l0 \in Lanes
    BY ThreeStates DEF TypeOK, Live, Job
<1>3. sessionInFlight[s0] < SessionLimit /\ laneInFlight[l0] < LaneLimit[l0] /\ CanTrack(s0)
    BY <1>1 DEF Runnable
<1>4. tracked' = TrackedAfter({q \in InState("pending") : r = NoRun \/ q <= r})
    BY <1>1 DEF Walk
<1>5. s0 \in tracked' /\ tracked \subseteq tracked'
    <2>1. r \in Int /\ r <= r
        BY <1>2 DEF TypeOK, Live
    <2>2. r \in {q \in InState("pending") : r = NoRun \/ q <= r} \cap PendingOf(s0)
        BY <1>2, <2>1 DEF PendingOf, OfSession, Pend
    <2>3. QED
        BY <1>2, <1>3, <1>4, <2>2 DEF TrackedAfter
<1>6. \A q \in Run' : jobs'[q].session \in tracked'
    BY <1>1, <1>2, <1>5 DEF Limited
<1> HIDE DEF s0, l0
<1>7. ASSUME NEW l \in Lanes
      PROVE  laneInFlight'[l] = Cardinality(LaneRun(l)') /\ laneInFlight'[l] <= LaneLimit[l]
    <2>1. laneInFlight[l] = Cardinality(LaneRun(l)) /\ laneInFlight[l] <= LaneLimit[l]
        BY DEF Limited
    <2>2. CASE l = l0
        <3>1. LaneRun(l)' = LaneRun(l) \cup {r}
            BY <1>1, <1>2, <2>2 DEF LaneRun, l0
        <3>2. IsFiniteSet(LaneRun(l)) /\ r \notin LaneRun(l)
            BY <1>2, Finite DEF LaneRun
        <3>3. Cardinality(LaneRun(l)') = Cardinality(LaneRun(l)) + 1
            BY <3>1, <3>2, AddCounts
        <3>4. laneInFlight'[l] = laneInFlight[l] + 1
            BY <1>1, <2>2 DEF TypeOK, l0
        <3>5. QED
            BY <1>3, <2>1, <2>2, <3>3, <3>4 DEF TypeOK
    <2>3. CASE l # l0
        <3>1. LaneRun(l)' = LaneRun(l)
            BY <1>1, <1>2, <2>3 DEF LaneRun, l0
        <3>2. laneInFlight'[l] = laneInFlight[l]
            BY <1>1, <2>3 DEF TypeOK, l0
        <3>3. QED
            BY <2>1, <3>1, <3>2
    <2>4. QED
        BY <2>2, <2>3
<1>8. ASSUME NEW s \in Sessions
      PROVE  /\ sessionInFlight'[s] = Cardinality(SessionRun(s)')
             /\ sessionInFlight'[s] <= SessionLimit
    <2>1. sessionInFlight[s] = Cardinality(SessionRun(s)) /\ sessionInFlight[s] <= SessionLimit
        BY DEF Limited
    <2>2. CASE s = s0
        <3>1. SessionRun(s)' = SessionRun(s) \cup {r}
            BY <1>1, <1>2, <2>2 DEF SessionRun, s0
        <3>2. IsFiniteSet(SessionRun(s)) /\ r \notin SessionRun(s)
            BY <1>2, Finite DEF SessionRun
        <3>3. Cardinality(SessionRun(s)') = Cardinality(SessionRun(s)) + 1
            BY <3>1, <3>2, AddCounts
        <3>4. sessionInFlight'[s] = sessionInFlight[s] + 1
            BY <1>1, <2>2 DEF TypeOK, s0
        <3>5. QED
            BY <1>3, <2>1, <2>2, <3>3, <3>4 DEF TypeOK
    <2>3. CASE s # s0
        <3>1. SessionRun(s)' = SessionRun(s)
            BY <1>1, <1>2, <2>3 DEF SessionRun, s0
        <3>2. sessionInFlight'[s] = sessionInFlight[s]
            BY <1>1, <2>3 DEF TypeOK, s0
        <3>3. QED
            BY <2>1, <3>1, <3>2
    <2>4. QED
        BY <2>2, <2>3
<1>9. QED
    BY <1>6, <1>7, <1>8 DEF Limited

LEMMA FinishKeepsLimits ==
    ASSUME TypeOK, Limited, NEW w \in Workers, WorkerFinish(w), held[w] \in Run
    PROVE  Limited'
<1> DEFINE r == held[w]
           s0 == jobs[r].session
           l0 == jobs[r].lane
<1>1. Run' = Run \ {r} /\ \A q \in Run' : jobs'[q] = jobs[q]
    BY FinishMoves
<1>2. r \in Run /\ Run \subseteq Live /\ s0 \in Sessions /\ l0 \in Lanes /\ s0 \in tracked
    BY ThreeStates DEF TypeOK, Live, Job, Limited
<1>3. /\ laneInFlight' = [laneInFlight EXCEPT ![l0] = Decrement(@)]
      /\ sessionInFlight' = [sessionInFlight EXCEPT ![s0] = Decrement(@)]
      /\ tracked' = RemoveIdle(tracked, s0, Decrement(sessionInFlight[s0]))
    BY <1>2 DEF WorkerFinish
<1> HIDE DEF s0, l0, r
<1>4. ASSUME NEW l \in Lanes
      PROVE  laneInFlight'[l] = Cardinality(LaneRun(l)') /\ laneInFlight'[l] <= LaneLimit[l]
    <2>1. laneInFlight[l] = Cardinality(LaneRun(l)) /\ laneInFlight[l] <= LaneLimit[l]
        BY DEF Limited
    <2>2. CASE l = l0
        <3>1. LaneRun(l)' = LaneRun(l) \ {r} /\ r \in LaneRun(l)
            BY <1>1, <1>2, <2>2 DEF LaneRun, l0
        <3>2. IsFiniteSet(LaneRun(l))
            BY <1>2, Finite DEF LaneRun
        <3>3. /\ Cardinality(LaneRun(l) \ {r}) = Cardinality(LaneRun(l)) - 1
              /\ Decrement(Cardinality(LaneRun(l))) = Cardinality(LaneRun(l) \ {r})
              /\ Cardinality(LaneRun(l)) \in Nat
            BY <3>1, <3>2, RemoveCounts
        <3>4. laneInFlight'[l] = Decrement(laneInFlight[l])
            BY <1>3, <2>2 DEF TypeOK
        <3>5. QED
            BY <2>1, <3>1, <3>3, <3>4
    <2>3. CASE l # l0
        <3>1. LaneRun(l)' = LaneRun(l)
            BY <1>1, <1>2, <2>3 DEF LaneRun, l0
        <3>2. laneInFlight'[l] = laneInFlight[l]
            BY <1>3, <2>3 DEF TypeOK
        <3>3. QED
            BY <2>1, <3>1, <3>2
    <2>4. QED
        BY <2>2, <2>3
<1>5. ASSUME NEW s \in Sessions
      PROVE  /\ sessionInFlight'[s] = Cardinality(SessionRun(s)')
             /\ sessionInFlight'[s] <= SessionLimit
             /\ s = s0 => sessionInFlight'[s] = Decrement(sessionInFlight[s])
    <2>1. sessionInFlight[s] = Cardinality(SessionRun(s)) /\ sessionInFlight[s] <= SessionLimit
        BY DEF Limited
    <2>2. CASE s = s0
        <3>1. SessionRun(s)' = SessionRun(s) \ {r} /\ r \in SessionRun(s)
            BY <1>1, <1>2, <2>2 DEF SessionRun, s0
        <3>2. IsFiniteSet(SessionRun(s))
            BY <1>2, Finite DEF SessionRun
        <3>3. /\ Cardinality(SessionRun(s) \ {r}) = Cardinality(SessionRun(s)) - 1
              /\ Decrement(Cardinality(SessionRun(s))) = Cardinality(SessionRun(s) \ {r})
              /\ Cardinality(SessionRun(s)) \in Nat
            BY <3>1, <3>2, RemoveCounts
        <3>4. sessionInFlight'[s] = Decrement(sessionInFlight[s])
            BY <1>3, <2>2 DEF TypeOK
        <3>5. QED
            BY <2>1, <3>1, <3>3, <3>4
    <2>3. CASE s # s0
        <3>1. SessionRun(s)' = SessionRun(s)
            BY <1>1, <1>2, <2>3 DEF SessionRun, s0
        <3>2. sessionInFlight'[s] = sessionInFlight[s]
            BY <1>3, <2>3 DEF TypeOK
        <3>3. QED
            BY <2>1, <2>3, <3>1, <3>2
    <2>4. QED
        BY <2>2, <2>3
<1>6. ASSUME NEW q \in Run' PROVE jobs'[q].session \in tracked'
    <2>1. jobs'[q] = jobs[q] /\ q \in Run /\ jobs[q].session \in tracked /\ jobs[q].session \in Sessions
        BY <1>1, <1>2 DEF Limited, TypeOK, Live, Job
    <2>2. CASE jobs[q].session # s0
        BY <1>3, <2>1, <2>2 DEF RemoveIdle
    <2>3. CASE jobs[q].session = s0
        <3>1. PICK s \in Sessions : s = s0
            BY <1>2
        <3>2. q \in SessionRun(s)' /\ SessionRun(s)' \subseteq Live
            BY <1>1, <1>2, <2>1, <2>3, <3>1 DEF SessionRun
        <3>3. IsFiniteSet(SessionRun(s)')
            BY <3>2, Finite
        <3>4. Cardinality(SessionRun(s)') # 0
            BY <3>2, <3>3, FS_EmptySet
        <3>5. Decrement(sessionInFlight[s0]) # 0
            BY <1>5, <3>1, <3>4
        <3>6. QED
            BY <1>3, <2>1, <3>5 DEF RemoveIdle
    <2>4. QED
        BY <2>2, <2>3
<1>7. QED
    BY <1>4, <1>5, <1>6 DEF Limited

LEMMA StepKeepsLimits == TypeOK /\ Ownership /\ Limited /\ [Next]_vars => Limited'
<1> SUFFICES ASSUME TypeOK, Ownership, Limited, [Next]_vars PROVE Limited'
    OBVIOUS
<1>1. ASSUME SameRunning, UNCHANGED limits PROVE Limited'
    BY <1>1, OthersKeepLimits DEF limits
<1>2. ASSUME UNCHANGED <<jobs, limits>> PROVE Limited'
    BY <1>1, <1>2, SameJobsMoves, ThreeStates DEF Unmoved, SameRunning
<1>3. ASSUME NEW P, NEW K, P \subseteq Pend, Stop(P, K) PROVE Limited'
    BY <1>1, <1>3, StopMoves, ThreeStates DEF Stop, SameRunning
<1>4. CASE Client
    <2>1. ASSUME NEW E \in Expirable, Purge(E) PROVE Limited'
        BY <1>1, <2>1, PurgeMoves, ThreeStates DEF Purge, SameRunning
    <2>2. ASSUME NEW s \in Sessions, NEW l \in Lanes, NEW a \in Actions, Submit(s, l, a)
          PROVE  Limited'
        <3>1. PICK E \in Expirable : Purge(E) \/ Accepted(s, l, a, E)
            BY <2>2, SubmitCases
        <3>2. CASE Accepted(s, l, a, E)
            BY <3>2, <1>1, AcceptedMoves DEF Accepted, SameRunning
        <3>3. QED
            BY <3>1, <3>2, <2>1
    <2>3. ASSUME NEW s \in Sessions, InterruptSession(s)
          PROVE  Limited'
        <3>1. PendingOf(s) \subseteq Pend /\ Stop(PendingOf(s), RunningOf(s))
            BY <2>3 DEF InterruptSession, PendingOf, Pend
        <3>2. QED
            BY <3>1, <1>3
    <2>4. ASSUME NEW r \in 1..submitted, InterruptRun(r)
          PROVE  Limited'
        <3>1. {r} \cap Pend \subseteq Pend /\ Stop({r} \cap Pend, {r} \cap InState("running"))
            BY <2>4 DEF InterruptRun, Pend
        <3>2. QED
            BY <3>1, <1>3
    <2>5. ASSUME NEW r \in 1..submitted, AbandonUnstarted(r) \/ AbandonRunning(r)
          PROVE  Limited'
        <3>1. CASE AbandonUnstarted(r)
            BY <3>1, <1>1, AbandonMoves DEF AbandonUnstarted, SameRunning
        <3>2. CASE AbandonRunning(r)
            BY <3>2, <1>1, AbandonRunningMoves, ThreeStates DEF AbandonRunning, Unmoved, SameRunning
        <3>3. QED
            BY <2>5, <3>1, <3>2
    <2>6. ASSUME BeginStopping
          PROVE  Limited'
        <3>1. CASE shuttingDown
            BY <2>6, <3>1, <1>2 DEF BeginStopping, queue
        <3>2. CASE ~shuttingDown
            <4>1. Stop(Pend, InState("running"))
                BY <2>6, <3>2 DEF BeginStopping, Pend
            <4>2. QED
                BY <4>1, <1>3
        <3>3. QED
            BY <3>1, <3>2
    <2>7. ASSUME NEW c \in Callers, NEW t \in BOOLEAN,
                 Shutdown(c, t) \/ Destroy(c) \/ \E r \in 1..submitted : Collect(c, r, t)
          PROVE  Limited'
        BY <2>6, <2>7, <1>2 DEF Shutdown, Destroy, Collect, queue
    <2>8. QED
        BY <1>4, <2>1, <2>2, <2>3, <2>4, <2>5, <2>7 DEF Client, GetStatus
<1>5. ASSUME NEW w \in Workers, Worker(w) PROVE Limited'
    <2>1. CASE WorkerClaim(w)
        BY <2>1, ClaimKeepsLimits
    <2>2. CASE WorkerWait(w)
        <3>1. Walk(NoRun) /\ UNCHANGED <<sessionInFlight, laneInFlight>>
            BY <2>2 DEF WorkerWait
        <3>2. \E D, S : /\ S = {NoRun} \ {NoRun} /\ Run' = Run \cup S
                        /\ \A q \in Live : /\ jobs'[q].session = jobs[q].session
                                           /\ jobs'[q].lane = jobs[q].lane
            BY <3>1, WalkMoves
        <3>3. SameRunning
            BY <3>2, ThreeStates DEF SameRunning
        <3>4. tracked \subseteq tracked'
            BY <3>1 DEF Walk, TrackedAfter
        <3>5. QED
            BY <3>1, <3>3, <3>4, OthersKeepLimits
    <2>3. CASE WorkerExit(w)
        BY <2>3, <1>2 DEF WorkerExit, queue
    <2>4. CASE WorkerCheck(w) \/ TaskReturns(w) \/ WorkerFinish(w)
        <3>1. held[w] \in Run
            BY <2>4, OwnershipMeaning DEF WorkerCheck, TaskReturns, WorkerFinish, AtWork
        <3>2. CASE WorkerFinish(w)
            BY <3>1, <3>2, FinishKeepsLimits
        <3>3. CASE WorkerCheck(w) \/ TaskReturns(w)
            BY <3>1, <3>3, <1>1, WorkMoves, ThreeStates
            DEF Unmoved, SameRunning, WorkerCheck, TaskReturns
        <3>4. QED
            BY <2>4, <3>2, <3>3
    <2>5. QED
        BY <1>5, <2>1, <2>2, <2>3, <2>4 DEF Worker
<1>6. ASSUME NEW c \in Callers, Caller(c) \/ Timeout(c) PROVE Limited'
    <2>1. CASE CollectTake(c)
        BY <2>1, <1>1, TakeMoves DEF CollectTake, SameRunning
    <2>2. CASE ~CollectTake(c)
        BY <1>6, <2>2, <1>2
        DEF Caller, Timeout, CollectWait, CollectMissing, ShutdownWait, ShutdownReturn,
            DestroyReturn, CollectTimeout, ShutdownTimeout, Sleep, queue
    <2>3. QED
        BY <2>1, <2>2
<1>7. CASE (\E t \in Workers \cup Callers : Wake(t)) \/ UNCHANGED vars
    BY <1>7, <1>2 DEF Wake, vars, queue
<1>8. QED
    BY <1>4, <1>5, <1>6, <1>7 DEF Next

-----------------------------------------------------------------------------
(* The inductive invariant *)

IInv == TypeOK /\ Ownership /\ Counted /\ Quiet /\ TotalBound /\ Taken /\ Parting /\ Limited

LEMMA InitEstablishes == Init => IInv
<1> SUFFICES ASSUME Init PROVE IInv
    OBVIOUS
<1>1. TypeOK
    BY InitTypeOK
<1>2. Live = {}
    BY DEF Init, Live
<1>3. Pend = {} /\ Run = {} /\ Comp = {}
    BY <1>2 DEF Pend, Run, Comp, InState
<1>4. Ownership
    BY <1>3, OwnershipMeaning DEF Init, AtWork
<1>5. Counted
    BY <1>2, <1>3, FS_EmptySet DEF Init, Counted
<1>6. Quiet
    BY <1>3 DEF Init, Quiet, Closers
<1>7. TotalBound
    BY <1>2, FS_EmptySet DEF TotalBound
<1>8. Taken
    BY DEF Init, Taken, ResultTakenOnce
<1>9. Parting
    BY DEF Init, Parting, Sleepers, Alone
<1>10. Limited
    <2>1. /\ \A l \in Lanes : LaneRun(l) = {}
          /\ \A s \in Sessions : SessionRun(s) = {}
        BY <1>3 DEF LaneRun, SessionRun
    <2>2. /\ \A l \in Lanes : Cardinality(LaneRun(l)) = 0
          /\ \A s \in Sessions : Cardinality(SessionRun(s)) = 0
        <3>1. Cardinality({}) = 0
            BY FS_EmptySet
        <3>2. QED
            BY <2>1, <3>1, Zenon
    <2>3. \A l \in Lanes : laneInFlight[l] = Cardinality(LaneRun(l)) /\ laneInFlight[l] <= LaneLimit[l]
        BY <2>2 DEF Init
    <2>4. \A s \in Sessions : /\ sessionInFlight[s] = Cardinality(SessionRun(s))
                             /\ sessionInFlight[s] <= SessionLimit
        BY <2>2 DEF Init
    <2>5. QED
        BY <1>3, <2>3, <2>4 DEF Limited
<1>11. QED
    BY <1>1, <1>4, <1>5, <1>6, <1>7, <1>8, <1>9, <1>10 DEF IInv

LEMMA StepPreserves == IInv /\ [Next]_vars => IInv'
BY StepKeepsType, StepKeepsOwnership, StepKeepsCounts, StepStaysQuiet, StepKeepsBound,
   StepKeepsTaken, StepKeepsParting, StepKeepsLimits
   DEF IInv

LEMMA Invariant == Spec => []IInv
BY InitEstablishes, StepPreserves, PTL DEF Spec

(* A worker's job stays in the list, in flight and its own while the       *)
(* worker uses it without the lock, whoever collects, abandons, interrupts *)
(* or purges meanwhile, and every run in flight has its worker.            *)
THEOREM WorkersOwnTheirJobs == Spec => []WorkerOwnsItsJob
<1>1. IInv => WorkerOwnsItsJob
    BY DEF IInv, Ownership
<1>2. QED
    BY <1>1, Invariant, PTL

(* The gauges that backpressure and shutdown decide on are the numbers of  *)
(* pending, running, completed and listed runs, so no saturating decrement *)
(* ever hides a miscount.                                                  *)
THEOREM GaugesAreExact == Spec => []GaugesMatchList
<1>1. IInv => GaugesMatchList
    BY CountedMeaning DEF IInv
<1>2. QED
    BY <1>1, Invariant, PTL

(* No accepted run is lost or counted twice by the totals.                 *)
THEOREM TotalsAreExact == Spec => []TotalsAddUp
<1>1. IInv => TotalsAddUp
    BY CountedMeaning DEF IInv
<1>2. QED
    BY <1>1, Invariant, PTL

(* Once a shutdown or destroy has returned success, nothing is pending or  *)
(* in flight and no worker is at work.                                     *)
THEOREM ShutdownLeavesNothing == Spec => []ShutdownIsQuiescent
<1>1. ASSUME IInv PROVE ShutdownIsQuiescent
    <2> SUFFICES ASSUME NEW c \in Callers, answer[c] = "done"
                 PROVE  /\ Pend \cup Run = {}
                        /\ \A w \in Workers : worker[w] \in {"loop", "exited"}
        BY DEF ShutdownIsQuiescent, Pend, Run
    <2>1. Pend = {} /\ Run = {}
        BY <1>1 DEF IInv, Quiet
    <2>2. \A w \in Workers : worker[w] \notin AtWork
        BY <1>1, <2>1, OwnershipMeaning DEF IInv
    <2>3. QED
        BY <1>1, <2>1, <2>2 DEF IInv, TypeOK, AtWork
<1>2. QED
    BY <1>1, Invariant, PTL

(* However runs are purged, superseded, abandoned or completed between two *)
(* submissions, the list never holds more than max_total_tasks runs.       *)
THEOREM ListIsBounded == Spec => []TotalBound
<1>1. IInv => TotalBound
    BY DEF IInv
<1>2. QED
    BY <1>1, Invariant, PTL

(* Of all the collectors of a run at most one gets its result.             *)
THEOREM ResultsAreTakenOnce == Spec => []ResultTakenOnce
<1>1. IInv => ResultTakenOnce
    BY DEF IInv, Taken
<1>2. QED
    BY <1>1, Invariant, PTL

(* When destroy frees the queue every worker has left its loop, no other   *)
(* call is in progress and nobody waits on the condition variable.         *)
THEOREM DestroyIsLast == Spec => []DestroyedIsUnused
<1>1. IInv => DestroyedIsUnused
    BY DEF IInv, TypeOK, Parting, Sleepers, Alone, Waiting, DestroyedIsUnused
<1>2. QED
    BY <1>1, Invariant, PTL

(* No lane and no session ever has more runs in flight than configured,    *)
(* although the counter of a session is forgotten with its table entry and *)
(* starts again from zero with a new one.                                  *)
THEOREM LimitsHold == Spec => []ConcurrencyLimits
<1>1. IInv => ConcurrencyLimits
    BY LimitedMeaning DEF IInv
<1>2. QED
    BY <1>1, Invariant, PTL

-----------------------------------------------------------------------------
(* Lanes *)

(* What the lanes may have in flight together, and a pool with a worker for *)
(* each: what desired_worker_count makes as long as it is not capped        *)
Slots == UNION {{l} \X (1..LaneLimit[l]) : l \in Lanes}
PoolCoversLanes == IsFiniteSet(Slots) /\ IsFiniteSet(Workers) /\ Cardinality(Slots) <= Cardinality(Workers)

LEMMA RunsFitTheLanes ==
    ASSUME TypeOK, Limited, IsFiniteSet(Slots), NEW free \in Lanes, laneInFlight[free] < LaneLimit[free]
    PROVE  Cardinality(Run) < Cardinality(Slots)
<1>1. Run \subseteq Live /\ jobs \in [Live -> Job]
    BY DEF Run, InState, TypeOK, Live
<1>2. \A l \in Lanes : Injection(LaneRun(l), 1..laneInFlight[l]) # {}
    <2> TAKE l \in Lanes
    <2>1. LaneRun(l) \subseteq Live
        BY <1>1 DEF LaneRun
    <2>2. IsFiniteSet(LaneRun(l)) /\ Cardinality(LaneRun(l)) = laneInFlight[l]
        BY <2>1, Finite DEF Limited
    <2>3. ExistsBijection(1..laneInFlight[l], LaneRun(l))
        BY <2>2, FS_CardinalityType
    <2>4. ExistsBijection(LaneRun(l), 1..laneInFlight[l])
        BY <2>3, Fun_ExistsBijSymmetric
    <2>5. QED
        BY <2>4 DEF ExistsBijection, Bijection
<1> DEFINE number == [l \in Lanes |-> CHOOSE g : g \in Injection(LaneRun(l), 1..laneInFlight[l])]
<1>3. \A l \in Lanes : number[l] \in Injection(LaneRun(l), 1..laneInFlight[l])
    BY <1>2
<1> HIDE DEF number
<1> DEFINE slot == [r \in Run |-> <<jobs[r].lane, number[jobs[r].lane][r]>>]
           full == Slots \ {<<free, LaneLimit[free]>>}
<1>4. ASSUME NEW r \in Run
      PROVE  /\ jobs[r].lane \in Lanes /\ r \in LaneRun(jobs[r].lane)
             /\ number[jobs[r].lane][r] \in 1..laneInFlight[jobs[r].lane]
    <2>1. jobs[r].lane \in Lanes /\ r \in LaneRun(jobs[r].lane)
        BY <1>1 DEF Job, LaneRun
    <2>2. number[jobs[r].lane] \in [LaneRun(jobs[r].lane) -> 1..laneInFlight[jobs[r].lane]]
        BY <1>3, <2>1 DEF Injection
    <2>3. QED
        BY <2>1, <2>2
<1>5. ASSUME NEW r \in Run PROVE slot[r] \in full
    <2>1. PICK l \in Lanes : l = jobs[r].lane
        BY <1>4
    <2>2. PICK n \in 1..laneInFlight[l] : n = number[l][r]
        BY <1>4, <2>1
    <2>3. laneInFlight[l] \in Nat /\ LaneLimit[l] \in Nat /\ laneInFlight[l] <= LaneLimit[l]
        BY DEF TypeOK, Limited
    <2>4. <<l, n>> \in Slots
        <3>1. n \in 1..LaneLimit[l]
            BY <2>3
        <3>2. QED
            BY <3>1 DEF Slots
    <2>5. <<l, n>> # <<free, LaneLimit[free]>>
        BY <2>3
    <2>6. QED
        BY <2>1, <2>2, <2>4, <2>5
<1>6. ASSUME NEW q \in Run, NEW r \in Run, slot[q] = slot[r] PROVE q = r
    <2>1. PICK l \in Lanes : l = jobs[r].lane /\ l = jobs[q].lane /\ number[l][q] = number[l][r]
        BY <1>4, <1>6
    <2>2. q \in LaneRun(l) /\ r \in LaneRun(l)
        BY <1>4, <2>1
    <2>3. QED
        BY <1>3, <2>1, <2>2 DEF Injection, IsInjective
<1>7. slot \in Injection(Run, full)
    <2>1. slot \in [Run -> full]
        BY <1>5
    <2> HIDE DEF slot
    <2>2. \A q, r \in Run : slot[q] = slot[r] => q = r
        BY <1>6
    <2>3. QED
        BY <2>1, <2>2 DEF Injection, IsInjective
<1>8. <<free, LaneLimit[free]>> \in Slots
    BY DEF Slots
<1>9. IsFiniteSet(full) /\ Cardinality(full) = Cardinality(Slots) - 1 /\ Cardinality(Slots) \in Nat
    BY <1>8, FS_RemoveElement, FS_CardinalityType
<1>10. Cardinality(Run) <= Cardinality(full)
    BY <1>7, <1>9, FS_Injection
<1>11. Cardinality(Run) \in Nat
    BY <1>1, Finite
<1>12. QED
    BY <1>9, <1>10, <1>11

LEMMA BusyWorkersRun ==
    ASSUME TypeOK, Ownership, IsFiniteSet(Workers), \A w \in Workers : worker[w] \in AtWork
    PROVE  Cardinality(Workers) <= Cardinality(Run)
<1>1. \A w \in Workers : held[w] \in Run
    BY OwnershipMeaning
<1>2. \A v, w \in Workers : held[v] = held[w] => v = w
    BY OwnershipMeaning
<1>3. held \in [Workers -> Run]
    BY <1>1 DEF TypeOK
<1>4. held \in Injection(Workers, Run)
    BY <1>2, <1>3 DEF Injection, IsInjective
<1>5. IsFiniteSet(Run)
    <2>1. Run \subseteq Live
        BY DEF Run, InState
    <2>2. QED
        BY <2>1, Finite
<1>6. QED
    BY <1>4, <1>5, FS_Injection

(* Workers leave only a queue that is shutting down.                        *)
Staying == \A w \in Workers : worker[w] = "exited" => shuttingDown

LEMMA StepKeepsStaying == TypeOK /\ Staying /\ [Next]_vars => Staying'
<1> SUFFICES ASSUME TypeOK, Staying, [Next]_vars PROVE Staying'
    OBVIOUS
<1>1. ASSUME worker' = worker, shuttingDown' = shuttingDown \/ shuttingDown' = TRUE PROVE Staying'
    BY <1>1 DEF Staying
<1>2. CASE Client
    <2> DEFINE Stays == worker' = worker /\ (shuttingDown' = shuttingDown \/ shuttingDown' = TRUE)
    <2>1. ASSUME NEW s \in Sessions, NEW l \in Lanes, NEW a \in Actions, Submit(s, l, a) PROVE Stays
        <3>1. \/ \E E \in Expirable : Purge(E)
              \/ shuttingDown' = shuttingDown /\ threads' = threads
            BY <2>1 DEF Submit
        <3>2. CASE shuttingDown' = shuttingDown /\ threads' = threads
            BY <3>2 DEF threads
        <3>3. CASE \E E \in Expirable : Purge(E)
            BY <3>3 DEF Purge, threads
        <3>4. QED
            BY <3>1, <3>2, <3>3
    <2>2. ASSUME GetStatus \/ \E s \in Sessions : InterruptSession(s) PROVE Stays
        BY <2>2 DEF GetStatus, Purge, InterruptSession, Stop, threads, queue
    <2>3. ASSUME NEW r \in 1..submitted, InterruptRun(r) \/ AbandonUnstarted(r) \/ AbandonRunning(r) PROVE Stays
        BY <2>3 DEF InterruptRun, Stop, AbandonUnstarted, AbandonRunning, threads, queue
    <2>4. ASSUME NEW c \in Callers, NEW t \in BOOLEAN, Shutdown(c, t) \/ Destroy(c) PROVE Stays
        BY <2>4 DEF Shutdown, Destroy, BeginStopping, Stop, threads, queue
    <2>5. ASSUME NEW c \in Callers, NEW r \in 1..submitted, NEW t \in BOOLEAN, Collect(c, r, t) PROVE Stays
        BY <2>5 DEF Collect, Call, threads, queue
    <2>6. Stays
        BY <1>2, <2>1, <2>2, <2>3, <2>4, <2>5 DEF Client
    <2>7. QED
        BY <1>1, <2>6
<1>3. ASSUME NEW w \in Workers, Worker(w) PROVE Staying'
    <2>1. shuttingDown' = shuttingDown
        BY <1>3 DEF Worker, WorkerClaim, WorkerWait, WorkerExit, WorkerCheck, TaskReturns, WorkerFinish, queue
    <2>2. CASE WorkerExit(w)
        BY <2>1, <2>2 DEF WorkerExit, Staying
    <2>3. CASE worker' = worker
        BY <1>1, <2>1, <2>3
    <2>4. CASE \E at \in {"loop", "claimed", "executing", "finishing"} : worker' = [worker EXCEPT ![w] = at]
        BY <2>1, <2>4 DEF Staying, TypeOK
    <2>5. QED
        BY <1>3, <2>2, <2>3, <2>4
        DEF Worker, WorkerClaim, WorkerWait, WorkerCheck, TaskReturns, WorkerFinish, threads
<1>4. ASSUME NEW c \in Callers, Caller(c) \/ Timeout(c) PROVE Staying'
    BY <1>1, <1>4 DEF Caller, Timeout, CollectWait, CollectMissing, CollectTake, ShutdownWait, ShutdownReturn,
                      DestroyReturn, CollectTimeout, ShutdownTimeout, Sleep, threads, queue
<1>5. CASE (\E t \in Workers \cup Callers : Wake(t)) \/ UNCHANGED vars
    BY <1>1, <1>5 DEF Wake, vars, threads, queue
<1>6. QED
    BY <1>2, <1>3, <1>4, <1>5 DEF Next

(* With a worker for each run the lanes may have in flight, a run that its  *)
(* session and its lane allow to start finds a worker that is not at work,  *)
(* however busy the other lanes are (cc_run_queue.h:21-26).                 *)
THEOREM LanesIsolated ==
    ASSUME PoolCoversLanes
    PROVE  Spec => []LaneIsolation
<1>1. Init => Staying
    BY DEF Init, Staying
<1>2. Spec => []Staying
    <2>1. Spec => []TypeOK
        BY TypeCorrect
    <2>2. QED
        BY <1>1, <2>1, StepKeepsStaying, PTL DEF Spec
<1>3. ASSUME IInv, Staying PROVE LaneIsolation
    <2> SUFFICES ASSUME Runnable # {}, ~shuttingDown, \A w \in Workers : worker[w] # "loop"
                 PROVE  FALSE
        BY DEF LaneIsolation
    <2>1. \A w \in Workers : worker[w] \in AtWork
        BY <1>3 DEF IInv, TypeOK, Staying, AtWork
    <2>2. PICK r \in Runnable : TRUE
        OBVIOUS
    <2>3. jobs[r].lane \in Lanes /\ laneInFlight[jobs[r].lane] < LaneLimit[jobs[r].lane]
        BY <1>3, <2>2 DEF Runnable, InState, Live, IInv, TypeOK, Job
    <2>4. Cardinality(Run) < Cardinality(Slots)
        BY <1>3, <2>3, RunsFitTheLanes DEF IInv, PoolCoversLanes
    <2>5. Cardinality(Workers) <= Cardinality(Run)
        BY <1>3, <2>1, BusyWorkersRun DEF IInv, PoolCoversLanes
    <2>6. Cardinality(Run) \in Nat /\ Cardinality(Slots) \in Nat /\ Cardinality(Workers) \in Nat
        <3>1. Run \subseteq Live
            BY DEF Run, InState
        <3>2. QED
            BY <1>3, <3>1, Finite, FS_CardinalityType DEF IInv, PoolCoversLanes
    <2>7. QED
        BY <2>4, <2>5, <2>6 DEF PoolCoversLanes
<1>4. QED
    BY <1>2, <1>3, Invariant, PTL
-----------------------------------------------------------------------------
(* A worker claims the first runnable run of the list, and whether a run   *)
(* is runnable is a matter of its session and lane only.                   *)
LEMMA ClaimStartsInOrder ==
    ASSUME TypeOK, NEW w \in Workers, WorkerClaim(w),
           NEW r \in Live, NEW q \in Live,
           jobs[r].state = "pending", r \in Run',
           q < r, jobs[q].state = "pending",
           jobs[q].session = jobs[r].session, jobs[q].lane = jobs[r].lane
    PROVE  FALSE
<1>1. PICK f \in First(Runnable) : held' = [held EXCEPT ![w] = f] /\ Walk(f)
    BY DEF WorkerClaim
<1>2. f \in Runnable /\ f # NoRun
    BY <1>1 DEF First, Runnable, InState, TypeOK, Live
<1>3. Run' = Run \cup {f}
    <2>1. \E D, S : S = {f} \ {NoRun} /\ Run' = Run \cup S
        BY <1>1, <1>2, WalkMoves
    <2>2. QED
        BY <1>2, <2>1
<1>4. r = f
    BY <1>3 DEF Run, InState
<1>5. q \in Runnable
    BY <1>2, <1>4 DEF Runnable, InState
<1>6. r <= q
    BY <1>1, <1>4, <1>5 DEF First
<1>7. QED
    BY <1>6 DEF TypeOK, Live

(* Runs of one session in one lane are started in the order in which they  *)
(* were accepted, whatever other sessions and lanes do to the scheduler.   *)
THEOREM SessionOrder == Spec => StartsInOrder
<1>1. ASSUME IInv, [Next]_vars, NEW r \in Live, NEW q \in Live,
             jobs[r].state = "pending", r \in DOMAIN jobs', jobs'[r].state = "running",
             q < r, jobs[q].state = "pending",
             jobs[q].session = jobs[r].session, jobs[q].lane = jobs[r].lane
      PROVE  FALSE
    <2>1. r \in Run' /\ r \notin Run
        BY <1>1 DEF Run, InState, Live
    <2>2. \E w \in Workers : WorkerClaim(w)
        BY <1>1, <2>1, ListMoves DEF IInv, Kept, Grown, Started
    <2>3. QED
        BY <1>1, <2>1, <2>2, ClaimStartsInOrder DEF IInv
<1>2. ASSUME IInv, [Next]_vars
      PROVE  \A r \in Live :
                /\ jobs[r].state = "pending" /\ r \in DOMAIN jobs' /\ jobs'[r].state = "running"
                => \A q \in Live : q < r /\ jobs[q].state = "pending"
                                   /\ jobs[q].session = jobs[r].session
                                   /\ jobs[q].lane = jobs[r].lane
                       => jobs'[q].state # "pending"
    BY <1>1, <1>2
<1>3. QED
    BY <1>2, Invariant, PTL DEF Spec, StartsInOrder
-----------------------------------------------------------------------------
(* Wake-ups *)

(* Which runs may start depends on the pending runs and the counters only. *)
LEMMA RunnableStays ==
    ASSUME TypeOK, Pend' = Pend, UNCHANGED limits,
           \A q \in Pend : jobs'[q].session = jobs[q].session /\ jobs'[q].lane = jobs[q].lane
    PROVE  Runnable' = Runnable
<1>1. \A s : PendingOf(s) = {r \in Pend : jobs[r].session = s}
    BY DEF PendingOf, OfSession, Pend, InState
<1>2. \A s : PendingOf(s)' = {r \in Pend' : jobs'[r].session = s}
    BY DEF PendingOf, OfSession, Pend, InState
<1>3. \A s : PendingOf(s)' = PendingOf(s)
    BY <1>1, <1>2
<1>4. tracked' = tracked /\ sessionInFlight' = sessionInFlight /\ laneInFlight' = laneInFlight
    BY DEF limits
<1>5. ASSUME NEW r \in Pend PROVE CanTrack(jobs[r].session)' <=> CanTrack(jobs[r].session)
    <2>1. jobs'[r].session = jobs[r].session
        BY <1>5
    <2>2. PendingOf(jobs[r].session)' = PendingOf(jobs[r].session)
        BY <1>1, <2>1 DEF PendingOf, OfSession, Pend, InState
    <2>3. Ahead(jobs[r].session)' = Ahead(jobs[r].session)
        BY <1>3, <1>4, <2>2 DEF Ahead
    <2>4. QED
        BY <1>4, <2>1, <2>3 DEF CanTrack
<1>6. Runnable = {r \in Pend : /\ CanTrack(jobs[r].session)
                               /\ sessionInFlight[jobs[r].session] < SessionLimit
                               /\ laneInFlight[jobs[r].lane] < LaneLimit[jobs[r].lane]}
    BY DEF Runnable, Pend
<1>7. Runnable' = {r \in Pend' : /\ CanTrack(jobs[r].session)'
                                 /\ sessionInFlight'[jobs'[r].session] < SessionLimit
                                 /\ laneInFlight'[jobs'[r].lane] < LaneLimit[jobs'[r].lane]}
    BY DEF Runnable, Pend
<1>8. QED
    BY <1>4, <1>5, <1>6, <1>7

(* A worker that found nothing to start leaves nothing to start, whatever  *)
(* its walk dropped and whichever sessions it gave an entry.               *)
LEMMA WaitLeavesNothing ==
    ASSUME TypeOK, NEW w \in Workers, WorkerWait(w)
    PROVE  Runnable' = {}
<1>1. Runnable = {} /\ Walk(NoRun) /\ UNCHANGED <<sessionInFlight, laneInFlight>>
    BY DEF WorkerWait
<1>2. PICK D : D = {r \in Pend : ~CanTrack(jobs[r].session)}
    OBVIOUS
<1>3. jobs' = [q \in Live |-> IF q = NoRun THEN [jobs[q] EXCEPT !.state = "running"]
                              ELSE Stopped(D, {})[q]]
    <2>1. D = Dropped({r \in InState("pending") : NoRun = NoRun \/ r <= NoRun})
        BY <1>2 DEF Dropped, Pend
    <2>2. QED
        BY <1>1, <2>1 DEF Walk
<1>4. NoRun \notin Live
    BY DEF TypeOK, Live
<1>5. ASSUME NEW q \in Live
      PROVE  /\ q \in D => Stopped(D, {})[q].state = "completed"
             /\ q \notin D => Stopped(D, {})[q].state = jobs[q].state
             /\ Stopped(D, {})[q].session = jobs[q].session
             /\ Stopped(D, {})[q].lane = jobs[q].lane
    <2>1. D \subseteq Pend
        BY <1>2
    <2>2. QED
        BY <2>1, StoppedMoves
<1>6. SUFFICES ASSUME NEW r \in Runnable' PROVE FALSE
    OBVIOUS
<1>7. /\ r \in Live' /\ jobs'[r].state = "pending"
      /\ sessionInFlight'[jobs'[r].session] < SessionLimit
      /\ laneInFlight'[jobs'[r].lane] < LaneLimit[jobs'[r].lane]
    BY DEF Runnable, InState
<1>8. r \in Live /\ r # NoRun
    BY <1>3, <1>4, <1>7 DEF Live
<1>9. jobs'[r] = Stopped(D, {})[r]
    BY <1>3, <1>8
<1>10. r \notin D /\ jobs[r].state = "pending"
    BY <1>5, <1>7, <1>8, <1>9
<1>11. r \in Pend /\ CanTrack(jobs[r].session)
    BY <1>2, <1>8, <1>10 DEF Pend, InState
<1>12. r \in Runnable
    BY <1>1, <1>5, <1>7, <1>8, <1>9, <1>11 DEF Runnable, Pend
<1>13. QED
    BY <1>1, <1>12

LEMMA StepWakesWorkers ==
    IInv /\ NoWorkerSleepsOnWork /\ [Next]_vars => NoWorkerSleepsOnWork'
<1> SUFFICES ASSUME TypeOK, Ownership, NoWorkerSleepsOnWork, [Next]_vars
             PROVE  NoWorkerSleepsOnWork'
    BY DEF IInv
<1>1. ASSUME Broadcast PROVE NoWorkerSleepsOnWork'
    BY <1>1 DEF Broadcast, NoWorkerSleepsOnWork
<1>2. ASSUME Pend' = Pend, UNCHANGED <<limits, shuttingDown>>,
             \A q \in Pend : jobs'[q].session = jobs[q].session /\ jobs'[q].lane = jobs[q].lane,
             Workers \cap asleep' \subseteq asleep
      PROVE  NoWorkerSleepsOnWork'
    BY <1>2, RunnableStays DEF NoWorkerSleepsOnWork
<1>3. Pend \subseteq Live
    BY DEF Pend, InState
<1>4. ASSUME UNCHANGED <<jobs, limits, shuttingDown>>, Workers \cap asleep' \subseteq asleep
      PROVE  NoWorkerSleepsOnWork'
    BY <1>2, <1>4, SameJobsMoves DEF Unmoved
<1>5. CASE Client
    <2>1. ASSUME NEW E \in Expirable, Purge(E) PROVE NoWorkerSleepsOnWork'
        <3>1. Pend' = Pend /\ \A q \in Pend : jobs'[q] = jobs[q]
            BY <2>1, PurgeMoves, ThreeStates
        <3>2. QED
            BY <2>1, <3>1, <1>2 DEF Purge
    <2>2. ASSUME NEW s \in Sessions, NEW l \in Lanes, NEW a \in Actions, Submit(s, l, a)
          PROVE  NoWorkerSleepsOnWork'
        BY <2>1, <2>2, <1>1, SubmitCases DEF Accepted
    <2>3. ASSUME NEW s \in Sessions, InterruptSession(s) PROVE NoWorkerSleepsOnWork'
        BY <2>3, <1>1 DEF InterruptSession, Stop
    <2>4. ASSUME NEW r \in 1..submitted, InterruptRun(r) \/ AbandonUnstarted(r) \/ AbandonRunning(r)
          PROVE  NoWorkerSleepsOnWork'
        BY <2>4, <1>1 DEF InterruptRun, AbandonUnstarted, AbandonRunning, Stop
    <2>5. ASSUME BeginStopping PROVE NoWorkerSleepsOnWork'
        BY <2>5, <1>1, <1>4 DEF BeginStopping, Stop, queue
    <2>6. ASSUME NEW c \in Callers, NEW t \in BOOLEAN,
                 Shutdown(c, t) \/ Destroy(c) \/ \E r \in 1..submitted : Collect(c, r, t)
          PROVE  NoWorkerSleepsOnWork'
        BY <2>5, <2>6, <1>4 DEF Shutdown, Destroy, Collect, queue
    <2>7. QED
        BY <1>5, <2>1, <2>2, <2>3, <2>4, <2>6 DEF Client, GetStatus
<1>6. ASSUME NEW w \in Workers, Worker(w) PROVE NoWorkerSleepsOnWork'
    <2>1. CASE WorkerClaim(w)
        BY <2>1 DEF WorkerClaim, First, NoWorkerSleepsOnWork
    <2>2. CASE WorkerWait(w)
        BY <2>2, WaitLeavesNothing DEF NoWorkerSleepsOnWork
    <2>3. CASE WorkerExit(w)
        BY <2>3, <1>4 DEF WorkerExit, queue
    <2>4. CASE WorkerCheck(w) \/ TaskReturns(w)
        <3>1. held[w] \in Run
            BY <2>4, OwnershipMeaning DEF WorkerCheck, TaskReturns, AtWork
        <3>2. Unmoved
            BY <2>4, <3>1, WorkMoves
        <3>3. UNCHANGED <<limits, shuttingDown, asleep>>
            BY <2>4 DEF WorkerCheck, TaskReturns
        <3>4. QED
            BY <3>2, <3>3, <1>2, <1>3 DEF Unmoved
    <2>5. CASE WorkerFinish(w)
        BY <2>5, <1>1 DEF WorkerFinish
    <2>6. QED
        BY <1>6, <2>1, <2>2, <2>3, <2>4, <2>5 DEF Worker
<1>7. ASSUME NEW c \in Callers, Caller(c) \/ Timeout(c) PROVE NoWorkerSleepsOnWork'
    <2>1. CASE CollectTake(c)
        <3>1. Pend' = Pend /\ jobs' = [q \in Live \ {target[c]} |-> jobs[q]] /\ target[c] \in Comp
            BY <2>1, TakeMoves DEF CollectTake
        <3>2. \A q \in Pend : jobs'[q] = jobs[q]
            BY <3>1, <1>3, ThreeStates
        <3>3. UNCHANGED <<limits, shuttingDown, asleep>>
            BY <2>1 DEF CollectTake
        <3>4. QED
            BY <3>1, <3>2, <3>3, <1>2
    <2>2. CASE CollectWait(c) \/ ShutdownWait(c)
        <3>1. asleep' = asleep \cup {c} /\ c \notin Workers
            BY <2>2 DEF CollectWait, ShutdownWait, Sleep
        <3>2. QED
            BY <2>2, <3>1, <1>4 DEF CollectWait, ShutdownWait, Sleep, queue
    <2>3. CASE CollectMissing(c) \/ ShutdownReturn(c) \/ DestroyReturn(c) \/ Timeout(c)
        BY <2>3, <1>4 DEF CollectMissing, ShutdownReturn, DestroyReturn, Timeout, CollectTimeout,
                          ShutdownTimeout, queue
    <2>4. QED
        BY <1>7, <2>1, <2>2, <2>3 DEF Caller
<1>8. CASE (\E t \in Workers \cup Callers : Wake(t)) \/ UNCHANGED vars
    BY <1>8, <1>4 DEF Wake, vars, queue
<1>9. QED
    BY <1>5, <1>6, <1>7, <1>8 DEF Next

(* No wake-up is missed: whatever makes a run startable - a submission, a  *)
(* worker that gives its slots back, a pending run interrupted before it -    *)
(* wakes every worker, and what does not wake them makes none startable.   *)
THEOREM WorkersAreWoken == Spec => []NoWorkerSleepsOnWork
<1>1. Init => NoWorkerSleepsOnWork
    BY DEF Init, NoWorkerSleepsOnWork
<1>2. QED
    BY <1>1, StepWakesWorkers, Invariant, PTL DEF Spec

-----------------------------------------------------------------------------
(* The refinement.  Every behaviour of RunQueue, seen through the mapping  *)
(* of its INSTANCE Service, is a behaviour of RunService: each handler is  *)
(* one step of the service or leaves every run in its phase.               *)

HIDE DEF ConfigAssumption, ThreadAssumption, NoRun, Runs, Results, JobStates, Actions

Phases == [r \in 1..submitted |-> RunPhase(r)]

-----------------------------------------------------------------------------
(* The phases of the runs *)

LEMMA PhaseOfRun ==
    ASSUME TypeOK, NEW r \in 1..submitted
    PROVE  /\ r \in Pend => RunPhase(r) = Service!Pending(jobs[r].session, jobs[r].lane)
           /\ r \in Run => RunPhase(r) = Service!Running(jobs[r].session, jobs[r].lane)
           /\ r \in Comp => RunPhase(r) = Service!Done(jobs[r].result)
           /\ r \notin Live => RunPhase(r) = Service!Gone
BY DEF RunPhase, Service!Pending, Service!Running, Service!Done, Service!Gone, Pend, Run, Comp,
       InState

LEMMA PhaseSets ==
    ASSUME TypeOK
    PROVE  /\ Service!Phase("pending") = Pend
           /\ Service!Phase("running") = Run
           /\ Service!Phase("done") = Comp
<1>1. Live \subseteq 1..submitted /\ Pend \subseteq Live /\ Run \subseteq Live /\ Comp \subseteq Live
    BY DEF TypeOK, Live, Pend, Run, Comp, InState
<1>2. ASSUME NEW r \in 1..submitted
      PROVE  /\ (RunPhase(r).phase = "pending") <=> r \in Pend
             /\ (RunPhase(r).phase = "running") <=> r \in Run
             /\ (RunPhase(r).phase = "done") <=> r \in Comp
    BY <1>2, PhaseOfRun, ThreeStates
    DEF Service!Pending, Service!Running, Service!Done, Service!Gone
<1>3. QED
    BY <1>1, <1>2 DEF Service!Phase

(* The runs C were cancelled, those in G disposed of, and the others stay. *)
Becomes(C, G) ==
    \A r \in 1..submitted :
        RunPhase(r)' = IF r \in C THEN Service!Done("cancelled")
                       ELSE IF r \in G THEN Service!Gone ELSE RunPhase(r)

LEMMA AfterPhases ==
    ASSUME NEW C, NEW G, UNCHANGED submitted, Becomes(C, G)
    PROVE  Phases' = Service!After(C, G)
BY DEF Becomes, Phases, Service!After

(* A run that keeps its state, and its result if it has one, keeps its     *)
(* phase.                                                                  *)
LEMMA SamePhase ==
    ASSUME NEW r, r \in Live <=> r \in Live',
           r \in Live => /\ jobs'[r].state = jobs[r].state
                         /\ jobs'[r].session = jobs[r].session
                         /\ jobs'[r].lane = jobs[r].lane
                         /\ jobs[r].state = "completed" => jobs'[r].result = jobs[r].result
    PROVE  RunPhase(r)' = RunPhase(r)
BY DEF RunPhase

LEMMA StoppedResults ==
    ASSUME TypeOK, NEW P, NEW K, P \subseteq Pend, NEW q \in Live
    PROVE  /\ q \in P => Stopped(P, K)[q].result = "cancelled"
           /\ q \notin P => Stopped(P, K)[q].result = jobs[q].result
BY DEF Stopped, TypeOK, Live, Job

-----------------------------------------------------------------------------
(* Steps of the service *)

(* The service counts as the queue does. *)
LEMMA SameCardinality == ASSUME NEW S PROVE Service!Cardinality(S) = Cardinality(S)
BY DEF Service!Cardinality, Cardinality

LEMMA CancelStep ==
    ASSUME TypeOK, NEW C, C \subseteq Pend, Becomes(C, {}), UNCHANGED <<submitted, shuttingDown>>
    PROVE  Service!ServiceNext
<1>1. Service!Cancel(C)
    BY AfterPhases, PhaseSets DEF Service!Cancel, Phases
<1>2. C \in SUBSET DOMAIN Phases
    BY DEF Phases, Pend, InState, Live, TypeOK
<1>3. QED
    BY <1>1, <1>2 DEF Service!ServiceNext, Phases

LEMMA DisposeStep ==
    ASSUME TypeOK, NEW G, Becomes({}, G), UNCHANGED <<submitted, shuttingDown>>,
           G \subseteq Comp \/ (\E r \in Pend : G = {r})
    PROVE  Service!ServiceNext
<1>1. G \subseteq Comp \/ (Cardinality(G) = 1 /\ G \subseteq Pend)
    BY SingletonCounts
<1>2. Service!Dispose(G)
    <2>1. Phases' = Service!After({}, G)
        BY AfterPhases
    <2>2. G \subseteq Service!Phase("done") \/ (Cardinality(G) = 1 /\ G \subseteq Service!Phase("pending"))
        BY <1>1, PhaseSets
    <2>3. QED
        BY <2>1, <2>2, SameCardinality DEF Service!Dispose, Phases
<1>3. G \in SUBSET DOMAIN Phases
    BY <1>1 DEF Phases, Pend, Comp, InState, Live, TypeOK
<1>4. QED
    BY <1>2, <1>3 DEF Service!ServiceNext, Phases

LEMMA CloseStep ==
    ASSUME TypeOK, Becomes(Pend, {}), UNCHANGED submitted, shuttingDown' = TRUE
    PROVE  Service!ServiceNext
<1>1. Service!Close
    BY AfterPhases, PhaseSets DEF Service!Close, Phases
<1>2. QED
    BY <1>1 DEF Service!ServiceNext

LEMMA NoStep ==
    ASSUME UNCHANGED <<submitted, shuttingDown>>, \A r \in 1..submitted : RunPhase(r)' = RunPhase(r)
    PROVE  UNCHANGED Service!serviceVars
<1>1. Phases' = Phases
    BY DEF Phases
<1>2. QED
    BY <1>1 DEF Service!serviceVars, Phases

LEMMA SameJobsStep ==
    ASSUME UNCHANGED <<submitted, shuttingDown, jobs>>
    PROVE  UNCHANGED Service!serviceVars
<1>1. \A r : RunPhase(r)' = RunPhase(r)
    BY DEF RunPhase, Live
<1>2. QED
    BY <1>1, NoStep
-----------------------------------------------------------------------------
(* The handlers *)

LEMMA StopRefines ==
    ASSUME TypeOK, NEW P, NEW K, P \subseteq Pend, Stop(P, K)
    PROVE  UNCHANGED submitted /\ Becomes(P, {})
<1>1. jobs' = Stopped(P, K) /\ UNCHANGED submitted
    BY DEF Stop
<1>2. Live' = Live
    BY StopMoves
<1>3. ASSUME NEW r \in 1..submitted, r \in P PROVE RunPhase(r)' = Service!Done("cancelled")
    <2>1. r \in Live
        BY <1>3 DEF Pend, InState
    <2>2. Stopped(P, K)[r].state = "completed"
        BY <1>3, <2>1, StoppedMoves
    <2>3. Stopped(P, K)[r].result = "cancelled"
        BY <1>3, <2>1, StoppedResults
    <2>4. QED
        BY <1>1, <1>2, <2>1, <2>2, <2>3 DEF RunPhase, Service!Done
<1>4. ASSUME NEW r \in 1..submitted, r \notin P PROVE RunPhase(r)' = RunPhase(r)
    <2>1. r \in Live => /\ jobs'[r].state = jobs[r].state
                        /\ jobs'[r].session = jobs[r].session
                        /\ jobs'[r].lane = jobs[r].lane
                        /\ jobs'[r].result = jobs[r].result
        BY <1>1, <1>4, StoppedMoves, StoppedResults
    <2>2. QED
        BY <1>2, <2>1, SamePhase
<1>5. QED
    BY <1>1, <1>3, <1>4 DEF Becomes

LEMMA RemoveRefines ==
    ASSUME TypeOK, NEW E, Live' = Live \ E, \A q \in Live \ E : jobs'[q] = jobs[q], E \subseteq Live
    PROVE  Becomes({}, E)
<1>1. ASSUME NEW r \in 1..submitted, r \in E PROVE RunPhase(r)' = Service!Gone
    BY <1>1 DEF RunPhase, Service!Gone
<1>2. ASSUME NEW r \in 1..submitted, r \notin E PROVE RunPhase(r)' = RunPhase(r)
    BY <1>2, SamePhase
<1>3. QED
    BY <1>1, <1>2 DEF Becomes

LEMMA PurgeRefines ==
    ASSUME TypeOK, NEW E \in Expirable, Purge(E)
    PROVE  Service!ServiceNext
<1>1. E \subseteq Comp /\ E \subseteq Live /\ UNCHANGED <<submitted, shuttingDown>>
    BY PurgeMoves DEF Purge, Comp, InState
<1>2. Becomes({}, E)
    BY <1>1, PurgeMoves, RemoveRefines
<1>3. QED
    BY <1>1, <1>2, DisposeStep

LEMMA AbandonRefines ==
    ASSUME TypeOK, NEW r \in 1..submitted, AbandonUnstarted(r)
    PROVE  Service!ServiceNext
<1>1. r \in Live /\ r \notin Run /\ Live' = Live \ {r}
    BY AbandonMoves
<1>2. jobs' = [q \in Live \ {r} |-> jobs[q]] /\ UNCHANGED <<submitted, shuttingDown>>
    BY DEF AbandonUnstarted
<1>3. Becomes({}, {r})
    BY <1>1, <1>2, RemoveRefines
<1>4. {r} \subseteq Comp \/ (\E q \in Pend : {r} = {q})
    BY <1>1, ThreeStates
<1>5. QED
    BY <1>2, <1>3, <1>4, DisposeStep

LEMMA TakeRefines ==
    ASSUME TypeOK, NEW c \in Callers, CollectTake(c)
    PROVE  Service!ServiceNext
<1>1. target[c] \in Comp /\ target[c] \in Live /\ Live' = Live \ {target[c]}
    BY TakeMoves DEF Comp, InState
<1>2. /\ jobs' = [q \in Live \ {target[c]} |-> jobs[q]]
      /\ UNCHANGED <<submitted, shuttingDown>>
    BY DEF CollectTake
<1>3. Becomes({}, {target[c]})
    BY <1>1, <1>2, RemoveRefines
<1>4. {target[c]} \subseteq Comp
    BY <1>1
<1>5. QED
    BY <1>2, <1>3, <1>4, DisposeStep

(* While a run is in flight its result and its marks are nobody's business *)
LEMMA MarkingRefines ==
    ASSUME TypeOK, NEW r \in Run, Unmoved, \A q \in Live \ {r} : jobs'[q] = jobs[q],
           UNCHANGED <<submitted, shuttingDown>>
    PROVE  UNCHANGED Service!serviceVars
<1>1. ASSUME NEW q \in 1..submitted PROVE RunPhase(q)' = RunPhase(q)
    <2>1. Live' = Live
        BY DEF Unmoved
    <2>2. q = r => /\ jobs[q].state = "running" /\ jobs'[q].state = "running"
                   /\ jobs'[q].session = jobs[q].session /\ jobs'[q].lane = jobs[q].lane
        BY DEF Unmoved, Run, InState
    <2>3. CASE q = r
        BY <2>1, <2>2, <2>3, SamePhase
    <2>4. CASE q # r
        BY <2>1, <2>4, SamePhase
    <2>5. QED
        BY <2>3, <2>4
<1>2. QED
    BY <1>1, NoStep

LEMMA WorkRefines ==
    ASSUME TypeOK, NEW w \in Workers, WorkerCheck(w) \/ TaskReturns(w), held[w] \in Run
    PROVE  UNCHANGED Service!serviceVars
<1>1. \/ UNCHANGED jobs
      \/ \E res \in Results : jobs' = [jobs EXCEPT ![held[w]].result = res]
    BY DEF WorkerCheck, TaskReturns, Results
<1>2. \A q \in Live \ {held[w]} : jobs'[q] = jobs[q]
    BY <1>1 DEF Live
<1>3. UNCHANGED <<submitted, shuttingDown>>
    BY DEF WorkerCheck, TaskReturns
<1>4. QED
    BY <1>2, <1>3, WorkMoves, MarkingRefines

LEMMA AbandonRunningRefines ==
    ASSUME TypeOK, NEW r \in 1..submitted, AbandonRunning(r)
    PROVE  UNCHANGED Service!serviceVars
<1>1. /\ r \in Run
      /\ jobs' = [jobs EXCEPT ![r] = [@ EXCEPT !.abandoned = TRUE, !.cancelled = TRUE]]
      /\ UNCHANGED <<submitted, shuttingDown>>
    BY DEF AbandonRunning, Run, InState
<1>2. \A q \in Live \ {r} : jobs'[q] = jobs[q]
    BY <1>1 DEF Live
<1>3. QED
    BY <1>1, <1>2, AbandonRunningMoves, MarkingRefines

LEMMA FinishRefines ==
    ASSUME TypeOK, NEW w \in Workers, WorkerFinish(w), held[w] \in Run
    PROVE  Service!ServiceNext
<1> SUFFICES ASSUME NEW r, r = held[w] PROVE Service!ServiceNext
    OBVIOUS
<1>1. r \in Live /\ r \in 1..submitted /\ jobs[r].state = "running" /\ jobs[r].result \in Results
    BY DEF Run, InState, TypeOK, Live, Job
<1>2. UNCHANGED <<submitted, shuttingDown>>
    BY DEF WorkerFinish
<1>3. \E v \in {Service!Done("ok"), Service!Done("cancelled"), Service!Gone} : RunPhase(r)' = v
    <2>1. CASE jobs[r].abandoned
        <3>1. r \notin Live'
            BY <2>1, FinishMoves
        <3>2. QED
            BY <3>1 DEF RunPhase, Service!Gone
    <2>2. CASE ~jobs[r].abandoned
        <3>1. jobs' = [jobs EXCEPT ![r].state = "completed"] /\ jobs \in [Live -> Job]
            BY <2>2 DEF WorkerFinish, TypeOK, Live
        <3>2. r \in Live' /\ jobs'[r].state = "completed" /\ jobs'[r].result = jobs[r].result
            BY <1>1, <3>1 DEF Job, Live
        <3>3. RunPhase(r)' = Service!Done(jobs[r].result)
            BY <3>2 DEF RunPhase, Service!Done
        <3>4. jobs[r].result = "ok" \/ jobs[r].result = "cancelled"
            BY <1>1 DEF Results
        <3>5. QED
            BY <3>3, <3>4
    <2>3. QED
        BY <2>1, <2>2
<1>4. ASSUME NEW q \in 1..submitted, q # r PROVE RunPhase(q)' = RunPhase(q)
    <2>1. q \in Live <=> q \in Live'
        BY <1>4, FinishMoves, ThreeStates, <1>1
    <2>2. q \in Live => jobs'[q] = jobs[q]
        BY <1>4 DEF WorkerFinish, Live
    <2>3. QED
        BY <2>1, <2>2, SamePhase
<1>5. \E v \in {Service!Done("ok"), Service!Done("cancelled"), Service!Gone} :
        Phases' = [Phases EXCEPT ![r] = v]
    BY <1>1, <1>2, <1>3, <1>4 DEF Phases
<1>6. Service!Finish(r)
    BY <1>2, <1>5, PhaseSets DEF Service!Finish, Phases
<1>7. r \in DOMAIN Phases
    BY <1>1 DEF Phases
<1>8. QED
    BY <1>6, <1>7 DEF Service!ServiceNext, Phases

LEMMA AcceptedRefines ==
    ASSUME TypeOK, NEW s \in Sessions, NEW l \in Lanes, NEW a \in Actions, ~shuttingDown,
           submitted < MaxRuns, NEW E \in Expirable, Accepted(s, l, a, E)
    PROVE  Service!ServiceNext
<1> DEFINE P == SupersededBy(s, a)
           K == CancelledBy(s, a)
<1> SUFFICES ASSUME NEW n, n = submitted + 1 PROVE Service!ServiceNext
    OBVIOUS
<1>1. /\ P \subseteq Pend /\ E \subseteq Comp /\ n \notin Live /\ Live' = (Live \ E) \cup {n}
      /\ submitted \in Nat
    BY AcceptedMoves DEF TypeOK
<1>2. /\ jobs' = [q \in (Live \ E) \cup {n} |-> IF q = n THEN NewJob(s, l) ELSE Stopped(P, K)[q]]
      /\ submitted' = n /\ UNCHANGED shuttingDown
    BY DEF Accepted
<1>3. \A q \in P : q \in Live /\ jobs[q].session = s
    BY DEF SupersededBy, PendingOf, OfSession
<1>4. RunPhase(n)' = Service!Pending(s, l)
    <2>1. n \in Live' /\ jobs'[n] = NewJob(s, l)
        BY <1>1, <1>2
    <2>2. QED
        BY <2>1 DEF RunPhase, NewJob, Service!Pending
<1>5. P \cap E = {} /\ E \subseteq Live
    BY <1>1, ThreeStates
<1>6. ASSUME NEW q \in Live
      PROVE  /\ q \in P => Stopped(P, K)[q].state = "completed"
             /\ q \notin P => Stopped(P, K)[q].state = jobs[q].state
             /\ Stopped(P, K)[q].session = jobs[q].session
             /\ Stopped(P, K)[q].lane = jobs[q].lane
    BY <1>1, StoppedMoves
<1>7. ASSUME NEW q \in Live
      PROVE  /\ q \in P => Stopped(P, K)[q].result = "cancelled"
             /\ q \notin P => Stopped(P, K)[q].result = jobs[q].result
    BY <1>1, StoppedResults
<1> HIDE DEF P, K
<1>8. Becomes(P, E)
    <2>1. ASSUME NEW q \in 1..submitted, q \in P PROVE RunPhase(q)' = Service!Done("cancelled")
        <3>1. q \in Live' /\ q # n /\ q \in Live
            BY <1>1, <1>3, <1>5, <2>1
        <3>2. jobs'[q] = Stopped(P, K)[q]
            BY <1>1, <1>2, <3>1
        <3>3. QED
            BY <1>6, <1>7, <2>1, <3>1, <3>2 DEF RunPhase, Service!Done
    <2>2. ASSUME NEW q \in 1..submitted, q \in E PROVE RunPhase(q)' = Service!Gone
        <3>1. q \notin Live'
            BY <1>1, <2>2
        <3>2. QED
            BY <3>1 DEF RunPhase, Service!Gone
    <2>3. ASSUME NEW q \in 1..submitted, q \notin P, q \notin E PROVE RunPhase(q)' = RunPhase(q)
        <3>1. q \in Live <=> q \in Live'
            BY <1>1, <2>3
        <3>2. q \in Live => jobs'[q] = Stopped(P, K)[q]
            BY <1>1, <1>2, <2>3
        <3>3. q \in Live => /\ jobs'[q].state = jobs[q].state
                            /\ jobs'[q].session = jobs[q].session
                            /\ jobs'[q].lane = jobs[q].lane
                            /\ jobs'[q].result = jobs[q].result
            BY <1>6, <1>7, <2>3, <3>2
        <3>4. QED
            BY <3>1, <3>3, SamePhase
    <2>4. QED
        BY <1>5, <2>1, <2>2, <2>3 DEF Becomes
<1>9. \A q \in 1..submitted : RunPhase(q)' = Service!After(P, E)[q]
    BY <1>8 DEF Becomes, Service!After
<1>10. Phases' = [q \in 1..(submitted + 1) |-> IF q = submitted + 1 THEN Service!Pending(s, l)
                                               ELSE Service!After(P, E)[q]]
    BY <1>1, <1>2, <1>4, <1>9 DEF Phases
<1>11. P \in SUBSET {r \in Service!Phase("pending") : Phases[r].session = s}
    <2>1. ASSUME NEW q \in P PROVE q \in Pend /\ Phases[q].session = s
        <3>1. q \in Pend /\ q \in 1..submitted /\ jobs[q].session = s
            BY <1>1, <1>3, <2>1 DEF TypeOK, Live
        <3>2. QED
            BY <3>1, PhaseOfRun DEF Phases, Service!Pending
    <2>2. QED
        BY <2>1, PhaseSets
<1>12. E \in SUBSET Service!Phase("done")
    BY <1>1, PhaseSets
<1>13. Service!Accept(s, l)
    BY <1>2, <1>10, <1>11, <1>12 DEF Service!Accept, Phases
<1>14. QED
    BY <1>13 DEF Service!ServiceNext

(* The runs a walk passes and drops *)
Passed(start) == Dropped({r \in InState("pending") : start = NoRun \/ r <= start})

LEMMA WalkBecomes ==
    ASSUME TypeOK, NEW f \in Runnable \cup {NoRun}, Walk(f)
    PROVE  /\ Passed(f) \subseteq Pend /\ f \notin Passed(f) /\ Live' = Live
           /\ \A q \in 1..submitted : q # f =>
                RunPhase(q)' = IF q \in Passed(f) THEN Service!Done("cancelled") ELSE RunPhase(q)
<1> DEFINE D == Passed(f)
<1>1. D \subseteq Pend /\ f \notin D
    BY DEF Passed, Dropped, Runnable, Pend, InState, TypeOK, Live, NoRun
<1>2. jobs' = [q \in Live |-> IF q = f THEN [jobs[q] EXCEPT !.state = "running"]
                              ELSE Stopped(D, {})[q]]
    BY DEF Walk, Passed
<1>3. Live' = Live
    BY <1>2 DEF Live
<1>4. ASSUME NEW q \in Live
      PROVE  /\ q \in D => Stopped(D, {})[q].state = "completed"
             /\ q \notin D => Stopped(D, {})[q].state = jobs[q].state
             /\ Stopped(D, {})[q].session = jobs[q].session
             /\ Stopped(D, {})[q].lane = jobs[q].lane
    BY <1>1, StoppedMoves
<1>5. ASSUME NEW q \in Live
      PROVE  /\ q \in D => Stopped(D, {})[q].result = "cancelled"
             /\ q \notin D => Stopped(D, {})[q].result = jobs[q].result
    BY <1>1, StoppedResults
<1>6. D \subseteq Live
    BY <1>1 DEF Pend, InState
<1> HIDE DEF D
<1>7. ASSUME NEW q \in 1..submitted, q # f, q \in D PROVE RunPhase(q)' = Service!Done("cancelled")
    <2>1. q \in Live /\ q \in Live' /\ jobs'[q] = Stopped(D, {})[q]
        BY <1>2, <1>3, <1>6, <1>7
    <2>2. QED
        BY <1>4, <1>5, <1>7, <2>1 DEF RunPhase, Service!Done
<1>8. ASSUME NEW q \in 1..submitted, q # f, q \notin D PROVE RunPhase(q)' = RunPhase(q)
    <2>1. q \in Live => jobs'[q] = Stopped(D, {})[q]
        BY <1>2, <1>8
    <2>2. q \in Live => /\ jobs'[q].state = jobs[q].state
                        /\ jobs'[q].session = jobs[q].session
                        /\ jobs'[q].lane = jobs[q].lane
                        /\ jobs'[q].result = jobs[q].result
        BY <1>4, <1>5, <1>8, <2>1
    <2>3. QED
        BY <1>3, <2>2, SamePhase
<1>9. QED
    BY <1>1, <1>3, <1>7, <1>8 DEF D

LEMMA WaitRefines ==
    ASSUME TypeOK, NEW w \in Workers, WorkerWait(w)
    PROVE  Service!ServiceNext
<1>1. Walk(NoRun) /\ UNCHANGED <<submitted, shuttingDown>>
    BY DEF WorkerWait
<1>2. Becomes(Passed(NoRun), {}) /\ Passed(NoRun) \subseteq Pend
    BY <1>1, WalkBecomes DEF Becomes, NoRun
<1>3. QED
    BY <1>1, <1>2, CancelStep

(* The limits the service states are those the counters enforce, and the   *)
(* run that starts is the first its session could start in its lane.       *)
LEMMA ClaimRefines ==
    ASSUME TypeOK, Limited, NEW w \in Workers, WorkerClaim(w)
    PROVE  Service!ServiceNext
<1>1. /\ \E f \in First(Runnable) : Walk(f)
      /\ ~shuttingDown /\ UNCHANGED <<submitted, shuttingDown>>
    BY DEF WorkerClaim
<1>2. PICK f \in First(Runnable) : Walk(f)
    BY <1>1
<1> DEFINE D == Passed(f)
           s == jobs[f].session
           l == jobs[f].lane
<1>3. /\ f \in Runnable /\ f \in Pend /\ f \in Live /\ f \in 1..submitted
      /\ s \in Sessions /\ l \in Lanes
    BY <1>2 DEF First, Runnable, Pend, InState, TypeOK, Live, Job
<1>4. /\ D \subseteq Pend /\ f \notin D /\ Live' = Live
      /\ \A q \in 1..submitted : q # f =>
            RunPhase(q)' = IF q \in D THEN Service!Done("cancelled") ELSE RunPhase(q)
    BY <1>2, <1>3, WalkBecomes
<1>5. jobs'[f] = [jobs[f] EXCEPT !.state = "running"]
    BY <1>2, <1>3 DEF Walk
<1>6. RunPhase(f)' = Service!Running(s, l)
    <2>1. f \in Live' /\ jobs[f] \in Job
        BY <1>3, <1>4 DEF TypeOK, Live
    <2>2. jobs'[f].state = "running" /\ jobs'[f].session = s /\ jobs'[f].lane = l
        BY <1>5, <2>1 DEF Job
    <2>3. QED
        BY <2>1, <2>2 DEF RunPhase, Service!Running
<1>7. Phases[f] = Service!Pending(s, l)
    BY <1>3, PhaseOfRun DEF Phases
<1>8. Phases[f].session = s /\ Phases[f].lane = l
    BY <1>7 DEF Service!Pending
<1>9. ASSUME NEW q \in Run
      PROVE  Phases[q].session = jobs[q].session /\ Phases[q].lane = jobs[q].lane
    <2>1. q \in 1..submitted
        BY <1>9 DEF Run, InState, Live, TypeOK
    <2>2. QED
        BY <1>9, <2>1, PhaseOfRun DEF Phases, Service!Running
<1>10. ASSUME NEW q \in Pend
       PROVE  Phases[q].session = jobs[q].session /\ Phases[q].lane = jobs[q].lane
    <2>1. q \in 1..submitted
        BY <1>10 DEF Pend, InState, Live, TypeOK
    <2>2. QED
        BY <1>10, <2>1, PhaseOfRun DEF Phases, Service!Pending
<1>11. Service!OnLane(l) = LaneRun(l) /\ Service!OfOne(s) = SessionRun(s)
    <2>1. /\ Service!OnLane(l) = {q \in Run : Phases[q].lane = l}
          /\ Service!OfOne(s) = {q \in Run : Phases[q].session = s}
        BY PhaseSets DEF Service!OnLane, Service!OfOne, Phases
    <2>2. QED
        BY <1>9, <2>1 DEF LaneRun, SessionRun
<1>12. laneInFlight[l] < LaneLimit[l] /\ sessionInFlight[s] < SessionLimit
    BY <1>3 DEF Runnable
<1>13. /\ Service!Cardinality(Service!OnLane(l)) = laneInFlight[l]
       /\ Service!Cardinality(Service!OfOne(s)) = sessionInFlight[s]
    BY <1>3, <1>11, SameCardinality DEF Limited
<1>14. ASSUME NEW q \in Pend, q < f, jobs[q].session = s, jobs[q].lane = l PROVE FALSE
    <2>1. q \in Runnable
        BY <1>3, <1>14 DEF Runnable, Pend, InState
    <2>2. f <= q
        BY <1>2, <2>1 DEF First
    <2>3. QED
        BY <1>3, <1>14, <2>2 DEF Pend, InState, Live, TypeOK
<1>15. Phases' = [Service!After(D, {}) EXCEPT ![f] = Service!Running(s, l)]
    <2>1. Service!After(D, {}) = [q \in 1..submitted |-> IF q \in D THEN Service!Done("cancelled")
                                                         ELSE RunPhase(q)]
        BY DEF Service!After
    <2>2. Phases' = [q \in 1..submitted |-> RunPhase(q)']
        BY <1>1 DEF Phases
    <2>3. QED
        BY <1>3, <1>4, <1>6, <2>1, <2>2
<1> HIDE DEF D, s, l
<1>16. Service!Start(f)
    <2>1. D \in SUBSET (Service!Phase("pending") \ {f}) /\ f \in Service!Phase("pending")
        BY <1>3, <1>4, PhaseSets
    <2>2. \A q \in Service!Phase("pending") \ D : q < f =>
            Phases[q].session # Phases[f].session \/ Phases[q].lane # Phases[f].lane
        BY <1>8, <1>10, <1>14, PhaseSets
    <2>3. /\ Service!Cardinality(Service!OnLane(Phases[f].lane)) < LaneLimit[Phases[f].lane]
          /\ Service!Cardinality(Service!OfOne(Phases[f].session)) < SessionLimit
        BY <1>8, <1>12, <1>13
    <2>4. Phases' = [Service!After(D, {}) EXCEPT
                        ![f] = Service!Running(Phases[f].session, Phases[f].lane)]
        BY <1>8, <1>15
    <2>5. QED
        BY <1>1, <2>1, <2>2, <2>3, <2>4 DEF Service!Start, Phases
<1>17. QED
    BY <1>3, <1>16 DEF Service!ServiceNext

LEMMA SubmitRefines ==
    ASSUME TypeOK, NEW s \in Sessions, NEW l \in Lanes, NEW a \in Actions, Submit(s, l, a)
    PROVE  Service!ServiceNext
<1>1. PICK E \in Expirable : Purge(E) \/ Accepted(s, l, a, E)
    BY SubmitCases
<1>2. ~shuttingDown /\ submitted < MaxRuns
    BY DEF Submit
<1>3. QED
    BY <1>1, <1>2, PurgeRefines, AcceptedRefines

LEMMA BeginRefines ==
    ASSUME TypeOK, BeginStopping
    PROVE  [Service!ServiceNext]_Service!serviceVars
<1>1. CASE shuttingDown
    BY <1>1, SameJobsStep DEF BeginStopping, queue
<1>2. CASE ~shuttingDown
    <2>1. Stop(Pend, InState("running")) /\ shuttingDown' = TRUE
        BY <1>2 DEF BeginStopping, Pend
    <2>2. QED
        BY <2>1, StopRefines, CloseStep
<1>3. QED
    BY <1>1, <1>2

-----------------------------------------------------------------------------
(* The refinement *)

LEMMA InitRefines == Init => Service!ServiceInit
<1> SUFFICES ASSUME Init PROVE Service!ServiceInit
    OBVIOUS
<1>1. submitted = 0 /\ shuttingDown = FALSE
    BY DEF Init
<1>2. 1..submitted = {}
    BY <1>1
<1>3. Phases = [r \in {} |-> Service!Gone]
    BY <1>2 DEF Phases
<1>4. QED
    BY <1>1, <1>3 DEF Service!ServiceInit, Phases

LEMMA StepRefines == IInv /\ [Next]_vars => [Service!ServiceNext]_Service!serviceVars
<1> SUFFICES ASSUME TypeOK, Ownership, Limited, [Next]_vars
             PROVE  [Service!ServiceNext]_Service!serviceVars
    BY DEF IInv
<1>1. CASE Client
    <2>1. ASSUME NEW s \in Sessions, NEW l \in Lanes, NEW a \in Actions, Submit(s, l, a)
          PROVE  Service!ServiceNext
        BY <2>1, SubmitRefines
    <2>2. ASSUME GetStatus PROVE Service!ServiceNext
        BY <2>2, PurgeRefines DEF GetStatus
    <2>3. ASSUME NEW s \in Sessions, InterruptSession(s) PROVE Service!ServiceNext
        <3>1. PendingOf(s) \subseteq Pend /\ Stop(PendingOf(s), RunningOf(s)) /\ UNCHANGED shuttingDown
            BY <2>3 DEF InterruptSession, PendingOf, Pend
        <3>2. QED
            BY <3>1, StopRefines, CancelStep
    <2>4. ASSUME NEW r \in 1..submitted, InterruptRun(r) PROVE Service!ServiceNext
        <3>1. /\ {r} \cap Pend \subseteq Pend /\ Stop({r} \cap Pend, {r} \cap InState("running"))
              /\ UNCHANGED shuttingDown
            BY <2>4 DEF InterruptRun, Pend
        <3>2. QED
            BY <3>1, StopRefines, CancelStep
    <2>5. ASSUME NEW r \in 1..submitted, AbandonUnstarted(r) PROVE Service!ServiceNext
        BY <2>5, AbandonRefines
    <2>6. ASSUME NEW r \in 1..submitted, AbandonRunning(r) PROVE UNCHANGED Service!serviceVars
        BY <2>6, AbandonRunningRefines
    <2>7. ASSUME NEW c \in Callers, NEW t \in BOOLEAN, Shutdown(c, t) \/ Destroy(c)
          PROVE  [Service!ServiceNext]_Service!serviceVars
        BY <2>7, BeginRefines DEF Shutdown, Destroy
    <2>8. ASSUME NEW c \in Callers, NEW t \in BOOLEAN, NEW r \in 1..submitted, Collect(c, r, t)
          PROVE  UNCHANGED Service!serviceVars
        BY <2>8, SameJobsStep DEF Collect, queue
    <2>9. QED
        BY <1>1, <2>1, <2>2, <2>3, <2>4, <2>5, <2>6, <2>7, <2>8 DEF Client
<1>2. ASSUME NEW w \in Workers, Worker(w) PROVE [Service!ServiceNext]_Service!serviceVars
    <2>1. CASE WorkerClaim(w)
        BY <2>1, ClaimRefines
    <2>2. CASE WorkerWait(w)
        BY <2>2, WaitRefines
    <2>3. CASE WorkerExit(w)
        BY <2>3, SameJobsStep DEF WorkerExit, queue
    <2>4. CASE WorkerCheck(w) \/ TaskReturns(w) \/ WorkerFinish(w)
        <3>1. held[w] \in Run
            BY <2>4, OwnershipMeaning DEF WorkerCheck, TaskReturns, WorkerFinish, AtWork
        <3>2. QED
            BY <2>4, <3>1, WorkRefines, FinishRefines
    <2>5. QED
        BY <1>2, <2>1, <2>2, <2>3, <2>4 DEF Worker
<1>3. ASSUME NEW c \in Callers, Caller(c) \/ Timeout(c)
      PROVE  [Service!ServiceNext]_Service!serviceVars
    <2>1. CASE CollectTake(c)
        BY <2>1, TakeRefines
    <2>2. CASE ~CollectTake(c)
        BY <1>3, <2>2, SameJobsStep
        DEF Caller, Timeout, CollectWait, CollectMissing, ShutdownWait, ShutdownReturn,
            DestroyReturn, CollectTimeout, ShutdownTimeout, Sleep, queue
    <2>3. QED
        BY <2>1, <2>2
<1>4. CASE (\E t \in Workers \cup Callers : Wake(t)) \/ UNCHANGED vars
    BY <1>4, SameJobsStep DEF Wake, vars, queue
<1>5. QED
    BY <1>1, <1>2, <1>3, <1>4 DEF Next

(* Seen from outside, the workers, the wake-ups, the session table and the *)
(* gauges disappear: each run is accepted, starts at most once and within  *)
(* the limits and the order of its session and lane, has one outcome, and  *)
(* is gone once that outcome was taken or discarded.                       *)
THEOREM QueueImplementsService == Spec => ImplementsService
BY InitRefines, StepRefines, Invariant, PTL DEF Spec, ImplementsService, Service!ServiceSpec
=============================================================================
