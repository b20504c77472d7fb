------------------------------ MODULE RunQueue ------------------------------
(***************************************************************************)
(* The run queue (core/src/app/cc_run_queue.c): callers submit runs, a     *)
(* fixed pool of workers executes them under per-lane and per-session      *)
(* concurrency limits, callers collect, interrupt or abandon them, and the *)
(* queue is shut down and destroyed.                                       *)
(*                                                                         *)
(* One mutex and one condition variable guard everything, so each critical *)
(* section is one action; what a thread does between two critical sections *)
(* (reading the cancel token, running the task) is an action of its own.   *)
(* Waiting on the condition variable is membership in "asleep".            *)
(*                                                                         *)
(* A run is named by its position in the order of submission (the code     *)
(* draws a random 64-bit id that is unique in the list); the linked list   *)
(* "jobs" is appended to in that order and only ever has elements removed, *)
(* so walking the list is walking DOMAIN jobs by increasing number.        *)
(*                                                                         *)
(* An operator named ...Mutant is the definition below it with a plausible *)
(* bug in it; nothing uses it, it shows which property would catch the bug.*)
(*                                                                         *)
(* Left out: memory exhaustion, lifetime statistics nobody decides on      *)
(* (high-water marks, abandoned_total, the unread session generation).     *)
(***************************************************************************)
EXTENDS Integers, FiniteSets

CONSTANTS
    MaxRuns,       \* bound: number of runs accepted in a behaviour
    Sessions,      \* session keys
    Lanes,         \* lanes of the configuration
    Workers,       \* worker threads
    Callers,       \* threads blocked in collect, shutdown or destroy
    LaneLimit,     \* normalized concurrency of each lane
    SessionLimit,  \* normalized per_session_concurrency
    MaxPending,    \* max_pending_per_session, 0 = unlimited
    MaxTotal,      \* max_total_tasks, 0 = unlimited
    MaxSessions,   \* CC_RUN_QUEUE_MAX_ACTIVE_SESSIONS
    Expiry         \* completed_ttl_ms # 0

ASSUME ConfigAssumption ==
    /\ MaxRuns \in Nat
    /\ LaneLimit \in [Lanes -> Nat \ {0}]
    /\ SessionLimit \in Nat \ {0}
    /\ MaxPending \in Nat
    /\ MaxTotal \in Nat
    /\ MaxSessions \in Nat \ {0}
    /\ Expiry \in BOOLEAN

ASSUME ThreadAssumption ==
    /\ IsFiniteSet(Sessions)
    /\ Workers \cap Callers = {}

NoRun == 0                       \* no run has the id 0
Runs == 1..MaxRuns
Actions == {"steer", "followup", "collect", "interrupt"}
JobStates == {"pending", "running", "completed"}
Results == {"ok", "cancelled"}   \* "ok" stands for every code but CANCELLED

VARIABLES
    submitted,       \* runs accepted so far
    jobs,            \* the job list: a record for each run still in it
    tracked,         \* sessions that own an entry of the session table
    sessionInFlight, \* in_flight of a session's entry
    laneInFlight,
    totalPending, totalInFlight, totalCompleted, totalJobs,
    completedTotal, cancelledTotal,
    shuttingDown,
    worker,          \* where each worker is in worker_main
    held,            \* the job each worker has claimed, or NoRun
    caller,          \* where each blocking caller is
    target,          \* the run a collector waits for
    timed,           \* whether the call has a finite timeout
    answer,          \* what the caller's last call returned
    asleep,          \* threads waiting on the condition variable
    closing,         \* the owner has called destroy: no call may follow
    destroyed

gauges == <<totalPending, totalInFlight, totalCompleted, totalJobs>>
totals == <<completedTotal, cancelledTotal>>
limits == <<tracked, sessionInFlight, laneInFlight>>
threads == <<worker, held>>
calls == <<caller, target, timed, answer>>
queue == <<submitted, jobs, limits, gauges, totals, shuttingDown>>
vars == <<queue, threads, calls, asleep, closing, destroyed>>

Job == [session : Sessions, lane : Lanes, state : JobStates,
        cancelled : BOOLEAN, abandoned : BOOLEAN, result : Results]
Answers == Results \cup {"none", "not_found", "timeout", "done"}

TypeOK ==
    /\ submitted \in 0..MaxRuns
    /\ DOMAIN jobs \subseteq 1..submitted
    /\ jobs \in [DOMAIN jobs -> Job]
    /\ tracked \subseteq Sessions
    /\ sessionInFlight \in [Sessions -> Nat]
    /\ \A s \in Sessions \ tracked : sessionInFlight[s] = 0
    /\ laneInFlight \in [Lanes -> Nat]
    /\ totalPending \in Nat /\ totalInFlight \in Nat
    /\ totalCompleted \in Nat /\ totalJobs \in Nat
    /\ completedTotal \in Nat /\ cancelledTotal \in Nat
    /\ shuttingDown \in BOOLEAN
    /\ worker \in [Workers -> {"loop", "claimed", "executing", "finishing", "exited"}]
    /\ held \in [Workers -> 0..MaxRuns]
    /\ caller \in [Callers -> {"idle", "collecting", "stopping", "destroying", "joining"}]
    /\ target \in [Callers -> 0..MaxRuns]
    /\ timed \in [Callers -> BOOLEAN]
    /\ answer \in [Callers -> Answers]
    /\ asleep \subseteq Workers \cup Callers
    /\ closing \in BOOLEAN /\ destroyed \in BOOLEAN

Init ==
    /\ submitted = 0
    /\ jobs = [r \in {} |-> 0]
    /\ tracked = {}
    /\ sessionInFlight = [s \in Sessions |-> 0]
    /\ laneInFlight = [l \in Lanes |-> 0]
    /\ totalPending = 0 /\ totalInFlight = 0
    /\ totalCompleted = 0 /\ totalJobs = 0
    /\ completedTotal = 0 /\ cancelledTotal = 0
    /\ shuttingDown = FALSE
    /\ worker = [w \in Workers |-> "loop"]
    /\ held = [w \in Workers |-> NoRun]
    /\ caller = [c \in Callers |-> "idle"]
    /\ target = [c \in Callers |-> NoRun]
    /\ timed = [c \in Callers |-> FALSE]
    /\ answer = [c \in Callers |-> "none"]
    /\ asleep = {}
    /\ closing = FALSE /\ destroyed = FALSE
-----------------------------------------------------------------------------
(* Reading the job list *)

Live == DOMAIN jobs
InState(st) == {r \in Live : jobs[r].state = st}
OfSession(s) == {r \in Live : jobs[r].session = s}
PendingOf(s) == InState("pending") \cap OfSession(s)
RunningOf(s) == InState("running") \cap OfSession(s)
Completed(r) == r \in Live /\ jobs[r].state = "completed"

(* "if (n > 0) n--", once for each element of S *)
Less(n, S) == IF n >= Cardinality(S) THEN n - Cardinality(S) ELSE 0

(* cond_broadcast: every waiter is to take the lock again *)
BroadcastMutant == UNCHANGED asleep
SignalMutant ==
    IF asleep = {} THEN UNCHANGED asleep ELSE \E t \in asleep : asleep' = asleep \ {t}
Broadcast == asleep' = {}

(* The runs P, all pending, complete as cancelled without being executed,  *)
(* and the tokens of the running ones in K are cancelled.                  *)
Stopped(P, K) ==
    [r \in Live |->
        IF r \in P THEN [jobs[r] EXCEPT !.state = "completed",
                                        !.result = "cancelled",
                                        !.cancelled = TRUE]
        ELSE IF r \in K THEN [jobs[r] EXCEPT !.cancelled = TRUE]
        ELSE jobs[r]]

CountCancelled(P) ==
    /\ completedTotal' = completedTotal + Cardinality(P)
    /\ cancelledTotal' = cancelledTotal + Cardinality(P)

(* Completed runs that have outlived completed_ttl_ms are purged; which of *)
(* the completed ones have is a choice, as time is not modelled.           *)
Expirable == IF Expiry THEN SUBSET InState("completed") ELSE {{}}
-----------------------------------------------------------------------------
(* Scheduling: the walk over the list made by find_runnable_job_locked.    *)
(* A session met for the first time takes a free entry of the table, in    *)
(* list order, whether or not its run can start; a run whose session gets  *)
(* no entry is completed as cancelled.                                     *)

(* Sessions without an entry that the walk meets before it meets s *)
Ahead(s) == {t \in Sessions \ tracked :
                \E q \in PendingOf(t) : \A r \in PendingOf(s) : q < r}
CanTrack(s) ==
    s \in tracked \/ Cardinality(tracked) + Cardinality(Ahead(s)) < MaxSessions

LaneLimitMutant == {r \in InState("pending") :
                /\ CanTrack(jobs[r].session)
                /\ sessionInFlight[jobs[r].session] < SessionLimit
                /\ laneInFlight[jobs[r].lane] <= LaneLimit[jobs[r].lane]}
Runnable == {r \in InState("pending") :
                /\ CanTrack(jobs[r].session)
                /\ sessionInFlight[jobs[r].session] < SessionLimit
                /\ laneInFlight[jobs[r].lane] < LaneLimit[jobs[r].lane]}

(* The walk stops at the first run that may start. *)
LastMutant(S) == {r \in S : \A q \in S : r >= q}
First(S) == {r \in S : \A q \in S : r <= q}

TrackedAfter(walk) ==
    tracked \cup {s \in Sessions : walk \cap PendingOf(s) # {} /\ CanTrack(s)}
Dropped(walk) == {r \in walk : ~CanTrack(jobs[r].session)}
-----------------------------------------------------------------------------
(* Calls that do not block *)

SupersededMutant(s, a) == IF a = "followup" THEN {} ELSE InState("pending")
SupersededBy(s, a) == IF a = "followup" THEN {} ELSE PendingOf(s)
CancelledBy(s, a) == IF a \in {"steer", "interrupt"} THEN RunningOf(s) ELSE {}

(* Backpressure, after E has been purged *)
Refused(s, a, E) ==
    \/ MaxTotal > 0 /\ Less(totalJobs, E) >= MaxTotal
    \/ /\ a \notin {"steer", "collect"}
       /\ MaxPending > 0
       /\ Cardinality(PendingOf(s)) >= MaxPending

NewJob(s, l) == [session |-> s, lane |-> l, state |-> "pending",
                 cancelled |-> FALSE, abandoned |-> FALSE, result |-> "ok"]

(* cc_run_queue_get_status, and a submission that is refused: expired      *)
(* completed runs are purged and nothing else changes.                     *)
Purge(E) ==
    /\ jobs' = [r \in Live \ E |-> jobs[r]]
    /\ totalJobs' = Less(totalJobs, E)
    /\ totalCompleted' = Less(totalCompleted, E)
    /\ UNCHANGED <<submitted, limits, totalPending, totalInFlight, totals,
                   shuttingDown, threads, calls, asleep, closing, destroyed>>

GetStatus ==
    /\ ~closing
    /\ \E E \in Expirable : Purge(E)

(* A submission to a queue that is shutting down is refused before the     *)
(* purge and changes nothing.                                              *)
Submit(s, l, a) ==
    /\ ~closing /\ ~shuttingDown /\ submitted < MaxRuns
    /\ \E E \in Expirable :
        \/ Refused(s, a, E) /\ Purge(E)
        \/ /\ ~Refused(s, a, E)
           /\ LET r == submitted + 1
                  P == SupersededBy(s, a)
                  K == CancelledBy(s, a)
              IN  /\ submitted' = r
                  /\ jobs' = [q \in (Live \ E) \cup {r} |->
                                IF q = r THEN NewJob(s, l) ELSE Stopped(P, K)[q]]
                  /\ totalPending' = Less(totalPending, P) + 1
                  /\ totalCompleted' = Less(totalCompleted, E) + Cardinality(P)
                  /\ totalJobs' = Less(totalJobs, E) + 1
                  /\ CountCancelled(P)
           /\ Broadcast
           /\ UNCHANGED <<limits, totalInFlight, shuttingDown, threads, calls,
                          closing, destroyed>>

(* The pending runs P complete as cancelled, the running ones K get their  *)
(* token cancelled, every waiter is woken.                                 *)
Stop(P, K) ==
    /\ jobs' = Stopped(P, K)
    /\ totalPending' = Less(totalPending, P)
    /\ totalCompleted' = totalCompleted + Cardinality(P)
    /\ CountCancelled(P)
    /\ Broadcast
    /\ UNCHANGED <<submitted, limits, totalInFlight, totalJobs, threads, destroyed>>

InterruptSession(s) ==
    /\ ~closing
    /\ Stop(PendingOf(s), RunningOf(s))
    /\ UNCHANGED <<shuttingDown, calls, closing>>

InterruptRunMutant(r) ==
    /\ ~closing /\ r \in Live
    /\ Stop({r} \ InState("running"), {r} \cap InState("running"))
    /\ UNCHANGED <<shuttingDown, calls, closing>>
InterruptRun(r) ==
    /\ ~closing /\ r \in Live
    /\ Stop({r} \cap InState("pending"), {r} \cap InState("running"))
    /\ UNCHANGED <<shuttingDown, calls, closing>>

(* A run still pending or already completed leaves the list at once; a     *)
(* running one is marked, for its worker to discard.                       *)
AbandonUnstarted(r) ==
    /\ ~closing /\ r \in Live /\ jobs[r].state # "running"
    /\ LET P == {r} \cap InState("pending")
       IN  /\ totalPending' = Less(totalPending, P)
           /\ totalCompleted' = Less(totalCompleted + Cardinality(P), {r})
           /\ CountCancelled(P)
    /\ jobs' = [q \in Live \ {r} |-> jobs[q]]
    /\ totalJobs' = Less(totalJobs, {r})
    /\ Broadcast
    /\ UNCHANGED <<submitted, limits, totalInFlight, shuttingDown, threads,
                   calls, closing, destroyed>>

AbandonRunning(r) ==
    /\ ~closing /\ r \in Live /\ jobs[r].state = "running"
    /\ jobs' = [jobs EXCEPT ![r] = [@ EXCEPT !.abandoned = TRUE, !.cancelled = TRUE]]
    /\ Broadcast
    /\ UNCHANGED <<submitted, limits, gauges, totals, shuttingDown, threads,
                   calls, closing, destroyed>>
-----------------------------------------------------------------------------
(* worker_main *)

Awake(t) == t \notin asleep

(* What the walk does to the table and to the runs it passes, when it ends *)
(* at run "start", or finds nothing to start if that is NoRun.             *)
Walk(start) ==
    LET walk == {r \in InState("pending") : start = NoRun \/ r <= start}
        D == Dropped(walk)
        S == {start} \ {NoRun}
    IN  /\ tracked' = TrackedAfter(walk)
        /\ jobs' = [r \in Live |-> IF r = start
                                   THEN [jobs[r] EXCEPT !.state = "running"]
                                   ELSE Stopped(D, {})[r]]
        /\ totalPending' = Less(Less(totalPending, D), S)
        /\ totalCompleted' = totalCompleted + Cardinality(D)
        /\ CountCancelled(D)

WorkerClaim(w) ==
    /\ worker[w] = "loop" /\ Awake(w) /\ ~shuttingDown
    /\ \E r \in First(Runnable) :
           /\ Walk(r)
           /\ sessionInFlight' = [sessionInFlight EXCEPT ![jobs[r].session] = @ + 1]
           /\ laneInFlight' = [laneInFlight EXCEPT ![jobs[r].lane] = @ + 1]
           /\ held' = [held EXCEPT ![w] = r]
    /\ totalInFlight' = totalInFlight + 1
    /\ worker' = [worker EXCEPT ![w] = "claimed"]
    /\ UNCHANGED <<submitted, totalJobs, shuttingDown, calls, asleep, closing,
                   destroyed>>

(* The walk may have completed runs as cancelled, and nobody is told. *)
WorkerWait(w) ==
    /\ worker[w] = "loop" /\ Awake(w) /\ ~shuttingDown
    /\ Runnable = {}
    /\ Walk(NoRun)
    /\ asleep' = asleep \cup {w}
    /\ UNCHANGED <<submitted, sessionInFlight, laneInFlight, totalInFlight,
                   totalJobs, shuttingDown, threads, calls, closing, destroyed>>

WorkerExit(w) ==
    /\ worker[w] = "loop" /\ Awake(w) /\ shuttingDown
    /\ worker' = [worker EXCEPT ![w] = "exited"]
    /\ UNCHANGED <<queue, held, calls, asleep, closing, destroyed>>

(* Without the lock: a run whose token is already cancelled is not executed *)
WorkerCheck(w) ==
    /\ worker[w] = "claimed"
    /\ IF jobs[held[w]].cancelled
       THEN /\ jobs' = [jobs EXCEPT ![held[w]].result = "cancelled"]
            /\ worker' = [worker EXCEPT ![w] = "finishing"]
       ELSE /\ worker' = [worker EXCEPT ![w] = "executing"]
            /\ UNCHANGED jobs
    /\ UNCHANGED <<submitted, limits, gauges, totals, shuttingDown, held,
                   calls, asleep, closing, destroyed>>

(* The task returns; whether it heeds its token is up to the task. *)
TaskReturns(w) ==
    /\ worker[w] = "executing"
    /\ \E res \in Results : jobs' = [jobs EXCEPT ![held[w]].result = res]
    /\ worker' = [worker EXCEPT ![w] = "finishing"]
    /\ UNCHANGED <<submitted, limits, gauges, totals, shuttingDown, held,
                   calls, asleep, closing, destroyed>>

DecrementMutant(n) == n
Decrement(n) == IF n > 0 THEN n - 1 ELSE 0

(* remove_idle_session_locked: table T loses the entry of s, left with n in *)
(* flight, if n = 0.                                                       *)
RemoveAlwaysMutant(T, s, n) == T \ {s}
RemoveIdle(T, s, n) == IF n = 0 THEN T \ {s} ELSE T

(* finish_running_job_locked and the rest of the critical section: the     *)
(* slots are given back, a session with nothing in flight loses its table  *)
(* entry, an abandoned run leaves the list.                                *)
WorkerFinish(w) ==
    /\ worker[w] = "finishing"
    /\ LET r == held[w]
           s == jobs[r].session
       IN  /\ laneInFlight' = [laneInFlight EXCEPT ![jobs[r].lane] = Decrement(@)]
           /\ IF s \in tracked
              THEN /\ sessionInFlight' = [sessionInFlight EXCEPT ![s] = Decrement(@)]
                   /\ tracked' = RemoveIdle(tracked, s, Decrement(sessionInFlight[s]))
              ELSE UNCHANGED <<sessionInFlight, tracked>>
           /\ totalInFlight' = Decrement(totalInFlight)
           /\ completedTotal' = completedTotal + 1
           /\ cancelledTotal' = cancelledTotal
                                + (IF jobs[r].result = "cancelled" THEN 1 ELSE 0)
           /\ IF jobs[r].abandoned
              THEN /\ jobs' = [q \in Live \ {r} |-> jobs[q]]
                   /\ totalJobs' = Decrement(totalJobs)
                   /\ UNCHANGED totalCompleted
              ELSE /\ jobs' = [jobs EXCEPT ![r].state = "completed"]
                   /\ totalCompleted' = totalCompleted + 1
                   /\ UNCHANGED totalJobs
    /\ Broadcast
    /\ held' = [held EXCEPT ![w] = NoRun]
    /\ worker' = [worker EXCEPT ![w] = "loop"]
    /\ UNCHANGED <<submitted, totalPending, shuttingDown, calls, closing, destroyed>>
-----------------------------------------------------------------------------
(* Calls that block: collect, shutdown and destroy *)

Return(c, a) ==
    /\ caller' = [caller EXCEPT ![c] = "idle"]
    /\ answer' = [answer EXCEPT ![c] = a]
    /\ UNCHANGED <<target, timed>>

Sleep(c) ==
    /\ asleep' = asleep \cup {c}
    /\ UNCHANGED <<queue, threads, calls, closing, destroyed>>

Call(c, what, r, t) ==
    /\ ~closing /\ caller[c] = "idle"
    /\ caller' = [caller EXCEPT ![c] = what]
    /\ target' = [target EXCEPT ![c] = r]
    /\ timed' = [timed EXCEPT ![c] = t]
    /\ answer' = [answer EXCEPT ![c] = "none"]

Collect(c, r, t) ==
    /\ r \in 1..submitted
    /\ Call(c, "collecting", r, t)
    /\ UNCHANGED <<queue, threads, asleep, closing, destroyed>>

Collecting(c) == caller[c] = "collecting" /\ Awake(c)
Unfinished(c) == target[c] \in Live /\ jobs[target[c]].state # "completed"

CollectWait(c) ==
    /\ Collecting(c) /\ Unfinished(c)
    /\ Sleep(c)

CollectTimeout(c) ==
    /\ Collecting(c) /\ Unfinished(c) /\ timed[c]
    /\ Return(c, "timeout")
    /\ UNCHANGED <<queue, threads, asleep, closing, destroyed>>

CollectMissing(c) ==
    /\ Collecting(c) /\ target[c] \notin Live
    /\ Return(c, "not_found")
    /\ UNCHANGED <<queue, threads, asleep, closing, destroyed>>

CollectTake(c) ==
    /\ Collecting(c) /\ Completed(target[c])
    /\ Return(c, jobs[target[c]].result)
    /\ jobs' = [q \in Live \ {target[c]} |-> jobs[q]]
    /\ totalJobs' = Decrement(totalJobs)
    /\ totalCompleted' = Decrement(totalCompleted)
    /\ UNCHANGED <<submitted, limits, totalPending, totalInFlight, totals,
                   shuttingDown, threads, asleep, closing, destroyed>>

(* The first shutdown, or the destroy that includes it, closes the queue:  *)
(* pending runs complete as cancelled, running ones are told to stop.      *)
BeginStopping ==
    IF shuttingDown
    THEN UNCHANGED <<queue, threads, asleep, destroyed>>
    ELSE /\ shuttingDown' = TRUE
         /\ Stop(InState("pending"), InState("running"))

Shutdown(c, t) ==
    /\ Call(c, "stopping", NoRun, t)
    /\ BeginStopping
    /\ UNCHANGED closing

(* Only an owner nobody else is using the queue of may destroy it. *)
Destroy(c) ==
    /\ \A d \in Callers : caller[d] = "idle"
    /\ Call(c, "destroying", NoRun, FALSE)
    /\ BeginStopping
    /\ closing' = TRUE

Stopping(c) == caller[c] \in {"stopping", "destroying"} /\ Awake(c)

ShutdownWait(c) ==
    /\ Stopping(c) /\ totalInFlight > 0
    /\ Sleep(c)

ShutdownTimeout(c) ==
    /\ Stopping(c) /\ totalInFlight > 0 /\ timed[c]
    /\ Return(c, "timeout")
    /\ UNCHANGED <<queue, threads, asleep, closing, destroyed>>

ShutdownReturnMutant(c) ==
    /\ Stopping(c)
    /\ Return(c, "done")
    /\ UNCHANGED <<queue, threads, asleep, closing, destroyed>>
ShutdownReturn(c) ==
    /\ Stopping(c) /\ totalInFlight = 0
    /\ IF caller[c] = "stopping"
       THEN Return(c, "done")
       ELSE /\ caller' = [caller EXCEPT ![c] = "joining"]
            /\ UNCHANGED <<target, timed, answer>>
    /\ UNCHANGED <<queue, threads, asleep, closing, destroyed>>

(* Every worker has been joined: the jobs left and the queue are freed.    *)
DestroyReturn(c) ==
    /\ caller[c] = "joining"
    /\ \A w \in Workers : worker[w] = "exited"
    /\ destroyed' = TRUE
    /\ Return(c, "done")
    /\ UNCHANGED <<queue, threads, asleep, closing>>

(* A waiter may wake without being told: a timed wait ends within 50 ms,   *)
(* and a condition variable may wake a thread spuriously.                  *)
Wake(t) ==
    /\ t \in asleep
    /\ asleep' = asleep \ {t}
    /\ UNCHANGED <<queue, threads, calls, closing, destroyed>>
-----------------------------------------------------------------------------
Worker(w) ==
    \/ WorkerClaim(w) \/ WorkerWait(w) \/ WorkerExit(w)
    \/ WorkerCheck(w) \/ TaskReturns(w) \/ WorkerFinish(w)

Caller(c) ==
    \/ CollectWait(c) \/ CollectMissing(c) \/ CollectTake(c)
    \/ ShutdownWait(c) \/ ShutdownReturn(c) \/ DestroyReturn(c)

Timeout(c) == CollectTimeout(c) \/ ShutdownTimeout(c)

Client ==
    \/ \E s \in Sessions, l \in Lanes, a \in Actions : Submit(s, l, a)
    \/ GetStatus
    \/ \E s \in Sessions : InterruptSession(s)
    \/ \E r \in 1..submitted :
        InterruptRun(r) \/ AbandonUnstarted(r) \/ AbandonRunning(r)
    \/ \E c \in Callers, t \in BOOLEAN :
        Shutdown(c, t) \/ \E r \in 1..submitted : Collect(c, r, t)
    \/ \E c \in Callers : Destroy(c)

Next ==
    \/ Client
    \/ \E w \in Workers : Worker(w)
    \/ \E c \in Callers : Caller(c) \/ Timeout(c)
    \/ \E t \in Workers \cup Callers : Wake(t)

Spec == Init /\ [][Next]_vars

(* Threads are scheduled and tasks return; a timed wait ends and, as time  *)
(* passes, a loop that keeps testing its deadline finds it exceeded.       *)
(* Clients owe nothing.                                                    *)
Fairness ==
    /\ \A w \in Workers : WF_vars(Worker(w))
    /\ \A c \in Callers : /\ WF_vars(Caller(c))
                          /\ SF_vars(Timeout(c))
                          /\ WF_vars(timed[c] /\ Wake(c))

LiveSpec == Spec /\ Fairness
-----------------------------------------------------------------------------
(* Properties *)

(* The four gauges that status reports and that backpressure and shutdown  *)
(* decide on agree with the list, through every path by which a run can    *)
(* change state or leave (cc_run_queue.c:73-76, every handler).            *)
GaugesMatchList ==
    /\ totalPending = Cardinality(InState("pending"))
    /\ totalInFlight = Cardinality(InState("running"))
    /\ totalCompleted = Cardinality(InState("completed"))
    /\ totalJobs = Cardinality(Live)

(* Every run accepted is pending, in flight or counted once as completed,  *)
(* whoever completed it.                                                   *)
TotalsAddUp == submitted = totalPending + totalInFlight + completedTotal

(* No lane and no session ever has more runs in flight than configured,    *)
(* counted on the runs and not on the counters the scheduler consults.     *)
ConcurrencyLimits ==
    /\ \A l \in Lanes :
        Cardinality({r \in InState("running") : jobs[r].lane = l}) <= LaneLimit[l]
    /\ \A s \in Sessions : Cardinality(RunningOf(s)) <= SessionLimit

(* A worker uses its job without the lock: the job stays in the list, in   *)
(* flight and its own, whoever collects, abandons or purges meanwhile.     *)
WorkerOwnsItsJob ==
    /\ \A w \in Workers :
        held[w] # NoRun => held[w] \in Live /\ jobs[held[w]].state = "running"
    /\ \A v, w \in Workers : held[v] = held[w] /\ held[v] # NoRun => v = w
    /\ \A r \in InState("running") : \E w \in Workers : held[w] = r

(* No worker sleeps while there is a run it could start: whatever made the *)
(* run startable woke it.                                                  *)
NoWorkerSleepsOnWork ==
    Runnable # {} /\ ~shuttingDown => Workers \cap asleep = {}

(* The pool is large enough for the lanes: a run the limits allow to start *)
(* never lacks a worker because other lanes keep them all busy             *)
(* (cc_run_queue.h:21-26).                                                 *)
LaneIsolation ==
    Runnable # {} /\ ~shuttingDown => \E w \in Workers : worker[w] = "loop"

(* Nobody sleeps without a timeout on a run that is done or gone: its      *)
(* completion, or its removal, woke the collector.  TLC refutes it:        *)
(* README, section 9.                                                      *)
NoLostCompletion ==
    \A c \in Callers :
        caller[c] = "collecting" /\ c \in asleep /\ ~timed[c] => Unfinished(c)

(* A shutdown that returned success left nothing in flight, nothing        *)
(* pending and nothing that can still start a task.                        *)
ShutdownIsQuiescent ==
    (\E c \in Callers : answer[c] = "done") =>
        /\ InState("pending") \cup InState("running") = {}
        /\ \A w \in Workers : worker[w] \in {"loop", "exited"}

(* When the queue is freed no thread can touch it any more. *)
DestroyedIsUnused ==
    destroyed => /\ \A w \in Workers : worker[w] = "exited"
                 /\ \A c \in Callers : caller[c] = "idle"
                 /\ asleep = {}

(* The result of a run is handed to at most one collector. *)
ResultTakenOnce ==
    \A c, d \in Callers :
        c # d /\ answer[c] \in Results /\ answer[d] \in Results
            => target[c] # target[d]

(* A run starts before the later runs of its session in the same lane.     *)
StartsInOrder ==
    [][\A r \in Live :
        /\ jobs[r].state = "pending" /\ r \in DOMAIN jobs' /\ jobs'[r].state = "running"
        => \A q \in Live : q < r /\ jobs[q].state = "pending"
                           /\ jobs[q].session = jobs[r].session
                           /\ jobs[q].lane = jobs[r].lane
               => jobs'[q].state # "pending"]_vars

(* The bound on the list is never exceeded. *)
TotalBound == MaxTotal > 0 => Cardinality(Live) <= MaxTotal

(* Every run accepted is eventually completed, executed or not. *)
EveryRunCompletes ==
    \A r \in Runs : (r <= submitted) ~> ~(r \in Live /\ jobs[r].state # "completed")

(* A blocked call returns: a collector once its run is done, shutdown and  *)
(* destroy once the tasks in flight have returned.                         *)
CallsReturn ==
    \A c \in Callers :
        /\ (caller[c] = "collecting") ~> (caller[c] = "idle")
        /\ (caller[c] \in {"stopping", "destroying", "joining"}) ~> (caller[c] = "idle")
-----------------------------------------------------------------------------
(* The queue as the service its header describes: a run in the list is in  *)
(* the phase its state says, a run no longer in the list is gone.          *)
RunPhase(r) ==
    IF r \notin Live THEN [phase |-> "gone"]
    ELSE IF jobs[r].state = "completed"
         THEN [phase |-> "done", outcome |-> jobs[r].result]
         ELSE [phase |-> jobs[r].state, session |-> jobs[r].session, lane |-> jobs[r].lane]

Service == INSTANCE RunService WITH
    accepted <- submitted,
    run <- [r \in 1..submitted |-> RunPhase(r)],
    open <- ~shuttingDown

(* Every step of the queue is a step of the service or invisible to it. *)
ImplementsService == Service!ServiceSpec
=============================================================================
