----------------------------- MODULE RunService -----------------------------
(***************************************************************************)
(* What the run queue promises its clients (core/include/cc/app/           *)
(* cc_run_queue.h), without workers, locks, counters or a session table:   *)
(* the life of each run.  A run is accepted, starts at most once and then  *)
(* within the concurrency limits and behind the earlier runs of its        *)
(* session and lane, gets one outcome, and is gone once that outcome has   *)
(* been handed over or thrown away.  A run that never started can only     *)
(* have the outcome "cancelled".                                           *)
(***************************************************************************)
EXTENDS Integers, FiniteSets

CONSTANTS MaxRuns, Sessions, Lanes, LaneLimit, SessionLimit

VARIABLES
    accepted,   \* number of runs accepted
    run,        \* the phase of each accepted run, and what matters in it
    open        \* whether runs are still accepted

serviceVars == <<accepted, run, open>>

Pending(s, l) == [phase |-> "pending", session |-> s, lane |-> l]
Running(s, l) == [phase |-> "running", session |-> s, lane |-> l]
Done(o) == [phase |-> "done", outcome |-> o]
Gone == [phase |-> "gone"]

Phase(p) == {r \in DOMAIN run : run[r].phase = p}
OnLane(l) == {r \in Phase("running") : run[r].lane = l}
OfOne(s) == {r \in Phase("running") : run[r].session = s}

ServiceInit ==
    /\ accepted = 0
    /\ run = [r \in {} |-> Gone]
    /\ open = TRUE

(* The runs after those in C were cancelled and those in G disposed of *)
After(C, G) == [r \in DOMAIN run |-> IF r \in C THEN Done("cancelled")
                                     ELSE IF r \in G THEN Gone ELSE run[r]]

(* A new run may supersede pending runs of its own session, and make room  *)
(* by disposing of outcomes nobody asked for.                              *)
Accept(s, l) ==
    /\ open /\ accepted < MaxRuns
    /\ \E C \in SUBSET {r \in Phase("pending") : run[r].session = s},
          G \in SUBSET Phase("done") :
        run' = [r \in 1..(accepted + 1) |->
                    IF r = accepted + 1 THEN Pending(s, l) ELSE After(C, G)[r]]
    /\ accepted' = accepted + 1
    /\ UNCHANGED open

Start(r) ==
    /\ open /\ r \in Phase("pending")
    /\ Cardinality(OnLane(run[r].lane)) < LaneLimit[run[r].lane]
    /\ Cardinality(OfOne(run[r].session)) < SessionLimit
    /\ \E C \in SUBSET (Phase("pending") \ {r}) :
        /\ \A q \in Phase("pending") \ C :
            q < r => run[q].session # run[r].session \/ run[q].lane # run[r].lane
        /\ run' = [After(C, {}) EXCEPT ![r] = Running(run[r].session, run[r].lane)]
    /\ UNCHANGED <<accepted, open>>

Finish(r) ==
    /\ r \in Phase("running")
    /\ \E v \in {Done("ok"), Done("cancelled"), Gone} : run' = [run EXCEPT ![r] = v]
    /\ UNCHANGED <<accepted, open>>

Cancel(C) ==
    /\ C \subseteq Phase("pending")
    /\ run' = After(C, {})
    /\ UNCHANGED <<accepted, open>>

Dispose(G) ==
    /\ G \subseteq Phase("done") \/ (Cardinality(G) = 1 /\ G \subseteq Phase("pending"))
    /\ run' = After({}, G)
    /\ UNCHANGED <<accepted, open>>

Close ==
    /\ open' = FALSE
    /\ run' = After(Phase("pending"), {})
    /\ UNCHANGED accepted

ServiceNext ==
    \/ \E s \in Sessions, l \in Lanes : Accept(s, l)
    \/ \E r \in DOMAIN run : Start(r) \/ Finish(r)
    \/ \E S \in SUBSET DOMAIN run : Cancel(S) \/ Dispose(S)
    \/ Close

ServiceSpec == ServiceInit /\ [][ServiceNext]_serviceVars
=============================================================================
