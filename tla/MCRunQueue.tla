----------------------------- MODULE MCRunQueue -----------------------------
(* Instances of RunQueue for TLC *)
EXTENDS RunQueue, FiniteSetsExt, TLC

CONSTANTS main, mcp, s1, s2, s3, w1, w2, w3, c1, c2,
          WorkerCap   \* the largest pool, 32 in the code

OneEach == [l \in Lanes |-> 1]
TwoMain == [l \in Lanes |-> IF l = main THEN 2 ELSE 1]

(* The pool has a worker for each unit of lane concurrency, up to the cap. *)
DesiredWorkers == Min({WorkerCap, MapThenSumSet(LAMBDA l : LaneLimit[l], Lanes)})

ASSUME PoolSize == Cardinality(Workers) = DesiredWorkers

(* Sessions, workers and callers are interchangeable; lanes are not. *)
Symmetry == Permutations(Sessions) \cup Permutations(Workers) \cup Permutations(Callers)
=============================================================================
