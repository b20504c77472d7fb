---------------------------- MODULE HostingProofs ----------------------------
(* Who may use a generation of the runtime: the counts of references, the  *)
(* tasks that hold them and the destruction that waits for them, for any   *)
(* number of threads, generations, agents and runs.                        *)
EXTENDS Hosting, FiniteSetTheorems, TLAPS

-----------------------------------------------------------------------------
(* The inductive invariant *)

(* Where a thread is once it has reclaimed what it gave up last *)
Bound(t) == IF At(t, "reclaiming") THEN thread[t].then ELSE thread[t]
BoundFor(t, places) == Bound(t).at \in places

AfterRelease == {"idle", "reload_failed", "logging", "task_over", "freeing_manager"}

(* Where a thread is never without a reference *)
HolderPlaces == {"claiming", "creating", "running", "finishing", "giving_back",
                 "building", "rolling_back", "reporting"}

CallTyped(c) ==
    /\ HeldIn(c) \in Generations \cup {NoGeneration}
    /\ c.at \in HolderPlaces => HeldIn(c) # NoGeneration
    /\ c.at = "reclaiming" => c.generation \in Generations /\ c.then.at \in AfterRelease
    /\ c.at = "leasing" => c.lease = NoGeneration /\ c.purpose \in {"submit", "reset"}

ThreadsTyped ==
    /\ thread = [t \in Threads |-> thread[t]]
    /\ \A t \in Threads : CallTyped(thread[t])

GenerationsTyped ==
    /\ refs \in [Generations -> Nat]
    /\ phase \in [Generations -> {"absent", "live", "reclaiming", "freed"}]
    /\ current \in Generations \cup {NoGeneration}
    /\ retired \subseteq Generations
    /\ reclaims \in Nat

TasksTyped ==
    /\ accepted \in Nat /\ DOMAIN run = 1..accepted
    /\ \A r \in 1..accepted : run[r].phase \in {"pending", "running", "done", "gone"}
    /\ task = [r \in DOMAIN task |-> task[r]]
    /\ DOMAIN task \subseteq 1..accepted
    /\ \A r \in DOMAIN task : task[r].lease \in Generations \cup {NoGeneration}

(* References are counted exactly, and none is to a generation that was    *)
(* given up.                                                               *)
Counted ==
    /\ \A g \in Generations : refs[g] = Cardinality(Holders(g)) + Cardinality(Leases(g))
    /\ \A g \in Generations : refs[g] > 0 => g \in retired \cup {current}

Living ==
    /\ \A g \in Generations : phase[g] = "live" <=> g \in retired \cup {current}
    /\ current \notin retired
    /\ "default_agent" \in parts => current # NoGeneration

(* Generations come one after the other. *)
InTurn == \E n \in 0..MaxGenerations : \A g \in Generations : phase[g] = "absent" <=> g > n

(* One thread reloads at a time, and there is a generation for it to make. *)
ReloadPlaces == {"building", "rolling_back", "reload_failed"}

Reloading ==
    /\ \A t, u \in Threads : BoundFor(t, ReloadPlaces) /\ BoundFor(u, ReloadPlaces) => t = u
    /\ reloading <=> \E t \in Threads : BoundFor(t, ReloadPlaces)
    /\ \A t \in Threads : At(t, "building") => \E g \in Generations : phase[g] = "absent"

Reclaimers == {t \in Threads : At(t, "reclaiming")}

Reclaiming ==
    /\ reclaims = Cardinality(Reclaimers)
    /\ \A t \in Reclaimers : phase[thread[t].generation] = "reclaiming"
    /\ \A t, u \in Reclaimers : thread[t].generation = thread[u].generation => t = u
    /\ \A g \in Generations : phase[g] = "reclaiming" =>
          \E t \in Reclaimers : thread[t].generation = g

(* Once the queue has stopped the destruction goes on without it, and once *)
(* nothing is held nothing is taken again.                                 *)
AfterQueue == {"freeing_manager", "waiting", "stopping_events"}
DestroyPlaces == AfterQueue \cup {"stopping_queue"}

Ending ==
    /\ \A t \in Threads :
        /\ BoundFor(t, DestroyPlaces) => shuttingDown
        /\ BoundFor(t, AfterQueue) => "run_queue" \notin parts
        /\ At(t, "stopping_events") => Quiet
    /\ builder = "freed" => shuttingDown /\ current = NoGeneration /\ retired = {} /\ Quiet

(* A run that may still start, or has started, has its task; a started one *)
(* has a worker of its own.                                                *)
TaskPlaces == {"task", "task_over"}

Tasked ==
    /\ \A r \in 1..accepted : run[r].phase \in {"pending", "running"} => r \in DOMAIN task
    /\ \A w \in Threads : BoundFor(w, TaskPlaces) =>
          w \in Workers /\ Bound(w).run \in 1..accepted /\ run[Bound(w).run].phase = "running"
    /\ \A v, w \in Threads :
          BoundFor(v, TaskPlaces) /\ BoundFor(w, TaskPlaces) /\ Bound(v).run = Bound(w).run => v = w
    /\ \A r \in 1..accepted : run[r].phase = "running" =>
          \E w \in Threads : BoundFor(w, TaskPlaces) /\ Bound(w).run = r

(* A record's task is freed with the record, which whoever submitted the   *)
(* run may not yet have linked.                                            *)
Linked ==
    /\ pending \subseteq DOMAIN task
    /\ \A t \in Threads : At(t, "linking") => thread[t].run \in DOMAIN task \ pending
    /\ \A t, u \in Threads : At(t, "linking") /\ At(u, "linking") /\ thread[t].run = thread[u].run
          => t = u
    /\ \A t \in Threads : At(t, "collecting") => thread[t].run \in 1..accepted
    /\ \A t \in Threads : At(t, "taking") =>
          thread[t].run \in 1..accepted /\ run[thread[t].run].phase = "gone"

(* The queue is closed before it is stopped, and stopped without runs.     *)
Stopped ==
    /\ ~open => \A r \in 1..accepted : run[r].phase # "pending"
    /\ "run_queue" \notin parts =>
          \A r \in 1..accepted : run[r].phase \notin {"pending", "running"}
    /\ open /\ "run_queue" \notin parts => "default_agent" \notin parts
    /\ open /\ "default_agent" \notin parts =>
          \A t \in Threads : ~At(t, "leasing") /\ ~At(t, "submit")

IInv ==
    /\ ThreadsTyped /\ GenerationsTyped /\ TasksTyped
    /\ Counted /\ Living /\ InTurn /\ Reloading /\ Reclaiming /\ Ending
    /\ Tasked /\ Linked /\ Stopped

(* The controller's side: a thread keeps its run, and with it the run's     *)
(* cancel source, from submission until it gives its generation back.      *)
RunPlaces == {"claiming", "creating", "running", "finishing", "giving_back"}

Controlled ==
    /\ lastRun \in 0..MaxControllerRuns /\ active \in 0..lastRun
    /\ token = [r \in ControllerRuns |-> token[r]]
    /\ \A t \in Threads : thread[t].at \in RunPlaces =>
          thread[t].run \in 1..lastRun /\ token[thread[t].run] \in {"live", "cancelled"}
    /\ \A t, u \in Threads :
          thread[t].at \in RunPlaces /\ thread[u].at \in RunPlaces /\ thread[t].run = thread[u].run
          => t = u
    /\ \A t \in Running1 : thread[t].run = active
    /\ active # NoRun => \E t \in Running1 : thread[t].run = active
    /\ lifecycle \in {"stopped", "freed"} => active = NoRun
    /\ lifecycle = "draining" /\ active # NoRun => token[active] = "cancelled"

-----------------------------------------------------------------------------
(* Moves of one thread *)

LEMMA GoMoves ==
    ASSUME ThreadsTyped, NEW t \in Threads, NEW c, Go(t, c)
    PROVE  /\ thread' = [u \in Threads |-> thread'[u]]
           /\ thread'[t] = c
           /\ \A u \in Threads \ {t} : thread'[u] = thread[u]
BY DEF Go, ThreadsTyped

LEMMA MoveTyped ==
    ASSUME ThreadsTyped, NEW t \in Threads, NEW c, Go(t, c), CallTyped(c)
    PROVE  ThreadsTyped'
<1>1. /\ thread' = [u \in Threads |-> thread'[u]]
      /\ thread'[t] = c
      /\ \A u \in Threads \ {t} : thread'[u] = thread[u]
    BY GoMoves
<1>2. \A u \in Threads : CallTyped(thread'[u])
    BY <1>1 DEF ThreadsTyped
<1>3. QED
    BY <1>1, <1>2 DEF ThreadsTyped

LEMMA ZeroIsNoGeneration == NoGeneration \notin Generations
BY GenerationAssumption DEF NoGeneration, Generations

(* Whoever gives a generation up is bound for where it wanted to go. *)
LEMMA OnwardLeads ==
    ASSUME NEW g \in Generations, NEW c, c.at \in AfterRelease
    PROVE  /\ CallTyped(Onward(g, c)) /\ HeldIn(Onward(g, c)) = NoGeneration
           /\ LastOfRetired(g) => /\ Onward(g, c).at = "reclaiming"
                                  /\ Onward(g, c).generation = g /\ Onward(g, c).then = c
           /\ ~LastOfRetired(g) => Onward(g, c) = c
<1>1. CASE LastOfRetired(g)
    <2>1. Onward(g, c) = [at |-> "reclaiming", generation |-> g, then |-> c]
        BY <1>1 DEF Onward
    <2>2. QED
        BY <1>1, <2>1 DEF CallTyped, HolderPlaces, HeldIn
<1>2. CASE ~LastOfRetired(g)
    <2>1. Onward(g, c) = c
        BY <1>2 DEF Onward
    <2>2. HeldIn(c) = NoGeneration
        BY DEF HeldIn, AfterRelease
    <2>3. c.at # "reclaiming" /\ c.at # "leasing"
        BY DEF AfterRelease
    <2>4. QED
        BY <1>2, <2>1, <2>2, <2>3 DEF CallTyped, HolderPlaces, AfterRelease
<1>3. QED
    BY <1>1, <1>2

-----------------------------------------------------------------------------
(* Counting the users of a generation *)

Users(g) == Cardinality(Holders(g)) + Cardinality(Leases(g))

Same == \A g \in Generations : Users(g)' = Users(g)
More(h) == \A g \in Generations : Users(g)' = Users(g) + (IF g = h THEN 1 ELSE 0)
Fewer(h) == /\ Users(h) > 0
            /\ \A g \in Generations : Users(g)' = Users(g) - (IF g = h THEN 1 ELSE 0)

LEMMA UsersFinite ==
    ASSUME TasksTyped
    PROVE  \A g : /\ IsFiniteSet(Holders(g)) /\ IsFiniteSet(Leases(g))
                  /\ Cardinality(Holders(g)) \in Nat /\ Cardinality(Leases(g)) \in Nat
<1>1. \A g : IsFiniteSet(Holders(g))
    BY GenerationAssumption, FS_Subset DEF Holders
<1>2. IsFiniteSet(1..accepted)
    BY FS_Interval DEF TasksTyped
<1>3. \A g : Leases(g) \subseteq 1..accepted
    BY DEF Leases, TasksTyped
<1>4. \A g : IsFiniteSet(Leases(g))
    BY <1>2, <1>3, FS_Subset
<1>5. QED
    BY <1>1, <1>4, FS_CardinalityType

(* What one thread's move does to the holders *)
LEMMA HoldersMove ==
    ASSUME TasksTyped, NEW t \in Threads, \A u \in Threads \ {t} : thread'[u] = thread[u]
    PROVE  \A g : Cardinality(Holders(g)') =
              Cardinality(Holders(g)) + (IF Held(t)' = g THEN 1 ELSE 0)
                                      - (IF Held(t) = g THEN 1 ELSE 0)
<1> SUFFICES ASSUME NEW g
             PROVE  Cardinality(Holders(g)') =
                        Cardinality(Holders(g)) + (IF Held(t)' = g THEN 1 ELSE 0)
                                                - (IF Held(t) = g THEN 1 ELSE 0)
    OBVIOUS
<1>1. PICK R : R = Holders(g) \ {t}
    OBVIOUS
<1>2. Holders(g) = IF Held(t) = g THEN R \cup {t} ELSE R
    BY <1>1 DEF Holders
<1>3. Holders(g)' = IF Held(t)' = g THEN R \cup {t} ELSE R
    <2>1. \A u \in Threads \ {t} : Held(u)' = Held(u)
        BY DEF Held
    <2>2. QED
        BY <1>1, <2>1 DEF Holders
<1>4. IsFiniteSet(R) /\ Cardinality(R) \in Nat
    BY <1>1, UsersFinite, FS_Subset, FS_CardinalityType
<1>5. Cardinality(R \cup {t}) = Cardinality(R) + 1
    BY <1>1, <1>4, FS_AddElement
<1>6. QED
    BY <1>2, <1>3, <1>4, <1>5

(* What a change of one task's lease does to the leases *)
LEMMA LeasesMove ==
    ASSUME TasksTyped, NEW r, DOMAIN task' \cup {r} = DOMAIN task \cup {r},
           \A q \in DOMAIN task \ {r} : task'[q].lease = task[q].lease
    PROVE  \A g : Cardinality(Leases(g)') =
              Cardinality(Leases(g)) + (IF r \in DOMAIN task' /\ task'[r].lease = g THEN 1 ELSE 0)
                                     - (IF r \in DOMAIN task /\ task[r].lease = g THEN 1 ELSE 0)
<1> SUFFICES ASSUME NEW g
             PROVE  Cardinality(Leases(g)') =
                  Cardinality(Leases(g)) + (IF r \in DOMAIN task' /\ task'[r].lease = g THEN 1 ELSE 0)
                                         - (IF r \in DOMAIN task /\ task[r].lease = g THEN 1 ELSE 0)
    OBVIOUS
<1>1. PICK R : R = Leases(g) \ {r}
    OBVIOUS
<1>2. Leases(g) = IF r \in DOMAIN task /\ task[r].lease = g THEN R \cup {r} ELSE R
    BY <1>1 DEF Leases
<1>3. Leases(g)' = IF r \in DOMAIN task' /\ task'[r].lease = g THEN R \cup {r} ELSE R
    <2>1. \A q : q # r => (q \in DOMAIN task' <=> q \in DOMAIN task)
        OBVIOUS
    <2>2. \A q : q # r => (q \in Leases(g)' <=> q \in Leases(g))
        BY <2>1 DEF Leases
    <2>3. QED
        BY <1>1, <2>2 DEF Leases
<1>4. IsFiniteSet(R) /\ Cardinality(R) \in Nat
    BY <1>1, UsersFinite, FS_Subset, FS_CardinalityType
<1>5. Cardinality(R \cup {r}) = Cardinality(R) + 1
    BY <1>1, <1>4, FS_AddElement
<1>6. QED
    BY <1>2, <1>3, <1>4, <1>5

LEMMA UsersOf ==
    ASSUME TasksTyped, NEW t \in Threads, \A u \in Threads \ {t} : thread'[u] = thread[u],
           UNCHANGED task
    PROVE  /\ Held(t)' = Held(t) => Same
           /\ Held(t) = NoGeneration /\ Held(t)' \in Generations => More(Held(t)')
           /\ Held(t) \in Generations /\ Held(t)' = NoGeneration => Fewer(Held(t))
<1>1. \A g : Cardinality(Leases(g)') = Cardinality(Leases(g))
    BY DEF Leases
<1>2. \A g : Cardinality(Holders(g)) \in Nat /\ Cardinality(Leases(g)) \in Nat
    BY UsersFinite
<1>3. \A g \in Generations : g # NoGeneration
    BY ZeroIsNoGeneration
<1>4. \A g : Users(g)' = Users(g) + (IF Held(t)' = g THEN 1 ELSE 0) - (IF Held(t) = g THEN 1 ELSE 0)
    BY <1>1, <1>2, HoldersMove DEF Users
<1>5. Held(t) \in Generations => Users(Held(t)) > 0
    <2>1. t \in Holders(Held(t))
        BY DEF Holders
    <2>2. Cardinality(Holders(Held(t))) # 0
        BY <2>1, UsersFinite, FS_EmptySet
    <2>3. QED
        BY <1>2, <2>2 DEF Users
<1>6. \A g : Users(g) \in Nat
    BY <1>2 DEF Users
<1>7. QED
    BY <1>3, <1>4, <1>5, <1>6 DEF Same, More, Fewer

-----------------------------------------------------------------------------
(* The counts of the generations *)

CountsKept == ThreadsTyped' /\ GenerationsTyped' /\ Counted' /\ Living' /\ InTurn' /\ Reclaiming'

LEMMA ReclaimersMove ==
    ASSUME NEW t \in Threads, \A u \in Threads \ {t} : thread'[u] = thread[u]
    PROVE  /\ IsFiniteSet(Reclaimers)
           /\ ~At(t, "reclaiming") /\ ~At(t, "reclaiming")' => Reclaimers' = Reclaimers
           /\ ~At(t, "reclaiming") /\ At(t, "reclaiming")' =>
                Reclaimers' = Reclaimers \cup {t} /\ t \notin Reclaimers
           /\ At(t, "reclaiming") /\ ~At(t, "reclaiming")' =>
                Reclaimers' = Reclaimers \ {t} /\ t \in Reclaimers
<1>1. IsFiniteSet(Reclaimers)
    BY GenerationAssumption, FS_Subset DEF Reclaimers
<1>2. QED
    BY <1>1 DEF Reclaimers, At

LEMMA InTurnStays ==
    ASSUME InTurn, \A g \in Generations : phase'[g] = "absent" <=> phase[g] = "absent"
    PROVE  InTurn'
BY DEF InTurn

LEMMA CountsStay ==
    ASSUME IInv, UNCHANGED <<refs, phase, current, retired, reclaims>>, ThreadsTyped', Same,
           "default_agent" \in parts' => "default_agent" \in parts,
           Reclaimers' = Reclaimers, \A u \in Reclaimers : thread'[u] = thread[u]
    PROVE  CountsKept
<1>1. GenerationsTyped'
    BY DEF IInv, GenerationsTyped
<1>2. Counted'
    BY DEF IInv, Counted, Same, Users
<1>3. Living' /\ InTurn'
    BY DEF IInv, Living, InTurn
<1>4. Reclaiming'
    BY DEF IInv, Reclaiming
<1>5. QED
    BY <1>1, <1>2, <1>3, <1>4 DEF CountsKept

LEMMA AcquireKeeps ==
    ASSUME IInv, current \in Generations, refs' = [refs EXCEPT ![current] = @ + 1],
           UNCHANGED <<parts, phase, current, retired, reclaims>>, ThreadsTyped', More(current),
           Reclaimers' = Reclaimers, \A u \in Reclaimers : thread'[u] = thread[u]
    PROVE  CountsKept
<1>1. /\ refs \in [Generations -> Nat] /\ refs'[current] = refs[current] + 1
      /\ \A g \in Generations \ {current} : refs'[g] = refs[g]
    BY DEF IInv, GenerationsTyped
<1>2. refs' \in [Generations -> Nat]
    BY <1>1
<1>3. GenerationsTyped'
    BY <1>2 DEF IInv, GenerationsTyped
<1>4. Counted'
    <2>1. \A g \in Generations : refs[g] = Users(g)
        BY DEF IInv, Counted, Users
    <2>2. \A g \in Generations : refs'[g] = Users(g)'
        BY <1>1, <2>1 DEF More
    <2>3. \A g \in Generations : refs'[g] > 0 => g \in retired \cup {current}
        BY <1>1 DEF IInv, Counted
    <2>4. QED
        BY <2>2, <2>3 DEF Counted, Users
<1>5. Living' /\ InTurn'
    BY DEF IInv, Living, InTurn
<1>6. Reclaiming'
    BY DEF IInv, Reclaiming
<1>7. QED
    BY <1>3, <1>4, <1>5, <1>6 DEF CountsKept

(* The last reference of a retired generation: it leaves the generations   *)
(* that live, and the thread that gave it up reclaims it.                  *)
LEMMA ReleaseKeeps ==
    ASSUME IInv, NEW t \in Threads, NEW g \in Generations, NEW c, c.at \in AfterRelease,
           ~At(t, "reclaiming"), Release(g), Go(t, Onward(g, c)), Fewer(g)
    PROVE  /\ CountsKept /\ Bound(t)' = c /\ refs[g] > 0 /\ g \in retired \cup {current}
           /\ \A h \in Generations : phase'[h] = "absent" <=> phase[h] = "absent"
<1>1. /\ refs' = [refs EXCEPT ![g] = @ - 1]
      /\ UNCHANGED <<parts, current>>
      /\ LastOfRetired(g) => /\ phase' = [phase EXCEPT ![g] = "reclaiming"]
                             /\ retired' = retired \ {g} /\ reclaims' = reclaims + 1
      /\ ~LastOfRetired(g) => UNCHANGED <<phase, retired, reclaims>>
    BY DEF Release
<1>2. /\ GenerationsTyped /\ Counted /\ Living /\ InTurn /\ Reclaiming /\ ThreadsTyped
      /\ refs \in [Generations -> Nat] /\ reclaims \in Nat
    BY DEF IInv, GenerationsTyped
<1>3. /\ thread'[t] = Onward(g, c) /\ \A u \in Threads \ {t} : thread'[u] = thread[u]
    BY <1>2, GoMoves
<1>4. c.at # "reclaiming"
    BY DEF AfterRelease
<1>5. /\ At(t, "reclaiming")' <=> LastOfRetired(g)
      /\ LastOfRetired(g) => thread'[t].generation = g
      /\ Bound(t)' = c
    BY <1>3, <1>4, OnwardLeads DEF At, Bound
<1>6. ThreadsTyped'
    BY <1>2, MoveTyped, OnwardLeads
<1>7. refs[g] = Users(g) /\ refs[g] > 0 /\ g \in retired \cup {current} /\ phase[g] = "live"
    <2>1. refs[g] = Users(g)
        BY <1>2 DEF Counted, Users
    <2>2. QED
        BY <1>2, <2>1 DEF Fewer, Counted, Living
<1>8. /\ refs' \in [Generations -> Nat] /\ refs'[g] = refs[g] - 1
      /\ \A h \in Generations \ {g} : refs'[h] = refs[h]
    <2>1. refs[g] - 1 \in Nat
        BY <1>2, <1>7
    <2>2. QED
        BY <1>1, <1>2, <2>1
<1>9. \A h \in Generations : refs'[h] = Users(h)'
    <2>1. \A h \in Generations : refs[h] = Users(h)
        BY <1>2 DEF Counted, Users
    <2>2. QED
        BY <1>8, <2>1 DEF Fewer
<1>10. CASE ~LastOfRetired(g)
    <2>1. Reclaimers' = Reclaimers /\ \A u \in Reclaimers : thread'[u] = thread[u]
        BY <1>3, <1>5, <1>10, ReclaimersMove DEF Reclaimers
    <2>2. GenerationsTyped'
        BY <1>1, <1>2, <1>8, <1>10 DEF GenerationsTyped
    <2>3. Counted'
        BY <1>1, <1>2, <1>7, <1>8, <1>9, <1>10 DEF Counted, Users
    <2>4. Living' /\ InTurn' /\ Reclaiming'
        BY <1>1, <1>2, <1>10, <2>1 DEF Living, InTurn, Reclaiming
    <2>5. QED
        BY <1>1, <1>5, <1>6, <1>7, <1>10, <2>2, <2>3, <2>4 DEF CountsKept
<1>11. CASE LastOfRetired(g)
    <2>1. refs[g] = 1 /\ g \in retired
        BY <1>11 DEF LastOfRetired
    <2>2. /\ phase' \in [Generations -> {"absent", "live", "reclaiming", "freed"}]
          /\ phase'[g] = "reclaiming" /\ \A h \in Generations \ {g} : phase'[h] = phase[h]
        BY <1>1, <1>2, <1>11 DEF GenerationsTyped
    <2>3. GenerationsTyped'
        BY <1>1, <1>2, <1>8, <1>11, <2>2 DEF GenerationsTyped
    <2>4. g # current /\ retired' = retired \ {g} /\ current' = current
        BY <1>1, <1>2, <1>11, <2>1 DEF Living
    <2>5. Counted'
        <3>1. \A h \in Generations : refs'[h] > 0 => h \in retired' \cup {current}
            BY <1>2, <1>8, <2>1, <2>4 DEF Counted
        <3>2. QED
            BY <1>9, <2>4, <3>1 DEF Counted, Users
    <2>6. Living'
        BY <1>1, <1>2, <2>2, <2>4 DEF Living
    <2>7. Reclaimers' = Reclaimers \cup {t} /\ t \notin Reclaimers /\ IsFiniteSet(Reclaimers)
        BY <1>3, <1>5, <1>11, ReclaimersMove
    <2>8. Cardinality(Reclaimers') = Cardinality(Reclaimers) + 1
        BY <2>7, FS_AddElement
    <2>9. \A u \in Reclaimers : thread'[u] = thread[u]
        BY <1>3, <2>7 DEF Reclaimers
    <2>10. \A h \in Generations : phase'[h] = "reclaiming" =>
              \E u \in Reclaimers' : thread'[u].generation = h
        BY <1>2, <1>5, <1>11, <2>2, <2>7, <2>9 DEF Reclaiming
    <2>11. \A u \in Reclaimers : thread'[u].generation # g /\ phase'[thread'[u].generation] = "reclaiming"
        <3>1. \A u \in Reclaimers : thread[u].generation \in Generations
            BY <1>2 DEF Reclaimers, ThreadsTyped, CallTyped, HolderPlaces, At
        <3>2. \A u \in Reclaimers : phase[thread[u].generation] = "reclaiming"
            BY <1>2 DEF Reclaiming
        <3>3. QED
            BY <1>7, <2>2, <2>9, <3>1, <3>2
    <2>12. \A u, v \in Reclaimers' : thread'[u].generation = thread'[v].generation => u = v
        BY <1>2, <1>5, <1>11, <2>7, <2>9, <2>11 DEF Reclaiming
    <2>13. \A u \in Reclaimers' : phase'[thread'[u].generation] = "reclaiming"
        BY <1>5, <1>11, <2>2, <2>7, <2>11
    <2>14. Reclaiming'
        BY <1>1, <1>2, <1>11, <2>8, <2>10, <2>12, <2>13 DEF Reclaiming
    <2>15. \A h \in Generations : phase'[h] = "absent" <=> phase[h] = "absent"
        BY <1>7, <2>2
    <2>16. InTurn'
        BY <1>2, <2>15, InTurnStays
    <2>17. QED
        BY <1>5, <1>6, <1>7, <2>3, <2>5, <2>6, <2>14, <2>15, <2>16 DEF CountsKept
<1>12. QED
    BY <1>10, <1>11

-----------------------------------------------------------------------------
(* Reloads and the end *)

(* How a move of thread u may leave it where it is, as each part of the    *)
(* invariant sees it                                                       *)
ReloadAlike(u) ==
    /\ BoundFor(u, ReloadPlaces)' <=> BoundFor(u, ReloadPlaces)
    /\ At(u, "building")' => At(u, "building")

NobodyNew(u) ==
    /\ BoundFor(u, DestroyPlaces)' => BoundFor(u, DestroyPlaces)
    /\ BoundFor(u, AfterQueue)' => BoundFor(u, AfterQueue)
    /\ At(u, "stopping_events")' => At(u, "stopping_events")

TaskAlike(u) ==
    /\ BoundFor(u, TaskPlaces)' <=> BoundFor(u, TaskPlaces)
    /\ BoundFor(u, TaskPlaces) => Bound(u).run' = Bound(u).run

LinkAlike(u) ==
    /\ At(u, "linking")' => At(u, "linking") /\ thread'[u].run = thread[u].run
    /\ At(u, "collecting")' => \/ At(u, "collecting") /\ thread'[u].run = thread[u].run
                              \/ thread'[u].run \in 1..accepted
    /\ At(u, "taking")' => At(u, "taking") /\ thread'[u].run = thread[u].run

CallAlike(u) ==
    At(u, "leasing")' \/ At(u, "submit")' =>
        At(u, "leasing") \/ At(u, "submit") \/ "default_agent" \in parts

Alike(u) == ReloadAlike(u) /\ NobodyNew(u) /\ TaskAlike(u) /\ LinkAlike(u) /\ CallAlike(u)

LEMMA StillAlike ==
    ASSUME NEW u, thread'[u] = thread[u]
    PROVE  Alike(u)
<1>1. Bound(u)' = Bound(u) /\ \A place : At(u, place)' = At(u, place)
    BY DEF Bound, At
<1>2. \A places : BoundFor(u, places)' = BoundFor(u, places)
    BY <1>1 DEF BoundFor
<1>3. ReloadAlike(u) /\ NobodyNew(u)
    BY <1>1, <1>2 DEF ReloadAlike, NobodyNew
<1>4. TaskAlike(u)
    BY <1>1, <1>2 DEF TaskAlike
<1>5. LinkAlike(u) /\ CallAlike(u)
    BY <1>1 DEF LinkAlike, CallAlike
<1>6. QED
    BY <1>3, <1>4, <1>5 DEF Alike

LEMMA ReloadStays ==
    ASSUME IInv, UNCHANGED reloading, \A u \in Threads : ReloadAlike(u),
           \A g \in Generations : phase'[g] = "absent" <=> phase[g] = "absent"
    PROVE  Reloading'
<1>1. Reloading
    BY DEF IInv
<1>2. QED
    BY <1>1 DEF Reloading, ReloadAlike

LEMMA EndingStays ==
    ASSUME IInv, shuttingDown => shuttingDown', parts' \subseteq parts, UNCHANGED builder,
           \A u \in Threads : NobodyNew(u),
           Quiet /\ shuttingDown => Quiet' /\ current' = current /\ retired' = retired
    PROVE  Ending'
<1>1. Ending
    BY DEF IInv
<1>2. ASSUME NEW u \in Threads
      PROVE  /\ BoundFor(u, DestroyPlaces)' => shuttingDown'
             /\ BoundFor(u, AfterQueue)' => "run_queue" \notin parts'
             /\ At(u, "stopping_events")' => Quiet'
    <2>1. (BoundFor(u, DestroyPlaces)' => shuttingDown') /\ (BoundFor(u, AfterQueue)' => "run_queue" \notin parts')
        BY <1>1 DEF Ending, NobodyNew
    <2>2. At(u, "stopping_events") => BoundFor(u, DestroyPlaces)
        BY DEF At, BoundFor, Bound, DestroyPlaces, AfterQueue
    <2>3. At(u, "stopping_events")' => Quiet /\ shuttingDown
        BY <1>1, <2>2 DEF Ending, NobodyNew
    <2>4. QED
        BY <2>1, <2>3
<1>3. builder' = "freed" => shuttingDown' /\ current' = NoGeneration /\ retired' = {} /\ Quiet'
    BY <1>1 DEF Ending
<1>4. QED
    BY <1>2, <1>3 DEF Ending

LEMMA QuietStays ==
    ASSUME UNCHANGED <<refs, current, retired, reloading, reclaims>>
    PROVE  Quiet' = Quiet
BY DEF Quiet

(* Nothing is held any more once the builder is quiet. *)
LEMMA QuietHolds ==
    ASSUME IInv, Quiet, NEW g \in Generations
    PROVE  refs[g] = 0
<1>1. refs[g] \in Nat /\ (refs[g] > 0 => g \in retired \cup {current}) /\ g # NoGeneration
    BY ZeroIsNoGeneration DEF IInv, GenerationsTyped, Counted
<1>2. g \in retired \cup {current} => refs[g] = 0
    BY <1>1 DEF Quiet
<1>3. QED
    BY <1>1, <1>2
-----------------------------------------------------------------------------
(* Runs and their tasks *)

(* Runs that have not started may be cancelled, outcomes thrown away. *)
Winding ==
    /\ accepted' = accepted /\ DOMAIN run' = 1..accepted /\ (open' => open)
    /\ \A r \in 1..accepted :
          /\ run'[r].phase \in {"pending", "running", "done", "gone"}
          /\ run'[r].phase = "pending" => run[r].phase = "pending"
          /\ run'[r].phase = "running" <=> run[r].phase = "running"
          /\ run[r].phase = "gone" => run'[r].phase = "gone"

LEMMA StillWinds ==
    ASSUME TasksTyped, UNCHANGED serviceVars
    PROVE  Winding
BY DEF TasksTyped, Winding, serviceVars

LEMMA AfterWinds ==
    ASSUME TasksTyped, NEW C \in SUBSET Phase("pending"), NEW G \in SUBSET Phase("done"),
           run' = After(C, G), UNCHANGED accepted, open' => open
    PROVE  Winding
<1>1. \A r \in 1..accepted :
          /\ r \in C => run[r].phase = "pending" /\ run'[r] = Done("cancelled")
          /\ r \in G => run[r].phase = "done"
          /\ r \notin C /\ r \in G => run'[r] = Gone
          /\ r \notin C /\ r \notin G => run'[r] = run[r]
    BY DEF After, Phase, TasksTyped
<1>2. DOMAIN run' = 1..accepted
    BY DEF After, TasksTyped
<1>3. \A r \in 1..accepted : run[r].phase \in {"pending", "running", "done", "gone"}
    BY DEF TasksTyped
<1>4. QED
    BY <1>1, <1>2, <1>3 DEF Winding, Done, Gone

LEMMA TasksStay ==
    ASSUME TasksTyped, Winding, UNCHANGED task
    PROVE  TasksTyped'
BY DEF TasksTyped, Winding

LEMMA TaskedStays ==
    ASSUME IInv, Winding, \A u \in Threads : TaskAlike(u),
           \A r \in DOMAIN task \ DOMAIN task' : run[r].phase \notin {"pending", "running"}
    PROVE  Tasked'
<1>1. Tasked
    BY DEF IInv
<1>2. \A r \in 1..accepted : run'[r].phase \in {"pending", "running"} => r \in DOMAIN task'
    BY <1>1 DEF Tasked, Winding
<1>3. \A w \in Threads : BoundFor(w, TaskPlaces)' =>
          w \in Workers /\ Bound(w).run' \in 1..accepted /\ run'[Bound(w).run'].phase = "running"
    BY <1>1 DEF Tasked, TaskAlike, Winding
<1>4. \A v, w \in Threads :
          BoundFor(v, TaskPlaces)' /\ BoundFor(w, TaskPlaces)' /\ Bound(v).run' = Bound(w).run' => v = w
    BY <1>1 DEF Tasked, TaskAlike
<1>5. \A r \in 1..accepted : run'[r].phase = "running" =>
          \E w \in Threads : BoundFor(w, TaskPlaces)' /\ Bound(w).run' = r
    BY <1>1 DEF Tasked, TaskAlike, Winding
<1>6. accepted' = accepted
    BY DEF Winding
<1>7. QED
    BY <1>2, <1>3, <1>4, <1>5, <1>6 DEF Tasked

(* A task is freed with its record. *)
LEMMA LinkedStays ==
    ASSUME IInv, Winding, \A u \in Threads : LinkAlike(u),
           pending' \subseteq pending \cap DOMAIN task', DOMAIN task \ DOMAIN task' \subseteq pending
    PROVE  Linked'
<1>1. Linked
    BY DEF IInv
<1>2. accepted' = accepted /\ \A r \in 1..accepted : run[r].phase = "gone" => run'[r].phase = "gone"
    BY DEF Winding
<1>3. \A t \in Threads : At(t, "linking")' => thread'[t].run \in DOMAIN task' \ pending'
    BY <1>1 DEF Linked, LinkAlike
<1>4. \A t, u \in Threads :
          At(t, "linking")' /\ At(u, "linking")' /\ thread'[t].run = thread'[u].run => t = u
    BY <1>1 DEF Linked, LinkAlike
<1>5. \A t \in Threads : At(t, "collecting")' => thread'[t].run \in 1..accepted
    BY <1>1 DEF Linked, LinkAlike
<1>6. \A t \in Threads : At(t, "taking")' =>
          thread'[t].run \in 1..accepted /\ run'[thread'[t].run].phase = "gone"
    BY <1>1, <1>2 DEF Linked, LinkAlike
<1>7. pending' \subseteq DOMAIN task'
    OBVIOUS
<1>8. QED
    BY <1>2, <1>3, <1>4, <1>5, <1>6, <1>7 DEF Linked

LEMMA StoppedStays ==
    ASSUME IInv, Winding, \A u \in Threads : CallAlike(u), UNCHANGED open,
           "run_queue" \in parts => "run_queue" \in parts',
           open => ("default_agent" \in parts' <=> "default_agent" \in parts)
    PROVE  Stopped'
<1>1. Stopped
    BY DEF IInv
<1>2. QED
    BY <1>1 DEF Stopped, CallAlike, Winding
-----------------------------------------------------------------------------
(* Steps that change none of this *)

hostVars == <<parts, phase, refs, current, retired, reloading, reclaims, builder, serviceVars,
              task, pending>>

LEMMA CalmKeeps ==
    ASSUME IInv, UNCHANGED hostVars, shuttingDown => shuttingDown', ThreadsTyped', Same,
           Reclaimers' = Reclaimers, \A u \in Reclaimers : thread'[u] = thread[u],
           \A u \in Threads : Alike(u)
    PROVE  IInv'
<1>1. /\ UNCHANGED <<parts, phase, refs, current, retired, reloading, reclaims, builder>>
      /\ UNCHANGED <<serviceVars, task, pending>> /\ TasksTyped /\ Linked
    BY DEF hostVars, IInv
<1>2. CountsKept
    BY <1>1, CountsStay
<1>3. \A u \in Threads : ReloadAlike(u) /\ NobodyNew(u) /\ TaskAlike(u) /\ LinkAlike(u) /\ CallAlike(u)
    BY DEF Alike
<1>4. Winding /\ TasksTyped'
    BY <1>1, StillWinds, TasksStay
<1>5. Reloading'
    BY <1>1, <1>3, ReloadStays
<1>6. Ending'
    <2>1. Quiet' = Quiet
        BY <1>1, QuietStays
    <2>2. QED
        BY <1>1, <1>3, <2>1, EndingStays
<1>7. Tasked'
    BY <1>1, <1>3, <1>4, TaskedStays
<1>8. Linked'
    <2>1. pending \subseteq DOMAIN task
        BY <1>1 DEF Linked
    <2>2. QED
        BY <1>1, <1>3, <1>4, <2>1, LinkedStays
<1>9. Stopped'
    <2>1. UNCHANGED open
        BY <1>1 DEF serviceVars
    <2>2. QED
        BY <1>1, <1>3, <1>4, <2>1, StoppedStays
<1>10. QED
    BY <1>2, <1>4, <1>5, <1>6, <1>7, <1>8, <1>9 DEF IInv, CountsKept

LEMMA StillKeeps ==
    ASSUME IInv, UNCHANGED hostVars, UNCHANGED thread, shuttingDown => shuttingDown'
    PROVE  IInv'
<1>1. ThreadsTyped' /\ Reclaimers' = Reclaimers
    BY DEF IInv, ThreadsTyped, Reclaimers, At
<1>2. Same
    <2>1. UNCHANGED task
        BY DEF hostVars
    <2>2. \A g : Holders(g)' = Holders(g) /\ Leases(g)' = Leases(g)
        BY <2>1 DEF Holders, Held, Leases
    <2>3. QED
        BY <2>2 DEF Same, Users
<1>3. QED
    BY <1>1, <1>2, CalmKeeps, StillAlike

LEMMA MoveKeeps ==
    ASSUME IInv, NEW t \in Threads, NEW c, Go(t, c), CallTyped(c), HeldIn(c) = Held(t),
           ~At(t, "reclaiming"), c.at # "reclaiming", thread'[t] = c => Alike(t),
           UNCHANGED hostVars, shuttingDown => shuttingDown'
    PROVE  IInv'
<1>1. /\ ThreadsTyped' /\ thread'[t] = c
      /\ \A u \in Threads \ {t} : thread'[u] = thread[u]
    BY GoMoves, MoveTyped DEF IInv
<1>2. \A u \in Threads : Alike(u)
    BY <1>1, StillAlike
<1>3. Held(t)' = Held(t) /\ ~At(t, "reclaiming")'
    BY <1>1 DEF Held, At
<1>4. Same
    <2>1. UNCHANGED task
        BY DEF hostVars
    <2>2. QED
        BY <1>1, <1>3, <2>1, UsersOf DEF IInv
<1>5. Reclaimers' = Reclaimers
    BY <1>1, <1>3, ReclaimersMove
<1>6. \A u \in Reclaimers : thread'[u] = thread[u]
    BY <1>1 DEF Reclaimers
<1>7. QED
    BY <1>1, <1>2, <1>4, <1>5, <1>6, CalmKeeps

(* A place where nothing is asked of a thread but that it holds what it holds *)
Plain(c) == c.at \notin ReloadPlaces \cup DestroyPlaces \cup TaskPlaces
                  \cup {"reclaiming", "linking", "collecting", "taking", "leasing", "submit"}

LEMMA PlainAlike ==
    ASSUME NEW t, thread[t].at \notin ReloadPlaces \cup TaskPlaces \cup {"reclaiming"},
           Plain(thread'[t])
    PROVE  Alike(t)
<1>1. Bound(t) = thread[t] /\ Bound(t)' = thread'[t]
    BY DEF Bound, At, Plain
<1>2. ReloadAlike(t) /\ NobodyNew(t)
    BY <1>1 DEF Plain, ReloadAlike, NobodyNew, BoundFor, At, DestroyPlaces, AfterQueue,
        ReloadPlaces
<1>3. TaskAlike(t)
    BY <1>1 DEF Plain, TaskAlike, BoundFor
<1>4. LinkAlike(t) /\ CallAlike(t)
    BY DEF Plain, LinkAlike, CallAlike, At
<1>5. QED
    BY <1>2, <1>3, <1>4 DEF Alike

LEMMA PlainKeeps ==
    ASSUME IInv, NEW t \in Threads, NEW c, Go(t, c), HeldIn(c) = Held(t),
           thread[t].at \notin ReloadPlaces \cup TaskPlaces \cup {"reclaiming"}, Plain(c),
           c.at \in HolderPlaces => thread[t].at \in HolderPlaces,
           UNCHANGED hostVars, shuttingDown => shuttingDown'
    PROVE  IInv'
<1>1. CallTyped(thread[t])
    BY DEF IInv, ThreadsTyped
<1>2. CallTyped(c) /\ c.at # "reclaiming" /\ ~At(t, "reclaiming")
    BY <1>1 DEF CallTyped, HolderPlaces, Held, Plain, At
<1>3. thread'[t] = c => Alike(t)
    BY PlainAlike
<1>4. QED
    BY <1>2, <1>3, MoveKeeps
LEMMA Untouched ==
    ASSUME UNCHANGED <<generationVars, managerVars, serviceVars>>
    PROVE  UNCHANGED hostVars /\ UNCHANGED shuttingDown
BY DEF generationVars, managerVars, hostVars

-----------------------------------------------------------------------------
(* The controller *)

LEMMA ControllerCalm ==
    ASSUME IInv, NEW t \in Threads, UNCHANGED <<managerVars, serviceVars>>,
           \/ CreateController(t) \/ CancelRun(t) \/ ClearSession(t) \/ ApplyConfig(t)
           \/ DestroyController(t)
           \/ Claim(t) \/ CreateSession(t) \/ RunEnds(t) \/ FinishRun(t)
           \/ Shutdown(t) \/ Drained(t) \/ DrainTimeout(t)
    PROVE  IInv'
<1>1. UNCHANGED generationVars
    BY DEF CreateController, CancelRun, ClearSession, ApplyConfig, DestroyController, Claim,
        CreateSession, RunEnds, FinishRun, Shutdown, Drained, DrainTimeout
<1>2. UNCHANGED hostVars /\ UNCHANGED shuttingDown
    BY <1>1, Untouched
<1>3. CASE UNCHANGED thread
    BY <1>2, <1>3, StillKeeps
<1>4. ASSUME NEW place \in {"creating", "running", "finishing", "giving_back"}, NEW s, RunAt(t, place, s),
             thread[t].at \in {"claiming", "creating", "running", "finishing"}
      PROVE  IInv'
    <2>1. PICK c : c = [at |-> place, generation |-> thread[t].generation, run |-> thread[t].run,
                        session |-> s]
        OBVIOUS
    <2>2. Go(t, c) /\ Plain(c) /\ HeldIn(c) = Held(t)
        BY <1>4, <2>1 DEF RunAt, Plain, HeldIn, Held, ReloadPlaces, DestroyPlaces, AfterQueue, TaskPlaces
    <2>3. /\ thread[t].at \notin ReloadPlaces \cup TaskPlaces \cup {"reclaiming"}
          /\ thread[t].at \in HolderPlaces
        BY <1>4 DEF ReloadPlaces, TaskPlaces, HolderPlaces
    <2>4. QED
        BY <1>2, <2>2, <2>3, PlainKeeps
<1>5. ASSUME NEW c \in {Idle, [at |-> "draining"]}, Go(t, c), thread[t].at \in {"idle", "draining"}
      PROVE  IInv'
    <2>1. Plain(c) /\ HeldIn(c) = Held(t) /\ c.at \notin HolderPlaces
        <3>1. c.at \in {"idle", "draining"}
            BY <1>5 DEF Idle
        <3>2. QED
            BY <1>5, <3>1 DEF Plain, HeldIn, Held, HolderPlaces, ReloadPlaces, DestroyPlaces,
                AfterQueue, TaskPlaces
    <2>2. thread[t].at \notin ReloadPlaces \cup TaskPlaces \cup {"reclaiming"}
        BY <1>5 DEF ReloadPlaces, TaskPlaces
    <2>3. QED
        BY <1>2, <1>5, <2>1, <2>2, PlainKeeps
<1>6. CASE CreateController(t) \/ CancelRun(t) \/ ClearSession(t) \/ ApplyConfig(t)
           \/ DestroyController(t)
    BY <1>3, <1>6 DEF CreateController, CancelRun, ClearSession, ApplyConfig, DestroyController
<1>7. CASE Claim(t) \/ CreateSession(t) \/ RunEnds(t) \/ FinishRun(t)
    BY <1>4, <1>7 DEF Claim, CreateSession, RunEnds, FinishRun, At
<1>8. CASE Shutdown(t) \/ Drained(t) \/ DrainTimeout(t)
    BY <1>5, <1>8 DEF Shutdown, Drained, DrainTimeout, At
<1>9. QED
    BY <1>6, <1>7, <1>8

-----------------------------------------------------------------------------
(* The agent manager, where it holds nothing new *)

LEMMA ManagerCalm ==
    ASSUME IInv, NEW t \in Threads,
           AddAgent(t) \/ AddAgentLease(t) \/ SetCurrentAgent(t) \/ LookUp(t) \/ Collect(t) \/ QueueLate(t)
    PROVE  IInv'
<1>1. CASE AddAgent(t) \/ AddAgentLease(t) \/ SetCurrentAgent(t)
    <2>1. UNCHANGED hostVars /\ UNCHANGED shuttingDown /\ UNCHANGED thread
        BY <1>1 DEF AddAgent, AddAgentLease, SetCurrentAgent, generationVars, hostVars
    <2>2. QED
        BY <2>1, StillKeeps
<1>2. CASE LookUp(t)
    <2>1. /\ UNCHANGED hostVars /\ UNCHANGED shuttingDown
          /\ At(t, "idle") /\ "default_agent" \in parts
        BY <1>2, Untouched DEF LookUp, Calls, Published
    <2>2. PICK c : /\ Go(t, c) /\ c.at \in {"leasing", "submit", "reset"}
                   /\ c.purpose \in {"submit", "reset"} /\ c.lease = NoGeneration
        BY <1>2 DEF LookUp
    <2>3. HeldIn(c) = NoGeneration /\ Held(t) = NoGeneration
        BY <2>1, <2>2 DEF HeldIn, Held, At
    <2>4. CallTyped(c) /\ ~At(t, "reclaiming") /\ c.at # "reclaiming"
        BY <2>1, <2>2, <2>3 DEF CallTyped, HolderPlaces, At
    <2>5. ASSUME thread'[t] = c PROVE Alike(t)
        <3>1. Bound(t) = thread[t] /\ Bound(t)' = thread'[t] /\ thread'[t].at \in {"leasing", "submit", "reset"}
            BY <2>1, <2>2, <2>4, <2>5 DEF Bound, At
        <3>2. ReloadAlike(t) /\ NobodyNew(t) /\ TaskAlike(t)
            BY <2>1, <3>1 DEF ReloadAlike, NobodyNew, TaskAlike, BoundFor, At, DestroyPlaces,
                AfterQueue, ReloadPlaces, TaskPlaces
        <3>3. LinkAlike(t) /\ CallAlike(t)
            BY <2>1, <3>1 DEF LinkAlike, CallAlike, At
        <3>4. QED
            BY <3>2, <3>3 DEF Alike
    <2>6. QED
        BY <2>1, <2>2, <2>3, <2>4, <2>5, MoveKeeps
<1>3. CASE Collect(t)
    <2>1. UNCHANGED hostVars /\ UNCHANGED shuttingDown /\ At(t, "idle")
        BY <1>3, Untouched DEF Collect, Calls
    <2>2. PICK r \in pending : Go(t, [at |-> "collecting", run |-> r])
        BY <1>3 DEF Collect
    <2>3. PICK c : c = [at |-> "collecting", run |-> r]
        OBVIOUS
    <2>4. c.at = "collecting" /\ c.run = r /\ r \in 1..accepted
        BY <2>2, <2>3 DEF IInv, Linked, TasksTyped
    <2>5. HeldIn(c) = NoGeneration /\ Held(t) = NoGeneration
        BY <2>1, <2>4 DEF HeldIn, Held, At
    <2>6. CallTyped(c) /\ ~At(t, "reclaiming") /\ c.at # "reclaiming"
        BY <2>1, <2>4, <2>5 DEF CallTyped, HolderPlaces, At
    <2>7. ASSUME thread'[t] = c PROVE Alike(t)
        <3>1. Bound(t) = thread[t] /\ Bound(t)' = thread'[t] /\ thread'[t].at = "collecting"
            BY <2>1, <2>4, <2>6, <2>7 DEF Bound, At
        <3>2. ReloadAlike(t) /\ NobodyNew(t) /\ TaskAlike(t)
            BY <2>1, <3>1 DEF ReloadAlike, NobodyNew, TaskAlike, BoundFor, At, DestroyPlaces,
                AfterQueue, ReloadPlaces, TaskPlaces
        <3>3. LinkAlike(t) /\ CallAlike(t)
            BY <2>1, <2>4, <2>7, <3>1 DEF LinkAlike, CallAlike, At
        <3>4. QED
            BY <3>2, <3>3 DEF Alike
    <2>8. Go(t, c)
        BY <2>2, <2>3
    <2>9. QED
        BY <2>1, <2>5, <2>6, <2>7, <2>8, MoveKeeps
<1>4. CASE QueueLate(t)
    <2>1. UNCHANGED hostVars /\ UNCHANGED shuttingDown /\ At(t, "stopping_queue") /\ Go(t, Idle)
        BY <1>4, Untouched DEF QueueLate, QueueTimeout
    <2>2. /\ Plain(Idle) /\ HeldIn(Idle) = Held(t) /\ Idle.at \notin HolderPlaces
          /\ thread[t].at \notin ReloadPlaces \cup TaskPlaces \cup {"reclaiming"}
        BY <2>1 DEF At, Idle, HolderPlaces, Plain, HeldIn, Held, ReloadPlaces, DestroyPlaces, AfterQueue, TaskPlaces
    <2>3. QED
        BY <2>1, <2>2, PlainKeeps
<1>5. QED
    BY <1>1, <1>2, <1>3, <1>4
-----------------------------------------------------------------------------
(* The destruction *)

LEMMA GoesOn ==
    ASSUME IInv, NEW t \in Threads, NEW c, Go(t, c), c.at \in DestroyPlaces,
           thread[t].at \in DestroyPlaces \cup {"destroy"},
           UNCHANGED <<phase, refs, current, retired, reloading, reclaims, builder, serviceVars,
                       task, pending>>,
           shuttingDown', parts' \subseteq parts,
           "default_agent" \in parts' <=> "default_agent" \in parts,
           "run_queue" \in parts /\ "run_queue" \notin parts' =>
               ~open /\ \A r \in 1..accepted : run[r].phase # "running",
           c.at \in AfterQueue => "run_queue" \notin parts',
           c.at = "stopping_events" => Quiet
    PROVE  IInv'
<1>1. /\ ThreadsTyped /\ TasksTyped /\ Linked /\ Ending /\ Stopped
      /\ UNCHANGED <<phase, refs, current, retired, reloading, reclaims, builder>>
      /\ UNCHANGED <<serviceVars, task, pending>>
    BY DEF IInv
<1>2. HeldIn(c) = NoGeneration /\ Held(t) = NoGeneration /\ CallTyped(c)
    BY DEF HeldIn, Held, CallTyped, HolderPlaces, DestroyPlaces, AfterQueue
<1>3. /\ ThreadsTyped' /\ thread'[t] = c
      /\ \A u \in Threads \ {t} : thread'[u] = thread[u]
    BY <1>1, <1>2, GoMoves, MoveTyped
<1>4. Held(t)' = Held(t) /\ ~At(t, "reclaiming") /\ ~At(t, "reclaiming")'
    BY <1>2, <1>3 DEF Held, At, DestroyPlaces, AfterQueue
<1>5. Same
    BY <1>1, <1>3, <1>4, UsersOf
<1>6. Reclaimers' = Reclaimers /\ \A u \in Reclaimers : thread'[u] = thread[u]
    BY <1>3, <1>4, ReclaimersMove DEF Reclaimers
<1>7. CountsKept
    BY <1>1, <1>3, <1>5, <1>6, CountsStay
<1>8. \A u \in Threads \ {t} : Alike(u)
    BY <1>3, StillAlike
<1>9. Bound(t) = thread[t] /\ Bound(t)' = c
    BY <1>3, <1>4 DEF Bound
<1>10. ReloadAlike(t) /\ TaskAlike(t) /\ LinkAlike(t) /\ CallAlike(t)
    <2>1. ReloadAlike(t)
        BY <1>3, <1>9 DEF ReloadAlike, BoundFor, At, DestroyPlaces, AfterQueue, ReloadPlaces
    <2>2. TaskAlike(t)
        BY <1>3, <1>9 DEF TaskAlike, BoundFor, DestroyPlaces, AfterQueue, TaskPlaces
    <2>3. LinkAlike(t) /\ CallAlike(t)
        BY <1>3 DEF LinkAlike, CallAlike, At, DestroyPlaces, AfterQueue
    <2>4. QED
        BY <2>1, <2>2, <2>3
<1>11. \A u \in Threads : ReloadAlike(u) /\ TaskAlike(u) /\ LinkAlike(u) /\ CallAlike(u)
    BY <1>8, <1>10 DEF Alike
<1>12. Winding /\ TasksTyped'
    BY <1>1, StillWinds, TasksStay
<1>13. Reloading'
    BY <1>1, <1>11, ReloadStays
<1>14. Tasked'
    BY <1>1, <1>11, <1>12, TaskedStays
<1>15. Linked'
    <2>1. pending \subseteq DOMAIN task
        BY <1>1 DEF Linked
    <2>2. QED
        BY <1>1, <1>11, <1>12, <2>1, LinkedStays
<1>16. Quiet' = Quiet
    BY <1>1, QuietStays
<1>17. Ending'
    <2>1. ASSUME NEW u \in Threads
          PROVE  /\ BoundFor(u, DestroyPlaces)' => shuttingDown'
                 /\ BoundFor(u, AfterQueue)' => "run_queue" \notin parts'
                 /\ At(u, "stopping_events")' => Quiet'
        <3>1. CASE u = t
            BY <1>3, <1>9, <1>16, <3>1 DEF BoundFor, At
        <3>2. CASE u # t
            <4>1. NobodyNew(u)
                BY <1>8, <3>2 DEF Alike
            <4>2. QED
                BY <1>1, <1>16, <4>1 DEF Ending, NobodyNew
        <3>3. QED
            BY <3>1, <3>2
    <2>2. builder' = "freed" => shuttingDown' /\ current' = NoGeneration /\ retired' = {} /\ Quiet'
        BY <1>1, <1>16 DEF Ending
    <2>3. QED
        BY <2>1, <2>2 DEF Ending
<1>18. Stopped'
    <2>1. UNCHANGED open /\ run' = run /\ accepted' = accepted
        BY <1>1 DEF serviceVars
    <2>2. CASE "run_queue" \in parts => "run_queue" \in parts'
        BY <1>1, <1>11, <1>12, <2>1, <2>2, StoppedStays
    <2>3. CASE "run_queue" \in parts /\ "run_queue" \notin parts'
        BY <1>1, <2>1, <2>3 DEF Stopped
    <2>4. QED
        BY <2>2, <2>3
<1>19. QED
    BY <1>7, <1>12, <1>13, <1>14, <1>15, <1>17, <1>18 DEF IInv, CountsKept

(* No worker is at a run any more, and then no run is running. *)
LEMMA QueueEnds ==
    ASSUME IInv, NEW t \in Threads, QueueStops(t)
    PROVE  IInv'
<1>1. PICK c : c = [at |-> "freeing_manager"]
    OBVIOUS
<1>2. /\ At(t, "stopping_queue") /\ Go(t, c) /\ parts' = parts \ {"run_queue"} /\ ~open
      /\ UNCHANGED <<phase, refs, current, retired, shuttingDown, reloading, reclaims, builder>>
      /\ UNCHANGED <<serviceVars, task, pending>>
    BY <1>1 DEF QueueStops, QueueStopped, managerVars
<1>3. \A r \in 1..accepted : run[r].phase # "running"
    <2>1. \A v \in Workers : ~BoundFor(v, TaskPlaces)
        BY DEF QueueStops, BoundFor, Bound, At, TaskPlaces
    <2>2. QED
        BY <2>1 DEF IInv, Tasked
<1>4. shuttingDown'
    <2>1. BoundFor(t, DestroyPlaces)
        BY <1>2 DEF BoundFor, Bound, At, DestroyPlaces
    <2>2. QED
        BY <1>2, <2>1 DEF IInv, Ending
<1>5. c.at \in AfterQueue /\ c.at # "stopping_events" /\ c.at \in DestroyPlaces
    BY <1>1 DEF AfterQueue, DestroyPlaces
<1>6. thread[t].at \in DestroyPlaces
    BY <1>2 DEF At, DestroyPlaces
<1>7. /\ parts' \subseteq parts /\ "run_queue" \notin parts'
      /\ "default_agent" \in parts' <=> "default_agent" \in parts
    BY <1>2
<1>8. QED
    BY <1>2, <1>3, <1>4, <1>5, <1>6, <1>7, GoesOn

LEMMA DestroyGoesOn ==
    ASSUME IInv, NEW t \in Threads, UNCHANGED <<managerVars, serviceVars>>,
           DestroyBegins(t) \/ AllReleased(t) \/ ManagerFreed(t)
    PROVE  IInv'
<1>1. UNCHANGED <<phase, refs, current, retired, reloading, reclaims, builder, serviceVars,
                  task, pending>>
    BY DEF DestroyBegins, AllReleased, ManagerFreed, generationVars, managerVars
<1>2. Ending
    BY DEF IInv
<1>3. CASE DestroyBegins(t)
    <2>1. PICK c : c = [at |-> IF "run_queue" \in parts THEN "stopping_queue" ELSE "freeing_manager"]
        OBVIOUS
    <2>2. Go(t, c) /\ shuttingDown' /\ parts' = parts /\ thread[t].at = "destroy"
        BY <1>3, <2>1 DEF DestroyBegins, At
    <2>3. /\ c.at \in DestroyPlaces /\ c.at # "stopping_events"
          /\ c.at \in AfterQueue => "run_queue" \notin parts'
        BY <2>1, <2>2 DEF DestroyPlaces, AfterQueue
    <2>4. QED
        BY <1>1, <2>2, <2>3, GoesOn
<1>4. ASSUME thread[t].at \in AfterQueue
      PROVE  shuttingDown /\ "run_queue" \notin parts
    <2>1. BoundFor(t, DestroyPlaces) /\ BoundFor(t, AfterQueue)
        BY <1>4 DEF BoundFor, Bound, At, DestroyPlaces, AfterQueue
    <2>2. QED
        BY <1>2, <2>1 DEF Ending
<1>5. CASE AllReleased(t)
    <2>1. PICK c : c = [at |-> "stopping_events"]
        OBVIOUS
    <2>2. /\ Go(t, c) /\ Quiet /\ parts' = parts /\ shuttingDown' = shuttingDown
          /\ thread[t].at \in AfterQueue
        BY <1>5, <2>1 DEF AllReleased, At, AfterQueue, generationVars
    <2>3. c.at \in DestroyPlaces /\ thread[t].at \in DestroyPlaces
        BY <2>1, <2>2 DEF DestroyPlaces, AfterQueue
    <2>4. QED
        BY <1>1, <1>4, <2>2, <2>3, GoesOn
<1>6. CASE ManagerFreed(t)
    <2>1. PICK c : c = [at |-> "waiting"]
        OBVIOUS
    <2>2. /\ Go(t, c) /\ parts' = parts \ {"agent_manager"} /\ shuttingDown' = shuttingDown
          /\ thread[t].at \in AfterQueue
        BY <1>6, <2>1 DEF ManagerFreed, At, AfterQueue
    <2>3. c.at \in DestroyPlaces /\ thread[t].at \in DestroyPlaces /\ c.at # "stopping_events"
        BY <2>1, <2>2 DEF DestroyPlaces, AfterQueue
    <2>4. /\ parts' \subseteq parts /\ "run_queue" \notin parts
          /\ "default_agent" \in parts' <=> "default_agent" \in parts
        BY <1>4, <2>2
    <2>5. QED
        BY <1>1, <1>4, <2>2, <2>3, <2>4, GoesOn
<1>7. QED
    BY <1>3, <1>5, <1>6

LEMMA BuilderCalm ==
    ASSUME IInv, NEW t \in Threads, UNCHANGED <<managerVars, serviceVars>>,
           \/ BuildFails(t) \/ CommitRefused(t) \/ LogReload(t) \/ RequestShutdown(t)
           \/ Destroy(t) \/ DestroyTimeout(t) \/ EventsTimeout(t)
    PROVE  IInv'
<1>1. CASE RequestShutdown(t)
    <2>1. UNCHANGED hostVars /\ shuttingDown' /\ UNCHANGED thread
        BY <1>1 DEF RequestShutdown, hostVars, managerVars
    <2>2. QED
        BY <2>1, StillKeeps
<1>2. CASE LogReload(t) \/ Destroy(t) \/ DestroyTimeout(t) \/ EventsTimeout(t)
    <2>1. UNCHANGED hostVars /\ UNCHANGED shuttingDown
        BY <1>2, Untouched DEF LogReload, Destroy, DestroyTimeout, EventsTimeout
    <2>2. PICK c \in {Idle, [at |-> "destroy"]} : Go(t, c)
        BY <1>2 DEF LogReload, Destroy, DestroyTimeout, EventsTimeout
    <2>3. thread[t].at \in {"logging", "idle", "waiting", "stopping_events"}
        BY <1>2 DEF LogReload, Destroy, DestroyTimeout, EventsTimeout, At
    <2>4. c.at \in {"idle", "destroy"}
        BY <2>2 DEF Idle
    <2>5. Plain(c) /\ HeldIn(c) = Held(t) /\ c.at \notin HolderPlaces
        BY <2>3, <2>4 DEF HolderPlaces, Plain, HeldIn, Held, ReloadPlaces, DestroyPlaces, AfterQueue, TaskPlaces
    <2>6. thread[t].at \notin ReloadPlaces \cup TaskPlaces \cup {"reclaiming"}
        BY <2>3 DEF ReloadPlaces, TaskPlaces
    <2>7. QED
        BY <2>1, <2>2, <2>5, <2>6, PlainKeeps
<1>3. CASE BuildFails(t) \/ CommitRefused(t)
    <2>1. UNCHANGED hostVars /\ UNCHANGED shuttingDown /\ At(t, "building")
        BY <1>3, Untouched DEF BuildFails, CommitRefused
    <2>2. PICK c : c = [at |-> "rolling_back", old |-> thread[t].old]
        OBVIOUS
    <2>3. c.at = "rolling_back" /\ c.old = thread[t].old
        BY <2>2
    <2>4. HeldIn(c) = Held(t)
        BY <2>1, <2>3 DEF HeldIn, Held, At
    <2>5. CallTyped(thread[t])
        BY DEF IInv, ThreadsTyped
    <2>6. CallTyped(c) /\ ~At(t, "reclaiming") /\ c.at # "reclaiming"
        BY <2>1, <2>3, <2>4, <2>5 DEF CallTyped, HolderPlaces, At, Held
    <2>7. ASSUME thread'[t] = c PROVE Alike(t)
        <3>1. /\ Bound(t) = thread[t] /\ Bound(t)' = thread'[t] /\ thread'[t].at = "rolling_back"
              /\ thread[t].at = "building"
            BY <2>1, <2>3, <2>7 DEF Bound, At
        <3>2. ReloadAlike(t) /\ NobodyNew(t) /\ TaskAlike(t)
            BY <3>1 DEF ReloadAlike, NobodyNew, TaskAlike, BoundFor, At, DestroyPlaces,
                AfterQueue, ReloadPlaces, TaskPlaces
        <3>3. LinkAlike(t) /\ CallAlike(t)
            BY <3>1 DEF LinkAlike, CallAlike, At
        <3>4. QED
            BY <3>2, <3>3 DEF Alike
    <2>8. Go(t, c)
        BY <1>3, <2>2 DEF BuildFails, CommitRefused
    <2>9. QED
        BY <2>1, <2>4, <2>6, <2>7, <2>8, MoveKeeps
<1>4. QED
    BY <1>1, <1>2, <1>3
-----------------------------------------------------------------------------
(* References taken *)

LEMMA TakesMore ==
    ASSUME IInv, NEW t \in Threads, NEW c, Go(t, c), CallTyped(c), HeldIn(c) = current,
           Held(t) = NoGeneration, thread[t].at # "reclaiming", c.at # "reclaiming",
           ~shuttingDown, current # NoGeneration, refs' = [refs EXCEPT ![current] = @ + 1],
           UNCHANGED <<parts, phase, current, retired, reclaims, builder>>,
           UNCHANGED <<serviceVars, task, pending>>,
           thread'[t] = c => NobodyNew(t) /\ TaskAlike(t) /\ LinkAlike(t) /\ CallAlike(t)
    PROVE  /\ CountsKept /\ TasksTyped' /\ Ending' /\ Tasked' /\ Linked' /\ Stopped'
           /\ thread'[t] = c /\ \A u \in Threads \ {t} : Alike(u)
<1>1. ThreadsTyped /\ TasksTyped /\ Linked /\ current \in Generations
    BY DEF IInv, GenerationsTyped
<1>2. /\ ThreadsTyped' /\ thread'[t] = c
      /\ \A u \in Threads \ {t} : thread'[u] = thread[u]
    BY <1>1, GoMoves, MoveTyped
<1>3. Held(t)' = current /\ ~At(t, "reclaiming") /\ ~At(t, "reclaiming")'
    BY <1>2 DEF Held, At
<1>4. More(current)
    <2>1. More(Held(t)')
        BY <1>1, <1>2, <1>3, UsersOf
    <2>2. QED
        BY <1>3, <2>1 DEF More
<1>5. Reclaimers' = Reclaimers /\ \A u \in Reclaimers : thread'[u] = thread[u]
    BY <1>2, <1>3, ReclaimersMove DEF Reclaimers
<1>6. CountsKept
    BY <1>1, <1>2, <1>4, <1>5, AcquireKeeps
<1>7. \A u \in Threads \ {t} : Alike(u)
    BY <1>2, StillAlike
<1>8. \A u \in Threads : NobodyNew(u) /\ TaskAlike(u) /\ LinkAlike(u) /\ CallAlike(u)
    BY <1>2, <1>7 DEF Alike
<1>9. Winding /\ TasksTyped'
    BY <1>1, StillWinds, TasksStay
<1>10. Ending'
    BY <1>8, EndingStays
<1>11. Tasked'
    BY <1>8, <1>9, TaskedStays
<1>12. Linked'
    <2>1. pending \subseteq DOMAIN task
        BY <1>1 DEF Linked
    <2>2. QED
        BY <1>8, <1>9, <2>1, LinkedStays
<1>13. Stopped'
    <2>1. UNCHANGED open
        BY DEF serviceVars
    <2>2. QED
        BY <1>8, <1>9, <2>1, StoppedStays
<1>14. QED
    BY <1>2, <1>6, <1>7, <1>9, <1>10, <1>11, <1>12, <1>13

LEMMA SubmitKeeps ==
    ASSUME IInv, NEW t \in Threads, UNCHANGED <<managerVars, serviceVars>>, SubmitText(t)
    PROVE  IInv'
<1>1. PICK c : c = [at |-> "claiming", generation |-> current, run |-> lastRun + 1]
    OBVIOUS
<1>2. c.at = "claiming" /\ c.generation = current
    BY <1>1
<1>3. /\ At(t, "idle") /\ Go(t, c) /\ ~shuttingDown /\ current # NoGeneration
      /\ refs' = [refs EXCEPT ![current] = @ + 1] /\ UNCHANGED reloading
      /\ UNCHANGED <<parts, phase, current, retired, reclaims, builder>>
      /\ UNCHANGED <<serviceVars, task, pending>>
    BY <1>1 DEF SubmitText, Acquire, CanAcquire, managerVars
<1>4. HeldIn(c) = current /\ Held(t) = NoGeneration /\ thread[t].at = "idle"
    BY <1>2, <1>3 DEF HeldIn, Held, At
<1>5. CallTyped(c) /\ Plain(c)
    <2>1. HeldIn(c) \in Generations \cup {NoGeneration}
        BY <1>4 DEF IInv, GenerationsTyped
    <2>2. QED
        BY <1>2, <1>3, <1>4, <2>1 DEF CallTyped, HolderPlaces,
            Plain, ReloadPlaces, DestroyPlaces, AfterQueue, TaskPlaces
<1>6. thread'[t] = c => Alike(t)
    BY <1>4, <1>5, PlainAlike DEF ReloadPlaces, TaskPlaces
<1>7. /\ CountsKept /\ TasksTyped' /\ Ending' /\ Tasked' /\ Linked' /\ Stopped'
      /\ thread'[t] = c /\ \A u \in Threads \ {t} : Alike(u)
    BY <1>2, <1>3, <1>4, <1>5, <1>6, TakesMore DEF Alike
<1>8. \A u \in Threads : ReloadAlike(u)
    BY <1>6, <1>7 DEF Alike
<1>9. Reloading'
    BY <1>3, <1>8, ReloadStays
<1>10. QED
    BY <1>7, <1>9 DEF IInv, CountsKept

LEMMA TakeLeaseKeeps ==
    ASSUME IInv, NEW t \in Threads, TakeLease(t)
    PROVE  IInv'
<1>1. At(t, "leasing") /\ UNCHANGED <<managerVars, serviceVars>>
    BY DEF TakeLease
<1>2. CallTyped(thread[t])
    BY DEF IInv, ThreadsTyped
<1>3. Held(t) = NoGeneration /\ thread[t].at = "leasing" /\ thread[t].purpose \in {"submit", "reset"}
    BY <1>1, <1>2 DEF Held, HeldIn, CallTyped, HolderPlaces, At
<1>4. CASE ~CanAcquire
    <2>1. Go(t, Idle) /\ UNCHANGED hostVars /\ UNCHANGED shuttingDown
        BY <1>1, <1>4, Untouched DEF TakeLease
    <2>2. Plain(Idle) /\ HeldIn(Idle) = Held(t) /\ Idle.at \notin HolderPlaces
        BY <1>3 DEF Idle, HolderPlaces, Plain, HeldIn, ReloadPlaces, DestroyPlaces, AfterQueue, TaskPlaces
    <2>3. thread[t].at \notin ReloadPlaces \cup TaskPlaces \cup {"reclaiming"}
        BY <1>3 DEF ReloadPlaces, TaskPlaces
    <2>4. QED
        BY <2>1, <2>2, <2>3, PlainKeeps
<1>5. CASE CanAcquire
    <2>1. PICK c : c = [at |-> thread[t].purpose, purpose |-> thread[t].purpose,
                        key |-> thread[t].key, lane |-> thread[t].lane, lease |-> current]
        OBVIOUS
    <2>2. c.at \in {"submit", "reset"} /\ c.lease = current
        BY <1>3, <2>1
    <2>3. /\ Go(t, c) /\ ~shuttingDown /\ current # NoGeneration
          /\ refs' = [refs EXCEPT ![current] = @ + 1] /\ UNCHANGED reloading
          /\ UNCHANGED <<parts, phase, current, retired, reclaims, builder>>
          /\ UNCHANGED <<serviceVars, task, pending>>
        BY <1>1, <1>5, <2>1 DEF TakeLease, Acquire, CanAcquire, managerVars
    <2>4. HeldIn(c) = current
        BY <2>2 DEF HeldIn
    <2>5. CallTyped(c) /\ c.at # "reclaiming"
        BY <2>2, <2>4 DEF CallTyped, HolderPlaces, IInv, GenerationsTyped
    <2>6. ASSUME thread'[t] = c PROVE Alike(t)
        <3>1. Bound(t) = thread[t] /\ Bound(t)' = thread'[t] /\ thread'[t].at \in {"submit", "reset"}
            BY <1>3, <2>2, <2>6 DEF Bound, At
        <3>2. ReloadAlike(t) /\ NobodyNew(t) /\ TaskAlike(t)
            BY <1>3, <3>1 DEF ReloadAlike, NobodyNew, TaskAlike, BoundFor, At, DestroyPlaces,
                AfterQueue, ReloadPlaces, TaskPlaces
        <3>3. LinkAlike(t) /\ CallAlike(t)
            BY <1>3, <3>1 DEF LinkAlike, CallAlike, At
        <3>4. QED
            BY <3>2, <3>3 DEF Alike
    <2>7. /\ CountsKept /\ TasksTyped' /\ Ending' /\ Tasked' /\ Linked' /\ Stopped'
          /\ thread'[t] = c /\ \A u \in Threads \ {t} : Alike(u)
        BY <1>3, <2>3, <2>4, <2>5, <2>6, TakesMore DEF Alike
    <2>8. \A u \in Threads : ReloadAlike(u)
        BY <2>6, <2>7 DEF Alike
    <2>9. Reloading'
        BY <2>3, <2>8, ReloadStays
    <2>10. QED
        BY <2>7, <2>9 DEF IInv, CountsKept
<1>6. QED
    BY <1>4, <1>5

LEMMA ReloadBeginKeeps ==
    ASSUME IInv, NEW t \in Threads, UNCHANGED <<managerVars, serviceVars>>, ReloadBegin(t)
    PROVE  IInv'
<1>1. PICK c : c = [at |-> "building", old |-> current]
    OBVIOUS
<1>2. c.at = "building" /\ c.old = current
    BY <1>1
<1>3. /\ At(t, "idle") /\ Go(t, c) /\ ~shuttingDown /\ ~reloading /\ reloading'
      /\ refs' = [refs EXCEPT ![current] = @ + 1]
      /\ UNCHANGED <<parts, phase, current, retired, reclaims, builder>>
      /\ UNCHANGED <<serviceVars, task, pending>>
      /\ \E g \in Generations : phase[g] = "absent"
    BY <1>1 DEF ReloadBegin, managerVars
<1>4. HeldIn(c) = current /\ Held(t) = NoGeneration /\ thread[t].at = "idle"
    BY <1>2, <1>3 DEF HeldIn, Held, At
<1>5. current # NoGeneration
    BY DEF ReloadBegin, Published, IInv, Living
<1>6. CallTyped(c) /\ c.at # "reclaiming"
    BY <1>2, <1>4, <1>5 DEF CallTyped, HolderPlaces, IInv, GenerationsTyped
<1>7. ASSUME thread'[t] = c PROVE NobodyNew(t) /\ TaskAlike(t) /\ LinkAlike(t) /\ CallAlike(t)
    <2>1. Bound(t) = thread[t] /\ Bound(t)' = thread'[t] /\ thread'[t].at = "building"
        BY <1>2, <1>4, <1>7 DEF Bound, At
    <2>2. NobodyNew(t) /\ TaskAlike(t)
        BY <1>4, <2>1 DEF NobodyNew, TaskAlike, BoundFor, At, DestroyPlaces, AfterQueue, TaskPlaces
    <2>3. LinkAlike(t) /\ CallAlike(t)
        BY <2>1 DEF LinkAlike, CallAlike, At
    <2>4. QED
        BY <2>2, <2>3
<1>8. /\ CountsKept /\ TasksTyped' /\ Ending' /\ Tasked' /\ Linked' /\ Stopped'
      /\ thread'[t] = c /\ \A u \in Threads \ {t} : Alike(u)
    BY <1>2, <1>3, <1>4, <1>5, <1>6, <1>7, TakesMore
<1>9. Reloading'
    <2>1. \A u \in Threads : ~BoundFor(u, ReloadPlaces)
        BY <1>3 DEF IInv, Reloading
    <2>2. \A u \in Threads \ {t} : ~BoundFor(u, ReloadPlaces)'
        BY <1>8, <2>1 DEF Alike, ReloadAlike
    <2>3. BoundFor(t, ReloadPlaces)'
        BY <1>2, <1>8 DEF BoundFor, Bound, At, ReloadPlaces
    <2>4. \E g \in Generations : phase'[g] = "absent"
        BY <1>3
    <2>5. QED
        BY <1>3, <2>2, <2>3, <2>4 DEF Reloading
<1>10. QED
    BY <1>8, <1>9 DEF IInv, CountsKept
-----------------------------------------------------------------------------
(* References given up, the thread's own or that of a task *)

LEMMA GivesUp ==
    ASSUME IInv, NEW t \in Threads, NEW g \in Generations \cup {NoGeneration}, NEW c,
           c.at \in AfterRelease, thread[t].at # "reclaiming", GiveUpLease(t, g, c),
           g \in Generations => Fewer(g), g = NoGeneration => Same,
           c.at = "freeing_manager" => thread[t].at = "freeing_manager",
           c.at = "reload_failed" <=> thread[t].at \in ReloadPlaces,
           c.at = "task_over" <=> thread[t].at \in TaskPlaces,
           c.at = "task_over" => c.run = thread[t].run
    PROVE  /\ CountsKept /\ Reloading' /\ Ending' /\ UNCHANGED parts
           /\ \A u \in Threads : TaskAlike(u) /\ LinkAlike(u) /\ CallAlike(u)
<1>1. /\ ThreadsTyped /\ CallTyped(c) /\ HeldIn(c) = NoGeneration /\ c.at # "reclaiming"
      /\ ~At(t, "reclaiming")
    BY DEF IInv, CallTyped, HolderPlaces, HeldIn, AfterRelease, At
<1>2. PICK d : Go(t, d) /\ d = IF g = NoGeneration THEN c ELSE Onward(g, c)
    BY DEF GiveUpLease
<1>3. thread'[t] = d /\ \A u \in Threads \ {t} : thread'[u] = thread[u]
    BY <1>1, <1>2, GoMoves
<1>4. /\ CountsKept /\ Bound(t)' = c /\ (thread'[t].at = "reclaiming" \/ thread'[t] = c)
      /\ \A h \in Generations : phase'[h] = "absent" <=> phase[h] = "absent"
      /\ UNCHANGED <<parts, reloading, shuttingDown, builder>>
      /\ Quiet => Quiet' /\ UNCHANGED <<current, retired>>
    <2>1. CASE g = NoGeneration
        <3>1. d = c /\ UNCHANGED generationVars
            BY <1>2, <2>1 DEF GiveUpLease
        <3>2. ThreadsTyped'
            BY <1>1, <1>2, <3>1, MoveTyped
        <3>3. Reclaimers' = Reclaimers /\ \A u \in Reclaimers : thread'[u] = thread[u]
            BY <1>1, <1>3, <3>1, ReclaimersMove DEF Reclaimers, At
        <3>4. /\ UNCHANGED <<parts, phase, refs, current, retired, reclaims>>
              /\ UNCHANGED <<shuttingDown, reloading, builder>>
            BY <3>1 DEF generationVars
        <3>5. CountsKept
            BY <2>1, <3>2, <3>3, <3>4, CountsStay
        <3>6. Bound(t)' = c
            BY <1>1, <1>3, <3>1 DEF Bound, At
        <3>7. Quiet' = Quiet
            BY <3>4, QuietStays
        <3>8. QED
            BY <1>3, <3>1, <3>4, <3>5, <3>6, <3>7
    <2>2. CASE g \in Generations
        <3>1. g # NoGeneration
            BY <2>2, ZeroIsNoGeneration
        <3>2. d = Onward(g, c) /\ Release(g) /\ Go(t, Onward(g, c))
            BY <1>2, <3>1 DEF GiveUpLease
        <3>3. /\ CountsKept /\ Bound(t)' = c /\ refs[g] > 0
              /\ \A h \in Generations : phase'[h] = "absent" <=> phase[h] = "absent"
            BY <1>1, <2>2, <3>2, ReleaseKeeps
        <3>4. ~Quiet
            BY <2>2, <3>3, QuietHolds
        <3>5. UNCHANGED <<parts, reloading, shuttingDown, builder>>
            BY <3>2 DEF Release
        <3>6. thread'[t].at = "reclaiming" \/ thread'[t] = c
            BY <1>3, <3>2 DEF Onward
        <3>7. QED
            BY <3>3, <3>4, <3>5, <3>6
    <2>3. QED
        BY <2>1, <2>2
<1>5. Bound(t) = thread[t]
    BY <1>1 DEF Bound
<1>6. ReloadAlike(t) /\ NobodyNew(t)
    <2>1. ReloadAlike(t)
        BY <1>4, <1>5 DEF ReloadAlike, BoundFor, At, AfterRelease, ReloadPlaces
    <2>2. NobodyNew(t)
        BY <1>4, <1>5 DEF NobodyNew, BoundFor, At, AfterRelease, DestroyPlaces, AfterQueue
    <2>3. QED
        BY <2>1, <2>2
<1>7. TaskAlike(t)
    BY <1>4, <1>5 DEF TaskAlike, BoundFor, AfterRelease, TaskPlaces
<1>8. LinkAlike(t) /\ CallAlike(t)
    BY <1>4 DEF LinkAlike, CallAlike, At, AfterRelease
<1>9. \A u \in Threads : Alike(u)
    BY <1>3, <1>6, <1>7, <1>8, StillAlike DEF Alike
<1>10. Reloading'
    BY <1>4, <1>9, ReloadStays DEF Alike
<1>11. Ending'
    BY <1>4, <1>9, EndingStays DEF Alike
<1>12. QED
    BY <1>4, <1>9, <1>10, <1>11 DEF Alike

(* A thread gives up what it holds itself. *)
LEMMA ThreadGivesUp ==
    ASSUME IInv, NEW t \in Threads, NEW c, c.at \in {"idle", "logging", "reload_failed"},
           thread[t].at \notin TaskPlaces \cup {"reclaiming"},
           c.at = "reload_failed" <=> thread[t].at \in ReloadPlaces,
           GiveUpLease(t, Held(t), c), UNCHANGED <<serviceVars, task, pending>>
    PROVE  IInv'
<1>1. /\ ThreadsTyped /\ TasksTyped /\ Linked /\ Held(t) \in Generations \cup {NoGeneration}
    BY DEF IInv, ThreadsTyped, CallTyped, HolderPlaces, Held
<1>2. PICK d : Go(t, d) /\ d = IF Held(t) = NoGeneration THEN c ELSE Onward(Held(t), c)
    BY DEF GiveUpLease
<1>3. c.at \in AfterRelease /\ c.at # "freeing_manager" /\ c.at # "task_over"
    BY DEF AfterRelease
<1>4. HeldIn(d) = NoGeneration
    <2>1. HeldIn(c) = NoGeneration
        BY DEF HeldIn
    <2>2. CASE Held(t) = NoGeneration
        BY <1>2, <2>1, <2>2
    <2>3. ASSUME NEW g \in Generations, g = Held(t) PROVE HeldIn(Onward(g, c)) = NoGeneration
        BY <1>3, OnwardLeads
    <2>4. QED
        BY <1>1, <1>2, <2>2, <2>3
<1>5. Held(t)' = NoGeneration /\ \A u \in Threads \ {t} : thread'[u] = thread[u]
    BY <1>1, <1>2, <1>4, GoMoves DEF Held
<1>6. (Held(t) \in Generations => Fewer(Held(t))) /\ (Held(t) = NoGeneration => Same)
    BY <1>1, <1>5, UsersOf
<1>7. /\ CountsKept /\ Reloading' /\ Ending' /\ UNCHANGED parts
      /\ \A u \in Threads : TaskAlike(u) /\ LinkAlike(u) /\ CallAlike(u)
    BY <1>1, <1>3, <1>6, GivesUp
<1>8. Winding /\ TasksTyped'
    BY <1>1, StillWinds, TasksStay
<1>9. Tasked'
    BY <1>7, <1>8, TaskedStays
<1>10. Linked'
    <2>1. pending \subseteq DOMAIN task
        BY <1>1 DEF Linked
    <2>2. QED
        BY <1>7, <1>8, <2>1, LinkedStays
<1>11. Stopped'
    <2>1. UNCHANGED open
        BY DEF serviceVars
    <2>2. QED
        BY <1>7, <1>8, <2>1, StoppedStays
<1>12. QED
    BY <1>7, <1>8, <1>9, <1>10, <1>11 DEF IInv, CountsKept

LEMMA ReleasesKeep ==
    ASSUME IInv, NEW t \in Threads, UNCHANGED <<managerVars, serviceVars>>,
           \/ ClaimRefused(t) \/ GiveBack(t) \/ RollBack(t) \/ Report(t)
           \/ EnqueueRefused(t) \/ ResetClears(t)
    PROVE  IInv'
<1>1. UNCHANGED <<serviceVars, task, pending>>
    BY DEF managerVars
<1>2. CASE ClaimRefused(t) \/ GiveBack(t)
    <2>1. /\ thread[t].at \in {"claiming", "giving_back"}
          /\ Release(thread[t].generation) /\ Go(t, Onward(thread[t].generation, Idle))
        BY <1>2 DEF ClaimRefused, GiveBack, At
    <2>2. Held(t) = thread[t].generation /\ Held(t) # NoGeneration /\ Idle.at = "idle"
        BY <2>1 DEF Held, HeldIn, Idle, IInv, ThreadsTyped, CallTyped, HolderPlaces
    <2>3. thread[t].at \notin TaskPlaces \cup ReloadPlaces \cup {"reclaiming"}
        BY <2>1 DEF TaskPlaces, ReloadPlaces
    <2>4. GiveUpLease(t, Held(t), Idle)
        BY <2>1, <2>2 DEF GiveUpLease
    <2>5. QED
        BY <1>1, <2>2, <2>3, <2>4, ThreadGivesUp
<1>3. CASE RollBack(t) \/ Report(t)
    <2>1. PICK c \in {[at |-> "reload_failed"], [at |-> "logging"]} :
             /\ Release(thread[t].old) /\ Go(t, Onward(thread[t].old, c))
             /\ \/ c.at = "reload_failed" /\ thread[t].at = "rolling_back"
                \/ c.at = "logging" /\ thread[t].at = "reporting"
        BY <1>3 DEF RollBack, Report, At
    <2>2. Held(t) = thread[t].old /\ Held(t) # NoGeneration
        BY <2>1 DEF Held, HeldIn, IInv, ThreadsTyped, CallTyped, HolderPlaces
    <2>3. /\ thread[t].at \notin TaskPlaces \cup {"reclaiming"}
          /\ c.at = "reload_failed" <=> thread[t].at \in ReloadPlaces
          /\ c.at \in {"idle", "logging", "reload_failed"}
        BY <2>1 DEF TaskPlaces, ReloadPlaces
    <2>4. GiveUpLease(t, Held(t), c)
        BY <2>1, <2>2 DEF GiveUpLease
    <2>5. QED
        BY <1>1, <2>3, <2>4, ThreadGivesUp
<1>4. CASE EnqueueRefused(t) \/ ResetClears(t)
    <2>1. thread[t].at \in {"submit", "clearing"} /\ GiveUpLease(t, thread[t].lease, Idle)
        BY <1>4 DEF EnqueueRefused, ResetClears, At
    <2>2. Held(t) = thread[t].lease /\ Idle.at = "idle"
        BY <2>1 DEF Held, HeldIn, Idle
    <2>3. thread[t].at \notin TaskPlaces \cup ReloadPlaces \cup {"reclaiming"}
        BY <2>1 DEF TaskPlaces, ReloadPlaces
    <2>4. GiveUpLease(t, Held(t), Idle)
        BY <2>1, <2>2
    <2>5. QED
        BY <1>1, <2>2, <2>3, <2>4, ThreadGivesUp
<1>5. QED
    BY <1>2, <1>3, <1>4
(* The lease of a task is given up by whoever runs or frees the task. *)
LEMMA LeaseGone ==
    ASSUME TasksTyped, NEW t \in Threads, NEW r \in DOMAIN task,
           \A u \in Threads \ {t} : thread'[u] = thread[u], Held(t)' = Held(t),
           DOMAIN task' \cup {r} = DOMAIN task,
           \A q \in DOMAIN task \ {r} : task'[q].lease = task[q].lease,
           r \in DOMAIN task' => task'[r].lease = NoGeneration
    PROVE  /\ task[r].lease \in Generations => Fewer(task[r].lease)
           /\ task[r].lease = NoGeneration => Same
<1>1. \A g \in Generations :
          /\ Cardinality(Holders(g)') = Cardinality(Holders(g))
          /\ Cardinality(Leases(g)') = Cardinality(Leases(g)) - (IF task[r].lease = g THEN 1 ELSE 0)
    <2>1. \A g : Cardinality(Holders(g)) \in Nat /\ Cardinality(Leases(g)) \in Nat
        BY UsersFinite
    <2>2. \A g : Cardinality(Holders(g)') = Cardinality(Holders(g))
        BY <2>1, HoldersMove
    <2>3. \A g : Cardinality(Leases(g)') =
              Cardinality(Leases(g)) + (IF r \in DOMAIN task' /\ task'[r].lease = g THEN 1 ELSE 0)
                                     - (IF r \in DOMAIN task /\ task[r].lease = g THEN 1 ELSE 0)
        BY LeasesMove
    <2>4. \A g \in Generations : g # NoGeneration
        BY ZeroIsNoGeneration
    <2>5. QED
        BY <2>1, <2>2, <2>3, <2>4
<1>2. \A g : Cardinality(Holders(g)) \in Nat /\ Cardinality(Leases(g)) \in Nat
    BY UsersFinite
<1>3. Users(task[r].lease) > 0
    <2>1. r \in Leases(task[r].lease)
        BY DEF Leases
    <2>2. Cardinality(Leases(task[r].lease)) # 0
        BY <2>1, UsersFinite, FS_EmptySet
    <2>3. QED
        BY <1>2, <2>2 DEF Users
<1>4. \A g \in Generations : Users(g)' = Users(g) - (IF task[r].lease = g THEN 1 ELSE 0)
    BY <1>1, <1>2 DEF Users
<1>5. \A g : Users(g) \in Nat
    BY <1>2 DEF Users
<1>6. CASE task[r].lease \in Generations
    BY <1>3, <1>4, <1>6, ZeroIsNoGeneration DEF Fewer
<1>7. CASE task[r].lease \notin Generations
    BY <1>4, <1>5, <1>7 DEF Same
<1>8. QED
    BY <1>6, <1>7, ZeroIsNoGeneration

LEMMA TaskGivesUp ==
    ASSUME IInv, NEW t \in Threads, NEW r \in DOMAIN task, NEW c,
           c.at \in {"idle", "task_over", "freeing_manager"},
           thread[t].at \in {"task", "taking", "freeing_manager"},
           c.at = "freeing_manager" => thread[t].at = "freeing_manager",
           c.at = "task_over" <=> thread[t].at = "task",
           c.at = "task_over" => c.run = thread[t].run,
           GiveUpLease(t, task[r].lease, c), UNCHANGED serviceVars,
           task' = [q \in DOMAIN task' |-> task'[q]],
           DOMAIN task' \cup {r} = DOMAIN task,
           \A q \in DOMAIN task \ {r} : task'[q].lease = task[q].lease,
           r \in DOMAIN task' => task'[r].lease = NoGeneration,
           r \notin DOMAIN task' => r \in pending /\ run[r].phase \notin {"pending", "running"},
           pending' \subseteq pending \cap DOMAIN task'
    PROVE  IInv'
<1>1. ThreadsTyped /\ TasksTyped /\ Winding
    BY StillWinds DEF IInv
<1>2. PICK g \in Generations \cup {NoGeneration} : g = task[r].lease
    BY <1>1 DEF TasksTyped
<1>3. /\ c.at \in AfterRelease /\ HeldIn(c) = NoGeneration /\ Held(t) = NoGeneration
      /\ thread[t].at # "reclaiming" /\ thread[t].at \notin ReloadPlaces /\ c.at # "reload_failed"
      /\ c.at = "task_over" <=> thread[t].at \in TaskPlaces
    BY DEF AfterRelease, HeldIn, Held, ReloadPlaces, TaskPlaces
<1>4. PICK d : Go(t, d) /\ d = IF g = NoGeneration THEN c ELSE Onward(g, c)
    BY <1>2 DEF GiveUpLease
<1>5. HeldIn(d) = NoGeneration
    BY <1>3, <1>4, OnwardLeads
<1>6. Held(t)' = Held(t) /\ \A u \in Threads \ {t} : thread'[u] = thread[u]
    BY <1>1, <1>3, <1>4, <1>5, GoMoves DEF Held
<1>7. (g \in Generations => Fewer(g)) /\ (g = NoGeneration => Same)
    BY <1>1, <1>2, <1>6, LeaseGone
<1>8. GiveUpLease(t, g, c)
    BY <1>2
<1>9. /\ CountsKept /\ Reloading' /\ Ending' /\ UNCHANGED parts
      /\ \A u \in Threads : TaskAlike(u) /\ LinkAlike(u) /\ CallAlike(u)
    BY <1>3, <1>7, <1>8, GivesUp
<1>10. TasksTyped'
    <2>1. \A q \in DOMAIN task' : task'[q].lease \in Generations \cup {NoGeneration}
        BY <1>1 DEF TasksTyped
    <2>2. UNCHANGED <<accepted, run>>
        BY DEF serviceVars
    <2>3. DOMAIN task' \subseteq 1..accepted
        BY <1>1 DEF TasksTyped
    <2>4. QED
        BY <1>1, <2>1, <2>2, <2>3 DEF TasksTyped
<1>11. Tasked'
    BY <1>1, <1>9, TaskedStays
<1>12. Linked'
    BY <1>1, <1>9, LinkedStays
<1>13. Stopped'
    <2>1. UNCHANGED open
        BY DEF serviceVars
    <2>2. QED
        BY <1>1, <1>9, <2>1, StoppedStays
<1>14. QED
    BY <1>9, <1>10, <1>11, <1>12, <1>13 DEF IInv, CountsKept

LEMMA TaskReturnsKeeps ==
    ASSUME IInv, NEW t \in Threads, TaskReturns(t)
    PROVE  IInv'
<1>1. thread[t].at = "task" /\ pending' = pending /\ UNCHANGED serviceVars
    BY DEF TaskReturns, At
<1>2. PICK r : r = thread[t].run
    OBVIOUS
<1>3. PICK response \in BOOLEAN :
         /\ task' = [task EXCEPT ![r] = [lease |-> NoGeneration, response |-> response]]
         /\ GiveUpLease(t, task[r].lease, [at |-> "task_over", run |-> r, ok |-> response])
    BY <1>2 DEF TaskReturns
<1>4. PICK c : c = [at |-> "task_over", run |-> r, ok |-> response]
    OBVIOUS
<1>5. c.at = "task_over" /\ c.run = thread[t].run /\ GiveUpLease(t, task[r].lease, c)
    BY <1>2, <1>3, <1>4
<1>6. r \in DOMAIN task
    <2>1. BoundFor(t, TaskPlaces) /\ Bound(t).run = r
        BY <1>1, <1>2 DEF BoundFor, Bound, At, TaskPlaces
    <2>2. QED
        BY <2>1 DEF IInv, Tasked
<1>7. /\ task' = [q \in DOMAIN task' |-> task'[q]] /\ DOMAIN task' = DOMAIN task
      /\ \A q \in DOMAIN task \ {r} : task'[q].lease = task[q].lease
      /\ task'[r].lease = NoGeneration
    BY <1>3, <1>6
<1>8. pending' \subseteq pending \cap DOMAIN task'
    BY <1>1, <1>7 DEF IInv, Linked
<1>9. QED
    BY <1>1, <1>5, <1>6, <1>7, <1>8, TaskGivesUp

(* Freeing a task with its record *)
LEMMA TaskFreed ==
    ASSUME IInv, NEW t \in Threads, NEW r \in pending, NEW c,
           \/ c.at = "idle" /\ thread[t].at = "taking"
           \/ c.at = "freeing_manager" /\ thread[t].at = "freeing_manager",
           run[r].phase \notin {"pending", "running"},
           task' = [q \in DOMAIN task \ {r} |-> task[q]], pending' = pending \ {r},
           GiveUpLease(t, task[r].lease, c), UNCHANGED serviceVars
    PROVE  IInv'
<1>1. pending \subseteq DOMAIN task /\ r \in DOMAIN task
    BY DEF IInv, Linked
<1>2. /\ DOMAIN task' = DOMAIN task \ {r} /\ task' = [q \in DOMAIN task' |-> task'[q]]
      /\ DOMAIN task' \cup {r} = DOMAIN task
      /\ \A q \in DOMAIN task \ {r} : task'[q].lease = task[q].lease
    BY <1>1
<1>3. pending' \subseteq pending \cap DOMAIN task'
    BY <1>1, <1>2
<1>4. QED
    BY <1>1, <1>2, <1>3, TaskGivesUp

LEMMA TakePendingKeeps ==
    ASSUME IInv, NEW t \in Threads, TakePending(t)
    PROVE  IInv'
<1>1. thread[t].at = "taking" /\ UNCHANGED serviceVars /\ Idle.at = "idle"
    BY DEF TakePending, At, Idle
<1>2. CASE thread[t].run \in pending
    <2>1. PICK r \in pending : r = thread[t].run
        BY <1>2
    <2>2. /\ task' = [q \in DOMAIN task \ {r} |-> task[q]] /\ pending' = pending \ {r}
          /\ GiveUpLease(t, task[r].lease, Idle)
        BY <1>2, <2>1 DEF TakePending
    <2>3. run[r].phase = "gone"
        BY <1>1, <2>1 DEF IInv, Linked, At
    <2>4. QED
        BY <1>1, <2>2, <2>3, TaskFreed
<1>3. CASE thread[t].run \notin pending
    <2>1. Go(t, Idle) /\ UNCHANGED hostVars /\ UNCHANGED shuttingDown
        BY <1>1, <1>3 DEF TakePending, hostVars, generationVars
    <2>2. Plain(Idle) /\ HeldIn(Idle) = Held(t) /\ Idle.at \notin HolderPlaces
        BY <1>1 DEF Idle, HolderPlaces, Plain, HeldIn, Held, ReloadPlaces, DestroyPlaces, AfterQueue,
            TaskPlaces
    <2>3. thread[t].at \notin ReloadPlaces \cup TaskPlaces \cup {"reclaiming"}
        BY <1>1 DEF ReloadPlaces, TaskPlaces
    <2>4. QED
        BY <2>1, <2>2, <2>3, PlainKeeps
<1>4. QED
    BY <1>2, <1>3

LEMMA FreePendingKeeps ==
    ASSUME IInv, NEW t \in Threads, FreePending(t)
    PROVE  IInv'
<1>1. thread[t].at = "freeing_manager" /\ UNCHANGED serviceVars
    BY DEF FreePending, At
<1>2. PICK r \in pending : /\ task' = [q \in DOMAIN task \ {r} |-> task[q]]
                           /\ pending' = pending \ {r}
                           /\ GiveUpLease(t, task[r].lease, thread[t])
    BY DEF FreePending
<1>3. run[r].phase \notin {"pending", "running"}
    <2>1. r \in 1..accepted
        BY DEF IInv, Linked, TasksTyped
    <2>2. "run_queue" \notin parts
        <3>1. BoundFor(t, AfterQueue)
            BY <1>1 DEF BoundFor, Bound, At, AfterQueue
        <3>2. QED
            BY <3>1 DEF IInv, Ending
    <2>3. QED
        BY <2>1, <2>2 DEF IInv, Stopped
<1>4. PICK c : c = thread[t]
    OBVIOUS
<1>5. QED
    BY <1>1, <1>2, <1>3, <1>4, TaskFreed
-----------------------------------------------------------------------------
(* The run queue at work: nothing of the builder changes *)

LEMMA BuilderStays ==
    ASSUME IInv, NEW t \in Threads, NEW c, Go(t, c), CallTyped(c),
           thread[t].at # "reclaiming", c.at # "reclaiming", Same,
           thread'[t] = c => ReloadAlike(t) /\ NobodyNew(t), UNCHANGED generationVars
    PROVE  /\ CountsKept /\ Reloading' /\ Ending' /\ UNCHANGED parts
           /\ thread'[t] = c /\ \A u \in Threads \ {t} : Alike(u)
<1>1. /\ ThreadsTyped' /\ thread'[t] = c
      /\ \A u \in Threads \ {t} : thread'[u] = thread[u]
    BY GoMoves, MoveTyped DEF IInv
<1>2. /\ UNCHANGED <<parts, phase, refs, current, retired, reclaims>>
      /\ UNCHANGED <<shuttingDown, reloading, builder>>
    BY DEF generationVars
<1>3. Reclaimers' = Reclaimers /\ \A u \in Reclaimers : thread'[u] = thread[u]
    BY <1>1, ReclaimersMove DEF Reclaimers, At
<1>4. CountsKept
    BY <1>1, <1>2, <1>3, CountsStay
<1>5. \A u \in Threads \ {t} : Alike(u)
    BY <1>1, StillAlike
<1>6. \A u \in Threads : ReloadAlike(u) /\ NobodyNew(u)
    BY <1>1, <1>5 DEF Alike
<1>7. Reloading'
    BY <1>2, <1>6, ReloadStays
<1>8. Ending'
    <2>1. Quiet' = Quiet
        BY <1>2, QuietStays
    <2>2. QED
        BY <1>2, <1>6, <2>1, EndingStays
<1>9. QED
    BY <1>1, <1>2, <1>4, <1>5, <1>7, <1>8

LEMMA SameWithTask ==
    ASSUME IInv, NEW t \in Threads, NEW c, Go(t, c), HeldIn(c) = Held(t), UNCHANGED task
    PROVE  Same
<1>1. /\ TasksTyped /\ thread'[t] = c
      /\ \A u \in Threads \ {t} : thread'[u] = thread[u]
    BY GoMoves DEF IInv
<1>2. QED
    BY <1>1, UsersOf DEF Held

(* Between places that concern neither the builder nor a reference *)
QuietPlaces == {"idle", "linking", "task", "task_over", "collecting", "taking"}

LEMMA QuietMove ==
    ASSUME NEW t, thread[t].at \in QuietPlaces, NEW c, c.at \in QuietPlaces
    PROVE  /\ CallTyped(c) /\ HeldIn(c) = NoGeneration /\ Held(t) = NoGeneration
           /\ thread[t].at # "reclaiming" /\ c.at # "reclaiming"
           /\ thread'[t] = c => /\ ReloadAlike(t) /\ NobodyNew(t) /\ CallAlike(t)
                               /\ Bound(t) = thread[t] /\ Bound(t)' = c
<1>1. HeldIn(c) = NoGeneration /\ Held(t) = NoGeneration
    BY DEF HeldIn, Held, QuietPlaces
<1>2. CallTyped(c) /\ thread[t].at # "reclaiming" /\ c.at # "reclaiming"
    BY <1>1 DEF CallTyped, HolderPlaces, QuietPlaces
<1>3. ASSUME thread'[t] = c
      PROVE  ReloadAlike(t) /\ NobodyNew(t) /\ CallAlike(t) /\ Bound(t) = thread[t] /\ Bound(t)' = c
    <2>1. Bound(t) = thread[t] /\ Bound(t)' = c
        BY <1>2, <1>3 DEF Bound, At
    <2>2. ReloadAlike(t)
        BY <1>3, <2>1 DEF ReloadAlike, BoundFor, At, QuietPlaces, ReloadPlaces
    <2>3. NobodyNew(t)
        BY <1>3, <2>1 DEF NobodyNew, BoundFor, At, QuietPlaces, DestroyPlaces, AfterQueue
    <2>4. CallAlike(t)
        BY <1>3 DEF CallAlike, At, QuietPlaces
    <2>5. QED
        BY <2>1, <2>2, <2>3, <2>4
<1>4. QED
    BY <1>1, <1>2, <1>3

LEMMA StartTaskKeeps ==
    ASSUME IInv, NEW t \in Threads, StartTask(t)
    PROVE  IInv'
<1>1. /\ t \in Workers /\ thread[t].at = "idle" /\ UNCHANGED generationVars
      /\ UNCHANGED <<task, pending>>
    BY DEF StartTask, At, managerVars
<1>2. PICK r \in DOMAIN run : Start(r) /\ Go(t, [at |-> "task", run |-> r])
    BY DEF StartTask
<1>3. PICK c : c = [at |-> "task", run |-> r]
    OBVIOUS
<1>4. c.at = "task" /\ c.run = r /\ Go(t, c)
    BY <1>2, <1>3
<1>5. PICK C \in SUBSET (Phase("pending") \ {r}) :
         run' = [After(C, {}) EXCEPT ![r] = Running(run[r].session, run[r].lane)]
    BY <1>2 DEF Start
<1>6. open /\ open' = open /\ accepted' = accepted /\ r \in 1..accepted /\ run[r].phase = "pending"
    BY <1>2 DEF Start, Phase, IInv, TasksTyped
<1>7. /\ DOMAIN run' = 1..accepted /\ run'[r].phase = "running"
      /\ \A q \in 1..accepted \ {r} :
            /\ run'[q].phase \in {"pending", "running", "done", "gone"}
            /\ run'[q].phase = "pending" => run[q].phase = "pending"
            /\ run'[q].phase = "running" <=> run[q].phase = "running"
            /\ run[q].phase = "gone" => run'[q].phase = "gone"
    <2>1. DOMAIN run = 1..accepted
        BY DEF IInv, TasksTyped
    <2>2. \A q \in 1..accepted \ {r} :
             /\ q \in C => run[q].phase = "pending" /\ run'[q] = Done("cancelled")
             /\ q \notin C => run'[q] = run[q]
        BY <1>5, <2>1 DEF After, Phase
    <2>3. DOMAIN run' = 1..accepted /\ run'[r] = Running(run[r].session, run[r].lane)
        BY <1>5, <1>6, <2>1 DEF After
    <2>4. \A q \in 1..accepted : run[q].phase \in {"pending", "running", "done", "gone"}
        BY DEF IInv, TasksTyped
    <2>5. QED
        BY <2>2, <2>3, <2>4 DEF Done, Running
<1>8. /\ CallTyped(c) /\ HeldIn(c) = NoGeneration /\ Held(t) = NoGeneration
      /\ thread[t].at # "reclaiming" /\ c.at # "reclaiming"
      /\ thread'[t] = c => /\ ReloadAlike(t) /\ NobodyNew(t) /\ CallAlike(t)
                          /\ Bound(t) = thread[t] /\ Bound(t)' = c
    BY <1>1, <1>4, QuietMove DEF QuietPlaces
<1>9. Same
    BY <1>1, <1>4, <1>8, SameWithTask
<1>10. /\ CountsKept /\ Reloading' /\ Ending' /\ UNCHANGED parts
       /\ thread'[t] = c /\ \A u \in Threads \ {t} : Alike(u)
    BY <1>1, <1>4, <1>8, <1>9, BuilderStays
<1>11. TasksTyped'
    BY <1>1, <1>6, <1>7 DEF IInv, TasksTyped
<1>12. Tasked'
    <2>1. Tasked
        BY DEF IInv
    <2>2. \A u \in Threads \ {t} : TaskAlike(u)
        BY <1>10 DEF Alike
    <2>3. ~BoundFor(t, TaskPlaces) /\ BoundFor(t, TaskPlaces)' /\ Bound(t).run' = r
        BY <1>1, <1>4, <1>8, <1>10 DEF BoundFor, TaskPlaces
    <2>4. \A q \in 1..accepted : run'[q].phase \in {"pending", "running"} => q \in DOMAIN task
        BY <1>6, <1>7, <2>1 DEF Tasked
    <2>5. \A v \in Threads \ {t} : BoundFor(v, TaskPlaces)' =>
              /\ v \in Workers /\ Bound(v).run' \in 1..accepted /\ run[Bound(v).run'].phase = "running"
        BY <2>1, <2>2 DEF Tasked, TaskAlike
    <2>6. \A v \in Threads : BoundFor(v, TaskPlaces)' =>
              /\ v \in Workers /\ Bound(v).run' \in 1..accepted
              /\ run'[Bound(v).run'].phase = "running"
              /\ v # t => Bound(v).run' # r
        BY <1>1, <1>6, <1>7, <2>3, <2>5
    <2>7. \A v, w \in Threads :
              BoundFor(v, TaskPlaces)' /\ BoundFor(w, TaskPlaces)' /\ Bound(v).run' = Bound(w).run'
              => v = w
        BY <2>1, <2>2, <2>3, <2>6 DEF Tasked, TaskAlike
    <2>8. \A q \in 1..accepted : run'[q].phase = "running" =>
              \E w \in Threads : BoundFor(w, TaskPlaces)' /\ Bound(w).run' = q
        BY <1>7, <2>1, <2>2, <2>3 DEF Tasked, TaskAlike
    <2>9. QED
        BY <1>1, <1>6, <2>4, <2>6, <2>7, <2>8 DEF Tasked
<1>13. Linked'
    <2>1. \A u \in Threads : u # t => LinkAlike(u)
        BY <1>10 DEF Alike
    <2>2. ~At(t, "linking")' /\ ~At(t, "collecting")' /\ ~At(t, "taking")'
        BY <1>4, <1>10 DEF At
    <2>3. \A q \in 1..accepted : run[q].phase = "gone" => run'[q].phase = "gone"
        BY <1>6, <1>7
    <2>4. QED
        BY <1>1, <1>6, <2>1, <2>2, <2>3 DEF IInv, Linked, LinkAlike
<1>14. Stopped'
    <2>1. "run_queue" \in parts
        BY <1>6 DEF IInv, Stopped
    <2>2. \A u \in Threads : CallAlike(u)
        BY <1>8, <1>10 DEF Alike
    <2>3. QED
        BY <1>6, <1>10, <2>1, <2>2 DEF IInv, Stopped, CallAlike
<1>15. QED
    BY <1>10, <1>11, <1>12, <1>13, <1>14 DEF IInv, CountsKept
LEMMA TaskOverKeeps ==
    ASSUME IInv, NEW t \in Threads, TaskOver(t)
    PROVE  IInv'
<1>1. /\ t \in Threads /\ thread[t].at = "task_over" /\ UNCHANGED generationVars
      /\ UNCHANGED <<task, pending>>
    BY DEF TaskOver, At, managerVars
<1>2. PICK r : r = thread[t].run
    OBVIOUS
<1>3. Finish(r) /\ Go(t, Idle) /\ Idle.at = "idle"
    BY <1>2 DEF TaskOver, Idle
<1>4. BoundFor(t, TaskPlaces) /\ Bound(t) = thread[t]
    BY <1>1 DEF BoundFor, Bound, At, TaskPlaces
<1>5. r \in 1..accepted /\ run[r].phase = "running"
    BY <1>2, <1>4 DEF IInv, Tasked
<1>6. /\ open' = open /\ accepted' = accepted /\ DOMAIN run' = 1..accepted
      /\ run'[r].phase \in {"done", "gone"} /\ \A q \in 1..accepted \ {r} : run'[q] = run[q]
    <2>1. DOMAIN run = 1..accepted
        BY DEF IInv, TasksTyped
    <2>2. PICK v \in {Done("ok"), Done("cancelled"), Gone} : run' = [run EXCEPT ![r] = v]
        BY <1>3 DEF Finish
    <2>3. v.phase \in {"done", "gone"}
        BY <2>2 DEF Done, Gone
    <2>4. QED
        BY <1>3, <1>5, <2>1, <2>2, <2>3 DEF Finish
<1>7. /\ CallTyped(Idle) /\ HeldIn(Idle) = NoGeneration /\ Held(t) = NoGeneration
      /\ thread[t].at # "reclaiming" /\ Idle.at # "reclaiming"
      /\ thread'[t] = Idle => /\ ReloadAlike(t) /\ NobodyNew(t) /\ CallAlike(t)
                             /\ Bound(t) = thread[t] /\ Bound(t)' = Idle
    BY <1>1, <1>3, QuietMove DEF QuietPlaces
<1>8. Same
    BY <1>1, <1>3, <1>7, SameWithTask
<1>9. /\ CountsKept /\ Reloading' /\ Ending' /\ UNCHANGED parts
      /\ thread'[t] = Idle /\ \A u \in Threads \ {t} : Alike(u)
    BY <1>1, <1>3, <1>7, <1>8, BuilderStays
<1>10. TasksTyped'
    <2>1. \A q \in 1..accepted : run'[q].phase \in {"pending", "running", "done", "gone"}
        BY <1>6 DEF IInv, TasksTyped
    <2>2. QED
        BY <1>1, <1>6, <2>1 DEF IInv, TasksTyped
<1>11. Tasked'
    <2>1. Tasked
        BY DEF IInv
    <2>2. \A u \in Threads \ {t} : TaskAlike(u)
        BY <1>9 DEF Alike
    <2>3. ~BoundFor(t, TaskPlaces)' /\ Bound(t).run = r
        BY <1>2, <1>3, <1>4, <1>7, <1>9 DEF BoundFor, TaskPlaces
    <2>4. \A q \in 1..accepted : run'[q].phase \in {"pending", "running"} => q \in DOMAIN task
        BY <1>6, <2>1 DEF Tasked
    <2>5. \A v \in Threads \ {t} : BoundFor(v, TaskPlaces)' => Bound(v).run' # r
        BY <1>4, <2>1, <2>2, <2>3 DEF Tasked, TaskAlike
    <2>6. \A v \in Threads : BoundFor(v, TaskPlaces)' =>
              v \in Workers /\ Bound(v).run' \in 1..accepted /\ run'[Bound(v).run'].phase = "running"
        BY <1>6, <2>1, <2>2, <2>3, <2>5 DEF Tasked, TaskAlike
    <2>7. \A v, w \in Threads :
              BoundFor(v, TaskPlaces)' /\ BoundFor(w, TaskPlaces)' /\ Bound(v).run' = Bound(w).run'
              => v = w
        BY <2>1, <2>2, <2>3 DEF Tasked, TaskAlike
    <2>8. \A q \in 1..accepted : run'[q].phase = "running" =>
              \E w \in Threads : BoundFor(w, TaskPlaces)' /\ Bound(w).run' = q
        <3>1. ASSUME NEW q \in 1..accepted, run'[q].phase = "running"
              PROVE  q # r /\ run[q].phase = "running"
            BY <1>6, <3>1
        <3>2. QED
            BY <2>1, <2>2, <2>3, <3>1 DEF Tasked, TaskAlike
    <2>9. QED
        BY <1>1, <1>6, <2>4, <2>6, <2>7, <2>8 DEF Tasked
<1>12. Linked'
    <2>1. \A u \in Threads : u # t => LinkAlike(u)
        BY <1>9 DEF Alike
    <2>2. ~At(t, "linking")' /\ ~At(t, "collecting")' /\ ~At(t, "taking")'
        BY <1>3, <1>9 DEF At
    <2>3. \A q \in 1..accepted : run[q].phase = "gone" => run'[q].phase = "gone"
        BY <1>5, <1>6
    <2>4. QED
        BY <1>1, <1>6, <2>1, <2>2, <2>3 DEF IInv, Linked, LinkAlike
<1>13. Stopped'
    <2>1. \A u \in Threads : CallAlike(u)
        BY <1>7, <1>9 DEF Alike
    <2>2. \A q \in 1..accepted : run'[q].phase \in {"pending", "running"} => run'[q] = run[q]
        BY <1>6
    <2>3. QED
        BY <1>6, <1>9, <2>1, <2>2 DEF IInv, Stopped, CallAlike
<1>14. QED
    BY <1>9, <1>10, <1>11, <1>12, <1>13 DEF IInv, CountsKept

(* Steps that only wind runs down *)
LEMMA WindingKeeps ==
    ASSUME IInv, CountsKept, Reloading', Ending', Winding, UNCHANGED <<parts, task, pending>>,
           open' = open \/ \A r \in 1..accepted : run'[r].phase # "pending",
           \A u \in Threads : TaskAlike(u) /\ LinkAlike(u) /\ CallAlike(u)
    PROVE  IInv'
<1>1. TasksTyped' /\ Tasked'
    BY TasksStay, TaskedStays DEF IInv
<1>2. Linked'
    <2>1. pending \subseteq DOMAIN task
        BY DEF IInv, Linked
    <2>2. QED
        BY <2>1, LinkedStays
<1>3. Stopped'
    <2>1. CASE open' = open
        BY <2>1, StoppedStays
    <2>2. CASE \A r \in 1..accepted : run'[r].phase # "pending"
        BY <2>2 DEF IInv, Stopped, Winding, CallAlike
    <2>3. QED
        BY <2>1, <2>2
<1>4. QED
    BY <1>1, <1>2, <1>3 DEF IInv, CountsKept

LEMMA NobodyMoves ==
    ASSUME IInv, UNCHANGED <<generationVars, task, pending, thread>>, Winding,
           open' = open \/ \A r \in 1..accepted : run'[r].phase # "pending"
    PROVE  IInv'
<1>1. /\ UNCHANGED <<parts, phase, refs, current, retired, reclaims>>
      /\ UNCHANGED <<shuttingDown, reloading, builder>>
    BY DEF generationVars
<1>2. \A u \in Threads : Alike(u)
    BY StillAlike
<1>3. CountsKept
    <2>1. ThreadsTyped' /\ Reclaimers' = Reclaimers
        BY DEF IInv, ThreadsTyped, Reclaimers, At
    <2>2. Same
        <3>1. \A g : Holders(g)' = Holders(g) /\ Leases(g)' = Leases(g)
            BY DEF Holders, Held, Leases
        <3>2. QED
            BY <3>1 DEF Same, Users
    <2>3. QED
        BY <1>1, <2>1, <2>2, CountsStay
<1>4. Reloading'
    BY <1>1, <1>2, ReloadStays DEF Alike
<1>5. Ending'
    <2>1. Quiet' = Quiet
        BY <1>1, QuietStays
    <2>2. QED
        BY <1>1, <1>2, <2>1, EndingStays DEF Alike
<1>6. QED
    BY <1>1, <1>2, <1>3, <1>4, <1>5, WindingKeeps DEF Alike

LEMMA QueueKeeps ==
    ASSUME IInv, NEW t,
           \/ Interrupt(t) \/ QueueCloses(t) \/ Purge
    PROVE  IInv'
<1>1. UNCHANGED <<generationVars, task, pending, thread>> /\ TasksTyped
    BY DEF Interrupt, QueueCloses, Purge, managerVars, IInv
<1>2. CASE Interrupt(t)
    <2>1. PICK C \in SUBSET Phase("pending") : Cancel(C)
        BY <1>2 DEF Interrupt, PendingOf
    <2>2. PICK G \in SUBSET Phase("done") : G = {}
        OBVIOUS
    <2>3. run' = After(C, G) /\ accepted' = accepted /\ open' = open
        BY <2>1, <2>2 DEF Cancel
    <2>4. Winding
        BY <1>1, <2>3, AfterWinds
    <2>5. QED
        BY <1>1, <2>3, <2>4, NobodyMoves
<1>3. CASE Purge
    <2>1. PICK r \in Phase("done") : Dispose({r})
        BY <1>3 DEF Purge
    <2>2. PICK G \in SUBSET Phase("done"), C \in SUBSET Phase("pending") : G = {r} /\ C = {}
        BY <2>1
    <2>3. run' = After(C, G) /\ accepted' = accepted /\ open' = open
        BY <2>1, <2>2 DEF Dispose
    <2>4. Winding
        BY <1>1, <2>3, AfterWinds
    <2>5. QED
        BY <1>1, <2>3, <2>4, NobodyMoves
<1>4. CASE QueueCloses(t)
    <2>1. PICK C \in SUBSET Phase("pending"), G \in SUBSET Phase("done") : C = Phase("pending") /\ G = {}
        OBVIOUS
    <2>2. run' = After(C, G) /\ accepted' = accepted /\ ~open'
        BY <1>4, <2>1 DEF QueueCloses, Close
    <2>3. Winding
        BY <1>1, <2>2, AfterWinds
    <2>4. \A r \in 1..accepted : run'[r].phase # "pending"
        <3>1. \A r \in 1..accepted :
                 /\ r \in C => run'[r] = Done("cancelled")
                 /\ r \notin C => run'[r] = run[r]
            BY <1>1, <2>1, <2>2 DEF After, TasksTyped
        <3>2. \A r \in 1..accepted : r \in C <=> run[r].phase = "pending"
            BY <1>1, <2>1 DEF Phase, TasksTyped
        <3>3. QED
            BY <3>1, <3>2 DEF Done
    <2>5. QED
        BY <1>1, <2>3, <2>4, NobodyMoves
<1>5. QED
    BY <1>2, <1>3, <1>4

LEMMA ResetKeeps ==
    ASSUME IInv, NEW t \in Threads, ResetInterrupts(t)
    PROVE  IInv'
<1>1. /\ thread[t].at = "reset" /\ UNCHANGED generationVars /\ UNCHANGED <<task, pending>>
      /\ TasksTyped
    BY DEF ResetInterrupts, At, managerVars, IInv
<1>2. PICK C \in SUBSET Phase("pending"), G \in SUBSET Phase("done") : Cancel(C) /\ G = {}
    BY DEF ResetInterrupts, PendingOf
<1>3. run' = After(C, G) /\ accepted' = accepted /\ open' = open
    BY <1>2 DEF Cancel
<1>4. Winding
    BY <1>1, <1>3, AfterWinds
<1>5. PICK c : c = [at |-> "clearing", lease |-> thread[t].lease]
    OBVIOUS
<1>6. c.at = "clearing" /\ c.lease = thread[t].lease /\ Go(t, c)
    BY <1>5 DEF ResetInterrupts
<1>7. HeldIn(c) = Held(t)
    BY <1>1, <1>6 DEF HeldIn, Held
<1>8. CallTyped(c) /\ Plain(c)
    <2>1. CallTyped(thread[t])
        BY DEF IInv, ThreadsTyped
    <2>2. QED
        BY <1>6, <1>7, <2>1 DEF CallTyped, Held, HolderPlaces, Plain, ReloadPlaces, DestroyPlaces,
            AfterQueue, TaskPlaces
<1>9. thread'[t] = c => Alike(t)
    BY <1>1, <1>8, PlainAlike DEF ReloadPlaces, TaskPlaces
<1>10. Same
    BY <1>1, <1>6, <1>7, SameWithTask
<1>11. /\ CountsKept /\ Reloading' /\ Ending' /\ UNCHANGED parts
       /\ thread'[t] = c /\ \A u \in Threads \ {t} : Alike(u)
    BY <1>1, <1>6, <1>8, <1>9, <1>10, BuilderStays DEF Alike
<1>12. \A u \in Threads : TaskAlike(u) /\ LinkAlike(u) /\ CallAlike(u)
    BY <1>9, <1>11 DEF Alike
<1>13. QED
    BY <1>1, <1>3, <1>4, <1>11, <1>12, WindingKeeps

(* The collector and the submitter on their way *)
LEMMA CollectorMoves ==
    ASSUME IInv, NEW t \in Threads, NEW c, Go(t, c),
           thread[t].at \in QuietPlaces \ TaskPlaces, c.at \in QuietPlaces \ TaskPlaces,
           UNCHANGED generationVars, UNCHANGED task, Winding, UNCHANGED open
    PROVE  /\ CountsKept /\ Reloading' /\ Ending' /\ TasksTyped' /\ Tasked' /\ Stopped'
           /\ thread'[t] = c /\ \A u \in Threads \ {t} : Alike(u)
<1>1. /\ CallTyped(c) /\ HeldIn(c) = NoGeneration /\ Held(t) = NoGeneration
      /\ thread[t].at # "reclaiming" /\ c.at # "reclaiming"
      /\ thread'[t] = c => /\ ReloadAlike(t) /\ NobodyNew(t) /\ CallAlike(t)
                          /\ Bound(t) = thread[t] /\ Bound(t)' = c
    BY QuietMove
<1>2. Same
    BY <1>1, SameWithTask
<1>3. /\ CountsKept /\ Reloading' /\ Ending' /\ UNCHANGED parts
      /\ thread'[t] = c /\ \A u \in Threads \ {t} : Alike(u)
    BY <1>1, <1>2, BuilderStays
<1>4. TaskAlike(t) /\ CallAlike(t)
    BY <1>1, <1>3 DEF TaskAlike, BoundFor
<1>5. TasksTyped'
    BY TasksStay DEF IInv
<1>6. Tasked'
    BY <1>3, <1>4, TaskedStays DEF Alike
<1>7. Stopped'
    BY <1>3, <1>4, StoppedStays DEF Alike
<1>8. QED
    BY <1>3, <1>5, <1>6, <1>7

LEMMA QueueAnswersKeeps ==
    ASSUME IInv, NEW t \in Threads, QueueAnswers(t)
    PROVE  IInv'
<1>1. /\ thread[t].at = "collecting" /\ UNCHANGED generationVars /\ UNCHANGED <<task, pending>>
      /\ TasksTyped /\ Linked
    BY DEF QueueAnswers, At, managerVars, IInv
<1>2. PICK r : r = thread[t].run
    OBVIOUS
<1>3. r \in 1..accepted
    BY <1>1, <1>2 DEF Linked, At
<1>4. PICK ok : Go(t, [at |-> "taking", run |-> r, ok |-> ok])
    BY <1>2 DEF QueueAnswers
<1>5. PICK c : c = [at |-> "taking", run |-> r, ok |-> ok]
    OBVIOUS
<1>6. c.at = "taking" /\ c.run = r /\ Go(t, c)
    BY <1>4, <1>5
<1>7. Winding /\ open' = open /\ run'[r].phase = "gone"
    <2>1. CASE run[r].phase = "done" /\ Dispose({r})
        <3>1. r \in Phase("done")
            BY <1>1, <1>3, <2>1 DEF Phase, TasksTyped
        <3>2. PICK G \in SUBSET Phase("done"), C \in SUBSET Phase("pending") : G = {r} /\ C = {}
            BY <3>1
        <3>3. run' = After(C, G) /\ accepted' = accepted /\ open' = open
            BY <2>1, <3>2 DEF Dispose
        <3>4. run'[r] = Gone
            BY <1>1, <1>3, <3>2, <3>3 DEF After, TasksTyped
        <3>5. QED
            BY <1>1, <3>3, <3>4, AfterWinds DEF Gone
    <2>2. CASE run[r].phase = "gone" /\ UNCHANGED serviceVars
        BY <1>1, <2>2, StillWinds DEF serviceVars
    <2>3. QED
        BY <1>2, <2>1, <2>2 DEF QueueAnswers
<1>8. /\ CountsKept /\ Reloading' /\ Ending' /\ TasksTyped' /\ Tasked' /\ Stopped'
      /\ thread'[t] = c /\ \A u \in Threads \ {t} : Alike(u)
    <2>1. thread[t].at \in QuietPlaces \ TaskPlaces /\ c.at \in QuietPlaces \ TaskPlaces
        BY <1>1, <1>6 DEF QuietPlaces, TaskPlaces
    <2>2. QED
        BY <1>1, <1>6, <1>7, <2>1, CollectorMoves
<1>9. Linked'
    <2>1. \A u \in Threads : u # t => LinkAlike(u)
        BY <1>8 DEF Alike
    <2>2. /\ ~At(t, "linking")' /\ ~At(t, "collecting")' /\ thread'[t].run = r
        BY <1>6, <1>8 DEF At
    <2>3. accepted' = accepted /\ \A q \in 1..accepted : run[q].phase = "gone" => run'[q].phase = "gone"
        BY <1>7 DEF Winding
    <2>4. \A u \in Threads : At(u, "taking")' =>
              thread'[u].run \in 1..accepted' /\ run'[thread'[u].run].phase = "gone"
        BY <1>1, <1>3, <1>7, <2>1, <2>2, <2>3 DEF Linked, LinkAlike
    <2>5. QED
        BY <1>1, <2>1, <2>2, <2>3, <2>4 DEF Linked, LinkAlike
<1>10. QED
    BY <1>8, <1>9 DEF IInv, CountsKept

LEMMA LinkKeeps ==
    ASSUME IInv, NEW t \in Threads, Link(t)
    PROVE  IInv'
<1>1. /\ thread[t].at = "linking" /\ UNCHANGED generationVars /\ UNCHANGED task
      /\ UNCHANGED serviceVars /\ TasksTyped /\ Linked
    BY DEF Link, At, IInv
<1>2. PICK r : r = thread[t].run
    OBVIOUS
<1>3. r \in DOMAIN task \ pending /\ r \in 1..accepted
    BY <1>1, <1>2 DEF Linked, At, TasksTyped
<1>4. PICK c \in {[at |-> "collecting", run |-> r], Idle} : Go(t, c)
    BY <1>2 DEF Link
<1>5. c.at \in {"collecting", "idle"} /\ (c.at = "collecting" => c.run = r)
    BY <1>4 DEF Idle
<1>6. pending' = pending \cup {r} /\ Winding /\ UNCHANGED open
    BY <1>1, <1>2, StillWinds DEF Link, serviceVars
<1>7. /\ CountsKept /\ Reloading' /\ Ending' /\ TasksTyped' /\ Tasked' /\ Stopped'
      /\ thread'[t] = c /\ \A u \in Threads \ {t} : Alike(u)
    <2>1. thread[t].at \in QuietPlaces \ TaskPlaces /\ c.at \in QuietPlaces \ TaskPlaces
        BY <1>1, <1>5 DEF QuietPlaces, TaskPlaces
    <2>2. QED
        BY <1>1, <1>4, <1>6, <2>1, CollectorMoves
<1>8. Linked'
    <2>1. \A u \in Threads : u # t => LinkAlike(u)
        BY <1>7 DEF Alike
    <2>2. ~At(t, "linking")' /\ ~At(t, "taking")' /\ (At(t, "collecting")' => thread'[t].run = r)
        BY <1>5, <1>7 DEF At
    <2>3. accepted' = accepted /\ run' = run
        BY <1>1 DEF serviceVars
    <2>4. \A u \in Threads : At(u, "linking")' =>
              u # t /\ At(u, "linking") /\ thread'[u].run = thread[u].run /\ thread[u].run # r
        BY <1>1, <1>2, <2>1, <2>2 DEF Linked, LinkAlike, At
    <2>5. \A u \in Threads : At(u, "linking")' => thread'[u].run \in DOMAIN task' \ pending'
        BY <1>1, <1>6, <2>4 DEF Linked
    <2>6. \A u, v \in Threads :
              At(u, "linking")' /\ At(v, "linking")' /\ thread'[u].run = thread'[v].run => u = v
        BY <1>1, <2>4 DEF Linked
    <2>7. \A u \in Threads : At(u, "collecting")' => thread'[u].run \in 1..accepted
        BY <1>1, <1>3, <2>1, <2>2 DEF Linked, LinkAlike
    <2>8. \A u \in Threads : At(u, "taking")' =>
              thread'[u].run \in 1..accepted /\ run[thread'[u].run].phase = "gone"
        BY <1>1, <2>1, <2>2 DEF Linked, LinkAlike
    <2>9. pending' \subseteq DOMAIN task'
        BY <1>1, <1>3, <1>6 DEF Linked
    <2>10. QED
        BY <2>3, <2>5, <2>6, <2>7, <2>8, <2>9 DEF Linked
<1>9. QED
    BY <1>7, <1>8 DEF IInv, CountsKept
(* The lease goes from the thread to the task. *)
LEMMA EnqueueKeeps ==
    ASSUME IInv, NEW t \in Threads, Enqueue(t)
    PROVE  IInv'
<1>1. /\ thread[t].at = "submit" /\ UNCHANGED generationVars /\ UNCHANGED pending
      /\ TasksTyped /\ Linked /\ ThreadsTyped
    BY DEF Enqueue, At, IInv
<1>2. PICK n : n = accepted + 1
    OBVIOUS
<1>3. PICK g \in Generations \cup {NoGeneration} : g = thread[t].lease /\ g = Held(t)
    BY <1>1 DEF ThreadsTyped, CallTyped, Held, HeldIn
<1>4. PICK c : c = [at |-> "linking", run |-> n]
    OBVIOUS
<1>5. c.at = "linking" /\ c.run = n /\ Go(t, c)
    BY <1>2, <1>4 DEF Enqueue
<1>6. /\ accepted \in Nat /\ n \in Nat /\ accepted' = n /\ 1..n = 1..accepted \cup {n}
      /\ n \notin 1..accepted /\ DOMAIN run = 1..accepted /\ DOMAIN task \subseteq 1..accepted
    BY <1>1, <1>2 DEF TasksTyped, Enqueue, Accept
<1>7. /\ DOMAIN task' = DOMAIN task \cup {n} /\ task' = [q \in DOMAIN task' |-> task'[q]]
      /\ task'[n].lease = g /\ \A q \in DOMAIN task : task'[q] = task[q]
    <2>1. PICK rec : rec = [lease |-> g, response |-> FALSE]
        OBVIOUS
    <2>2. task' = [q \in DOMAIN task \cup {n} |-> IF q = n THEN rec ELSE task[q]]
        BY <1>2, <1>3, <2>1 DEF Enqueue, WithTask
    <2>3. n \notin DOMAIN task /\ rec.lease = g
        BY <1>6, <2>1
    <2>4. QED
        BY <2>2, <2>3
<1>8. /\ open /\ open' = open /\ DOMAIN run' = 1..n /\ run'[n].phase = "pending"
      /\ \A q \in 1..accepted :
            /\ run'[q].phase \in {"pending", "running", "done", "gone"}
            /\ run'[q].phase = "pending" => run[q].phase = "pending"
            /\ run'[q].phase = "running" <=> run[q].phase = "running"
            /\ run[q].phase = "gone" => run'[q].phase = "gone"
    <2>1. PICK C \in SUBSET Phase("pending"), G \in SUBSET Phase("done") :
              run' = [r \in 1..(accepted + 1) |->
                        IF r = accepted + 1 THEN Pending(thread[t].key, thread[t].lane)
                                            ELSE After(C, G)[r]]
        BY DEF Enqueue, Accept
    <2>2. /\ DOMAIN run' = 1..n /\ run'[n] = Pending(thread[t].key, thread[t].lane)
          /\ \A q \in 1..accepted : run'[q] = After(C, G)[q]
        BY <1>2, <1>6, <2>1
    <2>3. \A q \in 1..accepted :
             /\ q \in C => run[q].phase = "pending" /\ After(C, G)[q] = Done("cancelled")
             /\ q \in G => run[q].phase = "done"
             /\ q \notin C /\ q \in G => After(C, G)[q] = Gone
             /\ q \notin C /\ q \notin G => After(C, G)[q] = run[q]
        BY <1>6 DEF After, Phase
    <2>4. \A q \in 1..accepted : run[q].phase \in {"pending", "running", "done", "gone"}
        BY <1>1 DEF TasksTyped
    <2>5. run'[n].phase = "pending"
        BY <2>2 DEF Pending
    <2>6. ASSUME NEW q \in 1..accepted
          PROVE  /\ run'[q].phase \in {"pending", "running", "done", "gone"}
                 /\ run'[q].phase = "pending" => run[q].phase = "pending"
                 /\ run'[q].phase = "running" <=> run[q].phase = "running"
                 /\ run[q].phase = "gone" => run'[q].phase = "gone"
        <3>1. CASE q \in C
            BY <2>2, <2>3, <3>1 DEF Done
        <3>2. CASE q \notin C /\ q \in G
            BY <2>2, <2>3, <3>2 DEF Gone
        <3>3. CASE q \notin C /\ q \notin G
            BY <2>2, <2>3, <2>4, <3>3
        <3>4. QED
            BY <3>1, <3>2, <3>3
    <2>7. open /\ open' = open
        BY DEF Enqueue, Accept
    <2>8. QED
        BY <2>2, <2>5, <2>6, <2>7
<1>9. /\ CallTyped(c) /\ HeldIn(c) = NoGeneration /\ c.at # "reclaiming"
    BY <1>5 DEF CallTyped, HeldIn, HolderPlaces
<1>10. thread'[t] = c /\ \A u \in Threads \ {t} : thread'[u] = thread[u]
    BY <1>1, <1>5, GoMoves
<1>11. Same
    <2>1. Held(t)' = NoGeneration
        BY <1>9, <1>10 DEF Held
    <2>2. n \notin DOMAIN task /\ \A q \in DOMAIN task \ {n} : task'[q].lease = task[q].lease
        BY <1>6, <1>7
    <2>3. \A h : Cardinality(Leases(h)') = Cardinality(Leases(h)) + (IF g = h THEN 1 ELSE 0)
        <3>1. \A h : Cardinality(Leases(h)') =
                 Cardinality(Leases(h)) + (IF n \in DOMAIN task' /\ task'[n].lease = h THEN 1 ELSE 0)
                                        - (IF n \in DOMAIN task /\ task[n].lease = h THEN 1 ELSE 0)
            BY <1>1, <1>7, <2>2, LeasesMove
        <3>2. \A h : Cardinality(Leases(h)) \in Nat
            BY <1>1, UsersFinite
        <3>3. QED
            BY <1>7, <2>2, <3>1, <3>2
    <2>4. \A h : Cardinality(Holders(h)') = Cardinality(Holders(h))
              + (IF NoGeneration = h THEN 1 ELSE 0) - (IF g = h THEN 1 ELSE 0)
        BY <1>1, <1>3, <1>10, <2>1, HoldersMove
    <2>5. \A h : Cardinality(Holders(h)) \in Nat /\ Cardinality(Leases(h)) \in Nat
        BY <1>1, UsersFinite
    <2>6. QED
        BY <2>3, <2>4, <2>5, ZeroIsNoGeneration DEF Same, Users
<1>12. /\ Bound(t) = thread[t] /\ Bound(t)' = c
    BY <1>1, <1>5, <1>10 DEF Bound, At
<1>13. ReloadAlike(t) /\ NobodyNew(t) /\ TaskAlike(t) /\ CallAlike(t)
    <2>1. ReloadAlike(t) /\ NobodyNew(t) /\ TaskAlike(t)
        BY <1>1, <1>5, <1>10, <1>12 DEF ReloadAlike, NobodyNew, TaskAlike, BoundFor, At, DestroyPlaces,
            AfterQueue, ReloadPlaces, TaskPlaces
    <2>2. CallAlike(t)
        BY <1>5, <1>10 DEF CallAlike, At
    <2>3. QED
        BY <2>1, <2>2
<1>14. /\ CountsKept /\ Reloading' /\ Ending' /\ UNCHANGED parts
       /\ \A u \in Threads \ {t} : Alike(u)
    BY <1>1, <1>5, <1>9, <1>11, <1>13, BuilderStays
<1>15. \A u \in Threads : TaskAlike(u) /\ CallAlike(u)
    BY <1>13, <1>14 DEF Alike
<1>16. TasksTyped'
    <2>1. \A q \in 1..n : run'[q].phase \in {"pending", "running", "done", "gone"}
        BY <1>6, <1>8
    <2>2. \A q \in DOMAIN task' : task'[q].lease \in Generations \cup {NoGeneration}
        BY <1>1, <1>7 DEF TasksTyped
    <2>3. DOMAIN task' \subseteq 1..n
        BY <1>6, <1>7
    <2>4. QED
        BY <1>6, <1>7, <1>8, <2>1, <2>2, <2>3 DEF TasksTyped
<1>17. Tasked'
    <2>1. Tasked
        BY DEF IInv
    <2>2. \A r \in 1..n : run'[r].phase \in {"pending", "running"} => r \in DOMAIN task'
        BY <1>6, <1>7, <1>8, <2>1 DEF Tasked
    <2>3. \A w \in Threads : BoundFor(w, TaskPlaces)' =>
              w \in Workers /\ Bound(w).run' \in 1..n /\ run'[Bound(w).run'].phase = "running"
        BY <1>6, <1>8, <1>15, <2>1 DEF Tasked, TaskAlike
    <2>4. \A v, w \in Threads :
              BoundFor(v, TaskPlaces)' /\ BoundFor(w, TaskPlaces)' /\ Bound(v).run' = Bound(w).run'
              => v = w
        BY <1>15, <2>1 DEF Tasked, TaskAlike
    <2>5. \A r \in 1..n : run'[r].phase = "running" =>
              \E w \in Threads : BoundFor(w, TaskPlaces)' /\ Bound(w).run' = r
        <3>1. \A r \in 1..n : run'[r].phase = "running" => r \in 1..accepted /\ run[r].phase = "running"
            BY <1>6, <1>8
        <3>2. QED
            BY <1>15, <2>1, <3>1 DEF Tasked, TaskAlike
    <2>6. QED
        BY <1>6, <2>2, <2>3, <2>4, <2>5 DEF Tasked
<1>18. Linked'
    <2>1. \A u \in Threads : u # t => LinkAlike(u)
        BY <1>14 DEF Alike
    <2>2. ~At(t, "collecting")' /\ ~At(t, "taking")' /\ thread'[t].run = n
        BY <1>5, <1>10 DEF At
    <2>3. n \notin DOMAIN task /\ pending \subseteq DOMAIN task
        BY <1>1, <1>6 DEF Linked
    <2>4. \A u \in Threads : At(u, "linking")' => thread'[u].run \in DOMAIN task' \ pending'
        BY <1>1, <1>7, <2>1, <2>2, <2>3 DEF Linked, LinkAlike
    <2>5. \A u, v \in Threads :
              At(u, "linking")' /\ At(v, "linking")' /\ thread'[u].run = thread'[v].run => u = v
        BY <1>1, <2>1, <2>2, <2>3 DEF Linked, LinkAlike
    <2>6. \A u \in Threads : At(u, "collecting")' => thread'[u].run \in 1..n
        BY <1>1, <1>6, <2>1, <2>2 DEF Linked, LinkAlike
    <2>7. \A u \in Threads : At(u, "taking")' =>
              thread'[u].run \in 1..n /\ run'[thread'[u].run].phase = "gone"
        BY <1>1, <1>6, <1>8, <2>1, <2>2 DEF Linked, LinkAlike
    <2>8. QED
        BY <1>1, <1>6, <1>7, <2>3, <2>4, <2>5, <2>6, <2>7 DEF Linked
<1>19. Stopped'
    <2>1. "default_agent" \in parts /\ "run_queue" \in parts
        BY <1>1, <1>8 DEF IInv, Stopped, At
    <2>2. QED
        BY <1>8, <1>14, <2>1 DEF Stopped
<1>20. QED
    BY <1>14, <1>16, <1>17, <1>18, <1>19 DEF IInv, CountsKept
-----------------------------------------------------------------------------
(* Reclaiming, and the end of a reload and of the builder *)

LEMMA TasksKept ==
    ASSUME IInv, NEW t \in Threads, \A u \in Threads \ {t} : Alike(u),
           TaskAlike(t), LinkAlike(t), CallAlike(t), UNCHANGED <<serviceVars, task, pending>>,
           "run_queue" \in parts => "run_queue" \in parts',
           open => ("default_agent" \in parts' <=> "default_agent" \in parts)
    PROVE  TasksTyped' /\ Tasked' /\ Linked' /\ Stopped'
<1>1. \A u \in Threads : TaskAlike(u) /\ LinkAlike(u) /\ CallAlike(u)
    BY DEF Alike
<1>2. Winding /\ UNCHANGED open
    BY StillWinds DEF IInv, serviceVars
<1>3. TasksTyped' /\ Tasked'
    BY <1>1, <1>2, TasksStay, TaskedStays DEF IInv
<1>4. Linked'
    <2>1. pending \subseteq DOMAIN task
        BY DEF IInv, Linked
    <2>2. QED
        BY <1>1, <1>2, <2>1, LinkedStays
<1>5. Stopped'
    BY <1>1, <1>2, StoppedStays
<1>6. QED
    BY <1>3, <1>4, <1>5

LEMMA ReclaimKeeps ==
    ASSUME IInv, NEW t \in Threads, UNCHANGED <<managerVars, serviceVars>>, Reclaim(t)
    PROVE  IInv'
<1>1. /\ ThreadsTyped /\ GenerationsTyped /\ TasksTyped /\ Counted /\ Living /\ InTurn /\ Reclaiming
      /\ UNCHANGED <<serviceVars, task, pending>>
    BY DEF IInv, managerVars
<1>2. PICK g : g = thread[t].generation
    OBVIOUS
<1>3. PICK c : c = thread[t].then
    OBVIOUS
<1>4. /\ thread[t].at = "reclaiming" /\ Go(t, c)
      /\ phase' = [phase EXCEPT ![g] = "freed"] /\ reclaims' = reclaims - 1
      /\ UNCHANGED <<parts, refs, current, retired, shuttingDown, reloading, builder>>
    BY <1>2, <1>3 DEF Reclaim, Reclaimed, At
<1>5. CallTyped(thread[t])
    BY <1>1 DEF ThreadsTyped
<1>6. g \in Generations /\ c.at \in AfterRelease
    BY <1>2, <1>3, <1>4, <1>5 DEF CallTyped
<1>7. CallTyped(c) /\ c.at # "reclaiming" /\ HeldIn(c) = NoGeneration /\ Held(t) = NoGeneration
    <2>1. HeldIn(c) = NoGeneration /\ Held(t) = NoGeneration
        BY <1>4, <1>6 DEF HeldIn, Held, AfterRelease
    <2>2. QED
        BY <1>6, <2>1 DEF CallTyped, HolderPlaces, AfterRelease
<1>8. /\ ThreadsTyped' /\ thread'[t] = c
      /\ \A u \in Threads \ {t} : thread'[u] = thread[u]
    BY <1>1, <1>4, <1>7, GoMoves, MoveTyped
<1>9. t \in Reclaimers /\ phase[g] = "reclaiming"
    BY <1>1, <1>2, <1>4 DEF Reclaiming, Reclaimers, At
<1>10. /\ phase' \in [Generations -> {"absent", "live", "reclaiming", "freed"}] /\ phase'[g] = "freed"
       /\ \A h \in Generations \ {g} : phase'[h] = phase[h]
    BY <1>1, <1>4, <1>6 DEF GenerationsTyped
<1>11. Reclaimers' = Reclaimers \ {t} /\ IsFiniteSet(Reclaimers)
    <2>1. At(t, "reclaiming") /\ ~At(t, "reclaiming")'
        BY <1>4, <1>7, <1>8 DEF At
    <2>2. QED
        BY <1>8, <2>1, ReclaimersMove
<1>12. Cardinality(Reclaimers') = Cardinality(Reclaimers) - 1 /\ reclaims > 0 /\ reclaims' \in Nat
    <2>1. Cardinality(Reclaimers') = Cardinality(Reclaimers) - 1
        BY <1>9, <1>11, FS_RemoveElement
    <2>2. reclaims = Cardinality(Reclaimers) /\ reclaims \in Nat
        BY <1>1 DEF Reclaiming, GenerationsTyped
    <2>3. Cardinality(Reclaimers) # 0
        BY <1>9, <1>11, FS_EmptySet
    <2>4. QED
        BY <1>4, <2>1, <2>2, <2>3
<1>13. GenerationsTyped'
    BY <1>1, <1>4, <1>10, <1>12 DEF GenerationsTyped
<1>14. Counted'
    <2>1. Held(t)' = Held(t)
        BY <1>7, <1>8 DEF Held
    <2>2. Same
        BY <1>1, <1>8, <2>1, UsersOf
    <2>3. QED
        BY <1>1, <1>4, <2>2 DEF Counted, Same, Users
<1>15. Living'
    BY <1>1, <1>4, <1>9, <1>10 DEF Living
<1>16. InTurn' /\ \A h \in Generations : phase'[h] = "absent" <=> phase[h] = "absent"
    BY <1>1, <1>9, <1>10, InTurnStays
<1>17. Reclaiming'
    <2>1. \A u \in Reclaimers' : u \in Reclaimers /\ thread'[u] = thread[u] /\ thread[u].generation # g
        BY <1>1, <1>2, <1>8, <1>9, <1>11 DEF Reclaiming, Reclaimers
    <2>2. \A u \in Reclaimers' : thread'[u].generation \in Generations
        BY <1>1, <2>1 DEF Reclaimers, ThreadsTyped, CallTyped, At
    <2>3. \A u \in Reclaimers' : phase'[thread'[u].generation] = "reclaiming"
        <3>1. \A u \in Reclaimers' : phase[thread[u].generation] = "reclaiming"
            BY <1>1, <2>1 DEF Reclaiming
        <3>2. QED
            BY <1>10, <2>1, <2>2, <3>1
    <2>4. \A u, v \in Reclaimers' : thread'[u].generation = thread'[v].generation => u = v
        BY <1>1, <2>1 DEF Reclaiming
    <2>5. \A h \in Generations : phase'[h] = "reclaiming" =>
              \E u \in Reclaimers' : thread'[u].generation = h
        <3>1. ASSUME NEW h \in Generations, phase'[h] = "reclaiming"
              PROVE  h # g /\ phase[h] = "reclaiming"
            BY <1>10, <3>1
        <3>2. QED
            BY <1>1, <1>2, <1>8, <1>11, <3>1 DEF Reclaiming, Reclaimers
    <2>6. reclaims' = Cardinality(Reclaimers')
        BY <1>1, <1>4, <1>12 DEF Reclaiming
    <2>7. QED
        BY <2>3, <2>4, <2>5, <2>6 DEF Reclaiming
<1>18. Bound(t) = c /\ Bound(t)' = c
    BY <1>3, <1>4, <1>7, <1>8 DEF Bound, At
<1>19. ReloadAlike(t) /\ NobodyNew(t) /\ TaskAlike(t) /\ LinkAlike(t) /\ CallAlike(t)
    <2>1. ReloadAlike(t) /\ NobodyNew(t)
        BY <1>6, <1>8, <1>18 DEF ReloadAlike, NobodyNew, BoundFor, At, AfterRelease
    <2>2. TaskAlike(t)
        BY <1>18 DEF TaskAlike, BoundFor
    <2>3. LinkAlike(t) /\ CallAlike(t)
        BY <1>6, <1>8 DEF LinkAlike, CallAlike, At, AfterRelease
    <2>4. QED
        BY <2>1, <2>2, <2>3
<1>20. \A u \in Threads : Alike(u)
    BY <1>8, <1>19, StillAlike DEF Alike
<1>21. Reloading'
    BY <1>4, <1>16, <1>20, ReloadStays DEF Alike
<1>22. Ending'
    <2>1. ~Quiet
        BY <1>1, <1>12 DEF Quiet, GenerationsTyped
    <2>2. QED
        BY <1>4, <1>20, <2>1, EndingStays DEF Alike
<1>23. TasksTyped' /\ Tasked' /\ Linked' /\ Stopped'
    BY <1>1, <1>4, <1>19, <1>20, TasksKept
<1>24. QED
    BY <1>8, <1>13, <1>14, <1>15, <1>16, <1>17, <1>21, <1>22, <1>23 DEF IInv

LEMMA ReloadFailedKeeps ==
    ASSUME IInv, NEW t \in Threads, UNCHANGED <<managerVars, serviceVars>>, ReloadFailed(t)
    PROVE  IInv'
<1>1. /\ thread[t].at = "reload_failed" /\ Go(t, Idle) /\ Idle.at = "idle" /\ ~reloading'
      /\ UNCHANGED <<parts, phase, refs, current, retired, reclaims>>
      /\ UNCHANGED <<shuttingDown, builder>>
      /\ UNCHANGED <<serviceVars, task, pending>>
      /\ ThreadsTyped /\ TasksTyped /\ Reloading
    BY DEF ReloadFailed, At, Idle, managerVars, IInv
<1>2. HeldIn(Idle) = NoGeneration /\ Held(t) = NoGeneration /\ CallTyped(Idle)
    BY <1>1 DEF HeldIn, Held, CallTyped, HolderPlaces
<1>3. /\ ThreadsTyped' /\ thread'[t] = Idle
      /\ \A u \in Threads \ {t} : thread'[u] = thread[u]
    BY <1>1, <1>2, GoMoves, MoveTyped
<1>4. Held(t)' = Held(t) /\ ~At(t, "reclaiming") /\ ~At(t, "reclaiming")'
    BY <1>1, <1>2, <1>3 DEF Held, At
<1>5. Same
    BY <1>1, <1>3, <1>4, UsersOf
<1>6. Reclaimers' = Reclaimers /\ \A u \in Reclaimers : thread'[u] = thread[u]
    BY <1>3, <1>4, ReclaimersMove DEF Reclaimers
<1>7. CountsKept
    BY <1>1, <1>3, <1>5, <1>6, CountsStay
<1>8. Bound(t) = thread[t] /\ Bound(t)' = Idle
    BY <1>3, <1>4 DEF Bound
<1>9. NobodyNew(t) /\ TaskAlike(t) /\ LinkAlike(t) /\ CallAlike(t)
    <2>1. NobodyNew(t) /\ TaskAlike(t)
        BY <1>1, <1>3, <1>8 DEF NobodyNew, TaskAlike, BoundFor, At, DestroyPlaces, AfterQueue, TaskPlaces
    <2>2. LinkAlike(t) /\ CallAlike(t)
        BY <1>1, <1>3 DEF LinkAlike, CallAlike, At
    <2>3. QED
        BY <2>1, <2>2
<1>10. \A u \in Threads \ {t} : Alike(u)
    BY <1>3, StillAlike
<1>11. BoundFor(t, ReloadPlaces) /\ ~BoundFor(t, ReloadPlaces)'
    BY <1>1, <1>8 DEF BoundFor, ReloadPlaces
<1>12. Reloading'
    <2>1. \A u \in Threads : ~BoundFor(u, ReloadPlaces)'
        BY <1>1, <1>10, <1>11 DEF Reloading, Alike, ReloadAlike
    <2>2. \A u \in Threads : At(u, "building")' => BoundFor(u, ReloadPlaces)'
        BY DEF At, BoundFor, Bound, ReloadPlaces
    <2>3. QED
        BY <1>1, <2>1, <2>2 DEF Reloading
<1>13. Ending'
    <2>1. ~Quiet
        BY <1>1, <1>11 DEF Quiet, Reloading
    <2>2. \A u \in Threads : NobodyNew(u)
        BY <1>9, <1>10 DEF Alike
    <2>3. QED
        BY <1>1, <2>1, <2>2, EndingStays
<1>14. TasksTyped' /\ Tasked' /\ Linked' /\ Stopped'
    BY <1>1, <1>9, <1>10, TasksKept
<1>15. QED
    BY <1>7, <1>12, <1>13, <1>14 DEF IInv, CountsKept
LEMMA NextGeneration ==
    ASSUME InTurn, \E g \in Generations : phase[g] = "absent"
    PROVE  /\ NewOne \in Generations /\ phase[NewOne] = "absent"
           /\ \A g \in Generations : phase[g] = "absent" <=> g > NewOne - 1
<1>1. PICK n \in 0..MaxGenerations : \A g \in Generations : phase[g] = "absent" <=> g > n
    BY DEF InTurn
<1>2. n + 1 \in Generations /\ phase[n + 1] = "absent" /\ \A h \in 1..n : phase[h] # "absent"
    BY <1>1, GenerationAssumption DEF Generations
<1>3. /\ NewOne \in Generations /\ phase[NewOne] = "absent"
      /\ \A h \in 1..(NewOne - 1) : phase[h] # "absent"
    <2>1. \A h \in 1..((n + 1) - 1) : phase[h] # "absent"
        BY <1>1, <1>2
    <2>2. QED
        BY <1>2, <2>1 DEF NewOne
<1>4. NewOne = n + 1
    <2>1. NewOne \in Nat /\ NewOne > n
        BY <1>1, <1>3 DEF Generations
    <2>2. ~(NewOne > n + 1)
        BY <1>1, <1>2, <1>3, <2>1
    <2>3. QED
        BY <1>1, <2>1, <2>2
<1>5. QED
    BY <1>1, <1>3, <1>4

LEMMA CommitKeeps ==
    ASSUME IInv, NEW t \in Threads, UNCHANGED <<managerVars, serviceVars>>, Commit(t)
    PROVE  IInv'
<1>1. PICK N : N = NewOne
    OBVIOUS
<1>2. PICK old : old = thread[t].old
    OBVIOUS
<1>3. PICK c : c = [at |-> "reporting", old |-> old, new |-> N]
    OBVIOUS
<1>4. /\ thread[t].at = "building" /\ Go(t, c) /\ c.at = "reporting" /\ c.old = old
      /\ ~shuttingDown /\ current = old /\ current' = N /\ phase' = [phase EXCEPT ![N] = "live"]
      /\ retired' = retired \cup {old} /\ ~reloading'
      /\ UNCHANGED <<parts, refs, shuttingDown, reclaims, builder>>
      /\ UNCHANGED <<serviceVars, task, pending>>
    BY <1>1, <1>2, <1>3 DEF Commit, At, managerVars
<1>5. /\ ThreadsTyped /\ GenerationsTyped /\ TasksTyped /\ Counted /\ Living /\ InTurn
      /\ Reclaiming /\ Reloading
    BY DEF IInv
<1>6. /\ N \in Generations /\ phase[N] = "absent"
      /\ \A g \in Generations : phase[g] = "absent" <=> g > N - 1
    BY <1>1, <1>4, <1>5, NextGeneration DEF Reloading, At
<1>7. /\ phase' \in [Generations -> {"absent", "live", "reclaiming", "freed"}] /\ phase'[N] = "live"
      /\ \A g \in Generations \ {N} : phase'[g] = phase[g]
    BY <1>4, <1>5, <1>6 DEF GenerationsTyped
<1>8. CallTyped(thread[t])
    BY <1>5 DEF ThreadsTyped
<1>9. /\ HeldIn(c) = old /\ Held(t) = old /\ old \in Generations
    <2>1. HeldIn(c) = old /\ Held(t) = old
        BY <1>2, <1>4 DEF HeldIn, Held
    <2>2. old # NoGeneration
        BY <1>4, <1>8, <2>1 DEF CallTyped, HolderPlaces, Held
    <2>3. QED
        BY <1>8, <2>1, <2>2 DEF CallTyped, Held
<1>10. CallTyped(c)
    BY <1>4, <1>9, ZeroIsNoGeneration DEF CallTyped
<1>11. /\ ThreadsTyped' /\ thread'[t] = c
       /\ \A u \in Threads \ {t} : thread'[u] = thread[u]
    BY <1>4, <1>5, <1>10, GoMoves, MoveTyped
<1>12. Held(t)' = Held(t) /\ ~At(t, "reclaiming") /\ ~At(t, "reclaiming")'
    BY <1>4, <1>9, <1>11 DEF Held, At
<1>13. Same
    BY <1>4, <1>5, <1>11, <1>12, UsersOf
<1>14. Reclaimers' = Reclaimers /\ \A u \in Reclaimers : thread'[u] = thread[u]
    BY <1>11, <1>12, ReclaimersMove DEF Reclaimers
<1>15. GenerationsTyped'
    BY <1>4, <1>5, <1>6, <1>7, <1>9 DEF GenerationsTyped
<1>16. Counted'
    BY <1>4, <1>5, <1>13 DEF Counted, Same, Users
<1>17. N # old /\ N \notin retired /\ N # NoGeneration
    BY <1>4, <1>5, <1>6, ZeroIsNoGeneration DEF Living
<1>18. Living'
    <2>1. \A g \in Generations : phase'[g] = "live" <=> g \in retired' \cup {current'}
        BY <1>4, <1>5, <1>6, <1>7, <1>9, <1>17 DEF Living
    <2>2. QED
        BY <1>4, <1>17, <2>1 DEF Living
<1>19. InTurn'
    <2>1. N \in 0..MaxGenerations /\ \A g \in Generations : g \in Nat
        BY <1>6, GenerationAssumption DEF Generations
    <2>2. \A g \in Generations : phase'[g] = "absent" <=> g > N
        BY <1>6, <1>7, <2>1
    <2>3. QED
        BY <2>1, <2>2 DEF InTurn
<1>20. Reclaiming'
    <2>1. \A u \in Reclaimers : thread[u].generation \in Generations \ {N}
        <3>1. \A u \in Reclaimers : thread[u].generation \in Generations
            BY <1>5 DEF Reclaimers, ThreadsTyped, CallTyped, At
        <3>2. QED
            BY <1>5, <1>6, <3>1 DEF Reclaiming
    <2>2. \A g \in Generations : phase'[g] = "reclaiming" => phase[g] = "reclaiming"
        BY <1>7
    <2>3. QED
        BY <1>4, <1>5, <1>7, <1>14, <2>1, <2>2 DEF Reclaiming
<1>21. \A u \in Threads \ {t} : Alike(u)
    BY <1>11, StillAlike
<1>22. Bound(t) = thread[t] /\ Bound(t)' = c
    BY <1>11, <1>12 DEF Bound
<1>23. NobodyNew(t) /\ TaskAlike(t) /\ LinkAlike(t) /\ CallAlike(t)
    <2>1. NobodyNew(t) /\ TaskAlike(t)
        BY <1>4, <1>11, <1>22 DEF NobodyNew, TaskAlike, BoundFor, At, DestroyPlaces, AfterQueue,
            TaskPlaces
    <2>2. LinkAlike(t) /\ CallAlike(t)
        BY <1>4, <1>11 DEF LinkAlike, CallAlike, At
    <2>3. QED
        BY <2>1, <2>2
<1>24. Reloading'
    <2>1. BoundFor(t, ReloadPlaces) /\ ~BoundFor(t, ReloadPlaces)'
        BY <1>4, <1>22 DEF BoundFor, ReloadPlaces
    <2>2. \A u \in Threads : ~BoundFor(u, ReloadPlaces)'
        BY <1>5, <1>21, <2>1 DEF Reloading, Alike, ReloadAlike
    <2>3. \A u \in Threads : At(u, "building")' => BoundFor(u, ReloadPlaces)'
        BY DEF At, BoundFor, Bound, ReloadPlaces
    <2>4. QED
        BY <1>4, <2>2, <2>3 DEF Reloading
<1>25. Ending'
    <2>1. \A u \in Threads : NobodyNew(u)
        BY <1>21, <1>23 DEF Alike
    <2>2. QED
        BY <1>4, <2>1, EndingStays
<1>26. TasksTyped' /\ Tasked' /\ Linked' /\ Stopped'
    BY <1>4, <1>21, <1>23, TasksKept
<1>27. QED
    BY <1>11, <1>15, <1>16, <1>18, <1>19, <1>20, <1>24, <1>25, <1>26 DEF IInv

(* Nothing is held when the builder goes, and nobody can take anything     *)
(* any more.                                                               *)
LEMMA FreeBuilderKeeps ==
    ASSUME IInv, NEW t \in Threads, UNCHANGED <<managerVars, serviceVars>>, FreeBuilder(t)
    PROVE  IInv'
<1>1. /\ thread[t].at = "stopping_events" /\ Go(t, Idle) /\ Idle.at = "idle"
      /\ phase' = [g \in Generations |-> IF g \in retired \cup {current} THEN "freed" ELSE phase[g]]
      /\ parts' = {} /\ current' = NoGeneration /\ retired' = {} /\ builder' = "freed"
      /\ UNCHANGED <<refs, shuttingDown, reloading, reclaims>>
      /\ UNCHANGED <<serviceVars, task, pending>>
    BY DEF FreeBuilder, At, Idle, managerVars
<1>2. /\ ThreadsTyped /\ GenerationsTyped /\ TasksTyped /\ Counted /\ Living /\ InTurn
      /\ Reclaiming /\ Ending /\ Stopped
    BY DEF IInv
<1>3. Quiet /\ shuttingDown /\ "run_queue" \notin parts
    <2>1. BoundFor(t, DestroyPlaces) /\ BoundFor(t, AfterQueue) /\ At(t, "stopping_events")
        BY <1>1 DEF BoundFor, Bound, At, DestroyPlaces, AfterQueue
    <2>2. QED
        BY <1>2, <2>1 DEF Ending
<1>4. HeldIn(Idle) = NoGeneration /\ Held(t) = NoGeneration /\ CallTyped(Idle)
    BY <1>1 DEF HeldIn, Held, CallTyped, HolderPlaces
<1>5. /\ ThreadsTyped' /\ thread'[t] = Idle
      /\ \A u \in Threads \ {t} : thread'[u] = thread[u]
    BY <1>1, <1>2, <1>4, GoMoves, MoveTyped
<1>6. Held(t)' = Held(t) /\ ~At(t, "reclaiming") /\ ~At(t, "reclaiming")'
    BY <1>1, <1>4, <1>5 DEF Held, At
<1>7. Same
    BY <1>1, <1>2, <1>5, <1>6, UsersOf
<1>8. \A g \in Generations : refs[g] = 0
    BY <1>3, QuietHolds
<1>9. /\ phase' \in [Generations -> {"absent", "live", "reclaiming", "freed"}]
      /\ \A g \in Generations : /\ phase[g] = "live" => phase'[g] = "freed"
                                /\ phase[g] # "live" => phase'[g] = phase[g]
    BY <1>1, <1>2 DEF GenerationsTyped, Living
<1>10. GenerationsTyped'
    BY <1>1, <1>2, <1>9 DEF GenerationsTyped
<1>11. Counted'
    BY <1>1, <1>2, <1>7, <1>8 DEF Counted, Same, Users
<1>12. Living'
    BY <1>1, <1>9, ZeroIsNoGeneration DEF Living
<1>13. InTurn' /\ \A g \in Generations : phase'[g] = "absent" <=> phase[g] = "absent"
    BY <1>2, <1>9, InTurnStays
<1>14. Reclaiming'
    <2>1. Reclaimers' = Reclaimers /\ IsFiniteSet(Reclaimers)
        BY <1>5, <1>6, ReclaimersMove
    <2>2. Reclaimers = {}
        BY <1>2, <1>3, <2>1, FS_EmptySet DEF Reclaiming, Quiet
    <2>3. \A g \in Generations : phase'[g] # "reclaiming"
        BY <1>2, <1>9, <2>2 DEF Reclaiming
    <2>4. QED
        BY <1>1, <1>2, <2>1, <2>2, <2>3 DEF Reclaiming
<1>15. Quiet'
    BY <1>1, <1>3 DEF Quiet
<1>16. Bound(t) = thread[t] /\ Bound(t)' = Idle
    BY <1>5, <1>6 DEF Bound
<1>17. ReloadAlike(t) /\ TaskAlike(t) /\ LinkAlike(t) /\ CallAlike(t)
    <2>1. ReloadAlike(t) /\ TaskAlike(t)
        BY <1>1, <1>5, <1>16 DEF ReloadAlike, TaskAlike, BoundFor, At, ReloadPlaces, TaskPlaces
    <2>2. LinkAlike(t) /\ CallAlike(t)
        BY <1>1, <1>5 DEF LinkAlike, CallAlike, At
    <2>3. QED
        BY <2>1, <2>2
<1>18. \A u \in Threads \ {t} : Alike(u)
    BY <1>5, StillAlike
<1>19. Reloading'
    BY <1>1, <1>13, <1>17, <1>18, ReloadStays DEF Alike
<1>20. Ending'
    BY <1>1, <1>3, <1>15 DEF Ending
<1>21. TasksTyped' /\ Tasked' /\ Linked' /\ Stopped'
    <2>1. open => "default_agent" \notin parts
        BY <1>2, <1>3 DEF Stopped
    <2>2. QED
        BY <1>1, <1>3, <1>17, <1>18, <2>1, TasksKept
<1>22. QED
    BY <1>5, <1>10, <1>11, <1>12, <1>13, <1>14, <1>19, <1>20, <1>21 DEF IInv

-----------------------------------------------------------------------------
(* Together *)

LEMMA PartsOrder ==
    /\ Len(Parts) = 16 /\ Parts[13] = "run_queue"
    /\ \A i \in 1..16 : Parts[i] = "default_agent" => i = 16
<1>1. Len(Parts) = 16 /\ Parts[13] = "run_queue"
    BY DEF Parts
<1>2. \A i \in 1..16 : Parts[i] = "default_agent" => i = 16
    BY DEF Parts
<1>3. QED
    BY <1>1, <1>2

(* Whatever its creation came to, a builder starts with nothing held. *)
LEMMA InitHolds == Init => IInv
<1> SUFFICES ASSUME Init
             PROVE  IInv
    OBVIOUS
<1>1. PICK n \in 0..Len(Parts) :
        /\ parts = {Parts[i] : i \in 1..n} \ (IF n >= Handed THEN GenerationParts ELSE {})
        /\ phase = [g \in Generations |-> IF g = 1 /\ n >= Handed THEN "live" ELSE "absent"]
        /\ current = IF n >= Handed THEN 1 ELSE NoGeneration
        /\ refs = [g \in Generations |-> 0]
        /\ retired = {}
        /\ shuttingDown = FALSE /\ reloading = FALSE
        /\ reclaims = 0
        /\ builder = "created"
        /\ \E creator \in Threads :
              thread = [t \in Threads |->
                  IF t = creator /\ n < Len(Parts) THEN [at |-> "destroy"]
                  ELSE Idle]
    BY DEF Init, GenerationInit
<1>2. /\ accepted = 0 /\ run = [r \in {} |-> Gone] /\ open = TRUE
      /\ task = << >> /\ pending = {}
    BY DEF Init, ManagerInit, ServiceInit
<1>3. \A t \in Threads : thread[t].at \in {"idle", "destroy"}
    BY <1>1 DEF Idle
<1>4. 1 \in Generations /\ n \in 0..16 /\ Handed = 15
    BY <1>1, PartsOrder, GenerationAssumption DEF Generations, Handed
<1>5. /\ "default_agent" \in parts => n = 16
      /\ n = 16 => "run_queue" \in parts
    <2>1. "default_agent" \in parts => \E i \in 1..n : Parts[i] = "default_agent"
        BY <1>1
    <2>2. "default_agent" \in parts => n = 16
        BY <1>4, <2>1, PartsOrder
    <2>3. n = 16 => Parts[13] \in {Parts[i] : i \in 1..n}
        BY <1>4
    <2>4. "run_queue" \notin GenerationParts
        BY DEF GenerationParts
    <2>5. QED
        BY <1>1, <2>2, <2>3, <2>4, PartsOrder
<1>6. ThreadsTyped
    <2>1. \A t \in Threads : CallTyped(thread[t])
        BY <1>3 DEF CallTyped, HeldIn, HolderPlaces
    <2>2. QED
        BY <1>1, <2>1 DEF ThreadsTyped
<1>7. GenerationsTyped
    BY <1>1, <1>4 DEF GenerationsTyped
<1>8. DOMAIN task = {}
    BY <1>2
<1>9. TasksTyped
    <2>1. DOMAIN run = {} /\ 1..accepted = {}
        BY <1>2
    <2>2. task = [r \in DOMAIN task |-> task[r]]
        BY <1>2
    <2>3. QED
        BY <1>2, <1>8, <2>1, <2>2 DEF TasksTyped
<1>10. Counted
    <2>1. ASSUME NEW g \in Generations
          PROVE  refs[g] = 0 /\ Holders(g) = {} /\ Leases(g) = {}
        BY <1>1, <1>3, <1>8, ZeroIsNoGeneration DEF Holders, Held, HeldIn, Leases
    <2>2. \A g \in Generations :
              refs[g] = 0 /\ Cardinality(Holders(g)) = 0 /\ Cardinality(Leases(g)) = 0
        BY <2>1, FS_EmptySet
    <2>3. QED
        BY <2>2 DEF Counted
<1>11. Living
    BY <1>1, <1>4, <1>5, SMTT(30) DEF Living, NoGeneration
<1>12. InTurn
    <2>1. CASE n >= Handed
        <3>1. \A g \in Generations : phase[g] = "absent" <=> g > 1
            BY <1>1, <2>1 DEF Generations
        <3>2. 1 \in 0..MaxGenerations
            BY GenerationAssumption
        <3>3. QED
            BY <3>1, <3>2 DEF InTurn
    <2>2. CASE ~(n >= Handed)
        <3>1. \A g \in Generations : phase[g] = "absent" <=> g > 0
            BY <1>1, <2>2 DEF Generations
        <3>2. QED
            BY <3>1, GenerationAssumption DEF InTurn
    <2>3. QED
        BY <2>1, <2>2
<1>13. \A t \in Threads : Bound(t) = thread[t]
    BY <1>3 DEF Bound, At
<1>14. Reloading
    BY <1>1, <1>3, <1>13 DEF Reloading, BoundFor, At, ReloadPlaces
<1>15. Reclaiming
    <2>1. Reclaimers = {}
        BY <1>3 DEF Reclaimers, At
    <2>2. \A g \in Generations : phase[g] # "reclaiming"
        BY <1>1
    <2>3. QED
        BY <1>1, <2>1, <2>2, FS_EmptySet DEF Reclaiming
<1>16. Ending
    BY <1>1, <1>3, <1>13 DEF Ending, BoundFor, At, DestroyPlaces, AfterQueue
<1>17. Tasked
    BY <1>2, <1>3, <1>13 DEF Tasked, BoundFor, TaskPlaces
<1>18. Linked
    BY <1>2, <1>3 DEF Linked, At
<1>19. Stopped
    BY <1>2, <1>3, <1>5 DEF Stopped, At
<1>20. QED
    BY <1>6, <1>7, <1>9, <1>10, <1>11, <1>12, <1>14, <1>15, <1>16, <1>17, <1>18, <1>19 DEF IInv

LEMMA StepKeeps == IInv /\ [Next]_vars => IInv'
<1> SUFFICES ASSUME IInv, [Next]_vars
             PROVE  IInv'
    OBVIOUS
<1>1. ASSUME NEW t \in Threads, BuilderStep(t)
      PROVE  IInv'
    <2>1. BuilderNext(t) /\ UNCHANGED <<managerVars, serviceVars>>
        BY <1>1 DEF BuilderStep
    <2>2. CASE \/ Reclaim(t) \/ ReloadBegin(t) \/ Commit(t) \/ ReloadFailed(t) \/ FreeBuilder(t)
        BY <2>1, <2>2, ReclaimKeeps, ReloadBeginKeeps, CommitKeeps, ReloadFailedKeeps,
           FreeBuilderKeeps
    <2>3. CASE RollBack(t) \/ Report(t)
        BY <2>1, <2>3, ReleasesKeep
    <2>4. CASE DestroyBegins(t) \/ AllReleased(t)
        BY <2>1, <2>4, DestroyGoesOn
    <2>5. CASE \/ BuildFails(t) \/ CommitRefused(t) \/ LogReload(t) \/ RequestShutdown(t)
               \/ Destroy(t) \/ DestroyTimeout(t) \/ EventsTimeout(t)
        BY <2>1, <2>5, BuilderCalm
    <2>6. QED
        BY <2>1, <2>2, <2>3, <2>4, <2>5 DEF BuilderNext
<1>2. ASSUME NEW t \in Threads, ControllerStep(t)
      PROVE  IInv'
    <2>1. ControllerNext(t) /\ UNCHANGED <<managerVars, serviceVars>>
        BY <1>2 DEF ControllerStep
    <2>2. CASE SubmitText(t)
        BY <2>1, <2>2, SubmitKeeps
    <2>3. CASE ClaimRefused(t) \/ GiveBack(t)
        BY <2>1, <2>3, ReleasesKeep
    <2>4. CASE \/ CreateController(t) \/ CancelRun(t) \/ ClearSession(t) \/ ApplyConfig(t)
               \/ DestroyController(t)
               \/ Claim(t) \/ CreateSession(t) \/ RunEnds(t) \/ FinishRun(t)
               \/ Shutdown(t) \/ Drained(t) \/ DrainTimeout(t)
        BY <2>1, <2>4, ControllerCalm
    <2>5. QED
        BY <2>1, <2>2, <2>3, <2>4 DEF ControllerNext
<1>3. ASSUME NEW t \in Threads, ManagerStep(t)
      PROVE  IInv'
    <2>1. ManagerNext(t)
        BY <1>3 DEF ManagerStep
    <2>2. CASE AddAgent(t) \/ AddAgentLease(t) \/ SetCurrentAgent(t) \/ LookUp(t) \/ Collect(t)
               \/ QueueLate(t)
        BY <2>2, ManagerCalm
    <2>3. CASE TakeLease(t) \/ Enqueue(t) \/ Link(t)
        BY <2>3, TakeLeaseKeeps, EnqueueKeeps, LinkKeeps
    <2>4. CASE EnqueueRefused(t) \/ ResetClears(t)
        <3>1. UNCHANGED <<managerVars, serviceVars>>
            BY <2>4 DEF EnqueueRefused, ResetClears
        <3>2. QED
            BY <2>4, <3>1, ReleasesKeep
    <2>5. CASE StartTask(t) \/ TaskReturns(t) \/ TaskOver(t)
        BY <2>5, StartTaskKeeps, TaskReturnsKeeps, TaskOverKeeps
    <2>6. CASE QueueAnswers(t) \/ TakePending(t) \/ FreePending(t)
        BY <2>6, QueueAnswersKeeps, TakePendingKeeps, FreePendingKeeps
    <2>7. CASE Interrupt(t) \/ QueueCloses(t)
        BY <2>7, QueueKeeps
    <2>8. CASE ResetInterrupts(t) \/ QueueStops(t)
        BY <2>8, ResetKeeps, QueueEnds
    <2>9. CASE ManagerDestroyed(t)
        <3>1. ManagerFreed(t) /\ UNCHANGED <<managerVars, serviceVars>>
            BY <2>9 DEF ManagerDestroyed
        <3>2. QED
            BY <3>1, DestroyGoesOn
    <2>10. QED
        BY <2>1, <2>2, <2>3, <2>4, <2>5, <2>6, <2>7, <2>8, <2>9 DEF ManagerNext
<1>4. CASE Purge
    BY <1>4, QueueKeeps
<1>5. CASE UNCHANGED vars
    <2>1. UNCHANGED hostVars /\ UNCHANGED thread /\ UNCHANGED shuttingDown
        BY <1>5, Untouched DEF vars
    <2>2. QED
        BY <2>1, StillKeeps
<1>6. QED
    BY <1>1, <1>2, <1>3, <1>4, <1>5 DEF Next

LEMMA Inductive == Spec => []IInv
BY InitHolds, StepKeeps, PTL DEF Spec

(* References are counted exactly, and what somebody holds is live, for     *)
(* any number of threads, generations, agents and runs: every acquire of   *)
(* the builder is paired with one release, on every path of every caller   *)
(* (cc_runtime_generation_release, release_task_runtime).                  *)
THEOREM HeldStaysLive == Spec => []HeldIsLive
<1>1. IInv => HeldIsLive
    BY DEF IInv, Counted, Living, HeldIsLive
<1>2. QED
    BY <1>1, Inductive, PTL

(* Once the builder is freed no thread and no task holds a generation, no   *)
(* generation is live or being reclaimed, and no reload is to be ended     *)
(* (cc_runtime_builder_destroy).                                           *)
THEOREM NothingUsedAfterFree == Spec => []FreedIsUnused
<1>1. ASSUME IInv
      PROVE  FreedIsUnused
    <2> SUFFICES ASSUME builder = "freed"
                 PROVE  /\ \A g \in Generations : phase[g] \in {"absent", "freed"}
                        /\ \A t \in Threads :
                              Held(t) = NoGeneration /\ ~At(t, "reclaiming") /\ ~At(t, "reload_failed")
                        /\ \A r \in DOMAIN task : task[r].lease = NoGeneration
        BY DEF FreedIsUnused
    <2>1. Quiet /\ current = NoGeneration /\ retired = {}
        BY <1>1 DEF IInv, Ending
    <2>2. ASSUME NEW g \in Generations
          PROVE  Holders(g) = {} /\ Leases(g) = {}
        <3>1. refs[g] = 0
            BY <1>1, <2>1, QuietHolds
        <3>2. /\ IsFiniteSet(Holders(g)) /\ IsFiniteSet(Leases(g))
              /\ Cardinality(Holders(g)) \in Nat /\ Cardinality(Leases(g)) \in Nat
            BY <1>1, UsersFinite DEF IInv
        <3>3. Cardinality(Holders(g)) = 0 /\ Cardinality(Leases(g)) = 0
            BY <1>1, <3>1, <3>2 DEF IInv, Counted
        <3>4. QED
            BY <3>2, <3>3, FS_EmptySet
    <2>3. \A t \in Threads : Held(t) = NoGeneration
        BY <1>1, <2>2 DEF IInv, ThreadsTyped, CallTyped, Held, Holders
    <2>4. \A r \in DOMAIN task : task[r].lease = NoGeneration
        BY <1>1, <2>2 DEF IInv, TasksTyped, Leases
    <2>5. Reclaimers = {}
        <3>1. IsFiniteSet(Reclaimers)
            BY GenerationAssumption, FS_Subset DEF Reclaimers
        <3>2. QED
            BY <1>1, <2>1, <3>1, FS_EmptySet DEF IInv, Reclaiming, Quiet
    <2>6. \A t \in Threads : ~At(t, "reclaiming") /\ ~At(t, "reload_failed")
        <3>1. \A t \in Threads : ~At(t, "reclaiming")
            BY <2>5 DEF Reclaimers
        <3>2. \A t \in Threads : ~BoundFor(t, ReloadPlaces)
            BY <1>1, <2>1 DEF IInv, Reloading, Quiet
        <3>3. QED
            BY <3>1, <3>2 DEF BoundFor, Bound, At, ReloadPlaces
    <2>7. \A g \in Generations : phase[g] \in {"absent", "freed"}
        BY <1>1, <2>1, <2>5, ZeroIsNoGeneration DEF IInv, GenerationsTyped, Living, Reclaiming
    <2>8. QED
        BY <2>3, <2>4, <2>6, <2>7
<1>2. QED
    BY <1>1, Inductive, PTL

(* A run that may still start or has started has its task, on a generation *)
(* that is live, and the queue is there (free_message_task,                *)
(* cc_agent_manager_destroy).                                              *)
THEOREM TasksOutliveRuns == Spec => []TaskOutlivesRun
<1>1. ASSUME IInv
      PROVE  TaskOutlivesRun
    <2> SUFFICES ASSUME NEW r \in DOMAIN run, run[r].phase \in {"pending", "running"}
                 PROVE  /\ r \in DOMAIN task
                        /\ "run_queue" \in parts
                        /\ task[r].lease # NoGeneration => phase[task[r].lease] = "live"
        BY DEF TaskOutlivesRun
    <2>1. r \in 1..accepted
        BY <1>1 DEF IInv, TasksTyped
    <2>2. r \in DOMAIN task /\ "run_queue" \in parts
        BY <1>1, <2>1 DEF IInv, Tasked, Stopped
    <2>3. ASSUME NEW g, g = task[r].lease, g # NoGeneration
          PROVE  phase[g] = "live"
        <3>1. g \in Generations /\ r \in Leases(g)
            BY <1>1, <2>2, <2>3 DEF IInv, TasksTyped, Leases
        <3>2. /\ IsFiniteSet(Leases(g))
              /\ Cardinality(Holders(g)) \in Nat /\ Cardinality(Leases(g)) \in Nat
            BY <1>1, UsersFinite DEF IInv
        <3>3. Cardinality(Leases(g)) # 0
            BY <3>1, <3>2, FS_EmptySet
        <3>4. refs[g] > 0
            BY <1>1, <3>1, <3>2, <3>3 DEF IInv, Counted
        <3>5. QED
            BY <1>1, <3>1, <3>4 DEF IInv, Counted, Living
    <2>4. QED
        BY <2>2, <2>3
<1>2. QED
    BY <1>1, Inductive, PTL

-----------------------------------------------------------------------------
(* The controller's active run *)

(* Only the controller's calls bring a thread to a run, or away from it.   *)
LEMMA AwayKeeps ==
    ASSUME ThreadsTyped, Controlled, UNCHANGED controllerVars,
           NEW t \in Threads, NEW c, Go(t, c), thread[t].at \notin RunPlaces, c.at \notin RunPlaces
    PROVE  Controlled'
<1>1. thread'[t] = c /\ \A u \in Threads \ {t} : thread'[u] = thread[u]
    BY GoMoves
<1>2. \A u \in Threads : /\ thread[u].at \in RunPlaces => thread'[u] = thread[u]
                         /\ thread'[u].at \in RunPlaces => thread'[u] = thread[u]
    BY <1>1
<1>3. Running1' = Running1 /\ \A u \in Running1 : thread'[u] = thread[u]
    BY <1>2 DEF Running1, RunPlaces
<1>4. QED
    BY <1>2, <1>3 DEF Controlled, controllerVars

LEMMA AwayStays ==
    ASSUME Controlled, UNCHANGED controllerVars, UNCHANGED thread
    PROVE  Controlled'
BY DEF Controlled, Running1, controllerVars

LEMMA OnwardIsAway ==
    ASSUME NEW g, NEW c, c.at \notin RunPlaces
    PROVE  Onward(g, c).at \notin RunPlaces
BY DEF Onward, RunPlaces

LEMMA GivingUpIsAway ==
    ASSUME NEW t, NEW g, NEW d, d.at \notin RunPlaces, GiveUpLease(t, g, d)
    PROVE  \E c : Go(t, c) /\ c.at \notin RunPlaces
BY OnwardIsAway DEF GiveUpLease

LEMMA BuilderIsAway ==
    ASSUME IInv, Controlled, NEW t \in Threads, BuilderStep(t)
    PROVE  Controlled'
<1>1. BuilderNext(t) /\ UNCHANGED controllerVars /\ ThreadsTyped
    BY DEF BuilderStep, IInv
<1>2. SUFFICES \/ UNCHANGED thread
               \/ thread[t].at \notin RunPlaces /\ \E c : Go(t, c) /\ c.at \notin RunPlaces
    BY <1>1, AwayKeeps, AwayStays
<1>3. Idle.at = "idle"
    BY DEF Idle
<1>4. CASE Reclaim(t)
    <2>1. thread[t].at = "reclaiming" /\ Go(t, thread[t].then) /\ thread[t].then.at \in AfterRelease
        BY <1>1, <1>4 DEF Reclaim, At, ThreadsTyped, CallTyped
    <2>2. QED
        BY <2>1 DEF RunPlaces, AfterRelease
<1>5. CASE ReloadBegin(t) \/ BuildFails(t) \/ CommitRefused(t) \/ Commit(t)
    BY <1>5 DEF ReloadBegin, BuildFails, CommitRefused, Commit, At, RunPlaces
<1>6. CASE RollBack(t) \/ Report(t)
    <2>1. \A p \in {"reload_failed", "logging"} : [at |-> p].at \notin RunPlaces
        BY DEF RunPlaces
    <2>2. thread[t].at \notin RunPlaces
        BY <1>6 DEF RollBack, Report, At, RunPlaces
    <2>3. PICK p \in {"reload_failed", "logging"} : Go(t, Onward(thread[t].old, [at |-> p]))
        BY <1>6 DEF RollBack, Report
    <2>4. QED
        BY <2>1, <2>2, <2>3, OnwardIsAway
<1>7. CASE ReloadFailed(t) \/ LogReload(t) \/ DestroyTimeout(t) \/ EventsTimeout(t) \/ FreeBuilder(t)
    BY <1>3, <1>7 DEF ReloadFailed, LogReload, DestroyTimeout, EventsTimeout, FreeBuilder, At, RunPlaces
<1>8. CASE RequestShutdown(t)
    BY <1>8 DEF RequestShutdown
<1>9. CASE Destroy(t) \/ DestroyBegins(t) \/ AllReleased(t)
    BY <1>9 DEF Destroy, DestroyBegins, AllReleased, At, RunPlaces
<1>10. QED
    BY <1>1, <1>4, <1>5, <1>6, <1>7, <1>8, <1>9 DEF BuilderNext

LEMMA ManagerIsAway ==
    ASSUME IInv, Controlled, NEW t \in Threads, ManagerStep(t)
    PROVE  Controlled'
<1>1. ManagerNext(t) /\ UNCHANGED controllerVars /\ ThreadsTyped
    BY DEF ManagerStep, IInv
<1>2. SUFFICES \/ UNCHANGED thread
               \/ thread[t].at \notin RunPlaces /\ \E c : Go(t, c) /\ c.at \notin RunPlaces
    BY <1>1, AwayKeeps, AwayStays
<1>3. Idle.at = "idle" /\ Idle.at \notin RunPlaces
    BY DEF Idle, RunPlaces
<1>4. CASE AddAgent(t) \/ AddAgentLease(t) \/ SetCurrentAgent(t) \/ Interrupt(t) \/ QueueCloses(t)
    BY <1>4 DEF AddAgent, AddAgentLease, SetCurrentAgent, Interrupt, QueueCloses
<1>5. CASE LookUp(t)
    <2>1. thread[t].at \notin RunPlaces
        BY <1>5 DEF LookUp, Calls, At, RunPlaces
    <2>2. PICK c : Go(t, c) /\ c.at \in {"leasing", "submit", "reset"}
        BY <1>5 DEF LookUp
    <2>3. QED
        BY <2>1, <2>2 DEF RunPlaces
<1>6. CASE TakeLease(t)
    <2>1. thread[t].at \notin RunPlaces /\ thread[t].purpose \notin RunPlaces
        BY <1>1, <1>6 DEF TakeLease, At, RunPlaces, ThreadsTyped, CallTyped
    <2>2. QED
        BY <1>3, <1>6, <2>1 DEF TakeLease
<1>7. CASE Enqueue(t) \/ StartTask(t) \/ Collect(t) \/ ResetInterrupts(t)
    <2>1. thread[t].at \notin RunPlaces
        BY <1>7 DEF Enqueue, StartTask, Collect, Calls, ResetInterrupts, At, RunPlaces
    <2>2. \/ \E r, p : Go(t, [at |-> p, run |-> r]) /\ p \in {"linking", "task", "collecting"}
          \/ \E g : Go(t, [at |-> "clearing", lease |-> g])
        BY <1>7 DEF Enqueue, StartTask, Collect, ResetInterrupts
    <2>3. ASSUME NEW r, NEW p \in {"linking", "task", "collecting"}, Go(t, [at |-> p, run |-> r])
          PROVE  \E c : Go(t, c) /\ c.at \notin RunPlaces
        <3>1. [at |-> p, run |-> r].at \notin RunPlaces
            BY DEF RunPlaces
        <3>2. QED
            BY <2>3, <3>1
    <2>4. ASSUME NEW g, Go(t, [at |-> "clearing", lease |-> g])
          PROVE  \E c : Go(t, c) /\ c.at \notin RunPlaces
        <3>1. [at |-> "clearing", lease |-> g].at \notin RunPlaces
            BY DEF RunPlaces
        <3>2. QED
            BY <2>4, <3>1
    <2>5. QED
        BY <2>1, <2>2, <2>3, <2>4
<1>8. CASE Link(t) \/ QueueAnswers(t)
    <2>1. thread[t].at \notin RunPlaces
        BY <1>8 DEF Link, QueueAnswers, At, RunPlaces
    <2>2. \E c : Go(t, c) /\ c.at \in {"idle", "collecting", "taking"}
        BY <1>3, <1>8 DEF Link, QueueAnswers
    <2>3. QED
        BY <2>1, <2>2 DEF RunPlaces
<1>9. CASE TaskOver(t) \/ QueueLate(t) \/ QueueStops(t) \/ ManagerDestroyed(t)
    BY <1>3, <1>9 DEF TaskOver, QueueLate, QueueTimeout, QueueStops, QueueStopped, ManagerDestroyed,
        ManagerFreed, At, RunPlaces
<1>10. CASE EnqueueRefused(t) \/ ResetClears(t) \/ FreePending(t)
    <2>1. thread[t].at \notin RunPlaces
        BY <1>10 DEF EnqueueRefused, ResetClears, FreePending, At, RunPlaces
    <2>2. \/ GiveUpLease(t, thread[t].lease, Idle)
          \/ \E r \in pending : GiveUpLease(t, task[r].lease, thread[t])
        BY <1>10 DEF EnqueueRefused, ResetClears, FreePending
    <2>3. QED
        BY <1>3, <2>1, <2>2, GivingUpIsAway
<1>11. CASE TaskReturns(t)
    <2>1. thread[t].at \notin RunPlaces
        BY <1>11 DEF TaskReturns, At, RunPlaces
    <2>2. PICK d, g : d.at = "task_over" /\ GiveUpLease(t, g, d)
        BY <1>11 DEF TaskReturns
    <2>3. QED
        BY <2>1, <2>2, GivingUpIsAway DEF RunPlaces
<1>12. CASE TakePending(t)
    <2>1. thread[t].at \notin RunPlaces
        BY <1>12 DEF TakePending, At, RunPlaces
    <2>2. Go(t, Idle) \/ \E g : GiveUpLease(t, g, Idle)
        BY <1>12 DEF TakePending
    <2>3. QED
        BY <1>3, <2>1, <2>2, GivingUpIsAway
<1>13. QED
    BY <1>1, <1>4, <1>5, <1>6, <1>7, <1>8, <1>9, <1>10, <1>11, <1>12 DEF ManagerNext

(* A thread that is at its run before and after a step *)
LEMMA RunMoves ==
    ASSUME ThreadsTyped, Controlled, NEW t \in Threads, NEW c, Go(t, c),
           thread[t].at \in RunPlaces, c.at \in RunPlaces, c.run = thread[t].run,
           UNCHANGED <<lastRun, token>>
    PROVE  /\ \A u \in Threads : thread'[u].at \in RunPlaces =>
                 thread'[u].run \in 1..lastRun' /\ token'[thread'[u].run] \in {"live", "cancelled"}
           /\ \A u, v \in Threads :
                 thread'[u].at \in RunPlaces /\ thread'[v].at \in RunPlaces
                 /\ thread'[u].run = thread'[v].run => u = v
<1>1. thread'[t] = c /\ \A u \in Threads \ {t} : thread'[u] = thread[u]
    BY GoMoves
<1>2. \A u \in Threads : thread'[u].at \in RunPlaces =>
          thread[u].at \in RunPlaces /\ thread'[u].run = thread[u].run
    BY <1>1
<1>3. QED
    BY <1>2 DEF Controlled

LEMMA ControllerKeeps ==
    ASSUME IInv, Controlled, NEW t \in Threads, ControllerStep(t)
    PROVE  Controlled'
<1>1. ControllerNext(t) /\ ThreadsTyped
    BY DEF ControllerStep, IInv
<1>2. Idle.at = "idle" /\ Idle.at \notin RunPlaces
    BY DEF Idle, RunPlaces
<1>3. \A u \in Running1 : u \in Threads /\ thread[u].at \in RunPlaces
    BY DEF Running1, RunPlaces
<1>4. active = NoRun => Running1 = {}
    BY <1>3 DEF Controlled, NoRun
<1>5. CASE \/ CreateController(t) \/ ClearSession(t) \/ ApplyConfig(t) \/ DestroyController(t)
    <2>1. /\ UNCHANGED <<active, lastRun, token, thread>>
          /\ lifecycle' \in {"stopped", "freed"} => lifecycle \in {"stopped", "freed"}
          /\ lifecycle' = "draining" => lifecycle = "draining"
        BY <1>5 DEF CreateController, ClearSession, ApplyConfig, DestroyController
    <2>2. Running1' = Running1
        BY <2>1 DEF Running1
    <2>3. QED
        BY <2>1, <2>2 DEF Controlled
<1>6. CASE CancelRun(t)
    <2>1. /\ UNCHANGED <<lifecycle, active, lastRun, thread>>
          /\ active \in ControllerRuns /\ token' = [token EXCEPT ![active] = "cancelled"]
        BY <1>6 DEF CancelRun, CancelToken
    <2>2. /\ token' = [r \in ControllerRuns |-> token'[r]] /\ token'[active] = "cancelled"
          /\ \A r \in ControllerRuns : r # active => token'[r] = token[r]
        BY <2>1 DEF Controlled
    <2>3. Running1' = Running1
        BY <2>1 DEF Running1
    <2>4. 1..lastRun \subseteq ControllerRuns
        BY ControllerAssumption DEF Controlled, ControllerRuns
    <2>5. QED
        BY <2>1, <2>2, <2>3, <2>4 DEF Controlled
<1>7. CASE SubmitText(t)
    <2>1. PICK c : /\ c.at = "claiming" /\ c.run = lastRun + 1 /\ Go(t, c)
        BY <1>7 DEF SubmitText
    <2>2. /\ UNCHANGED <<lifecycle, active>> /\ thread[t].at = "idle"
          /\ lastRun < MaxControllerRuns /\ lastRun' = lastRun + 1
          /\ token' = [token EXCEPT ![lastRun + 1] = "live"]
        BY <1>7 DEF SubmitText, At
    <2>3. lastRun \in Nat /\ lastRun + 1 \in ControllerRuns /\ lastRun' \in 0..MaxControllerRuns
        BY <2>2, ControllerAssumption DEF Controlled, ControllerRuns
    <2>4. /\ token' = [r \in ControllerRuns |-> token'[r]] /\ token'[lastRun + 1] = "live"
          /\ \A r \in 1..lastRun : token'[r] = token[r]
        <3>1. token = [r \in ControllerRuns |-> token[r]] /\ 1..lastRun \subseteq ControllerRuns
              /\ \A r \in 1..lastRun : r # lastRun + 1
            BY <2>2, <2>3, ControllerAssumption DEF Controlled, ControllerRuns
        <3>2. QED
            BY <2>2, <2>3, <3>1
    <2>5. thread'[t] = c /\ \A u \in Threads \ {t} : thread'[u] = thread[u]
        BY <1>1, <2>1, GoMoves
    <2>6. Running1' = Running1 /\ \A u \in Running1 : thread'[u] = thread[u]
        BY <2>1, <2>2, <2>5 DEF Running1
    <2>7. \A u \in Threads : thread'[u].at \in RunPlaces =>
              \/ u = t /\ thread'[u].run = lastRun + 1
              \/ u # t /\ thread'[u] = thread[u] /\ thread[u].run \in 1..lastRun
        BY <2>1, <2>5 DEF Controlled
    <2>8. \A u \in Threads : thread'[u].at \in RunPlaces =>
              thread'[u].run \in 1..lastRun' /\ token'[thread'[u].run] \in {"live", "cancelled"}
        BY <2>2, <2>3, <2>4, <2>7 DEF Controlled
    <2>9. \A u, v \in Threads :
              thread'[u].at \in RunPlaces /\ thread'[v].at \in RunPlaces
              /\ thread'[u].run = thread'[v].run => u = v
        BY <2>3, <2>7 DEF Controlled
    <2>10. active \in 0..lastRun' /\ (active # NoRun => active \in 1..lastRun)
        BY <2>2, <2>3 DEF Controlled, NoRun
    <2>11. QED
        BY <2>2, <2>3, <2>4, <2>6, <2>8, <2>9, <2>10 DEF Controlled
<1>8. CASE ClaimRefused(t) \/ GiveBack(t)
    <2>1. PICK c : Go(t, c) /\ c.at \notin RunPlaces
        BY <1>2, <1>8, OnwardIsAway DEF ClaimRefused, GiveBack
    <2>2. /\ UNCHANGED <<lifecycle, active, lastRun>>
          /\ thread[t].at \in {"claiming", "giving_back"}
          /\ token' = [token EXCEPT ![thread[t].run] = "destroyed"]
        BY <1>8 DEF ClaimRefused, GiveBack, At
    <2>3. thread[t].at \in RunPlaces /\ t \notin Running1
        BY <2>2 DEF RunPlaces, Running1
    <2>4. thread'[t] = c /\ \A u \in Threads \ {t} : thread'[u] = thread[u]
        BY <1>1, <2>1, GoMoves
    <2>5. Running1' = Running1 /\ \A u \in Running1 : thread'[u] = thread[u]
        BY <2>1, <2>3, <2>4 DEF Running1, RunPlaces
    <2>6. \A u \in Threads : thread'[u].at \in RunPlaces =>
              thread'[u] = thread[u] /\ thread[u].run # thread[t].run
        BY <2>1, <2>3, <2>4 DEF Controlled
    <2>7. 1..lastRun \subseteq ControllerRuns
        BY ControllerAssumption DEF Controlled, ControllerRuns
    <2>8. /\ token' = [r \in ControllerRuns |-> token'[r]]
          /\ \A r \in ControllerRuns : r # thread[t].run => token'[r] = token[r]
        BY <2>2 DEF Controlled
    <2>9. active # NoRun => active \in ControllerRuns /\ active # thread[t].run
        BY <1>3, <2>3, <2>7 DEF Controlled, NoRun
    <2>10. QED
        BY <2>2, <2>5, <2>6, <2>7, <2>8, <2>9 DEF Controlled
<1>9. CASE Claim(t)
    <2>1. PICK c : Go(t, c) /\ c.at \in {"creating", "running"} /\ c.run = thread[t].run
        BY <1>9 DEF Claim, RunAt
    <2>2. /\ UNCHANGED <<lifecycle, lastRun, token>> /\ lifecycle = "running" /\ active = NoRun
          /\ active' = thread[t].run /\ thread[t].at = "claiming"
        BY <1>9 DEF Claim, At
    <2>3. thread[t].at \in RunPlaces /\ c.at \in RunPlaces
        BY <2>1, <2>2 DEF RunPlaces
    <2>4. thread'[t] = c /\ \A u \in Threads \ {t} : thread'[u] = thread[u]
        BY <1>1, <2>1, GoMoves
    <2>5. Running1' = {t}
        BY <1>4, <2>1, <2>2, <2>4 DEF Running1
    <2>6. active' \in 0..lastRun'
        BY <2>2, <2>3 DEF Controlled
    <2>7. /\ \A u \in Threads : thread'[u].at \in RunPlaces =>
                 thread'[u].run \in 1..lastRun' /\ token'[thread'[u].run] \in {"live", "cancelled"}
          /\ \A u, v \in Threads :
                 thread'[u].at \in RunPlaces /\ thread'[v].at \in RunPlaces
                 /\ thread'[u].run = thread'[v].run => u = v
        BY <1>1, <2>1, <2>2, <2>3, RunMoves
    <2>8. QED
        BY <2>1, <2>2, <2>4, <2>5, <2>6, <2>7 DEF Controlled
<1>10. CASE CreateSession(t) \/ RunEnds(t)
    <2>1. PICK c : Go(t, c) /\ c.at \in {"running", "finishing"} /\ c.run = thread[t].run
        BY <1>10 DEF CreateSession, RunEnds, RunAt
    <2>2. UNCHANGED <<lifecycle, active, lastRun, token>> /\ thread[t].at \in {"creating", "running"}
        BY <1>10 DEF CreateSession, RunEnds, At, controllerVars
    <2>3. thread[t].at \in RunPlaces /\ c.at \in RunPlaces
        BY <2>1, <2>2 DEF RunPlaces
    <2>4. thread'[t] = c /\ \A u \in Threads \ {t} : thread'[u] = thread[u]
        BY <1>1, <2>1, GoMoves
    <2>5. Running1' = Running1 /\ \A u \in Running1 : thread'[u].run = thread[u].run
        BY <2>1, <2>2, <2>4 DEF Running1
    <2>6. /\ \A u \in Threads : thread'[u].at \in RunPlaces =>
                 thread'[u].run \in 1..lastRun' /\ token'[thread'[u].run] \in {"live", "cancelled"}
          /\ \A u, v \in Threads :
                 thread'[u].at \in RunPlaces /\ thread'[v].at \in RunPlaces
                 /\ thread'[u].run = thread'[v].run => u = v
        BY <1>1, <2>1, <2>2, <2>3, RunMoves
    <2>7. QED
        BY <2>2, <2>5, <2>6 DEF Controlled
<1>11. CASE FinishRun(t)
    <2>1. PICK c : Go(t, c) /\ c.at = "giving_back" /\ c.run = thread[t].run
        BY <1>11 DEF FinishRun, RunAt
    <2>2. /\ UNCHANGED <<lifecycle, lastRun, token>> /\ thread[t].at = "finishing"
          /\ active' = IF active = thread[t].run THEN NoRun ELSE active
        BY <1>11 DEF FinishRun, At
    <2>3. thread[t].at \in RunPlaces /\ c.at \in RunPlaces /\ t \in Running1
        BY <2>1, <2>2 DEF RunPlaces, Running1
    <2>4. thread'[t] = c /\ \A u \in Threads \ {t} : thread'[u] = thread[u]
        BY <1>1, <2>1, GoMoves
    <2>5. active' = NoRun
        BY <2>2, <2>3 DEF Controlled
    <2>6. \A u \in Running1 : u = t
        BY <1>3, <2>3 DEF Controlled
    <2>7. Running1' = {}
        BY <2>1, <2>4, <2>6 DEF Running1
    <2>8. /\ \A u \in Threads : thread'[u].at \in RunPlaces =>
                 thread'[u].run \in 1..lastRun' /\ token'[thread'[u].run] \in {"live", "cancelled"}
          /\ \A u, v \in Threads :
                 thread'[u].at \in RunPlaces /\ thread'[v].at \in RunPlaces
                 /\ thread'[u].run = thread'[v].run => u = v
        BY <1>1, <2>1, <2>2, <2>3, RunMoves
    <2>9. NoRun \in 0..lastRun
        BY DEF Controlled, NoRun
    <2>10. QED
        BY <2>2, <2>5, <2>7, <2>8, <2>9 DEF Controlled
<1>12. CASE Shutdown(t)
    <2>1. PICK c : Go(t, c) /\ c.at = "draining"
        BY <1>12 DEF Shutdown
    <2>2. /\ UNCHANGED <<active, lastRun>> /\ lifecycle' = "draining" /\ thread[t].at = "idle"
          /\ active # NoRun => token' = [token EXCEPT ![active] = "cancelled"]
          /\ active = NoRun => token' = token
        BY <1>12 DEF Shutdown, CancelToken, At
    <2>3. thread'[t] = c /\ \A u \in Threads \ {t} : thread'[u] = thread[u]
        BY <1>1, <2>1, GoMoves
    <2>4. \A u \in Threads : thread'[u].at \in RunPlaces \/ thread[u].at \in RunPlaces =>
              thread'[u] = thread[u]
        BY <2>1, <2>2, <2>3 DEF RunPlaces
    <2>5. Running1' = Running1 /\ \A u \in Running1 : thread'[u] = thread[u]
        BY <2>4 DEF Running1, RunPlaces
    <2>6. 1..lastRun \subseteq ControllerRuns
        BY ControllerAssumption DEF Controlled, ControllerRuns
    <2>7. active # NoRun => active \in ControllerRuns
        BY <2>6 DEF Controlled, NoRun
    <2>8. /\ token' = [r \in ControllerRuns |-> token'[r]]
          /\ active # NoRun => token'[active] = "cancelled"
          /\ \A r \in ControllerRuns : token'[r] \in {token[r], "cancelled"}
        BY <2>2, <2>7 DEF Controlled
    <2>9. \A u \in Threads : thread'[u].at \in RunPlaces =>
              thread'[u].run \in 1..lastRun' /\ token'[thread'[u].run] \in {"live", "cancelled"}
        BY <2>2, <2>4, <2>6, <2>8 DEF Controlled
    <2>10. QED
        BY <2>2, <2>4, <2>5, <2>8, <2>9 DEF Controlled
<1>13. CASE Drained(t) \/ DrainTimeout(t)
    <2>1. /\ Go(t, Idle) /\ thread[t].at = "draining" /\ UNCHANGED <<active, lastRun, token>>
          /\ lifecycle' = lifecycle \/ (lifecycle' = "stopped" /\ active = NoRun)
        BY <1>13 DEF Drained, DrainTimeout, At, controllerVars
    <2>2. thread'[t] = Idle /\ \A u \in Threads \ {t} : thread'[u] = thread[u]
        BY <1>1, <2>1, GoMoves
    <2>3. \A u \in Threads : thread'[u].at \in RunPlaces \/ thread[u].at \in RunPlaces =>
              thread'[u] = thread[u]
        BY <1>2, <2>1, <2>2 DEF RunPlaces
    <2>4. Running1' = Running1 /\ \A u \in Running1 : thread'[u] = thread[u]
        BY <2>3 DEF Running1, RunPlaces
    <2>5. QED
        BY <2>1, <2>3, <2>4 DEF Controlled
<1>14. QED
    BY <1>1, <1>5, <1>6, <1>7, <1>8, <1>9, <1>10, <1>11, <1>12, <1>13 DEF ControllerNext

LEMMA ControlledInductive == Spec => []Controlled
<1>1. Init => Controlled
    <2> SUFFICES ASSUME Init
                 PROVE  Controlled
        OBVIOUS
    <2>1. /\ lifecycle = "starting" /\ active = 0 /\ lastRun = 0
          /\ token = [r \in ControllerRuns |-> "none"]
        BY DEF Init, ControllerInit, NoRun
    <2>2. \A t \in Threads : thread[t].at \in {"idle", "destroy"}
        BY DEF Init, GenerationInit, Idle
    <2>3. 0 \in 0..MaxControllerRuns /\ 0 \in 0..0
        BY ControllerAssumption
    <2>4. QED
        BY <2>1, <2>2, <2>3 DEF Controlled, RunPlaces, Running1, NoRun
<1>2. IInv /\ Controlled /\ [Next]_vars => Controlled'
    <2> SUFFICES ASSUME IInv, Controlled, [Next]_vars
                 PROVE  Controlled'
        OBVIOUS
    <2>1. ASSUME NEW t \in Threads, BuilderStep(t) \/ ControllerStep(t) \/ ManagerStep(t)
          PROVE  Controlled'
        BY <2>1, BuilderIsAway, ControllerKeeps, ManagerIsAway
    <2>2. CASE Purge /\ UNCHANGED controllerVars
        BY <2>2, AwayStays DEF Purge
    <2>3. CASE UNCHANGED vars
        BY <2>3, AwayStays DEF vars
    <2>4. QED
        BY <2>1, <2>2, <2>3 DEF Next
<1>3. QED
    BY <1>1, <1>2, Inductive, PTL DEF Spec

(* While a run of the controller is active exactly one thread is between    *)
(* its two critical sections, on a generation that is live, with a cancel  *)
(* source that is still there; a shutdown that succeeded leaves none       *)
(* (cc_runtime_controller_submit_text, _cancel, _shutdown).                *)
THEOREM ActiveStaysControlled == Spec => []ActiveIsControlled
<1>1. ASSUME IInv, Controlled
      PROVE  ActiveIsControlled
    <2>1. \A t \in Running1 : t \in Threads /\ thread[t].at \in RunPlaces
        BY DEF Running1, RunPlaces
    <2>2. active = NoRun => Running1 = {}
        BY <1>1, <2>1 DEF Controlled, NoRun
    <2>3. ASSUME NEW t \in Running1
          PROVE  phase[thread[t].generation] = "live"
        <3>1. thread[t].generation \in Generations /\ t \in Holders(thread[t].generation)
            BY <1>1 DEF IInv, ThreadsTyped, CallTyped, HeldIn, Held, Holders, Running1, HolderPlaces
        <3>2. PICK g \in Generations : g = thread[t].generation
            BY <3>1
        <3>3. /\ IsFiniteSet(Holders(g)) /\ t \in Holders(g)
              /\ Cardinality(Holders(g)) \in Nat /\ Cardinality(Leases(g)) \in Nat
            BY <1>1, <3>1, <3>2, UsersFinite DEF IInv
        <3>4. Cardinality(Holders(g)) # 0
            BY <3>3, FS_EmptySet
        <3>5. refs[g] > 0
            BY <1>1, <3>3, <3>4 DEF IInv, Counted
        <3>6. QED
            BY <1>1, <3>2, <3>5 DEF IInv, Counted, Living
    <2>4. ASSUME active # NoRun
          PROVE  \E t \in Threads : /\ Running1 = {t} /\ thread[t].run = active
                                    /\ phase[thread[t].generation] = "live"
        <3>1. PICK t \in Running1 : thread[t].run = active
            BY <1>1, <2>4 DEF Controlled
        <3>2. Running1 = {t}
            BY <1>1, <2>1, <3>1 DEF Controlled
        <3>3. QED
            BY <2>1, <2>3, <3>1, <3>2
    <2>5. active # NoRun => token[active] \in {"live", "cancelled"}
        BY <1>1, <2>1 DEF Controlled
    <2>6. QED
        BY <1>1, <2>2, <2>4, <2>5 DEF Controlled, ActiveIsControlled
<1>2. QED
    BY <1>1, Inductive, ControlledInductive, PTL
=============================================================================
