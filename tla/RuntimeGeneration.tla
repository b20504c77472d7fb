-------------------------- MODULE RuntimeGeneration --------------------------
(***************************************************************************)
(* The runtime builder (core/src/app/cc_runtime_builder.c): it owns the    *)
(* parts a runtime is assembled from, hands out counted references to the  *)
(* current generation, replaces the generation by a reload that is either  *)
(* committed or rolled back, reclaims a retired generation with its last   *)
(* reference, and is destroyed within a time limit.                        *)
(*                                                                         *)
(* generation_mutex makes a critical section one action; building,         *)
(* reclaiming and reporting happen without it and are actions of their own.*)
(* "thread" says where each calling thread is; the modules that take       *)
(* references (RuntimeController, AgentManager) share it.  A thread that   *)
(* gave up the last reference of a retired generation is "reclaiming" it   *)
(* and goes on afterwards to the place named by "then".                    *)
(*                                                                         *)
(* A generation is named by the order of commits, which is its id.         *)
(***************************************************************************)
EXTENDS Integers, FiniteSets, Sequences

CONSTANTS
    Threads,         \* threads that call the SDK
    MaxGenerations   \* bound: the first generation and the reloads that commit

ASSUME GenerationAssumption == MaxGenerations \in Nat \ {0} /\ IsFiniteSet(Threads)

NoGeneration == 0
Generations == 1..MaxGenerations

(* What cc_runtime_builder_create makes, in its order.  The memory store is *)
(* missing here because a failure to make it is ignored.                   *)
Parts == <<"logger", "event_bus", "filesystem", "http_client", "session_store", "provider",
           "policy", "sandbox", "tools", "tool_pool", "prompt", "runtime", "run_queue",
           "agent_manager", "generation", "default_agent">>

(* How many parts there are once the first generation is handed out; the    *)
(* default agent, whose lease is on it, may still fail.                     *)
Handed == Len(Parts) - 1

(* The parts that belong to the generation once there is one *)
GenerationParts == {"provider", "tools", "tool_pool", "prompt", "runtime"}

VARIABLES
    parts,          \* the builder's own parts that exist
    phase,          \* of each generation
    refs,           \* references to each generation
    current,        \* the generation handed out
    retired,        \* replaced generations that still have references
    shuttingDown,
    reloading,      \* reload_in_progress
    reclaims,       \* reclaims_inflight
    builder,        \* "created", "freed"
    thread          \* where each thread is

generationVars == <<parts, phase, refs, current, retired, shuttingDown, reloading, reclaims,
                    builder>>

Idle == [at |-> "idle"]
At(t, place) == thread[t].at = place
Go(t, r) == thread' = [thread EXCEPT ![t] = r]

(* A builder whose creation fails at some part is destroyed by the thread   *)
(* that wanted it.                                                         *)
GenerationInit ==
    \E n \in 0..Len(Parts) :
        /\ parts = {Parts[i] : i \in 1..n} \ (IF n >= Handed THEN GenerationParts ELSE {})
        /\ phase = [g \in Generations |-> IF g = 1 /\ n >= Handed THEN "live" ELSE "absent"]
        /\ current = IF n >= Handed THEN 1 ELSE NoGeneration
        /\ refs = [g \in Generations |-> 0]
        /\ retired = {}
        /\ shuttingDown = FALSE /\ reloading = FALSE
        /\ reclaims = 0
        /\ builder = "created"
        /\ \E creator \in Threads :
              thread = [t \in Threads |->
                  IF t = creator /\ n < Len(Parts) THEN [at |-> "destroy"]
                  ELSE Idle]

(* The builder that threads other than its creator can know of *)
Published == builder = "created" /\ "default_agent" \in parts
-----------------------------------------------------------------------------
(* References *)

CanAcquire == ~shuttingDown /\ current # NoGeneration

Acquire ==
    /\ CanAcquire
    /\ refs' = [refs EXCEPT ![current] = @ + 1]
    /\ UNCHANGED <<parts, phase, current, retired, shuttingDown, reloading, reclaims, builder>>

(* The last reference of a retired generation *)
LastOfRetired(g) == refs[g] = 1 /\ g \in retired

Release(g) ==
    /\ refs' = [refs EXCEPT ![g] = @ - 1]
    /\ IF LastOfRetired(g)
       THEN /\ phase' = [phase EXCEPT ![g] = "reclaiming"]
            /\ retired' = retired \ {g}
            /\ reclaims' = reclaims + 1
       ELSE UNCHANGED <<phase, retired, reclaims>>
    /\ UNCHANGED <<parts, current, shuttingDown, reloading, builder>>

(* Where a thread goes on once it has released g *)
Onward(g, r) == IF LastOfRetired(g) THEN [at |-> "reclaiming", generation |-> g, then |-> r]
                                   ELSE r

(* runtime_generation_destroy, and the critical section that reports it *)
Reclaimed(g) ==
    /\ phase' = [phase EXCEPT ![g] = "freed"]
    /\ reclaims' = reclaims - 1
    /\ UNCHANGED <<parts, refs, current, retired, shuttingDown, reloading, builder>>

Reclaim(t) ==
    /\ At(t, "reclaiming")
    /\ Reclaimed(thread[t].generation)
    /\ Go(t, thread[t].then)
-----------------------------------------------------------------------------
(* Reload *)

ReloadBegin(t) ==
    /\ At(t, "idle") /\ Published
    /\ ~shuttingDown /\ ~reloading
    /\ \E g \in Generations : phase[g] = "absent"   \* the bound
    /\ reloading' = TRUE
    /\ refs' = [refs EXCEPT ![current] = @ + 1]
    /\ Go(t, [at |-> "building", old |-> current])
    /\ UNCHANGED <<parts, phase, current, retired, shuttingDown, reclaims, builder>>

(* A part of the new generation cannot be built: what there is of it is     *)
(* destroyed, nothing else has changed.                                     *)
BuildFails(t) ==
    /\ At(t, "building")
    /\ Go(t, [at |-> "rolling_back", old |-> thread[t].old])
    /\ UNCHANGED generationVars

NewOne == CHOOSE g \in Generations : phase[g] = "absent" /\ \A h \in 1..(g - 1) : phase[h] # "absent"

Commit(t) ==
    /\ At(t, "building")
    /\ ~shuttingDown /\ current = thread[t].old
    /\ current' = NewOne
    /\ phase' = [phase EXCEPT ![NewOne] = "live"]
    /\ retired' = retired \cup {thread[t].old}
    /\ reloading' = FALSE
    /\ Go(t, [at |-> "reporting", old |-> thread[t].old, new |-> NewOne])
    /\ UNCHANGED <<parts, refs, shuttingDown, reclaims, builder>>

CommitRefused(t) ==
    /\ At(t, "building")
    /\ shuttingDown \/ current # thread[t].old
    /\ Go(t, [at |-> "rolling_back", old |-> thread[t].old])
    /\ UNCHANGED generationVars

(* The old generation's reference, then the flag, in two critical sections *)
RollBack(t) ==
    /\ At(t, "rolling_back")
    /\ Release(thread[t].old)
    /\ Go(t, Onward(thread[t].old, [at |-> "reload_failed"]))

ReloadFailed(t) ==
    /\ At(t, "reload_failed")
    /\ reloading' = FALSE
    /\ Go(t, Idle)
    /\ UNCHANGED <<parts, phase, refs, current, retired, shuttingDown, reclaims, builder>>

(* The report is filled from the new generation, then the old one is given  *)
(* up, then the success is logged through the builder.                      *)
Report(t) ==
    /\ At(t, "reporting")
    /\ Release(thread[t].old)
    /\ Go(t, Onward(thread[t].old, [at |-> "logging"]))

LogReload(t) ==
    /\ At(t, "logging")
    /\ Go(t, Idle)
    /\ UNCHANGED generationVars
-----------------------------------------------------------------------------
(* Shutdown and destruction *)

RequestShutdown(t) ==
    /\ At(t, "idle") /\ Published
    /\ ~shuttingDown
    /\ shuttingDown' = TRUE
    /\ UNCHANGED <<parts, phase, refs, current, retired, reloading, reclaims, builder, thread>>

(* The threads inside cc_runtime_builder_destroy *)
Destroying == {t \in Threads : thread[t].at \in {"destroy", "stopping_queue", "freeing_manager",
                                                 "waiting", "stopping_events"}}

(* The owner calls it from one thread at a time, and again after a timeout *)
Destroy(t) ==
    /\ At(t, "idle") /\ Published
    /\ Destroying = {}
    /\ Go(t, [at |-> "destroy"])
    /\ UNCHANGED generationVars

DestroyBegins(t) ==
    /\ At(t, "destroy")
    /\ shuttingDown' = TRUE
    /\ Go(t, [at |-> IF "run_queue" \in parts THEN "stopping_queue" ELSE "freeing_manager"])
    /\ UNCHANGED <<parts, phase, refs, current, retired, reloading, reclaims, builder>>

(* cc_run_queue_shutdown answers that no run is left, or that the time is up *)
QueueStopped(t) ==
    /\ At(t, "stopping_queue")
    /\ parts' = parts \ {"run_queue"}
    /\ Go(t, [at |-> "freeing_manager"])
    /\ UNCHANGED <<phase, refs, current, retired, shuttingDown, reloading, reclaims, builder>>

QueueTimeout(t) ==
    /\ At(t, "stopping_queue") /\ Published
    /\ Go(t, Idle)
    /\ UNCHANGED generationVars

ManagerFreed(t) ==
    /\ At(t, "freeing_manager")
    /\ parts' = parts \ {"agent_manager"}
    /\ Go(t, [at |-> "waiting"])
    /\ UNCHANGED <<phase, refs, current, retired, shuttingDown, reloading, reclaims, builder>>

QuietMutant == \A g \in {current} \ {NoGeneration} : refs[g] = 0
Quiet == /\ \A g \in (retired \cup {current}) \ {NoGeneration} : refs[g] = 0
         /\ ~reloading /\ reclaims = 0

AllReleased(t) ==
    /\ At(t, "waiting")
    /\ Quiet
    /\ Go(t, [at |-> "stopping_events"])
    /\ UNCHANGED generationVars

DestroyTimeout(t) ==
    /\ At(t, "waiting")
    /\ ~Quiet
    /\ Go(t, Idle)
    /\ UNCHANGED generationVars

(* A handler that does not return in time stops the destruction, too *)
EventsTimeout(t) ==
    /\ At(t, "stopping_events") /\ Published
    /\ Go(t, Idle)
    /\ UNCHANGED generationVars

FreeBuilder(t) ==
    /\ At(t, "stopping_events")
    /\ phase' = [g \in Generations |-> IF g \in retired \cup {current} THEN "freed" ELSE phase[g]]
    /\ parts' = {}
    /\ current' = NoGeneration
    /\ retired' = {}
    /\ builder' = "freed"
    /\ Go(t, Idle)
    /\ UNCHANGED <<refs, shuttingDown, reloading, reclaims>>

(* Those that concern the builder alone *)
BuilderNext(t) ==
    \/ Reclaim(t)
    \/ ReloadBegin(t) \/ BuildFails(t) \/ Commit(t) \/ CommitRefused(t)
    \/ RollBack(t) \/ ReloadFailed(t) \/ Report(t) \/ LogReload(t)
    \/ RequestShutdown(t) \/ Destroy(t) \/ DestroyBegins(t)
    \/ AllReleased(t) \/ DestroyTimeout(t) \/ EventsTimeout(t) \/ FreeBuilder(t)
=============================================================================
