------------------------------- MODULE Hosting -------------------------------
(***************************************************************************)
(* A host application: the runtime builder with its generations, the       *)
(* runtime controller and the agent manager on top of it, and threads that *)
(* use all three at once while configuration is reloaded and the host is   *)
(* shut down.                                                              *)
(*                                                                         *)
(* What the host has to keep to, as the headers ask: the builder outlives  *)
(* the controller's calls, and no client is inside a call of the manager   *)
(* when the builder is destroyed.  Runs may be in progress, references may *)
(* be held, and a reload may be under way: destroy is there to wait for    *)
(* them.                                                                   *)
(***************************************************************************)
EXTENDS RuntimeController, AgentManager

vars == <<generationVars, controllerVars, managerVars, serviceVars, thread>>

Init == GenerationInit /\ ControllerInit /\ ManagerInit

InManager == {"leasing", "submit", "linking", "collecting", "taking", "reset", "clearing"}

(* The calls of the builder that clients make *)
BuilderStep(t) ==
    /\ BuilderNext(t)
    /\ ~At(t, "idle") \/ t \in Clients
    /\ thread'[t].at = "destroy" =>
          \A u \in Clients : thread[u].at \notin InManager \cup {"claiming"}
    /\ UNCHANGED <<controllerVars, managerVars, serviceVars>>

ControllerStep(t) ==
    /\ t \in Clients
    /\ ControllerNext(t)
    /\ UNCHANGED <<managerVars, serviceVars>>

ManagerStep(t) ==
    /\ ManagerNext(t)
    /\ UNCHANGED controllerVars

Next ==
    \/ \E t \in Threads : BuilderStep(t) \/ ControllerStep(t) \/ ManagerStep(t)
    \/ Purge /\ UNCHANGED controllerVars

Spec == Init /\ [][Next]_vars
-----------------------------------------------------------------------------
(* The generation a thread in call c holds a reference to, if any *)
HeldIn(c) == IF c.at \in {"claiming", "creating", "running", "finishing", "giving_back"}
             THEN c.generation
             ELSE IF c.at \in {"building", "rolling_back", "reporting"} THEN c.old
             ELSE IF c.at \in {"submit", "reset", "clearing"} THEN c.lease
             ELSE NoGeneration

Held(t) == HeldIn(thread[t])

Holders(g) == {t \in Threads : Held(t) = g}
Leases(g) == {r \in DOMAIN task : task[r].lease = g}

(* The count of a generation is the number of its holders, whether threads *)
(* or tasks, and what somebody holds is neither reclaimed nor freed        *)
(* (cc_runtime_generation_release, release_task_runtime): a run goes on    *)
(* using its provider, tools and prompt through any number of reloads.     *)
HeldIsLive ==
    \A g \in Generations :
        /\ refs[g] = Cardinality(Holders(g)) + Cardinality(Leases(g))
        /\ refs[g] > 0 => phase[g] = "live" /\ g \in retired \cup {current}

(* Once destroy has freed the builder nobody is left who would use it:     *)
(* no reference, no reload before its commit, nobody reclaiming            *)
(* (cc_runtime_builder_destroy).  A reload past its commit is not waited   *)
(* for: its last log line goes through the builder (README, section 9).    *)
FreedIsUnused ==
    builder = "freed" =>
        /\ \A g \in Generations : phase[g] \in {"absent", "freed"}
        /\ \A t \in Threads :
              Held(t) = NoGeneration /\ ~At(t, "reclaiming") /\ ~At(t, "reload_failed")
        /\ \A r \in DOMAIN task : task[r].lease = NoGeneration

(* A run is active exactly while one thread is between its two critical    *)
(* sections, its cancel source is then still there for cancel and shutdown *)
(* to use, and after a shutdown that succeeded there is none               *)
(* (cc_runtime_controller_submit_text, _cancel, _shutdown).                *)
Running1 == {t \in Threads : thread[t].at \in {"creating", "running", "finishing"}}
ActiveIsControlled ==
    /\ active = NoRun => Running1 = {}
    /\ active # NoRun => /\ token[active] \in {"live", "cancelled"}
                         /\ \E t \in Threads : Running1 = {t} /\ thread[t].run = active
                                               /\ phase[thread[t].generation] = "live"
    /\ lifecycle \in {"stopped", "freed"} => active = NoRun
    /\ lifecycle = "draining" /\ active # NoRun => token[active] = "cancelled"

(* Until the queue is done with a run its task is there, and so is the     *)
(* generation it is to run on, whatever collectors, reset, reload and      *)
(* destroy do (free_message_task, cc_agent_manager_destroy).               *)
TaskOutlivesRun ==
    \A r \in DOMAIN run : run[r].phase \in {"pending", "running"} =>
        /\ r \in DOMAIN task
        /\ "run_queue" \in parts
        /\ task[r].lease # NoGeneration => phase[task[r].lease] = "live"

(* A collect that succeeds hands over the response the task has written    *)
(* (cc_agent_manager_collect: on success the response goes to the caller). *)
(* TLC refutes it: README, section 9.                                      *)
CollectHandsOver == \A r \in DOMAIN run : answer[r] # "null"
=============================================================================
