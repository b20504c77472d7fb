---------------------------- MODULE AgentManager ----------------------------
(***************************************************************************)
(* The agent manager (core/src/app/cc_agent_manager.c): named agents, and  *)
(* messages for them that run on the run queue.  For each message it keeps *)
(* a task, which the queue's worker executes, and a pending record, which  *)
(* the collector of the result takes out and frees together with the task. *)
(*                                                                         *)
(* Of the queue it uses what RunService promises.  Of the runtime builder  *)
(* it uses the references of RuntimeGeneration: an agent may be registered *)
(* with a lease, and then each of its tasks holds a generation until it    *)
(* has run or is freed.                                                    *)
(*                                                                         *)
(* A run's session is the queue's session key: the agent and the session.  *)
(***************************************************************************)
EXTENDS RuntimeGeneration, RunService

CONSTANTS
    Agents,         \* agent ids
    Default,        \* the one the builder registers, with a lease on itself
    SessionIds,     \* session ids
    Workers         \* the threads of the run queue, which are Threads as well

ASSUME ManagerAssumption ==
    /\ Default \in Agents
    /\ Workers \subseteq Threads
    /\ Sessions = Agents \X SessionIds

VARIABLES
    entry,          \* of each agent: "absent", "borrowed" (add_agent), "leased"
    currentAgent,
    task,           \* of each run that has one: its lease, and whether a response is there
    pending,        \* runs with a record in pending_runs
    answer          \* of each run: what a collect that succeeded handed over

managerVars == <<entry, currentAgent, task, pending, answer>>

(* The calling threads of the SDK *)
Clients == Threads \ Workers

ManagerInit ==
    /\ ServiceInit
    /\ entry = [a \in Agents |-> IF a = Default THEN "leased" ELSE "absent"]
    /\ currentAgent = Default
    /\ task = << >>
    /\ pending = {}
    /\ answer = [r \in 1..MaxRuns |-> "none"]

(* The manager is called by clients, and not once the builder destroys it *)
Calls(t) == t \in Clients /\ At(t, "idle") /\ Published /\ "agent_manager" \in parts
            /\ Destroying = {}
-----------------------------------------------------------------------------
(* Agents *)

AddAgent(t) ==
    /\ Calls(t)
    /\ \E a \in Agents : entry' = [entry EXCEPT ![a] = "borrowed"]
    /\ UNCHANGED <<currentAgent, task, pending, answer, thread>>
    /\ UNCHANGED <<generationVars, serviceVars>>

AddAgentLease(t) ==
    /\ Calls(t)
    /\ \E a \in Agents : entry' = [entry EXCEPT ![a] = "leased"]
    /\ UNCHANGED <<currentAgent, task, pending, answer, thread>>
    /\ UNCHANGED <<generationVars, serviceVars>>

SetCurrentAgent(t) ==
    /\ Calls(t)
    /\ \E a \in Agents : entry[a] # "absent" /\ currentAgent' = a
    /\ UNCHANGED <<entry, task, pending, answer, thread>>
    /\ UNCHANGED <<generationVars, serviceVars>>

(* find_entry: the agent that is meant when none is named *)
Effective(a) == IF a \in Agents THEN a ELSE currentAgent
-----------------------------------------------------------------------------
(* A message *)

(* The entry is copied under the manager's mutex, the lease is taken from  *)
(* the builder after that.                                                 *)
LookUp(t) ==
    /\ Calls(t)
    /\ \E a \in Agents \cup {"current"}, s \in SessionIds, l \in Lanes,
          purpose \in {"submit", "reset"} :
        /\ entry[Effective(a)] # "absent"
        /\ Go(t, [at |-> IF entry[Effective(a)] = "leased" THEN "leasing" ELSE purpose,
                  purpose |-> purpose, key |-> <<Effective(a), s>>, lane |-> l,
                  lease |-> NoGeneration])
    /\ UNCHANGED <<managerVars, generationVars, serviceVars>>

TakeLease(t) ==
    /\ At(t, "leasing")
    /\ IF CanAcquire
       THEN /\ Acquire
            /\ Go(t, [at |-> thread[t].purpose, purpose |-> thread[t].purpose,
                     key |-> thread[t].key, lane |-> thread[t].lane, lease |-> current])
       ELSE /\ Go(t, Idle)
            /\ UNCHANGED generationVars
    /\ UNCHANGED <<managerVars, serviceVars>>

(* release_task_runtime: not for a runtime the application lent *)
GiveUpLease(t, g, r) ==
    IF g = NoGeneration THEN Go(t, r) /\ UNCHANGED generationVars
                        ELSE Release(g) /\ Go(t, Onward(g, r))

WithTask(r, g) == [q \in DOMAIN task \cup {r} |->
                      IF q = r THEN [lease |-> g, response |-> FALSE] ELSE task[q]]

EnqueueMutant(t) ==
    /\ At(t, "submit")
    /\ Accept(thread[t].key, thread[t].lane)
    /\ task' = WithTask(accepted + 1, thread[t].lease)
    /\ GiveUpLease(t, thread[t].lease, [at |-> "linking", run |-> accepted + 1])
    /\ UNCHANGED <<entry, currentAgent, pending, answer>>

Enqueue(t) ==
    /\ At(t, "submit")
    /\ Accept(thread[t].key, thread[t].lane)
    /\ task' = WithTask(accepted + 1, thread[t].lease)
    /\ Go(t, [at |-> "linking", run |-> accepted + 1])
    /\ UNCHANGED <<entry, currentAgent, pending, answer>>
    /\ UNCHANGED generationVars

(* Full or closed: task and record are freed again *)
EnqueueRefused(t) ==
    /\ At(t, "submit")
    /\ GiveUpLease(t, thread[t].lease, Idle)
    /\ UNCHANGED <<managerVars, serviceVars>>

(* The run may have started, or even be over, when its record is linked.   *)
(* handle_message goes on to collect, submit returns.                      *)
Link(t) ==
    /\ At(t, "linking")
    /\ pending' = pending \cup {thread[t].run}
    /\ \E sync \in BOOLEAN :
        Go(t, IF sync THEN [at |-> "collecting", run |-> thread[t].run] ELSE Idle)
    /\ UNCHANGED <<entry, currentAgent, task, answer, generationVars, serviceVars>>
-----------------------------------------------------------------------------
(* run_message_task, on a worker of the queue *)

StartTask(w) ==
    /\ w \in Workers /\ At(w, "idle")
    /\ \E r \in DOMAIN run :
        /\ Start(r)
        /\ Go(w, [at |-> "task", run |-> r])
    /\ UNCHANGED <<managerVars, generationVars>>

(* The runtime wrote a response or not; then the lease is given up, and    *)
(* only then the queue learns that the run is over.                        *)
TaskReturns(w) ==
    /\ At(w, "task")
    /\ LET r == thread[w].run IN
        \E response \in BOOLEAN :
            /\ task' = [task EXCEPT ![r] = [lease |-> NoGeneration, response |-> response]]
            /\ GiveUpLease(w, task[r].lease, [at |-> "task_over", run |-> r, ok |-> response])
    /\ UNCHANGED <<entry, currentAgent, pending, answer, serviceVars>>

(* A run whose token was cancelled is cancelled whatever the task returned *)
TaskOver(w) ==
    /\ At(w, "task_over")
    /\ Finish(thread[w].run)
    /\ run'[thread[w].run] \in {Done(IF thread[w].ok THEN "ok" ELSE "cancelled"),
                                Done("cancelled")}
    /\ Go(w, Idle)
    /\ UNCHANGED <<managerVars, generationVars>>
-----------------------------------------------------------------------------
(* collect *)

Collect(t) ==
    /\ Calls(t)
    /\ \E r \in pending : Go(t, [at |-> "collecting", run |-> r])
    /\ UNCHANGED <<managerVars, generationVars, serviceVars>>

(* cc_run_queue_collect hands over the outcome, or knows no such run *)
QueueAnswers(t) ==
    /\ At(t, "collecting")
    /\ LET r == thread[t].run IN
        \/ /\ run[r].phase = "done"
           /\ Dispose({r})
           /\ Go(t, [at |-> "taking", run |-> r, ok |-> run[r].outcome = "ok"])
        \/ /\ run[r].phase = "gone"
           /\ Go(t, [at |-> "taking", run |-> r, ok |-> FALSE])
           /\ UNCHANGED serviceVars
    /\ UNCHANGED <<managerVars, generationVars>>

(* take_pending_run_locked, and what is done with the record *)
TakePending(t) ==
    /\ At(t, "taking")
    /\ LET r == thread[t].run IN
        IF r \in pending
        THEN /\ pending' = pending \ {r}
             /\ task' = [q \in DOMAIN task \ {r} |-> task[q]]
             /\ answer' = IF thread[t].ok
                          THEN [answer EXCEPT ![r] = IF task[r].response THEN "response" ELSE "null"]
                          ELSE answer
             /\ GiveUpLease(t, task[r].lease, Idle)
        ELSE /\ answer' = IF thread[t].ok THEN [answer EXCEPT ![r] = "null"] ELSE answer
             /\ Go(t, Idle)
             /\ UNCHANGED <<task, pending, generationVars>>
    /\ UNCHANGED <<entry, currentAgent, serviceVars>>
-----------------------------------------------------------------------------
(* interrupt and reset *)

PendingOf(key) == {r \in Phase("pending") : run[r].session = key}

Interrupt(t) ==
    /\ Calls(t)
    /\ \E a \in Agents \cup {"current"}, s \in SessionIds :
        LET C == PendingOf(<<Effective(a), s>>) IN C # {} /\ Cancel(C)
    /\ UNCHANGED <<managerVars, generationVars, thread>>

(* The pending runs of the session are cancelled, then its history is       *)
(* cleared, then the lease goes.  A run of the session that has started is   *)
(* told to stop, but nobody waits for it.                                    *)
ResetInterrupts(t) ==
    /\ At(t, "reset")
    /\ Cancel(PendingOf(thread[t].key))
    /\ Go(t, [at |-> "clearing", lease |-> thread[t].lease])
    /\ UNCHANGED <<managerVars, generationVars>>

ResetClears(t) ==
    /\ At(t, "clearing")
    /\ GiveUpLease(t, thread[t].lease, Idle)
    /\ UNCHANGED <<managerVars, serviceVars>>

(* The queue's own doing: the time-to-live of an outcome nobody collects *)
Purge ==
    /\ \E r \in Phase("done") : Dispose({r})
    /\ UNCHANGED <<managerVars, generationVars, thread>>
-----------------------------------------------------------------------------
(* The manager's part in the destruction of the builder *)

(* cc_run_queue_shutdown closes the queue and cancels what is pending *)
QueueCloses(t) ==
    /\ At(t, "stopping_queue") /\ open
    /\ Close
    /\ UNCHANGED <<managerVars, generationVars, thread>>

QueueStopsMutant(t) ==
    /\ ~open
    /\ QueueStopped(t)
    /\ UNCHANGED <<managerVars, serviceVars>>

QueueStops(t) ==
    /\ ~open /\ \A w \in Workers : At(w, "idle")
    /\ QueueStopped(t)
    /\ UNCHANGED <<managerVars, serviceVars>>

QueueLate(t) ==
    /\ ~open /\ \E w \in Workers : ~At(w, "idle")
    /\ QueueTimeout(t)
    /\ UNCHANGED <<managerVars, serviceVars>>

(* cc_agent_manager_destroy: each record that nobody collected *)
FreePending(t) ==
    /\ At(t, "freeing_manager")
    /\ \E r \in pending :
        /\ pending' = pending \ {r}
        /\ task' = [q \in DOMAIN task \ {r} |-> task[q]]
        /\ GiveUpLease(t, task[r].lease, thread[t])
    /\ UNCHANGED <<entry, currentAgent, answer, serviceVars>>

ManagerDestroyed(t) ==
    /\ pending = {}
    /\ ManagerFreed(t)
    /\ UNCHANGED <<managerVars, serviceVars>>

ManagerNext(t) ==
    \/ AddAgent(t) \/ AddAgentLease(t) \/ SetCurrentAgent(t)
    \/ LookUp(t) \/ TakeLease(t) \/ Enqueue(t) \/ EnqueueRefused(t) \/ Link(t)
    \/ StartTask(t) \/ TaskReturns(t) \/ TaskOver(t)
    \/ Collect(t) \/ QueueAnswers(t) \/ TakePending(t)
    \/ Interrupt(t) \/ ResetInterrupts(t) \/ ResetClears(t)
    \/ QueueCloses(t) \/ QueueStops(t) \/ QueueLate(t) \/ FreePending(t) \/ ManagerDestroyed(t)
=============================================================================
