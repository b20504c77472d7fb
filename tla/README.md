# A TLA+ development of the CClaw SDK

CClaw is an agent runtime in C: it takes messages of users, runs a language model in a
loop with tools, and keeps the conversation in a store. This directory holds TLA+ models
of its concurrent and stateful parts, the TLC configurations that check them on small
instances, and TLAPS proofs that hold for every size.

Read a module together with the source file it names; `PROJECT.json` maps every definition
to the lines it stands for. To check a run: `tlc -config <run>.cfg <module>.tla`, with the
pairs listed there; to check the proofs: `tlapm` on each of the eight modules `RunQueueProofs`,
`EventBusProofs`, `ToolExecutorProofs`, `ToolRegistryProofs`, `AgentRuntimeProofs`,
`StoresProofs`, `SegmentedStoreProofs` and `HostingProofs`.

1. Inventory; 2. Organisation; 3. The run queue; 4. The stores; 5. The event bus; 6. Tools;
7. The agent loop and its provider; 8. Hosting; 9. Disagreements between the code and its
words; 10. What is proved and what is only model-checked; 11. What is not modelled.

## 1. Inventory

Everything below is under `src/cclaw`. Vendored code (SQLite, cJSON, curl headers) is left
aside.

| Component | State | Operations | What is hard | Modelled in |
|---|---|---|---|---|
| Run queue (`core/src/app/cc_run_queue.c`) | list of jobs, session table, lane and gauge counters, workers, one mutex and one condition variable | submit with four actions, collect, interrupt session or run, abandon, status, shutdown, destroy | interleaving of workers, collectors and shutdown; wakeups; counters kept beside the list; a bounded session table | `RunQueue`, `RunService` |
| Agent manager (`cc_agent_manager.c`) | agents with leases, tasks, pending runs | submit, collect, interrupt, reset session, add, remove and switch agents | two owners of one run's record; the lease of a task across the queue | `AgentManager` |
| Runtime controller (`cc_runtime_controller.c`) | life cycle, the one active run, session, cancel source | submit, cancel, new session, clear, apply_config, shutdown, destroy | a cancel source others may still refer to; drain against submit | `RuntimeController` |
| Runtime builder (`cc_runtime_builder.c`) | parts, generations with reference counts, a reload under way | create, acquire and release, reload, shutdown, destroy | a part fails; an old generation still in use; two reloads; destroy against all of them | `RuntimeGeneration`; its tools in `ToolRegistry` |
| Agent runtime (`cc_agent_runtime.c`) | active runs; of each its step, tool slots and text | handle a message, whole or streamed | what is stored when a step fails; overlapping runs of a session | `AgentRuntime`, `StreamStep` |
| Context builder (`cc_context_builder.c`, `cc_memory_context.c`) | cache of summaries | choose the messages of a request | a summary of a history that has changed; cutting between a call and its results | `ContextBuilder` |
| Tool executor (`cc_tool_executor.c`), its pool (`cc_tool_executor_pool.c`), cancel token | lanes with slots and waiters; a flag | execute; acquire with deadline and cancellation, release | checks before and after waiting; slots lost or given twice | `ToolExecutor` |
| Tool registry (`cc_tool_registry.c`) | list of 64 tools, frozen flag | add, freeze, find, destroy | a list that does not fit, half of it registered | `ToolRegistry` |
| MCP runtime manager (`cc_mcp_runtime_manager.c`) | per server: transport, initialised or not, request ids, last use | load tools, call | late replies; idle reset and handshake between two critical sections | `McpServer`, `ToolRegistry` |
| Event bus (`core/src/core/cc_event_bus.c`) | 64 subscriber slots with mailboxes, ready ring, workers | subscribe, unsubscribe, publish, flush, shutdown | handlers run without the lock; slots are reused; four overflow policies | `EventBus` |
| Segmented session store (`cc_json_segmented_store.c`) | per session: manifest, segments, media | create, append a batch, load, clear | a crash between two file operations, torn lines, a manifest that cannot be read | `SegmentedStore`, `SessionLog` |
| Memory, JSON file and SQLite session stores | sessions and records | the same port | a file rewritten whole; a transaction that other threads see | `SessionStores` |
| Stores of the long-term memory (three) | entries | set, delete, delete by category | taking a change back; recovery at start | `MemoryStores` |
| File systems of the platforms | | write, sync, replace, sync directory | what a crash leaves, differently on FatFs | `Filesystem` |
| LLM providers (`adapters/src/llm`) | a frame under way, the state of a stream | chat, stream | a body cut anywhere; an answer that ends early | `LlmProvider`, `StreamStep` |
| HTTP clients (four platforms), http.request tool | connections, pools of handles | perform, cancel, reset | retries after the first bytes; a handle two requests could own | `HttpClient`, `LlmStream` |

How they interact: an application calls the agent manager (or the runtime controller when
there is one agent). The manager leases a runtime generation and submits a task to the run
queue; a worker of the queue runs the agent runtime, which builds the request from the
session store, calls the provider, which calls the HTTP client and is called back with
pieces of the answer, and executes tools through the executor, which waits for a slot of the
pool; an MCP tool then takes its server's mutex. Results go to the session store in batches
and events to the event bus. Cancel tokens connect an interrupt at the top with the checks
below. Everything is in one process: components share memory and synchronise with a mutex
and a condition variable each.

What makes each correct is in sections 3 to 8; the hazards the properties are for, each at
its line, are in `PROJECT.json`.

## 2. Organisation

A component is a module; a module named after a whole (`Hosting`, `Stores`, `LlmStream`,
`AgentRuntime`) composes components that share state; `MC...` gives an instance to TLC. An
arrow reads "extends" unless it says otherwise.

| Composition | What it composes | Checked by |
|---|---|---|
| `RunQueue` | implements `RunService` (`INSTANCE`, the property `ImplementsService`) | `rq_schedule`, and the theorem `QueueImplementsService` |
| `Hosting` | `RuntimeController` and `AgentManager` over `RuntimeGeneration`; the queue is represented by `RunService`, which `RunQueue` is proved to implement | `host_calls` |
| `AgentRuntime` | `StreamStep` (a step's stream) and `ContextBuilder` (a step's request) | `agent_run` |
| `LlmStream` | `HttpClient` and `LlmProvider`, with the runtime's `StreamStep` at the end of the callbacks | `llm_stream`, `http_tool_retried` |
| `ToolRegistry` | `McpServer`: what a generation's tools call | `mcp_tools` |
| `ToolExecutor` | executor, pool and token | `te_calls` |
| `SegmentedStore` | implements `SessionLog` (the property `ImplementsLog`) | `seg_store`, and the theorem `LogImplemented` |
| `Stores` | `SessionStores` and `MemoryStores` over `Filesystem` | `stores` |
| `EventBus` | | `eb_bus`, `eb_live` |

The seams between compositions are abstractions checked on one side and assumed on the
other: `RunService` for the queue under the manager; for the runtime, a tool call is one of
the outcomes `ToolExecutor` has, an append stores a batch whole or not at all (`SessionLog`, which
`SegmentedStore` is proved to implement; `WholeBatches`), an error not excluding the former, and a step's stream ends in success only when whole (`SuccessIsComplete`).
`StreamStep` is the same module at both of its ends.

What would come next: the pieces listed in section 11. Of the properties that runs check, only
liveness is without a proof, which the proof system cannot give.

## 3. The run queue

**Modules.** `RunQueue` models `cc_run_queue.c`; `RunService` is the promise its header
makes, without workers, locks, counters or a session table; `RunQueueProofs` holds the
theorems.

**Correspondence.** The queue has one mutex, so a critical section is one action. What a
worker does without the mutex is an action of its own: `worker[w]` walks through *loop*
(about to look for a run), *claimed* (has a job, about to read its cancel flag), *executing*,
*finishing*. Sleeping on the condition variable is membership in `asleep`; spurious wakeups
are allowed. `jobs` is the linked list, indexed by the order of submission, which is the
order of the list. Gauges, lane and session counters and the session table are variables of
their own because the code decides on them; properties about concurrency count the runs
themselves.

| Action | Code |
|---|---|
| `Submit` | `cc_run_queue_submit`: purge, backpressure, superseding by the queue action, append, broadcast |
| `WorkerClaim`, `WorkerWait`, `WorkerExit`, `WorkerCheck`, `TaskReturns`, `WorkerFinish` | `worker_main`, `find_runnable_job_locked`, `finish_running_job_locked` |
| `Collect`, `CollectWait`, `CollectTake`, `CollectMissing`, `CollectTimeout` | `cc_run_queue_collect` |
| `InterruptSession`, `InterruptRun`, `AbandonUnstarted`, `AbandonRunning` | the calls of these names |
| `GetStatus` | the status call, which purges expired results |
| `Shutdown`, `ShutdownWait`, `ShutdownReturn`, `ShutdownTimeout` | `cc_run_queue_shutdown` |
| `Destroy`, `DestroyReturn` | `cc_run_queue_destroy` |

**Assumptions.** Memory is not exhausted. A time-to-live is a choice: at any purge any subset
of the completed runs may have expired. Run ids are the order of submission (the code draws
them at random and unique). Destroy is called once and its caller has stopped all other
calls, as the header requires. Statistics nobody decides on are left out.

**Runs.**

- `rq_schedule`: two workers, three runs, three sessions that compete for a table of two
  entries, two lanes of one slot. Gauges agree with the list; limits hold; no worker sleeps
  while a run could start; a run starts before the later runs of its session and lane; the
  queue implements `RunService`, also when the table is full. Three runs are one more than
  the workers and the table entries, so that waiting, superseding, refusals by
  `max_pending_per_session` and drops happen. `LaneIsolation` is checked, as `PoolSize` says,
  for a pool with a worker per unit of lane concurrency. Nobody waits for results here: that
  is the other run.
- `rq_live`: one session with a table of one entry, one lane of two (the session limit is
  what keeps its runs apart), two workers, a list of two, a caller that collects, interrupts,
  shuts down and destroys, and results that expire. Every run completes, every call returns,
  and after a shutdown that returned success nothing runs and nothing can start.

**Fairness.** Workers and blocked callers are weakly fair (the scheduler runs threads that
can run, and tasks return). A timed call finds its deadline exceeded in the end (strong
fairness of its timeout, weak fairness of its timed wait). No fairness for clients: nobody
has to submit, interrupt or shut down.

**Proofs.** `TypeCorrect`: `TypeOK` is inductive as it stands once it says that sessions
without a table entry have no runs in flight; the proof has one lemma per group of actions,
and `Less` and finiteness of the list are lemmas of their own.

The safety proof first says, handler by handler, which runs move between the pending, the
running and the completed ones (the lemmas `...Moves`); everything else follows from that.
Its inductive invariant `IInv` has these parts besides `TypeOK`:

| Part | Says | Why it is needed |
|---|---|---|
| `Ownership` | `WorkerOwnsItsJob`, and a worker holds a job exactly while it is at work | the job a worker finishes is running, so the gauges move by one |
| `Counted` | the gauges and totals are sizes of those sets | `Less` and `Decrement` saturate; exactness shows they never do |
| `Limited` | lane and session counters count runs in flight, and a session with a run in flight has a table entry | a limit on the counters is one on the runs only if a counter is never forgotten while it is not zero |
| `Quiet` | nothing is pending once shutting down, nothing in flight once a shutdown succeeded | no later claim can start a task |
| `Parting` | who may sleep, and that a destroyer is alone | nobody sleeps when the queue is freed |
| `TotalBound`, `Taken` | the list's bound; a run whose result was taken has left the list | |

From it follow `LimitsHold`, `WorkersOwnTheirJobs`, `GaugesAreExact`, `TotalsAreExact`,
`ShutdownLeavesNothing`, `DestroyIsLast`, `ListIsBounded`, `ResultsAreTakenOnce` and the
action property `SessionOrder`, for any number of runs, sessions, lanes, workers and callers
and any limits, under `ConfigAssumption` and `ThreadAssumption`.

`WorkersAreWoken` (no worker sleeps while a run could start) is an invariant of its own over
`IInv`: while a worker sleeps, what it found when it looked stays true. A step either leaves
every pending run that could not start as it was (`RunnableStays`), or wakes the workers
(`StepWakesWorkers`), and a worker falls asleep only in the critical section in which it
found nothing to do. It covers a run whose predecessor in the session is cancelled, a lane or
a session slot that is returned, and a table entry that becomes free.

`QueueImplementsService` is the refinement, under the mapping of `RunQueue`'s `INSTANCE`: the
phase of a run is a function of its job, or *gone* if it has none. The proof has one lemma per kind of handler; each says which runs change their phase (`Becomes`) and cites
the step of `RunService` that does the same, or a stutter. The bookkeeping enters through
`Limited`: that lane and session counters are numbers of runs in flight is what lets the claim
of a worker satisfy the guards of the service's `Start`; that it takes the first run of its
session and lane is the other guard.

`LanesIsolated` has a hypothesis, `PoolCoversLanes`: there is a worker for each run that the
lanes may have in flight together. That is the pool `desired_worker_count` asks for as long
as the sum of the lane limits is not above its cap of 32 (`cc_run_queue.c:177`; beyond it the
property is false, section 9). Every running job gets a slot of its own in its lane
(`Slots`, by `Limited`), so while some lane has room fewer jobs run than there are slots
(`RunsFitTheLanes`); every worker at work has a running job of its own (`BusyWorkersRun`, by
`Ownership`); and workers leave only a queue that is shutting down (`Staying`).

## 4. The stores

### The segmented session store

**Modules.** `SegmentedStore` models one session of `cc_json_segmented_store.c`; `SessionLog`
is what the session store port promises of `append_records`, `load_messages` and
`clear_session`: a log of batches.

**Correspondence.** The store's mutex lets one call run at a time, so the concurrency is
between a call and the failures: each file operation is one step (`step` names the next one),
any of them may fail, the process may stop (`ProcessStops`) or the power may (`PowerFails`)
between any two. `manifest`, `tmp` and `segment` are the files as a running process sees
them, `durable` and `synced` what a power failure is sure to leave. A piece is what one
`append_bytes` left: a whole line, a payload without its newline, or less; `BatchesIn` says what
the loader finds in a file of them, `History` what `load_messages` returns, `Readable`
that it does not fail. The media of a batch are files of their own, written in place before
the line that names them and only when there is no file of that name.

| Steps | Code |
|---|---|
| `Create`, `CheckManifest`, `WriteManifest`, `ReplaceManifest`, `SyncDirectory` | `segmented_create_session`, `save_manifest`, `write_text_file_atomic` |
| `Medium`, `WriteMedium`, `SyncMedium` | `externalize_artifact`, `write_bytes_if_missing` |
| `AppendRecords`, `ChooseSegment`, `AppendLine`, `SyncFile` | `segmented_append_records`, `append_record_line` |
| `ClearSession`, `RemoveManifest`, `RemoveSegment`, `RemoveTemporary`, `RemoveMedium`, `Removed` | `segmented_clear_session`, `remove_tree` |
| `Recover` | `parse_json_file`, when a load or a listing reads the manifest |
| `...Fails`, `ProcessStops`, `PowerFails` | an operation of the platform that fails; a crash |

**Assumptions.** `sync_file` also keeps the name of a new file. A rename that returned may be
lost with the power until its directory is synchronised. A file that was removed does not
come back. A power failure keeps whole pieces only, apart from the append it interrupted. A
line counts 1 towards `segment_bytes`. cJSON ignores what follows the first value of a line.
While a session is being cleared, or a clear was broken off and not repeated, nothing is
promised of it (`Sound`); which segments a load reads is promised as long as a manifest that
exists can be read and no append relied on one that was not synchronised (`Steady`; section 9).

**Run.** `seg_store` starts in any environment of `MCSegmentedStore`, which says how much is
appended and what may go wrong: *Clean* (five batches in segments of two, so that two rolls
happen before and after a failure, with failing operations and stops, or power failures, or
one of each),
*Harsh* (appends that leave parts of lines, manifests that cannot be read) and *Media* (each
batch its own medium, or all the same). In every environment no acknowledged line, nor its
medium, leaves the disk before a clear and what is loaded is in the order of the appends; in
those without torn lines and unreadable manifests the store implements the log.

**Proofs.** `SegmentedStoreProofs` proves `AckedOnDisk` and `InOrder` for any number of batches,
any segment size, and any environment. The inductive invariant is about the places
between which a failure may come. `InFile`: pieces of a file are of newer and newer batches,
and the batch under way is newer than all of them, because a batch is appended once. `LineIsLast`:
what a call synchronises ends in its own whole line. `Frontier`: behind the segment that the
visible manifest names, behind the one a power failure leaves, and behind the one being saved,
there is nothing yet; an append goes to the segment that both name. That is where the order of a roll (manifest,
directory, line) is used, and what `adrift` is for. `Attached`: a medium is none before its batch,
synchronised before its line. `InReach` bounds the segments: one append opens at most one.
All disturbances of the segments, an append, a crash in the middle of it and a power
failure, have one shape (`Within`: nothing synchronised is gone and at most one piece of the
current batch is new), and one lemma, `WithinKeeps`, says what such a step keeps.

`LogImplemented` proves the refinement, `ImplementsLog`. `SessionLog` lets a batch that
was stored be lost only while its append is unacknowledged, and only when the power fails
(`outages`). While the session is
intact, `ReadWhole` holds: `History` rises and holds exactly the batches in the files (`InLog`),
the acknowledged ones among them. Two rising sequences of the same batches are equal (`OneRising`), so a step need only be followed in
the sets: nothing leaves `InLog` but by a power failure (`CutOffGrown`), and at most the batch being
appended, newer than all others, enters it (`LogGains`). What `FlattenSeq` and `Without` compute is proved
from their recursive functions by a least counterexample (`UpTo`, `FlattenRising`), which takes
the place of an induction. `StepsAre` says that only a clear that succeeds makes a session intact again.

### The other session stores and the long-term memory

**Modules.** `Filesystem` is the replacement of a file by write, sync, rename, and sync of
the directory, as the platforms take these steps; `SessionStores` the stores that keep all
sessions in one place; `MemoryStores` the three stores of the long-term memory; `Stores` is
one store of an instance, of any kind, on any platform, with failures and crashes.

**Correspondence.** `disk` is what a read would find, `older` the states a power loss may
bring back. The memory and the JSON store hold their mutex for a whole operation (`job`); the
SQLite store holds it for one statement, so that between the statements of a batch other
calls come in (`batch`, `txn`, with `work` and `db` the content inside and outside the
transaction). The JSON memory store changes its array, saves it and takes the change back
when the save failed (`call` has what to go back to). On FatFs replacing a file unlinks it
first. `kept`, `expected` and `possible` record what calls have answered, for the properties.

**Run.** `stores`: all six kinds on the platforms that differ, one failing call, two crashes,
three batches of two sessions (two of them with a tool call of the same id, a duplicate key for
SQLite), two keys and values in the memory stores. An acknowledged batch stays until its session is cleared, except on FatFs
(section 9); no part of a batch lasts; what the memory store acknowledged is there after a
restart; a change that returned an error is not seen. Two crashes are the least with
which a recovery is interrupted; a third adds no new kind of state.

**Proofs.** `StoresProofs` proves the four properties of the run, for any sessions, batches,
records, keys, values, bounds and any number of crashes and failing calls. For the long-term
memory its invariant `MInv` says, until what was loaded was spoiled (`spoiled`, the case of
section 9):

| Part | Says | Why it is needed |
|---|---|---|
| `FilesServe` | whatever the main or the temporary file holds, now or in a state a power loss brings back, is content a reader may find; and the main file is whole, or unlinked with a whole temporary one beside it | recovery reads whichever of the two is there |
| `Replacing` | how far a replacement has come: what is written, renamed and durable at each step | a call may fail, and a crash may come, after any of them |
| `Calling` | a change under way is being saved, and one that is saved is a change under way | the change that is taken back is the one that failed |
| the rest of `Unspoiled` | the entries a change goes back to are content that was acknowledged | a failed change must not be seen afterwards |

`AcknowledgedIsFound` (`MemorySurvives`) and `FailedChangesUndone` (`FailedChangeUnseen`) follow.

The session stores have the invariant `SInv`:

| Part | Says | Why it is needed |
|---|---|---|
| `Sane` | a content holds every batch whole and in order or not at all, and only batches somebody tried to append | an append adds a batch that is not there, a clear takes whole batches away |
| `SessionFile` | every state of the files a power loss may bring back has a sane main file, and except on FatFs a durable one with all acknowledged batches in it | which of these states is found is decided by the crash |
| `SessionSave` | what is being saved is sane, has the acknowledged batches and the one being appended; and where it is at each step of the replacement | the append is acknowledged after the last step |
| `Database`, `UnderWay` | the batch under way is not in the database, and in the transaction exactly as far as it has come; all others are whole or absent in both, and outside a transaction both are the same | other calls run, and the transaction may be lost, between any two of its rows |

`AcknowledgedBatchesStay` (`AckedSurvive`) and `BatchesAreWhole` (`WholeBatches`) follow, from
`SessionAssumption`: a batch belongs to a session and has finitely many records. What a clear
leaves is a fold over the records (`Cleared`): `LeftSame` proves by a least counterexample
(`UpTo`, which replaces induction here) that it is all records of the other sessions in their
order.

## 5. The event bus

**Modules.** `EventBus` models `cc_event_bus.c`, `MCEventBus` adds symmetry for TLC,
`EventBusProofs` holds the theorems.

**Correspondence.** A critical section is one action; a handler is running between the
action that takes its event (`WorkerTakes`, `PublishSync`) and `HandlerReturns` or
`SyncHandlerReturns`. Slots have a generation, a handler, a topic and an in-flight count;
`ring` is the ring of ready slots; `thread[t]` is where a calling thread is and what it keeps
across the unlock: the set of slots `publish` computed and has still before it (`left`; the
next is the smallest), the generation a blocked publisher compares afterwards, and the copies
of handlers a synchronous publisher calls. `ready_push_locked` signals one sleeper and TLC chooses whom; all other wakeups are
broadcasts; a timed wait may end at any time.

**Assumptions.** Handlers do not call the bus. Generations do not wrap. Memory is not
exhausted. Metrics, reference counts of events and the topic hash table are left out. Destroy
is shutdown followed by the release of memory.

**Runs.** `eb_bus`: two threads, two slots and two subscriptions, mailboxes of two, three
events, the four overflow policies, in either mode (the asynchronous bus has two workers). Three events fill a mailbox
and one more waits or is coalesced; two subscriptions are enough for a slot to be given up,
while its handler runs or a publisher waits for it, and taken again. Any thread may
unsubscribe any subscription, so two may unsubscribe the same. Events of a mailbox are handed
over in order and no handler runs after an unsubscribe that returned; a publisher that waits
for room gives its event only to the subscription it waited for. `eb_live`: two slots with
mailboxes of one, so that a publisher may block at either slot, or at the second after the
first, one slot blocking and one dropping its oldest event, two workers. One of the two
threads drains and stops the bus, the other unsubscribes, and both publish; the run begins
where both slots have a subscription and, on an asynchronous bus, a first event is in both
mailboxes, so that the next publisher blocks. Two more events make publishers
and workers sleep together: the one signal for a ready slot then goes to a publisher of the
other slot or to a flush, who goes back to sleep (`cc_event_bus.c:184`), and what was signalled
has to be found without it. A publisher whom shutdown releases may go on to its next slot when
the workers have left (`:606`). Such an event stays (`LeftBehind`), and a flush or shutdown waits
for it until its timeout: both properties except exactly that. Everything else leaves its
mailbox, and every other call returns. Deadlock is not checked: an idle bus, or one
that was shut down, has nothing to do.

**Fairness.** Strong fairness of each thread's next step: a thread that keeps asking for the
mutex gets it in the end. Handlers return. Timeouts owe nothing, so the liveness properties
say that no call depends on its timeout, but for a flush or shutdown behind an event that was
left.

**Proofs.** `EventBusProofs` proves the three safety properties of `eb_bus`, for any number of
slots, threads, workers, topics and events, any capacity and any set of overflow policies,
under `Assumption` (only the set of threads has to be finite: the calls in flight are
counted). The inductive invariant has these parts besides the types:

| Part | Says | Why it is needed |
|---|---|---|
| `Owned` | a slot that has a handler has the generation of that handler's handle, and a handle of the slot's generation is the one of its handler | `unsubscribe` recognises its subscription by slot and generation alone |
| `Called` | a worker in a handler keeps its slot busy, in flight and of the handler's generation; no two workers are in one slot | `unsubscribe` frees a slot when nothing is in flight |
| `Delivered` | the same of the copies a synchronous publisher has before it; the in-flight count of a slot is the number of publishers that have it before them | a publisher calls handlers long after it copied them, and decrements once for each |
| `Waited` | the generation a blocked publisher remembers is not ahead of its slot's, and while they agree the handler is the one it waited for | generations only grow, so a slot that was reused is told apart |
| `Filed` | events of one publisher lie in a mailbox in rising order, above what the handler had and below what their publishers hold | the order of delivery under four overflow policies |

`NoLateHandler` follows from `Called` and `Delivered`, `InOrder` from `Called` and `Filed`, and
the action property `WaitKeepsSubscription` from `Waited`. The steps that only wait, time
out, return or begin are taken together (`Restful`), and so is what a walking publisher
leaves alone (`Walked`); every other action has a lemma of its own.
## 6. Tools

### The executor and its pool

**Modules.** `ToolExecutor` models `cc_tool_executor_execute_with_options`, the pool
(`cc_tool_executor_pool.c`) and the cancel token; `MCToolExecutor` gives TLC tools;
`ToolExecutorProofs` holds the theorems.

**Correspondence.** `pc[c]` is where a thread is between two looks at shared state: before
the lookup, before the policy, waiting for an approval, before `acquire`, before the pool's
lock, asleep in the lane, in the tool. `lanes` maps the names of the lanes created so far to
their limit and counts; the code's array index stands for the name because lanes are never
removed. The token and the deadline (`Cancel`, `DeadlinePasses`) change at any time;
`cancelledAt` records where the call was, for the properties only. What policy, approval,
schema and tool answer is a choice.

**Assumptions.** Memory is not exhausted; lane names fit their buffer of 256 bytes; the
owner of the pool destroys it when no call is left.

**Run.** `te_calls`: two threads make three calls of a builtin tool (its lane has the default
limit of 2) and the tools of two MCP servers (one lane configured with the limit 0, which the
code takes for 1; its tool may hang for ever): every interleaving of waiting, being
cancelled, being late and returning. Three calls are one more than the threads, so a slot is
reused. Limits and cancellation are right; a cancelled waiter is told so even behind
a hung tool; calls of other servers return. More threads than two add nothing the theorems
below do not cover. Deadlock is not checked because the number of calls is bounded.

**Fairness.** Weak fairness of every thread: the pool's wait is a poll of 50 ms, so a waiter
looks again whatever happens, but nothing says that its lane is not full each time; no
property claims that. The approval callback answers. Tools return unless they are in
`HungTools`.

**Proofs.** The inductive invariant `IInv` adds to the properties what ties them together:
the lane of a call past its lookup exists and only a runtime with a pool has calls in it
(`LanesKnown`: otherwise a new lane would start with wrong counts), the counts are below the
limits (`CountLimited`, what the code compares), and the token was live at the last check
(`TokenChecked`). `CountsMove` is the counting argument: when one call goes from place to
place, the sets of holders and waiters of a lane gain or lose at most that call. From it,
`QuietMove` covers all steps that touch no slot and `LaneMove` those that do, and each action
has a lemma of its own. `TypeCorrect`, `NoSlotLeaks`, `LimitHolds` and `CancelledNeverStarts`
follow, for any callers, calls, tools, lanes and configuration, under `CallersAssumption`,
`ToolAssumption` and `PoolAssumption`.

### The registry and the MCP servers

**Modules.** `McpServer` models `mcp_call_raw` and what it calls; `ToolRegistry` how the tools
of a generation are put together by one thread (`build_tool_registry_for_config`,
`cc_mcp_runtime_manager_load_tools`), used by all, and taken apart; `ToolRegistryProofs` holds
the theorems.

**Correspondence.** `server[s]` is the runtime's record of a server: whether an initialize is
due, the last request id, how long it has been unused, and who is inside its mutex.
`caller[c]` is where a thread is: the mutex is entered twice by a call, once to see whether
the connection has to be reset and initialised (`Enter`, `ResetFails`, `Initialised`) and
again for the request (`Send`, `Answered`), so other threads come in between. The run's token
is looked at once, before the mutex (`CalledOff`). `link[s]` is the
transport, which belongs to the application and is modelled from how it is used: a serial one
is used under the mutex and is a pipe, where the answer to a request that timed out is read by
a later request (`late`), unless that one ends in an error too; a parallel one answers each
request by itself. `asked` is the list of the ids of all requests sent to a server, over all
its connections: a request is known by its place there, so a reply in the pipe belongs to a
request whatever its id, and the code's comparison of ids (`Matches`) is one thing and the
question whose reply it is (`RepliesMatch`) another. A registry takes
`MaxTools` tools; `stage` and `left` say how far the build or the teardown has come, any
factory, server or list may fail, and `made` and `destroyed` note the tools that were created
and the ones whose `destroy` ran. Of a list, tools are made up to the first that the registry
does not take, which is destroyed; the rest is never made.

**Assumptions.** Tools have different names (a server does not list a name twice and the
feature table has none twice). The transport's `reset` empties the pipe or, when there is
none, leaves it as it is. Request ids are bounded and do not wrap.

**Run.** `mcp_tools`: two servers, one on a pipe; three built-in tools, lists of up to two, a
registry of two, so that a built-in tool or the first or second tool of a list may be the
first that does not fit; two threads with five requests a server, enough for a request that
times out, a reset that leaves its reply in the pipe, another initialize and a request that
reads it. A call that succeeds got the reply to its own request (its mutant lets the ids begin
again after an idle time: a late reply of the old connection then passes for the new one's).
A request other than initialize goes over the serial connection only when an initialize was answered or
refused since its last reset: one that was *refused* counts, as another thread's failed
attempt between the two critical sections lets the request through, and parallel transports
are exempt, whose requests are not ordered. No tool in the registry calls a server that is
gone, every tool that was made is in the registry or was destroyed, and none twice. Deadlock
is not checked: requests are bounded, and a generation that is gone is gone.

**Proofs.** The invariant `Connected` says, besides types: while a generation is built its
builder is alone (`LoaderAlone`), who is inside a mutex (`HolderInside`), and that a server
that needs no initialize has had one, and whoever is about to send had one before its eyes
or waits for the thread that is at it (`KnownBeforeSending`). This last part is where the two
critical sections meet: a reset between them can only be made by a thread that keeps the
mutex until its own initialize is over. It is preserved by each action (one lemma each);
`QuietKeeps` covers all that touch no connection. `RequestsFollowInitialize` follows.

`RepliesAreOwn` needs a second invariant over `Connected`, `Numbered`: the ids in `asked` grow with
the place (`Counted`), none is above `nextId`, and while a thread has drawn an id for an
initialize that is not sent yet they are all below it; only requests that were sent have
replies in the pipe; a thread that waits knows its own place (`KnowsOwn`). The step that matters is
`Answered`: equal ids, growing ids, hence the same request. Ids stay in order because they
are drawn by whoever holds the mutex, and an initialize keeps the mutex from its id to its
answer (`HolderInside`). Both hold for any servers, threads, tools and numbers of requests, under
`McpAssumption` and `RegistryAssumption`.

`ToolsEndBeforeServers` proves `NoToolOutlivesItsServer` from `Kept`, which is `Connected` with two
parts more, and `Accounted`. `Lives`: the server of a tool in the registry and of a call under
way is alive, and once the teardown has come to the servers the registry is empty. `Once`: a
tool of the registry is there once and is not among the destroyed, and what is still to be
made (the rest of the built-in tools and of the servers) is in neither. `Accounted`: what was
made is in the registry or among the destroyed. A list is registered tool by tool up to the
first that does not fit: that step (`ListKeepsOnce`, `RegisterAccounts` and the lemmas on appended
sequences) is where a tool could be destroyed twice or lost.
## 7. The agent loop and its provider

### The agent loop

**Modules.** `StreamStep` is the protocol of chunks between a provider and the runtime: what
`stream_loop_callback` makes of each chunk, and what must hold before a tool of the step is
executed. `ContextBuilder` chooses the messages of a request. `AgentRuntime` extends both
with the loop of `cc_agent_runtime_handle_message_internal`; `MCAgentRuntime` has the
answers of the provider.

**Correspondence.** `run[r]` is where a run is and what it has in hand; `history` the messages
of the session all runs share; `active` the count `max_concurrency` is about. A step's stream
touches only the run's own context, so it is one action, which may find the run cancelled
after any chunk. A tool step is several: the message with the calls, and then each tool and
the append of its batch, so that another run's messages may come between. `cache` and `kept`
are the summaries in the runtime and in the memory store; a fingerprint is taken to tell
histories apart.

| Action | Code |
|---|---|
| `EnterRun`, `Reject`, `StoreInput`, `LeaveRun` | `runtime_enter_run`, the checks of the input, `runtime_append_records`, `runtime_leave_run` |
| `StepBegins`, `MaxStepsReached`, `Observe`, `StepOver` | the step loop of `cc_agent_runtime_handle_message_internal` |
| `Build`, `Summarise`, `BuildFails` | `cc_context_builder_build_messages`, `try_compress_history`, the summary cache in the runtime and in the memory store |
| `Ask`, `StoppedAfterAnswer` | `runtime_submit_provider_step`, `stream_loop_callback`, `stream_loop_consume_sync_response` |
| `CheckTools`, `ExecuteTool` | `execute_pending_tools`, `cc_agent_runtime_execute_tool_step` |
| `StoreFinal` | the final answer, `active_memory_after_run` |
| `Stop` | a token cancelled, or a deadline passed, at any time; `Stopped` is where the code looks |

**Assumptions.** A tool call is what `ToolExecutor` shows: a result or an error. An append
that returns success has stored its batch; one that returns an error has stored nothing, or all
of it (`StoreFails`): the segmented store returns the error of `sync_file` when the line is
already in its file (`cc_json_segmented_store.c:1027`), and the JSON file store that of
`sync_dir` after the rename (`cc_json_file_store.c:133`; it takes its memory back, so that the
batch shows after a restart). That a batch is never stored in part is what `SegmentedStore` and
`SessionStores` show of each store. System messages, which the runtime never stores, and a window that
its reserves use up are left out.

**Run.** `agent_run`: two runs (one of them a control command), one at a time or refused,
and another runtime that appends to and clears the session; two steps a run; streams of a text,
a tool, two interleaved tools, and seven ways to be malformed; a history of at most six
messages, a budget of five, a summary above three, one slot of cache. Each request has the
results of exactly the calls it shows and fits its budget; a summary stands for exactly the
messages it replaces; a final answer is in the history only if its run returned it or the
store failed to confirm it; tools run
once, in order, their results next to their calls. The budget is below the history's bound,
so that requests are cut at every place, and one slot of cache makes every second summary an
eviction. Deadlock is not checked: runs end.

**Proofs.** `AgentRuntimeProofs` proves the four properties for any runs, answers, bounds and
cache, under `RuntimeAssumption`. The inductive invariant `IInv` says of each run that it is
`Fine`:

| Part | Says | Why it is needed |
|---|---|---|
| `Progress` | where in its step a run is fixes what it has executed: nothing of this step, or all tools before the one in hand | `ToolsRunOnce` is about the steps of a run; the place alone does not say what the next tool is |
| `Ended` | only a run about to leave has an outcome, and only one with a final answer left a memory of it | an answer in the history must be the one returned, or the one the store was unsure of |
| `Summarised` | a run that makes a summary has the history it loaded in hand; one about to ask has a summary of exactly the messages it leaves out, and a request that is well-formed | the summary may come from either cache, or grow from a shorter one |

and of the session `Finals`: a final answer in the history is of a run that returned it or ended with the
store's error (outcome "unsure"), and nothing of that run comes after it, so that a later append
of the same run cannot be a second one. A run that was cancelled, passed its deadline, exceeded a
limit or failed elsewhere leaves none. `FinalAnswersReturned`, `SummariesStand` and the action property `ToolsOneByOne`
follow. The cached summary that a new one continues is the longest of those that stand for a
beginning of the history; that there is a longest one is a lemma by well-founded induction
on lengths, since `CHOOSE` promises nothing otherwise.

`RequestsAreWellFormed` is about the operators of `ContextBuilder`. The indices of the
messages that are sent rise and are exactly those of complete groups and of plain messages
(`SentIndices`); a complete group has no gap, so what answers a message in the request
is what answered it in the history. For the budget, the cost of the chosen messages is at most
the cost of all from there on, which the suffix costs bound, and the first place a
window can afford exists because the empty one is affordable. The functions over indices are
recursive; that they have values is `RecursionDefines`, proved here once by induction
over a set of numbers (`UpTo`), as no theorem with an operator as a parameter can be used.

### Providers and HTTP clients

**Modules.** `LlmProvider` is the framing of a streamed body and the events of the three
protocols; `HttpClient` the clients of the four platforms; `LlmStream` composes them with
`StreamStep`: the body of an answer reaches the runtime inside the callbacks of provider and
client. `MCLlmStream` has the answers of servers.

**Correspondence.** A call is one `perform`. `call[c]` has its phase, the attempt, how much of
the body has been read and what came back; time is abstracted: a wait ends with data, with
the end of the connection or with an error, which is what a timeout is too. `stream[c]` is
the provider's frame under way and the runtime's context. The network cuts a body anywhere.
ESP32 keeps one handle for each pool, with the origin and headers of its last request and
what was not read of its answer; a lock of the client hands the pools out; a reset takes them
one by one while other threads wait for them. POSIX and Windows retry by attempt, unless a
body has been passed on or the request says not to.

**Assumptions.** libcurl, esp_http_client and lwIP report every error of a connection; an
early end of a body without a length is reported by some and not by others, as the platforms
do. FreeRTOS takes the end of a connection for the end of the answer even among the headers,
whose text is then the body. Addresses, TLS, headers' texts and the address policy are left out.

**Runs.** `llm_stream`: every platform with every protocol for a caller that streams and one
that does not, a tool's request with a redirect, and on ESP32 two callers at once with a
reset. Bodies have text, thinking, one and two tools, both separators of events, an error in
the stream, an end without its marker; the limit of a response and of a frame are met by the
longest, that of a stream, two pieces, by the answers that are not streamed, and the
streamed ones with more are cut there. A success has given the runtime what it can use: the tools of a streamed answer
ready to be executed, a whole answer with its text and all its tools; what the runtime
was given is at any time the beginning of one answer, and all of it, with one FINISHED, when
the call succeeds; an exchange has its handle to itself. Deadlock is checked,
with `Finished` for the end of all calls: the instances are finite and have no cycles, so that
every call returns, reset and pool locks included. `http_tool_retried` is a finding.

**What is asked of a server.** `ServerIsUsable` is the server's share in a success: a
streamed answer that comes to its end has ended its tools, and one that is not streamed
is one line of JSON, with no more tools than the runtime has slots for, none of them named
twice, and no more pieces than the limit of a stream. Without it a success of the provider
may hold what the runtime then refuses (`CheckTools` of the agent loop, which has such
answers). `MCLlmStream` assumes it of the answers it enumerates, so that TLC evaluates it.

**Proofs.** `AgentRuntimeProofs` proves the three properties for any callers, pools, answers,
bodies, retries and bounds. `HandlesAreOwned` rests on `ClientInv` of ESP32 (under
`PoolAssumption`: a reset locks pools, every request has one, and no caller is named like the
mark of a free pool or of a reset):

| Part | Says | Why it is needed |
|---|---|---|
| `Held` | a call holds its pool from the end of `TakePool` to `Complete`, attempts and failures between them included | a reset, or another call, takes only free pools |
| `HasHandle` | between connect and the end of an attempt the pool's handle is live and of this call's origin and headers | `NoteFailure` and a redirect may close or replace it |
| `EndsRead`, `Clean` | an answer that ended was read to its end; a healthy handle that is free, or that an attempt finds, has nothing unread | a handle is kept by the end of an answer, which is steps later, and by a call whose deadline passes before its attempt |
| `ResetHolds` | a reset holds the pools it has locked so far and, when it is not locking, none | it closes handles without looking at calls |

The lock of the configuration is not needed for it. `ChunksArriveInOrder` and
`SuccessesAreComplete` rest on `StreamInv` (under `ServerAssumption`: bodies are sequences of
tokens). Its part `StreamFits` says what phase and client fix; its core is `KeepsUp`: there is
a part of the body, of length `m`, such that the runtime has been given exactly the chunks
of that part and the provider's buffer is the rest of what arrived. In front of the
body, and while FreeRTOS gathers it, the stream is new; a call that failed has either seen no
body or still keeps up, and only the first kind is retried. The invariant is preserved because

- what the runtime makes of a sequence of chunks can be made in parts (`ConsumeInParts`);
- a frame taken out of the buffer moves `m` to its end (`FrameReaches`, `NextFrameKeepsUp`),
  and after as many frames as the buffer has tokens none is left (`ProcessKeepsUp`);
- the chunks of a longer part of a body continue those of a shorter one (`ChunksGrow`), and
  nothing follows the FINISHED that ends them.

`AnswerInv` adds where a body comes from: of every call, one answer of the server, read as far as
the call's position, or half a line of headers (`HeadersCut`). With `ServerIsUsable` the end of a streamed answer is ready to be
executed, and `ResponseGiven` computes, tool by tool, what
`stream_loop_consume_sync_response` makes of a whole answer. Its chunks
are counted against the limit of a stream as they are forwarded (`Room`). `ServerIsUsable` is
the one hypothesis of `SuccessesAreComplete`.
## 8. Hosting

**Modules.** `RuntimeGeneration` models the builder, `RuntimeController` and `AgentManager` the
two front ends on top of it, `Hosting` the application that uses all three from several
threads. The queue under the manager is `RunService`: the manager cannot tell it from
`RunQueue` as long as `ImplementsService` holds.

**Correspondence.** The builder's `generation_mutex`, the controller's and the manager's make a
critical section one action; what happens between two sections is `thread[t].at`: building a
generation, holding a reference, running, giving it back, reclaiming a retired generation
with its last reference. `refs`, `phase` and `retired` are the counts and the life of the
generations; `parts` what creation has made so far, which may fail at any part and take the
others down; `token` the cancel source of a controller run; `task` and `pending` the task of
the queue's worker and the record of the collector, which are freed together by whoever takes
the record out.

**What the application keeps to**, as the headers ask: the builder outlives the controller's
calls and no client is inside the manager when the builder is destroyed. Runs may be under
way, references held and a reload not finished: destroy waits for them.

**Run.** `host_calls`: two clients and a worker; a generation and one reload that commits (a
second may be rolled back, or meet the first), two runs of the controller in two sessions, an
agent with a lease and one queued run. The count of a generation is the number of its holders
and what is held is live; after destroy nobody is left who would use the builder; a run
of the controller is active while exactly one thread is in it, with its cancel source; a task
outlives its run. Two generations are enough for a retired one to be reclaimed by a thread
other than the one that reloads. Deadlock is not checked: calls are bounded.

**Proofs.** `HostingProofs` proves the four properties for any number of threads, generations,
agents and runs, under the assumptions of the three modules. The inductive invariant has
twelve parts (`IInv`), a thread being counted for where it is bound once it has reclaimed a
generation (`Bound`):

| Parts | Say | Why they are needed |
|---|---|---|
| `ThreadsTyped`, `GenerationsTyped`, `TasksTyped` | what each place of a thread carries, in particular which places always hold a reference | a reference is given back by the place that has it |
| `Counted`, `Living` | the count of a generation is the number of threads and tasks that hold it; one with references is current or retired, and exactly those are live | `release` decides on the count alone |
| `InTurn`, `Reloading` | generations are numbered in turn, and one thread reloads at a time | the new generation is one nobody has yet |
| `Reclaiming` | a generation given up has exactly one thread that frees it | the last reference may go in any thread |
| `Ending` | the stages of destroy, and that a builder that is freed has nothing left | destroy waits in three places, and others act between them |
| `Tasked`, `Linked` | a run that may start has a task; its worker is the only one; a record is linked by at most one submitter | worker, submitter, collector and interrupter share one record |
| `Stopped` | a queue that is closed has no pending runs, one that has stopped none at all | the manager frees its tasks when the queue has stopped |

`HeldStaysLive`, `NothingUsedAfterFree` and `TasksOutliveRuns` follow. `ActiveStaysControlled`
adds `Controlled` on top of it: a thread has its run, alone, and that run's cancel source
from the submission until it gives its generation back, and the active run is the one of
the thread that is in it. Lemmas of their own say how one thread's move changes the number of users of a
generation (`Same`, `More`, `Fewer`); each action then has lemmas for the parts it touches.

## 9. Disagreements between the code and its words, and remarks

One has a run of its own, `http_tool_retried`: the comment of the http.request tool says that
its request is not retried ("a POST would be executed again",
`cc_http_request_tool.c:180`), and gives a retry count of 0, which the clients take for "not
set" and replace by the configured default of 1 (`cc_curl_http_client.c:118` and `:582`,
`cc_config.c:1004`). `ToolSentOnce` is violated.

The following properties are stated in the modules and refuted by TLC; they are in no run. To
reproduce one, add it as an INVARIANT to the configuration named and drop its symmetry.

| Property | Where | What happens |
|---|---|---|
| `SlowHandlerIsolated` (EventBus) | `EventBus_bus.cfg` | The one wakeup for a ready slot goes to a blocked publisher, and an idle worker sleeps on while another is in a slow handler (`cc_event_bus.c:184`; `test_event_bus_async.c:9` says a slow handler does not block others). |
| `NothingLeftBehind` (EventBus) | `EventBus_bus.cfg`, where `BusCalls` gives every thread `{"shutdown"}` | A publisher released by shutdown enqueues into its next slot after the workers have gone (`:606`). `eb_live` has this case and excepts the event. |
| `NoLostCompletion` (RunQueue) | `RunQueue_schedule.cfg`, `Callers = {c1}` | A run that the scheduler completes because the session table is full wakes nobody; its collector sleeps until something else broadcasts (`cc_run_queue.c:358`). |
| `RecentIsSent` (AgentRuntime) | `AgentRuntime.cfg` | Next to a summary, the budget may still cut messages that are neither summarised nor sent (`cc_context_builder.c:854`; the comment at `:454` says the recent ones stay as they are). |
| `CollectHandsOver` (Hosting) | `Hosting.cfg` | Of two collectors of one run, one gets the result of the queue and the other the response; the first reports success without a response (`cc_agent_manager.c:711`). |
| `FailedBatchUnseen` (Stores) | `Stores.cfg` | Another thread reads rows of a SQLite batch before it is rolled back (`cc_sqlite_session_store.c:668`; the port says all or nothing, `cc_session_store.h:70`). |

With other constants the checked properties fail in these ways, each a limit of the code:

- Run queue: with the pool capped below the sum of the lane limits (`WorkerCap = 1`, one
  worker) one lane can hold every worker and `LaneIsolation` fails (`cc_run_queue.c:177`). A
  session whose only pending run is interrupted after the scheduler looked at it keeps its
  table entry until it runs again (`:354`).
- Segmented store: a stop or failure between the rename of a manifest and the
  synchronisation of its directory is never made good (`cc_json_segmented_store.c:386`): the
  next append goes to a segment whose name the power may take back, and from then on (`adrift`)
  which segments are read is not promised. Without `~adrift` in `Steady`, `ImplementsLog` and the
  last part of `AckedOnDisk` fail in `Env(4, 1, 0, 1, FALSE, FALSE)` (an acknowledged batch is
  not loaded after the power failure), and `InOrder` in `Env(6, 2, 0, 1, FALSE, FALSE)`. A manifest that
  cannot be read once sends appends to the oldest segment (`:545`): without `~left.unread`
  `ImplementsLog` fails in `Env(4, 1, 0, 0, FALSE, TRUE)`; `Create` then also makes segment 1 the
  current one.
- Segmented store: a part of a line left by a failed append makes the whole session
  unreadable (`:1028`): `Sound /\ step = "idle" => Readable` fails in
  `Env(3, 1, 0, 0, TRUE, FALSE)`.
- Segmented store: a medium that was cut short is taken for whole when the same record comes
  with the same content again (`:679`), and one that is there is written over in place
  when the file system cannot tell that it is. Loading does not verify media.
- Event bus: the second of two waiting unsubscribe calls with one handle wipes the
  subscription that took the slot over (`cc_event_bus.c:521`). A slot reused while a publisher
  waited for room in an earlier one receives an event of another type (`:607`).
- Tool executor: without a pool (`UsePool = FALSE`) a call cancelled during its approval
  starts its tool and `CancelledStartsNothing` fails (`cc_tool_executor.c:586`). An acquire
  refused before the lock is not counted as cancelled (`cc_tool_executor_pool.c:221`).
- Builder: a reload past its commit is not waited for by destroy: its last log line may go
  through a builder that has been freed (`cc_runtime_builder.c:1055`), and a second reload may
  retire the generation the first still reads (`:1044`). `FreedIsUnused` is about what comes
  before the commit.
- Stores: on FatFs the JSON session store loses its file in a crash between unlink and rename;
  the memory store recovers from its temporary file. A new session file is written in place,
  so that a crash leaves one that cannot be read. `load_messages` returns the oldest messages
  of a limit where the port says the latest. A change that was taken back because
  the directory could not be synchronised after the rename is in the file all the same and
  comes back at the next start: `FailedChangeUnseen` is about the answers until then. SQLite's `clear_session` ignores the result of its
  commit, and a session created during a batch of another thread is lost with its rollback.
- MCP: an initialize that is answered with an error counts as initialised; a reset that fails
  leaves the server as it was. A server's name with a dot in it loses the lane configured
  for it, because the executor cuts the tool's name at its second dot.
- Agent manager: events written before the run's id is known carry id 0; a run that is
  superseded and never collected keeps its lease.
- HTTP: on ESP32 a request that waits for a busy pool holds the client's lock, so that it
  blocks the other pools and the reset. The time limit is for each attempt on POSIX and for
  each read on FreeRTOS and ESP32. FreeRTOS takes an early end of a body for its end,
  and among the headers takes what has come of them for the body; the provider's end marker is what
  protects a stream. An answer cut by its length limit of tokens
  is a success.

## 10. What is proved and what is only model-checked

| Module | Theorems about properties of runs | Other theorems |
|---|---|---|
| `RunQueueProofs` | `TypeCorrect`, `LimitsHold`, `GaugesAreExact`, `ShutdownLeavesNothing`, `SessionOrder`, `WorkersAreWoken`, `LanesIsolated`, `QueueImplementsService` | `WorkersOwnTheirJobs`, `TotalsAreExact`, `DestroyIsLast`, `ListIsBounded`, `ResultsAreTakenOnce` |
| `EventBusProofs` | `EndedHandlersRest`, `EventsInOrder`, `WaitersKnowTheirSlot` | |
| `ToolExecutorProofs` | `LimitHolds`, `CancelledNeverStarts` | `TypeCorrect`, `NoSlotLeaks` |
| `ToolRegistryProofs` | `RepliesAreOwn`, `RequestsFollowInitialize`, `ToolsEndBeforeServers` | `ConnectedHolds` |
| `AgentRuntimeProofs` | `FinalAnswersReturned`, `SummariesStand`, `RequestsAreWellFormed`, `ToolsOneByOne`, `HandlesAreOwned`, `ChunksArriveInOrder`, `SuccessesAreComplete` | `AgentInvariant`, `ClientInvariant`, `StreamInvariant` |
| `StoresProofs` | `AcknowledgedIsFound`, `FailedChangesUndone`, `AcknowledgedBatchesStay`, `BatchesAreWhole` | `MemoryInvariant`, `SessionsInvariant` |
| `SegmentedStoreProofs` | `AckedStaysOnDisk`, `LoadsInOrder`, `LogImplemented` | |
| `HostingProofs` | `HeldStaysLive`, `NothingUsedAfterFree`, `TasksOutliveRuns`, `ActiveStaysControlled` | |

Only model-checked:

- liveness under fairness (`EveryRunCompletes`, `CallsReturn` of the queue and of the bus,
  `EventsLeave`, `CancelReachesWaiter`, `HungLaneIsContained`): the proof system has no reasoning
  about `ENABLED` that reaches fairness.

Every safety invariant and every action property that a run checks is the statement of a
theorem. Two theorems have hypotheses beyond the assumptions on the constants: `LanesIsolated`
(section 3) and `SuccessesAreComplete` (section 7); TLC's instances satisfy both. Before its
proof each inductive invariant was checked by TLC on the instance of its run.

Every property of a passing run has a mutant: a change of one definition, of the kind a bug in
the code would be, under which TLC refutes it. They are the definitions whose names end in
`Mutant`, each before the definition it changes.

Symmetry is used in `eb_bus`, `rq_schedule` and `host_calls`, over threads, sessions and
callers that no definition tells apart. `rq_schedule` checks two temporal properties under it:
`StartsInOrder` is an action property and `ImplementsService` a refinement without fairness,
both of which mention no member of a symmetric set by name.

## 11. What is not modelled

| Part | Why |
|---|---|
| Artifact store, media validation, message and result values, session manager | one caller at a time, data only |
| SSE parser | a public helper nothing in the repository uses; the framing the providers use is in `LlmProvider` |
| Skill catalog, plugin protocol, configuration, JSON, strings, base64, token counter, logging, redaction, observability | parsing and formatting; models take normalised values |
| Policy engine and network policy | pure decisions over strings; their outcome is a choice in `ToolExecutor` |
| The http.request tool but for its request, and the other common tools | argument parsing around one call of a port |
| Platform threads | their contract is assumed: mutexes, broadcasts, bounded waits |
| Processes of the platforms | started by a test only |
| Tool registry snapshot | used by nothing |
| Requests of the providers, headers, addresses, TLS | formatting, or external |

Exhaustion of memory is left out everywhere: an allocation that fails in the middle of an
operation is a path of its own in almost every function, and none is checked here.
