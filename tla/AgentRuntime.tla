---------------------------- MODULE AgentRuntime ----------------------------
(***************************************************************************)
(* The agent loop (core/src/app/cc_agent_runtime.c): a run stores the      *)
(* user's message, then step by step sends the session's history to the    *)
(* provider and either stores the answer or executes the tools the         *)
(* provider asks for.  Runs may overlap up to a limit, share the session   *)
(* with others, be cancelled, run out of time, or fail at the provider, a  *)
(* tool or the store.                                                      *)
(*                                                                         *)
(* A step's stream touches nothing but the run's own context, so that it   *)
(* is one action, which may find the run cancelled after any of its        *)
(* chunks (StreamStep); so is the building of a request up to the call of  *)
(* the model that summarises (ContextBuilder).  The session store appends  *)
(* a batch of records as a whole (SegmentedStore, SessionStores).          *)
(***************************************************************************)
EXTENDS StreamStep, ContextBuilder

CONSTANTS
    Runs,
    Other,              \* whatever else appends to the session
    Commands,           \* the runs whose message is a control command
    MaxSteps,           \* limits.max_steps
    MaxConcurrency,     \* limits.max_concurrency
    Streams,            \* what a provider may stream in a step: sequences of chunks
    Responses,          \* what a provider without streaming may answer
    MaxHistory          \* bound on the session's messages; near it the session may be cleared

ASSUME RuntimeAssumption ==
    /\ {MaxSteps, MaxConcurrency, MaxHistory} \subseteq Nat \ {0}
    /\ Commands \subseteq Runs /\ Other \notin Runs

VARIABLES
    history,            \* the session's messages
    active,             \* active_runs
    run                 \* of each run, where it is and what it has in hand

runVars == <<history, active, run>>
vars == <<contextVars, runVars>>

NoRequest == [summary |-> NoSummary, loaded |-> << >>, first |-> 1, messages |-> << >>]
NewRun == [at |-> "new", step |-> 0, stop |-> "no", ctx |-> NewContext, slot |-> 1, ran |-> << >>,
           request |-> NoRequest, outcome |-> "none", remembered |-> FALSE]

Init ==
    /\ ContextInit
    /\ history = << >>
    /\ active = 0
    /\ run = [r \in Runs |-> NewRun]

At(r, place) == run[r].at = place
Go(r, place) == run' = [run EXCEPT ![r].at = place]

(* The run ends: with the final answer, without one after its last step, or *)
(* with an error, whatever its code; what it had in hand is released        *)
Leave(r, outcome) == run' = [run EXCEPT ![r] = [NewRun EXCEPT !.at = "leaving", !.outcome = outcome]]
Fail(r) == Leave(r, "error")

Stopped(r) == run[r].stop # "no"

Message(r, role, calls, call) ==
    [role |-> role, calls |-> calls, call |-> call, run |-> r,
     command |-> role = "user" /\ r \in Commands]
-----------------------------------------------------------------------------
(* Entry *)

EnterRun(r) ==
    /\ At(r, "new")
    /\ IF active >= MaxConcurrency
       THEN /\ run' = [run EXCEPT ![r].at = "out", ![r].outcome = "error"]
            /\ UNCHANGED active
       ELSE active' = active + 1 /\ Go(r, "entered")
    /\ UNCHANGED <<history, contextVars>>

(* The input is too long, its media are not what the provider takes, or the *)
(* run is cancelled before it starts                                        *)
Reject(r) ==
    /\ At(r, "entered")
    /\ Fail(r)
    /\ UNCHANGED <<history, active, contextVars>>

(* runtime_append_records stores all of them; when it returns an error it   *)
(* has stored none, or all and then failed to sync the file or directory    *)
Store(ms) == Len(history) + Len(ms) <= MaxHistory /\ history' = history \o ms
StoreFails(ms) == UNCHANGED history \/ Store(ms)

StoreInput(r) ==
    /\ At(r, "entered") /\ ~Stopped(r)
    /\ LET input == <<Message(r, "user", << >>, NoId)>> IN
        \/ Store(input) /\ Go(r, "stepping")
        \/ StoreFails(input) /\ Fail(r)
    /\ UNCHANGED <<active, contextVars>>
-----------------------------------------------------------------------------
(* A step *)

MaxStepsReached(r) ==
    /\ At(r, "stepping") /\ run[r].step = MaxSteps
    /\ Leave(r, "max steps")
    /\ UNCHANGED <<history, active, contextVars>>

StepBegins(r) ==
    /\ At(r, "stepping") /\ run[r].step < MaxSteps
    /\ IF Stopped(r) THEN Fail(r)
       ELSE run' = [run EXCEPT ![r].at = "building", ![r].step = @ + 1, ![r].slot = 1,
                               ![r].ctx = [NewContext EXCEPT !.bytes = run[r].ctx.bytes]]
    /\ UNCHANGED <<history, active, contextVars>>

Requested(r, request) == run' = [run EXCEPT ![r].at = "asking", ![r].request = request]

(* cc_context_builder_build_messages; it may fail at the store, the tool    *)
(* schemas may, and it does when the run is cancelled                       *)
BuildFails(r) ==
    /\ At(r, "building")
    /\ Fail(r)
    /\ UNCHANGED <<history, active, contextVars>>

Build(r) ==
    /\ At(r, "building") /\ run[r].stop # "cancelled"
    /\ LET ms == Loaded(history) older == Older(ms) IN
        IF ~WantsSummary(ms)
        THEN Requested(r, Request(ms, NoSummary)) /\ UNCHANGED contextVars
        ELSE IF InCache(older)
        THEN Requested(r, Request(ms, Cached(older))) /\ Touch(CacheSlot(older)) /\ UNCHANGED kept
        ELSE IF InStore(older)
        THEN Requested(r, Request(ms, Stored(older))) /\ Remember(Stored(older)) /\ UNCHANGED kept
        ELSE /\ run' = [run EXCEPT ![r].at = "summarising", ![r].request.loaded = ms]
             /\ UNCHANGED contextVars
    /\ UNCHANGED <<history, active>>

(* The provider's summary is kept unless the run has been cancelled *)
Summarise(r) ==
    /\ At(r, "summarising")
    /\ LET ms == run[r].request.loaded IN
        \E summary \in Summaries(Older(ms)) :
            /\ IF summary # NoSummary /\ run[r].stop # "cancelled"
               THEN Remember(summary) /\ Persist(summary)
               ELSE UNCHANGED contextVars
            /\ IF run[r].stop = "cancelled" THEN Fail(r)
               ELSE Requested(r, Request(ms, summary))
    /\ UNCHANGED <<history, active>>

(* runtime_submit_provider_step: how a step's stream may leave its context. *)
(* A run that is cancelled may have been so after any of the chunks.        *)
Cut(chunks, cancelled) == IF cancelled THEN 0..Len(chunks) ELSE {Len(chunks)}

StreamedContexts(cancelled, sent) ==
    UNION {{Consume(chunks, stop, refuse, sent) : stop \in Cut(chunks, cancelled),
                                                  refuse \in 0..Len(chunks)} : chunks \in Streams}

SyncContexts(cancelled, sent) ==
    UNION {IF SyncTooMany(response) THEN {Fails(NewContext, "limit")}
           ELSE LET chunks == SyncChunks(response) IN
                {Consume(chunks, stop, 0, sent) : stop \in Cut(chunks, cancelled)} :
           response \in Responses}

(* Of an answer the slots matter, the bytes sent, and whether the run was   *)
(* seen cancelled                                                           *)
AnswersOf(contexts) ==
    {[NewContext EXCEPT !.slots = ctx.slots, !.bytes = ctx.bytes, !.cancelled = ctx.cancelled] :
        ctx \in {c \in contexts : c.rc = "ok"}}
AnswersInTime ==
    [sent \in 0..MaxStreamBytes |-> AnswersOf(StreamedContexts(FALSE, sent) \cup SyncContexts(FALSE, sent))]
AnswersToCancelled ==
    [sent \in 0..MaxStreamBytes |-> AnswersOf(StreamedContexts(TRUE, sent) \cup SyncContexts(TRUE, sent))]

(* A stream the provider itself ends early is an error of the provider, and *)
(* so is a chunk that was refused or that exceeds a limit                   *)
Ask(r) ==
    /\ At(r, "asking")
    /\ \/ \E ctx \in (IF run[r].stop = "cancelled" THEN AnswersToCancelled ELSE AnswersInTime)
                       [run[r].ctx.bytes] :
             run' = [run EXCEPT ![r].at = "answered", ![r].ctx = ctx, ![r].request = NoRequest]
       \/ Fail(r)
    /\ UNCHANGED <<history, active, contextVars>>

StoppedAfterAnswer(r) ==
    /\ At(r, "answered")
    /\ Stopped(r) \/ run[r].ctx.cancelled
    /\ Fail(r)
    /\ UNCHANGED <<history, active, contextVars>>

(* active_memory_after_run: the exchange may go to the long-term memory,    *)
(* and the answer is returned whether it could be stored there or not       *)
Remembers(r) ==
    \E remembered \in BOOLEAN :
        run' = [run EXCEPT ![r] = [NewRun EXCEPT !.at = "leaving", !.outcome = "final",
                                                 !.remembered = remembered]]

(* No tool is asked for: the text is the answer, unless it is too long or   *)
(* the store returns an error, when it may be in the history all the same   *)
Final(r) == <<Message(r, "assistant", << >>, NoId)>>

StoreFinalMutant(r) ==
    /\ At(r, "answered")
    /\ ~HasToolCall(run[r].ctx)
    /\ \/ Store(Final(r)) /\ IF Stopped(r) THEN Fail(r) ELSE Remembers(r)
       \/ StoreFails(Final(r)) /\ Leave(r, "unsure")
       \/ Fail(r) /\ UNCHANGED history
    /\ UNCHANGED <<active, contextVars>>

StoreFinal(r) ==
    /\ At(r, "answered") /\ ~Stopped(r) /\ ~run[r].ctx.cancelled
    /\ ~HasToolCall(run[r].ctx)
    /\ \/ Store(Final(r)) /\ Remembers(r)
       \/ StoreFails(Final(r)) /\ Leave(r, "unsure")
       \/ Fail(r) /\ UNCHANGED history
    /\ UNCHANGED <<active, contextVars>>
-----------------------------------------------------------------------------
(* Tools *)

(* All arguments are parsed before the first tool is executed *)
Parsed(slots) == [i \in 1..Len(slots) |-> [slots[i] EXCEPT !.args = <<"object">>]]

CheckTools(r) ==
    /\ At(r, "answered") /\ ~Stopped(r) /\ ~run[r].ctx.cancelled
    /\ HasToolCall(run[r].ctx)
    /\ IF ToolsReady(run[r].ctx)
       THEN run' = [run EXCEPT ![r].at = "executing", ![r].ctx.slots = Parsed(@)]
       ELSE Fail(r)
    /\ UNCHANGED <<history, active, contextVars>>

(* cc_agent_runtime_execute_tool_step: when the executor has run the tool,  *)
(* the call, its result and both messages are stored at once; the run fails *)
(* when the tool was not run, or the executor fails or the store afterwards *)
CurrentSlot(r) == run[r].ctx.slots[run[r].slot]
Ran(r) == Append(run[r].ran, <<run[r].step, run[r].slot>>)

Batch(r) == << Message(r, "assistant", <<CurrentSlot(r).id>>, NoId),
               Message(r, "tool", << >>, CurrentSlot(r).id) >>

ExecuteToolMutant(r) ==
    /\ At(r, "executing") /\ run[r].slot <= Len(run[r].ctx.slots)
    /\ \/ Store(Batch(r)) /\ run' = [run EXCEPT ![r].at = "observing", ![r].ran = Ran(r)]
       \/ UNCHANGED history /\ run' = [run EXCEPT ![r].slot = @ + 1, ![r].ran = Ran(r)]
       \/ StoreFails(Batch(r)) /\ Fail(r)
    /\ UNCHANGED <<active, contextVars>>

ExecuteTool(r) ==
    /\ At(r, "executing") /\ run[r].slot <= Len(run[r].ctx.slots)
    /\ \/ Store(Batch(r)) /\ run' = [run EXCEPT ![r].at = "observing", ![r].ran = Ran(r)]
       \/ StoreFails(Batch(r)) /\ Fail(r)
    /\ UNCHANGED <<active, contextVars>>

(* What the tool produced besides text is told to the model in a message of *)
(* its own, stored by itself                                                *)
Observe(r) ==
    /\ At(r, "observing")
    /\ LET observation == <<Message(r, "user", << >>, NoId)>>
           next == run' = [run EXCEPT ![r].at = "executing", ![r].slot = @ + 1] IN
        \/ next /\ UNCHANGED history
        \/ next /\ Store(observation)
        \/ StoreFails(observation) /\ Fail(r)
    /\ UNCHANGED <<active, contextVars>>

StepOver(r) ==
    /\ At(r, "executing") /\ run[r].slot > Len(run[r].ctx.slots)
    /\ Go(r, "stepping")
    /\ UNCHANGED <<history, active, contextVars>>

LeaveRun(r) ==
    /\ At(r, "leaving")
    /\ active' = IF active > 0 THEN active - 1 ELSE active
    /\ Go(r, "out")
    /\ UNCHANGED <<history, contextVars>>
-----------------------------------------------------------------------------
(* What happens to a run, and to the session *)

Stop(r) ==
    /\ run[r].at \notin {"leaving", "out"} /\ ~Stopped(r)
    /\ \E why \in {"cancelled", "timeout"} : run' = [run EXCEPT ![r].stop = why]
    /\ UNCHANGED <<history, active, contextVars>>

(* The application clears the session, possibly in the middle of a run     *)
ClearSession ==
    /\ Len(history) + 1 >= MaxHistory
    /\ history' = << >>
    /\ UNCHANGED <<active, run, contextVars>>

(* Something else on the session, say the runtime of an older generation,   *)
(* stores a call and its result, also as a batch                            *)
OtherRuntime ==
    /\ cache = << >> /\ \A i \in 1..Len(history) : history[i].run # Other     \* the bound
    /\ Store(<<Message(Other, "assistant", <<"b">>, NoId), Message(Other, "tool", << >>, "b")>>)
    /\ UNCHANGED <<active, run, contextVars>>

RunStep(r) ==
    \/ EnterRun(r) \/ Reject(r) \/ StoreInput(r)
    \/ MaxStepsReached(r) \/ StepBegins(r) \/ BuildFails(r) \/ Build(r) \/ Summarise(r)
    \/ Ask(r) \/ StoppedAfterAnswer(r) \/ StoreFinal(r)
    \/ CheckTools(r) \/ ExecuteTool(r) \/ Observe(r) \/ StepOver(r) \/ LeaveRun(r)

Next == ClearSession \/ OtherRuntime \/ \E r \in Runs : RunStep(r) \/ Stop(r)

Spec == Init /\ [][Next]_vars
-----------------------------------------------------------------------------
(* Properties *)

FinalOf(r, m) == m.run = r /\ m.role = "assistant" /\ m.calls = << >>

(* In whatever order runs, failures and a cut by budget or window meet, the *)
(* tool messages of a request answer, one for one, the calls of the         *)
(* assistant message right before them, and what is sent fits in the budget *)
(* (append_valid_tool_group, cc_context_builder_build_messages).            *)
RequestIsWellFormed ==
    \A r \in Runs : At(r, "asking") =>
        LET ms == run[r].request.messages IN
        /\ \A i \in 1..Len(ms) :
              /\ ms[i].role = "tool" =>
                    \E a \in 1..(i - 1) : i \in Answers(ms, a) /\ ms[a].role = "assistant"
              /\ ms[i].role = "assistant" => Cardinality(Answers(ms, i)) = Len(ms[i].calls)
        /\ Budget > 0 => Cost(ms) + run[r].request.summary.size <= Budget

(* A summary stands for exactly the messages left out before the first that *)
(* is sent, even after the session has been cleared and refilled            *)
(* (summary_cache_lookup, summary_persistent_predecessor).                  *)
SummaryIsOfWhatIsLeftOut ==
    \A r \in Runs : At(r, "asking") /\ run[r].request.summary # NoSummary =>
        run[r].request.summary.of = SubSeq(run[r].request.loaded, 1, run[r].request.first - 1)

(* A final answer in the history is of a run that returned it, or to which  *)
(* the store of that answer reported an error, once and as the last of its  *)
(* messages; a run that was cancelled, exceeded a limit or failed elsewhere *)
(* leaves none, and only one that returns it the long-term memory           *)
(* (cc_agent_runtime_handle_message_internal, active_memory_after_run).     *)
FinalOnlyIfReturned ==
    \A r \in Runs :
        /\ run[r].remembered => run[r].outcome = "final"
        /\ \A i \in 1..Len(history) : FinalOf(r, history[i]) =>
              /\ run[r].outcome \in {"final", "unsure"}
              /\ \A j \in (i + 1)..Len(history) : history[j].run # r

(* Tools are executed one by one in the order of the response, none twice,  *)
(* and a run goes on after a tool only when its call and result are stored  *)
(* next to each other (execute_pending_tools,                               *)
(* cc_agent_runtime_execute_tool_step).                                     *)
ToolsRunOnce ==
    [][\A r \in Runs : Len(run'[r].ran) > Len(run[r].ran) =>
          /\ history' = history \o Batch(r)
          /\ LET next == Last(run'[r].ran) IN
                \/ next = <<run[r].step, 1>> /\ \A i \in 1..Len(run[r].ran) : run[r].ran[i][1] < next[1]
                \/ run[r].ran # << >> /\ next = <<run[r].step, Last(run[r].ran)[2] + 1>>]_vars

(* Next to a summary of the older history, the recent messages are sent as  *)
(* they are, but for control commands (the comment of                       *)
(* try_compress_history).  TLC refutes it: README, section 9.               *)
RecentIsSent ==
    \A r \in Runs : At(r, "asking") /\ run[r].request.summary # NoSummary =>
        run[r].request.messages =
            SelectSeq(From(run[r].request.loaded, run[r].request.first), LAMBDA m : ~m.command)
=============================================================================
