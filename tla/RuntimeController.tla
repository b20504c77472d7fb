-------------------------- MODULE RuntimeController --------------------------
(***************************************************************************)
(* The runtime controller (core/src/app/cc_runtime_controller.c): one      *)
(* active run at a time on behalf of an application, which other threads   *)
(* may cancel, and a life cycle that drains before it ends.                *)
(*                                                                         *)
(* Each section under the controller's mutex is one action.  A run is      *)
(* active between two of them: in between the submitting thread creates    *)
(* the session when that is still to be done, and runs the agent runtime   *)
(* of the generation it holds, streaming events back.  They need no state   *)
(* here: between the two sections the run is the active one, so the filter *)
(* that drops late events passes all but those of a cancelled run.         *)
(***************************************************************************)
EXTENDS RuntimeGeneration

CONSTANTS
    MaxControllerRuns,  \* bound on the runs submitted
    MaxSessions         \* bound on session_generation

ASSUME ControllerAssumption == MaxControllerRuns \in Nat /\ MaxSessions \in Nat \ {0}

VARIABLES
    lifecycle,      \* "starting" before create; "failed" when create fails
    active,         \* the active run, or NoRun
    lastRun,        \* run ids given out
    token,          \* of each run's cancel source: "live", "cancelled", "destroyed"
    session,        \* session_generation, which makes the session id
    needsCreate,    \* session_needs_create
    created         \* sessions the store has

controllerVars == <<lifecycle, active, lastRun, token, session, needsCreate,
                    created>>

NoRun == 0
ControllerRuns == 1..MaxControllerRuns

ControllerInit ==
    /\ lifecycle = "starting"
    /\ active = NoRun
    /\ lastRun = 0
    /\ token = [r \in ControllerRuns |-> "none"]
    /\ session = 1
    /\ needsCreate = FALSE
    /\ created = {}

(* create: the first session is made on the generation of the moment *)
CreateController(t) ==
    /\ At(t, "idle") /\ Published
    /\ lifecycle = "starting"
    /\ \E made \in BOOLEAN :
        LET ok == CanAcquire /\ made IN
        /\ lifecycle' = IF ok THEN "running" ELSE "failed"
        /\ created' = IF ok THEN created \cup {session} ELSE created
    /\ UNCHANGED <<active, lastRun, token, session, needsCreate, thread>>
    /\ UNCHANGED generationVars

ControllerExists == lifecycle \in {"running", "draining", "stopped"}
-----------------------------------------------------------------------------
(* A run *)

SubmitText(t) ==
    /\ At(t, "idle") /\ Published /\ ControllerExists
    /\ lastRun < MaxControllerRuns
    /\ Acquire
    /\ lastRun' = lastRun + 1
    /\ token' = [token EXCEPT ![lastRun + 1] = "live"]
    /\ Go(t, [at |-> "claiming", generation |-> current, run |-> lastRun + 1])
    /\ UNCHANGED <<lifecycle, active, session, needsCreate, created>>

(* Not running, or already busy: the run never was *)
ClaimRefused(t) ==
    /\ At(t, "claiming")
    /\ lifecycle # "running" \/ active # NoRun
    /\ token' = [token EXCEPT ![thread[t].run] = "destroyed"]
    /\ Release(thread[t].generation)
    /\ Go(t, Onward(thread[t].generation, Idle))
    /\ UNCHANGED <<lifecycle, active, lastRun, session, needsCreate, created>>

(* The thread goes on with its run at another place *)
RunAt(t, place, s) ==
    Go(t, [at |-> place, generation |-> thread[t].generation, run |-> thread[t].run,
           session |-> s])

Claim(t) ==
    /\ At(t, "claiming")
    /\ lifecycle = "running" /\ active = NoRun
    /\ needsCreate' = FALSE
    /\ active' = thread[t].run
    /\ RunAt(t, IF needsCreate THEN "creating" ELSE "running", session)
    /\ UNCHANGED <<lifecycle, lastRun, token, session, created>>
    /\ UNCHANGED generationVars

(* The flag is already cleared when the store may still refuse *)
CreateSession(t) ==
    /\ At(t, "creating")
    /\ \/ created' = created \cup {thread[t].session} /\ RunAt(t, "running", thread[t].session)
       \/ created' = created /\ RunAt(t, "finishing", thread[t].session)
    /\ UNCHANGED <<lifecycle, active, lastRun, token, session, needsCreate>>
    /\ UNCHANGED generationVars

(* The runtime answers, with a response or an error; whether the token was  *)
(* cancelled is read here, and decides what the caller is told.             *)
RunEnds(t) ==
    /\ At(t, "running")
    /\ RunAt(t, "finishing", thread[t].session)
    /\ UNCHANGED generationVars /\ UNCHANGED controllerVars

FinishRun(t) ==
    /\ At(t, "finishing")
    /\ active' = IF active = thread[t].run THEN NoRun ELSE active
    /\ RunAt(t, "giving_back", thread[t].session)
    /\ UNCHANGED <<lifecycle, lastRun, token, session, needsCreate, created>>
    /\ UNCHANGED generationVars

(* The cancel source, then the generation *)
GiveBack(t) ==
    /\ At(t, "giving_back")
    /\ token' = [token EXCEPT ![thread[t].run] = "destroyed"]
    /\ Release(thread[t].generation)
    /\ Go(t, Onward(thread[t].generation, Idle))
    /\ UNCHANGED <<lifecycle, active, lastRun, session, needsCreate, created>>
-----------------------------------------------------------------------------
(* What other threads do to it *)

CancelToken(r) == token' = [token EXCEPT ![r] = "cancelled"]

CancelRun(t) ==
    /\ At(t, "idle") /\ ControllerExists
    /\ \E r \in ControllerRuns : active = r /\ CancelToken(r)
    /\ UNCHANGED <<lifecycle, active, lastRun, session, needsCreate, created, thread>>
    /\ UNCHANGED generationVars

(* A session id nobody has used: the run that comes next creates it *)
NewSession ==
    /\ session < MaxSessions
    /\ session' = session + 1
    /\ needsCreate' = TRUE

ClearSession(t) ==
    /\ At(t, "idle")
    /\ lifecycle = "running" /\ active = NoRun
    /\ NewSession
    /\ UNCHANGED <<lifecycle, active, lastRun, token, created,
                   thread>>
    /\ UNCHANGED generationVars

ApplyConfig(t) ==
    /\ At(t, "idle")
    /\ lifecycle = "running" /\ active = NoRun
    /\ NewSession
    /\ UNCHANGED <<lifecycle, active, lastRun, token, created,
                   thread>>
    /\ UNCHANGED generationVars

(* shutdown: new runs are refused and the active one cancelled *)
Shutdown(t) ==
    /\ At(t, "idle") /\ ControllerExists
    /\ lifecycle # "stopped"
    /\ \A u \in Threads : ~At(u, "draining")     \* one thread shuts the controller down
    /\ lifecycle' = "draining"
    /\ IF active # NoRun THEN CancelToken(active) ELSE UNCHANGED token
    /\ Go(t, [at |-> "draining"])
    /\ UNCHANGED <<active, lastRun, session, needsCreate, created>>
    /\ UNCHANGED generationVars

DrainedMutant(t) ==
    /\ At(t, "draining")
    /\ lifecycle' = "stopped"
    /\ Go(t, Idle)
    /\ UNCHANGED <<active, lastRun, token, session, needsCreate, created>>
    /\ UNCHANGED generationVars

Drained(t) ==
    /\ At(t, "draining")
    /\ active = NoRun
    /\ lifecycle' = "stopped"
    /\ Go(t, Idle)
    /\ UNCHANGED <<active, lastRun, token, session, needsCreate, created>>
    /\ UNCHANGED generationVars

(* The call gives up; the controller stays as it is, draining *)
DrainTimeout(t) ==
    /\ At(t, "draining")
    /\ active # NoRun
    /\ Go(t, Idle)
    /\ UNCHANGED generationVars /\ UNCHANGED controllerVars

(* The memory goes once it is stopped; no thread may be about to use it *)
DestroyController(t) ==
    /\ At(t, "idle") /\ lifecycle = "stopped"
    /\ \A u \in Threads : ~At(u, "claiming")
    /\ lifecycle' = "freed"
    /\ UNCHANGED <<active, lastRun, token, session, needsCreate, created, thread>>
    /\ UNCHANGED generationVars

ControllerNext(t) ==
    \/ CreateController(t)
    \/ SubmitText(t) \/ ClaimRefused(t) \/ Claim(t) \/ CreateSession(t)
    \/ RunEnds(t) \/ FinishRun(t) \/ GiveBack(t)
    \/ CancelRun(t) \/ ClearSession(t) \/ ApplyConfig(t)
    \/ Shutdown(t) \/ Drained(t) \/ DrainTimeout(t) \/ DestroyController(t)
=============================================================================
