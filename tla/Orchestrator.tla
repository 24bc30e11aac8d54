---------------------------- MODULE Orchestrator ----------------------------
(***************************************************************************)
(* The goal runner of the agent: one Orchestrator object whose run() is    *)
(* called, without any guard, by the REST API, the webhooks, the wake-word *)
(* detector and the terminal loop.  A call is a process r \in Runs; it     *)
(* gives up control at every `await', so an action is the code between two *)
(* awaits.  The calls share the busy flag, the map of error signatures and *)
(* the process environment (API keys).  The long-term memory is a SQLite   *)
(* file shared with other processes: where LtmReadFails or LtmWriteFails   *)
(* is TRUE its calls may throw.                                            *)
(***************************************************************************)
EXTENDS KeyRotation, FiniteSets

CONSTANTS Runs,           \* the calls of run()
          Modes,          \* the routes that goals take
          StepErrors,     \* the messages a failing step may throw
          MaxRevisions,   \* MAX_REVISIONS
          MaxSteps,       \* bound: the longest plan
          ShellEnv,       \* the environment the process was started with
          EnvFile,        \* the contents of .env
          LtmReadFails, LtmWriteFails

LtmError == "database is locked"
Messages == { "unauthorized", "too many requests", "econnrefused",
              "context length", "unknown tool", LtmError }

ASSUME OrchestratorAssumption ==
  /\ Modes \subseteq {"direct", "coordinator", "agent"}
  /\ StepErrors \subseteq Messages
  /\ MaxRevisions \in Nat
  /\ MaxSteps \in Nat \ {0}
  /\ ShellEnv \in Environments
  /\ EnvFile \in Environments
  /\ LtmReadFails \in BOOLEAN
  /\ LtmWriteFails \in BOOLEAN

VARIABLES
  busy,             \* _busy
  errorSignatures,  \* _errorSignatures: how often a message was recorded
  env,              \* process.env, as far as the keys go
  pc,               \* the await a call stands at
  revision,         \* the call's revision counter
  currentGoal,      \* how the goal was last rewritten
  stepsLeft,        \* steps of the current plan still to be executed
  fallback,         \* the current plan is the planner's error report
  err,              \* the error a timer or a reload is being awaited for
  answers,          \* number of finalAnswer events
  finishes,         \* number of planFinish events
  verdict,          \* the status of the last planFinish event
  recorded          \* history: how often a call recorded a message

locals == <<revision, currentGoal, stepsLeft, fallback, err>>
events == <<answers, finishes, verdict>>
shared == <<busy, errorSignatures, env>>
vars   == <<shared, pc, locals, events, recorded>>

Verdicts == {"completed", "failed", "empty"}
Awaits   == { "chat", "chatReload", "rechat", "coordinate", "plan", "step",
              "synthesize", "reload", "rateBackoff", "netBackoff" }
GoalForms == {"original", "concise", "revised", "autoRepair"}

SharedType ==
  /\ busy \in BOOLEAN
  /\ errorSignatures \in [Messages -> Nat]
  /\ env \in Environments

ControlType ==
  /\ pc \in [Runs -> {"new", "done", "rejected"} \cup Awaits]
  /\ revision \in [Runs -> Nat]
  /\ stepsLeft \in [Runs -> 0..MaxSteps]
  /\ err \in [Runs -> Messages \cup {"none"}]
  /\ \A r \in Runs : pc[r] = "step" => stepsLeft[r] > 0

GoalType ==
  /\ currentGoal \in [Runs -> GoalForms]
  /\ fallback \in [Runs -> BOOLEAN]
  /\ recorded \in [Runs -> [Messages -> Nat]]

EventType ==
  /\ answers \in [Runs -> Nat]
  /\ finishes \in [Runs -> Nat]
  /\ verdict \in [Runs -> Verdicts \cup {"none"}]

TypeOK == SharedType /\ ControlType /\ GoalType /\ EventType

\* The environment after boot has loaded .env.
BootEnv == reloadEnv(ShellEnv, EnvFile)

NoSignatures == [m \in Messages |-> 0]

Init ==
  /\ busy = FALSE
  /\ errorSignatures = NoSignatures
  /\ env = BootEnv
  /\ pc = [r \in Runs |-> "new"]
  /\ revision = [r \in Runs |-> 0]
  /\ currentGoal = [r \in Runs |-> "original"]
  /\ stepsLeft = [r \in Runs |-> 0]
  /\ fallback = [r \in Runs |-> FALSE]
  /\ err = [r \in Runs |-> "none"]
  /\ answers = [r \in Runs |-> 0]
  /\ finishes = [r \in Runs |-> 0]
  /\ verdict = [r \in Runs |-> "none"]
  /\ recorded = [r \in Runs |-> NoSignatures]

-----------------------------------------------------------------------------
(* Helpers *)

classifyError(m) ==
  CASE m = "unauthorized"      -> "auth"
    [] m = "too many requests" -> "ratelimit"
    [] m = "econnrefused"      -> "network"
    [] m = "context length"    -> "overflow"
    [] OTHER                   -> "unknown"

InFlight(r) == pc[r] \in Awaits

Goto(r, label) == pc' = [pc EXCEPT ![r] = label]

\* The call returns (or its promise is rejected) and clears the shared flag.
Leave(r, how) ==
  /\ Goto(r, how)
  /\ busy' = FALSE

\* Emits a finalAnswer events and f planFinish events, the last with status v.
Emit(r, a, f, v) ==
  /\ answers' = [answers EXCEPT ![r] = @ + a]
  /\ finishes' = [finishes EXCEPT ![r] = @ + f]
  /\ verdict' = [verdict EXCEPT ![r] = v]

\* The outcomes of a write to the long-term memory.
IndexOutcomes == IF LtmWriteFails THEN {"ok", "throws"} ELSE {"ok"}

-----------------------------------------------------------------------------
(* run(goal): routing, and the synchronous prefix of each route *)

FirstAwait(m) ==
  CASE m = "direct"      -> "chat"
    [] m = "coordinator" -> "coordinate"
    [] OTHER             -> "plan"

\* busy is raised and planStart emitted before buildSystemContext, which is
\* outside of every try block: if it throws, the promise is rejected and
\* nothing lowers the flag.
run(r) ==
  /\ pc[r] = "new"
  /\ busy' = TRUE
  /\ \/ \E m \in Modes : Goto(r, FirstAwait(m))
     \/ LtmReadFails /\ Goto(r, "rejected")
  /\ UNCHANGED <<errorSignatures, env, locals, events, recorded>>

-----------------------------------------------------------------------------
(* runDirect *)

\* The catch block of the first attempt: reload .env, then await it.
HealDirect(r) ==
  /\ env' = reloadEnv(env, EnvFile)
  /\ Goto(r, "chatReload")
  /\ UNCHANGED busy

ChatAnswered(r) ==
  /\ pc[r] = "chat"
  /\ Emit(r, 1, 1, "completed")
  /\ \E o \in IndexOutcomes :
       \/ o = "ok" /\ Leave(r, "done") /\ UNCHANGED env
       \/ o = "throws" /\ HealDirect(r)
  /\ UNCHANGED <<errorSignatures, locals, recorded>>

ChatFailed(r) ==
  /\ pc[r] = "chat"
  /\ HealDirect(r)
  /\ UNCHANGED <<errorSignatures, locals, events, recorded>>

ChatReloaded(r) ==
  /\ pc[r] = "chatReload"
  /\ Goto(r, "rechat")
  /\ UNCHANGED <<shared, locals, events, recorded>>

RechatAnswered(r) ==
  /\ pc[r] = "rechat"
  /\ \E o1 \in IndexOutcomes :
       \/ o1 = "ok" /\ Emit(r, 1, 1, "completed") /\ Leave(r, "done")
       \/ /\ o1 = "throws"
          /\ Emit(r, 2, 2, "failed")
          /\ \E o2 \in IndexOutcomes :
               Leave(r, IF o2 = "ok" THEN "done" ELSE "rejected")
  /\ UNCHANGED <<errorSignatures, env, locals, recorded>>

\* A variant with a bug: returns before the flag is lowered.
RechatFailedKeepsBusy(r) ==
  /\ pc[r] = "rechat"
  /\ Emit(r, 1, 1, "failed")
  /\ Goto(r, "done")
  /\ UNCHANGED <<shared, locals, recorded>>

RechatFailed(r) ==
  /\ pc[r] = "rechat"
  /\ Emit(r, 1, 1, "failed")
  /\ \E o \in IndexOutcomes : Leave(r, IF o = "ok" THEN "done" ELSE "rejected")
  /\ UNCHANGED <<errorSignatures, env, locals, recorded>>

-----------------------------------------------------------------------------
(* runCoordinator; the phases of the workflow are one await here *)

CoordinatorReturned(r) ==
  /\ pc[r] = "coordinate"
  /\ \E o1 \in IndexOutcomes :
       \/ o1 = "ok" /\ Emit(r, 1, 1, "completed") /\ Leave(r, "done")
       \/ /\ o1 = "throws"
          /\ Emit(r, 1, 2, "failed")
          /\ \E o2 \in IndexOutcomes :
               Leave(r, IF o2 = "ok" THEN "done" ELSE "rejected")
  /\ UNCHANGED <<errorSignatures, env, locals, recorded>>

CoordinatorThrew(r) ==
  /\ pc[r] = "coordinate"
  /\ Emit(r, 0, 1, "failed")
  /\ \E o \in IndexOutcomes : Leave(r, IF o = "ok" THEN "done" ELSE "rejected")
  /\ UNCHANGED <<errorSignatures, env, locals, recorded>>

-----------------------------------------------------------------------------
(* Agent mode: the catch block of the revision loop.  sigs is the map of   *)
(* error signatures at the throw, a and f the events emitted before it.    *)

\* A variant with a bug: the diagnostic context comes one occurrence late.
RecordSignatureLate(r, m, sigs) ==
  /\ errorSignatures' = [sigs EXCEPT ![m] = @ + 1]
  /\ recorded' = [recorded EXCEPT ![r][m] = @ + 1]
  /\ currentGoal' = [currentGoal EXCEPT
                       ![r] = IF sigs[m] >= 2 THEN "autoRepair" ELSE "revised"]

\* Unknown and network errors: count the signature and rewrite the goal.
RecordSignature(r, m, sigs) ==
  /\ errorSignatures' = [sigs EXCEPT ![m] = @ + 1]
  /\ recorded' = [recorded EXCEPT ![r][m] = @ + 1]
  /\ currentGoal' = [currentGoal EXCEPT
                       ![r] = IF sigs[m] >= 1 THEN "autoRepair" ELSE "revised"]

NoRecord(sigs) == errorSignatures' = sigs /\ UNCHANGED recorded

Remedy(r, m, sigs) ==
  \/ /\ classifyError(m) = "auth"
     /\ env' = reloadEnv(env, EnvFile)
     /\ Goto(r, "reload")
     /\ NoRecord(sigs) /\ UNCHANGED currentGoal
  \/ /\ classifyError(m) = "ratelimit"
     /\ Goto(r, "rateBackoff")
     /\ NoRecord(sigs) /\ UNCHANGED <<env, currentGoal>>
  \/ /\ classifyError(m) = "network"
     /\ Goto(r, "netBackoff")
     /\ NoRecord(sigs) /\ UNCHANGED <<env, currentGoal>>
  \/ /\ classifyError(m) = "overflow"
     /\ currentGoal' = [currentGoal EXCEPT ![r] = "concise"]
     /\ Goto(r, "plan")
     /\ NoRecord(sigs) /\ UNCHANGED env
  \/ /\ classifyError(m) = "unknown"
     /\ RecordSignature(r, m, sigs)
     /\ Goto(r, "plan")
     /\ UNCHANGED env

\* Variants with a bug: the loop goes on after the failure, the limit is off by
\* one, the revision is not counted.
CatchAgentNoBreak(r, m, sigs, a, f) ==
  /\ revision' = [revision EXCEPT ![r] = @ + 1]
  /\ err' = [err EXCEPT ![r] = m]
  /\ Emit(r, a, IF revision[r] >= MaxRevisions THEN f + 1 ELSE f,
           IF revision[r] >= MaxRevisions THEN "failed"
           ELSE IF f = 0 THEN verdict[r] ELSE "completed")
  /\ Remedy(r, m, sigs)
  /\ UNCHANGED busy

CatchAgentOneMore(r, m, sigs, a, f) ==
  /\ revision' = [revision EXCEPT ![r] = @ + 1]
  /\ err' = [err EXCEPT ![r] = m]
  /\ \/ /\ revision[r] > MaxRevisions
        /\ Emit(r, a, f + 1, "failed")
        /\ Leave(r, "done")
        /\ NoRecord(sigs) /\ UNCHANGED <<env, currentGoal>>
     \/ /\ revision[r] <= MaxRevisions
        /\ Emit(r, a, f, IF f = 0 THEN verdict[r] ELSE "completed")
        /\ Remedy(r, m, sigs)
        /\ UNCHANGED busy

CatchAgentUncounted(r, m, sigs, a, f) ==
  /\ err' = [err EXCEPT ![r] = m]
  /\ Emit(r, a, f, IF f = 0 THEN verdict[r] ELSE "completed")
  /\ Remedy(r, m, sigs)
  /\ UNCHANGED <<busy, revision>>

CatchAgent(r, m, sigs, a, f) ==
  /\ revision' = [revision EXCEPT ![r] = @ + 1]
  /\ err' = [err EXCEPT ![r] = m]
  /\ \/ /\ revision[r] >= MaxRevisions
        /\ Emit(r, a, f + 1, "failed")
        /\ Leave(r, "done")
        /\ NoRecord(sigs) /\ UNCHANGED <<env, currentGoal>>
     \/ /\ revision[r] < MaxRevisions
        /\ Emit(r, a, f, IF f = 0 THEN verdict[r] ELSE "completed")
        /\ Remedy(r, m, sigs)
        /\ UNCHANGED busy

-----------------------------------------------------------------------------
(* Agent mode: the revision loop *)

PlanGenerated(r) ==
  /\ pc[r] = "plan"
  /\ \E n \in 1..MaxSteps : stepsLeft' = [stepsLeft EXCEPT ![r] = n]
  /\ fallback' = [fallback EXCEPT ![r] = FALSE]
  /\ Goto(r, "step")
  /\ UNCHANGED <<shared, revision, currentGoal, err, events, recorded>>

\* A variant with a bug: the loop goes on after the verdict.
PlanEmptyNoBreak(r) ==
  /\ pc[r] = "plan"
  /\ Emit(r, 0, 1, "empty")
  /\ Goto(r, "plan")
  /\ UNCHANGED <<shared, locals, recorded>>

PlanEmpty(r) ==
  /\ pc[r] = "plan"
  /\ Emit(r, 0, 1, "empty")
  /\ Leave(r, "done")
  /\ UNCHANGED <<errorSignatures, env, locals, recorded>>

\* The planner swallows every error of the language model and answers with a
\* plan of one log step, which cannot fail.
PlanFailed(r) ==
  /\ pc[r] = "plan"
  /\ stepsLeft' = [stepsLeft EXCEPT ![r] = 1]
  /\ fallback' = [fallback EXCEPT ![r] = TRUE]
  /\ Goto(r, "step")
  /\ UNCHANGED <<shared, revision, currentGoal, err, events, recorded>>

\* A variant with a bug: one step too many.
StepFinishedOffByOne(r) ==
  /\ pc[r] = "step"
  /\ stepsLeft' = [stepsLeft EXCEPT ![r] = @ - 1]
  /\ Goto(r, IF stepsLeft[r] = 0 THEN "synthesize" ELSE "step")
  /\ UNCHANGED <<shared, revision, currentGoal, fallback, err, events, recorded>>

StepFinished(r) ==
  /\ pc[r] = "step"
  /\ stepsLeft' = [stepsLeft EXCEPT ![r] = @ - 1]
  /\ Goto(r, IF stepsLeft[r] = 1 THEN "synthesize" ELSE "step")
  /\ UNCHANGED <<shared, revision, currentGoal, fallback, err, events, recorded>>

\* The tool throws, or the results cannot be written as JSON, which synthesize does
\* before its own try block.
StepThrew(r) ==
  /\ pc[r] \in {"step", "synthesize"}
  /\ ~fallback[r]
  /\ \E m \in StepErrors : CatchAgent(r, m, errorSignatures, 0, 0)
  /\ UNCHANGED <<stepsLeft, fallback>>

\* The answer is announced and the signatures cleared before the run is
\* written to the long-term memory, inside the same try block.
Synthesized(r) ==
  /\ pc[r] = "synthesize"
  /\ \E o \in IndexOutcomes :
       \/ /\ o = "ok"
          /\ errorSignatures' = NoSignatures
          /\ Emit(r, 1, 1, "completed")
          /\ Leave(r, "done")
          /\ UNCHANGED <<env, revision, currentGoal, err, recorded>>
       \/ /\ o = "throws"
          /\ CatchAgent(r, LtmError, NoSignatures, 1, 1)
  /\ UNCHANGED <<stepsLeft, fallback>>

\* The rotation, and the planner's request in the same stretch, which loads .env
\* again.  Every other request loads it too, and finds nothing to change there
\* (EnvSettled of OrchestratorProps).
EnvReloaded(r) ==
  /\ pc[r] = "reload"
  /\ env' = reloadEnv(rotateApiKey(env), EnvFile)
  /\ Goto(r, "plan")
  /\ UNCHANGED <<busy, errorSignatures, locals, events, recorded>>

RateBackoffOver(r) ==
  /\ pc[r] = "rateBackoff"
  /\ env' = reloadEnv(rotateApiKey(env), EnvFile)
  /\ Goto(r, "plan")
  /\ UNCHANGED <<busy, errorSignatures, locals, events, recorded>>

NetBackoffOver(r) ==
  /\ pc[r] = "netBackoff"
  /\ RecordSignature(r, err[r], errorSignatures)
  /\ Goto(r, "plan")
  /\ UNCHANGED <<busy, env, revision, stepsLeft, fallback, err, events>>

-----------------------------------------------------------------------------
Resume(r) ==
  \/ ChatAnswered(r) \/ ChatFailed(r) \/ ChatReloaded(r)
  \/ RechatAnswered(r) \/ RechatFailed(r)
  \/ CoordinatorReturned(r) \/ CoordinatorThrew(r)
  \/ PlanGenerated(r) \/ PlanEmpty(r) \/ PlanFailed(r)
  \/ StepFinished(r) \/ StepThrew(r) \/ Synthesized(r)
  \/ EnvReloaded(r) \/ RateBackoffOver(r) \/ NetBackoffOver(r)

Next == \E r \in Runs : run(r) \/ Resume(r)

\* Every await of the code returns: the LLM request, the tool, the timer.
\* Nobody has to submit a goal.
Fairness == \A r \in Runs : WF_vars(Resume(r))

Spec == Init /\ [][Next]_vars /\ Fairness

\* The terminal loop awaits a run before it reads the next goal.
CliNext == \E r \in Runs : \/ run(r) /\ \A q \in Runs : ~InFlight(q)
                           \/ Resume(r)

=============================================================================
