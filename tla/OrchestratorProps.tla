--------------------------- MODULE OrchestratorProps ---------------------------
(***************************************************************************)
(* What the runs of module Orchestrator must satisfy.                      *)
(***************************************************************************)
EXTENDS Orchestrator

Returned(r) == pc[r] \in {"done", "rejected"}

\* With a long-term memory that never throws, a goal is announced exactly once:
\* nothing is announced while the call is in flight (run, runDirect and
\* runCoordinator of orchestrator.ts), a returned call has one planFinish, at
\* most one finalAnswer, and a completed one has its answer.
SettledOnce ==
  \A r \in Runs :
    /\ ~Returned(r) => answers[r] = 0 /\ finishes[r] = 0 /\ verdict[r] = "none"
    /\ Returned(r) => /\ pc[r] = "done"
                      /\ finishes[r] = 1
                      /\ answers[r] <= 1
                      /\ verdict[r] = "completed" => answers[r] = 1

\* The busy flag (orchestrator.ts:149) is never left raised: when it is up, some
\* call is in flight to lower it.  Needs a memory whose reads do not throw.
BusyOnlyInFlight == busy => \E r \in Runs : InFlight(r)

\* While a call is in flight the busy flag is up: what the NightOwl idle check
\* (night-owl.ts:165) and the abort endpoint (api.ts:3505) take it to mean.
InFlightMeansBusy == (\E r \in Runs : InFlight(r)) => busy

\* Even when the long-term memory throws, a goal that was announced as failed or
\* as empty is over: no event follows and the call does not go on (the last
\* catch blocks and breaks of orchestrator.ts).
NothingAfterFailure ==
  \A r \in Runs : verdict[r] \in {"failed", "empty"} =>
    /\ answers'[r] = answers[r]
    /\ finishes'[r] = finishes[r]
    /\ verdict'[r] = verdict[r]
    /\ pc'[r] = pc[r]

FailureIsFinal == [][NothingAfterFailure]_vars

\* However the long-term memory fails, consumers see a bounded number of
\* verdicts of a goal: in agent mode one per revision and the final failure
\* (orchestrator.ts:300-349), on the fast path one per attempt and the failure.
VerdictBudget ==
  \A r \in Runs :
    \/ finishes[r] <= MaxRevisions + 2 /\ answers[r] <= MaxRevisions + 1
    \/ finishes[r] <= 3 /\ answers[r] <= 3

\* Healing never trades a usable API key for an unusable value: a provider that
\* had a usable key after boot has one in every request, whatever reloads and
\* rotations of concurrent calls came before (orchestrator.ts:98-135,
\* config-store.ts:111-119).
ActiveKeyUsable ==
  \A p \in Providers :
    resolveEnvKeys(p, BootEnv) \in UsableKeys => resolveEnvKeys(p, env) \in UsableKeys

\* What .env sets stands: every request loads .env with override (rc,
\* provider.ts:60), and after a rotation the first request does it at once, so
\* no call ever waits on an environment that disagrees with the file.
EnvSettled == reloadEnv(env, EnvFile) = env

\* A step that records a message of a call for the second time gives its goal
\* the self-diagnostic context (orchestrator.ts:393-416).
RecurrenceRepaired ==
  \A r \in Runs : \A m \in Messages :
    recorded'[r][m] > recorded[r][m] /\ recorded'[r][m] >= 2
      => currentGoal'[r] = "autoRepair"

\* The fast path announces one answer and one verdict (the comment of runDirect,
\* orchestrator.ts:189-193).
DirectAnnouncedOnce ==
  Modes = {"direct"} => \A r \in Runs : answers[r] <= 1 /\ finishes[r] <= 1

\* Every accepted goal is settled, whatever fails: the revision loop, the retry
\* of the fast path and the self-healing branches all end.
EventuallyReturns == \A r \in Runs : InFlight(r) ~> Returned(r)

-----------------------------------------------------------------------------
\* What a consumer of the events knows of a goal.
StateOf(r) ==
  CASE pc[r] = "new"        -> "new"
    [] verdict[r] # "none"  -> verdict[r]
    [] OTHER                -> "pending"

Lifecycle == INSTANCE GoalLifecycle WITH state <- [r \in Runs |-> StateOf(r)]

\* With a reliable long-term memory the orchestrator implements GoalLifecycle:
\* one verdict for every accepted goal, never revised.
ImplementsLifecycle == Lifecycle!Spec
=============================================================================
