------------------------- MODULE OrchestratorProofs --------------------------
(***************************************************************************)
(* The theorems of module Orchestrator, for any number of calls, any bound *)
(* on revisions and plans, and any contents of .env. They rest on type     *)
(* correctness and on two facts about a step: where it takes the call      *)
(* (StepGoes) and what it announces (StepAnnounces).                       *)
(***************************************************************************)
EXTENDS Submissions, KeyRotationProofs

-----------------------------------------------------------------------------
(* Type correctness *)

LEMMA InitType == Init => TypeOK
<1> SUFFICES ASSUME Init PROVE TypeOK
  OBVIOUS
<1> USE OrchestratorAssumption DEF Init, NoSignatures
<1>1. SharedType
  BY ReloadType DEF SharedType, BootEnv
<1>2. ControlType
  BY DEF ControlType
<1>3. GoalType
  BY DEF GoalType, GoalForms
<1>4. EventType
  BY DEF EventType
<1>5. QED
  BY <1>1, <1>2, <1>3, <1>4 DEF TypeOK

\* Recording a signature keeps the maps and the goal in their types.
LEMMA RecordType ==
  ASSUME TypeOK, NEW r \in Runs, NEW m \in Messages,
         NEW sigs \in [Messages -> Nat], RecordSignature(r, m, sigs)
  PROVE  /\ errorSignatures' \in [Messages -> Nat]
         /\ recorded' \in [Runs -> [Messages -> Nat]]
         /\ currentGoal' \in [Runs -> GoalForms]
<1>1. errorSignatures' \in [Messages -> Nat]
  BY DEF RecordSignature
<1>2. recorded' \in [Runs -> [Messages -> Nat]]
  BY DEF RecordSignature, TypeOK, GoalType
<1>3. currentGoal' \in [Runs -> GoalForms]
  BY DEF RecordSignature, TypeOK, GoalType, GoalForms
<1>4. QED
  BY <1>1, <1>2, <1>3

\* The same when the message is the one a timer was awaited for.
LEMMA NetBackoffType ==
  ASSUME TypeOK, NEW r \in Runs, NetBackoffOver(r)
  PROVE  /\ errorSignatures' \in [Messages -> Nat]
         /\ recorded' \in [Runs -> [Messages -> Nat]]
         /\ currentGoal' \in [Runs -> GoalForms]
<1>1. RecordSignature(r, err[r], errorSignatures)
  BY DEF NetBackoffOver
<1>2. errorSignatures \in [Messages -> Nat] /\ err[r] \in Messages \cup {"none"}
  BY DEF TypeOK, SharedType, ControlType
<1>3. CASE err[r] \in Messages
  BY <1>1, <1>2, <1>3, RecordType
<1>4. CASE err[r] \notin Messages
  <2>1. errorSignatures' = errorSignatures
    BY <1>1, <1>2, <1>4 DEF RecordSignature
  <2>2. recorded' \in [Runs -> [Messages -> Nat]]
    BY <1>1, <1>4 DEF RecordSignature, TypeOK, GoalType
  <2>3. currentGoal' \in [Runs -> GoalForms]
    BY <1>1 DEF RecordSignature, TypeOK, GoalType, GoalForms
  <2>4. QED
    BY <1>2, <2>1, <2>2, <2>3
<1>5. QED
  BY <1>3, <1>4

\* What the self-healing branches may change.
LEMMA RemedyType ==
  ASSUME TypeOK, NEW r \in Runs, NEW m \in Messages,
         NEW sigs \in [Messages -> Nat], Remedy(r, m, sigs)
  PROVE  /\ errorSignatures' \in [Messages -> Nat]
         /\ recorded' \in [Runs -> [Messages -> Nat]]
         /\ currentGoal' \in [Runs -> GoalForms]
         /\ env' = env \/ env' = reloadEnv(env, EnvFile)
         /\ \E l \in {"reload", "rateBackoff", "netBackoff", "plan"} : Goto(r, l)
<1>1. GoalType
  BY DEF TypeOK
<1>2. QED
  BY RecordType, <1>1 DEF Remedy, NoRecord, GoalType, GoalForms

\* What the catch block of the revision loop may change.
LEMMA CatchType ==
  ASSUME TypeOK, NEW r \in Runs, NEW m \in Messages,
         NEW sigs \in [Messages -> Nat], NEW a \in Nat, NEW f \in Nat,
         CatchAgent(r, m, sigs, a, f)
  PROVE  /\ errorSignatures' \in [Messages -> Nat]
         /\ recorded' \in [Runs -> [Messages -> Nat]]
         /\ currentGoal' \in [Runs -> GoalForms]
         /\ env' = env \/ env' = reloadEnv(env, EnvFile)
         /\ busy' \in BOOLEAN
         /\ \E l \in {"done", "reload", "rateBackoff", "netBackoff", "plan"} :
              Goto(r, l)
         /\ revision' \in [Runs -> Nat]
         /\ err' \in [Runs -> Messages \cup {"none"}]
         /\ EventType'
<1>1. SharedType /\ GoalType /\ ControlType /\ EventType
  BY DEF TypeOK
<1>2. err' \in [Runs -> Messages \cup {"none"}]
  BY <1>1 DEF CatchAgent, ControlType
<1>3. CASE revision[r] >= MaxRevisions /\ Emit(r, a, f + 1, "failed")
           /\ Leave(r, "done") /\ NoRecord(sigs) /\ UNCHANGED <<env, currentGoal>>
  <2>2. EventType'
    BY <1>1, <1>3 DEF EventType, Emit, Verdicts
  <2>3. revision' \in [Runs -> Nat]
    BY <1>1, <1>3 DEF ControlType, CatchAgent
  <2>4. QED
    BY <1>1, <1>2, <1>3, <2>2, <2>3 DEF Leave, NoRecord, GoalType
<1>4. CASE revision[r] < MaxRevisions /\ Remedy(r, m, sigs) /\ UNCHANGED busy
           /\ Emit(r, a, f, IF f = 0 THEN verdict[r] ELSE "completed")
  <2>1. EventType'
    BY <1>1, <1>4 DEF EventType, Emit, Verdicts
  <2>2. revision' \in [Runs -> Nat]
    BY <1>1, <1>4, OrchestratorAssumption DEF ControlType, CatchAgent
  <2>3. QED
    BY <1>1, <1>2, <1>4, <2>1, <2>2, RemedyType DEF SharedType
<1>5. QED
  BY <1>3, <1>4 DEF CatchAgent

\* The catch block leaves a state of the type.
LEMMA CatchStepType ==
  ASSUME TypeOK, NEW r \in Runs, NEW m \in Messages,
         NEW sigs \in [Messages -> Nat], NEW a \in Nat, NEW f \in Nat,
         CatchAgent(r, m, sigs, a, f), UNCHANGED <<stepsLeft, fallback>>
  PROVE  TypeOK'
<1>1. SharedType'
  BY CatchType, ReloadType, OrchestratorAssumption DEF TypeOK, SharedType
<1>2. ControlType'
  <2>1. PICK l \in {"done", "reload", "rateBackoff", "netBackoff", "plan"} : Goto(r, l)
    BY CatchType
  <2>2. QED
    BY <2>1, CatchType DEF TypeOK, ControlType, Goto, Awaits
<1>3. GoalType'
  BY CatchType DEF TypeOK, GoalType
<1>4. QED
  BY <1>1, <1>2, <1>3, CatchType DEF TypeOK

LEMMA StepThrewType ==
  ASSUME TypeOK, NEW r \in Runs, StepThrew(r)
  PROVE  TypeOK'
<1>1. PICK m \in Messages : CatchAgent(r, m, errorSignatures, 0, 0)
  BY OrchestratorAssumption DEF StepThrew
<1>2. errorSignatures \in [Messages -> Nat] /\ UNCHANGED <<stepsLeft, fallback>>
  BY DEF StepThrew, TypeOK, SharedType
<1>3. QED
  BY <1>1, <1>2, CatchStepType

LEMMA SynthesizedType ==
  ASSUME TypeOK, NEW r \in Runs, Synthesized(r)
  PROVE  TypeOK'
<1>1. NoSignatures \in [Messages -> Nat] /\ LtmError \in Messages
  BY DEF NoSignatures, Messages
<1>2. UNCHANGED <<stepsLeft, fallback>>
  BY DEF Synthesized
<1>3. CASE CatchAgent(r, LtmError, NoSignatures, 1, 1)
  BY <1>1, <1>2, <1>3, CatchStepType
<1>4. CASE /\ errorSignatures' = NoSignatures
           /\ Emit(r, 1, 1, "completed")
           /\ Leave(r, "done")
           /\ UNCHANGED <<env, revision, currentGoal, err, recorded>>
  <2>1. SharedType'
    BY <1>1, <1>4 DEF TypeOK, SharedType, Leave
  <2>2. ControlType'
    BY <1>2, <1>4 DEF TypeOK, ControlType, Leave, Goto
  <2>3. GoalType'
    BY <1>2, <1>4 DEF TypeOK, GoalType
  <2>4. EventType'
    BY <1>4 DEF TypeOK, EventType, Emit, Verdicts
  <2>5. QED
    BY <2>1, <2>2, <2>3, <2>4 DEF TypeOK
<1>5. QED
  BY <1>3, <1>4 DEF Synthesized

LEMMA SharedTypeStep ==
  ASSUME TypeOK, NEW r \in Runs, run(r) \/ Resume(r)
  PROVE  SharedType'
<1> USE OrchestratorAssumption DEF TypeOK, Goto, Leave, IndexOutcomes, locals, events, shared, SharedType
<1>1. CASE run(r)
  BY <1>1 DEF run, FirstAwait
<1>2. CASE ChatAnswered(r)
  BY <1>2, ReloadType DEF ChatAnswered, HealDirect
<1>3. CASE ChatFailed(r)
  BY <1>3, ReloadType DEF ChatFailed, HealDirect
<1>4. CASE ChatReloaded(r)
  BY <1>4 DEF ChatReloaded
<1>5. CASE RechatAnswered(r)
  BY <1>5 DEF RechatAnswered
<1>6. CASE RechatFailed(r)
  BY <1>6 DEF RechatFailed
<1>7. CASE CoordinatorReturned(r)
  BY <1>7 DEF CoordinatorReturned
<1>8. CASE CoordinatorThrew(r)
  BY <1>8 DEF CoordinatorThrew
<1>9. CASE PlanGenerated(r)
  BY <1>9 DEF PlanGenerated
<1>10. CASE PlanEmpty(r)
  BY <1>10 DEF PlanEmpty
<1>11. CASE PlanFailed(r)
  BY <1>11 DEF PlanFailed
<1>12. CASE StepFinished(r)
  BY <1>12 DEF StepFinished
<1>13. CASE StepThrew(r)
  BY <1>13, StepThrewType
<1>14. CASE Synthesized(r)
  BY <1>14, SynthesizedType
<1>15. CASE EnvReloaded(r)
  BY <1>15, RotateType, ReloadType, OrchestratorAssumption DEF EnvReloaded, TypeOK, SharedType
<1>16. CASE RateBackoffOver(r)
  BY <1>16, RotateType, ReloadType, OrchestratorAssumption DEF RateBackoffOver, TypeOK, SharedType
<1>17. CASE NetBackoffOver(r)
  BY <1>17, NetBackoffType DEF NetBackoffOver
<1>18. QED
  BY <1>1, <1>2, <1>3, <1>4, <1>5, <1>6, <1>7, <1>8, <1>9, <1>10, <1>11, <1>12, <1>13, <1>14, <1>15, <1>16, <1>17 DEF Resume

LEMMA ControlTypeStep ==
  ASSUME TypeOK, NEW r \in Runs, run(r) \/ Resume(r)
  PROVE  ControlType'
<1> USE OrchestratorAssumption DEF TypeOK, Goto, Leave, IndexOutcomes, locals, events, shared, Awaits, ControlType
<1>1. CASE run(r)
  BY <1>1 DEF run, FirstAwait
<1>2. CASE ChatAnswered(r)
  BY <1>2 DEF ChatAnswered, HealDirect
<1>3. CASE ChatFailed(r)
  BY <1>3 DEF ChatFailed, HealDirect
<1>4. CASE ChatReloaded(r)
  BY <1>4 DEF ChatReloaded
<1>5. CASE RechatAnswered(r)
  BY <1>5 DEF RechatAnswered
<1>6. CASE RechatFailed(r)
  BY <1>6 DEF RechatFailed
<1>7. CASE CoordinatorReturned(r)
  BY <1>7 DEF CoordinatorReturned
<1>8. CASE CoordinatorThrew(r)
  BY <1>8 DEF CoordinatorThrew
<1>9. CASE PlanGenerated(r)
  <2>1. pc' \in [Runs -> {"new", "done", "rejected"} \cup Awaits]
    BY <1>9 DEF PlanGenerated
  <2>2. stepsLeft' \in [Runs -> 0..MaxSteps]
    BY <1>9 DEF PlanGenerated
  <2>3. QED
    BY <1>9, <2>1, <2>2 DEF PlanGenerated
<1>10. CASE PlanEmpty(r)
  BY <1>10 DEF PlanEmpty
<1>11. CASE PlanFailed(r)
  <2>1. pc' \in [Runs -> {"new", "done", "rejected"} \cup Awaits]
    BY <1>11 DEF PlanFailed
  <2>2. stepsLeft' \in [Runs -> 0..MaxSteps]
    BY <1>11 DEF PlanFailed
  <2>3. QED
    BY <1>11, <2>1, <2>2 DEF PlanFailed
<1>12. CASE StepFinished(r)
  <2>1. pc' \in [Runs -> {"new", "done", "rejected"} \cup Awaits]
    BY <1>12 DEF StepFinished
  <2>2. stepsLeft' \in [Runs -> 0..MaxSteps]
    BY <1>12 DEF StepFinished
  <2>3. QED
    BY <1>12, <2>1, <2>2 DEF StepFinished
<1>13. CASE StepThrew(r)
  BY <1>13, StepThrewType
<1>14. CASE Synthesized(r)
  BY <1>14, SynthesizedType
<1>15. CASE EnvReloaded(r)
  BY <1>15 DEF EnvReloaded
<1>16. CASE RateBackoffOver(r)
  BY <1>16 DEF RateBackoffOver
<1>17. CASE NetBackoffOver(r)
  BY <1>17 DEF NetBackoffOver
<1>18. QED
  BY <1>1, <1>2, <1>3, <1>4, <1>5, <1>6, <1>7, <1>8, <1>9, <1>10, <1>11, <1>12, <1>13, <1>14, <1>15, <1>16, <1>17 DEF Resume

LEMMA GoalTypeStep ==
  ASSUME TypeOK, NEW r \in Runs, run(r) \/ Resume(r)
  PROVE  GoalType'
<1> USE OrchestratorAssumption DEF TypeOK, IndexOutcomes, locals, shared, GoalForms, GoalType
<1>1. CASE run(r)
  BY <1>1 DEF run, FirstAwait
<1>2. CASE ChatAnswered(r)
  BY <1>2 DEF ChatAnswered, HealDirect
<1>3. CASE ChatFailed(r)
  BY <1>3 DEF ChatFailed, HealDirect
<1>4. CASE ChatReloaded(r)
  BY <1>4 DEF ChatReloaded
<1>5. CASE RechatAnswered(r)
  BY <1>5 DEF RechatAnswered
<1>6. CASE RechatFailed(r)
  BY <1>6 DEF RechatFailed
<1>7. CASE CoordinatorReturned(r)
  BY <1>7 DEF CoordinatorReturned
<1>8. CASE CoordinatorThrew(r)
  BY <1>8 DEF CoordinatorThrew
<1>9. CASE PlanGenerated(r)
  BY <1>9 DEF PlanGenerated
<1>10. CASE PlanEmpty(r)
  BY <1>10 DEF PlanEmpty
<1>11. CASE PlanFailed(r)
  BY <1>11 DEF PlanFailed
<1>12. CASE StepFinished(r)
  BY <1>12 DEF StepFinished
<1>13. CASE StepThrew(r)
  BY <1>13, StepThrewType
<1>14. CASE Synthesized(r)
  BY <1>14, SynthesizedType
<1>15. CASE EnvReloaded(r)
  BY <1>15 DEF EnvReloaded
<1>16. CASE RateBackoffOver(r)
  BY <1>16 DEF RateBackoffOver
<1>17. CASE NetBackoffOver(r)
  BY <1>17, NetBackoffType DEF NetBackoffOver
<1>18. QED
  BY <1>1, <1>2, <1>3, <1>4, <1>5, <1>6, <1>7, <1>8, <1>9, <1>10, <1>11, <1>12, <1>13, <1>14, <1>15, <1>16, <1>17 DEF Resume

LEMMA EventTypeStep ==
  ASSUME TypeOK, NEW r \in Runs, run(r) \/ Resume(r)
  PROVE  EventType'
<1> USE OrchestratorAssumption DEF TypeOK, Emit, IndexOutcomes, events, Verdicts, EventType
<1>1. CASE run(r)
  BY <1>1 DEF run, FirstAwait
<1>2. CASE ChatAnswered(r)
  BY <1>2 DEF ChatAnswered, HealDirect
<1>3. CASE ChatFailed(r)
  BY <1>3 DEF ChatFailed, HealDirect
<1>4. CASE ChatReloaded(r)
  BY <1>4 DEF ChatReloaded
<1>5. CASE RechatAnswered(r)
  BY <1>5 DEF RechatAnswered
<1>6. CASE RechatFailed(r)
  BY <1>6 DEF RechatFailed
<1>7. CASE CoordinatorReturned(r)
  BY <1>7 DEF CoordinatorReturned
<1>8. CASE CoordinatorThrew(r)
  BY <1>8 DEF CoordinatorThrew
<1>9. CASE PlanGenerated(r)
  BY <1>9 DEF PlanGenerated
<1>10. CASE PlanEmpty(r)
  BY <1>10 DEF PlanEmpty
<1>11. CASE PlanFailed(r)
  BY <1>11 DEF PlanFailed
<1>12. CASE StepFinished(r)
  BY <1>12 DEF StepFinished
<1>13. CASE StepThrew(r)
  BY <1>13, StepThrewType
<1>14. CASE Synthesized(r)
  BY <1>14, SynthesizedType
<1>15. CASE EnvReloaded(r)
  BY <1>15 DEF EnvReloaded
<1>16. CASE RateBackoffOver(r)
  BY <1>16 DEF RateBackoffOver
<1>17. CASE NetBackoffOver(r)
  BY <1>17 DEF NetBackoffOver
<1>18. QED
  BY <1>1, <1>2, <1>3, <1>4, <1>5, <1>6, <1>7, <1>8, <1>9, <1>10, <1>11, <1>12, <1>13, <1>14, <1>15, <1>16, <1>17 DEF Resume

\* Every reachable state is of its type, for every value of the constants.
THEOREM TypeCorrect == Spec => []TypeOK
<1>1. TypeOK /\ [Next]_vars => TypeOK'
  <2>1. ASSUME TypeOK, NEW r \in Runs, run(r) \/ Resume(r) PROVE TypeOK'
    BY <2>1, SharedTypeStep, ControlTypeStep, GoalTypeStep, EventTypeStep DEF TypeOK
  <2>2. ASSUME TypeOK, UNCHANGED vars PROVE TypeOK'
    BY <2>2 DEF vars, shared, locals, events, TypeOK, SharedType, ControlType,
                GoalType, EventType
  <2>3. QED
    BY <2>1, <2>2 DEF Next
<1>2. QED
  BY InitType, <1>1, PTL DEF Spec

-----------------------------------------------------------------------------
(* Safety *)

\* A step moves its own call only; it leaves the call at an await, or lowers
\* the busy flag, or is a rejection by the long-term memory before the first await.
Goes(r, l) ==
  /\ pc[r] \in {"new"} \cup Awaits
  /\ Goto(r, l)
  /\ \/ l \in Awaits
     \/ l \in {"done", "rejected"} /\ busy' = FALSE
     \/ l = "rejected" /\ LtmReadFails

LEMMA RemedyGoes ==
  ASSUME NEW r, NEW m, NEW sigs, Remedy(r, m, sigs)
  PROVE  \E l \in Awaits : Goto(r, l)
BY DEF Remedy, Awaits

LEMMA CatchGoes ==
  ASSUME NEW r, NEW m, NEW sigs, NEW a, NEW f, CatchAgent(r, m, sigs, a, f),
         pc[r] \in Awaits
  PROVE  \E l \in Awaits \cup {"done", "rejected"} : Goes(r, l)
BY RemedyGoes DEF CatchAgent, Leave, Goes

LEMMA StepGoes ==
  ASSUME NEW r \in Runs, run(r) \/ Resume(r)
  PROVE  \E l \in Awaits \cup {"done", "rejected"} : Goes(r, l)
<1>1. CASE run(r)
  <2>1. \A m : FirstAwait(m) \in Awaits
    BY DEF FirstAwait, Awaits
  <2>2. QED
    BY <1>1, <2>1 DEF run, Goes
<1>2. CASE ChatAnswered(r)
  BY <1>2 DEF ChatAnswered, HealDirect, Leave, Goes, Awaits
<1>3. CASE ChatFailed(r)
  BY <1>3 DEF ChatFailed, HealDirect, Leave, Goes, Awaits
<1>4. CASE ChatReloaded(r)
  BY <1>4 DEF ChatReloaded, Leave, Goes, Awaits
<1>5. CASE RechatAnswered(r)
  BY <1>5 DEF RechatAnswered, Leave, Goes, Awaits
<1>6. CASE RechatFailed(r)
  BY <1>6 DEF RechatFailed, Leave, Goes, Awaits
<1>7. CASE CoordinatorReturned(r)
  BY <1>7 DEF CoordinatorReturned, Leave, Goes, Awaits
<1>8. CASE CoordinatorThrew(r)
  BY <1>8 DEF CoordinatorThrew, Leave, Goes, Awaits
<1>9. CASE PlanGenerated(r)
  BY <1>9 DEF PlanGenerated, Leave, Goes, Awaits
<1>10. CASE PlanEmpty(r)
  BY <1>10 DEF PlanEmpty, Leave, Goes, Awaits
<1>11. CASE PlanFailed(r)
  BY <1>11 DEF PlanFailed, Leave, Goes, Awaits
<1>12. CASE StepFinished(r)
  BY <1>12 DEF StepFinished, Leave, Goes, Awaits
<1>13. CASE StepThrew(r)
  BY <1>13, CatchGoes DEF StepThrew, Leave, Goes, Awaits
<1>14. CASE Synthesized(r)
  BY <1>14, CatchGoes DEF Synthesized, Leave, Goes, Awaits
<1>15. CASE EnvReloaded(r)
  BY <1>15 DEF EnvReloaded, Leave, Goes, Awaits
<1>16. CASE RateBackoffOver(r)
  BY <1>16 DEF RateBackoffOver, Leave, Goes, Awaits
<1>17. CASE NetBackoffOver(r)
  BY <1>17 DEF NetBackoffOver, Leave, Goes, Awaits
<1>18. QED
  BY <1>1, <1>2, <1>3, <1>4, <1>5, <1>6, <1>7, <1>8, <1>9, <1>10, <1>11, <1>12, <1>13, <1>14, <1>15, <1>16, <1>17 DEF Resume

\* With a long-term memory whose reads do not throw, the busy flag is never left
\* raised: every way out of run() lowers it.
THEOREM BusyIsLowered ==
  ASSUME ~LtmReadFails
  PROVE  Spec => []BusyOnlyInFlight
<1>1. Init => BusyOnlyInFlight
  BY DEF Init, BusyOnlyInFlight
<1>2. TypeOK /\ BusyOnlyInFlight /\ [Next]_vars => BusyOnlyInFlight'
  <2>1. ASSUME TypeOK, BusyOnlyInFlight, NEW r \in Runs, run(r) \/ Resume(r)
        PROVE  BusyOnlyInFlight'
    <3>1. PICK l : Goes(r, l)
      BY <2>1, StepGoes
    <3>2. CASE l \in Awaits
      <4>1. pc'[r] = l
        BY <2>1, <3>1 DEF Goes, Goto, TypeOK, ControlType
      <4>2. QED
        BY <3>2, <4>1 DEF BusyOnlyInFlight, InFlight
    <3>3. CASE busy' = FALSE
      BY <3>3 DEF BusyOnlyInFlight
    <3>4. QED
      BY <3>1, <3>2, <3>3 DEF Goes
  <2>2. ASSUME BusyOnlyInFlight, UNCHANGED vars PROVE BusyOnlyInFlight'
    BY <2>2 DEF BusyOnlyInFlight, InFlight, vars, shared
  <2>3. QED
    BY <2>1, <2>2 DEF Next
<1>3. QED
  BY <1>1, <1>2, TypeCorrect, PTL DEF Spec

-----------------------------------------------------------------------------
(* API keys *)

\* What a step may do to the keys.
LEMMA StepHeals ==
  ASSUME NEW r \in Runs, run(r) \/ Resume(r)
  PROVE  env' \in {env, reloadEnv(rotateApiKey(env), EnvFile), reloadEnv(env, EnvFile)}
<1>1. CASE run(r)
  BY <1>1 DEF run, shared
<1>2. CASE ChatAnswered(r)
  BY <1>2 DEF ChatAnswered, HealDirect, shared
<1>3. CASE ChatFailed(r)
  BY <1>3 DEF ChatFailed, HealDirect, shared
<1>4. CASE ChatReloaded(r)
  BY <1>4 DEF ChatReloaded, shared
<1>5. CASE RechatAnswered(r)
  BY <1>5 DEF RechatAnswered, shared
<1>6. CASE RechatFailed(r)
  BY <1>6 DEF RechatFailed, shared
<1>7. CASE CoordinatorReturned(r)
  BY <1>7 DEF CoordinatorReturned, shared
<1>8. CASE CoordinatorThrew(r)
  BY <1>8 DEF CoordinatorThrew, shared
<1>9. CASE PlanGenerated(r)
  BY <1>9 DEF PlanGenerated, shared
<1>10. CASE PlanEmpty(r)
  BY <1>10 DEF PlanEmpty, shared
<1>11. CASE PlanFailed(r)
  BY <1>11 DEF PlanFailed, shared
<1>12. CASE StepFinished(r)
  BY <1>12 DEF StepFinished, shared
<1>13. CASE StepThrew(r)
  BY <1>13 DEF StepThrew, CatchAgent, Remedy, shared
<1>14. CASE Synthesized(r)
  BY <1>14 DEF Synthesized, CatchAgent, Remedy, shared
<1>15. CASE EnvReloaded(r)
  BY <1>15 DEF EnvReloaded, shared
<1>16. CASE RateBackoffOver(r)
  BY <1>16 DEF RateBackoffOver, shared
<1>17. CASE NetBackoffOver(r)
  BY <1>17 DEF NetBackoffOver, shared
<1>18. QED
  BY <1>1, <1>2, <1>3, <1>4, <1>5, <1>6, <1>7, <1>8, <1>9, <1>10, <1>11, <1>12, <1>13, <1>14, <1>15, <1>16, <1>17 DEF Resume

\* Healing never trades a usable key for an unusable one, whatever reloads and
\* rotations of concurrent calls are interleaved.
THEOREM KeyStaysUsable == Spec => []ActiveKeyUsable
<1> DEFINE Kept == KeptOrHealed(BootEnv, env)
<1>1. Init => Kept
  BY DEF Init, KeptOrHealed
<1>2. TypeOK /\ Kept /\ [Next]_vars => Kept'
  <2> SUFFICES ASSUME TypeOK, Kept, [Next]_vars PROVE Kept'
    OBVIOUS
  <2>1. env' \in {env, reloadEnv(rotateApiKey(env), EnvFile), reloadEnv(env, EnvFile)}
    BY StepHeals DEF Next, vars, shared
  <2>2. env \in Environments
    BY DEF TypeOK, SharedType
  <2>3. KeptOrHealed(BootEnv, rotateApiKey(env))
    BY <2>2, RotateKeeps
  <2>4. /\ KeptOrHealed(BootEnv, reloadEnv(rotateApiKey(env), EnvFile))
        /\ KeptOrHealed(BootEnv, reloadEnv(env, EnvFile))
    BY <2>3, ReloadKeeps DEF BootEnv
  <2>5. QED
    BY <2>1, <2>4 DEF BootEnv
<1>3. Kept => ActiveKeyUsable
  BY KeptUsable DEF ActiveKeyUsable
<1>4. QED
  BY <1>1, <1>2, <1>3, TypeCorrect, PTL DEF Spec

\* No call ever waits on an environment that disagrees with .env: a rotation is
\* at once followed by the request that loads the file.
THEOREM KeysSettled == Spec => []EnvSettled
<1>1. Init => EnvSettled
  BY ReloadTwice DEF Init, EnvSettled, BootEnv
<1>2. EnvSettled /\ [Next]_vars => EnvSettled'
  <2> SUFFICES ASSUME EnvSettled, [Next]_vars PROVE EnvSettled'
    OBVIOUS
  <2>1. env' \in {env, reloadEnv(rotateApiKey(env), EnvFile), reloadEnv(env, EnvFile)}
    BY StepHeals DEF Next, vars, shared
  <2>2. QED
    BY <2>1, ReloadTwice DEF EnvSettled
<1>3. QED
  BY <1>1, <1>2, PTL DEF Spec

-----------------------------------------------------------------------------
(* Announcements *)

\* What a step of r announces, and where it leaves the call.
Announces(r, l, a, f, v) ==
  /\ pc[r] \in {"new"} \cup Awaits
  /\ Goto(r, l)
  /\ Emit(r, a, f, v)

\* A step that emits nothing.
LEMMA SilentEmit ==
  ASSUME TypeOK, NEW r \in Runs, UNCHANGED events
  PROVE  Emit(r, 0, 0, verdict[r])
BY DEF Emit, events, TypeOK, EventType

\* With a reliable memory a step either announces nothing and leaves the call at
\* an await, or announces the one verdict of a call that returns.
LEMMA ReliableStep ==
  ASSUME TypeOK, ~LtmReadFails, ~LtmWriteFails, NEW r \in Runs, run(r) \/ Resume(r)
  PROVE  \/ \E l \in Awaits : Announces(r, l, 0, 0, verdict[r])
         \/ \E a \in {0, 1}, v \in Verdicts :
              /\ Announces(r, "done", a, 1, v)
              /\ v = "completed" => a = 1
              /\ pc[r] \in Awaits
<1> DEFINE Quiet == \E l \in Awaits : Announces(r, l, 0, 0, verdict[r])
           Settles == \E a \in {0, 1}, v \in Verdicts :
                        /\ Announces(r, "done", a, 1, v)
                        /\ v = "completed" => a = 1
                        /\ pc[r] \in Awaits
<1>0. IndexOutcomes = {"ok"}
  BY DEF IndexOutcomes
<1>1. CASE run(r)
  <2>1. \A m : FirstAwait(m) \in Awaits
    BY DEF FirstAwait, Awaits
  <2>2. Emit(r, 0, 0, verdict[r])
    BY <1>1, SilentEmit DEF run
  <2>3. Quiet
    BY <1>1, <2>1, <2>2 DEF run, Announces
  <2>4. QED
    BY <2>3
<1>2. CASE ChatAnswered(r)
  BY <1>2, <1>0 DEF ChatAnswered, HealDirect, Leave, Announces, Verdicts, Awaits
<1>3. CASE ChatFailed(r)
  <2>1. Emit(r, 0, 0, verdict[r])
    BY <1>3, SilentEmit DEF ChatFailed
  <2>2. Quiet
    BY <1>3, <2>1 DEF ChatFailed, HealDirect, Announces, Awaits
  <2>3. QED
    BY <2>2
<1>4. CASE ChatReloaded(r)
  <2>1. Emit(r, 0, 0, verdict[r])
    BY <1>4, SilentEmit DEF ChatReloaded
  <2>2. Quiet
    BY <1>4, <2>1 DEF ChatReloaded, Announces, Awaits
  <2>3. QED
    BY <2>2
<1>5. CASE RechatAnswered(r)
  BY <1>5, <1>0 DEF RechatAnswered, Leave, Announces, Verdicts, Awaits
<1>6. CASE RechatFailed(r)
  BY <1>6, <1>0 DEF RechatFailed, Leave, Announces, Verdicts, Awaits
<1>7. CASE CoordinatorReturned(r)
  BY <1>7, <1>0 DEF CoordinatorReturned, Leave, Announces, Verdicts, Awaits
<1>8. CASE CoordinatorThrew(r)
  BY <1>8, <1>0 DEF CoordinatorThrew, Leave, Announces, Verdicts, Awaits
<1>9. CASE PlanGenerated(r)
  <2>1. Emit(r, 0, 0, verdict[r])
    BY <1>9, SilentEmit DEF PlanGenerated
  <2>2. Quiet
    BY <1>9, <2>1 DEF PlanGenerated, Announces, Awaits
  <2>3. QED
    BY <2>2
<1>10. CASE PlanEmpty(r)
  BY <1>10, <1>0 DEF PlanEmpty, Leave, Announces, Verdicts, Awaits
<1>11. CASE PlanFailed(r)
  <2>1. Emit(r, 0, 0, verdict[r])
    BY <1>11, SilentEmit DEF PlanFailed
  <2>2. Quiet
    BY <1>11, <2>1 DEF PlanFailed, Announces, Awaits
  <2>3. QED
    BY <2>2
<1>12. CASE StepFinished(r)
  <2>1. Emit(r, 0, 0, verdict[r])
    BY <1>12, SilentEmit DEF StepFinished
  <2>2. Quiet
    BY <1>12, <2>1 DEF StepFinished, Announces, Awaits
  <2>3. QED
    BY <2>2
<1>13. CASE StepThrew(r)
  <2>1. PICK m \in StepErrors : CatchAgent(r, m, errorSignatures, 0, 0)
    BY <1>13 DEF StepThrew
  <2>2. CASE Emit(r, 0, 0 + 1, "failed") /\ Leave(r, "done")
    BY <1>13, <2>2 DEF StepThrew, Leave, Announces, Verdicts, Awaits
  <2>3. CASE Emit(r, 0, 0, verdict[r]) /\ Remedy(r, m, errorSignatures)
    BY <1>13, <2>3, RemedyGoes DEF StepThrew, Announces, Awaits
  <2>4. QED
    BY <2>1, <2>2, <2>3 DEF CatchAgent
<1>14. CASE Synthesized(r)
  BY <1>14, <1>0 DEF Synthesized, Leave, Announces, Verdicts, Awaits
<1>15. CASE EnvReloaded(r)
  <2>1. Emit(r, 0, 0, verdict[r])
    BY <1>15, SilentEmit DEF EnvReloaded
  <2>2. Quiet
    BY <1>15, <2>1 DEF EnvReloaded, Announces, Awaits
  <2>3. QED
    BY <2>2
<1>16. CASE RateBackoffOver(r)
  <2>1. Emit(r, 0, 0, verdict[r])
    BY <1>16, SilentEmit DEF RateBackoffOver
  <2>2. Quiet
    BY <1>16, <2>1 DEF RateBackoffOver, Announces, Awaits
  <2>3. QED
    BY <2>2
<1>17. CASE NetBackoffOver(r)
  <2>1. Emit(r, 0, 0, verdict[r])
    BY <1>17, SilentEmit DEF NetBackoffOver
  <2>2. Quiet
    BY <1>17, <2>1 DEF NetBackoffOver, Announces, Awaits
  <2>3. QED
    BY <2>2
<1>18. QED
  BY <1>1, <1>2, <1>3, <1>4, <1>5, <1>6, <1>7, <1>8, <1>9, <1>10, <1>11, <1>12, <1>13, <1>14, <1>15, <1>16, <1>17 DEF Resume

\* With a reliable memory a goal is announced exactly once: nothing while its
\* call is in flight, one verdict when it returned, an answer if it completed.
THEOREM GoalSettledOnce ==
  ASSUME ~LtmReadFails, ~LtmWriteFails
  PROVE  Spec => []SettledOnce
<1>1. Init => SettledOnce
  BY DEF Init, SettledOnce, Returned
<1>2. TypeOK /\ SettledOnce /\ [Next]_vars => SettledOnce'
  <2>1. ASSUME TypeOK, SettledOnce, NEW r \in Runs, run(r) \/ Resume(r)
        PROVE  SettledOnce'
    <3> DEFINE Settled(q) ==
          /\ ~Returned(q) => answers[q] = 0 /\ finishes[q] = 0 /\ verdict[q] = "none"
          /\ Returned(q) => /\ pc[q] = "done"
                            /\ finishes[q] = 1
                            /\ answers[q] <= 1
                            /\ verdict[q] = "completed" => answers[q] = 1
    <3>1. \A q \in Runs : Settled(q)
      BY <2>1 DEF SettledOnce
    <3>2. PICK l, a, f, v : Announces(r, l, a, f, v)
      BY <2>1, ReliableStep
    <3>3. ~Returned(r)
      BY <3>2 DEF Announces, Returned, Awaits
    <3>4. \A q \in Runs \ {r} : Settled(q)'
      BY <2>1, <3>1, <3>2 DEF Announces, Goto, Emit, Returned, TypeOK, ControlType, EventType
    <3>5. Settled(r)'
      <4>1. CASE \E k \in Awaits : Announces(r, k, 0, 0, verdict[r])
        BY <2>1, <3>1, <3>3, <4>1
           DEF Announces, Goto, Emit, Returned, TypeOK, ControlType, EventType, Awaits
      <4>2. CASE \E b \in {0, 1}, w \in Verdicts :
                   Announces(r, "done", b, 1, w) /\ (w = "completed" => b = 1)
        BY <2>1, <3>1, <3>3, <4>2
           DEF Announces, Goto, Emit, Returned, TypeOK, ControlType, EventType
      <4>3. QED
        BY <2>1, <4>1, <4>2, ReliableStep
    <3>6. QED
      BY <3>4, <3>5 DEF SettledOnce
  <2>2. ASSUME SettledOnce, UNCHANGED vars PROVE SettledOnce'
    BY <2>2 DEF SettledOnce, Returned, vars, events
  <2>3. QED
    BY <2>1, <2>2 DEF Next
<1>3. QED
  BY <1>1, <1>2, TypeCorrect, PTL DEF Spec

\* With a reliable memory the orchestrator implements the safety part of
\* GoalLifecycle: every step of it accepts a goal, settles one, or is invisible.
THEOREM OrchestratorImplementsLifecycle ==
  ASSUME ~LtmReadFails, ~LtmWriteFails
  PROVE  Spec => Lifecycle!SafeSpec
<1> DEFINE bar == [r \in Runs |-> StateOf(r)]
<1>1. Init => Lifecycle!Init
  BY DEF Init, Lifecycle!Init, StateOf
<1>2. TypeOK /\ SettledOnce /\ [Next]_vars => [Lifecycle!Next]_bar
  <2>1. ASSUME TypeOK, SettledOnce, NEW r \in Runs, run(r) \/ Resume(r)
        PROVE  [Lifecycle!Next]_bar
    <3>1. PICK l, a, f, v : Announces(r, l, a, f, v)
      BY <2>1, ReliableStep
    <3>2. ~Returned(r) /\ verdict[r] = "none"
      BY <2>1, <3>1 DEF Announces, Returned, Awaits, SettledOnce
    <3>3. \A q \in Runs \ {r} : StateOf(q)' = StateOf(q)
      BY <2>1, <3>1 DEF Announces, Goto, Emit, StateOf, TypeOK, ControlType, EventType
    <3>4. bar[r] = IF pc[r] = "new" THEN "new" ELSE "pending"
      BY <3>2 DEF StateOf
    <3>5. CASE \E k \in Awaits : Announces(r, k, 0, 0, verdict[r])
      <4>1. StateOf(r)' = "pending"
        BY <2>1, <3>2, <3>5
           DEF Announces, Goto, Emit, StateOf, TypeOK, ControlType, EventType, Awaits
      <4>2. bar' = [bar EXCEPT ![r] = "pending"]
        BY <3>3, <4>1
      <4>3. CASE pc[r] = "new"
        <5>1. Lifecycle!Accept(r)
          BY <3>4, <4>2, <4>3 DEF Lifecycle!Accept
        <5>2. QED
          BY <5>1 DEF Lifecycle!Next
      <4>4. CASE pc[r] # "new"
        BY <3>4, <4>2, <4>4
      <4>5. QED
        BY <4>3, <4>4
    <3>6. CASE \E b \in {0, 1}, w \in Verdicts :
                 Announces(r, "done", b, 1, w) /\ pc[r] \in Awaits
      <4>1. PICK w \in Verdicts : \E b \in {0, 1} : Announces(r, "done", b, 1, w)
        BY <3>6
      <4>2. StateOf(r)' = w
        BY <2>1, <4>1
           DEF Announces, Goto, Emit, StateOf, TypeOK, ControlType, EventType, Verdicts
      <4>3. bar' = [bar EXCEPT ![r] = w]
        BY <3>3, <4>2
      <4>4. bar[r] = "pending"
        BY <3>4, <3>6 DEF Awaits
      <4>5. Lifecycle!Settle(r)
        BY <4>3, <4>4 DEF Lifecycle!Settle
      <4>6. QED
        BY <4>5 DEF Lifecycle!Next
    <3>7. QED
      BY <2>1, <3>5, <3>6, ReliableStep
  <2>2. ASSUME UNCHANGED vars PROVE bar' = bar
    BY <2>2 DEF StateOf, vars, events
  <2>3. QED
    BY <2>1, <2>2 DEF Next
<1>3. QED
  BY <1>1, <1>2, TypeCorrect, GoalSettledOnce, PTL DEF Spec, Lifecycle!SafeSpec

-----------------------------------------------------------------------------
(* Announcements, however the long-term memory fails *)

\* The catch block of the revision loop announces a failure only on its way out.
LEMMA CatchAnnounces ==
  ASSUME NEW r, NEW m, NEW sigs, NEW a, NEW f, CatchAgent(r, m, sigs, a, f),
         pc[r] \in Awaits
  PROVE  \E l, g, v : /\ Announces(r, l, a, g, v)
                      /\ v \in {"failed", "empty"} => l = "done" \/ v = verdict[r]
<1>1. CASE Emit(r, a, f + 1, "failed") /\ Leave(r, "done")
  BY <1>1 DEF Announces, Leave
<1>2. CASE Emit(r, a, f, IF f = 0 THEN verdict[r] ELSE "completed") /\ Remedy(r, m, sigs)
  BY <1>2, RemedyGoes DEF Announces
<1>3. QED
  BY <1>1, <1>2 DEF CatchAgent

\* A verdict of failure, or of an empty plan, is the last thing a call does.
LEMMA StepAnnounces ==
  ASSUME TypeOK, NEW r \in Runs, run(r) \/ Resume(r)
  PROVE  \E l, a, f, v :
           /\ Announces(r, l, a, f, v)
           /\ v \in {"failed", "empty"} => l \in {"done", "rejected"} \/ v = verdict[r]
<1> USE DEF Announces, Awaits, Leave
<1>1. CASE run(r)
  BY <1>1, SilentEmit DEF run
<1>2. CASE ChatAnswered(r)
  BY <1>2 DEF ChatAnswered, HealDirect
<1>3. CASE ChatFailed(r)
  BY <1>3, SilentEmit DEF ChatFailed, HealDirect
<1>4. CASE ChatReloaded(r)
  BY <1>4, SilentEmit DEF ChatReloaded
<1>5. CASE RechatAnswered(r)
  BY <1>5 DEF RechatAnswered
<1>6. CASE RechatFailed(r)
  BY <1>6 DEF RechatFailed
<1>7. CASE CoordinatorReturned(r)
  BY <1>7 DEF CoordinatorReturned
<1>8. CASE CoordinatorThrew(r)
  BY <1>8 DEF CoordinatorThrew
<1>9. CASE PlanGenerated(r)
  BY <1>9, SilentEmit DEF PlanGenerated
<1>10. CASE PlanEmpty(r)
  BY <1>10 DEF PlanEmpty
<1>11. CASE PlanFailed(r)
  BY <1>11, SilentEmit DEF PlanFailed
<1>12. CASE StepFinished(r)
  BY <1>12, SilentEmit DEF StepFinished
<1>13. CASE StepThrew(r)
  BY <1>13, CatchAnnounces DEF StepThrew
<1>14. CASE Synthesized(r)
  BY <1>14, CatchAnnounces DEF Synthesized
<1>15. CASE EnvReloaded(r)
  BY <1>15, SilentEmit DEF EnvReloaded
<1>16. CASE RateBackoffOver(r)
  BY <1>16, SilentEmit DEF RateBackoffOver
<1>17. CASE NetBackoffOver(r)
  BY <1>17, SilentEmit DEF NetBackoffOver
<1>18. QED
  BY <1>1, <1>2, <1>3, <1>4, <1>5, <1>6, <1>7, <1>8, <1>9, <1>10, <1>11, <1>12, <1>13, <1>14, <1>15, <1>16, <1>17 DEF Resume

\* What FailureIsFinal rests on: a call that announced a failure has returned.
FailureReturned == \A r \in Runs : verdict[r] \in {"failed", "empty"} => Returned(r)

LEMMA FailureReturnedStep ==
  ASSUME TypeOK, FailureReturned, NEW r \in Runs, run(r) \/ Resume(r)
  PROVE  /\ FailureReturned'
         /\ NothingAfterFailure
<1>1. PICK l, a, f, v :
        /\ Announces(r, l, a, f, v)
        /\ v \in {"failed", "empty"} => l \in {"done", "rejected"} \/ v = verdict[r]
  BY StepAnnounces
<1>2. ~Returned(r)
  BY <1>1 DEF Announces, Returned, Awaits
<1>3. verdict[r] \notin {"failed", "empty"}
  BY <1>2 DEF FailureReturned
<1>4. /\ pc'[r] = l /\ verdict'[r] = v
      /\ \A q \in Runs \ {r} : /\ pc'[q] = pc[q]
                               /\ answers'[q] = answers[q]
                               /\ finishes'[q] = finishes[q]
                               /\ verdict'[q] = verdict[q]
  BY <1>1 DEF Announces, Goto, Emit, TypeOK, ControlType, EventType
<1>5. QED
  BY <1>1, <1>3, <1>4 DEF FailureReturned, Returned, NothingAfterFailure

\* Even when the long-term memory throws, a goal that was announced as failed or
\* empty is over: no event of it follows and its call does not go on.
THEOREM FailuresAreFinal == Spec => FailureIsFinal
<1>1. Init => FailureReturned
  BY DEF Init, FailureReturned
<1>2. TypeOK /\ FailureReturned /\ [Next]_vars => FailureReturned'
  <2>1. UNCHANGED vars /\ FailureReturned => FailureReturned'
    BY DEF vars, events, FailureReturned, Returned
  <2>2. QED
    BY <2>1, FailureReturnedStep DEF Next
<1>3. TypeOK /\ FailureReturned /\ [Next]_vars => [NothingAfterFailure]_vars
  BY FailureReturnedStep DEF Next
<1>4. QED
  BY <1>1, <1>2, <1>3, TypeCorrect, PTL DEF Spec, FailureIsFinal

-----------------------------------------------------------------------------
(* The budget of announcements *)

\* How far a call can be ahead at each await: in agent mode one announcement per
\* revision, on the fast path one per attempt.
Budget(r) ==
  /\ pc[r] \in {"new", "chat", "coordinate"} => answers[r] = 0 /\ finishes[r] = 0
  /\ pc[r] = "new" => revision[r] = 0
  /\ pc[r] \in {"chatReload", "rechat"} => answers[r] <= 1 /\ finishes[r] <= 1
  /\ pc[r] \in {"plan", "step", "synthesize", "reload", "rateBackoff", "netBackoff"} =>
       /\ answers[r] <= revision[r]
       /\ finishes[r] <= revision[r]
       /\ revision[r] <= MaxRevisions
  /\ Returned(r) =>
       \/ finishes[r] <= MaxRevisions + 2 /\ answers[r] <= MaxRevisions + 1
       \/ finishes[r] <= 3 /\ answers[r] <= 3

BudgetInv == \A r \in Runs : Budget(r)

\* A step of r leaves the other calls alone.
LEMMA OthersBudget ==
  ASSUME TypeOK, NEW r \in Runs, run(r) \/ Resume(r), NEW q \in Runs \ {r}, Budget(q)
  PROVE  Budget(q)'
<1>1. PICK l, a, f, v : Announces(r, l, a, f, v)
  BY StepAnnounces
<1>2. revision'[q] = revision[q]
  BY DEF run, Resume, ChatAnswered, ChatFailed, ChatReloaded, RechatAnswered, RechatFailed, CoordinatorReturned,
         CoordinatorThrew, PlanGenerated, PlanEmpty, PlanFailed, StepFinished, StepThrew,
         Synthesized, EnvReloaded, RateBackoffOver, NetBackoffOver, CatchAgent, locals, TypeOK, ControlType
<1>3. QED
  BY <1>1, <1>2 DEF Announces, Goto, Emit, Budget, Returned, TypeOK, ControlType, EventType

\* What a call may have announced when it reaches an await of agent mode.
LEMMA CatchBudget ==
  ASSUME TypeOK, NEW r \in Runs, Budget(r), NEW m, NEW sigs, NEW b \in {0, 1},
         CatchAgent(r, m, sigs, b, b), pc[r] \in {"step", "synthesize"}
  PROVE  Budget(r)'
<1> USE OrchestratorAssumption DEF Budget, Returned
<1>1. /\ revision' = [revision EXCEPT ![r] = revision[r] + 1]
      /\ revision'[r] = revision[r] + 1
      /\ revision[r] \in Nat /\ answers[r] \in Nat /\ finishes[r] \in Nat
      /\ answers[r] <= revision[r] /\ finishes[r] <= revision[r]
      /\ revision[r] <= MaxRevisions
  BY DEF CatchAgent, TypeOK, ControlType, EventType
<1>2. CASE Emit(r, b, b + 1, "failed") /\ Leave(r, "done")
  <2>1. pc'[r] = "done" /\ answers'[r] = answers[r] + b /\ finishes'[r] = finishes[r] + b + 1
    BY <1>2 DEF Emit, Leave, Goto, TypeOK, ControlType, EventType
  <2>2. QED
    BY <1>1, <2>1
<1>3. CASE /\ Emit(r, b, b, IF b = 0 THEN verdict[r] ELSE "completed")
           /\ revision[r] < MaxRevisions /\ Remedy(r, m, sigs)
  <2>1. PICK l \in {"reload", "rateBackoff", "netBackoff", "plan"} : Goto(r, l)
    BY <1>3 DEF Remedy
  <2>2. pc'[r] = l /\ answers'[r] = answers[r] + b /\ finishes'[r] = finishes[r] + b
    BY <1>3, <2>1 DEF Emit, Goto, TypeOK, ControlType, EventType
  <2>3. QED
    BY <1>1, <1>3, <2>1, <2>2
<1>4. QED
  BY <1>2, <1>3 DEF CatchAgent

\* A step keeps its own call within its budget.
LEMMA OwnBudget ==
  ASSUME TypeOK, NEW r \in Runs, run(r) \/ Resume(r), Budget(r)
  PROVE  Budget(r)'
<1>0. /\ pc \in [Runs -> {"new", "done", "rejected"} \cup Awaits]
      /\ revision \in [Runs -> Nat]
      /\ answers \in [Runs -> Nat]
      /\ finishes \in [Runs -> Nat]
  BY DEF TypeOK, ControlType, EventType
<1> USE OrchestratorAssumption DEF Budget, Returned, Goto, Emit, Leave
<1>1. CASE run(r)
  BY <1>0, <1>1 DEF run, FirstAwait, locals, events
<1>2. CASE ChatAnswered(r)
  BY <1>0, <1>2 DEF ChatAnswered, locals, events, HealDirect
<1>3. CASE ChatFailed(r)
  BY <1>0, <1>3 DEF ChatFailed, locals, events, HealDirect
<1>4. CASE ChatReloaded(r)
  BY <1>0, <1>4 DEF ChatReloaded, locals, events, HealDirect
<1>5. CASE RechatAnswered(r)
  BY <1>0, <1>5 DEF RechatAnswered, locals, events
<1>6. CASE RechatFailed(r)
  BY <1>0, <1>6 DEF RechatFailed, locals, events
<1>7. CASE CoordinatorReturned(r)
  BY <1>0, <1>7 DEF CoordinatorReturned, locals, events
<1>8. CASE CoordinatorThrew(r)
  BY <1>0, <1>8 DEF CoordinatorThrew, locals, events
<1>9. CASE PlanGenerated(r)
  BY <1>0, <1>9 DEF PlanGenerated, locals, events
<1>10. CASE PlanEmpty(r)
  BY <1>0, <1>10 DEF PlanEmpty, locals, events
<1>11. CASE PlanFailed(r)
  BY <1>0, <1>11 DEF PlanFailed, locals, events
<1>12. CASE StepFinished(r)
  BY <1>0, <1>12 DEF StepFinished, locals, events
<1>13. CASE StepThrew(r)
  BY <1>0, <1>13, CatchBudget DEF StepThrew
<1>14. CASE Synthesized(r)
  BY <1>0, <1>14, CatchBudget DEF Synthesized
<1>15. CASE EnvReloaded(r)
  BY <1>0, <1>15 DEF EnvReloaded, locals, events
<1>16. CASE RateBackoffOver(r)
  BY <1>0, <1>16 DEF RateBackoffOver, locals, events
<1>17. CASE NetBackoffOver(r)
  BY <1>0, <1>17 DEF NetBackoffOver, locals, events
<1>18. QED
  BY <1>1, <1>2, <1>3, <1>4, <1>5, <1>6, <1>7, <1>8, <1>9, <1>10, <1>11, <1>12, <1>13, <1>14, <1>15, <1>16, <1>17 DEF Resume

\* However the long-term memory fails, the verdicts and answers that consumers
\* see of a goal are bounded by the number of attempts.
THEOREM BudgetKept == Spec => []VerdictBudget
<1>1. Init => BudgetInv
  BY DEF Init, BudgetInv, Budget, Returned
<1>2. TypeOK /\ BudgetInv /\ [Next]_vars => BudgetInv'
  <2>1. ASSUME TypeOK, BudgetInv, NEW r \in Runs, run(r) \/ Resume(r)
        PROVE  BudgetInv'
    BY <2>1, OwnBudget, OthersBudget DEF BudgetInv
  <2>2. ASSUME BudgetInv, UNCHANGED vars PROVE BudgetInv'
    BY <2>2 DEF BudgetInv, Budget, Returned, vars, locals, events
  <2>3. QED
    BY <2>1, <2>2 DEF Next
<1>3. TypeOK /\ BudgetInv => VerdictBudget
  <2>1. ASSUME TypeOK, NEW r \in Runs, Budget(r)
        PROVE  \/ finishes[r] <= MaxRevisions + 2 /\ answers[r] <= MaxRevisions + 1
               \/ finishes[r] <= 3 /\ answers[r] <= 3
    BY <2>1, OrchestratorAssumption
       DEF Budget, Returned, Awaits, TypeOK, ControlType, EventType
  <2>2. QED
    BY <2>1 DEF BudgetInv, VerdictBudget
<1>4. QED
  BY <1>1, <1>2, <1>3, TypeCorrect, PTL DEF Spec

-----------------------------------------------------------------------------
(* The repair of recurring errors *)

\* What a step does to the counters of the errors: nothing, or it clears them
\* with the end of its call, or it records an error.
LEMMA StepRecords ==
  ASSUME ~LtmWriteFails, NEW r \in Runs, run(r) \/ Resume(r)
  PROVE  \/ UNCHANGED <<recorded, errorSignatures>>
         \/ errorSignatures' = NoSignatures /\ UNCHANGED recorded /\ Goto(r, "done")
         \/ \E m : RecordSignature(r, m, errorSignatures) /\ InFlight(r)
<1>0. IndexOutcomes = {"ok"}
  BY DEF IndexOutcomes
<1>1. CASE StepThrew(r)
  <2>1. PICK m : CatchAgent(r, m, errorSignatures, 0, 0) /\ InFlight(r)
    BY <1>1 DEF StepThrew, InFlight, Awaits
  <2>2. NoRecord(errorSignatures) \/ RecordSignature(r, m, errorSignatures)
    BY <2>1 DEF CatchAgent, Remedy
  <2>3. QED
    BY <2>1, <2>2 DEF NoRecord
<1>2. CASE Synthesized(r)
  BY <1>0, <1>2 DEF Synthesized, Leave
<1>3. CASE NetBackoffOver(r)
  BY <1>3 DEF NetBackoffOver, InFlight, Awaits
<1>4. CASE ~StepThrew(r) /\ ~Synthesized(r) /\ ~NetBackoffOver(r)
  BY <1>4 DEF run, Resume, ChatAnswered, ChatFailed, ChatReloaded, RechatAnswered, RechatFailed,
              CoordinatorReturned, CoordinatorThrew, PlanGenerated, PlanEmpty, PlanFailed, StepFinished,
              EnvReloaded, RateBackoffOver, shared
<1>5. QED
  BY <1>1, <1>2, <1>3, <1>4

\* One goal at a time: what a call has recorded is still counted, because nobody
\* but itself can clear the counters before it has returned.
Counted ==
  /\ \A r, q \in Runs : InFlight(r) /\ InFlight(q) => r = q
  /\ \A r \in Runs, m \in Messages :
       /\ pc[r] = "new" => recorded[r][m] = 0
       /\ InFlight(r) => recorded[r][m] <= errorSignatures[m]

LEMMA CountedStep ==
  ASSUME ~LtmWriteFails, TypeOK, Counted, NEW r \in Runs,
         \/ run(r) /\ \A q \in Runs : ~InFlight(q)
         \/ Resume(r)
  PROVE  Counted' /\ RecurrenceRepaired
<1>1. PICK l \in Awaits \cup {"done", "rejected"} : Goes(r, l)
  BY StepGoes
<1>2. /\ pc[r] \in {"new"} \cup Awaits /\ pc'[r] = l /\ \A q \in Runs : q # r => pc'[q] = pc[q]
      /\ recorded \in [Runs -> [Messages -> Nat]] /\ errorSignatures \in [Messages -> Nat]
      /\ currentGoal \in [Runs -> GoalForms]
  BY <1>1 DEF Goes, Goto, TypeOK, ControlType, GoalType, SharedType
<1>3. \A q \in Runs : q # r => ~InFlight(q) /\ ~InFlight(q)'
  <2>1. CASE \A q \in Runs : ~InFlight(q)
    BY <1>2, <2>1 DEF InFlight
  <2>2. CASE Resume(r)
    <3>1. InFlight(r)
      BY <2>2
         DEF Resume, ChatAnswered, ChatFailed, ChatReloaded, RechatAnswered, RechatFailed, CoordinatorReturned,
             CoordinatorThrew, PlanGenerated, PlanEmpty, PlanFailed, StepFinished, StepThrew,
             Synthesized, EnvReloaded, RateBackoffOver, NetBackoffOver, InFlight, Awaits
    <3>2. QED
      BY <1>2, <3>1 DEF Counted, InFlight
  <2>3. QED
    BY <2>1, <2>2
<1>4. \A m \in Messages : recorded[r][m] <= errorSignatures[m]
  BY <1>2 DEF Counted, InFlight
<1>5. pc'[r] # "new"
  BY <1>1, <1>2 DEF Awaits
<1>6. CASE UNCHANGED <<recorded, errorSignatures>>
  <2>1. Counted'
    BY <1>2, <1>3, <1>4, <1>5, <1>6 DEF Counted
  <2>2. RecurrenceRepaired
    BY <1>2, <1>6 DEF RecurrenceRepaired
  <2>3. QED
    BY <2>1, <2>2
<1>7. CASE UNCHANGED recorded /\ Goto(r, "done")
  <2>1. ~InFlight(r)'
    BY <1>1, <1>2, <1>7 DEF Goto, TypeOK, ControlType, InFlight, Awaits
  <2>2. Counted'
    BY <1>2, <1>3, <1>5, <1>7, <2>1 DEF Counted
  <2>3. RecurrenceRepaired
    BY <1>2, <1>7 DEF RecurrenceRepaired
  <2>4. QED
    BY <2>2, <2>3
<1>8. ASSUME NEW m, RecordSignature(r, m, errorSignatures), InFlight(r)
      PROVE  Counted' /\ RecurrenceRepaired
  <2>1. /\ \A n \in Messages : /\ errorSignatures'[n] = IF n = m THEN errorSignatures[n] + 1 ELSE errorSignatures[n]
                               /\ recorded'[r][n] = IF n = m THEN recorded[r][n] + 1 ELSE recorded[r][n]
        /\ \A q \in Runs, n \in Messages : q # r => recorded'[q][n] = recorded[q][n]
        /\ currentGoal'[r] = IF errorSignatures[m] >= 1 THEN "autoRepair" ELSE "revised"
    BY <1>2, <1>8 DEF RecordSignature
  <2>2. \A n \in Messages : recorded'[r][n] <= errorSignatures'[n]
    BY <1>2, <1>4, <2>1
  <2>3. Counted'
    BY <1>2, <1>3, <1>5, <2>1, <2>2 DEF Counted
  <2>4. ASSUME NEW q \in Runs, NEW n \in Messages, recorded'[q][n] > recorded[q][n], recorded'[q][n] >= 2
        PROVE  currentGoal'[q] = "autoRepair"
    <3>1. q = r /\ n = m
      BY <1>2, <2>1, <2>4
    <3>2. errorSignatures[m] >= 1
      BY <1>2, <1>4, <2>1, <2>4, <3>1
    <3>3. QED
      BY <2>1, <3>1, <3>2
  <2>5. QED
    BY <2>3, <2>4 DEF RecurrenceRepaired
<1>9. QED
  <2>1. run(r) \/ Resume(r)
    OBVIOUS
  <2>2. QED
    BY <2>1, <1>6, <1>7, <1>8, StepRecords

\* For any number of goals that come one after the other and a long-term memory
\* whose writes do not throw: a call that records an error for the second time
\* always re-plans with the self-diagnostic context.
THEOREM RecurrencesAreRepaired ==
  ASSUME ~LtmWriteFails
  PROVE  SubmissionsSpec => RecurringErrorRepaired
<1>1. SubmissionsInit => oneByOne \in BOOLEAN /\ (oneByOne => Counted)
  <2> SUFFICES ASSUME SubmissionsInit PROVE Counted
    BY DEF SubmissionsInit
  <2>1. \A r \in Runs : pc[r] = "new" /\ \A m \in Messages : recorded[r][m] = 0
    BY DEF SubmissionsInit, Init, NoSignatures
  <2>2. QED
    BY <2>1 DEF Counted, InFlight, Awaits
<1>2. [SubmissionsNext]_<<vars, oneByOne>> => [Next]_vars
  BY DEF SubmissionsNext, CliNext, Next
<1>3. ASSUME TypeOK, oneByOne => Counted, [SubmissionsNext]_<<vars, oneByOne>>
      PROVE  (oneByOne => Counted)' /\ [oneByOne => RecurrenceRepaired]_vars
  <2>1. CASE SubmissionsNext /\ oneByOne
    BY <1>3, <2>1, CountedStep DEF SubmissionsNext, CliNext
  <2>2. CASE SubmissionsNext /\ ~oneByOne
    BY <2>2 DEF SubmissionsNext
  <2>3. CASE UNCHANGED <<vars, oneByOne>>
    BY <1>3, <2>3 DEF vars, shared, Counted, InFlight
  <2>4. QED
    BY <1>3, <2>1, <2>2, <2>3
<1>4. SubmissionsSpec => Spec
  <2>1. SubmissionsInit => Init
    BY DEF SubmissionsInit
  <2>2. QED
    BY <1>2, <2>1, PTL DEF SubmissionsSpec, Spec
<1>5. QED
  BY <1>1, <1>3, <1>4, TypeCorrect, PTL DEF SubmissionsSpec, RecurringErrorRepaired
=============================================================================
