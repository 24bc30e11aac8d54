---------------------------- MODULE MCOrchestrator ----------------------------
(***************************************************************************)
(* Instances of Orchestrator for TLC: two goals, keys of two providers.    *)
(***************************************************************************)
EXTENDS OrchestratorProps

CONSTANTS r1, r2, k1, k2, k3, short

MCKeys == {k1, k2, k3, short}
MCUsable == {k1, k2, k3}
MCBlank == {}

\* OPENROUTER_API_KEY and a backup come from the shell.
Shell ==
  [k \in Slots |-> CASE k = "OPENROUTER"   -> k1
                     [] k = "OPENROUTER_2" -> k2
                     [] OTHER              -> NoKey]

\* A placeholder of OPENAI_API_KEY and a backup of it are in .env.
File ==
  [k \in Slots |-> CASE k = "OPENAI"   -> short
                     [] k = "OPENAI_2" -> k3
                     [] OTHER          -> NoKey]

BothRuns == {r1, r2}
OneRun == {r1}
AllModes == {"direct", "coordinator", "agent"}
Direct == {"direct"}
AllErrors == Messages \ {LtmError}
=============================================================================
