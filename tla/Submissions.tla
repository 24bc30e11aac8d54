----------------------------- MODULE Submissions ------------------------------
(***************************************************************************)
(* How the goals come: whenever their callers like (the API, webhooks, the *)
(* wake word), or one after the other (the terminal loop).                 *)
(***************************************************************************)
EXTENDS OrchestratorProps

VARIABLE oneByOne

SubmissionsInit == Init /\ oneByOne \in BOOLEAN

SubmissionsNext ==
  /\ oneByOne' = oneByOne
  /\ \/ oneByOne /\ CliNext
     \/ ~oneByOne /\ Next

SubmissionsSpec ==
  SubmissionsInit /\ [][SubmissionsNext]_<<vars, oneByOne>> /\ Fairness

\* The auto-repair loop, when goals are submitted one after the other: a call
\* that meets the same error for the second time re-plans with the
\* self-diagnostic context, and no error of an earlier goal, nor a success in
\* between, makes it miss its turn (orchestrator.ts:324, 393-416).
RecurringErrorRepaired == [][oneByOne => RecurrenceRepaired]_vars
=============================================================================
