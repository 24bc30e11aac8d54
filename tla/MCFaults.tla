-------------------------------- MODULE MCFaults ------------------------------
(***************************************************************************)
(* Two parts that must bear faults, side by side: the orchestrator of the  *)
(* agent over a long-term memory that may throw, and the lock of a session *)
(* file of the gateway, with deaths and removals that fail.  They share no *)
(* state, and a behaviour is one of a single part.                         *)
(***************************************************************************)
EXTENDS MCOrchestrator, MCLock

VARIABLE part

FaultsInit ==
  /\ part \in {"agent", "lock"}
  /\ Init /\ LockInit
  /\ part # "lock" => procfs

FaultsNext ==
  /\ part' = part
  /\ \/ part = "agent" /\ Next /\ UNCHANGED lockVars
     \/ part = "lock" /\ LockNext /\ UNCHANGED vars

\* The fairness is that of the orchestrator: what is asked of the lock here is
\* safety.
FaultsSpec ==
  FaultsInit /\ [][FaultsNext]_<<part, vars, lockVars>> /\ Fairness
=============================================================================
