---------------------------- MODULE GoalLifecycle ----------------------------
(***************************************************************************)
(* What the orchestrator promises the consumers of its events (dashboard,  *)
(* mobile clients, webhooks): a goal that was accepted is settled, once,   *)
(* with one verdict, and a verdict that was announced never changes.       *)
(***************************************************************************)
CONSTANTS Runs, Verdicts
VARIABLE state

Init == state = [r \in Runs |-> "new"]

Accept(r) ==
  /\ state[r] = "new"
  /\ state' = [state EXCEPT ![r] = "pending"]

Settle(r) ==
  /\ state[r] = "pending"
  /\ \E v \in Verdicts : state' = [state EXCEPT ![r] = v]

Next == \E r \in Runs : Accept(r) \/ Settle(r)

SafeSpec == Init /\ [][Next]_state

Spec == SafeSpec /\ \A r \in Runs : WF_state(Settle(r))
=============================================================================
