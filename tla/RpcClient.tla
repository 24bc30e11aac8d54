------------------------------ MODULE RpcClient ------------------------------
(***************************************************************************)
(* What a caller of the gateway bridge is promised: a call is settled      *)
(* once: resolved, or rejected with an error of the gateway, a timeout, or *)
(* the notice that the gateway is offline.                                 *)
(***************************************************************************)
CONSTANT Calls
VARIABLE outcome

Outcomes == {"resolved", "error", "timeout", "offline"}

Init == outcome = [c \in Calls |-> "none"]

Issue(c) ==
  /\ outcome[c] = "none"
  /\ outcome' = [outcome EXCEPT ![c] = "open"]

Settle(c) ==
  /\ outcome[c] = "open"
  /\ \E o \in Outcomes : outcome' = [outcome EXCEPT ![c] = o]

\* The close of the connection settles several calls at once.
Drop ==
  \E S \in SUBSET { c \in Calls : outcome[c] = "open" } :
    /\ S # {}
    /\ outcome' = [c \in Calls |-> IF c \in S THEN "offline" ELSE outcome[c]]

Next == Drop \/ \E c \in Calls : Issue(c) \/ Settle(c)

SafeSpec == Init /\ [][Next]_outcome

\* Every call that was issued is settled.
Spec == SafeSpec /\ \A c \in Calls : (outcome[c] = "open") ~> (outcome[c] \in Outcomes)
=============================================================================
