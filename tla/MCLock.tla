-------------------------------- MODULE MCLock --------------------------------
(***************************************************************************)
(* Instances of SessionLock: two tasks of the gateway and one of a local   *)
(* agent; for the safety, and for the liveness.                            *)
(***************************************************************************)
EXTENDS SessionLock, TLC

CONSTANTS w1, w2, w3, gw, agent

ThreeTasks == {w1, w2, w3}
\* w1 does not join a lock of its process, w2 does.
Joining == {w2, w3}
TwoProcs == {gw, agent}
TwoOfGateway == w1 :> gw @@ w2 :> gw @@ w3 :> agent

\* For the liveness: two tasks of one process, which share their lock.
TwoTasks == {w1, w2}
JustGateway == {gw}
OfGateway == w1 :> gw @@ w2 :> gw
=============================================================================
