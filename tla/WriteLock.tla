------------------------------ MODULE WriteLock -------------------------------
(***************************************************************************)
(* What the callers of acquireSessionWriteLock are promised: each enters   *)
(* its section once; those inside at a time are of one process, and join   *)
(* the first only re-entrantly.  The lock may be taken from them, from all *)
(* at once and without their knowledge, and they may die.  Once a live     *)
(* lock was mistaken for a stale one nothing is promised any more.         *)
(***************************************************************************)
CONSTANTS LockTasks, ProcOf, Reentrants

VARIABLES
  caller,  \* where a call is
  broken   \* whether a live lock was mistaken for a stale one

Stages == {"before", "inside", "evicted", "after", "dead"}
Inside == {t \in LockTasks : caller[t] = "inside"}

Init == caller = [t \in LockTasks |-> "before"] /\ broken = FALSE

Goes(t, stage) == caller' = [caller EXCEPT ![t] = stage]

Enter(t) ==
  /\ caller[t] = "before" /\ Goes(t, "inside")
  /\ \A u \in Inside : ProcOf[u] = ProcOf[t]
  /\ Inside # {} => t \in Reentrants

\* It gives the lock back, finds that it has lost it, or could not get it.
Leave(t) == caller[t] \in {"before", "inside", "evicted"} /\ Goes(t, "after")

Evict == caller' = [t \in LockTasks |-> IF t \in Inside THEN "evicted" ELSE caller[t]]

\* The process of a call dies, and all its calls with it.
Die(t) ==
  caller' = [u \in LockTasks |-> IF ProcOf[u] = ProcOf[t] THEN "dead" ELSE caller[u]]

Next ==
  \/ broken' /\ caller' \in [LockTasks -> Stages]
  \/ /\ UNCHANGED broken
     /\ Evict \/ \E t \in LockTasks : Enter(t) \/ Leave(t) \/ Die(t)

Spec == Init /\ [][Next]_<<caller, broken>>

\* Until then those inside are of one process, and all but one of them let others
\* in (acquireSessionWriteLock, session-write-lock.ts 442-548).
Exclusive ==
  ~broken => \A t, u \in Inside : t # u => ProcOf[t] = ProcOf[u] /\ {t, u} \cap Reentrants # {}
=============================================================================
