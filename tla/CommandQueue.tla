----------------------------- MODULE CommandQueue ----------------------------
(***************************************************************************)
(* The command lanes of the gateway daemon (process/command-queue.ts): in  *)
(* each lane commands wait in order and at most maxConcurrent run at once. *)
(* Starting commands is synchronous, so every operation ends with its lane *)
(* pumped.  An in-process restart raises the generation of every lane: the *)
(* commands that still run are forgotten, and their end changes nothing.   *)
(***************************************************************************)
EXTENDS Naturals, Sequences, FiniteSets

CONSTANTS CommandCount,   \* the commands, numbered as they are enqueued
          Lanes,
          MaxConcurrency  \* bound: the largest maxConcurrent that is set

ASSUME QueueAssumption == CommandCount \in Nat /\ MaxConcurrency \in Nat \ {0}

VARIABLES
  state,          \* of each command: "new", then "queued", "running", and
                  \* "settled", "cleared" or "refused" once its promise is
  queue,          \* the commands that wait in each lane
  active,         \* activeTaskIds of each lane: commands of its generation
  maxConcurrent,  \* of each lane
  gatewayDraining

queueVars == <<state, queue, active, maxConcurrent, gatewayDraining>>

Commands == 1..CommandCount
Waiting(l) == {queue[l][i] : i \in 1..Len(queue[l])}
ActiveCommands == UNION {active[l] : l \in Lanes}
In(s) == {c \in Commands : state[c] = s}

QueueInit ==
  /\ state = [c \in Commands |-> "new"]
  /\ queue = [l \in Lanes |-> <<>>]
  /\ active = [l \in Lanes |-> {}]
  /\ maxConcurrent = [l \in Lanes |-> 1]
  /\ gatewayDraining = FALSE

\* A variant with a bug: one command too many is started.
StartableOneMore(q, running, most) ==
  IF running > most THEN 0 ELSE IF Len(q) < most - running + 1 THEN Len(q) ELSE most - running + 1

\* How many commands of the queue q the loop of pump starts.
Startable(q, running, most) ==
  IF running >= most THEN 0 ELSE IF Len(q) < most - running THEN Len(q) ELSE most - running

\* The lanes in S are pumped after st, q, a and m have been decided.
Pumped(S, st, q, a, m) ==
  LET count(l) == IF l \in S THEN Startable(q[l], Cardinality(a[l]), m[l]) ELSE 0
      started(l) == {q[l][i] : i \in 1..count(l)}
  IN  /\ queue' = [l \in Lanes |-> SubSeq(q[l], count(l) + 1, Len(q[l]))]
      /\ active' = [l \in Lanes |-> a[l] \cup started(l)]
      /\ state' = [c \in Commands |-> IF \E l \in Lanes : c \in started(l) THEN "running" ELSE st[c]]
      /\ maxConcurrent' = m

\* A variant with a bug: the drain is forgotten.
EnqueueAlways(c, l) ==
  /\ state[c] = "new" /\ \A d \in Commands : d < c => state[d] # "new"
  /\ Pumped({l}, [state EXCEPT ![c] = "queued"], [queue EXCEPT ![l] = Append(@, c)], active, maxConcurrent)
  /\ UNCHANGED gatewayDraining

\* A variant with a bug: the command jumps the queue.
EnqueueFirst(c, l) ==
  /\ state[c] = "new" /\ \A d \in Commands : d < c => state[d] # "new"
  /\ ~gatewayDraining
  /\ Pumped({l}, [state EXCEPT ![c] = "queued"], [queue EXCEPT ![l] = <<c>> \o @], active, maxConcurrent)
  /\ UNCHANGED gatewayDraining

Enqueue(c, l) ==
  /\ state[c] = "new" /\ \A d \in Commands : d < c => state[d] # "new"
  /\ \/ /\ gatewayDraining
        /\ state' = [state EXCEPT ![c] = "refused"]
        /\ UNCHANGED <<queue, active, maxConcurrent>>
     \/ /\ ~gatewayDraining
        /\ Pumped({l}, [state EXCEPT ![c] = "queued"], [queue EXCEPT ![l] = Append(@, c)], active, maxConcurrent)
  /\ UNCHANGED gatewayDraining

\* The task ends, well or badly.  One of an earlier generation is not active.
CompleteTask(c) ==
  /\ state[c] = "running"
  /\ \/ /\ c \in ActiveCommands
        /\ Pumped({l \in Lanes : c \in active[l]}, [state EXCEPT ![c] = "settled"],
                  queue, [l \in Lanes |-> active[l] \ {c}], maxConcurrent)
     \/ /\ c \notin ActiveCommands
        /\ state' = [state EXCEPT ![c] = "settled"]
        /\ UNCHANGED <<queue, active, maxConcurrent>>
  /\ UNCHANGED gatewayDraining

SetCommandLaneConcurrency(l, n) ==
  /\ n # maxConcurrent[l]
  /\ Pumped({l}, state, queue, active, [maxConcurrent EXCEPT ![l] = n])
  /\ UNCHANGED gatewayDraining

\* A variant with a bug: the commands are rejected and stay in the lane.
ClearLaneKept(l) ==
  /\ queue[l] # <<>>
  /\ state' = [c \in Commands |-> IF c \in Waiting(l) THEN "cleared" ELSE state[c]]
  /\ UNCHANGED <<queue, active, maxConcurrent, gatewayDraining>>

ClearCommandLane(l) ==
  /\ queue[l] # <<>>
  /\ queue' = [queue EXCEPT ![l] = <<>>]
  /\ state' = [c \in Commands |-> IF c \in Waiting(l) THEN "cleared" ELSE state[c]]
  /\ UNCHANGED <<active, maxConcurrent, gatewayDraining>>

\* A variant with a bug: the commands kept in the lanes wait for the next one.
ResetLanesIdle ==
  /\ gatewayDraining' = FALSE
  /\ active' = [l \in Lanes |-> {}]
  /\ UNCHANGED <<state, queue, maxConcurrent>>

ResetAllLanes ==
  /\ gatewayDraining' = FALSE
  /\ Pumped(Lanes, state, queue, [l \in Lanes |-> {}], maxConcurrent)

QueueNext ==
  \/ \E c \in Commands : CompleteTask(c) \/ \E l \in Lanes : Enqueue(c, l)
  \/ \E l \in Lanes : ClearCommandLane(l) \/ \E n \in 1..MaxConcurrency : SetCommandLaneConcurrency(l, n)

-----------------------------------------------------------------------------
(* Properties *)

\* The type invariant of the lanes: a command waits in one place or runs.
QueueTypeOK ==
  /\ state \in [Commands -> {"new", "queued", "running", "settled", "cleared", "refused"}]
  /\ \A l \in Lanes : queue[l] \in Seq(Commands) /\ Cardinality(Waiting(l)) = Len(queue[l])
  /\ In("queued") = UNION {Waiting(l) : l \in Lanes}
  /\ ActiveCommands \subseteq In("running")
  /\ maxConcurrent \in [Lanes -> 1..MaxConcurrency]

\* No lane ever stands still with work in it: whatever settles, is cleared, is
\* reconfigured or restarted, commands wait only behind a full lane (the bug
\* the comment of resetAllLanes tells of, command-queue.ts 237-250).
NoStall ==
  \A l \in Lanes : queue[l] # <<>> => Cardinality(active[l]) >= maxConcurrent[l]

\* A lane starts commands in the order in which they came, and never one above
\* its limit, although the limit may drop below what runs already.
LaneDiscipline ==
  [][\A l \in Lanes : LET started == active'[l] \ active[l] IN
       /\ started # {} => Cardinality(active'[l]) <= maxConcurrent'[l]
       /\ \A c \in started, d \in Waiting(l)' : c < d]_queueVars
=============================================================================
