------------------------------ MODULE GatewayLoop ----------------------------
(***************************************************************************)
(* The run loop of the gateway daemon (cli/gateway-cli/run-loop.ts) over   *)
(* its command lanes.  The loop starts a server, waits for a restart, and  *)
(* begins again; the signal handlers drain the lanes, close the server and *)
(* exit, or release and take the gateway lock again and wake the loop.     *)
(* Loop and handlers interleave at every await.                            *)
(***************************************************************************)
EXTENDS CommandQueue

CONSTANT MaxStarts  \* bound: iterations of the loop

ASSUME LoopAssumption == MaxStarts \in Nat \ {0}

VARIABLES
  loop,      \* where the loop is: "starting" a server, "waiting" for a restart;
             \* the process may be "exited", or "respawned" as a new one
  iteration,
  server,    \* the iteration whose server the handlers would close, or 0
  open,      \* the servers that listen
  resolver,  \* the iteration whose wait restartResolver would end, or 0
  lock,      \* the gateway lock is held
  shutdown,  \* the await of the handler in progress; "none" is ~shuttingDown
  restart,   \* it is a restart and not a stop
  target,    \* the server the handler closes
  awaited,   \* the commands waitForActiveTasks waits for
  upsets,    \* history: "early" for a request during a start, "startFailed",
             \* "timeout" for a drain that ran out of time
  atRisk     \* history: the commands nobody waits for, when a restart begins

handlerVars == <<shutdown, restart, target, awaited>>
loopVars == <<loop, iteration, server, open, resolver, lock, handlerVars, upsets, atRisk>>
gatewayVars == <<queueVars, loopVars>>

Alive == loop \in {"starting", "waiting"}

GatewayInit ==
  /\ QueueInit
  /\ loop = "starting" /\ iteration = 1
  /\ server = 0 /\ open = {} /\ resolver = 0 /\ lock = TRUE
  /\ shutdown = "none" /\ restart = FALSE /\ target = 0 /\ awaited = {}
  /\ upsets = {} /\ atRisk = {}

-----------------------------------------------------------------------------
(* The loop *)

StartOk ==
  /\ loop = "starting"
  /\ server' = iteration /\ open' = open \cup {iteration}
  /\ loop' = "waiting" /\ resolver' = iteration
  /\ UNCHANGED <<queueVars, iteration, lock, handlerVars, upsets, atRisk>>

\* The first failure ends the process; a later one gives the lock back, and
\* the process waits for a restart.
StartFails ==
  /\ loop = "starting"
  /\ server' = 0 /\ lock' = FALSE
  /\ IF iteration = 1 THEN loop' = "exited" /\ UNCHANGED resolver
                      ELSE loop' = "waiting" /\ resolver' = iteration
  /\ upsets' = upsets \cup {"startFailed"}
  /\ UNCHANGED <<queueVars, iteration, open, handlerVars, atRisk>>

-----------------------------------------------------------------------------
(* The signal handlers *)

\* SIGTERM and SIGINT: the close begins at once.
RequestStop ==
  /\ Alive /\ shutdown = "none"
  /\ shutdown' = "close" /\ restart' = FALSE /\ target' = server
  /\ UNCHANGED <<queueVars, loop, iteration, server, open, resolver, lock, awaited, upsets, atRisk>>

\* An authorized SIGUSR1: new commands are refused, the active ones awaited.
RequestRestart ==
  /\ Alive /\ shutdown = "none" /\ iteration < MaxStarts
  /\ shutdown' = "drain" /\ restart' = TRUE
  /\ gatewayDraining' = TRUE
  /\ awaited' = ActiveCommands
  /\ atRisk' = In("queued") \cup (In("running") \ ActiveCommands)
  /\ upsets' = IF loop = "starting" THEN upsets \cup {"early"} ELSE upsets
  /\ UNCHANGED <<state, queue, active, maxConcurrent, loop, iteration, server, open, resolver, lock, target>>

WaitForActiveTasks == awaited \cap ActiveCommands = {}

\* The poll finds the awaited commands gone, or the 90 seconds are over.
DrainEnds ==
  /\ Alive /\ shutdown = "drain"
  /\ \/ WaitForActiveTasks /\ UNCHANGED upsets
     \/ ~WaitForActiveTasks /\ upsets' = upsets \cup {"timeout"}
  /\ shutdown' = "close" /\ target' = server
  /\ UNCHANGED <<queueVars, loop, iteration, server, open, resolver, lock, restart, awaited, atRisk>>

\* server.close() returns, or throws and is logged; server is forgotten.
CloseEnds ==
  /\ Alive /\ shutdown = "close"
  /\ open' = open \ {target} /\ server' = 0
  /\ shutdown' = "release"
  /\ UNCHANGED <<queueVars, loop, iteration, resolver, lock, restart, target, awaited, upsets, atRisk>>

\* A variant with a bug: the timer is disarmed as soon as the drain is over.
ForceExitOfDrain ==
  /\ Alive /\ shutdown = "drain"
  /\ loop' = "exited"
  /\ UNCHANGED <<queueVars, iteration, server, open, resolver, lock, handlerVars, upsets, atRisk>>

\* The timer of the shutdown: neither the drain nor the close came to an end.
ForceExit ==
  /\ Alive /\ shutdown \in {"drain", "close"}
  /\ loop' = "exited"
  /\ UNCHANGED <<queueVars, iteration, server, open, resolver, lock, handlerVars, upsets, atRisk>>

\* The lock is given back: a stop exits, and a restart spawns a fresh process
\* and exits, or has to do without one.
ReleaseEnds ==
  /\ Alive /\ shutdown = "release"
  /\ lock' = FALSE
  /\ \/ ~restart /\ loop' = "exited" /\ UNCHANGED shutdown
     \/ restart /\ loop' = "respawned" /\ UNCHANGED shutdown
     \/ restart /\ shutdown' = (IF lock THEN "reacquire" ELSE "resume") /\ UNCHANGED loop
  /\ UNCHANGED <<queueVars, iteration, server, open, resolver, restart, target, awaited, upsets, atRisk>>

ReacquireEnds ==
  /\ Alive /\ shutdown = "reacquire"
  /\ \/ lock' = TRUE /\ shutdown' = "resume" /\ UNCHANGED loop
     \/ loop' = "exited" /\ UNCHANGED <<lock, shutdown>>
  /\ UNCHANGED <<queueVars, iteration, server, open, resolver, restart, target, awaited, upsets, atRisk>>

\* A variant with a bug: the lanes are left as the last life left them.
ResumeNoReset ==
  /\ Alive /\ shutdown = "resume" /\ shutdown' = "none"
  /\ \/ /\ loop = "waiting" /\ resolver = iteration
        /\ loop' = "starting" /\ iteration' = iteration + 1
     \/ ~(loop = "waiting" /\ resolver = iteration) /\ UNCHANGED <<loop, iteration>>
  /\ UNCHANGED <<queueVars, server, open, resolver, lock, restart, target, awaited, upsets, atRisk>>

\* shuttingDown falls, and the loop is woken if it waits: the next iteration
\* resets the lanes.  A resolver of an iteration before wakes nobody.
Resumes ==
  /\ Alive /\ shutdown = "resume" /\ shutdown' = "none"
  /\ \/ /\ loop = "waiting" /\ resolver = iteration
        /\ loop' = "starting" /\ iteration' = iteration + 1
        /\ ResetAllLanes
     \/ ~(loop = "waiting" /\ resolver = iteration) /\ UNCHANGED <<queueVars, loop, iteration>>
  /\ UNCHANGED <<server, open, resolver, lock, restart, target, awaited, upsets, atRisk>>

\* What goes on by itself.  The close of the server is not among it: it may hang.
HandlerGoesOn == DrainEnds \/ ForceExit \/ ReleaseEnds \/ ReacquireEnds \/ Resumes

HandlerStep == CloseEnds \/ HandlerGoesOn

GatewayNext ==
  \/ StartOk \/ StartFails
  \/ RequestStop \/ RequestRestart
  \/ HandlerStep
  \/ Alive /\ QueueNext /\ UNCHANGED loopVars

\* Timers fire, and the lock is given back and taken; a command may run for ever,
\* and so may the close of a server.
GatewaySpec == GatewayInit /\ [][GatewayNext]_gatewayVars /\ WF_gatewayVars(HandlerGoesOn)

-----------------------------------------------------------------------------
(* Properties *)

\* A gateway that serves, and has nothing to do with a shutdown, takes
\* commands, has one server and holds the lock, restart after restart; unless
\* a signal came while a server was starting, or a start failed
\* (run-loop.ts 65-92, 120-175, 203-247).
ServesProperly ==
  Alive /\ server # 0 /\ shutdown = "none" =>
    \/ "early" \in upsets
    \/ /\ ~gatewayDraining
       /\ open = {server}
       /\ lock \/ "startFailed" \in upsets

\* A restart with a fresh process, if the drain had time enough, takes nothing
\* with it that was running when the signal came; it loses only the commands
\* that were waiting in a lane, and those an earlier restart had abandoned.
RestartLoses ==
  loop = "respawned" /\ "timeout" \notin upsets => In("running") \cup In("queued") \subseteq atRisk

\* The signal handler never stays in charge: every shutdown and every restart
\* ends, although commands may hang and the close may (the drain timeout and
\* the forced exit, run-loop.ts 111-118).
ShutdownEnds == shutdown # "none" ~> shutdown = "none" \/ ~Alive

\* New commands are refused during the drain window only, as the comment of
\* run-loop.ts 125-126 has it: a gateway that serves takes commands.
DrainingEnds == Alive /\ server # 0 /\ shutdown = "none" => ~gatewayDraining
=============================================================================
