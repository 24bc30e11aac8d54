------------------------------ MODULE MCBrowser --------------------------------
(***************************************************************************)
(* What runs and must not get out of hand, side by side: the Chromium      *)
(* session of the agent, its ghost browsers and plugin processes, and the  *)
(* commands in the lanes of the gateway under its run loop.  They share no *)
(* state, and a behaviour is one of a single part.                         *)
(***************************************************************************)
EXTENDS BrowserSession, PluginHost, GhostSlots, GatewayLoop, TLC

CONSTANTS s1, s2, p1, p2, p3, plugin, main

VARIABLE part

\* Two overlapping browser steps, a few Chromium launches, and samples of the
\* memory at 81 percent (the gate lets steps through, the lite mode ends), 84.5
\* (below the gate's limit, but it rounds up to it), 85 (the lite mode is kept),
\* 90 (the lite mode begins, a suspended watcher stays so) and 95 (it is
\* suspended).
TwoSteps == {s1, s2}
ThreeProcs == {p1, p2, p3}
Thresholds == {162, 169, 170, 180, 190}

OnePlugin == {plugin}
JustNode == {"node"}

OneLane == {main}

Symmetric == Permutations(TwoSteps) \cup Permutations(ThreeProcs)

ProcessesInit ==
  /\ part \in {"browser", "ghosts", "plugins", "gateway"}
  /\ Init /\ GhostInit /\ PluginInit /\ GatewayInit

ProcessesNext ==
  /\ part' = part
  /\ \/ part = "browser" /\ Next /\ UNCHANGED <<ghostVars, pluginVars, gatewayVars>>
     \/ part = "ghosts" /\ GhostNext /\ UNCHANGED <<vars, pluginVars, gatewayVars>>
     \/ part = "plugins" /\ PluginNext /\ UNCHANGED <<vars, ghostVars, gatewayVars>>
     \/ part = "gateway" /\ GatewayNext /\ UNCHANGED <<vars, ghostVars, pluginVars>>

ProcessesSpec ==
  ProcessesInit /\ [][ProcessesNext]_<<part, vars, ghostVars, pluginVars, gatewayVars>>

\* The type invariants of the parts.
ProcessesTypeOK ==
  /\ part = "browser" => TypeOK
  /\ part = "ghosts" => GhostTypeOK
  /\ part = "plugins" => PluginTypeOK
  /\ part = "gateway" => QueueTypeOK
=============================================================================
