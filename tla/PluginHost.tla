------------------------------ MODULE PluginHost -----------------------------
(***************************************************************************)
(* The plugin architect: scripts written to src/plugins, run as processes  *)
(* of their own, and a table with one process per plugin name.  A stop     *)
(* sends SIGTERM and forgets the process at once; the process leaves when  *)
(* it likes, and its exit event, whose listener knows only the name, comes *)
(* later still.                                                            *)
(***************************************************************************)
EXTENDS Naturals, Sequences, FiniteSets

CONSTANTS Plugins,       \* the plugin names
          Interpreters,  \* the commands that are installed, of "node", "python3"
          MaxRequests    \* bound: run requests answered with a process, per name

ASSUME PluginAssumption ==
  /\ Interpreters \subseteq {"node", "python3"}
  /\ MaxRequests \in Nat

VARIABLES
  scripts,   \* for each name, the languages its script was written in
  process,   \* the processes spawned: the plugin, the state
  running,   \* _running: for each name, its process, or 0
  listeners, \* for each name, the listeners the run requests left on pluginOutput
  hasty      \* history: for each name, the launches made while an earlier
             \* process of that name had not left yet

pluginVars == <<scripts, process, running, listeners, hasty>>

Spawned == 1..Len(process)
ProcessesOf(n) == {p \in Spawned : process[p].plugin = n}
\* A launch of n would be hasty: a process the table has forgotten is leaving.
Leaving(p) == process[p].state \in {"up", "stopping", "exited"}
Haste(n) == \E p \in ProcessesOf(n) : p # running[n] /\ Leaving(p)

PluginInit ==
  /\ scripts = [n \in Plugins |-> {}]
  /\ process = <<>>
  /\ running = [n \in Plugins |-> 0]
  /\ listeners = [n \in Plugins |-> 0]
  /\ hasty = [n \in Plugins |-> 0]

BuildPlugin(n, command) ==
  /\ scripts' = [scripts EXCEPT ![n] = @ \cup {command}]
  /\ UNCHANGED <<process, running, listeners, hasty>>

\* The .mjs script comes first.
CommandOf(n) == IF "node" \in scripts[n] THEN "node" ELSE "python3"

Wired(n) ==
  /\ listeners[n] < MaxRequests
  /\ listeners' = [listeners EXCEPT ![n] = @ + 1]

Launch(n) ==
  /\ process' = Append(process, [plugin |-> n, state |->
                  IF CommandOf(n) \in Interpreters THEN "up" ELSE "failed"])
  /\ running' = [running EXCEPT ![n] = Len(process) + 1]
  /\ hasty' = [hasty EXCEPT ![n] = IF Haste(n) THEN @ + 1 ELSE @]

\* A variant with a bug: a name that runs is launched again.
RunPluginTwice(n) ==
  /\ Wired(n) /\ scripts[n] # {} /\ Launch(n)
  /\ UNCHANGED scripts

\* /api/plugins/run: a name that runs keeps its process, an unknown script is
\* a 404, and a command that is not installed leaves a process that never ran:
\* it has an error event and no exit.
RunPlugin(n) ==
  /\ Wired(n)
  /\ \/ running[n] # 0 /\ UNCHANGED <<process, running, hasty>>
     \/ running[n] = 0 /\ scripts[n] # {} /\ Launch(n)
  /\ UNCHANGED scripts

Becomes(p, from, to) ==
  /\ process[p].state \in from
  /\ process' = [process EXCEPT ![p].state = to]

\* SIGTERM does nothing to a process that is not there any more.
StopPlugin(n) ==
  /\ running[n] # 0
  /\ process' = [process EXCEPT ![running[n]].state = IF @ = "up" THEN "stopping" ELSE @]
  /\ running' = [running EXCEPT ![n] = 0]
  /\ UNCHANGED <<scripts, listeners, hasty>>

\* The process leaves: by itself, or after the signal.
Exits(p) ==
  /\ Becomes(p, {"up", "stopping"}, "exited")
  /\ UNCHANGED <<scripts, running, listeners, hasty>>

\* The exit event deletes the entry of the name, whatever process it is for.
ExitEvent(p) ==
  /\ Becomes(p, {"exited"}, "gone")
  /\ running' = [running EXCEPT ![process[p].plugin] = 0]
  /\ UNCHANGED <<scripts, listeners, hasty>>

PluginNext ==
  \/ \E n \in Plugins :
       \/ RunPlugin(n) \/ StopPlugin(n)
       \/ \E command \in {"node", "python3"} : BuildPlugin(n, command)
  \/ \E p \in Spawned : Exits(p) \/ ExitEvent(p)

PluginSpec == PluginInit /\ [][PluginNext]_pluginVars

-----------------------------------------------------------------------------
(* Properties *)

\* The type invariant of the plugin architect, plugin-architect.ts 201-260.
PluginTypeOK ==
  /\ scripts \in [Plugins -> SUBSET {"node", "python3"}]
  /\ process \in Seq([plugin : Plugins, state : {"up", "stopping", "exited", "gone", "failed"}])
  /\ running \in [Plugins -> 0..Len(process)]
  /\ listeners \in [Plugins -> 0..MaxRequests]
  /\ \A n \in Plugins : Cardinality(ProcessesOf(n)) <= listeners[n]

\* A process the dashboard can neither see nor stop, because its name has no
\* entry or another one, is the price of a hasty restart: there are never more
\* of a name than the launches made while an earlier process was leaving
\* (the exit listener of plugin-architect.ts 241 deletes by name).
LostOnlyByHaste ==
  \A n \in Plugins :
    Cardinality({p \in ProcessesOf(n) : process[p].state = "up" /\ running[n] # p}) <= hasty[n]

\* /api/plugins never shows a plugin as running after its process has left and
\* said so, nor after it was told to stop; the only entry without a process is
\* one whose command could not be spawned.
ListedRuns ==
  \A n \in Plugins : running[n] # 0 =>
    /\ process[running[n]].plugin = n
    /\ process[running[n]].state \in {"up", "exited", "failed"}

\* The dashboard and the processes agree, up to hasty restarts.
PluginsTracked == LostOnlyByHaste /\ ListedRuns
=============================================================================
