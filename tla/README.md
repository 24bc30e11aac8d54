# A TLA+ model of Must-b

This directory models the parts of Must-b whose correctness depends on interleaving,
failure and order, checks them with TLC on small instances, and proves the most
important results with TLAPS for every value of the constants. Source paths below are
relative to `src/` of the repository: `core/...`, `interface/...`, `memory/...` and
`tools/...` are the agent, `core/source/...` is the gateway daemon that the repository
ships beside it.

## The system

Must-b is a Node.js process, the agent, and a second one, the gateway daemon that talks
to the messaging channels. Nothing inside a process runs in parallel, but every `await`,
timer, signal and event handler is a point where another activity goes on, and the file
system, the SQLite files, the lock files and the plugin processes are shared with other
processes.

| Part | State | Operations | What is hard | What makes it correct |
|---|---|---|---|---|
| Orchestrator (`core/orchestrator.ts`) | `_busy`, `_errorSignatures`, the locals of every call | `run` (fast path, coordinator, agent) and its catch block | calls overlap without a guard; retries; errors of the memory in the middle of a finished run | one verdict per goal, the flag means what its readers take it to mean, every run ends |
| Key environment (`.env`, `process.env`, the overrides of `core/config-store.ts`) | seven key variables, provider, model | reload before each request, `rotateApiKey`, set-up pages, key test, 402 fallback | written by everybody around awaits, reset by every reload | a usable key stays usable, what was saved is used, every backup is tried |
| Vector store (`core/memory/vector-store.ts`) | entries, `corpus_stats`, `doc_count` | `insert`, `deleteById`, `search` | several autocommitted statements per operation; crashes | statistics match the entries, what a search reads and has room for is found |
| Profile and daily memory (`memory/long-term.ts`, `memory/semantic.ts`) | `user.json`, the object in memory, the daily file, its index | `setProfile`, `recordConversation`, `writeDailyEntry`, boot, cloud restore | load, modify, save around awaits; a write empties the file first | nothing that was recorded is lost |
| Gateway bridge (`core/gateway-bridge.ts`) | socket, flag, map of pending requests, reconnect timer | `connect`, handlers, `call` | timeout against late answer, close against pending calls, reconnect | every call is settled once; one connection; recovery |
| Browser session (`tools/browser.ts`, the gate in `core/executor.ts`) and GhostGuard | browser, context, page; lite mode, watcher | `ensurePage`, page operations, `close`; samples | one session for all goals, changed around awaits; lite mode closes it; Chromium crashes | no Chromium is left behind, an open session has its page |
| Shadow mode and ghost slots (`tools/browser.ts`, `tools/shadow-bridge.ts`) | four slots with a browser and a mirror loop | toggle, stop all | a toggle looks once and overwrites after its awaits | a slot tells the truth about its browser, stop-all stops |
| Plugin architect (`core/plugin-architect.ts`) | map of running processes | build, run, stop, exit | the exit of a stopped process comes after its restart | the dashboard shows what runs |
| NightOwl (`core/automation/night-owl.ts`) | scanning flag, cooldown, watermark | poll, `triggerNow` | files change while a shift lists them | no change falls between two shifts |
| Command lanes (`core/source/process/command-queue.ts`) | queue, active set, limit and generation of each lane | enqueue, settle, clear, set limit, reset | commands outlive a restart and settle late | no lane stands still with work in it |
| Gateway run loop (`core/source/cli/gateway-cli/run-loop.ts`) | server, lock, shutdown flag | start, signals, drain, close, restart | signals at every await; drains and closes that hang | serves after every restart, and every shutdown ends |
| Outbound messages (`core/source/infra/outbound/`) | one file per message | enqueue, send, acknowledge, fail, recover | crashes, in-process restarts and failing file operations between any two steps, two workers on one message | nothing accepted is lost, sends are bounded |
| Session write lock (`core/source/agents/session-write-lock.ts`) | a lock file, the map of held locks of each process | acquire, release, watchdog, signals, startup sweep | whoever removes the file decides first and removes by path later; a removal may fail | two processes never hold it, nobody holds it for ever |
| REST and Socket.IO server, wake word, CLI, cloud sync | sessions, login states | call all of the above | concurrent callers | - |

Calls go downwards: server, CLI and wake word call the orchestrator, which calls
planner, executor, coordinator and memory; GhostGuard sets the lite mode; NightOwl reads
GhostGuard and the busy flag; the bridge connects agent and gateway. Events
(`planStart`, `finalAnswer`, `planFinish`, ...) go upwards to the server, which
broadcasts them. `PROJECT.json` lists all parts, the unmodelled ones too, and the
hazards with the line where each of them bites.

## Modules

| Component | Model | Properties and proofs | Instances |
|---|---|---|---|
| Orchestrator | `Orchestrator`, `KeyRotation` | `OrchestratorProps`, `Submissions`, `GoalLifecycle` (abstract), `OrchestratorProofs`, `KeyRotationProofs` | `MCOrchestrator` (and in `MCFaults`), `MCSubmissions` |
| Key environment | `KeyEnvironment`, `KeyRotation` | `KeyEnvironmentProofs` | `MCKeys` |
| Vector store | `VectorStore` | `VectorStoreProofs` | `MCParts` |
| Profile and daily memory | `ProfileMemory` | `VectorStoreProofs` | `MCParts` |
| Ghost slots | `GhostSlots` | `AgentProofs` | `MCBrowser` |
| Outbound messages | `DeliveryQueue` | `Outbox` (abstract), `DeliveryProofs` | `MCParts` |
| Browser session, GhostGuard | `BrowserSession`, `GhostGuard` | `AgentProofs` | `MCBrowser` |
| Plugin architect | `PluginHost` | `AgentProofs` | `MCBrowser` |
| Session write lock | `SessionLock` | `WriteLock` (abstract), `GatewayProofs` | `MCLock`, in `MCFaults` and `MCLive` |
| Gateway bridge | `GatewayBridge` | `RpcClient` (abstract), `GatewayBridgeProofs` | `MCGatewayBridge`, `MCLive` |
| NightOwl | `NightOwl` | `AgentProofs` | `MCLive` |
| Command lanes and run loop | `CommandQueue`, `GatewayLoop` (extends it) | `GatewayProofs` | `MCBrowser`, `MCLive` |

`MCFaults`, `MCParts`, `MCBrowser` and `MCLive` put components that share no state
beside each other: the variable `part` chooses one at the start, and a behaviour is one
of that component alone. This is an economy of the model checker, not a claim about the
system; each component can be read without the others.

### Orchestrator, OrchestratorProps, GoalLifecycle

`Orchestrator` is `core/orchestrator.ts`. A process `r \in Runs` is one call of `run`;
`pc[r]` is the `await` it stands at, so an action is the code from one `await` to the
next, emits and synchronous memory calls included:

| `pc` | awaited call | actions |
|---|---|---|
| `new` | - | `run`: routing, flag, `planStart`, memory read |
| `chat`, `chatReload`, `rechat` | `directChat`, `reloadEnv`, `directChat` | `ChatAnswered`, `ChatFailed`, `ChatReloaded`, `RechatAnswered`, `RechatFailed` |
| `coordinate` | `coordinator.run` | `CoordinatorReturned`, `CoordinatorThrew` |
| `plan`, `step`, `synthesize` | `planner.plan`, `executor.executeStep`, `planner.synthesize` | `PlanGenerated`, `PlanEmpty`, `PlanFailed`, `StepFinished`, `StepThrew`, `Synthesized` |
| `reload`, `rateBackoff`, `netBackoff` | the three waits of the catch block | `EnvReloaded`, `RateBackoffOver`, `NetBackoffOver` |

`CatchAgent` is the catch block up to its first `await` or its `continue`; it is a part
of `StepThrew`, and of `Synthesized` when the memory write throws. `StepThrew` is also
what happens when `planner.synthesize` cannot write a result as JSON, which it does
outside its own try block (`core/planner.ts:250-252`). `busy`, `errorSignatures` and
`env` are shared by all calls; every await that ends with a request to the provider
begins with the reload of `.env` that `rc()` makes. `answers`, `finishes` and `verdict`
count the `finalAnswer` and `planFinish` events of a call. `recorded` is the only
history variable.

Abstractions. An error is one of six messages, one per class of `classifyError` and two
unknown ones, the second being what SQLite throws. The goal is only *how* it was last
rewritten. `planStart`, `stepStart`, `agentRepair` and the logs are left out. Event
listeners are assumed not to throw. `LtmReadFails` and `LtmWriteFails` say whether calls
to the SQLite store may throw. The phases of the coordinator are one await.
`MAX_REVISIONS` is the constant `MaxRevisions`, `MaxSteps` bounds the plans.

`GoalLifecycle` is what a consumer of the events may rely on: new, pending, one verdict.
`OrchestratorProps` states the properties and the refinement mapping (`StateOf`).
`Submissions` lets the goals come at any time, or one after the other as the terminal
loop of `index.ts` submits them (`CliNext`); `MCSubmissions` is its instance.

### KeyRotation, KeyEnvironment

`KeyRotation` holds `reloadEnv`, `rotateApiKey` and `resolveApiKey` as operators over an
environment, a function from the seven key variables to a value or `NoKey`. Unusable
values (an empty template line, eight characters or less) are values, because `??` lets
them win over usable ones.

`KeyEnvironment` puts them among everybody who writes the settings: `file` is `.env`,
`env` is `process.env`, `runtime` the saved overrides, each with keys, provider and
model. `Request` is one LLM request: it reloads `.env` with override first.
`HealRateLimit` and `HealAuth` are the branches of the orchestrator's catch block,
`UpdateKey` and `Setup` the two set-up pages, `TestBegins`, `TestAsks`, `TestAnswered`
and `TestFailed` the awaits of a key test, which overrides the key, the provider and, if
the page names one, the model (`tested`); `PaymentRequired` the fallback to a free
model. `used`, `asked`, `refused`, `saved`, `fellBack` and `spoiled` are history.

### VectorStore

`core/memory/vector-store.ts`, one action per SQL statement: the code opens no
transaction, so every statement commits by itself. `BreakOff` is a statement that throws
or a process that dies: the rest of the operation is never done. Contents are sets of
terms (the code counts each term once per entry), so the weight of a term in `search` is
positive exactly if `doc_freq < max(doc_count, 1)` (`Weighed`). `search` reads the
`MaxScanned` newest rows that the category keeps (`Scanned`), drops those that score
nothing (`Matching`) and returns the best `ResultLimit`. The scores themselves are not
modelled: `search(q, C)` is the set of all results that some scores give, and `C` any
set of rows that a category may keep. The calls are synchronous and one process has the
file open; a second process is not modelled.

### ProfileMemory

`LongTermMemory` and the daily file, await by await. `Records` are the calls of
`recordConversation` (they share the object of the process), `Pages` the set-up pages,
each of which makes an object of its own; boot reads the profile and writes it back;
`CloudRestore` writes an absent file. A write is two steps, because `writeFile` empties
the file before it writes, and a crash may come in between. `Quiet` and `intact` name
the condition under which nothing is lost: no two writers overlapped, and no crash hit a
write. `MaxHistory` is the 200 conversations that are kept. `memory/history.ts` has the
same shape but calls the synchronous file functions, so that nothing happens in between:
it needs no model.

### GhostSlots

`toggleShadowMode`, `toggleGhostSlot` and `stopAllGhosts`. A member of the sequence
`toggles` is one call that found something to do, at the await it stands at; it looks at
the slot once, at the beginning, and overwrites it when it is through. The shadow
browser is a slot too (`Shadow`): its code is the same. A browser and a mirror loop are
named by the toggle that started them. `accidents` counts per slot what the code has no
answer to: toggles that overlap on a slot, and set-ups that fail.

### PluginHost

`buildPlugin`, `runPlugin` and `stopPlugin`, with the processes they spawn. A process is
`up`, gone but not yet reported (`exited`), or reported; its exit listener knows only
the plugin's name. `hasty` counts the restarts while a stopped process had not yet been
reported. A spawn that fails keeps its entry, as the code does.

### GatewayBridge, RpcClient

`core/gateway-bridge.ts`. The handshake travels in the same map as the calls. `socket`
is the WebSocket the last `connect()` created (`closing`: closed or terminated, the
`close` event still to come). `requests` and `responses` are the frames under way on the
current connection; they may be overtaken by each other, which is more than TCP allows
for one request, and is what concurrent handlers of the gateway do. The gateway is
another process. What it accepts and what its frames look like is taken from
`core/source/gateway`: `GATEWAY_CLIENT_IDS`, the `payload` or `error` of a response
frame, the handshake timeout. `RpcClient` is the abstract specification: every call is
settled, once.

A WebSocket `send` on a socket that is closing does not throw (it reports to a
callback), so the catch around it is not modelled. Time is abstract: a timer may fire at
any moment.

### GhostGuard, BrowserSession

`GhostGuard` is the resource monitor of `core/guard/ghost-guard.ts` after `start()`:
`onResourceSample(r)` is one sample, with the hysteresis of the lite mode (`ToggleLite`)
and of the log watcher (`ToggleWatcher`). Memory is counted in half percents because
`getStats` reports it through `Math.round` (`Rounded`) while the thresholds compare the
sample itself. Alerts, which only go to the dashboard, and `stop()`, which nothing
calls, are left out; so is the log scanner with its heals, because the version of
chokidar that `package-lock.json` pins (4.0.3) no longer expands the glob that the
scanner watches, and no event reaches it.

`BrowserSession` extends it with `BrowserTools` and the gate of the executor. A member
of `Steps` is one execution of a browser step; `step[s].at` is the await it stands at:

| `at` | awaited call | actions |
|---|---|---|
| `idle` | - | `Gated`, `Ungated`, `browser_close`: the code up to the first await of `ensurePage` or `close` |
| `launching`, `contexting`, `paging` | `chromium.launch`, `newContext`, `newPage` | `Launched`, `ContextMade`, `PageMade`, `SetupFailed` |
| `using` | an operation on the page | `Operated`, `OperationFailed` |
| `closingContext`, `closingBrowser` | `context.close`, `browser.close` | `ContextClosed`, `BrowserClosed`, `CloseFailed` |

`browser`, `context` and `page` name the Chromium process that the field of that name
belongs to; `live` and `closed` are the processes that run and those whose context was
closed. A tool that asks for the page several times (a click followed by perception, the
extracts of a search) has `left` calls to make; the two extracts that `browser_research`
starts together are two members of `Steps`. Playwright is external. `mishaps` is the
only history variable.

### NightOwl

The poll, the cooldown, `triggerNow`, and the only task of a shift whose result depends
on the shift before, the list of changed source files. Time is kept as an order: an
mtime is old, new or fresh with respect to the watermark and to the start of the shift.
`beyond` are the files that a walk did not reach (`MAX_SCAN_FILES`). The four other
tasks report what they find and keep nothing.

### CommandQueue, GatewayLoop

`CommandQueue` has the lanes of `command-queue.ts`. Starting commands is synchronous, so
every operation ends with its lane pumped (`Pumped`). A reset raises the generation of
the lanes, and a command of an earlier generation changes nothing when it settles.
`GatewayLoop` extends it with `run-loop.ts`: `loop` and `shutdown` are where the loop
and the signal handler stand, `HandlerStep` collects the awaits of the handler, and
`HandlerGoesOn` those that are sure to end: all but the close of the server. A restart
ends in a fresh process (`respawned`), or goes on in this one. `upsets` and `atRisk` are
history.

### DeliveryQueue, Outbox

The write-ahead queue of outbound messages: `files[d]` says which of `{id}.json`,
`{id}.delivered` and `failed/{id}.json` exist, `entry[d]` what the first contains. The
workers are each message's own delivery and the recoveries, one of which begins after
every start, each at one of its file operations or sends. `GatewayDies` is the end of
the process, or its replacement by a fresh one: it ends all workers and begins a
recovery. `GatewayRestarts` is a restart that keeps the process (`run-loop.ts:91`):
nobody waits for the deliveries and the recovery under way, and one more recovery begins
beside them. File operations may fail. A message is `strict`, or `best-effort` with or
without somebody who listens to its errors; a payload may be sent, fail, or be cancelled
by a hook (`SendCancelled`). `contended` (a recovery loaded the message while another
worker was at work on it), `excused`, `unrecorded`, `acked` and `sent` are history.
Backoff delays between retries are left open.

`Outbox` is what the writer of a message is promised: once it was written ahead it is
queued, and from there it is settled, if the channel took every payload of it or a
failed one was waived, or parked for somebody to look at; only before is it sent, and it
does not come back. `Status` reads this off the files: queued with a json, parked with
only `failed/`, and `lost`, which `Outbox` does not know, with neither.

### SessionLock, WriteLock

One session file: `lockFile` names the task whose `open(..., "wx")` made the lock file,
`written` and `tooOld` describe its contents, `heldLocks` is the map of each process,
`lockCount` the re-entrance count. `taskAt[t]` is the await of one call of
`acquireSessionWriteLock` and of its release:

| `taskAt` | awaited call | actions |
|---|---|---|
| `new` | - | `Acquire`: join the lock of the process, or try to make the file |
| `open`, `write`, `hold` | `fs.open`, `handle.writeFile` | `OpenLock`, `WriteLock`, `HoldLock` |
| `inspect`, `reclaim` | read of the payload and mtime, `fs.rm` | `InspectLock`, `ReclaimLock` |
| `in`, `remove` | the caller's section; `handle.close`, `fs.rm` | `Release`, `RemoveLock` |

The watchdog (`WatchdogReleases`, `WatchdogRemoves`), a termination signal that the
process survives or not, crashes, and the sweep of a gateway that starts (`Sweep`,
`SweepRemoves`) act on the same file. A release, the watchdog and a signal ignore a
removal that fails (`TriesRm`): the lock has left the map, its file stays, and nobody
but those who find it stale will try again (`leftover`). A reclaim that fails ends the
call, a sweep that fails goes on. Whoever inspects the file may be unable to read the
payload, or to learn its mtime (`SeemsStale`). `procfs` says whether processes have
start times in `/proc`; without them a reused pid looks alive, and a process may take
its own lock for an orphan. All processes run as one user: an `EPERM` of `kill(pid, 0)`,
which the code reads as a dead process, does not occur. `mishap` is history, and names
what the code cannot exclude.

`WriteLock` is what the callers of `acquireSessionWriteLock` are promised: a call comes
before its section, is inside, and after it; those inside are of one process and join
the first only if they allow re-entrance; a lock is taken from all of them at once
(`evicted`), and they are not told. `Stage` maps `taskAt` and `heldLocks` to this: a
task at `in` is inside as long as its process has the lock that it came in with.
`broken` is `mishap`; from then on `WriteLock` promises nothing.

## Runs

| Run | Instance | Properties |
|---|---|---|
| `OrchReliable` (`MCSubmissions`) | 2 calls, one after the other or at once, all routes, all error classes, 2 revisions, plans of 1-2 steps, a memory that does not throw | `SettledOnce`, `BusyOnlyInFlight`, `ActiveKeyUsable`, `RecurringErrorRepaired`, and the refinement of `GoalLifecycle` with its liveness |
| `Faults` (`MCFaults`) | orchestrator: 2 calls, memory reads and writes may throw, 1 revision; lock: 3 tasks in 2 processes, of the two in one process one joins its lock and one does not, deaths, failing removals, 1 sweep | `VerdictBudget`, `FailureIsFinal`, `EventuallyReturns`; `LockExclusive`, `CountExact`, the refinement of `WriteLock` |
| `Parts` (`MCParts`) | keys: all start-ups with one provider's keys (`.env` holds at most one backup), 1 key test with or without a model, 1 save; vectors: 2 terms, 3 inserts, 2 break-offs, 2 rows read, 1 result; memory: 2 records, 1 page, 1 crash, a history of 1; messages: 1 of 2 payloads, of each kind, 2 retries, 2 recoveries, 2 failures | `RotationActivates`, `SettingsKept`; `StatsSound`, `DistinctiveTermFound`; `MemoryKept`; `NoMessageLost`, `SendsBounded`, the refinement of `Outbox` |
| `Browser` (`MCBrowser`) | session: 2 overlapping steps, 3 launches, 1 crash, tools with 1 or 2 page requests, samples on the thresholds and below the first; ghosts: 2 slots and the shadow browser, 4 toggles, 1 trouble; plugins: 5 run requests of 1 name; gateway: 3 commands in 1 lane, limits up to 2, 3 iterations | `PressureSafe`, `NoOrphans`, `PageReady`; `GhostsControlled`; `PluginsTracked`; `LaneDiscipline`, `ServesProperly`, `RestartLoses` |
| `Live` (`MCLive`) | bridge: 2 calls, 2 drops, a gateway that knows the bridge's id; keys: as above, healing only; owl: 3 files, walks of 2; gateway: 2 commands, 2 lanes, limits up to 2, 2 iterations; lock: 2 tasks of one process, 1 sweep | `BridgeConsistent`, the refinement of `RpcClient`, `BridgeConnects`; `BackupsTried`; `DiffComplete`, `ChangesTold`; `NoStall`, `ShutdownEnds`; `LockFreed` |

Each of them but `Faults` also checks a type invariant (`TypeOK`, `PartsTypeOK`,
`ProcessesTypeOK`, `LiveTypeOK`). `PressureSafe` is `WatcherSafe` and
`EmergencyRefuses`. Two properties no run lists, because a refinement that one checks
entails them: `NoReplayAfterAck` (of `Outbox`) and `SectionsExclude` (of `WriteLock`);
both are theorems.

What the bounds leave in. Two calls are enough for the orchestrator because calls
interact only through three shared variables, each of which a single other call can set
to every value that matters (flag, map, key); the theorems below cover any number. The
parts of `Faults` have their type invariants in the other runs and as theorems. One
revision distinguishes the retry from the last attempt, two let a rotation and a
signature be repeated. Two terms distinguish a term that all entries have from one that
some have, and three entries are one more than are read and two more than are returned.
Two records and a page are enough for an overlap of two writers of either kind, and a
history of one for an entry to give way. One message meets its own delivery and two
recoveries, and two failures are any two of a crash, an in-process restart and a file
operation that fails, in any order. Two ghost slots let stop-all be before, at and
behind a slot that is toggled; four toggles are on, off, on of one slot and a second
call beside them. Two drops let a connection, a reconnect and a second close meet calls
of each. Two browser steps are enough for one to enter a session that another is
changing, three launches for a process to be replaced after a crash and again after a
close; the five samples (81, 84.5, 85, 90 and 95 %) lie on each threshold that the
properties compare, or next below it. Five run requests let a plugin be stopped and
restarted twice before the first exit is reported. Two tasks in one process and one in
another cover re-entrance, contention, and the reclaim of a dead process's lock by two
that find it. Two iterations of the run loop are a start, a restart in this process and
what it inherits from the first; with three, a restart with a fresh process can come
after one that has abandoned a command. Three commands in a lane of one place make two
wait, which is what an order needs; a lane of two places can be at its limit with one
waiting.

Deadlock is not checked where the system really may stop: all calls over, all inserts,
toggles or requests spent.

### Where the code does not do what it says

Seven runs end in a counterexample; `findings` in `PROJECT.json` quotes the lines.

| Run | Property | What happens |
|---|---|---|
| `OrchBusyCleared` | `InFlightMeansBusy` | of two overlapping runs the first to return lowers the flag of the other; NightOwl and the abort endpoint then see no run |
| `OrchDirectTwice` | `DirectAnnouncedOnce` | the fast path indexes inside its try block; if that throws it chats and announces again |
| `KeyRefusedAgain` | `RefusedKeyReplaced` | the healing reports that it rotated to a backup, and the request that follows reloads `.env` first, which puts back the key that was just refused |
| `KeyTestUsesIt` | `KeyTestUsesIt` | the request of a key test reloads `.env` first and is sent with the old key of the file |
| `BridgeUnknown` | `EventuallyConnected` | the id `mustb-bridge` is not one that the repository's gateway admits, so every handshake is refused |
| `BridgeUndefined` | `PayloadDelivered` | the gateway answers in `payload`, the bridge reads `result` |
| `GatewayDraining` | `DrainingEnds` | a restart signal that comes while a server starts drains the lanes and wakes nobody: the gateway serves and refuses every command |

Because of `BridgeUnknown` the run `Live` assumes a gateway whose list has the bridge's
id.

### Limits of the code that the conditions of the properties name

- `BusyOnlyInFlight`: a memory read that throws between the flag and the try block
  leaves the flag up. `RecurringErrorRepaired` holds for goals submitted one after the
  other: a success clears the signatures of the goals beside it. A run whose planning
  failed carries out the planner's one-step error report and is announced as completed
  (`fallback`).
- Rotation has no effect for a variable that `.env` sets: the next request reloads it.
  Hence `RotationActivates` and `BackupsTried` speak of keys from the shell, of one
  provider (`OPENROUTER_API_KEY` shadows the others), whose primary is filled.
- `SettingsKept`: after `update-key` with one key and `/api/setup` with another,
  requests stay with the first, because only the former writes the override (`saved` is
  then forgotten); a key test that throws leaves its key and its model (`spoiled`); the
  fallback to the free model is undone by a model in `.env`.
- A term that every entry contains has weight 0, so `DistinctiveTermFound` says nothing
  about it: the only entry of a store is never found. Nor does it promise entries behind
  the newest 2000 of the category, or those for which a full result has no room
  (`limit`, 8 unless told).
- `MemoryKept`: overlapping writers, and a crash between the emptying and the write of a
  file, lose what was there.
- `GhostsControlled`: two toggles that overlap on a slot, and a set-up that fails after
  its launch, each leave at most one browser and one loop that nothing closes.
- `PluginsTracked`: a plugin that is restarted before its stopped process was reported
  may be lost to the table, once per such restart.
- `NoMessageLost`: a best-effort message whose errors nobody listens to, and every one
  that the recovery sends, is acknowledged although payloads failed; so is a message of
  which a `message_sending` hook cancelled a payload, although the channel never took
  it; a message that an abort stops is not tried again. `SendsBounded`,
  `NoReplayAfterAck`, the refinement of `Outbox` and the retry bound of `DeliveryTypeOK`
  except `contended` messages, which a recovery loaded while their own delivery or
  another recovery was at work on them: each of the workers may send them, counts for
  itself, and does not see that another has settled them. After an in-process restart
  that is any message that the recovery before it has loaded and not yet finished.
  `NoMessageLost` holds for these too.
- `DiffComplete`: a file that the walk does not reach (`MAX_SCAN_FILES`) is left out.

- `ServesProperly`: after a failed start in this process the gateway lock stays given
  back, and after a signal during a start draining may stay on.
- `LockExclusive`, `SectionsExclude`, the refinement of `WriteLock` and `LockFreed` hold
  until one of five mishaps: a lock that is held for longer than `staleMs` (30 seconds
  for the session store) is taken from its holder; of two tasks that find a lock stale
  the second removes by path what the first has made since; the sweep of a starting
  gateway removes a lock that is just being written, cannot be read, or has been
  replaced; a lock that can be neither read nor dated is removed although its owner
  lives; without `/proc` a task takes the lock that another task of its own process is
  writing or removing for an orphan. Even without them a task from which the watchdog or
  a signal took the lock goes on in its section, because nothing tells it;
  `SectionsExclude` is about those that still have the lock. A file whose removal failed
  stays until it is found too old or its process is dead: it lets nobody in, but
  `LockFreed` and the second half of `LockExclusive` except it.
- `NoOrphans` and `PageReady`: two steps that overlap while one of them launches or
  closes (`overlap`) can start two Chromiums of which one is never closed, or clear the
  fields of a launch. If `context.close()` throws, `browser.close()` is skipped
  (`close`). If `newContext()` or `newPage()` throws, the browser stays connected and
  `ensurePage` returns the previous page or null from then on (`setup`). `web_search`
  and `browser_url` take no memory gate, though the comment on `checkBrowserRAM` says
  that it blocks browser operations. `Executor.cleanup`, documented to be called after
  the plan, has no caller: a session stays open until a step closes it.

## Fairness

Safety properties need none; the following is what the liveness properties use.

- `Orchestrator`: `WF_vars(Resume(r))`, every await returns: the LLM request, the tool,
  the timer. Timers do; the HTTP client and the tools have timeouts or are assumed to
  return. Nobody has to submit a goal, and errors may go on for ever.
- Bridge: timers fire; frames of an open connection are delivered; a closed socket is
  reported; the gateway answers a `connect` request or its handshake timer closes the
  connection (`core/source/gateway/server/ws-connection.ts:268`), does not reject the
  credentials for ever, and the WebSocket constructor does not throw for ever. The
  gateway owes no answer to a call.
- Keys: rate limits go on, which is the hypothesis of `BackupsTried`.
- NightOwl: the poll timer fires, the cooldown passes, the shift's steps are taken; that
  the machine stays idle is a hypothesis of `ChangesTold`, not an assumption.
- Gateway: the drain ends or runs out of time, the forced exit fires, and the gateway
  lock is given back and taken (`HandlerGoesOn`); a command may run for ever, the close
  of a server may hang, and the loop may stay in a start.
- Lock: promises of the file system settle and the watchdog comes round; a task may hold
  its lock for ever.

In `MCLive` each condition is restricted to the behaviours of its own component (`part =
"bridge" /\ ...`), so it says nothing about the others.

## Proofs

| Module | Theorem | Statement |
|---|---|---|
| `KeyRotationProofs` | `KeptUsable` | an environment that reloads and rotations make of another keeps, for each provider, a usable active key usable |
| `KeyEnvironmentProofs` | `KeysTyped` | `KeyTypeOK` |
| | `ShellRotates` | `RotationActivates` |
| | `SettingsStand` | `SettingsKept`, if no start-up has a key or a model that is first seen in a test (`TestsAreNew`) |
| `OrchestratorProofs` | `TypeCorrect` | `TypeOK` |
| | `BusyIsLowered` | `BusyOnlyInFlight`, if memory reads do not throw |
| | `KeyStaysUsable` | `ActiveKeyUsable` |
| | `KeysSettled` | no call waits on an environment that disagrees with `.env` (`EnvSettled`) |
| | `GoalSettledOnce` | `SettledOnce`, if the memory does not throw |
| | `OrchestratorImplementsLifecycle` | refinement of `GoalLifecycle!SafeSpec`, if the memory does not throw |
| | `FailuresAreFinal` | `FailureIsFinal` |
| | `BudgetKept` | `VerdictBudget` |
| | `RecurrencesAreRepaired` | `RecurringErrorRepaired`, if memory writes do not throw |
| `VectorStoreProofs` | `StoreNeverOvercounts`, `StoreDriftBounded`, `StoreStatsExact` | the three parts of `StatsSound` |
| | `StoreStatsSound`, `StoreFindsDistinctive` | `StatsSound`, `DistinctiveTermFound` |
| | `StoreTyped` | `TypeOK` |
| | `MemoryStays` | `MemoryKept` |
| | `MemoryTyped` | `MemTypeOK` |
| `AgentProofs` | `TypeCorrect` | `TypeOK` of the browser session |
| | `WatcherSafety` | `WatcherSafe` |
| | `EmergencyRefusal` | `EmergencyRefuses` |
| | `PressureSafety` | `PressureSafe`, both of them |
| | `NothingLeftBehind` | `NoOrphans` |
| | `PageIsReady` | `PageReady` |
| | `PluginsTyped`, `PluginsAreTracked` | `PluginTypeOK`, `PluginsTracked` |
| | `OwlTyped`, `NoChangeMissed` | `OwlTypeOK`, `DiffComplete` |
| | `GhostsTyped`, `GhostsStayControlled` | `GhostTypeOK`, `GhostsControlled` |
| `GatewayProofs` | `LockTyped` | `LockTypeOK` |
| | `LockIsExclusive` | `LockExclusive` |
| | `LockCountExact` | `CountExact` |
| | `LockImplementsWriteLock` | refinement of `WriteLock!Spec` |
| | `LockExcludesSections` | `SectionsExclude` |
| | `QueueTyped` | `QueueTypeOK` |
| | `LanesNeverStall` | `NoStall` |
| | `LanesKeepOrder` | `LaneDiscipline` |
| | `ServesAfterRestarts` | `ServesProperly` |
| | `RestartLosesOnlyWaiting` | `RestartLoses` |
| `DeliveryProofs` | `DeliveryTyped` | `DeliveryTypeOK` |
| | `MessagesAreKept` | `NoMessageLost` |
| | `SendsAreBounded` | `SendsBounded` |
| | `AckedIsNotReplayed` | `NoReplayAfterAck` |
| | `QueueImplementsOutbox` | refinement of `Outbox!Spec` |
| `GatewayBridgeProofs` | `BridgeTyped` | `TypeOK` |
| | `BridgeAgrees` | `BridgeConsistent` |
| | `BridgeImplementsRpc` | refinement of `RpcClient!SafeSpec` |
| | `UnknownNeverConnects` | under a gateway that does not list the bridge's id no call is ever sent |

The theorems hold for any set of calls, keys, terms, records, tasks, processes, plugins,
files, lanes, commands, messages and slots, any number of revisions, steps, retries and
toggles and any `.env` file, from the assumptions the modules name (`KeyAssumption`,
`OrchestratorAssumption`, `StoreAssumption`, `GuardAssumption`, `SessionLockAssumption`,
`DeliveryAssumption`, ...). They ask that bounds are natural numbers and that the value
for "none" is not one of the things that can be named: `KeyEnvironmentAssumption` that
no key is a provider's name or a mark of the model, `GhostAssumption` that the shadow
browser is not one of the numbered slots. With the four refinements, every safety
invariant and every action property that a run checks is the statement of a theorem;
where the table has an "if", it is a hypothesis of the theorem and a constant of the
run.

`KeyStaysUsable` and `ShellRotates` rest on the lemmas about `rotateApiKey` and
`reloadEnv`: the first alternative in the order of `envKeys` exists whenever there is
one (`FirstAlternativeIsFirst`), and writing it to its primary variable either changes
the active key to it or leaves the active key alone.

For `SettingsStand` three invariants follow the three histories. `SavedInv`: a saved key
is the override of the provider that `.env` names. `FellBackInv`: while a model was
chosen by the 402 fallback, a key test that is under way will put that model back.
`TestsInv`: without a spoiled test at most one is under way, no key of a test is
anywhere but in the variable that this test will restore, and its model only where it
will be put back.

`BusyIsLowered`: only `run` raises the flag and its call is then in flight; every action
that leaves flight lowers it. `GoalSettledOnce` and the refinement rest on
`ReliableStep`: with a reliable memory an action either emits nothing or emits the whole
announcement and returns. `BudgetKept` needs a strengthening that ties the number of
verdicts to the revision counter in agent mode and to the place in the code on the fast
path.

`RecurrencesAreRepaired` is about goals that come one after the other. `Counted` says
that one call is in flight at most and that the shared counters of the errors count at
least what that call has recorded: nobody else can have cleared them, and it clears them
itself only when it returns (`StepRecords`).

For the store the inductive invariant (`IInv`) follows the operation under way: on
insert, every term that is still to do is counted one less than it occurs; on delete,
every term already done. Broken-off operations turn these differences into drift, which
is why the invariant carries `faults`. Without it neither `NeverOvercounts` nor
`DriftBounded` is preserved by a single statement.

For the JSON memory, `MemInv` describes each document, in the file or in a process, by
the records it has: each once, none before its call (`Written`). An operation that is
alone writes the last document with its own change (`Upcoming`, stage by stage in
`JsonStage` and `DailyStage`), and a file that nobody is writing has all records that
returned, in their order, but those that the limit pushed out (`Keeps`). Appending to a
full history drops its oldest entry; the lemma `ShiftKeeps` shows that this loses no
record but the oldest.

For the monitor the strengthening is `LiteMeansHigh`: lite mode implies that the last
sample was at least 85 %. Such a sample rounds to 85 or more and the gate refuses from
82, hence `EmergencyRefuses`; the watcher is suspended from 95 % down to 90 %, both
within lite mode. `NothingLeftBehind` follows from `SessionOK`, which holds as long as
nothing has overlapped and no close has thrown: at most one step is changing the
session, whatever runs is the field `browser`, a launch is under way only when nothing
runs, and a close closes the field.

`PageIsReady` adds what a half-finished set-up may be (`ReadyOK`): the step that makes a
context or a page makes it for the process in the field `browser`, which is so as long
as there has been no mishap at all.

`PluginsAreTracked` counts. The processes a name has lost, and one more if the process
it has is about to be lost to a late exit, are no more than its hasty restarts
(`Tracked`): a restart in haste puts one process at risk, an exit that is reported late
turns the risk into a loss, and an exit in time removes it.

`NoChangeMissed` needs the walk under way (`DiffInv`): what has changed and has not been
told is newer than the watermark, and while a shift walks, it is still in the list, or
newer than the shift, or beyond the walk's reach. `OwlTyped` rests on `WalkIsBounded`:
the walk is cut off at `MAX_SCAN_FILES`.

For the ghost slots `GhostInv` keeps two accounts per slot, of browsers and of loops
(`Accounted`, `Paid`). The accidents of the slot pay for what is out of reach, for every
awaiting toggle but the first, and for what the slot holds while a toggle of it awaits,
because the end of that toggle may put this out of reach. `Named` says which toggle each
name is of, `Truthful` what an idle slot has, `Stopped` what stop-all has come past.
Only with `OffLoops`, which follows the loop that shadow mode still knows when it is
off, does it give the type invariant.

`LockExclusive` is not inductive, because whether a removal by path hits the right file
depends on everybody who is about to remove one. The strengthening has one claim at most
to the lock file: a task that writes or holds it, a process that holds it, or a process
that is removing it, and then the file is that claimant's; and whoever decided that a
file is stale decided on one of a dead process or one that its process could not remove,
or the mishap has happened. Each action hands the claim over, a removal that fails
leaves a file that nobody claims (`StaleIsDead`), and only the mishaps break it.

`CountExact` adds the sections (`CountInv`): the tasks that are in with a lock are of
its process, and their number is the count of the lock as long as the process has it;
without a mishap they lose it only to the watchdog or a signal (`evicted`). Entering and
leaving change the section and the count by one together.

For `LockImplementsWriteLock` each action is looked at with the eyes of the callers. A
task is inside only with the lock that its process has (`InsideHolds`), and by
`LockExclusive` that is one lock for all who are inside (`InsideTogether`): hence
whoever makes the lock file enters alone, and whoever enters besides has joined. A
release takes the process's lock only when the count says that nobody else is inside,
which is `CountExact`; the watchdog or a signal takes it from all inside.
`LockExcludesSections` is then proved of `WriteLock`, whose steps have it by induction,
and carried over by the refinement.

For the lanes, `LanesOK` ties the states of the commands to the queues and the active
sets. It is an operator over them, because an operation first changes a lane and then
pumps it: `PumpedLanes` says what pumping does to lanes that are in order, and each
operation is reduced to it. `NoStall` is then what pumping ends with. `LoopInv` says for
each place of the run loop and its signal handler which server there is and whether the
lock is held; it fails to be inductive only where a signal came during a start, which
`ServesProperly` excepts. `DrainInv` follows the commands through a drain: what waited
is `atRisk`, what ran was awaited or is at risk.

For the messages, `DeliveryInv` has a part per worker (`WorkerOK`: it has sent the
payloads before the one it is at, if nothing failed) and one per message. `Kept` is
`NoMessageLost`. A message that is not contended has one worker at a time (`Alone`,
lemma `SoleWorker`), so that its attempts add up (`Tallied`): while a recovery has an
entry that it has loaded and not begun, no other worker is at the message and the entry
is the one in the file; what was sent of a payload is at most the recorded retries, the
attempts whose end was not recorded, and the one under way. Once nobody can send it
again (`Finished`) only the sum stays (`Bounded`); `NoReplayAfterAck` holds because an
acknowledged message is finished. `DeliveryTyped` needs one fact more: while the retries
are being written the json is there (`OneFile`).

`QueueImplementsOutbox` needs two things besides. A worker that is not past the
acknowledgement has the json of its message (`QueuedOK`), so nothing is sent that is not
queued; and a message that was accepted and not acknowledged has a json or is in
`failed/` (`Filed`), so none is ever `lost`. That a message is settled only when all its
payloads were taken or waived is what `WorkerOK` says of the worker that acknowledges
it.

For the bridge the strengthening follows the handshake: before the socket is open
nothing is in the map or on its way (`Quiet`); then the challenge, then the handshake's
entry in the map, then the flag (`HandshakeOrder`); and a call is in the map, or a frame
of it on its way, only on a connected bridge (`CallsConnected`). The last is what keeps
frames of an old connection from settling a new call. `StepTold` says what each step
looks like to the callers, and the refinement is read off it. `UnknownNeverConnects` is
the finding `BridgeUnknown` for any calls, credentials and reconnects: its invariant is
that every answer to a handshake that is on its way is a refusal.

Only model-checked: all liveness, which is beyond the prover (`EventuallyReturns`,
`BackupsTried`, `BridgeConnects`, `ChangesTold`, `ShutdownEnds`, `LockFreed`, the
liveness of the refinements of `GoalLifecycle` and `RpcClient`), and the findings but
`UnknownNeverConnects`. The type invariants of the instances (`PartsTypeOK`,
`ProcessesTypeOK`, `LiveTypeOK`) put together those of the components, each of which is
a theorem.

## Not modelled, and why

- Most of the gateway daemon: 3600 files of agents, channels, plugins and commands. The
  four modules about it are its process-wide control; a conversation's way through the
  agents and the channel adapters is not modelled.
- Dashboard, mobile apps and extensions are products of their own.
- Doctor, onboarding, the tools, skills, identity and configuration stores are single
  synchronous calls or pure I/O. `memory/history.ts` is load, modify and save in
  synchronous calls, with no await in between. Observer and project intelligence write
  reports that nothing else reads.
- Cloud sync depends on a remote database; only its write to `user.json` is modelled.
  The authentication session and the remote access tunnel have a lifetime each and are
  left for later.
- The phases of the coordinator: a phase that fails is recorded as text and the goal is
  announced as completed; for the orchestrator that is a result, or a throw.
- Prompts, JSON parsing, scoring and ranking are data without control.
- A second process that writes `vectors.db`: its delete between two statements of an
  insert could make the statistics overcount.

## Plan

1. Proofs: the findings as theorems, where they hold for every value of the constants;
   shorter proofs of the ghost slots and the JSON memory.
2. `Coordinator`: the four phases, composed with the orchestrator's verdict.
3. `CloudSync` and `AuthSession`: the backup timer against restores, expiry and sign-out
   around awaits.
4. More of the gateway's control: the session store that the lock protects, and the
   reply queue of a conversation.
