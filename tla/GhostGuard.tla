------------------------------ MODULE GhostGuard ------------------------------
(***************************************************************************)
(* The resource monitor of GhostGuard: it samples the memory in use every  *)
(* five seconds and drives, with hysteresis, the lite mode that the        *)
(* executor and the orchestrator follow and the file watcher of the log    *)
(* scanner, which is closed while memory is critical.  The state is the    *)
(* one after start(), which the boot sequence calls once; stop() has no    *)
(* caller.  The alerts of a sample go to the dashboard only and are left   *)
(* out.  Memory is measured in half percents, so that rounding shows.      *)
(***************************************************************************)
EXTENDS Integers

CONSTANT RamLevels  \* the samples of ramUsagePct(), in half percents

ASSUME GuardAssumption == RamLevels \subseteq 0..200

VARIABLES
  lastRam,           \* _lastRam, 0 before the first sample
  liteActive,
  watcherSuspended,
  logWatchers,       \* how many watchers of the log directory are open
  isLiteMode         \* the orchestrator's copy of the lite mode

guard == <<lastRam, liteActive, watcherSuspended, logWatchers, isLiteMode>>

RAM_LITE_PCT == 90
RAM_CRIT_PCT == 95

HalfPct(p) == 2 * p

\* The memory that getStats() reports: Math.round, halves upwards.
Rounded(r) == (r + 1) \div 2

GuardTypeOK ==
  /\ lastRam \in RamLevels \cup {0}
  /\ liteActive \in BOOLEAN
  /\ watcherSuspended \in BOOLEAN
  /\ logWatchers \in Nat
  /\ isLiteMode \in BOOLEAN

GuardInit ==
  /\ lastRam = 0
  /\ liteActive = FALSE
  /\ watcherSuspended = FALSE
  /\ logWatchers = 1
  /\ isLiteMode = FALSE

\* The lite mode after sample r, and what the 'liteMode' event carries.
LiteAfter(r) ==
  \/ r >= HalfPct(RAM_LITE_PCT)
  \/ liteActive /\ r >= HalfPct(RAM_LITE_PCT - 5)

ToggleLite(r) ==
  /\ liteActive' = LiteAfter(r)
  /\ isLiteMode' = IF LiteAfter(r) = liteActive THEN isLiteMode ELSE LiteAfter(r)

\* Closing a watcher when memory gets critical, opening a new one when it is over.
ToggleWatcher(r) ==
  \/ /\ r >= HalfPct(RAM_CRIT_PCT) /\ ~watcherSuspended
     /\ watcherSuspended' = TRUE
     /\ logWatchers' = logWatchers - 1
  \/ /\ r < HalfPct(RAM_CRIT_PCT - 5) /\ watcherSuspended
     /\ watcherSuspended' = FALSE
     /\ logWatchers' = logWatchers + 1
  \/ /\ IF watcherSuspended THEN r >= HalfPct(RAM_CRIT_PCT - 5) ELSE r < HalfPct(RAM_CRIT_PCT)
     /\ UNCHANGED <<watcherSuspended, logWatchers>>

onResourceSample(r) ==
  /\ lastRam' = r
  /\ ToggleLite(r)
  /\ ToggleWatcher(r)

-----------------------------------------------------------------------------
\* getStats().safeMode never shows without liteMode: the watcher is only
\* suspended while the lite mode is on, though each of the two switches has
\* a threshold and a hysteresis of its own.
SafeModeIsLite == watcherSuspended => liteActive

\* Suspending and resuming neither leak nor lose a watcher of the log
\* directory: there is exactly one, or none while it is suspended.
OneWatcher == logWatchers = IF watcherSuspended THEN 0 ELSE 1

\* The two switches of a sample (ghost-guard.ts:211-234) agree about the watcher.
WatcherSafe == SafeModeIsLite /\ OneWatcher
=============================================================================
