----------------------------- MODULE AgentProofs -----------------------------
(***************************************************************************)
(* Four parts of the agent, each proved for itself: the browser session    *)
(* under GhostGuard, the plugins, the night shift and the ghost slots.     *)
(*                                                                         *)
(* The browser session is proved for any number of overlapping steps,      *)
(* launches and crashes, and for any samples of the memory. Two thresholds *)
(* carry the gate: lite mode implies a sample of at least 85 %, and that   *)
(* rounds to a value the gate refuses. The absence of orphans rests on     *)
(* exclusion: as long as the session was orderly, at most one step is      *)
(* changing it, every running process is the one of the field browser, and *)
(* a launch is only under way when nothing runs. That the page is ready    *)
(* needs more: whoever sets a session up does it for the process of the    *)
(* field browser.                                                          *)
(*                                                                         *)
(* For the plugins, PluginInv counts: the running processes that the table *)
(* has lost, and one more if the process it has is about to be lost, are   *)
(* no more than the hasty restarts. For the night shift, DiffInv adds to   *)
(* the property what the walk under way has behind it.                     *)
(*                                                                         *)
(* For the ghost slots, GhostInv keeps an account for each slot: its       *)
(* accidents pay for what is out of reach, for every awaiting toggle but   *)
(* the first, and for what it holds while a toggle of it awaits, which the *)
(* end of that toggle may put out of reach.                                *)
(*                                                                         *)
(* Type correctness needs a little more in each case: PluginRest, OwlRest  *)
(* and OffLoops.                                                           *)
(***************************************************************************)
EXTENDS BrowserSession, PluginHost, NightOwl, GhostSlots, FiniteSetTheorems,
        WellFoundedInduction, TLAPS

-----------------------------------------------------------------------------
(* The browser session and GhostGuard *)

LiteMeansHigh == liteActive => lastRam >= HalfPct(RAM_LITE_PCT - 5)

GuardInv == GuardTypeOK /\ LiteMeansHigh /\ SafeModeIsLite /\ OneWatcher

Orderly == mishaps \cap {"overlap", "close"} = {}

Exclusive == \A s, t \in Steps : Changing(s) /\ Changing(t) => s = t
OnlyBrowser == live \subseteq {browser}
LaunchesAlone == \A s \in Steps : step[s].at = "launching" => live = {}
ClosesBrowser == \A s \in Steps : step[s].at = "closingBrowser" => step[s].ref = browser

SessionOK == Exclusive /\ OnlyBrowser /\ LaunchesAlone /\ ClosesBrowser
SessionInv == Orderly => SessionOK

-----------------------------------------------------------------------------
\* A sample keeps what is known of the monitor.
LEMMA SampleStep ==
  ASSUME GuardInv, NEW r \in RamLevels, onResourceSample(r)
  PROVE  GuardInv'
<1> USE DEF HalfPct, RAM_LITE_PCT, RAM_CRIT_PCT
<1>1. r \in Int
  BY GuardAssumption
<1>t. lastRam' = r /\ ToggleWatcher(r)
  BY DEF onResourceSample
<1>l. liteActive' = LiteAfter(r)
  BY DEF onResourceSample, ToggleLite
<1>m. liteActive' <=> LiteAfter(r)
  BY <1>l, Zenon
<1>a. liteActive' => r >= 180 \/ (liteActive /\ r >= 170)
  BY <1>m DEF LiteAfter
<1>b. r >= 180 \/ (liteActive /\ r >= 170) => liteActive'
  BY <1>m DEF LiteAfter
<1>2. GuardTypeOK'
  <2>1. lastRam' \in RamLevels \cup {0}
    BY <1>t
  <2>2. liteActive' \in BOOLEAN /\ isLiteMode' \in BOOLEAN
    BY Zenon DEF GuardInv, GuardTypeOK, onResourceSample, ToggleLite, LiteAfter
  <2>3. watcherSuspended' \in BOOLEAN
    BY <1>t DEF GuardInv, GuardTypeOK, ToggleWatcher
  <2>4. logWatchers' \in Nat
    BY <1>t DEF GuardInv, GuardTypeOK, OneWatcher, ToggleWatcher
  <2>5. QED
    BY <2>1, <2>2, <2>3, <2>4 DEF GuardTypeOK
<1>3. LiteMeansHigh'
  BY <1>1, <1>t, <1>a DEF LiteMeansHigh
<1>4. SafeModeIsLite'
  <2>1. watcherSuspended' => r >= 180
    <3>1. CASE watcherSuspended
      BY <1>1, <1>t, <3>1 DEF ToggleWatcher
    <3>2. CASE ~watcherSuspended
      <4>1. r >= 190 \/ watcherSuspended' = watcherSuspended
        BY <1>t, <3>2 DEF ToggleWatcher
      <4>2. watcherSuspended' => r >= 190
        BY <4>1, <3>2, Zenon
      <4>3. QED
        BY <1>1, <4>2
    <3>3. QED
      BY <3>1, <3>2
  <2>2. QED
    BY <2>1, <1>b DEF SafeModeIsLite
<1>5. OneWatcher'
  BY <1>1, <1>t DEF GuardInv, OneWatcher, GuardTypeOK, ToggleWatcher
<1>6. QED
  BY <1>2, <1>3, <1>4, <1>5 DEF GuardInv

LEMMA GuardInitially == GuardInit => GuardInv
<1> SUFFICES ASSUME GuardInit PROVE GuardInv
  OBVIOUS
<1>1. GuardTypeOK
  BY DEF GuardInit, GuardTypeOK
<1>2. LiteMeansHigh /\ SafeModeIsLite /\ OneWatcher
  BY DEF GuardInit, LiteMeansHigh, SafeModeIsLite, OneWatcher
<1>3. QED
  BY <1>1, <1>2 DEF GuardInv

LEMMA GuardUnchanged == GuardInv /\ UNCHANGED guard => GuardInv'
BY DEF GuardInv, GuardTypeOK, LiteMeansHigh, SafeModeIsLite, OneWatcher, guard

\* Every step either samples the memory or leaves the monitor alone.
LEMMA GuardStep == GuardInv /\ [Next]_vars => GuardInv'
<1> SUFFICES ASSUME GuardInv, [Next]_vars PROVE GuardInv'
  OBVIOUS
<1>1. ASSUME NEW r \in RamLevels, Sampled(r) PROVE GuardInv'
  BY <1>1, SampleStep DEF Sampled
<1>2. ASSUME UNCHANGED guard PROVE GuardInv'
  BY <1>2, GuardUnchanged
<1>3. QED
  BY <1>1, <1>2 DEF Next, vars, Gated, Ungated, browser_close, Launched, ContextMade,
     PageMade, SetupFailed, Operated, OperationFailed, ContextClosed, BrowserClosed,
     CloseFailed, Crashed

\* The memory monitor: the watcher of the log directory is suspended under lite
\* mode only, and never leaked or lost, whatever the samples are.
THEOREM WatcherSafety == Spec => []WatcherSafe
<1>1. Init => GuardInv
  BY GuardInitially DEF Init
<1>2. GuardInv => WatcherSafe
  BY DEF GuardInv, WatcherSafe
<1>3. QED
  BY <1>1, <1>2, GuardStep, PTL DEF Spec

-----------------------------------------------------------------------------
\* The two shared beginnings and the shared end leave records of the type.
LEMMA StepRecords ==
  ASSUME TypeOK, NEW s \in Steps
  PROVE  /\ \A l \in 0..MaxRounds : ensurePage(s, l) => step' \in [Steps -> StepRecord]
         /\ \A l \in 0..MaxRounds, rf \in BOOLEAN, g \in BOOLEAN :
              close(s, l, rf, g) => step' \in [Steps -> StepRecord]
         /\ Detached(s) => step' \in [Steps -> StepRecord]
<1> USE DEF TypeOK, StepRecord, Idle, Setup, Teardown
<1>0. 0 \in 0..MaxRounds
  BY SessionAssumption
<1>1. ASSUME NEW l \in 0..MaxRounds, ensurePage(s, l) PROVE step' \in [Steps -> StepRecord]
  BY <1>0, <1>1 DEF ensurePage
<1>2. ASSUME NEW l \in 0..MaxRounds, NEW rf \in BOOLEAN, NEW g \in BOOLEAN, close(s, l, rf, g)
      PROVE  step' \in [Steps -> StepRecord]
  BY <1>0, <1>2 DEF close
<1>3. ASSUME Detached(s) PROVE step' \in [Steps -> StepRecord]
  BY <1>0, <1>3 DEF Detached
<1>4. QED
  BY <1>1, <1>2, <1>3

LEMMA MishapKinds ==
  ASSUME TypeOK, NEW kind \in {"overlap", "setup", "close"}, NEW c, Mark(kind, c)
  PROVE  mishaps' \subseteq {"overlap", "setup", "close"}
BY DEF Mark, TypeOK

\* Every step of the session keeps the type.
LEMMA TypeStep == GuardInv /\ TypeOK /\ [Next]_vars => TypeOK'
<1> SUFFICES ASSUME GuardInv, TypeOK, [Next]_vars PROVE TypeOK'
  OBVIOUS
<1>g. GuardTypeOK'
  BY GuardStep DEF GuardInv
<1>0. 0 \in 0..MaxRounds
  BY SessionAssumption
<1>r. ASSUME NEW n \in 1..MaxRounds PROVE n - 1 \in 0..MaxRounds
  BY SessionAssumption, <1>r
<1> USE DEF session, chromium
<1>1. ASSUME NEW s \in Steps, NEW n \in 1..MaxRounds, Gated(s, n) PROVE TypeOK'
  <2>1. step' \in [Steps -> StepRecord]
    <3>1. (Rounded(lastRam) >= BROWSER_RAM_LIMIT_PCT) \in BOOLEAN
      OBVIOUS
    <3>2. CASE ensurePage(s, n - 1)
      BY <3>2, <1>r, StepRecords
    <3>3. CASE close(s, n - 1, Rounded(lastRam) >= BROWSER_RAM_LIMIT_PCT, TRUE)
      BY <3>1, <3>3, <1>r, StepRecords
    <3>4. QED
      BY <1>1, <3>2, <3>3 DEF Gated
  <2>2. mishaps' \subseteq {"overlap", "setup", "close"}
    BY <1>1, MishapKinds DEF Gated, ensurePage, close, MarkOverlap
  <2>3. UNCHANGED <<session, chromium>>
    BY <1>1 DEF Gated, ensurePage, close
  <2>4. QED
    BY <1>g, <2>1, <2>2, <2>3 DEF TypeOK
<1>2. ASSUME NEW s \in Steps, NEW n \in 1..MaxRounds, Ungated(s, n) PROVE TypeOK'
  <2>1. step' \in [Steps -> StepRecord]
    BY <1>2, <1>r, StepRecords DEF Ungated
  <2>2. mishaps' \subseteq {"overlap", "setup", "close"}
    BY <1>2, MishapKinds DEF Ungated, ensurePage, MarkOverlap
  <2>3. QED
    BY <1>2, <1>g, <2>1, <2>2 DEF TypeOK, Ungated, ensurePage
<1>3. ASSUME NEW s \in Steps, browser_close(s) PROVE TypeOK'
  <2>1. step' \in [Steps -> StepRecord]
    BY <1>3, <1>0, StepRecords DEF browser_close
  <2>2. mishaps' \subseteq {"overlap", "setup", "close"}
    BY <1>3, MishapKinds DEF browser_close, close, MarkOverlap
  <2>3. UNCHANGED <<session, chromium>>
    BY <1>3 DEF browser_close, close
  <2>4. QED
    BY <1>g, <2>1, <2>2, <2>3 DEF TypeOK
<1>4. ASSUME NEW s \in Steps, NEW p \in Procs, Launched(s, p) PROVE TypeOK'
  <2>1. step' \in [Steps -> StepRecord]
    <3>1. [step[s] EXCEPT !.at = "contexting", !.ref = p] \in StepRecord
      BY <1>4 DEF TypeOK, StepRecord, Launched
    <3>2. step' = [step EXCEPT ![s] = [step[s] EXCEPT !.at = "contexting", !.ref = p]]
      BY <1>4 DEF Launched, TypeOK
    <3>3. QED
      BY <3>1, <3>2 DEF TypeOK
  <2>2. QED
    BY <1>4, <1>g, <2>1 DEF TypeOK, Launched
<1>5. ASSUME NEW s \in Steps, ContextMade(s) PROVE TypeOK'
  <2>1. step' \in [Steps -> StepRecord]
    BY <1>5 DEF ContextMade, TypeOK, StepRecord, Setup
  <2>2. QED
    BY <1>5, <1>g, <2>1 DEF TypeOK, ContextMade
<1>6. ASSUME NEW s \in Steps, PageMade(s) PROVE TypeOK'
  <2>1. step' \in [Steps -> StepRecord]
    BY <1>6 DEF PageMade, TypeOK, StepRecord, Setup
  <2>2. QED
    BY <1>6, <1>g, <2>1 DEF TypeOK, PageMade
<1>i. Idle \in StepRecord
  BY <1>0 DEF Idle, StepRecord
<1>7. ASSUME NEW s \in Steps, SetupFailed(s) \/ OperationFailed(s) PROVE TypeOK'
  <2>1. mishaps' \subseteq {"overlap", "setup", "close"}
    BY <1>7, MishapKinds DEF SetupFailed, OperationFailed, TypeOK
  <2>2. QED
    BY <1>7, <1>g, <1>i, <2>1 DEF TypeOK, SetupFailed, OperationFailed
<1>8. ASSUME NEW s \in Steps, Operated(s) PROVE TypeOK'
  <2>1. CASE step[s].left > 0 /\ ensurePage(s, step[s].left - 1)
    <3>1. step[s].left - 1 \in 0..MaxRounds
      BY <2>1, SessionAssumption DEF TypeOK, StepRecord
    <3>2. step' \in [Steps -> StepRecord]
      BY <2>1, <3>1, StepRecords
    <3>3. mishaps' \subseteq {"overlap", "setup", "close"}
      BY <2>1, MishapKinds DEF ensurePage, MarkOverlap
    <3>4. QED
      BY <1>8, <1>g, <2>1, <3>2, <3>3 DEF TypeOK, Operated, ensurePage
  <2>2. CASE step' = [step EXCEPT ![s] = Idle] /\ UNCHANGED <<session, mishaps>>
    BY <1>8, <1>g, <1>i, <2>2 DEF TypeOK, Operated
  <2>3. QED
    BY <1>8, <2>1, <2>2 DEF Operated
<1>9. ASSUME NEW s \in Steps, ContextClosed(s) PROVE TypeOK'
  <2>0. step[s].ref \in Procs
    BY <1>9 DEF TypeOK, StepRecord, ContextClosed
  <2>c. closed' \subseteq Procs
    BY <1>9, <2>0 DEF TypeOK, ContextClosed
  <2>1. CASE browser = None /\ Detached(s)
    <3>1. step' \in [Steps -> StepRecord]
      BY <2>1, StepRecords
    <3>2. QED
      BY <1>9, <1>g, <2>c, <2>1, <3>1 DEF TypeOK, ContextClosed, Detached
  <2>2. CASE browser # None
    <3>1. step' \in [Steps -> StepRecord]
      BY <1>9, <2>2 DEF TypeOK, ContextClosed, StepRecord, Teardown
    <3>2. QED
      BY <1>9, <1>g, <2>c, <2>2, <3>1 DEF TypeOK, ContextClosed
  <2>3. QED
    BY <1>9, <2>1, <2>2 DEF ContextClosed
<1>10. ASSUME NEW s \in Steps, BrowserClosed(s) \/ CloseFailed(s) PROVE TypeOK'
  <2>1. step' \in [Steps -> StepRecord]
    BY <1>10, StepRecords DEF BrowserClosed, CloseFailed
  <2>2. mishaps' \subseteq {"overlap", "setup", "close"}
    BY <1>10, MishapKinds DEF BrowserClosed, CloseFailed, TypeOK
  <2>3. QED
    BY <1>10, <1>g, <2>1, <2>2 DEF TypeOK, BrowserClosed, CloseFailed, Detached
<1>11. ASSUME NEW p \in Procs, Crashed(p) PROVE TypeOK'
  BY <1>11, <1>g, SessionAssumption DEF TypeOK, Crashed
<1>12. ASSUME NEW r \in RamLevels, Sampled(r) PROVE TypeOK'
  BY <1>12, <1>g DEF TypeOK, Sampled
<1>13. ASSUME UNCHANGED vars PROVE TypeOK'
  BY <1>13, <1>g DEF TypeOK, vars
<1>14. QED
  BY <1>1, <1>2, <1>3, <1>4, <1>5, <1>6, <1>7, <1>8, <1>9, <1>10, <1>11, <1>12, <1>13 DEF Next

LEMMA Initially == Init => TypeOK /\ GuardInv
<1> SUFFICES ASSUME Init PROVE TypeOK /\ GuardInv
  OBVIOUS
<1>1. GuardInv
  BY GuardInitially DEF Init
<1>2. Idle \in StepRecord
  BY SessionAssumption DEF Idle, StepRecord
<1>3. QED
  BY <1>1, <1>2, SessionAssumption DEF Init, TypeOK, GuardInv

\* Type correctness of the session.
THEOREM TypeCorrect == Spec => []TypeOK
<1>1. GuardInv /\ TypeOK /\ [Next]_vars => (GuardInv /\ TypeOK)'
  BY GuardStep, TypeStep
<1>2. QED
  BY Initially, <1>1, PTL DEF Spec

-----------------------------------------------------------------------------
\* What a step does to the record of another one: nothing.
LEMMA OthersStay ==
  ASSUME TypeOK, NEW s \in Steps, NEW t \in Steps, t # s,
         \/ \E n \in 1..MaxRounds : Gated(s, n) \/ Ungated(s, n)
         \/ browser_close(s) \/ \E p \in Procs : Launched(s, p)
         \/ ContextMade(s) \/ PageMade(s) \/ SetupFailed(s) \/ Operated(s)
         \/ OperationFailed(s) \/ ContextClosed(s) \/ BrowserClosed(s) \/ CloseFailed(s)
  PROVE  step'[t] = step[t]
BY DEF TypeOK, Gated, Ungated, browser_close, Launched, ContextMade, PageMade, SetupFailed,
   Operated, OperationFailed, ContextClosed, BrowserClosed, CloseFailed, ensurePage, close,
   Detached

\* The gate reads a memory above its limit whenever the lite mode is on.
LEMMA LiteIsRefused == GuardInv /\ liteActive => Rounded(lastRam) >= BROWSER_RAM_LIMIT_PCT
<1> SUFFICES ASSUME GuardInv, liteActive PROVE Rounded(lastRam) >= BROWSER_RAM_LIMIT_PCT
  OBVIOUS
<1>1. lastRam \in Int
  BY GuardAssumption DEF GuardInv, GuardTypeOK
<1>2. lastRam >= 170
  BY DEF GuardInv, LiteMeansHigh, HalfPct, RAM_LITE_PCT
<1>3. QED
  BY <1>1, <1>2 DEF Rounded, BROWSER_RAM_LIMIT_PCT

LEMMA RefusalStep ==
  GuardInv /\ TypeOK /\ EmergencyRefuses /\ [Next]_vars => EmergencyRefuses'
<1> SUFFICES ASSUME GuardInv, TypeOK, EmergencyRefuses, [Next]_vars, NEW t \in Steps,
                    step'[t].at \in Teardown, step'[t].gate
             PROVE  step'[t].refuse
  BY DEF EmergencyRefuses
<1>0. step \in [Steps -> StepRecord]
  BY DEF TypeOK
<1>u. ASSUME step'[t] = step[t] PROVE step'[t].refuse
  BY <1>u DEF EmergencyRefuses
<1>1. ASSUME NEW n \in 1..MaxRounds, Gated(t, n) PROVE step'[t].refuse
  <2>1. CASE ensurePage(t, n - 1)
    BY <2>1, <1>0 DEF ensurePage, Idle, Teardown
  <2>2. CASE liteActive /\ close(t, n - 1, Rounded(lastRam) >= BROWSER_RAM_LIMIT_PCT, TRUE)
    <3>1. step'[t].refuse = (Rounded(lastRam) >= BROWSER_RAM_LIMIT_PCT)
      BY <2>2, <1>0 DEF close
    <3>2. QED
      BY <2>2, <3>1, LiteIsRefused
  <2>3. QED
    BY <1>1, <2>1, <2>2 DEF Gated
<1>2. ASSUME NEW n \in 1..MaxRounds, Ungated(t, n) PROVE step'[t].refuse
  BY <1>2, <1>0 DEF Ungated, ensurePage, Idle, Teardown
<1>3. ASSUME browser_close(t) PROVE step'[t].refuse
  BY <1>3, <1>0 DEF browser_close, close
<1>4. ASSUME \/ \E p \in Procs : Launched(t, p)
             \/ ContextMade(t) \/ PageMade(t) \/ SetupFailed(t) \/ OperationFailed(t)
             \/ Operated(t) \/ BrowserClosed(t) \/ CloseFailed(t)
      PROVE  step'[t].refuse
  <2>1. CASE \/ \E p \in Procs : Launched(t, p)
             \/ ContextMade(t) \/ PageMade(t)
    <3>1. step'[t].at \in {"contexting", "paging", "using"}
      BY <2>1, <1>0 DEF Launched, ContextMade, PageMade, StepRecord
    <3>2. QED
      BY <3>1 DEF Teardown
  <2>2. CASE SetupFailed(t) \/ OperationFailed(t) \/ Operated(t)
    <3>1. CASE step' = [step EXCEPT ![t] = Idle]
      BY <3>1, <1>0 DEF Idle, Teardown
    <3>2. CASE ensurePage(t, step[t].left - 1)
      BY <3>2, <1>0 DEF ensurePage, Idle, Teardown
    <3>3. QED
      BY <2>2, <3>1, <3>2 DEF SetupFailed, OperationFailed, Operated
  <2>3. CASE BrowserClosed(t) \/ CloseFailed(t)
    <3>1. Detached(t)
      BY <2>3 DEF BrowserClosed, CloseFailed
    <3>2. QED
      BY <3>1, <1>0 DEF Detached, Idle, Teardown
  <2>4. QED
    BY <1>4, <2>1, <2>2, <2>3
<1>5. ASSUME ContextClosed(t) PROVE step'[t].refuse
  <2>1. CASE Detached(t)
    BY <2>1, <1>0 DEF Detached, Idle, Teardown
  <2>2. CASE step' = [step EXCEPT ![t].at = "closingBrowser", ![t].ref = browser]
    <3>1. step'[t].gate = step[t].gate /\ step'[t].refuse = step[t].refuse
      BY <2>2, <1>0 DEF StepRecord
    <3>2. step[t].at \in Teardown
      BY <1>5 DEF ContextClosed, Teardown
    <3>3. QED
      BY <3>1, <3>2 DEF EmergencyRefuses
  <2>3. QED
    BY <1>5, <2>1, <2>2 DEF ContextClosed
<1>6. ASSUME \/ \E p \in Procs : Crashed(p)
             \/ \E r \in RamLevels : Sampled(r)
             \/ UNCHANGED vars
      PROVE  step'[t].refuse
  BY <1>6, <1>u DEF Crashed, Sampled, vars
<1>7. QED
  <2>1. ASSUME NEW s \in Steps, s # t,
         \/ \E n \in 1..MaxRounds : Gated(s, n) \/ Ungated(s, n)
         \/ browser_close(s) \/ \E p \in Procs : Launched(s, p)
         \/ ContextMade(s) \/ PageMade(s) \/ SetupFailed(s) \/ Operated(s)
         \/ OperationFailed(s) \/ ContextClosed(s) \/ BrowserClosed(s) \/ CloseFailed(s)
        PROVE  step'[t].refuse
    BY <2>1, <1>u, OthersStay
  <2>2. QED
    BY <1>1, <1>2, <1>3, <1>4, <1>5, <1>6, <2>1 DEF Next

\* A step whose gate closes the session is refused, for any samples and any
\* number of overlapping steps.
THEOREM EmergencyRefusal == Spec => []EmergencyRefuses
<1>1. Init => TypeOK /\ GuardInv /\ EmergencyRefuses
  <2>1. Init => EmergencyRefuses
    BY DEF Init, EmergencyRefuses, Idle, Teardown
  <2>2. QED
    BY <2>1, Initially
<1>2. TypeOK /\ GuardInv /\ EmergencyRefuses /\ [Next]_vars
        => (TypeOK /\ GuardInv /\ EmergencyRefuses)'
  BY TypeStep, GuardStep, RefusalStep
<1>3. QED
  BY <1>1, <1>2, PTL DEF Spec

\* Together: the lite mode, the watcher and the gate agree under pressure, for any
\* samples and any number of overlapping steps (ghost-guard.ts 211-234,
\* executor.ts 97-112).
THEOREM PressureSafety == Spec => []PressureSafe
<1>1. WatcherSafe /\ EmergencyRefuses => PressureSafe
  BY DEF PressureSafe
<1>2. QED
  BY <1>1, WatcherSafety, EmergencyRefusal, PTL

-----------------------------------------------------------------------------
\* An orderly session has been orderly before, and is entered by a step only
\* while no other is changing it.
LEMMA OrderlyBefore ==
  ASSUME Orderly'
  PROVE  /\ \A kind, c : Mark(kind, c) => Orderly
         /\ UNCHANGED mishaps => Orderly
         /\ \A s \in Steps : MarkOverlap(s) => \A t \in Steps \ {s} : ~Changing(t)
<1>1. ASSUME NEW kind, NEW c, Mark(kind, c) PROVE Orderly
  BY <1>1 DEF Mark, Orderly
<1>2. ASSUME NEW s \in Steps, MarkOverlap(s) PROVE \A t \in Steps \ {s} : ~Changing(t)
  BY <1>2 DEF MarkOverlap, Mark, Orderly
<1>3. QED
  BY <1>1, <1>2 DEF Orderly

\* A step that alone is changing the session keeps the invariant when its own
\* record fits the fields and the processes.
LEMMA AloneOK ==
  ASSUME NEW s \in Steps,
         \A t \in Steps \ {s} : ~Changing(t) /\ step'[t] = step[t],
         live' \subseteq {browser'},
         step'[s].at = "launching" => live' = {},
         step'[s].at = "closingBrowser" => step'[s].ref = browser'
  PROVE  SessionOK'
<1>1. \A t \in Steps : Changing(t)' => t = s
  BY DEF Changing
<1>2. \A t \in Steps : step'[t].at \in {"launching", "closingBrowser"} => t = s
  BY <1>1 DEF Changing, Setup, Teardown
<1>3. QED
  BY <1>1, <1>2 DEF SessionOK, Exclusive, OnlyBrowser, LaunchesAlone, ClosesBrowser

\* The entry to the session: nothing runs when a launch begins.
LEMMA EntryOK ==
  ASSUME TypeOK, SessionOK, Orderly', NEW s \in Steps, NEW l, UNCHANGED live,
         \/ ensurePage(s, l)
         \/ \E rf, g \in BOOLEAN : close(s, l, rf, g)
  PROVE  SessionOK'
<1>0. step \in [Steps -> StepRecord] /\ live \subseteq {browser} /\ None \notin live
  BY SessionAssumption DEF TypeOK, SessionOK, OnlyBrowser
<1>1. \A t \in Steps \ {s} : ~Changing(t) /\ step'[t] = step[t]
  BY <1>0, OrderlyBefore DEF ensurePage, close
<1>2. UNCHANGED browser
  BY DEF ensurePage, close, session
<1>3. CASE ensurePage(s, l)
  <2>1. step'[s].at = "launching" => ~isOpen
    BY <1>0, <1>3 DEF ensurePage, Idle
  <2>2. step'[s].at # "closingBrowser"
    BY <1>0, <1>3 DEF ensurePage, Idle
  <2>3. step'[s].at = "launching" => live' = {}
    BY <1>0, <2>1 DEF isOpen
  <2>4. QED
    BY <1>0, <1>1, <1>2, <2>2, <2>3, AloneOK
<1>4. CASE \E rf, g \in BOOLEAN : close(s, l, rf, g)
  <2>1. step'[s].at # "launching"
    BY <1>0, <1>4 DEF close
  <2>2. step'[s].at = "closingBrowser" => step'[s].ref = browser
    BY <1>0, <1>4 DEF close
  <2>3. QED
    BY <1>0, <1>1, <1>2, <2>1, <2>2, AloneOK
<1>5. QED
  BY <1>3, <1>4

\* A step that stays among the same kind of awaits, or leaves them, while the
\* browser and the processes stay, takes nothing from the others.
LEMMA ProgressOK ==
  ASSUME SessionOK, NEW s \in Steps, UNCHANGED <<browser, live>>,
         \A t \in Steps \ {s} : step'[t] = step[t],
         Changing(s)' => Changing(s),
         step'[s].at # "launching",
         step'[s].at = "closingBrowser" => step'[s].ref = browser
  PROVE  SessionOK'
<1>1. \A t \in Steps : Changing(t)' => Changing(t)
  BY DEF Changing
<1>2. Exclusive'
  BY <1>1 DEF SessionOK, Exclusive
<1>3. OnlyBrowser' /\ LaunchesAlone' /\ ClosesBrowser'
  BY DEF SessionOK, OnlyBrowser, LaunchesAlone, ClosesBrowser
<1>4. QED
  BY <1>2, <1>3 DEF SessionOK

\* A close that ends leaves the fields empty and nothing running.
LEMMA DetachedOK ==
  ASSUME TypeOK, SessionOK, NEW s \in Steps, step[s].at \in Teardown, Detached(s), live' = {}
  PROVE  SessionOK'
<1>0. step \in [Steps -> StepRecord]
  BY DEF TypeOK
<1>1. \A t \in Steps \ {s} : ~Changing(t) /\ step'[t] = step[t]
  BY <1>0 DEF SessionOK, Exclusive, Changing, Detached
<1>2. step'[s].at # "closingBrowser"
  BY <1>0 DEF Detached, Idle
<1>3. QED
  BY <1>1, <1>2, AloneOK

LEMMA SessionStep == TypeOK /\ SessionInv /\ [Next]_vars => SessionInv'
<1> SUFFICES ASSUME TypeOK, SessionInv, [Next]_vars, Orderly' PROVE SessionOK'
  BY DEF SessionInv
<1>0. step \in [Steps -> StepRecord] /\ None \notin live
  BY SessionAssumption DEF TypeOK
<1>o. ASSUME NEW kind, NEW c, Mark(kind, c) PROVE SessionOK
  BY <1>o, OrderlyBefore DEF SessionInv
<1>p. ASSUME UNCHANGED mishaps PROVE SessionOK
  BY <1>p, OrderlyBefore DEF SessionInv
<1>1. ASSUME NEW s \in Steps, NEW n \in 1..MaxRounds, Gated(s, n) \/ Ungated(s, n)
      PROVE  SessionOK'
  <2>0. TRUE \in BOOLEAN /\ (Rounded(lastRam) >= BROWSER_RAM_LIMIT_PCT) \in BOOLEAN
    OBVIOUS
  <2>1. \/ ensurePage(s, n - 1)
        \/ \E rf, g \in BOOLEAN : close(s, n - 1, rf, g)
    BY <1>1, <2>0 DEF Gated, Ungated
  <2>2. SessionOK
    BY <2>1, <1>o DEF ensurePage, close, MarkOverlap
  <2>3. UNCHANGED live
    BY <1>1 DEF Gated, Ungated, chromium
  <2>4. QED
    BY <2>1, <2>2, <2>3, EntryOK
<1>2. ASSUME NEW s \in Steps, browser_close(s) PROVE SessionOK'
  <2>1. \E rf, g \in BOOLEAN : close(s, 0, rf, g)
    BY <1>2 DEF browser_close
  <2>2. SessionOK
    BY <2>1, <1>o DEF close, MarkOverlap
  <2>3. UNCHANGED live
    BY <1>2 DEF browser_close, chromium
  <2>4. QED
    BY <2>1, <2>2, <2>3, EntryOK
<1>3. ASSUME NEW s \in Steps, NEW p \in Procs, Launched(s, p) PROVE SessionOK'
  <2>1. SessionOK /\ step[s].at = "launching"
    BY <1>3, <1>p DEF Launched
  <2>2. live' = {p} /\ browser' = p
    BY <1>3, <2>1 DEF Launched, SessionOK, LaunchesAlone
  <2>3. \A t \in Steps \ {s} : ~Changing(t) /\ step'[t] = step[t]
    BY <1>0, <1>3, <2>1 DEF Launched, SessionOK, Exclusive, Changing, Setup
  <2>4. step'[s].at = "contexting"
    BY <1>0, <1>3 DEF Launched, StepRecord
  <2>5. QED
    BY <2>2, <2>3, <2>4, AloneOK
<1>4. ASSUME NEW s \in Steps, ContextMade(s) \/ PageMade(s) PROVE SessionOK'
  <2>1. SessionOK
    BY <1>4, <1>p DEF ContextMade, PageMade
  <2>2. \A t \in Steps \ {s} : step'[t] = step[t]
    BY <1>0, <1>4 DEF ContextMade, PageMade
  <2>3. step'[s].at \in {"paging", "using"} /\ Changing(s)
    BY <1>0, <1>4 DEF ContextMade, PageMade, StepRecord, Changing, Setup
  <2>4. UNCHANGED <<browser, live>>
    BY <1>4 DEF ContextMade, PageMade, chromium
  <2>5. QED
    BY <2>1, <2>2, <2>3, <2>4, ProgressOK
<1>5. ASSUME NEW s \in Steps,
             SetupFailed(s) \/ OperationFailed(s)
               \/ (step' = [step EXCEPT ![s] = Idle] /\ UNCHANGED <<session, chromium, mishaps>>)
      PROVE  SessionOK'
  <2>1. SessionOK
    BY <1>5, <1>p, <1>o DEF SetupFailed, OperationFailed
  <2>2. step' = [step EXCEPT ![s] = Idle] /\ UNCHANGED <<browser, live>>
    BY <1>5 DEF SetupFailed, OperationFailed, session, chromium
  <2>3. step'[s] = Idle /\ \A t \in Steps \ {s} : step'[t] = step[t]
    BY <1>0, <2>2
  <2>4. step'[s].at = "idle" /\ ~Changing(s)'
    BY <2>3 DEF Idle, Changing, Setup, Teardown
  <2>5. QED
    BY <2>1, <2>2, <2>3, <2>4, ProgressOK
<1>6. ASSUME NEW s \in Steps, Operated(s) PROVE SessionOK'
  <2>1. CASE ensurePage(s, step[s].left - 1)
    <3>1. SessionOK
      BY <2>1, <1>o DEF ensurePage, MarkOverlap
    <3>2. UNCHANGED live
      BY <1>6 DEF Operated, chromium
    <3>3. QED
      BY <2>1, <3>1, <3>2, EntryOK
  <2>2. CASE step' = [step EXCEPT ![s] = Idle] /\ UNCHANGED <<session, mishaps>>
    BY <1>5, <1>6, <2>2 DEF Operated
  <2>3. QED
    BY <1>6, <2>1, <2>2 DEF Operated
<1>7. ASSUME NEW s \in Steps, ContextClosed(s) PROVE SessionOK'
  <2>1. SessionOK /\ step[s].at \in Teardown /\ UNCHANGED live
    BY <1>7, <1>p DEF ContextClosed, Teardown
  <2>2. CASE browser = None /\ Detached(s)
    <3>1. live' = {}
      BY <1>0, <2>1, <2>2 DEF SessionOK, OnlyBrowser
    <3>2. QED
      BY <2>1, <2>2, <3>1, DetachedOK
  <2>3. CASE /\ step' = [step EXCEPT ![s].at = "closingBrowser", ![s].ref = browser]
             /\ UNCHANGED session
    <3>1. step'[s].at = "closingBrowser" /\ step'[s].ref = browser
      BY <1>0, <2>3 DEF StepRecord
    <3>2. \A t \in Steps \ {s} : step'[t] = step[t]
      BY <1>0, <2>3
    <3>3. Changing(s) /\ UNCHANGED browser
      BY <2>1, <2>3 DEF Changing, session
    <3>4. QED
      BY <2>1, <3>1, <3>2, <3>3, ProgressOK
  <2>4. QED
    BY <1>7, <2>2, <2>3 DEF ContextClosed
<1>8. ASSUME NEW s \in Steps, BrowserClosed(s) PROVE SessionOK'
  <2>1. SessionOK /\ step[s].at = "closingBrowser"
    BY <1>8, <1>p DEF BrowserClosed
  <2>2. live' = {}
    BY <1>8, <2>1 DEF BrowserClosed, SessionOK, OnlyBrowser, ClosesBrowser
  <2>3. QED
    BY <1>8, <2>1, <2>2, DetachedOK DEF BrowserClosed, Teardown
<1>9. ASSUME NEW s \in Steps, CloseFailed(s) PROVE SessionOK'
  BY <1>9 DEF CloseFailed, Mark, Orderly
<1>10. ASSUME \/ \E p \in Procs : Crashed(p)
              \/ \E r \in RamLevels : Sampled(r)
              \/ UNCHANGED vars
       PROVE  SessionOK'
  <2>1. SessionOK
    BY <1>10, <1>p DEF Crashed, Sampled, vars
  <2>2. UNCHANGED <<browser, step>> /\ live' \subseteq live
    BY <1>10 DEF Crashed, Sampled, vars, session, chromium
  <2>3. QED
    BY <2>1, <2>2 DEF SessionOK, Exclusive, OnlyBrowser, LaunchesAlone, ClosesBrowser, Changing
<1>11. QED
  BY <1>1, <1>2, <1>3, <1>4, <1>5, <1>6, <1>7, <1>8, <1>9, <1>10 DEF Next

\* No Chromium is left behind in an orderly session, for any number of
\* overlapping steps, launches and crashes.
THEOREM NothingLeftBehind == Spec => []NoOrphans
<1>1. Init => TypeOK /\ GuardInv /\ SessionInv
  <2>1. Init => SessionInv
    BY DEF Init, SessionInv, SessionOK, Exclusive, OnlyBrowser, LaunchesAlone, ClosesBrowser,
       Idle, Changing, Setup, Teardown
  <2>2. QED
    BY <2>1, Initially
<1>2. TypeOK /\ GuardInv /\ SessionInv /\ [Next]_vars => (TypeOK /\ GuardInv /\ SessionInv)'
  BY TypeStep, GuardStep, SessionStep
<1>3. SessionInv => NoOrphans
  BY DEF SessionInv, SessionOK, OnlyBrowser, Orderly, NoOrphans, Orphans
<1>4. QED
  BY <1>1, <1>2, <1>3, PTL DEF Spec

-----------------------------------------------------------------------------
\* Nothing has overlapped or failed half-way: whoever sets a session up does it
\* for the process of the field browser, and one at rest is complete.
ReadyOK ==
  /\ isOpen /\ (\A s \in Steps : ~Changing(s)) => page = browser /\ context = browser
  /\ \A s \in Steps : step[s].at \in {"contexting", "paging"} => step[s].ref = browser
  /\ \A s \in Steps : step[s].at = "paging" => context = browser

ReadyInv == mishaps = {} => ReadyOK

\* The fields stay, and the step that moves either was not changing them, still
\* is, or leaves when nothing runs.
LEMMA SameFields ==
  ASSUME ReadyOK, UNCHANGED session, live' \subseteq live, NEW s \in Steps,
         \A t \in Steps \ {s} : step'[t] = step[t],
         step'[s].at \notin {"contexting", "paging"},
         ~Changing(s) \/ Changing(s)' \/ live = {}
  PROVE  ReadyOK'
<1>1. isOpen' => isOpen
  BY DEF isOpen, session
<1>2. \A t \in Steps \ {s} : Changing(t)' <=> Changing(t)
  BY DEF Changing
<1>3. isOpen' /\ (\A t \in Steps : ~Changing(t)') => page = browser /\ context = browser
  BY <1>1, <1>2 DEF ReadyOK, isOpen
<1>4. UNCHANGED <<browser, context, page>>
  BY DEF session
<1>5. \A t \in Steps : step'[t].at \in {"contexting", "paging"} => t # s /\ step'[t] = step[t]
  OBVIOUS
<1>6. QED
  BY <1>3, <1>4, <1>5 DEF ReadyOK

\* A call of ensurePage or close by a step that was at rest.
LEMMA EntryReady ==
  ASSUME TypeOK, ReadyOK, NEW s \in Steps, NEW l, UNCHANGED live, ~Changing(s),
         \/ ensurePage(s, l)
         \/ \E rf, g \in BOOLEAN : close(s, l, rf, g)
  PROVE  ReadyOK'
<1>1. step \in [Steps -> StepRecord] /\ UNCHANGED session
  BY DEF TypeOK, ensurePage, close
<1>2. \A t \in Steps \ {s} : step'[t] = step[t]
  BY <1>1 DEF ensurePage, close
<1>3. step'[s].at \notin {"contexting", "paging"}
  <2>1. CASE ensurePage(s, l)
    BY <1>1, <2>1 DEF ensurePage, Idle
  <2>2. CASE \E rf, g \in BOOLEAN : close(s, l, rf, g)
    BY <1>1, <2>2 DEF close
  <2>3. QED
    BY <2>1, <2>2
<1>4. QED
  BY <1>1, <1>2, <1>3, SameFields

\* A close that ends, or breaks off, leaves the fields empty.
LEMMA DetachedReady ==
  ASSUME TypeOK, SessionOK, NEW s \in Steps, step[s].at \in Teardown, Detached(s)
  PROVE  ReadyOK'
<1>1. step \in [Steps -> StepRecord]
  BY DEF TypeOK
<1>2. \A t \in Steps \ {s} : ~Changing(t) /\ step'[t] = step[t]
  BY <1>1 DEF SessionOK, Exclusive, Changing, Detached
<1>3. step'[s].at \notin {"contexting", "paging"} /\ ~isOpen'
  BY <1>1 DEF Detached, Idle, isOpen
<1>4. \A t \in Steps : step'[t].at \notin {"contexting", "paging"}
  BY <1>2, <1>3 DEF Changing, Setup
<1>5. QED
  BY <1>3, <1>4 DEF ReadyOK

LEMMA ReadyStep == TypeOK /\ SessionInv /\ ReadyInv /\ [Next]_vars => ReadyInv'
<1> SUFFICES ASSUME TypeOK, SessionInv, ReadyInv, [Next]_vars, mishaps' = {} PROVE ReadyOK'
  BY DEF ReadyInv
<1>0. step \in [Steps -> StepRecord] /\ None \notin live /\ live \subseteq Procs
  BY SessionAssumption DEF TypeOK
<1>1. mishaps = {}
  BY DEF Next, Gated, Ungated, browser_close, Launched, ContextMade, PageMade, SetupFailed,
     Operated, OperationFailed, ContextClosed, BrowserClosed, CloseFailed, Crashed, Sampled,
     ensurePage, close, MarkOverlap, Mark, vars
<1>2. ReadyOK /\ SessionOK
  BY <1>1 DEF ReadyInv, SessionInv, Orderly
<1>3. ASSUME NEW s \in Steps, NEW n \in 1..MaxRounds, Gated(s, n) \/ Ungated(s, n)
      PROVE  ReadyOK'
  <2>0. TRUE \in BOOLEAN /\ (Rounded(lastRam) >= BROWSER_RAM_LIMIT_PCT) \in BOOLEAN
    OBVIOUS
  <2>1. \/ ensurePage(s, n - 1)
        \/ \E rf, g \in BOOLEAN : close(s, n - 1, rf, g)
    BY <1>3, <2>0 DEF Gated, Ungated
  <2>2. UNCHANGED live /\ ~Changing(s)
    <3>1. step[s] = Idle /\ UNCHANGED chromium
      BY <1>3 DEF Gated, Ungated
    <3>2. QED
      BY <3>1 DEF chromium, Changing, Setup, Teardown, Idle
  <2>3. QED
    BY <1>2, <2>1, <2>2, EntryReady
<1>4. ASSUME NEW s \in Steps, browser_close(s) PROVE ReadyOK'
  <2>1. \E rf, g \in BOOLEAN : close(s, 0, rf, g)
    BY <1>4 DEF browser_close
  <2>2. UNCHANGED live /\ ~Changing(s)
    BY <1>4 DEF browser_close, chromium, Changing, Setup, Teardown, Idle
  <2>3. QED
    BY <1>2, <2>1, <2>2, EntryReady
<1>5. ASSUME NEW s \in Steps, NEW p \in Procs, Launched(s, p) PROVE ReadyOK'
  <2>1. step[s].at = "launching" /\ browser' = p
    BY <1>5 DEF Launched
  <2>2. \A t \in Steps \ {s} : ~Changing(t) /\ step'[t] = step[t]
    BY <1>0, <1>2, <1>5, <2>1 DEF Launched, SessionOK, Exclusive, Changing, Setup
  <2>3. step'[s].at = "contexting" /\ step'[s].ref = p
    BY <1>0, <1>5 DEF Launched, StepRecord
  <2>4. Changing(s)' /\ \A t \in Steps \ {s} : step'[t].at \notin {"contexting", "paging"}
    BY <2>2, <2>3 DEF Changing, Setup
  <2>5. QED
    BY <2>1, <2>3, <2>4 DEF ReadyOK
<1>6. ASSUME NEW s \in Steps, ContextMade(s) PROVE ReadyOK'
  <2>1. /\ step[s].at = "contexting" /\ step[s].ref = browser
        /\ context' = browser /\ UNCHANGED browser
    BY <1>2, <1>6 DEF ContextMade, ReadyOK
  <2>2. \A t \in Steps \ {s} : ~Changing(t) /\ step'[t] = step[t]
    BY <1>0, <1>2, <1>6, <2>1 DEF ContextMade, SessionOK, Exclusive, Changing, Setup
  <2>3. step'[s].at = "paging" /\ step'[s].ref = browser
    BY <1>0, <1>6, <2>1 DEF ContextMade, StepRecord
  <2>4. Changing(s)' /\ \A t \in Steps \ {s} : step'[t].at \notin {"contexting", "paging"}
    BY <2>2, <2>3 DEF Changing, Setup
  <2>5. QED
    BY <2>1, <2>3, <2>4 DEF ReadyOK
<1>7. ASSUME NEW s \in Steps, PageMade(s) PROVE ReadyOK'
  <2>1. /\ step[s].at = "paging" /\ step[s].ref = browser /\ context = browser
        /\ page' = browser /\ UNCHANGED <<browser, context>>
    BY <1>2, <1>7 DEF PageMade, ReadyOK
  <2>2. \A t \in Steps \ {s} : ~Changing(t) /\ step'[t] = step[t]
    BY <1>0, <1>2, <1>7, <2>1 DEF PageMade, SessionOK, Exclusive, Changing, Setup
  <2>3. step'[s].at = "using"
    BY <1>0, <1>7 DEF PageMade, StepRecord
  <2>4. \A t \in Steps : step'[t].at \notin {"contexting", "paging"}
    BY <2>2, <2>3 DEF Changing, Setup
  <2>5. QED
    BY <2>1, <2>4 DEF ReadyOK
<1>8. ASSUME NEW s \in Steps, SetupFailed(s) PROVE ReadyOK'
  <2>1. step[s].at = "launching"
    BY <1>8 DEF SetupFailed, Mark
  <2>2. live = {} /\ UNCHANGED <<session, live>>
    BY <1>2, <1>8, <2>1 DEF SetupFailed, SessionOK, LaunchesAlone, chromium
  <2>3. step'[s] = Idle /\ \A t \in Steps \ {s} : step'[t] = step[t]
    BY <1>0, <1>8 DEF SetupFailed
  <2>4. QED
    BY <1>2, <2>2, <2>3, SameFields DEF Idle
<1>9. ASSUME NEW s \in Steps, Operated(s) \/ OperationFailed(s) PROVE ReadyOK'
  <2>1. ~Changing(s) /\ UNCHANGED live
    BY <1>9 DEF Operated, OperationFailed, Changing, Setup, Teardown, chromium
  <2>2. CASE ensurePage(s, step[s].left - 1)
    BY <1>2, <2>1, <2>2, EntryReady
  <2>3. CASE step' = [step EXCEPT ![s] = Idle] /\ UNCHANGED session
    <3>1. step'[s] = Idle /\ \A t \in Steps \ {s} : step'[t] = step[t]
      BY <1>0, <2>3
    <3>2. QED
      BY <1>2, <2>1, <2>3, <3>1, SameFields DEF Idle
  <2>4. QED
    BY <1>9, <2>2, <2>3 DEF Operated, OperationFailed
<1>10. ASSUME NEW s \in Steps, ContextClosed(s) PROVE ReadyOK'
  <2>1. step[s].at \in Teardown /\ UNCHANGED live
    BY <1>10 DEF ContextClosed, Teardown
  <2>2. CASE browser = None /\ Detached(s)
    BY <1>2, <2>1, <2>2, DetachedReady
  <2>3. CASE /\ step' = [step EXCEPT ![s].at = "closingBrowser", ![s].ref = browser]
             /\ UNCHANGED session
    <3>1. step'[s].at = "closingBrowser" /\ \A t \in Steps \ {s} : step'[t] = step[t]
      BY <1>0, <2>3 DEF StepRecord
    <3>2. Changing(s)'
      BY <3>1 DEF Changing, Teardown
    <3>3. QED
      BY <1>2, <2>1, <2>3, <3>1, <3>2, SameFields
  <2>4. QED
    BY <1>10, <2>2, <2>3 DEF ContextClosed
<1>11. ASSUME NEW s \in Steps, BrowserClosed(s) \/ CloseFailed(s) PROVE ReadyOK'
  BY <1>2, <1>11, DetachedReady DEF BrowserClosed, CloseFailed, Teardown
<1>12. ASSUME \/ \E p \in Procs : Crashed(p)
              \/ \E r \in RamLevels : Sampled(r)
              \/ UNCHANGED vars
       PROVE  ReadyOK'
  <2>1. UNCHANGED <<browser, context, page, step>> /\ live' \subseteq live
    BY <1>12 DEF Crashed, Sampled, vars, session, chromium
  <2>2. QED
    BY <1>2, <2>1 DEF ReadyOK, isOpen, Changing
<1>13. QED
  BY <1>3, <1>4, <1>5, <1>6, <1>7, <1>8, <1>9, <1>10, <1>11, <1>12 DEF Next

\* As long as nothing has overlapped or failed half-way, an open session at
\* rest has the page and the context of the browser that runs, for any number
\* of steps, launches and crashes: ensurePage (tools/browser.ts 184-205)
\* returns no null and no page of a dead browser.
THEOREM PageIsReady == Spec => []PageReady
<1>1. Init => TypeOK /\ GuardInv /\ SessionInv /\ ReadyInv
  <2>1. Init => SessionInv /\ ReadyInv
    BY DEF Init, SessionInv, SessionOK, Exclusive, OnlyBrowser, LaunchesAlone, ClosesBrowser,
       ReadyInv, ReadyOK, isOpen, Idle, Changing, Setup, Teardown
  <2>2. QED
    BY <2>1, Initially
<1>2. TypeOK /\ GuardInv /\ SessionInv /\ ReadyInv /\ [Next]_vars
        => (TypeOK /\ GuardInv /\ SessionInv /\ ReadyInv)'
  BY TypeStep, GuardStep, SessionStep, ReadyStep
<1>3. ReadyInv => PageReady
  BY DEF ReadyInv, ReadyOK, PageReady
<1>4. QED
  BY <1>1, <1>2, <1>3, PTL DEF Spec

-----------------------------------------------------------------------------
(* The plugins *)

Processes == [plugin : Plugins, state : {"up", "stopping", "exited", "gone", "failed"}]

PluginTypes ==
  /\ process \in Seq(Processes)
  /\ running \in [Plugins -> Nat] /\ \A n \in Plugins : running[n] \in 0..Len(process)
  /\ hasty \in [Plugins -> Nat]

\* The processes the table does not know, and whether the one it knows of a
\* name may still be forgotten: the exit event of another one can come.
Lost(n) == {p \in ProcessesOf(n) : process[p].state = "up" /\ running[n] # p}
AtRisk(n) == running[n] # 0 /\ process[running[n]].state = "up" /\ Haste(n)

Tracked(n) == Cardinality(Lost(n)) + (IF AtRisk(n) THEN 1 ELSE 0) <= hasty[n]

PluginInv ==
  /\ PluginTypes /\ ListedRuns
  /\ \A n \in Plugins : Tracked(n)

LEMMA LostFinite ==
  ASSUME PluginTypes, NEW n
  PROVE  IsFiniteSet(Lost(n)) /\ Cardinality(Lost(n)) \in Nat
<1>1. Len(process) \in Nat
  BY DEF PluginTypes
<1>2. IsFiniteSet(Spawned)
  BY <1>1, FS_Interval DEF Spawned
<1>3. IsFiniteSet(Lost(n))
  BY <1>2, FS_Subset DEF Lost, ProcessesOf
<1>4. QED
  BY <1>3, FS_CardinalityType

\* A process changes its state.
LEMMA StateChanges ==
  ASSUME PluginTypes, NEW p \in Spawned, NEW to \in {"up", "stopping", "exited", "gone", "failed"},
         process' = [process EXCEPT ![p].state = to]
  PROVE  /\ process' \in Seq(Processes) /\ Len(process') = Len(process)
         /\ process'[p].state = to /\ process'[p].plugin = process[p].plugin
         /\ process[p].plugin \in Plugins
         /\ \A q \in Spawned : q # p => process'[q] = process[q]
<1>1. process \in Seq(Processes) /\ p \in 1..Len(process)
  BY DEF PluginTypes, Spawned
<1>2. process[p] \in Processes
  BY <1>1
<1> DEFINE x == [process[p] EXCEPT !.state = to]
<1>3. x \in Processes /\ x.state = to /\ x.plugin = process[p].plugin
  BY <1>2 DEF Processes
<1>4. process' = [process EXCEPT ![p] = x]
  OBVIOUS
<1> HIDE DEF x
<1>5. process' \in Seq(Processes) /\ Len(process') = Len(process)
  BY <1>1, <1>3, <1>4
<1>6. process'[p] = x /\ \A q \in 1..Len(process) : q # p => process'[q] = process[q]
  BY <1>1, <1>4
<1>7. QED
  BY <1>2, <1>3, <1>5, <1>6 DEF Spawned, Processes

\* A name whose processes and whose entry stay as they are stays tracked.
LEMMA OtherNames ==
  ASSUME PluginTypes, NEW n \in Plugins, Tracked(n),
         running'[n] = running[n], hasty'[n] = hasty[n],
         running[n] # 0 => running[n] \in ProcessesOf(n),
         ProcessesOf(n)' = ProcessesOf(n),
         \A q \in ProcessesOf(n) : process'[q] = process[q]
  PROVE  Tracked(n)'
<1>1. Lost(n)' = Lost(n)
  BY DEF Lost
<1>2. AtRisk(n)' <=> AtRisk(n)
  BY DEF AtRisk, Haste, Leaving
<1>3. QED
  BY <1>1, <1>2 DEF Tracked

LEMMA RunPluginKept ==
  ASSUME PluginInv, NEW n \in Plugins, RunPlugin(n)
  PROVE  PluginInv'
<1>1. PluginTypes /\ ListedRuns /\ \A m \in Plugins : Tracked(m)
  BY DEF PluginInv
<1>2. CASE UNCHANGED <<process, running, hasty>>
  BY <1>1, <1>2 DEF PluginInv, PluginTypes, ListedRuns, Tracked, Lost, AtRisk, Haste, Leaving,
                    ProcessesOf, Spawned
<1>3. CASE running[n] = 0 /\ Launch(n)
  <2> DEFINE x == [plugin |-> n, state |-> IF CommandOf(n) \in Interpreters THEN "up" ELSE "failed"]
             l == Len(process) + 1
  <2>1. x \in Processes /\ x.plugin = n /\ x.state \in {"up", "failed"}
    BY DEF Processes
  <2>2. /\ process' = Append(process, x) /\ running' = [running EXCEPT ![n] = l]
        /\ hasty' = [hasty EXCEPT ![n] = IF Haste(n) THEN @ + 1 ELSE @]
    BY <1>3 DEF Launch
  <2> HIDE DEF x
  <2>3. process \in Seq(Processes) /\ Len(process) \in Nat
    BY <1>1 DEF PluginTypes
  <2>4. /\ process' \in Seq(Processes) /\ Len(process') = l
        /\ process'[l] = x /\ \A q \in Spawned : process'[q] = process[q]
    BY <2>1, <2>2, <2>3 DEF Spawned
  <2>5. Spawned' = Spawned \cup {l} /\ l \notin Spawned
    BY <2>3, <2>4 DEF Spawned
  <2>6. /\ running' \in [Plugins -> Nat] /\ running'[n] = l
        /\ \A m \in Plugins : m # n => running'[m] = running[m]
        /\ hasty' \in [Plugins -> Nat] /\ hasty'[n] = (IF Haste(n) THEN hasty[n] + 1 ELSE hasty[n])
        /\ \A m \in Plugins : m # n => hasty'[m] = hasty[m]
    BY <1>1, <2>2, <2>3 DEF PluginTypes
  <2>7. PluginTypes'
    BY <1>1, <2>3, <2>4, <2>6 DEF PluginTypes
  <2>8. /\ \A m \in Plugins : m # n => ProcessesOf(m)' = ProcessesOf(m)
        /\ ProcessesOf(n)' = ProcessesOf(n) \cup {l}
        /\ \A m \in Plugins : running[m] # 0 => running[m] \in ProcessesOf(m)
    BY <1>1, <2>1, <2>4, <2>5 DEF ProcessesOf, ListedRuns, PluginTypes, Spawned
  <2>9. ListedRuns'
    BY <1>1, <2>1, <2>4, <2>6, <2>8 DEF ListedRuns, ProcessesOf
  <2>10. ASSUME NEW m \in Plugins, m # n
         PROVE  Tracked(m)'
    <3>1. \A q \in ProcessesOf(m) : process'[q] = process[q]
      BY <2>4 DEF ProcessesOf
    <3>2. QED
      BY <1>1, <2>6, <2>8, <2>10, <3>1, OtherNames
  <2>11. Tracked(n)'
    <3>1. \A q \in ProcessesOf(n) : q \in Spawned /\ q # l /\ q # 0 /\ process'[q] = process[q]
      BY <2>3, <2>4, <2>5 DEF ProcessesOf, Spawned
    <3>2. Lost(n)' = Lost(n)
      BY <1>3, <2>6, <2>8, <3>1 DEF Lost
    <3>3. Haste(n)' <=> Haste(n)
      BY <1>3, <2>6, <2>8, <3>1 DEF Haste, Leaving
    <3>4. AtRisk(n)' => Haste(n)
      BY <3>3 DEF AtRisk
    <3>5. Cardinality(Lost(n)) <= hasty[n]
      <4>1. ~AtRisk(n)
        BY <1>3 DEF AtRisk
      <4>2. QED
        BY <1>1, <4>1, LostFinite DEF Tracked
    <3>6. hasty[n] \in Nat /\ Cardinality(Lost(n)) \in Nat
      BY <1>1, LostFinite DEF PluginTypes
    <3>7. Cardinality(Lost(n)) + (IF AtRisk(n)' THEN 1 ELSE 0) <= hasty'[n]
      BY <2>6, <3>4, <3>5, <3>6
    <3>8. QED
      BY <3>2, <3>7 DEF Tracked
  <2>12. QED
    BY <2>7, <2>9, <2>10, <2>11 DEF PluginInv
<1>4. QED
  BY <1>2, <1>3 DEF RunPlugin

\* A process leaves a state, and the entry of its name stays or is deleted.
LEMMA EntryKept ==
  ASSUME PluginInv, NEW n \in Plugins, NEW p \in ProcessesOf(n), hasty' = hasty,
         NEW to \in {"stopping", "exited", "gone", "failed"},
         process' = [process EXCEPT ![p].state = to],
         \/ /\ running' = running
            /\ to = "exited" /\ process[p].state \in {"up", "stopping"}
         \/ /\ running' = [running EXCEPT ![n] = 0]
            /\ running[n] = p \/ Leaving(p)
  PROVE  PluginInv'
<1>1. PluginTypes /\ ListedRuns /\ \A m \in Plugins : Tracked(m)
  BY DEF PluginInv
<1>2. p \in Spawned /\ process[p].plugin = n
  BY DEF ProcessesOf
<1>3. /\ process' \in Seq(Processes) /\ Len(process') = Len(process)
      /\ process'[p].state = to /\ process'[p].plugin = n
      /\ \A q \in Spawned : q # p => process'[q] = process[q]
  BY <1>1, <1>2, StateChanges
<1>4. Spawned' = Spawned /\ \A m \in Plugins : ProcessesOf(m)' = ProcessesOf(m)
  BY <1>2, <1>3 DEF ProcessesOf, Spawned
<1>5. /\ running' \in [Plugins -> Nat] /\ \A m \in Plugins : running'[m] \in 0..Len(process)
      /\ \A m \in Plugins : m # n => running'[m] = running[m]
      /\ running'[n] = running[n] \/ running'[n] = 0
  <2>1. /\ running \in [Plugins -> Nat] /\ \A m \in Plugins : running[m] \in 0..Len(process)
        /\ 0 \in 0..Len(process)
    BY <1>1 DEF PluginTypes
  <2>2. CASE running' = running
    BY <2>1, <2>2
  <2>3. CASE running' = [running EXCEPT ![n] = 0]
    BY <2>1, <2>3
  <2>4. QED
    BY <2>2, <2>3
<1>6. PluginTypes'
  BY <1>1, <1>3, <1>5 DEF PluginTypes
<1>7. \A m \in Plugins : running[m] # 0 => running[m] \in ProcessesOf(m)
  BY <1>1 DEF ProcessesOf, ListedRuns, PluginTypes, Spawned
<1>8. \A m \in Plugins : m # n => p \notin ProcessesOf(m)
  BY <1>2 DEF ProcessesOf
<1>9. ListedRuns'
  <2> SUFFICES ASSUME NEW m \in Plugins, running'[m] # 0
               PROVE  /\ process'[running'[m]].plugin = m
                      /\ process'[running'[m]].state \in {"up", "exited", "failed"}
    BY DEF ListedRuns
  <2>1. running'[m] = running[m] /\ running[m] \in Spawned
    BY <1>5, <1>7 DEF ProcessesOf
  <2>2. CASE running[m] # p
    BY <1>1, <1>3, <2>1, <2>2 DEF ListedRuns
  <2>3. CASE running[m] = p
    <3>1. m = n
      BY <1>7, <1>8, <2>1, <2>3
    <3>2. to \in {"exited", "failed"}
      BY <1>1, <2>1, <2>3, <3>1 DEF PluginTypes
    <3>3. QED
      BY <1>3, <2>1, <2>3, <3>1, <3>2
  <2>4. QED
    BY <2>2, <2>3
<1>10. ASSUME NEW m \in Plugins, m # n
       PROVE  Tracked(m)'
  <2>1. \A q \in ProcessesOf(m) : process'[q] = process[q]
    BY <1>3, <1>8, <1>10 DEF ProcessesOf
  <2>2. QED
    BY <1>1, <1>4, <1>5, <1>7, <1>10, <2>1, OtherNames
<1>11. Tracked(n)'
  <2> DEFINE q == running[n]
  <2>1. /\ Cardinality(Lost(n)) \in Nat /\ Cardinality(Lost(n))' \in Nat /\ hasty[n] \in Nat
        /\ IsFiniteSet(Lost(n)) /\ IsFiniteSet(Lost(n)')
        /\ Cardinality(Lost(n)) + (IF AtRisk(n) THEN 1 ELSE 0) <= hasty[n]
    <3>1. Cardinality(Lost(n)) \in Nat /\ IsFiniteSet(Lost(n))
      BY <1>1, LostFinite
    <3>2. (PluginTypes => Cardinality(Lost(n)) \in Nat /\ IsFiniteSet(Lost(n)))'
      BY LostFinite, PTL
    <3>3. QED
      BY <1>1, <1>6, <3>1, <3>2 DEF PluginTypes, Tracked
  <2>2. \A r \in ProcessesOf(n) : r # p => process'[r] = process[r]
    BY <1>3 DEF ProcessesOf
  <2>3. CASE running' = running /\ to = "exited" /\ process[p].state \in {"up", "stopping"}
    <3>1. Lost(n)' \subseteq Lost(n)
      BY <1>3, <1>4, <2>2, <2>3 DEF Lost
    <3>2. AtRisk(n)' => AtRisk(n)
      BY <1>3, <1>4, <1>7, <2>2, <2>3 DEF AtRisk, Haste, Leaving
    <3>3. Cardinality(Lost(n)') <= Cardinality(Lost(n))
      BY <2>1, <3>1, FS_Subset
    <3>4. QED
      BY <2>1, <3>2, <3>3 DEF Tracked
  <2>4. CASE running' = [running EXCEPT ![n] = 0] /\ (running[n] = p \/ Leaving(p))
    <3>1. running'[n] = 0 /\ ~AtRisk(n)'
      BY <1>1, <2>4 DEF PluginTypes, AtRisk
    <3>2. Lost(n)' \subseteq Lost(n) \cup {running[n]}
      BY <1>3, <1>4, <2>2 DEF Lost
    <3>3. AtRisk(n) \/ Lost(n)' \subseteq Lost(n)
      BY <1>3, <1>4, <2>2, <2>4 DEF Lost, AtRisk, Haste
    <3>4. CASE Lost(n)' \subseteq Lost(n)
      <4>1. Cardinality(Lost(n)') <= Cardinality(Lost(n))
        BY <2>1, <3>4, FS_Subset
      <4>2. QED
        BY <2>1, <3>1, <4>1 DEF Tracked
    <3>5. CASE AtRisk(n)
      <4>1. /\ IsFiniteSet(Lost(n) \cup {running[n]})
            /\ Cardinality(Lost(n) \cup {running[n]}) <= Cardinality(Lost(n)) + 1
            /\ Cardinality(Lost(n) \cup {running[n]}) \in Nat
        <5>1. /\ IsFiniteSet(Lost(n) \cup {running[n]})
              /\ Cardinality(Lost(n) \cup {running[n]}) \in {Cardinality(Lost(n)), Cardinality(Lost(n)) + 1}
          BY <2>1, FS_AddElement
        <5>2. QED
          BY <2>1, <5>1
      <4>2. Cardinality(Lost(n)') <= Cardinality(Lost(n) \cup {running[n]})
        BY <3>2, <4>1, FS_Subset
      <4>3. QED
        BY <2>1, <3>1, <3>5, <4>1, <4>2 DEF Tracked
    <3>6. QED
      BY <3>3, <3>4, <3>5
  <2>5. QED
    BY <2>3, <2>4
<1>12. QED
  BY <1>6, <1>9, <1>10, <1>11 DEF PluginInv

LEMMA PluginStepKept ==
  ASSUME PluginInv, [PluginNext]_pluginVars
  PROVE  PluginInv'
<1>1. PluginTypes /\ ListedRuns /\ \A m \in Plugins : Tracked(m)
  BY DEF PluginInv
<1>2. ASSUME NEW n \in Plugins, RunPlugin(n)
      PROVE  PluginInv'
  BY <1>2, RunPluginKept
<1>3. ASSUME NEW n \in Plugins, StopPlugin(n)
      PROVE  PluginInv'
  <2> DEFINE p == running[n]
             to == IF process[p].state = "up" THEN "stopping" ELSE process[p].state
  <2>1. /\ p # 0 /\ hasty' = hasty /\ running' = [running EXCEPT ![n] = 0]
        /\ process' = [process EXCEPT ![p].state = to]
    BY <1>3 DEF StopPlugin
  <2>2. p \in ProcessesOf(n) /\ process[p].state \in {"up", "exited", "failed"}
    BY <1>1, <2>1 DEF ListedRuns, ProcessesOf, Spawned, PluginTypes
  <2>3. to \in {"stopping", "exited", "gone", "failed"}
    BY <2>2
  <2> HIDE DEF to
  <2>4. QED
    BY <2>1, <2>2, <2>3, EntryKept
<1>4. ASSUME NEW n \in Plugins, NEW command, BuildPlugin(n, command)
      PROVE  PluginInv'
  BY <1>1, <1>4 DEF BuildPlugin, PluginInv, PluginTypes, ListedRuns, Tracked, Lost, AtRisk, Haste,
                    Leaving, ProcessesOf, Spawned
<1>5. ASSUME NEW p \in Spawned
      PROVE  process[p].plugin \in Plugins /\ p \in ProcessesOf(process[p].plugin)
  <2>1. process[p] \in Processes
    BY <1>1 DEF PluginTypes, Spawned
  <2>2. QED
    BY <2>1 DEF ProcessesOf, Processes
<1>6. ASSUME NEW p \in Spawned, Exits(p)
      PROVE  PluginInv'
  BY <1>5, <1>6, EntryKept DEF Exits, Becomes
<1>7. ASSUME NEW p \in Spawned, ExitEvent(p)
      PROVE  PluginInv'
  BY <1>5, <1>7, EntryKept DEF ExitEvent, Becomes, Leaving
<1>8. CASE UNCHANGED pluginVars
  BY <1>1, <1>8 DEF pluginVars, PluginInv, PluginTypes, ListedRuns, Tracked, Lost, AtRisk, Haste,
                    Leaving, ProcessesOf, Spawned
<1>9. QED
  BY <1>2, <1>3, <1>4, <1>6, <1>7, <1>8 DEF PluginNext

LEMMA PluginInvInit == PluginInit => PluginInv
<1> SUFFICES ASSUME PluginInit
             PROVE  PluginInv
  OBVIOUS
<1>1. PluginTypes /\ ListedRuns
  BY DEF PluginInit, PluginTypes, ListedRuns
<1>2. ASSUME NEW n \in Plugins
      PROVE  Tracked(n)
  <2>1. Lost(n) = {} /\ ~AtRisk(n) /\ hasty[n] = 0
    BY DEF PluginInit, Lost, AtRisk, ProcessesOf, Spawned
  <2>2. QED
    BY <2>1, FS_EmptySet DEF Tracked
<1>3. QED
  BY <1>1, <1>2 DEF PluginInv

\* For any plugins and any order of runs, stops and late exits, the table of
\* running plugins shows what runs, and a process is lost to it at most once
\* for each restart that came before the exit of the process before was
\* reported (runPlugin, stopPlugin and the exit listener of core/plugin-
\* architect.ts).
THEOREM PluginsAreTracked == PluginSpec => []PluginsTracked
<1>1. PluginInit => PluginInv
  BY PluginInvInit
<1>2. PluginInv /\ [PluginNext]_pluginVars => PluginInv'
  BY PluginStepKept
<1>3. PluginInv => PluginsTracked
  <2> SUFFICES ASSUME PluginInv, NEW n \in Plugins
               PROVE  Cardinality({p \in ProcessesOf(n) : process[p].state = "up" /\ running[n] # p}) <= hasty[n]
    BY DEF PluginInv, PluginsTracked, LostOnlyByHaste
  <2>1. Cardinality(Lost(n)) \in Nat /\ hasty[n] \in Nat /\ Tracked(n)
    BY LostFinite DEF PluginInv, PluginTypes
  <2>2. QED
    BY <2>1 DEF Tracked, Lost
<1>4. QED
  BY <1>1, <1>2, <1>3, PTL DEF PluginSpec

\* Every process of a name answers a run request, and every run request has left
\* a listener.
PluginRest ==
  /\ scripts \in [Plugins -> SUBSET {"node", "python3"}]
  /\ listeners \in [Plugins -> 0..MaxRequests]
  /\ \A n \in Plugins : Cardinality(ProcessesOf(n)) <= listeners[n]

LEMMA ProcessesFinite ==
  ASSUME PluginTypes, NEW n
  PROVE  IsFiniteSet(ProcessesOf(n)) /\ Cardinality(ProcessesOf(n)) \in Nat
<1>1. Len(process) \in Nat
  BY DEF PluginTypes
<1>2. IsFiniteSet(Spawned)
  BY <1>1, FS_Interval DEF Spawned
<1>3. IsFiniteSet(ProcessesOf(n))
  BY <1>2, FS_Subset DEF ProcessesOf
<1>4. QED
  BY <1>3, FS_CardinalityType

LEMMA PluginRestKept ==
  ASSUME PluginInv, PluginRest, [PluginNext]_pluginVars
  PROVE  PluginRest'
<1>1. /\ PluginTypes /\ process \in Seq(Processes) /\ Len(process) \in Nat
      /\ scripts \in [Plugins -> SUBSET {"node", "python3"}] /\ listeners \in [Plugins -> 0..MaxRequests]
      /\ MaxRequests \in Nat
      /\ \A n \in Plugins : Cardinality(ProcessesOf(n)) <= listeners[n]
  BY PluginAssumption DEF PluginInv, PluginTypes, PluginRest
<1>2. ASSUME NEW n \in Plugins, NEW command \in {"node", "python3"}, BuildPlugin(n, command)
      PROVE  PluginRest'
  BY <1>1, <1>2 DEF BuildPlugin, PluginRest, ProcessesOf, Spawned
<1>3. ASSUME NEW n \in Plugins, RunPlugin(n)
      PROVE  PluginRest'
  <2>1. /\ listeners' \in [Plugins -> 0..MaxRequests] /\ listeners'[n] = listeners[n] + 1
        /\ \A m \in Plugins : m # n => listeners'[m] = listeners[m]
        /\ scripts' = scripts
    BY <1>1, <1>3 DEF RunPlugin, Wired
  <2>2. ASSUME NEW m \in Plugins
        PROVE  Cardinality(ProcessesOf(m)') <= Cardinality(ProcessesOf(m)) + (IF m = n THEN 1 ELSE 0)
    <3>1. CASE process' = process
      <4>1. ProcessesOf(m)' = ProcessesOf(m)
        BY <3>1 DEF ProcessesOf, Spawned
      <4>2. QED
        BY <1>1, <4>1, ProcessesFinite
    <3>2. CASE Launch(n)
      <4>1. PICK x : process' = Append(process, x) /\ x.plugin = n
        BY <3>2 DEF Launch
      <4>2. /\ Spawned' = Spawned \cup {Len(process) + 1}
            /\ process'[Len(process) + 1].plugin = n /\ \A q \in Spawned : process'[q] = process[q]
        BY <1>1, <4>1 DEF Spawned
      <4>3. CASE m = n
        <5>1. ProcessesOf(m)' = ProcessesOf(m) \cup {Len(process) + 1}
          BY <4>2, <4>3 DEF ProcessesOf
        <5>2. Cardinality(ProcessesOf(m)') \in {Cardinality(ProcessesOf(m)), Cardinality(ProcessesOf(m)) + 1}
          <6>1. IsFiniteSet(ProcessesOf(m))
            BY <1>1, ProcessesFinite
          <6>2. QED
            BY <5>1, <6>1, FS_AddElement
        <5>3. QED
          BY <1>1, <4>3, <5>2, ProcessesFinite
      <4>4. CASE m # n
        <5>1. ProcessesOf(m)' = ProcessesOf(m)
          BY <4>2, <4>4 DEF ProcessesOf
        <5>2. QED
          BY <1>1, <4>4, <5>1, ProcessesFinite
      <4>5. QED
        BY <4>3, <4>4
    <3>3. QED
      BY <1>3, <3>1, <3>2 DEF RunPlugin
  <2>3. PluginTypes'
    <3>1. PluginInv'
      BY PluginStepKept
    <3>2. QED
      BY <3>1 DEF PluginInv
  <2>4. ASSUME NEW m \in Plugins
        PROVE  Cardinality(ProcessesOf(m)') <= listeners'[m]
    <3>1. /\ Cardinality(ProcessesOf(m)) \in Nat /\ Cardinality(ProcessesOf(m)') \in Nat
          /\ listeners[m] \in Nat /\ Cardinality(ProcessesOf(m)) <= listeners[m]
      <4>1. ProcessesOf(m)' \subseteq 1..Len(process') /\ Len(process') \in Nat
        BY <2>3 DEF PluginTypes, ProcessesOf, Spawned
      <4>2. Cardinality(ProcessesOf(m)') \in Nat
        <5>1. IsFiniteSet(1..Len(process'))
          BY <4>1, FS_Interval
        <5>2. IsFiniteSet(ProcessesOf(m)')
          BY <4>1, <5>1, FS_Subset
        <5>3. QED
          BY <5>2, FS_CardinalityType
      <4>3. QED
        BY <1>1, <4>2, ProcessesFinite
    <3>2. QED
      BY <2>1, <2>2, <3>1
  <2>5. QED
    BY <1>1, <2>1, <2>4 DEF PluginRest
<1>4. ASSUME NEW p \in Spawned, NEW to \in {"up", "stopping", "exited", "gone", "failed"},
             process' = [process EXCEPT ![p].state = to], UNCHANGED <<scripts, listeners>>
      PROVE  PluginRest'
  <2>1. /\ Len(process') = Len(process) /\ process'[p].plugin = process[p].plugin
        /\ \A q \in Spawned : q # p => process'[q] = process[q]
    BY <1>1, <1>4, StateChanges
  <2>2. Spawned' = Spawned /\ \A n \in Plugins : ProcessesOf(n)' = ProcessesOf(n)
    BY <2>1 DEF ProcessesOf, Spawned
  <2>3. QED
    BY <1>1, <1>4, <2>2 DEF PluginRest
<1>5. ASSUME NEW n \in Plugins, StopPlugin(n)
      PROVE  PluginRest'
  <2>1. running[n] \in Spawned /\ process[running[n]] \in Processes
    BY <1>1, <1>5 DEF StopPlugin, PluginTypes, Spawned
  <2>2. PICK to : to = IF process[running[n]].state = "up" THEN "stopping" ELSE process[running[n]].state
    OBVIOUS
  <2>3. to \in {"up", "stopping", "exited", "gone", "failed"}
    BY <2>1, <2>2 DEF Processes
  <2>4. process' = [process EXCEPT ![running[n]].state = to] /\ UNCHANGED <<scripts, listeners>>
    BY <1>5, <2>2 DEF StopPlugin
  <2>5. QED
    BY <1>4, <2>1, <2>3, <2>4
<1>6. ASSUME NEW p \in Spawned, Exits(p) \/ ExitEvent(p)
      PROVE  PluginRest'
  BY <1>4, <1>6 DEF Exits, ExitEvent, Becomes
<1>7. CASE UNCHANGED pluginVars
  BY <1>1, <1>7 DEF pluginVars, PluginRest, ProcessesOf, Spawned
<1>8. QED
  BY <1>2, <1>3, <1>5, <1>6, <1>7 DEF PluginNext

\* Type correctness of the plugin host, for any plugins and requests; no name
\* has more processes than run requests were made for it.
THEOREM PluginsTyped == PluginSpec => []PluginTypeOK
<1>1. PluginInit => PluginInv /\ PluginRest
  <2> SUFFICES ASSUME PluginInit
               PROVE  PluginRest
    BY PluginInvInit
  <2>1. \A n \in Plugins : ProcessesOf(n) = {}
    BY DEF PluginInit, ProcessesOf, Spawned
  <2>2. \A n \in Plugins : Cardinality(ProcessesOf(n)) = 0
    BY <2>1, FS_EmptySet
  <2>3. /\ scripts \in [Plugins -> SUBSET {"node", "python3"}]
        /\ listeners \in [Plugins -> 0..MaxRequests] /\ \A n \in Plugins : listeners[n] = 0
    BY PluginAssumption DEF PluginInit
  <2>4. QED
    BY <2>2, <2>3 DEF PluginRest
<1>2. PluginInv /\ PluginRest /\ [PluginNext]_pluginVars => (PluginInv /\ PluginRest)'
  BY PluginStepKept, PluginRestKept
<1>3. PluginInv /\ PluginRest => PluginTypeOK
  BY DEF PluginInv, PluginRest, PluginTypes, Processes, PluginTypeOK
<1>4. QED
  BY <1>1, <1>2, <1>3, PTL DEF PluginSpec

-----------------------------------------------------------------------------
(* The night shift *)

Times == {"old", "new", "fresh"}

OwlTypes ==
  /\ shift \in {"none", "tasks", "diff"}
  /\ untold \subseteq present /\ present \subseteq Files
  /\ mtime \in [Files -> Times]

\* What the running walk will not look at any more and has not told was
\* written after the shift began.
DiffInv ==
  /\ OwlTypes /\ DiffComplete
  /\ shift = "diff" => \A f \in untold \ beyond : mtime[f] = "fresh" \/ f \in listed

LEMMA DiffStepKept ==
  ASSUME DiffInv, [OwlNext]_owlVars
  PROVE  DiffInv'
<1>1. /\ shift \in {"none", "tasks", "diff"} /\ untold \subseteq present /\ present \subseteq Files
      /\ mtime \in [Files -> Times]
      /\ \A f \in untold \ beyond : mtime[f] # "old"
      /\ shift = "diff" => \A f \in untold \ beyond : mtime[f] = "fresh" \/ f \in listed
  BY DEF DiffInv, OwlTypes, DiffComplete
<1>2. ASSUME NEW f \in Files, Change(f)
      PROVE  DiffInv'
  <2> DEFINE m == IF shift = "none" THEN "new" ELSE "fresh"
  <2>1. /\ present' = present \cup {f} /\ untold' = untold \cup {f} /\ beyond' = beyond \ {f}
        /\ mtime' = [mtime EXCEPT ![f] = m] /\ shift' = shift /\ listed' = listed
    BY <1>2 DEF Change
  <2>2. mtime' \in [Files -> Times] /\ mtime'[f] = m /\ \A g \in Files : g # f => mtime'[g] = mtime[g]
    BY <1>1, <2>1 DEF Times
  <2>3. ASSUME NEW g \in untold' \ beyond'
        PROVE  mtime'[g] # "old" /\ (shift' = "diff" => mtime'[g] = "fresh" \/ g \in listed')
    <3>1. CASE g = f
      BY <2>1, <2>2, <3>1
    <3>2. CASE g # f
      BY <1>1, <2>1, <2>2, <3>2
    <3>3. QED
      BY <3>1, <3>2
  <2>4. OwlTypes'
    BY <1>1, <2>1, <2>2 DEF OwlTypes
  <2>5. QED
    BY <2>3, <2>4 DEF DiffInv, DiffComplete
<1>3. ASSUME NEW f \in Files, Remove(f)
      PROVE  DiffInv'
  BY <1>1, <1>3 DEF Remove, DiffInv, OwlTypes, DiffComplete
<1>4. CASE MachineChanges \/ CooldownOver
  BY <1>1, <1>4 DEF MachineChanges, CooldownOver, DiffInv, OwlTypes, DiffComplete
<1>5. CASE OnPoll \/ TriggerNow
  BY <1>1, <1>5 DEF OnPoll, TriggerNow, Begins, DiffInv, OwlTypes, DiffComplete
<1>6. CASE Lists
  BY <1>1, <1>6 DEF Lists, DiffInv, OwlTypes, DiffComplete
<1>7. CASE Stats
  <2>1. PICK f : /\ listed' = listed \ {f}
                 /\ IF f \in present /\ mtime[f] # "old"
                    THEN untold' = untold \ {f} /\ beyond' = beyond \ {f}
                    ELSE UNCHANGED <<untold, beyond>>
    BY <1>7 DEF Stats
  <2>2. UNCHANGED <<shift, cooled, idle, present, mtime>>
    BY <1>7 DEF Stats
  <2>3. CASE f \in present /\ mtime[f] # "old"
    BY <1>1, <2>1, <2>2, <2>3 DEF DiffInv, OwlTypes, DiffComplete
  <2>4. CASE ~(f \in present /\ mtime[f] # "old")
    <3>1. f \notin untold \ beyond
      BY <1>1, <2>4
    <3>2. QED
      BY <1>1, <2>1, <2>2, <2>4, <3>1 DEF DiffInv, OwlTypes, DiffComplete
  <2>5. QED
    BY <2>3, <2>4
<1>8. CASE Ends
  <2>1. /\ shift = "diff" /\ listed = {} /\ shift' = "none"
        /\ UNCHANGED <<idle, present, listed, untold, beyond>>
        /\ mtime' = [f \in Files |-> AfterWatermark(mtime[f])]
    BY <1>8 DEF Ends
  <2>2. mtime' \in [Files -> Times]
    BY <2>1 DEF AfterWatermark, Times
  <2>3. \A f \in untold \ beyond : mtime'[f] = "new"
    BY <1>1, <2>1 DEF AfterWatermark
  <2>4. QED
    BY <1>1, <2>1, <2>2, <2>3 DEF DiffInv, OwlTypes, DiffComplete
<1>9. CASE UNCHANGED owlVars
  BY <1>1, <1>9 DEF owlVars, DiffInv, OwlTypes, DiffComplete
<1>10. QED
  BY <1>2, <1>3, <1>4, <1>5, <1>6, <1>7, <1>8, <1>9 DEF OwlNext

\* For any files, written and removed while shifts walk over them, no change
\* falls between two shifts: a file no shift has listed is newer than the
\* watermark, unless a walk did not reach it (_taskWorkspaceDiff of
\* core/automation/night-owl.ts).
THEOREM NoChangeMissed == OwlSpec => []DiffComplete
<1>1. OwlInit => DiffInv
  BY DEF OwlInit, DiffInv, OwlTypes, DiffComplete, Times
<1>2. DiffInv /\ [OwlNext]_owlVars => DiffInv'
  BY DiffStepKept
<1>3. DiffInv => DiffComplete
  BY DEF DiffInv
<1>4. QED
  BY <1>1, <1>2, <1>3, PTL DEF OwlSpec

\* The last name of a set of names.
LEMMA LastOf ==
  ASSUME NEW S, S \subseteq Files, S # {}
  PROVE  \E m \in S : \A f \in S : f <= m
<1>1. FileCount \in Nat /\ \A f \in S : f \in Nat /\ f >= 1 /\ f <= FileCount
  BY NightOwlAssumption DEF Files
<1>2. PICK T : T = {n \in Nat : \A f \in S : f <= n}
  OBVIOUS
<1>3. T \subseteq Nat /\ T # {}
  BY <1>1, <1>2
<1>4. \E m \in T : \A n \in T : ~ (<<n, m>> \in OpToRel(<, Nat))
  BY <1>3, NatLessThanWellFounded, WFMin
<1>5. PICK m \in T : \A n \in T : ~ (<<n, m>> \in OpToRel(<, Nat))
  BY <1>4
<1>6. m \in Nat /\ (\A f \in S : f <= m) /\ \A n \in T : ~(n < m)
  BY <1>2, <1>5 DEF OpToRel
<1>7. m \in S
  <2> SUFFICES ASSUME m \notin S
               PROVE  FALSE
    OBVIOUS
  <2>1. m - 1 \in Nat /\ \A f \in S : f <= m - 1
    BY <1>1, <1>6
  <2>2. QED
    BY <1>2, <1>6, <2>1
<1>8. QED
  BY <1>6, <1>7

\* A walk looks at no more than MaxScanFiles files.
LEMMA WalkIsBounded ==
  ASSUME present \subseteq Files
  PROVE  Within \subseteq Files /\ IsFiniteSet(Within) /\ Cardinality(Within) <= MaxScanFiles
<1>1. IsFiniteSet(Files) /\ MaxScanFiles \in Nat
  BY NightOwlAssumption, FS_Interval DEF Files
<1>2. Within \subseteq Files /\ IsFiniteSet(Within)
  BY <1>1, FS_Subset DEF Within
<1>3. CASE Within = {}
  BY <1>1, <1>2, <1>3, FS_EmptySet
<1>4. CASE Within # {}
  <2>1. PICK m \in Within : \A f \in Within : f <= m
    BY <1>2, <1>4, LastOf
  <2>2. PICK P : P = {g \in present : g <= m}
    OBVIOUS
  <2>3. Within \subseteq P /\ Cardinality(P) <= MaxScanFiles
    BY <2>1, <2>2 DEF Within
  <2>4. IsFiniteSet(P)
    BY <1>1, <2>2, FS_Subset
  <2>5. Cardinality(Within) <= Cardinality(P) /\ Cardinality(Within) \in Nat /\ Cardinality(P) \in Nat
    BY <1>2, <2>3, <2>4, FS_Subset, FS_CardinalityType
  <2>6. QED
    BY <1>1, <1>2, <2>3, <2>5
<1>5. QED
  BY <1>3, <1>4

OwlRest ==
  /\ cooled \in BOOLEAN /\ idle \in BOOLEAN
  /\ beyond \subseteq untold
  /\ listed \subseteq Files /\ Cardinality(listed) <= MaxScanFiles
  /\ shift = "none" => \A f \in Files : mtime[f] # "fresh"

LEMMA OwlRestKept ==
  ASSUME DiffInv, OwlRest, [OwlNext]_owlVars
  PROVE  OwlRest'
<1>1. /\ cooled \in BOOLEAN /\ idle \in BOOLEAN /\ beyond \subseteq untold
      /\ listed \subseteq Files /\ Cardinality(listed) <= MaxScanFiles
      /\ shift = "none" => \A f \in Files : mtime[f] # "fresh"
      /\ present \subseteq Files /\ untold \subseteq present /\ mtime \in [Files -> Times]
  BY DEF OwlRest, DiffInv, OwlTypes
<1>2. ASSUME NEW f \in Files, Change(f)
      PROVE  OwlRest'
  BY <1>1, <1>2 DEF Change, OwlRest, Times
<1>3. ASSUME NEW f \in Files, Remove(f)
      PROVE  OwlRest'
  BY <1>1, <1>3 DEF Remove, OwlRest
<1>4. CASE MachineChanges \/ CooldownOver
  BY <1>1, <1>4 DEF MachineChanges, CooldownOver, OwlRest
<1>5. CASE OnPoll \/ TriggerNow
  BY <1>1, <1>5 DEF OnPoll, TriggerNow, Begins, OwlRest
<1>6. CASE Lists
  BY <1>1, <1>6, WalkIsBounded DEF Lists, OwlRest
<1>7. CASE Stats
  <2>1. PICK f : /\ listed' = listed \ {f}
                 /\ IF f \in present /\ mtime[f] # "old"
                    THEN untold' = untold \ {f} /\ beyond' = beyond \ {f}
                    ELSE UNCHANGED <<untold, beyond>>
    BY <1>7 DEF Stats
  <2>2. UNCHANGED <<shift, cooled, idle, present, mtime>>
    BY <1>7 DEF Stats
  <2>3. beyond' \subseteq untold'
    BY <1>1, <2>1
  <2>4. listed' \subseteq Files /\ Cardinality(listed') <= MaxScanFiles
    <3>1. IsFiniteSet(Files) /\ MaxScanFiles \in Nat
      BY NightOwlAssumption, FS_Interval DEF Files
    <3>2. IsFiniteSet(listed) /\ listed' \subseteq listed
      BY <1>1, <2>1, <3>1, FS_Subset
    <3>3. Cardinality(listed') <= Cardinality(listed) /\ Cardinality(listed') \in Nat /\ Cardinality(listed) \in Nat
      BY <3>2, FS_Subset, FS_CardinalityType
    <3>4. QED
      BY <1>1, <3>1, <3>2, <3>3
  <2>5. QED
    BY <1>1, <2>2, <2>3, <2>4 DEF OwlRest
<1>8. CASE Ends
  <2>1. /\ shift' = "none" /\ cooled' = FALSE /\ UNCHANGED <<idle, present, listed, untold, beyond>>
        /\ mtime' = [f \in Files |-> AfterWatermark(mtime[f])]
    BY <1>8 DEF Ends
  <2>2. \A f \in Files : mtime'[f] # "fresh"
    BY <2>1 DEF AfterWatermark
  <2>3. QED
    BY <1>1, <2>1, <2>2 DEF OwlRest
<1>9. CASE UNCHANGED owlVars
  BY <1>1, <1>9 DEF owlVars, OwlRest
<1>10. QED
  BY <1>2, <1>3, <1>4, <1>5, <1>6, <1>7, <1>8, <1>9 DEF OwlNext

\* Type correctness of the night shift, for any files; a walk has never more
\* than MAX_SCAN_FILES files before it, and no file is newer than a shift that
\* has ended.
THEOREM OwlTyped == OwlSpec => []OwlTypeOK
<1>1. OwlInit => DiffInv /\ OwlRest
  <2>1. OwlInit => DiffInv
    BY DEF OwlInit, DiffInv, OwlTypes, DiffComplete, Times
  <2>2. OwlInit => OwlRest
    BY FS_EmptySet, NightOwlAssumption DEF OwlInit, OwlRest
  <2>3. QED
    BY <2>1, <2>2
<1>2. DiffInv /\ OwlRest /\ [OwlNext]_owlVars => (DiffInv /\ OwlRest)'
  BY DiffStepKept, OwlRestKept
<1>3. DiffInv /\ OwlRest => OwlTypeOK
  BY DEF DiffInv, OwlRest, OwlTypes, Times, OwlTypeOK
<1>4. QED
  BY <1>1, <1>2, <1>3, PTL DEF OwlSpec

-----------------------------------------------------------------------------
(* The ghost slots *)

Places == Awaiting \cup {"done", "failed"}
Toggles == [slot : AllSlots, at : Places, browser : Nat]

\* The awaiting toggles of a slot, and whether its browser and its loop can be lost:
\* they are there, and no toggle is closing the browser.
Working(s) == {t \in On(s) : toggles[t].at \in Awaiting}
Closing(s, b) == \E t \in Working(s) : toggles[t].at = "close" /\ toggles[t].browser = b
HoldsBrowser(s) == slot[s].browser \in browsers /\ ~Closing(s, slot[s].browser)
HoldsLoop(s) == slot[s].loop \in loops

\* What the names of the browsers and loops mean.
Of(s, t) == t \in Begun /\ toggles[t].slot = s
Through(s, t) == t \in Begun /\ toggles[t].slot = s /\ toggles[t].at = "done"

ToggleOK(t) ==
  /\ Of(toggles[t].slot, toggles[t].browser)
  /\ toggles[t].at \in {"launch", "page"} => toggles[t].browser = t /\ t \notin loops
  /\ toggles[t].at = "launch" => t \notin browsers
  /\ toggles[t].at = "close" => Through(toggles[t].slot, toggles[t].browser)

SlotOK(s) ==
  /\ slot[s].enabled <=> slot[s].browser # 0
  /\ slot[s].browser # 0 => Through(s, slot[s].browser)
  /\ slot[s].enabled => slot[s].loop # 0
  /\ slot[s].loop # 0 => Through(s, slot[s].loop)

Named ==
  /\ toggles \in Seq(Toggles)
  /\ slot \in [AllSlots -> [enabled : BOOLEAN, browser : Nat, loop : Nat]]
  /\ accidents \in [AllSlots -> Nat] /\ spent \subseteq AllSlots
  /\ browsers \subseteq Begun /\ loops \subseteq Begun
  /\ \A t \in Begun : ToggleOK(t)
  /\ \A s \in AllSlots : SlotOK(s)

\* The accidents of a slot pay for what is lost (o), for all its awaiting toggles (a)
\* but the first, and for what it holds (h) while one awaits or it is not enabled (e).
Paid(o, a, h, e, paid) ==
  /\ o <= paid
  /\ o + a + h <= paid + 1
  /\ o + h <= paid + e + a

One(b) == IF b THEN 1 ELSE 0
Stranded(s) == Cardinality(OrphanBrowsers(s))
StrandedLoops(s) == Cardinality(OrphanLoops(s))
Waits(s) == Cardinality(Working(s))

Accounted(s) ==
  /\ Paid(Stranded(s), Waits(s), One(HoldsBrowser(s)), One(slot[s].enabled), accidents[s])
  /\ Paid(StrandedLoops(s), Waits(s), One(HoldsLoop(s)), One(slot[s].enabled), accidents[s])

\* A slot whose browser has not died has it, and one whose loop was stopped is being closed.
Truthful(s) ==
  /\ s \in spent => slot[s].browser \notin browsers
  /\ s \notin spent /\ slot[s].browser # 0 => slot[s].browser \in browsers
  /\ slot[s].loop # 0 /\ slot[s].loop \notin loops => \E t \in Working(s) : toggles[t].at = "close"

\* What stop-all has stopped.
Stopped ==
  /\ stopAll \in [slot : 0..GhostCount, waits : Nat]
  /\ stopAll.waits # 0 =>
       /\ stopAll.slot # 0 /\ Of(stopAll.slot, stopAll.waits)
       /\ toggles[stopAll.waits].at \in {"close", "done"}
       /\ toggles[stopAll.waits].at = "done" => slot[stopAll.slot].browser \notin doomed
  /\ doomed \subseteq Begun /\ \A b \in doomed : toggles[b].at = "done"
  /\ \A s \in GhostSlot : stopAll.slot = 0 \/ s < stopAll.slot => slot[s].browser \notin doomed

GhostInv ==
  /\ Named /\ Stopped
  /\ \A s \in AllSlots : Accounted(s) /\ Truthful(s)

-----------------------------------------------------------------------------
(* How toggles and slots change *)

LEMMA BegunFacts ==
  ASSUME toggles \in Seq(Toggles)
  PROVE  /\ Len(toggles) \in Nat /\ 0 \notin Begun /\ Begun \subseteq Nat
         /\ \A t \in Begun : toggles[t] \in Toggles
         /\ \A s : On(s) \subseteq Begun
         /\ \A s : IsFiniteSet(On(s)) /\ IsFiniteSet(Working(s))
         /\ \A s : IsFiniteSet(OrphanBrowsers(s)) /\ IsFiniteSet(OrphanLoops(s))
<1>1. Len(toggles) \in Nat /\ 0 \notin Begun /\ Begun \subseteq Nat /\ IsFiniteSet(Begun)
  BY FS_Interval DEF Begun
<1>2. \A s : On(s) \in SUBSET Begun /\ Working(s) \in SUBSET Begun
             /\ OrphanBrowsers(s) \in SUBSET Begun /\ OrphanLoops(s) \in SUBSET Begun
  BY DEF On, Working, OrphanBrowsers, OrphanLoops
<1>3. \A t \in Begun : toggles[t] \in Toggles
  BY DEF Begun
<1>4. QED
  BY <1>1, <1>2, <1>3, FS_Subset

\* A toggle moves on.
LEMMA MovesFacts ==
  ASSUME Named, NEW t \in Begun, NEW from, NEW to \in Places, Moves(t, from, to)
  PROVE  /\ toggles' \in Seq(Toggles) /\ Begun' = Begun
         /\ toggles[t].at = from /\ toggles'[t].at = to
         /\ \A u \in Begun : /\ toggles'[u].slot = toggles[u].slot
                             /\ toggles'[u].browser = toggles[u].browser
                             /\ u # t => toggles'[u].at = toggles[u].at
         /\ \A s : On(s)' = On(s)
<1>1. toggles \in Seq(Toggles) /\ toggles' = [toggles EXCEPT ![t].at = to] /\ toggles[t].at = from
  BY DEF Named, Moves
<1>2. toggles' = [toggles EXCEPT ![t] = [toggles[t] EXCEPT !.at = to]] /\ toggles[t] \in Toggles
  BY <1>1 DEF Begun
<1>3. toggles' \in Seq(Toggles) /\ Len(toggles') = Len(toggles)
  <2>1. PICK r \in Toggles : r = [toggles[t] EXCEPT !.at = to]
    BY <1>2 DEF Toggles
  <2>2. toggles' = [toggles EXCEPT ![t] = r] /\ t \in 1..Len(toggles)
    BY <1>2, <2>1 DEF Begun
  <2>3. QED
    BY <1>1, <2>2
<1>4. Begun' = Begun
  BY <1>3 DEF Begun
<1>5. /\ toggles'[t].at = to
      /\ \A u \in Begun : /\ toggles'[u].slot = toggles[u].slot
                          /\ toggles'[u].browser = toggles[u].browser
                          /\ u # t => toggles'[u].at = toggles[u].at
  BY <1>1, <1>2 DEF Begun, Toggles
<1>6. \A s : On(s)' = On(s)
  BY <1>4, <1>5 DEF On
<1>7. QED
  BY <1>1, <1>3, <1>4, <1>5, <1>6

\* A toggle begins.
LEMMA ToggleFacts ==
  ASSUME Named, NEW s \in AllSlots, NEW at \in Places, NEW b \in Nat, Toggle(s, at, b),
         NEW n, n = Len(toggles) + 1
  PROVE  /\ toggles' \in Seq(Toggles) /\ Len(toggles') = n /\ Begun' = Begun \cup {n} /\ n \notin Begun
         /\ toggles'[n] = [slot |-> s, at |-> at, browser |-> b]
         /\ \A u \in Begun : toggles'[u] = toggles[u]
         /\ On(s)' = On(s) \cup {n}
         /\ \A r : r # s => On(r)' = On(r)
<1>1. toggles \in Seq(Toggles) /\ Len(toggles) \in Nat
      /\ toggles' = Append(toggles, [slot |-> s, at |-> at, browser |-> b])
  BY DEF Named, Toggle
<1>2. [slot |-> s, at |-> at, browser |-> b] \in Toggles
  BY DEF Toggles
<1>3. /\ toggles' \in Seq(Toggles) /\ Len(toggles') = n
      /\ toggles'[n] = [slot |-> s, at |-> at, browser |-> b]
      /\ \A u \in 1..Len(toggles) : toggles'[u] = toggles[u]
  BY <1>1, <1>2
<1>4. Begun' = Begun \cup {n} /\ n \notin Begun
  BY <1>1, <1>3 DEF Begun
<1>5. On(s)' = On(s) \cup {n} /\ \A r : r # s => On(r)' = On(r)
  BY <1>3, <1>4 DEF On, Begun
<1>6. QED
  BY <1>3, <1>4, <1>5 DEF Begun

-----------------------------------------------------------------------------
(* Accounts *)

LEMMA Counts ==
  ASSUME NEW S, NEW T, NEW x, IsFiniteSet(S)
  PROVE  /\ T \subseteq S => IsFiniteSet(T) /\ Cardinality(T) \in Nat /\ Cardinality(T) <= Cardinality(S)
         /\ T \subseteq S \cup {x} => IsFiniteSet(T) /\ Cardinality(T) \in Nat /\ Cardinality(T) <= Cardinality(S) + 1
         /\ T = S \cup {x} /\ x \notin S => Cardinality(T) = Cardinality(S) + 1
         /\ T = S \ {x} /\ x \in S => Cardinality(T) = Cardinality(S) - 1
         /\ Cardinality(S) \in Nat /\ (S # {} => Cardinality(S) > 0)
<1>1. Cardinality(S) \in Nat /\ IsFiniteSet(S \cup {x}) /\ Cardinality(S \cup {x}) \in Nat
  BY FS_AddElement, FS_CardinalityType
<1>2. Cardinality(S \cup {x}) <= Cardinality(S) + 1
  BY <1>1, FS_AddElement
<1>3. \A U : U \subseteq S => IsFiniteSet(U) /\ Cardinality(U) \in Nat /\ Cardinality(U) <= Cardinality(S)
  BY FS_Subset, FS_CardinalityType
<1>4. T \subseteq S \cup {x} => IsFiniteSet(T) /\ Cardinality(T) \in Nat /\ Cardinality(T) <= Cardinality(S \cup {x})
  BY <1>1, FS_Subset, FS_CardinalityType
<1>5. S # {} => Cardinality(S) > 0
  BY <1>1, FS_EmptySet
<1>6. QED
  BY <1>1, <1>2, <1>3, <1>4, <1>5, FS_AddElement, FS_RemoveElement

\* A slot that a step does not touch.
LEMMA Elsewhere ==
  ASSUME Named, NEW r \in AllSlots, Accounted(r), Truthful(r),
         On(r)' = On(r), \A t \in On(r) : toggles'[t] = toggles[t],
         slot'[r] = slot[r], accidents'[r] = accidents[r], r \in spent' <=> r \in spent,
         \A t \in On(r) \cup {0} : (t \in browsers' <=> t \in browsers) /\ (t \in loops' <=> t \in loops)
  PROVE  Accounted(r)' /\ Truthful(r)'
<1>1. Working(r)' = Working(r)
  BY DEF Working
<1>2. \A t \in Working(r) : toggles'[t] = toggles[t]
  BY DEF Working
<1>3. slot[r].browser \in On(r) \cup {0} /\ slot[r].loop \in On(r) \cup {0}
  BY DEF Named, SlotOK, Through, On
<1>4. HoldsBrowser(r)' = HoldsBrowser(r) /\ HoldsLoop(r)' = HoldsLoop(r)
  BY <1>1, <1>2, <1>3 DEF HoldsBrowser, HoldsLoop, Closing
<1>5. Owned(r)' = Owned(r)
  BY DEF Owned
<1>6. OrphanBrowsers(r)' = OrphanBrowsers(r) /\ OrphanLoops(r)' = OrphanLoops(r)
  BY <1>5 DEF OrphanBrowsers, OrphanLoops
<1>7. Accounted(r)'
  BY <1>1, <1>4, <1>6 DEF Accounted, Stranded, StrandedLoops, Waits, One
<1>8. Truthful(r)'
  BY <1>1, <1>2, <1>3 DEF Truthful
<1>9. QED
  BY <1>7, <1>8

-----------------------------------------------------------------------------
(* The steps *)

\* The numbers of an account.
LEMMA AccountType ==
  ASSUME Named, NEW s \in AllSlots
  PROVE  /\ Stranded(s) \in Nat /\ StrandedLoops(s) \in Nat /\ Waits(s) \in Nat /\ accidents[s] \in Nat
         /\ One(HoldsBrowser(s)) \in {0, 1} /\ One(HoldsLoop(s)) \in {0, 1}
         /\ One(slot[s].enabled) \in {0, 1}
         /\ Waits(s) > 0 <=> BusySlot(s)
<1>1. IsFiniteSet(OrphanBrowsers(s)) /\ IsFiniteSet(OrphanLoops(s)) /\ IsFiniteSet(Working(s))
  BY BegunFacts DEF Named
<1>2. Working(s) # {} <=> BusySlot(s)
  BY DEF Working, BusySlot
<1>3. Waits(s) \in Nat /\ (Waits(s) = 0 <=> Working(s) = {})
  BY <1>1, FS_EmptySet, FS_CardinalityType DEF Waits
<1>4. QED
  BY <1>1, <1>2, <1>3, FS_CardinalityType DEF Stranded, StrandedLoops, One, Named


\* Toggles keep their slots, and those that are done stay done.
Steady ==
  /\ Begun \subseteq Begun'
  /\ \A u \in Begun : /\ toggles'[u].slot = toggles[u].slot
                      /\ toggles[u].at = "done" => toggles'[u].at = "done"

LEMMA ToggleOKKept ==
  ASSUME Steady, NEW t \in Begun, ToggleOK(t), toggles'[t] = toggles[t],
         t \in loops' => t \in loops, t \in browsers' => t \in browsers \/ toggles[t].at # "launch"
  PROVE  ToggleOK(t)'
<1>1. toggles[t].browser \in Begun /\ toggles[t].browser \in Begun' /\ t \in Begun'
  BY DEF ToggleOK, Of, Steady
<1>2. toggles'[toggles[t].browser].slot = toggles[toggles[t].browser].slot
      /\ (toggles[toggles[t].browser].at = "done" => toggles'[toggles[t].browser].at = "done")
  BY <1>1 DEF Steady
<1>3. Of(toggles[t].slot, toggles[t].browser)'
  BY <1>1, <1>2 DEF ToggleOK, Of
<1>4. toggles[t].at = "close" => Through(toggles[t].slot, toggles[t].browser)'
  BY <1>1, <1>2 DEF ToggleOK, Through
<1>5. QED
  BY <1>1, <1>3, <1>4 DEF ToggleOK, Of, Through

LEMMA SlotOKKept ==
  ASSUME Steady, NEW s, SlotOK(s), slot'[s] = slot[s]
  PROVE  SlotOK(s)'
<1>1. ASSUME NEW t, Through(s, t)
      PROVE  t \in Begun' /\ toggles'[t].slot = s /\ toggles'[t].at = "done"
  BY <1>1 DEF Through, Steady
<1>2. /\ slot[s].browser # 0 => Through(s, slot[s].browser)
      /\ slot[s].loop # 0 => Through(s, slot[s].loop)
  BY DEF SlotOK
<1>3. QED
  BY <1>1, <1>2 DEF SlotOK, Through

LEMMA StoppedKept ==
  ASSUME Stopped, Named, Steady, UNCHANGED <<stopAll, doomed>>,
         \A r \in AllSlots : slot'[r].browser = slot[r].browser \/ slot'[r].browser \notin doomed,
         \A u \in Begun : toggles[u].at = "close" =>
           \/ toggles'[u].at = "close"
           \/ toggles'[u].at = "done" /\ slot'[toggles[u].slot].browser \notin doomed
  PROVE  Stopped'
<1>1. stopAll.waits # 0 =>
       /\ stopAll.slot # 0 /\ Of(stopAll.slot, stopAll.waits)'
       /\ toggles'[stopAll.waits].at \in {"close", "done"}
       /\ toggles'[stopAll.waits].at = "done" => slot'[stopAll.slot].browser \notin doomed
  <2> SUFFICES ASSUME stopAll.waits # 0
               PROVE  /\ stopAll.slot # 0 /\ Of(stopAll.slot, stopAll.waits)'
                      /\ toggles'[stopAll.waits].at \in {"close", "done"}
                      /\ toggles'[stopAll.waits].at = "done" => slot'[stopAll.slot].browser \notin doomed
    OBVIOUS
  <2>1. /\ stopAll.slot \in AllSlots /\ stopAll.slot # 0 /\ stopAll.waits \in Begun
        /\ toggles[stopAll.waits].slot = stopAll.slot
        /\ toggles[stopAll.waits].at \in {"close", "done"}
        /\ toggles[stopAll.waits].at = "done" => slot[stopAll.slot].browser \notin doomed
    BY GhostAssumption DEF Stopped, Of, AllSlots, GhostSlot
  <2>2. stopAll.waits \in Begun' /\ toggles'[stopAll.waits].slot = stopAll.slot
    BY <2>1 DEF Steady
  <2>3. toggles'[stopAll.waits].at \in {"close", "done"}
    BY <2>1 DEF Steady
  <2>4. toggles'[stopAll.waits].at = "done" => slot'[stopAll.slot].browser \notin doomed
    BY <2>1 DEF Steady
  <2>5. QED
    BY <2>1, <2>2, <2>3, <2>4 DEF Of
<1>2. doomed \subseteq Begun' /\ \A b \in doomed : toggles'[b].at = "done"
  BY DEF Stopped, Steady
<1>3. \A s \in GhostSlot : stopAll.slot = 0 \/ s < stopAll.slot => slot'[s].browser \notin doomed
  BY DEF Stopped, AllSlots
<1>4. QED
  BY <1>1, <1>2, <1>3 DEF Stopped, Of

\* A toggle of s begins: it awaits, and the others of s are as they were.
LEMMA NewWorker ==
  ASSUME Named, NEW s \in AllSlots, NEW at \in Awaiting, NEW b \in Nat, Toggle(s, at, b),
         NEW n, n = Len(toggles) + 1, slot' = slot
  PROVE  /\ Steady /\ n \notin Working(s) /\ Working(s)' = Working(s) \cup {n}
         /\ \A u \in Begun : toggles'[u] = toggles[u]
         /\ toggles'[n].at = at /\ toggles'[n].browser = b
         /\ Waits(s)' = Waits(s) + 1
         /\ Owned(s)' = Owned(s) \cup {b}
<1>1. /\ Begun' = Begun \cup {n} /\ n \notin Begun
      /\ toggles'[n] = [slot |-> s, at |-> at, browser |-> b]
      /\ \A u \in Begun : toggles'[u] = toggles[u]
      /\ On(s)' = On(s) \cup {n}
  BY ToggleFacts DEF Places
<1>2. On(s) \subseteq Begun /\ IsFiniteSet(Working(s))
  BY BegunFacts DEF Named
<1>3. Steady
  BY <1>1 DEF Steady
<1>4. /\ toggles'[n].at = at /\ toggles'[n].browser = b /\ n \notin On(s)
      /\ \A u \in On(s) : toggles'[u] = toggles[u]
  BY <1>1, <1>2
<1>5. n \notin Working(s) /\ Working(s)' = Working(s) \cup {n}
  BY <1>1, <1>4 DEF Working
<1>6. Waits(s)' = Waits(s) + 1
  BY <1>2, <1>5, Counts DEF Waits
<1>7. Owned(s) = {slot[s].browser} \cup {toggles[t].browser : t \in Working(s)}
      /\ Owned(s)' = {slot[s].browser} \cup {toggles'[t].browser : t \in Working(s)'}
  BY DEF Owned, Working
<1>8. \A u \in Working(s) : toggles'[u].browser = toggles[u].browser
  BY <1>4 DEF Working
<1>9. {toggles'[t].browser : t \in Working(s)'} = {toggles[t].browser : t \in Working(s)} \cup {b}
  BY <1>4, <1>5, <1>8
<1>10. QED
  BY <1>1, <1>3, <1>4, <1>5, <1>6, <1>7, <1>9

\* A toggle t of s moves on: it awaits something else, or nothing any more.
LEMMA Worker ==
  ASSUME Named, NEW t \in Begun, NEW from \in Awaiting, NEW to \in Places, Moves(t, from, to),
         NEW s, s = toggles[t].slot
  PROVE  /\ s \in AllSlots /\ Steady /\ t \in Working(s) /\ toggles[t].at = from /\ toggles'[t].at = to
         /\ \A u \in Begun : /\ toggles'[u].browser = toggles[u].browser
                             /\ u # t => toggles'[u] = toggles[u]
         /\ On(s)' = On(s)
         /\ to \in Awaiting => Working(s)' = Working(s)
         /\ to \notin Awaiting => Working(s)' = Working(s) \ {t} /\ Waits(s)' = Waits(s) - 1
         /\ Waits(s) \in Nat /\ Waits(s) > 0
<1>1. /\ Begun' = Begun /\ toggles[t].at = from /\ toggles'[t].at = to
      /\ \A u \in Begun : /\ toggles'[u].slot = toggles[u].slot
                          /\ toggles'[u].browser = toggles[u].browser
                          /\ u # t => toggles'[u] = toggles[u]
      /\ On(s)' = On(s)
  <2>1. \A u \in Begun : u # t => toggles'[u] = toggles[u]
    BY DEF Moves, Named, Begun
  <2>2. QED
    BY <2>1, MovesFacts
<1>2. On(s) \subseteq Begun /\ IsFiniteSet(Working(s)) /\ toggles[t] \in Toggles
  BY BegunFacts DEF Named
<1>3. Steady /\ s \in AllSlots
  BY <1>1, <1>2 DEF Steady, Toggles, Awaiting
<1>4. t \in Working(s)
  BY <1>1 DEF Working, On
<1>5. \A u \in On(s) : u \in Begun /\ (u # t => toggles'[u] = toggles[u])
  BY <1>1, <1>2
<1>6. /\ to \in Awaiting => Working(s)' = Working(s)
      /\ to \notin Awaiting => Working(s)' = Working(s) \ {t}
  BY <1>1, <1>4, <1>5 DEF Working
<1>7. to \notin Awaiting => Waits(s)' = Waits(s) - 1
  BY <1>2, <1>4, <1>6, Counts DEF Waits
<1>8. Waits(s) \in Nat /\ Waits(s) > 0
  BY <1>2, <1>4, Counts DEF Waits
<1>9. QED
  BY <1>1, <1>3, <1>4, <1>6, <1>7, <1>8

\* What a step on s leaves alone.
LEMMA Others ==
  ASSUME GhostInv, NEW s \in AllSlots, Steady, Begun' \ Begun \subseteq On(s)',
         \A u \in Begun : toggles[u].slot # s => toggles'[u] = toggles[u],
         \A r \in AllSlots \ {s} : slot'[r] = slot[r] /\ accidents'[r] = accidents[r] /\ (r \in spent' <=> r \in spent),
         \A u : u \in On(s)' \/ ((u \in browsers' <=> u \in browsers) /\ (u \in loops' <=> u \in loops))
  PROVE  \A r \in AllSlots \ {s} : Accounted(r)' /\ Truthful(r)' /\ SlotOK(r)'
<1> SUFFICES ASSUME NEW r \in AllSlots \ {s}
             PROVE  Accounted(r)' /\ Truthful(r)' /\ SlotOK(r)'
  OBVIOUS
<1>1. Named /\ Accounted(r) /\ Truthful(r) /\ SlotOK(r) /\ r \in AllSlots /\ 0 \notin Begun
  BY BegunFacts DEF GhostInv, Named
<1>2. \A u \in On(r) : u \in Begun /\ u \in Begun' /\ toggles[u].slot = r /\ toggles'[u] = toggles[u]
  BY DEF On, Steady
<1>3. \A u \in On(r)' : u \in Begun /\ toggles'[u].slot = r /\ toggles[u].slot = r
  BY DEF On, Steady
<1>4. On(r)' = On(r)
  <2>1. On(r)' \subseteq On(r)
    BY <1>3 DEF On
  <2>2. On(r) \subseteq On(r)'
    BY <1>2 DEF On
  <2>3. QED
    BY <2>1, <2>2
<1>5. \A u \in On(r) \cup {0} : u \notin On(s)'
  <2>1. 0 \notin Begun'
    BY DEF Begun
  <2>2. QED
    BY <1>2, <2>1 DEF On
<1>6. Accounted(r)' /\ Truthful(r)'
  <2>1. \A u \in On(r) \cup {0} : (u \in browsers' <=> u \in browsers) /\ (u \in loops' <=> u \in loops)
    BY <1>5
  <2>2. \A u \in On(r) : toggles'[u] = toggles[u]
    BY <1>2
  <2>3. slot'[r] = slot[r] /\ accidents'[r] = accidents[r] /\ (r \in spent' <=> r \in spent)
    OBVIOUS
  <2>4. QED
    BY <1>1, <1>4, <2>1, <2>2, <2>3, Elsewhere
<1>7. SlotOK(r)'
  BY <1>1, SlotOKKept
<1>8. QED
  BY <1>6, <1>7

\* A toggle of s begins, at its launch or at its close.
LEMMA ToggleKept ==
  ASSUME GhostInv, NEW s \in AllSlots, NEW at \in {"launch", "close"}, NEW b,
         Toggle(s, at, b), UNCHANGED <<slot, browsers, spent>>,
         \/ at = "launch" /\ b = Len(toggles) + 1 /\ ~slot[s].enabled /\ loops' = loops
         \/ at = "close" /\ b = slot[s].browser /\ slot[s].enabled /\ loops' = loops \ {slot[s].loop}
  PROVE  Named' /\ \A r \in AllSlots : Accounted(r)' /\ Truthful(r)'
<1>0. PICK n : n = Len(toggles) + 1
  OBVIOUS
<1>1. /\ Named /\ Len(toggles) \in Nat /\ 0 \notin Begun /\ Begun \subseteq Nat
      /\ Accounted(s) /\ Truthful(s) /\ SlotOK(s) /\ On(s) \subseteq Begun
  BY BegunFacts DEF GhostInv, Named
<1>2. at \in Awaiting /\ at \in Places /\ b \in Nat
  <2>1. CASE at = "launch"
    BY <1>1, <2>1 DEF Awaiting, Places
  <2>2. CASE at = "close"
    <3>1. slot[s].browser # 0
      BY <1>1, <2>2 DEF SlotOK
    <3>2. slot[s].browser \in Begun
      BY <1>1, <3>1 DEF SlotOK, Through
    <3>3. QED
      BY <1>1, <2>2, <3>2 DEF Awaiting, Places
  <2>3. QED
    BY <2>1, <2>2
<1>3. /\ toggles' \in Seq(Toggles) /\ Begun' = Begun \cup {n} /\ n \notin Begun
      /\ toggles'[n] = [slot |-> s, at |-> at, browser |-> b]
      /\ \A u \in Begun : toggles'[u] = toggles[u]
      /\ On(s)' = On(s) \cup {n}
  BY <1>1, <1>2, <1>0, ToggleFacts
<1>4. /\ Steady /\ n \notin Working(s) /\ Working(s)' = Working(s) \cup {n}
      /\ Waits(s)' = Waits(s) + 1 /\ Owned(s)' = Owned(s) \cup {b}
  BY <1>1, <1>2, <1>0, NewWorker
<1>5. n # 0 /\ n \notin browsers /\ n \notin loops /\ n \in Nat
  BY <1>0, <1>1, <1>3 DEF Named
<1>6. /\ accidents' \in [AllSlots -> Nat]
      /\ accidents'[s] = IF Waits(s) > 0 THEN accidents[s] + 1 ELSE accidents[s]
      /\ \A r \in AllSlots \ {s} : accidents'[r] = accidents[r]
  <2>1. accidents' = IF BusySlot(s) THEN [accidents EXCEPT ![s] = @ + 1] ELSE accidents
    BY DEF Toggle, Blamed
  <2>2. Waits(s) > 0 <=> BusySlot(s)
    BY <1>1, AccountType
  <2>3. accidents \in [AllSlots -> Nat]
    BY <1>1 DEF Named
  <2>4. QED
    BY <2>1, <2>2, <2>3
<1>7. slot[s].loop \in On(s) \cup {0} /\ slot[s].browser \in On(s) \cup {0}
  BY <1>1 DEF SlotOK, Through, On
<1>8. \A r \in AllSlots \ {s} : Accounted(r)' /\ Truthful(r)' /\ SlotOK(r)'
  <2>1. Begun' \ Begun \subseteq On(s)'
    BY <1>3
  <2>2. \A u : u \in On(s)' \/ ((u \in browsers' <=> u \in browsers) /\ (u \in loops' <=> u \in loops))
    <3>1. 0 \notin loops
      BY <1>1 DEF Named
    <3>2. QED
      BY <1>3, <1>7, <3>1
  <2>3. \A r \in AllSlots \ {s} : slot'[r] = slot[r] /\ accidents'[r] = accidents[r] /\ (r \in spent' <=> r \in spent)
    BY <1>6
  <2>4. QED
    BY <1>3, <1>4, <2>1, <2>2, <2>3, Others
<1>9. SlotOK(s)'
  BY <1>1, <1>4, SlotOKKept
<1>10. \A t \in Begun : ToggleOK(t)'
  <2>1. ASSUME NEW t \in Begun
        PROVE  ToggleOK(t)'
    BY <1>1, <1>3, <1>4, ToggleOKKept DEF Named
  <2>2. QED
    BY <2>1
<1>11. ToggleOK(n)'
  <2>1. CASE at = "launch"
    BY <1>2, <1>3, <1>5, <1>0, <2>1 DEF ToggleOK, Of
  <2>2. CASE at = "close"
    <3>1. Through(s, b) /\ b \in Begun
      BY <1>1, <2>2 DEF SlotOK, Through
    <3>2. toggles'[b] = toggles[b] /\ b \in Begun'
      BY <1>3, <3>1
    <3>3. QED
      BY <1>3, <2>2, <3>1, <3>2 DEF ToggleOK, Of, Through
  <2>3. QED
    BY <2>1, <2>2
<1>12. Named'
  <2>1. \A t \in Begun' : ToggleOK(t)'
    BY <1>3, <1>10, <1>11
  <2>2. \A r \in AllSlots : SlotOK(r)'
    BY <1>8, <1>9
  <2>3. browsers' \subseteq Begun' /\ loops' \subseteq Begun'
    BY <1>1, <1>3 DEF Named
  <2>4. QED
    BY <1>1, <1>3, <1>6, <2>1, <2>2, <2>3 DEF Named
<1>13. Accounted(s)'
  <2>1. OrphanBrowsers(s)' = OrphanBrowsers(s)
    <3>1. \A x \in browsers : x \in Owned(s)' <=> x \in Owned(s)
      <4>1. at = "launch" => b \notin browsers
        BY <1>0, <1>5
      <4>2. at = "close" => b \in Owned(s)
        BY DEF Owned
      <4>3. QED
        BY <1>4, <4>1, <4>2
    <3>2. QED
      BY <1>3, <1>5, <3>1 DEF OrphanBrowsers
  <2>2. OrphanLoops(s)' = OrphanLoops(s)
    BY <1>3, <1>5 DEF OrphanLoops
  <2>3. at = "launch" => /\ ~HoldsBrowser(s) /\ ~HoldsBrowser(s)' /\ HoldsLoop(s)' = HoldsLoop(s)
    BY <1>1 DEF HoldsBrowser, HoldsLoop, SlotOK, Named
  <2>4. at = "close" => ~HoldsBrowser(s)' /\ ~HoldsLoop(s)'
    BY <1>3, <1>4 DEF HoldsBrowser, HoldsLoop, Closing
  <2>5. Stranded(s)' = Stranded(s) /\ StrandedLoops(s)' = StrandedLoops(s)
    BY <2>1, <2>2 DEF Stranded, StrandedLoops
  <2>6. One(slot[s].enabled)' = One(slot[s].enabled)
    OBVIOUS
  <2>7. /\ Stranded(s) \in Nat /\ StrandedLoops(s) \in Nat /\ Waits(s) \in Nat /\ accidents[s] \in Nat
        /\ One(HoldsBrowser(s)) \in {0, 1} /\ One(HoldsLoop(s)) \in {0, 1}
        /\ One(slot[s].enabled) \in {0, 1}
    BY <1>1, AccountType
  <2>8. /\ One(HoldsBrowser(s)') \in {0, 1} /\ One(HoldsBrowser(s)') <= One(HoldsBrowser(s))
        /\ (One(HoldsBrowser(s)') = 0 \/ One(slot[s].enabled) = 0)
    BY <2>3, <2>4 DEF One
  <2>9. /\ One(HoldsLoop(s)') \in {0, 1} /\ One(HoldsLoop(s)') <= One(HoldsLoop(s))
        /\ (One(HoldsLoop(s)') = 0 \/ One(slot[s].enabled) = 0)
    BY <2>3, <2>4 DEF One
  <2>10. accidents'[s] \in Nat /\ accidents'[s] = IF Waits(s) > 0 THEN accidents[s] + 1 ELSE accidents[s]
    BY <1>6
  <2>11. Paid(Stranded(s), Waits(s), One(HoldsBrowser(s)), One(slot[s].enabled), accidents[s])
    BY <1>1 DEF Accounted
  <2>12. Paid(StrandedLoops(s), Waits(s), One(HoldsLoop(s)), One(slot[s].enabled), accidents[s])
    BY <1>1 DEF Accounted
  <2>13. Waits(s)' \in Nat /\ Waits(s)' = Waits(s) + 1
    BY <1>4, <2>7
  <2>14. Paid(Stranded(s), Waits(s)', One(HoldsBrowser(s)'), One(slot[s].enabled), accidents'[s])
    BY <2>7, <2>8, <2>10, <2>11, <2>13, SMTT(60) DEF Paid
  <2>15. Paid(StrandedLoops(s), Waits(s)', One(HoldsLoop(s)'), One(slot[s].enabled), accidents'[s])
    BY <2>7, <2>9, <2>10, <2>12, <2>13, SMTT(60) DEF Paid
  <2>16. QED
    BY <2>5, <2>6, <2>14, <2>15 DEF Accounted, One
<1>14. Truthful(s)'
  <2>1. \A t \in Working(s) : t \in Working(s)' /\ toggles'[t] = toggles[t]
    BY <1>1, <1>3, <1>4 DEF Working
  <2>2. at = "close" => n \in Working(s)' /\ toggles'[n].at = "close"
    BY <1>3, <1>4
  <2>3. QED
    BY <1>1, <2>1, <2>2 DEF Truthful
<1>15. QED
  BY <1>8, <1>12, <1>13, <1>14

\* A toggle of s moves on: what it does to names and to the other slots.
LEMMA MoveKept ==
  ASSUME GhostInv, NEW t \in Begun, NEW from \in Awaiting, NEW to \in Places, Moves(t, from, to),
         NEW s, s = toggles[t].slot,
         slot' \in [AllSlots -> [enabled : BOOLEAN, browser : Nat, loop : Nat]],
         accidents' \in [AllSlots -> Nat], spent' \subseteq AllSlots,
         \A r \in AllSlots \ {s} : slot'[r] = slot[r] /\ accidents'[r] = accidents[r] /\ (r \in spent' <=> r \in spent),
         browsers' \subseteq browsers \cup {t}, browsers \ browsers' \subseteq On(s),
         loops' \subseteq loops \cup {t}, loops \subseteq loops',
         ToggleOK(t)', SlotOK(s)'
  PROVE  Named' /\ \A r \in AllSlots \ {s} : Accounted(r)' /\ Truthful(r)'
<1>1. Named /\ Begun' = Begun /\ toggles' \in Seq(Toggles) /\ t \in On(s)
  BY MovesFacts DEF GhostInv, On
<1>2. /\ s \in AllSlots /\ Steady /\ On(s)' = On(s)
      /\ \A u \in Begun : u # t => toggles'[u] = toggles[u]
  BY <1>1, Worker
<1>3. \A r \in AllSlots \ {s} : Accounted(r)' /\ Truthful(r)' /\ SlotOK(r)'
  <2>1. Begun' \ Begun \subseteq On(s)'
    BY <1>1
  <2>2. \A u \in Begun : toggles[u].slot # s => toggles'[u] = toggles[u]
    BY <1>2
  <2>3. \A u : u \in On(s)' \/ ((u \in browsers' <=> u \in browsers) /\ (u \in loops' <=> u \in loops))
    BY <1>1, <1>2
  <2>4. QED
    BY <1>2, <2>1, <2>2, <2>3, Others
<1>4. ASSUME NEW u \in Begun
      PROVE  ToggleOK(u)'
  <2>1. CASE u # t
    BY <1>1, <1>2, <2>1, ToggleOKKept DEF Named
  <2>2. QED
    BY <2>1
<1>5. \A r \in AllSlots : SlotOK(r)'
  BY <1>3
<1>6. browsers' \subseteq Begun' /\ loops' \subseteq Begun'
  BY <1>1 DEF Named
<1>7. Named'
  BY <1>1, <1>4, <1>5, <1>6 DEF Named
<1>8. QED
  BY <1>3, <1>7

\* What a slot owns: its browser and those of its awaiting toggles.
LEMMA OwnedIs ==
  ASSUME NEW s
  PROVE  /\ \A b : b \in Owned(s) <=>
              b = slot[s].browser \/ \E u \in Working(s) : toggles[u].browser = b
         /\ \A b : b \in Owned(s)' <=>
              b = slot'[s].browser \/ \E u \in Working(s)' : toggles'[u].browser = b
BY DEF Owned, Working

\* The invariant from its parts.
LEMMA MoveInv ==
  ASSUME GhostInv, NEW s \in AllSlots, Named', Stopped',
         \A r \in AllSlots \ {s} : Accounted(r)' /\ Truthful(r)', Accounted(s)', Truthful(s)'
  PROVE  GhostInv'
BY DEF GhostInv

LEMMA BrowserOpenedKept ==
  ASSUME GhostInv, NEW t \in Begun, BrowserOpened(t)
  PROVE  GhostInv'
<1>0. PICK s : s = toggles[t].slot
  OBVIOUS
<1>1. /\ Named /\ Stopped /\ Moves(t, "launch", "page")
      /\ browsers' = browsers \cup {toggles[t].browser}
      /\ UNCHANGED <<slot, loops, stopAll, accidents, spent, doomed>>
      /\ "launch" \in Awaiting /\ "page" \in Awaiting /\ "page" \in Places
  BY DEF BrowserOpened, GhostInv, Awaiting, Places
<1>2. /\ s \in AllSlots /\ Steady /\ t \in Working(s) /\ toggles[t].at = "launch" /\ toggles'[t].at = "page"
      /\ \A u \in Begun : toggles'[u].browser = toggles[u].browser /\ (u # t => toggles'[u] = toggles[u])
      /\ On(s)' = On(s) /\ Working(s)' = Working(s)
  BY <1>0, <1>1, Worker
<1>3. /\ toggles[t].browser = t /\ t \notin loops /\ t \notin browsers /\ ToggleOK(t)
      /\ SlotOK(s) /\ Accounted(s) /\ Truthful(s) /\ slot[s].browser # t
      /\ \A u \in Working(s) : u \in Begun /\ toggles'[u].browser = toggles[u].browser
  <2>1. ToggleOK(t) /\ SlotOK(s) /\ Accounted(s) /\ Truthful(s)
    BY <1>1, <1>2 DEF Named, GhostInv
  <2>2. toggles[t].browser = t /\ t \notin loops /\ t \notin browsers
    BY <1>2, <2>1 DEF ToggleOK
  <2>3. slot[s].browser # t
    BY <1>2, <2>1, BegunFacts, <1>1 DEF SlotOK, Through, Named
  <2>4. QED
    BY <1>2, <2>1, <2>2, <2>3 DEF Working, On
<1>4. ToggleOK(t)'
  BY <1>0, <1>1, <1>2, <1>3 DEF ToggleOK, Of, Steady
<1>5. SlotOK(s)'
  BY <1>1, <1>2, <1>3, SlotOKKept
<1>6. Named' /\ \A r \in AllSlots \ {s} : Accounted(r)' /\ Truthful(r)'
  BY <1>0, <1>1, <1>3, <1>4, <1>5, MoveKept DEF Named
<1>7. OrphanBrowsers(s)' = OrphanBrowsers(s) /\ OrphanLoops(s)' = OrphanLoops(s)
  <2>1. \A b : b \in Owned(s)' <=> b \in Owned(s)
    BY <1>1, <1>2, <1>3, OwnedIs
  <2>2. t \in Owned(s)
    BY <1>2, <1>3, OwnedIs
  <2>3. QED
    BY <1>1, <1>2, <1>3, <2>1, <2>2 DEF OrphanBrowsers, OrphanLoops
<1>8. HoldsBrowser(s)' = HoldsBrowser(s) /\ HoldsLoop(s)' = HoldsLoop(s)
  <2>1. Closing(s, slot[s].browser)' <=> Closing(s, slot[s].browser)
    BY <1>1, <1>2, <1>3 DEF Closing
  <2>2. QED
    BY <1>1, <1>3, <2>1 DEF HoldsBrowser, HoldsLoop
<1>9. Accounted(s)'
  BY <1>1, <1>2, <1>3, <1>7, <1>8 DEF Accounted, Stranded, StrandedLoops, Waits
<1>10. Truthful(s)'
  BY <1>1, <1>2, <1>3 DEF Truthful
<1>11. Stopped'
  BY <1>1, <1>2, StoppedKept
<1>12. QED
  BY <1>2, <1>6, <1>9, <1>10, <1>11, MoveInv

\* A toggle of s that fails leaves the slot alone; after the launch it loses its browser.
LEMMA FailsKept ==
  ASSUME GhostInv, NEW t \in Begun, LaunchFails(t) \/ SetupFails(t)
  PROVE  GhostInv'
<1>0. PICK s : s = toggles[t].slot
  OBVIOUS
<1>1. PICK from \in {"launch", "page"} :
        /\ Moves(t, from, "failed")
        /\ accidents' = IF from = "page" THEN [accidents EXCEPT ![s] = @ + 1] ELSE accidents
        /\ UNCHANGED <<slot, browsers, loops, stopAll, spent, doomed>>
  BY <1>0 DEF LaunchFails, SetupFails, Blamed
<1>2. /\ Named /\ Stopped /\ from \in Awaiting /\ "failed" \in Places /\ "failed" \notin Awaiting
  BY DEF GhostInv, Awaiting, Places
<1>3. /\ s \in AllSlots /\ Steady /\ t \in Working(s) /\ toggles[t].at = from /\ toggles'[t].at = "failed"
      /\ \A u \in Begun : toggles'[u].browser = toggles[u].browser /\ (u # t => toggles'[u] = toggles[u])
      /\ On(s)' = On(s) /\ Working(s)' = Working(s) \ {t} /\ Waits(s)' = Waits(s) - 1
      /\ Waits(s) \in Nat /\ Waits(s) > 0
  BY <1>0, <1>1, <1>2, Worker
<1>4. /\ toggles[t].browser = t /\ t \notin loops /\ ToggleOK(t) /\ (from = "launch" => t \notin browsers)
      /\ SlotOK(s) /\ Accounted(s) /\ Truthful(s)
      /\ \A u \in Working(s) : u \in Begun
  <2>1. ToggleOK(t) /\ SlotOK(s) /\ Accounted(s) /\ Truthful(s)
    BY <1>2, <1>3 DEF Named, GhostInv
  <2>2. QED
    BY <1>3, <2>1 DEF ToggleOK, Working, On
<1>5. ToggleOK(t)'
  BY <1>0, <1>1, <1>3, <1>4 DEF ToggleOK, Of, Steady
<1>6. SlotOK(s)'
  BY <1>1, <1>3, <1>4, SlotOKKept
<1>7. /\ accidents' \in [AllSlots -> Nat]
      /\ accidents'[s] = IF from = "page" THEN accidents[s] + 1 ELSE accidents[s]
      /\ \A r \in AllSlots \ {s} : accidents'[r] = accidents[r]
  BY <1>1, <1>2, <1>3 DEF Named
<1>8. Named' /\ \A r \in AllSlots \ {s} : Accounted(r)' /\ Truthful(r)'
  <2>1. slot' \in [AllSlots -> [enabled : BOOLEAN, browser : Nat, loop : Nat]] /\ spent' \subseteq AllSlots
    BY <1>1, <1>2 DEF Named
  <2>2. browsers' \subseteq browsers \cup {t} /\ browsers \ browsers' \subseteq On(s)
        /\ loops' \subseteq loops \cup {t} /\ loops \subseteq loops'
    BY <1>1
  <2>3. \A r \in AllSlots \ {s} : slot'[r] = slot[r] /\ accidents'[r] = accidents[r] /\ (r \in spent' <=> r \in spent)
    BY <1>1, <1>7
  <2>4. QED
    BY <1>0, <1>1, <1>2, <1>5, <1>6, <1>7, <2>1, <2>2, <2>3, MoveKept
<1>9. \A b : b \in Owned(s) => b \in Owned(s)' \/ b = t
  BY <1>1, <1>3, <1>4, OwnedIs
<1>10. /\ OrphanLoops(s)' = OrphanLoops(s)
       /\ OrphanBrowsers(s)' \subseteq IF from = "page" THEN OrphanBrowsers(s) \cup {t} ELSE OrphanBrowsers(s)
  BY <1>1, <1>3, <1>4, <1>9 DEF OrphanBrowsers, OrphanLoops
<1>11. /\ Stranded(s)' \in Nat /\ StrandedLoops(s)' = StrandedLoops(s)
       /\ Stranded(s)' <= IF from = "page" THEN Stranded(s) + 1 ELSE Stranded(s)
  <2>1. IsFiniteSet(OrphanBrowsers(s))
    BY <1>2, BegunFacts DEF Named
  <2>2. QED
    BY <1>10, <2>1, Counts DEF Stranded, StrandedLoops
<1>12. HoldsBrowser(s)' = HoldsBrowser(s) /\ HoldsLoop(s)' = HoldsLoop(s)
  <2>1. Closing(s, slot[s].browser)' <=> Closing(s, slot[s].browser)
    BY <1>1, <1>3, <1>4 DEF Closing
  <2>2. QED
    BY <1>1, <2>1 DEF HoldsBrowser, HoldsLoop
<1>13. Accounted(s)'
  <2>1. /\ Stranded(s) \in Nat /\ StrandedLoops(s) \in Nat /\ accidents[s] \in Nat
        /\ One(HoldsBrowser(s)) \in {0, 1} /\ One(HoldsLoop(s)) \in {0, 1}
        /\ One(slot[s].enabled) \in {0, 1}
    BY <1>2, <1>3, AccountType
  <2>2. Paid(Stranded(s), Waits(s), One(HoldsBrowser(s)), One(slot[s].enabled), accidents[s])
    BY <1>4 DEF Accounted
  <2>3. Paid(StrandedLoops(s), Waits(s), One(HoldsLoop(s)), One(slot[s].enabled), accidents[s])
    BY <1>4 DEF Accounted
  <2>4. Paid(Stranded(s)', Waits(s)', One(HoldsBrowser(s)), One(slot[s].enabled), accidents'[s])
    BY <1>3, <1>7, <1>11, <2>1, <2>2, SMTT(60) DEF Paid
  <2>5. Paid(StrandedLoops(s)', Waits(s)', One(HoldsLoop(s)), One(slot[s].enabled), accidents'[s])
    BY <1>3, <1>7, <1>11, <2>1, <2>3, SMTT(60) DEF Paid
  <2>6. QED
    BY <1>1, <1>12, <2>4, <2>5 DEF Accounted
<1>14. Truthful(s)'
  <2>1. \A u \in Working(s) : toggles[u].at = "close" => u \in Working(s)' /\ toggles'[u] = toggles[u]
    BY <1>3, <1>4
  <2>2. QED
    BY <1>1, <1>4, <2>1 DEF Truthful
<1>15. Stopped'
  <2>1. \A u \in Begun : toggles[u].at = "close" => toggles'[u].at = "close"
    BY <1>3
  <2>2. QED
    BY <1>1, <1>2, <1>3, <2>1, StoppedKept
<1>16. QED
  BY <1>3, <1>8, <1>13, <1>14, <1>15, MoveInv

\* A toggle of s is done: what the slot held may be lost, and nothing more.
LEMMA DoneAccount ==
  ASSUME Named, NEW s \in AllSlots, Accounted(s), Waits(s) > 0, Waits(s)' = Waits(s) - 1,
         accidents' = accidents, slot'[s].enabled \in BOOLEAN,
         OrphanBrowsers(s)' \subseteq OrphanBrowsers(s) \cup {slot[s].browser},
         OrphanBrowsers(s)' \subseteq OrphanBrowsers(s) \/ HoldsBrowser(s),
         OrphanLoops(s)' \subseteq OrphanLoops(s) \cup {slot[s].loop},
         OrphanLoops(s)' \subseteq OrphanLoops(s) \/ HoldsLoop(s),
         slot'[s].enabled \/ ~HoldsBrowser(s)',
         slot'[s].enabled \/ ~HoldsLoop(s)'
           \/ (OrphanLoops(s)' \subseteq OrphanLoops(s) /\ HoldsLoop(s)' /\ HoldsLoop(s))
  PROVE  Accounted(s)'
<1>1. /\ Stranded(s) \in Nat /\ StrandedLoops(s) \in Nat /\ accidents[s] \in Nat /\ Waits(s) \in Nat
      /\ One(HoldsBrowser(s)) \in {0, 1} /\ One(HoldsLoop(s)) \in {0, 1}
      /\ One(slot[s].enabled) \in {0, 1}
  BY AccountType
<1>2. IsFiniteSet(OrphanBrowsers(s)) /\ IsFiniteSet(OrphanLoops(s))
  BY BegunFacts DEF Named
<1>3. Stranded(s)' \in Nat /\ Stranded(s)' <= Stranded(s) + One(HoldsBrowser(s))
  <2>1. CASE HoldsBrowser(s)
    <3>1. One(HoldsBrowser(s)) = 1
      BY <2>1 DEF One
    <3>2. Cardinality(OrphanBrowsers(s)') \in Nat
          /\ Cardinality(OrphanBrowsers(s)') <= Cardinality(OrphanBrowsers(s)) + 1
      BY <1>2, Counts
    <3>3. QED
      BY <3>1, <3>2 DEF Stranded
  <2>2. CASE ~HoldsBrowser(s)
    <3>1. One(HoldsBrowser(s)) = 0
      BY <2>2 DEF One
    <3>2. Cardinality(OrphanBrowsers(s)') \in Nat
          /\ Cardinality(OrphanBrowsers(s)') <= Cardinality(OrphanBrowsers(s))
      BY <1>2, <2>2, Counts
    <3>3. QED
      BY <1>1, <3>1, <3>2 DEF Stranded
  <2>3. QED
    BY <2>1, <2>2
<1>4. /\ StrandedLoops(s)' \in Nat /\ StrandedLoops(s)' <= StrandedLoops(s) + One(HoldsLoop(s))
      /\ OrphanLoops(s)' \subseteq OrphanLoops(s) => StrandedLoops(s)' <= StrandedLoops(s)
  <2>1. OrphanLoops(s)' \subseteq OrphanLoops(s) =>
          Cardinality(OrphanLoops(s)') <= Cardinality(OrphanLoops(s))
    BY <1>2, Counts
  <2>2. Cardinality(OrphanLoops(s)') \in Nat
        /\ Cardinality(OrphanLoops(s)') <= Cardinality(OrphanLoops(s)) + 1
    BY <1>2, Counts
  <2>3. CASE HoldsLoop(s)
    BY <2>1, <2>2, <2>3 DEF One, StrandedLoops
  <2>4. CASE ~HoldsLoop(s)
    <3>1. One(HoldsLoop(s)) = 0
      BY <2>4 DEF One
    <3>2. QED
      BY <1>1, <2>1, <2>2, <2>4, <3>1 DEF StrandedLoops
  <2>5. QED
    BY <2>3, <2>4
<1>5. /\ One(HoldsBrowser(s)') \in {0, 1} /\ One(slot'[s].enabled) \in {0, 1} /\ One(HoldsLoop(s)') \in {0, 1}
      /\ One(slot'[s].enabled) = 1 \/ One(HoldsBrowser(s)') = 0
      /\ \/ One(slot'[s].enabled) = 1 \/ One(HoldsLoop(s)') = 0
         \/ (StrandedLoops(s)' <= StrandedLoops(s) /\ One(HoldsLoop(s)') = One(HoldsLoop(s)))
  BY <1>4 DEF One
<1>6. Paid(Stranded(s), Waits(s), One(HoldsBrowser(s)), One(slot[s].enabled), accidents[s])
  BY DEF Accounted
<1>7. Paid(StrandedLoops(s), Waits(s), One(HoldsLoop(s)), One(slot[s].enabled), accidents[s])
  BY DEF Accounted
<1>8. Paid(Stranded(s)', Waits(s)', One(HoldsBrowser(s)'), One(slot'[s].enabled), accidents[s])
  BY <1>1, <1>3, <1>5, <1>6, SMTT(60) DEF Paid
<1>9. Paid(StrandedLoops(s)', Waits(s)', One(HoldsLoop(s)'), One(slot'[s].enabled), accidents[s])
  BY <1>1, <1>4, <1>5, <1>7, SMTT(60) DEF Paid
<1>10. QED
  BY <1>8, <1>9 DEF Accounted, One

LEMMA PublishedKept ==
  ASSUME GhostInv, NEW t \in Begun, Published(t)
  PROVE  GhostInv'
<1>0. PICK s : s = toggles[t].slot
  OBVIOUS
<1>1. /\ Moves(t, "page", "done") /\ slot' = [slot EXCEPT ![s] = [enabled |-> TRUE, browser |-> t, loop |-> t]]
      /\ loops' = loops \cup {t}
      /\ spent' = IF t \in browsers THEN spent \ {s} ELSE spent \cup {s}
      /\ UNCHANGED <<browsers, stopAll, accidents, doomed>>
  BY <1>0 DEF Published
<1>2. /\ Named /\ Stopped /\ "page" \in Awaiting /\ "done" \in Places /\ "done" \notin Awaiting
      /\ t \in Nat /\ 0 \notin Begun
  BY BegunFacts DEF GhostInv, Awaiting, Places, Named
<1>3. /\ s \in AllSlots /\ Steady /\ t \in Working(s) /\ toggles[t].at = "page" /\ toggles'[t].at = "done"
      /\ \A u \in Begun : toggles'[u].browser = toggles[u].browser /\ (u # t => toggles'[u] = toggles[u])
      /\ On(s)' = On(s) /\ Working(s)' = Working(s) \ {t} /\ Waits(s)' = Waits(s) - 1
      /\ Waits(s) \in Nat /\ Waits(s) > 0
  BY <1>0, <1>1, <1>2, Worker
<1>4. /\ toggles[t].browser = t /\ t \notin loops /\ ToggleOK(t)
      /\ SlotOK(s) /\ Accounted(s) /\ Truthful(s)
      /\ \A u \in Working(s) : u \in Begun
  <2>1. ToggleOK(t) /\ SlotOK(s) /\ Accounted(s) /\ Truthful(s)
    BY <1>2, <1>3 DEF Named, GhostInv
  <2>2. QED
    BY <1>3, <2>1 DEF ToggleOK, Working, On
<1>5. /\ slot' \in [AllSlots -> [enabled : BOOLEAN, browser : Nat, loop : Nat]]
      /\ slot'[s] = [enabled |-> TRUE, browser |-> t, loop |-> t]
      /\ \A r \in AllSlots \ {s} : slot'[r] = slot[r]
  BY <1>1, <1>2, <1>3 DEF Named
<1>6. t \in Begun' /\ toggles'[t].slot = s
  BY <1>0, <1>3 DEF Steady
<1>7. ToggleOK(t)'
  BY <1>0, <1>3, <1>4, <1>6 DEF ToggleOK, Of
<1>8. SlotOK(s)'
  BY <1>2, <1>3, <1>5, <1>6 DEF SlotOK, Through
<1>9. Named' /\ \A r \in AllSlots \ {s} : Accounted(r)' /\ Truthful(r)'
  <2>1. accidents' \in [AllSlots -> Nat] /\ spent' \subseteq AllSlots
    BY <1>1, <1>2, <1>3 DEF Named
  <2>2. browsers' \subseteq browsers \cup {t} /\ browsers \ browsers' \subseteq On(s)
        /\ loops' \subseteq loops \cup {t} /\ loops \subseteq loops'
    BY <1>1
  <2>3. \A r \in AllSlots \ {s} : slot'[r] = slot[r] /\ accidents'[r] = accidents[r] /\ (r \in spent' <=> r \in spent)
    BY <1>1, <1>5
  <2>4. QED
    BY <1>0, <1>1, <1>2, <1>5, <1>7, <1>8, <2>1, <2>2, <2>3, MoveKept
<1>10. \A b : b \in Owned(s) => b \in Owned(s)' \/ (b = slot[s].browser /\ ~Closing(s, b))
  <2>1. ASSUME NEW u \in Working(s)
        PROVE  toggles[u].browser \in Owned(s)'
    BY <1>3, <1>4, <1>5, OwnedIs
  <2>2. QED
    BY <2>1, OwnedIs DEF Closing
<1>11. /\ OrphanBrowsers(s)' \subseteq OrphanBrowsers(s) \cup {slot[s].browser}
       /\ OrphanBrowsers(s)' \subseteq OrphanBrowsers(s) \/ HoldsBrowser(s)
  BY <1>1, <1>3, <1>10 DEF OrphanBrowsers, HoldsBrowser
<1>12. /\ OrphanLoops(s)' \subseteq OrphanLoops(s) \cup {slot[s].loop}
       /\ OrphanLoops(s)' \subseteq OrphanLoops(s) \/ HoldsLoop(s)
  BY <1>1, <1>3, <1>5 DEF OrphanLoops, HoldsLoop
<1>13. Accounted(s)'
  BY <1>1, <1>2, <1>3, <1>4, <1>5, <1>11, <1>12, DoneAccount
<1>14. Truthful(s)'
  BY <1>1, <1>3, <1>5 DEF Truthful
<1>15. Stopped'
  <2>1. \A u \in Begun : toggles[u].at = "close" => toggles'[u].at = "close"
    BY <1>3
  <2>2. t \notin doomed
    BY <1>2, <1>3 DEF Stopped
  <2>3. \A r \in AllSlots : slot'[r].browser = slot[r].browser \/ slot'[r].browser \notin doomed
    BY <1>5, <2>2
  <2>4. QED
    BY <1>1, <1>2, <1>3, <2>1, <2>3, StoppedKept
<1>16. QED
  BY <1>3, <1>9, <1>13, <1>14, <1>15, MoveInv

LEMMA ClosedKept ==
  ASSUME GhostInv, NEW t \in Begun, Closed(t)
  PROVE  GhostInv'
<1>0. PICK s : s = toggles[t].slot
  OBVIOUS
<1>1. /\ Moves(t, "close", "done") /\ slot' = [slot EXCEPT ![s] = Disabled(s)]
      /\ browsers' = browsers \ {toggles[t].browser}
      /\ UNCHANGED <<loops, stopAll, accidents, spent, doomed>>
  BY <1>0 DEF Closed
<1>2. /\ Named /\ Stopped /\ "close" \in Awaiting /\ "done" \in Places /\ "done" \notin Awaiting
      /\ t \in Nat /\ 0 \notin Begun /\ Begun \subseteq Nat
  BY BegunFacts DEF GhostInv, Awaiting, Places, Named
<1>3. /\ s \in AllSlots /\ Steady /\ t \in Working(s) /\ toggles[t].at = "close" /\ toggles'[t].at = "done"
      /\ \A u \in Begun : toggles'[u].browser = toggles[u].browser /\ (u # t => toggles'[u] = toggles[u])
      /\ On(s)' = On(s) /\ Working(s)' = Working(s) \ {t} /\ Waits(s)' = Waits(s) - 1
      /\ Waits(s) \in Nat /\ Waits(s) > 0
  BY <1>0, <1>1, <1>2, Worker
<1>4. /\ ToggleOK(t) /\ SlotOK(s) /\ Accounted(s) /\ Truthful(s)
      /\ toggles[t].browser \in On(s)
      /\ \A u \in Working(s) : u \in Begun
  <2>1. ToggleOK(t) /\ SlotOK(s) /\ Accounted(s) /\ Truthful(s)
    BY <1>2, <1>3 DEF Named, GhostInv
  <2>2. QED
    BY <1>0, <1>3, <2>1 DEF ToggleOK, Of, Working, On
<1>5. /\ Disabled(s).enabled = FALSE /\ Disabled(s).browser = 0
      /\ Disabled(s).loop \in {0} \cup ({slot[s].loop} \cap loops)
      /\ Disabled(s) \in [enabled : BOOLEAN, browser : Nat, loop : Nat]
  <2>1. slot[s].loop \in Nat
    BY <1>2, <1>3 DEF Named
  <2>2. QED
    BY <2>1 DEF Disabled, Off
<1>6. /\ slot' \in [AllSlots -> [enabled : BOOLEAN, browser : Nat, loop : Nat]]
      /\ slot'[s].enabled = FALSE /\ slot'[s].browser = 0
      /\ slot'[s].loop \in {0} \cup ({slot[s].loop} \cap loops)
      /\ \A r \in AllSlots \ {s} : slot'[r] = slot[r]
  BY <1>1, <1>2, <1>3, <1>5 DEF Named
<1>7. ToggleOK(t)'
  <2>1. toggles[t].browser \in Begun' /\ toggles'[toggles[t].browser].slot = s /\ toggles'[t].slot = s
    BY <1>0, <1>3, <1>4 DEF Steady, On
  <2>2. QED
    BY <1>3, <2>1 DEF ToggleOK, Of
<1>8. SlotOK(s)'
  <2>1. slot'[s].loop # 0 => slot'[s].loop = slot[s].loop /\ Through(s, slot[s].loop)
    BY <1>4, <1>6 DEF SlotOK
  <2>2. slot'[s].loop # 0 =>
          slot'[s].loop \in Begun' /\ toggles'[slot'[s].loop].slot = s /\ toggles'[slot'[s].loop].at = "done"
    BY <1>3, <2>1 DEF Through, Steady
  <2>3. QED
    BY <1>6, <2>2 DEF SlotOK, Through
<1>9. Named' /\ \A r \in AllSlots \ {s} : Accounted(r)' /\ Truthful(r)'
  <2>1. accidents' \in [AllSlots -> Nat] /\ spent' \subseteq AllSlots
    BY <1>1, <1>2 DEF Named
  <2>2. browsers' \subseteq browsers \cup {t} /\ browsers \ browsers' \subseteq On(s)
        /\ loops' \subseteq loops \cup {t} /\ loops \subseteq loops'
    BY <1>1, <1>4
  <2>3. \A r \in AllSlots \ {s} : slot'[r] = slot[r] /\ accidents'[r] = accidents[r] /\ (r \in spent' <=> r \in spent)
    BY <1>1, <1>6
  <2>4. QED
    BY <1>0, <1>1, <1>2, <1>6, <1>7, <1>8, <2>1, <2>2, <2>3, MoveKept
<1>10. \A b \in browsers' : b \in Owned(s) => b \in Owned(s)' \/ (b = slot[s].browser /\ ~Closing(s, b))
  <2>1. ASSUME NEW u \in Working(s), toggles[u].browser \in browsers'
        PROVE  toggles[u].browser \in Owned(s)'
    BY <1>1, <1>3, <1>4, <2>1, OwnedIs
  <2>2. QED
    BY <2>1, OwnedIs DEF Closing
<1>11. /\ OrphanBrowsers(s)' \subseteq OrphanBrowsers(s) \cup {slot[s].browser}
       /\ OrphanBrowsers(s)' \subseteq OrphanBrowsers(s) \/ HoldsBrowser(s)
  BY <1>1, <1>3, <1>10 DEF OrphanBrowsers, HoldsBrowser
<1>12. /\ OrphanLoops(s)' \subseteq OrphanLoops(s) \cup {slot[s].loop}
       /\ OrphanLoops(s)' \subseteq OrphanLoops(s) \/ HoldsLoop(s)
  BY <1>1, <1>3 DEF OrphanLoops, HoldsLoop
<1>13. ~HoldsBrowser(s)'
  BY <1>1, <1>2, <1>6 DEF HoldsBrowser, Named
<1>14. \/ ~HoldsLoop(s)'
       \/ (OrphanLoops(s)' \subseteq OrphanLoops(s) /\ HoldsLoop(s)' /\ HoldsLoop(s))
  BY <1>1, <1>2, <1>3, <1>6 DEF OrphanLoops, HoldsLoop, Named
<1>15. Accounted(s)'
  BY <1>1, <1>2, <1>3, <1>4, <1>6, <1>11, <1>12, <1>13, <1>14, DoneAccount
<1>16. Truthful(s)'
  BY <1>1, <1>2, <1>6 DEF Truthful, Named
<1>17. Stopped'
  <2>1. 0 \notin doomed
    BY <1>2 DEF Stopped
  <2>2. \A u \in Begun : toggles[u].at = "close" =>
          \/ toggles'[u].at = "close"
          \/ toggles'[u].at = "done" /\ slot'[toggles[u].slot].browser \notin doomed
    BY <1>0, <1>3, <1>6, <2>1
  <2>3. \A r \in AllSlots : slot'[r].browser = slot[r].browser \/ slot'[r].browser \notin doomed
    BY <1>6, <2>1
  <2>4. QED
    BY <1>1, <1>2, <1>3, <2>2, <2>3, StoppedKept
<1>18. QED
  BY <1>3, <1>9, <1>15, <1>16, <1>17, MoveInv

LEMMA BrowserDiesKept ==
  ASSUME GhostInv, NEW b \in browsers, BrowserDies(b)
  PROVE  GhostInv'
<1>1. /\ Named /\ Stopped /\ b \in browsers /\ b \in Begun /\ 0 \notin Begun
      /\ browsers' = browsers \ {b}
      /\ spent' = spent \cup {s \in AllSlots : slot[s].browser = b}
      /\ UNCHANGED <<slot, toggles, loops, stopAll, accidents, doomed>>
  BY BegunFacts DEF BrowserDies, GhostInv, Named
<1>2. Begun' = Begun /\ Steady
  BY <1>1 DEF Begun, Steady
<1>3. Named'
  <2>1. \A t \in Begun : ToggleOK(t)'
    BY <1>1, <1>2, ToggleOKKept DEF Named
  <2>2. \A s \in AllSlots : SlotOK(s)'
    BY <1>1, <1>2, SlotOKKept DEF Named
  <2>3. spent' \subseteq AllSlots /\ browsers' \subseteq Begun' /\ loops' \subseteq Begun'
    BY <1>1, <1>2 DEF Named
  <2>4. QED
    BY <1>1, <1>2, <2>1, <2>2, <2>3 DEF Named
<1>4. Stopped'
  BY <1>1, <1>2, StoppedKept
<1>5. ASSUME NEW s \in AllSlots
      PROVE  Accounted(s)' /\ Truthful(s)'
  <2>1. Accounted(s) /\ Truthful(s) /\ SlotOK(s)
    BY <1>1 DEF GhostInv, Named
  <2>2. On(s)' = On(s) /\ Working(s)' = Working(s) /\ Owned(s)' = Owned(s)
    BY <1>1, <1>2 DEF On, Working, Owned
  <2>3. OrphanBrowsers(s)' \subseteq OrphanBrowsers(s) /\ OrphanLoops(s)' = OrphanLoops(s)
    BY <1>1, <2>2 DEF OrphanBrowsers, OrphanLoops
  <2>4. HoldsLoop(s)' = HoldsLoop(s) /\ (HoldsBrowser(s)' => HoldsBrowser(s))
    BY <1>1, <2>2 DEF HoldsLoop, HoldsBrowser, Closing
  <2>5. Stranded(s)' \in Nat /\ Stranded(s)' <= Stranded(s)
    <3>1. IsFiniteSet(OrphanBrowsers(s))
      BY <1>1, BegunFacts DEF Named
    <3>2. QED
      BY <2>3, <3>1, Counts DEF Stranded
  <2>6. /\ Stranded(s) \in Nat /\ Waits(s) \in Nat /\ accidents[s] \in Nat
        /\ One(HoldsBrowser(s)) \in {0, 1} /\ One(slot[s].enabled) \in {0, 1}
    BY <1>1, AccountType
  <2>7. One(HoldsBrowser(s)') \in {0, 1} /\ One(HoldsBrowser(s)') <= One(HoldsBrowser(s))
    BY <2>4 DEF One
  <2>8. Paid(Stranded(s), Waits(s), One(HoldsBrowser(s)), One(slot[s].enabled), accidents[s])
    BY <2>1 DEF Accounted
  <2>9. Paid(Stranded(s)', Waits(s), One(HoldsBrowser(s)'), One(slot[s].enabled), accidents[s])
    BY <2>5, <2>6, <2>7, <2>8, SMTT(60) DEF Paid
  <2>10. Accounted(s)'
    BY <1>1, <2>1, <2>2, <2>3, <2>4, <2>9 DEF Accounted, Waits, StrandedLoops, One
  <2>11. Truthful(s)'
    BY <1>1, <2>1, <2>2 DEF Truthful
  <2>12. QED
    BY <2>10, <2>11
<1>6. QED
  BY <1>3, <1>4, <1>5 DEF GhostInv

\* The accounts and the names of a step that only concerns stop-all.
LEMMA OnlyStopAll ==
  ASSUME GhostInv, UNCHANGED <<slot, toggles, browsers, loops, accidents, spent>>, Stopped'
  PROVE  GhostInv'
<1>1. Named /\ Begun' = Begun /\ Steady
  BY DEF GhostInv, Begun, Steady
<1>2. Named'
  <2>1. \A t \in Begun : ToggleOK(t)'
    BY <1>1, ToggleOKKept DEF Named
  <2>2. \A s \in AllSlots : SlotOK(s)'
    BY <1>1, SlotOKKept DEF Named
  <2>3. QED
    BY <1>1, <2>1, <2>2 DEF Named
<1>3. ASSUME NEW s \in AllSlots
      PROVE  Accounted(s)' /\ Truthful(s)'
  <2>1. On(s)' = On(s)
    BY <1>1 DEF On
  <2>2. Accounted(s) /\ Truthful(s)
    BY DEF GhostInv
  <2>3. QED
    BY <1>1, <2>1, <2>2, Elsewhere
<1>4. QED
  BY <1>2, <1>3 DEF GhostInv

\* Stop-all has stopped the slot it was at, and goes on to the next.
LEMMA NextSlotKept ==
  ASSUME Named, Stopped, stopAll.slot # 0, slot[stopAll.slot].browser \notin doomed,
         stopAll' = NextSlot(stopAll.slot), UNCHANGED <<slot, toggles, doomed>>
  PROVE  Stopped'
<1>1. GhostCount \in Nat \ {0} /\ stopAll.slot \in 1..GhostCount
  BY GhostAssumption DEF Stopped
<1>2. stopAll' \in [slot : 0..GhostCount, waits : Nat] /\ stopAll'.waits = 0
      /\ stopAll'.slot = IF stopAll.slot = GhostCount THEN 0 ELSE stopAll.slot + 1
  BY <1>1 DEF NextSlot
<1>3. \A s \in GhostSlot : stopAll'.slot = 0 \/ s < stopAll'.slot => s < stopAll.slot \/ s = stopAll.slot
  BY <1>1, <1>2 DEF GhostSlot
<1>4. \A s \in GhostSlot : stopAll'.slot = 0 \/ s < stopAll'.slot => slot'[s].browser \notin doomed
  BY <1>3 DEF Stopped
<1>5. QED
  BY <1>2, <1>4 DEF Stopped, Begun, Of

LEMMA StopAllKept ==
  ASSUME GhostInv, StopAllBegins \/ StopAllSlot \/ StopAllGoesOn
  PROVE  GhostInv'
<1>1. Named /\ Stopped /\ 0 \notin Begun /\ Begun \subseteq Nat
  BY BegunFacts DEF GhostInv, Named
<1>2. CASE StopAllBegins
  <2>1. /\ stopAll' = [slot |-> 1, waits |-> 0]
        /\ doomed' = {slot[s].browser : s \in GhostSlot} \ {0}
        /\ UNCHANGED <<slot, toggles, browsers, loops, accidents, spent>>
    BY <1>2 DEF StopAllBegins
  <2>2. \A b \in doomed' : b \in Begun /\ toggles[b].at = "done"
    BY <1>1, <2>1 DEF Named, SlotOK, Through, AllSlots
  <2>3. stopAll' \in [slot : 0..GhostCount, waits : Nat]
    BY <2>1, GhostAssumption
  <2>4. \A s \in GhostSlot : ~(stopAll'.slot = 0 \/ s < stopAll'.slot)
    BY <2>1, GhostAssumption DEF GhostSlot
  <2>5. Stopped'
    BY <2>1, <2>2, <2>3, <2>4 DEF Stopped, Begun
  <2>6. QED
    BY <2>1, <2>5, OnlyStopAll
<1>3. CASE StopAllSlot
  <2>0. PICK s : s = stopAll.slot
    OBVIOUS
  <2>1. s # 0 /\ s \in AllSlots /\ s \in GhostSlot /\ stopAll.waits = 0
        /\ UNCHANGED <<slot, browsers, troubles, spent, doomed>>
    BY <1>1, <1>3, <2>0, GhostAssumption DEF StopAllSlot, Stopped, AllSlots, GhostSlot
  <2>2. CASE /\ slot[s].enabled /\ TurningOff(s)
             /\ stopAll' = [stopAll EXCEPT !.waits = Len(toggles')]
    <3>0. PICK n : n = Len(toggles) + 1
      OBVIOUS
    <3>1. Toggle(s, "close", slot[s].browser) /\ loops' = loops \ {slot[s].loop}
      BY <2>2 DEF TurningOff
    <3>2. Named' /\ \A r \in AllSlots : Accounted(r)' /\ Truthful(r)'
      BY <2>1, <2>2, <3>1, ToggleKept
    <3>3. slot[s].browser \in Nat /\ "close" \in Places /\ "close" \in Awaiting
      BY <1>1, <2>1 DEF Named, Places, Awaiting
    <3>4. /\ Len(toggles') = n /\ Begun' = Begun \cup {n} /\ n \notin Begun
          /\ toggles'[n] = [slot |-> s, at |-> "close", browser |-> slot[s].browser]
          /\ \A u \in Begun : toggles'[u] = toggles[u]
      BY <1>1, <2>1, <3>0, <3>1, <3>3, ToggleFacts
    <3>5. n \in Nat
      BY <3>0, BegunFacts, <1>1 DEF Named
    <3>6. stopAll' \in [slot : 0..GhostCount, waits : Nat] /\ stopAll'.slot = s /\ stopAll'.waits = n
      BY <1>1, <2>0, <2>2, <3>4, <3>5 DEF Stopped
    <3>7. Stopped'
      <4>1. Of(s, n)' /\ toggles'[n].at = "close"
        BY <3>4 DEF Of
      <4>2. doomed' \subseteq Begun' /\ \A b \in doomed' : toggles'[b].at = "done"
        BY <1>1, <2>1, <3>4 DEF Stopped
      <4>3. \A r \in GhostSlot : stopAll'.slot = 0 \/ r < stopAll'.slot => slot'[r].browser \notin doomed'
        BY <1>1, <2>0, <2>1, <3>6 DEF Stopped
      <4>4. QED
        BY <2>1, <3>4, <3>6, <4>1, <4>2, <4>3 DEF Stopped, Of
    <3>8. QED
      BY <3>2, <3>7 DEF GhostInv
  <2>3. CASE /\ ~slot[s].enabled /\ stopAll' = NextSlot(s) /\ UNCHANGED <<toggles, loops, accidents>>
    <3>1. slot[s].browser \notin doomed
      BY <1>1, <2>1, <2>3 DEF Named, SlotOK, Stopped
    <3>2. Stopped'
      BY <1>1, <2>0, <2>1, <2>3, <3>1, NextSlotKept
    <3>3. QED
      BY <2>1, <2>3, <3>2, OnlyStopAll
  <2>4. QED
    BY <1>3, <2>0, <2>2, <2>3 DEF StopAllSlot
<1>4. CASE StopAllGoesOn
  <2>1. /\ stopAll.waits # 0 /\ toggles[stopAll.waits].at = "done" /\ stopAll' = NextSlot(stopAll.slot)
        /\ UNCHANGED <<slot, toggles, browsers, loops, accidents, spent, doomed>>
    BY <1>4 DEF StopAllGoesOn
  <2>2. stopAll.slot # 0 /\ slot[stopAll.slot].browser \notin doomed
    BY <1>1, <2>1 DEF Stopped
  <2>3. QED
    BY <1>1, <2>1, <2>2, NextSlotKept, OnlyStopAll
<1>5. QED
  BY <1>2, <1>3, <1>4

-----------------------------------------------------------------------------
(* The theorem *)

LEMMA GhostInvInit ==
  ASSUME GhostInit
  PROVE  GhostInv
<1>1. /\ toggles = <<>> /\ browsers = {} /\ loops = {} /\ slot = [s \in AllSlots |-> Off]
      /\ stopAll = [slot |-> 0, waits |-> 0] /\ accidents = [s \in AllSlots |-> 0] /\ spent = {} /\ doomed = {}
  BY DEF GhostInit
<1>2. Begun = {} /\ toggles \in Seq(Toggles)
  BY <1>1 DEF Begun
<1>3. \A s \in AllSlots : slot[s].enabled = FALSE /\ slot[s].browser = 0 /\ slot[s].loop = 0 /\ accidents[s] = 0
  BY <1>1 DEF Off
<1>4. Named
  BY <1>1, <1>2, <1>3 DEF Named, SlotOK, Off
<1>5. Stopped
  BY <1>1, GhostAssumption DEF Stopped
<1>6. ASSUME NEW s \in AllSlots
      PROVE  Accounted(s) /\ Truthful(s)
  <2>1. Working(s) = {} /\ OrphanBrowsers(s) = {} /\ OrphanLoops(s) = {}
    BY <1>1, <1>2 DEF Working, OrphanBrowsers, OrphanLoops, On
  <2>2. Stranded(s) = 0 /\ StrandedLoops(s) = 0 /\ Waits(s) = 0
    BY <2>1, FS_EmptySet DEF Stranded, StrandedLoops, Waits
  <2>3. One(HoldsBrowser(s)) = 0 /\ One(HoldsLoop(s)) = 0 /\ One(slot[s].enabled) = 0
    BY <1>1, <1>3 DEF One, HoldsBrowser, HoldsLoop
  <2>4. Accounted(s)
    BY <1>3, <2>2, <2>3 DEF Accounted, Paid
  <2>5. QED
    BY <1>1, <1>3, <2>4 DEF Truthful
<1>7. QED
  BY <1>4, <1>5, <1>6 DEF GhostInv

LEMMA GhostInvKept ==
  ASSUME GhostInv, [GhostNext]_ghostVars
  PROVE  GhostInv'
<1>1. ASSUME NEW s \in AllSlots, TurnOn(s) \/ TurnOff(s)
      PROVE  GhostInv'
  <2>1. Named /\ Stopped /\ UNCHANGED <<slot, browsers, stopAll, spent, doomed>>
    BY <1>1 DEF GhostInv, TurnOn, TurnOff
  <2>2. PICK at, b :
          /\ at \in {"launch", "close"} /\ Toggle(s, at, b)
          /\ \/ at = "launch" /\ b = Len(toggles) + 1 /\ ~slot[s].enabled /\ loops' = loops
             \/ at = "close" /\ b = slot[s].browser /\ slot[s].enabled /\ loops' = loops \ {slot[s].loop}
    <3>1. CASE TurnOn(s)
      BY <3>1 DEF TurnOn
    <3>2. CASE TurnOff(s)
      BY <3>2 DEF TurnOff, TurningOff
    <3>3. QED
      BY <1>1, <3>1, <3>2
  <2>3. Named' /\ \A r \in AllSlots : Accounted(r)' /\ Truthful(r)'
    BY <2>1, <2>2, ToggleKept
  <2>4. Steady /\ \A u \in Begun : toggles'[u] = toggles[u]
    <3>1. Len(toggles) \in Nat /\ toggles \in Seq(Toggles)
      BY <2>1 DEF Named
    <3>2. Begun \subseteq Begun' /\ \A u \in Begun : toggles'[u] = toggles[u]
      BY <2>2, <3>1 DEF Toggle, Begun
    <3>3. QED
      BY <3>2 DEF Steady
  <2>5. Stopped'
    BY <2>1, <2>4, StoppedKept
  <2>6. QED
    BY <2>3, <2>5 DEF GhostInv
<1>2. ASSUME NEW t \in Begun,
             BrowserOpened(t) \/ LaunchFails(t) \/ SetupFails(t) \/ Published(t) \/ Closed(t)
      PROVE  GhostInv'
  BY <1>2, BrowserOpenedKept, FailsKept, PublishedKept, ClosedKept
<1>3. ASSUME NEW b \in browsers, BrowserDies(b)
      PROVE  GhostInv'
  BY <1>3, BrowserDiesKept
<1>4. CASE StopAllBegins \/ StopAllSlot \/ StopAllGoesOn
  BY <1>4, StopAllKept
<1>5. CASE UNCHANGED ghostVars
  <2>1. UNCHANGED <<slot, toggles, browsers, loops, stopAll, accidents, spent, doomed>>
    BY <1>5 DEF ghostVars
  <2>2. Stopped'
    BY <2>1 DEF GhostInv, Stopped, Of, Begun
  <2>3. QED
    BY <2>1, <2>2, OnlyStopAll
<1>6. QED
  BY <1>1, <1>2, <1>3, <1>4, <1>5 DEF GhostNext

\* Without accidents nothing is lost, and an idle slot owns what it holds.
LEMMA GhostInvControls ==
  ASSUME GhostInv
  PROVE  GhostsControlled
<1>1. Named /\ Stopped /\ 0 \notin Begun
  BY BegunFacts DEF GhostInv, Named
<1>2. ASSUME NEW s \in AllSlots
      PROVE  /\ Stranded(s) <= accidents[s] /\ StrandedLoops(s) <= accidents[s]
             /\ Accounted(s) /\ Truthful(s) /\ SlotOK(s)
  BY <1>1 DEF GhostInv, Named, Accounted, Paid
<1>3. OrphansOfAccidents
  BY <1>2 DEF OrphansOfAccidents, Stranded, StrandedLoops
<1>4. ASSUME NEW s \in AllSlots, accidents[s] = 0, ~BusySlot(s)
      PROVE  /\ On(s) \cap loops = {slot[s].loop} \ {0}
             /\ On(s) \cap browsers = IF s \in spent THEN {} ELSE {slot[s].browser} \ {0}
  <2>1. /\ Stranded(s) \in Nat /\ StrandedLoops(s) \in Nat
        /\ IsFiniteSet(OrphanBrowsers(s)) /\ IsFiniteSet(OrphanLoops(s)) /\ Working(s) = {}
    BY <1>1, <1>4, AccountType, BegunFacts DEF Named, Working, BusySlot
  <2>2. Stranded(s) = 0 /\ StrandedLoops(s) = 0
    BY <1>2, <1>4, <2>1
  <2>3. OrphanBrowsers(s) = {} /\ OrphanLoops(s) = {}
    BY <2>1, <2>2, FS_EmptySet DEF Stranded, StrandedLoops
  <2>4. Owned(s) = {slot[s].browser}
    BY <2>1 DEF Owned, Working
  <2>5. On(s) \cap browsers \subseteq {slot[s].browser} /\ On(s) \cap loops \subseteq {slot[s].loop}
    BY <2>3, <2>4 DEF OrphanBrowsers, OrphanLoops
  <2>6. 0 \notin On(s) /\ (slot[s].browser # 0 => slot[s].browser \in On(s)) /\ (slot[s].loop # 0 => slot[s].loop \in On(s))
    BY <1>1, <1>2 DEF SlotOK, Through, On
  <2>7. /\ slot[s].loop # 0 => slot[s].loop \in loops
        /\ s \in spent => slot[s].browser \notin browsers
        /\ s \notin spent /\ slot[s].browser # 0 => slot[s].browser \in browsers
    BY <1>2, <2>1 DEF Truthful
  <2>8. QED
    BY <2>5, <2>6, <2>7
<1>5. SlotTruthful
  BY <1>4 DEF SlotTruthful
<1>6. StopAllStops
  BY <1>1 DEF StopAllStops, Stopped
<1>7. QED
  BY <1>3, <1>5, <1>6 DEF GhostsControlled

\* For any number of ghost slots and any interleaving of toggles, failed launches and
\* set-ups, deaths of Chromium and stop-all: of a slot there are never more browsers and
\* loops out of reach than its accidents, an idle slot without accidents is what it says,
\* and stop-all leaves no ghost a browser it had (shadow-bridge.ts, /api/ghost).
THEOREM GhostsStayControlled == GhostSpec => []GhostsControlled
<1>1. GhostInit => GhostInv
  BY GhostInvInit
<1>2. GhostInv /\ [GhostNext]_ghostVars => GhostInv'
  BY GhostInvKept
<1>3. GhostInv => GhostsControlled
  BY GhostInvControls
<1>4. QED
  BY <1>1, <1>2, <1>3, PTL DEF GhostSpec

\* A slot that is off has no mirror loop but, for shadow mode, a running one.
OffLoops ==
  \A s \in AllSlots : ~slot[s].enabled /\ slot[s].loop # 0 => s = Shadow /\ slot[s].loop \in loops

LEMMA OffLoopsKept ==
  ASSUME GhostInv, OffLoops, [GhostNext]_ghostVars
  PROVE  OffLoops'
<1>1. /\ slot \in [AllSlots -> [enabled : BOOLEAN, browser : Nat, loop : Nat]]
      /\ \A s \in AllSlots : SlotOK(s)
      /\ \A t \in Begun : toggles[t].slot \in AllSlots
      /\ Shadow \in AllSlots
  BY BegunFacts DEF GhostInv, Named, Toggles, AllSlots
<1>2. ASSUME NEW s \in AllSlots, slot[s].enabled, loops' = loops \ {slot[s].loop}, slot' = slot
      PROVE  OffLoops'
  <2>1. ~slot[Shadow].enabled /\ slot[Shadow].loop # 0 => slot[Shadow].loop # slot[s].loop
    BY <1>1, <1>2 DEF SlotOK, Through
  <2>2. QED
    BY <1>2, <2>1 DEF OffLoops
<1>3. ASSUME NEW t \in Begun, Published(t)
      PROVE  OffLoops'
  <2>1. slot' = [slot EXCEPT ![toggles[t].slot] = [enabled |-> TRUE, browser |-> t, loop |-> t]]
        /\ loops \subseteq loops'
    BY <1>3 DEF Published
  <2>2. QED
    BY <1>1, <2>1 DEF OffLoops
<1>4. ASSUME NEW t \in Begun, Closed(t)
      PROVE  OffLoops'
  <2> DEFINE r == toggles[t].slot
  <2>1. slot' = [slot EXCEPT ![r] = Disabled(r)] /\ loops' = loops /\ r \in AllSlots
    BY <1>1, <1>4 DEF Closed
  <2>2. Disabled(r).loop # 0 => r = Shadow /\ Disabled(r).loop \in loops
    BY DEF Disabled, Off
  <2>3. QED
    BY <1>1, <2>1, <2>2 DEF OffLoops
<1>5. CASE slot' = slot /\ loops' = loops
  BY <1>5 DEF OffLoops
<1>6. CASE StopAllSlot
  BY <1>1, <1>2, <1>5, <1>6, GhostAssumption DEF StopAllSlot, TurningOff, GhostInv, Stopped, AllSlots, GhostSlot
<1>7. QED
  BY <1>2, <1>3, <1>4, <1>5, <1>6 DEF GhostNext, ghostVars, TurnOn, TurnOff, TurningOff, BrowserOpened,
     LaunchFails, SetupFails, BrowserDies, StopAllBegins, StopAllGoesOn

LEMMA SeqOfMembers ==
  ASSUME NEW S, NEW T, NEW q \in Seq(S), \A i \in 1..Len(q) : q[i] \in T
  PROVE  q \in Seq(T)
OBVIOUS

\* Type correctness of the toggled browsers, for any number of slots and
\* toggles: only an enabled slot has a browser, and only shadow mode can be off
\* with a mirror loop it still knows (shadow-bridge.ts, browser.ts 33-166).
THEOREM GhostsTyped == GhostSpec => []GhostTypeOK
<1>1. GhostInit => GhostInv /\ OffLoops
  BY GhostInvInit DEF GhostInit, Off, OffLoops
<1>2. GhostInv /\ OffLoops /\ [GhostNext]_ghostVars => (GhostInv /\ OffLoops)'
  BY GhostInvKept, OffLoopsKept
<1>3. ASSUME GhostInv, OffLoops
      PROVE  GhostTypeOK
  <2>1. /\ toggles \in Seq(Toggles) /\ Len(toggles) \in Nat
        /\ \A t \in Begun : toggles[t] \in Toggles /\ toggles[t].browser \in Begun
    BY <1>3, BegunFacts DEF GhostInv, Named, ToggleOK, Of
  <2>2. toggles \in Seq([slot : AllSlots, at : Awaiting \cup {"done", "failed"}, browser : Begun])
    <3>1. \A t \in Begun : toggles[t] \in [slot : AllSlots, at : Awaiting \cup {"done", "failed"}, browser : Begun]
      BY <2>1 DEF Toggles, Places
    <3>2. QED
      BY <2>1, <3>1, SeqOfMembers DEF Begun
  <2>3. ASSUME NEW s \in AllSlots
        PROVE  slot[s] \in [enabled : {TRUE}, browser : Begun, loop : Begun]
                    \cup {Off} \cup {[Off EXCEPT !.loop = t] : t \in IF s = Shadow THEN loops ELSE {}}
    <3>1. slot[s] \in [enabled : BOOLEAN, browser : Nat, loop : Nat] /\ SlotOK(s)
      BY <1>3 DEF GhostInv, Named
    <3>2. CASE slot[s].enabled
      BY <3>1, <3>2 DEF SlotOK, Through
    <3>3. CASE ~slot[s].enabled /\ slot[s].loop = 0
      BY <3>1, <3>3 DEF SlotOK, Off
    <3>4. CASE ~slot[s].enabled /\ slot[s].loop # 0
      <4>1. s = Shadow /\ slot[s].loop \in loops
        BY <1>3, <3>4 DEF OffLoops
      <4>2. /\ slot[s].enabled = FALSE /\ slot[s].browser = 0 /\ slot[s].loop \in Nat
        BY <3>1, <3>4 DEF SlotOK
      <4> DEFINE off == [Off EXCEPT !.loop = slot[s].loop]
      <4>3. /\ off \in [enabled : BOOLEAN, browser : Nat, loop : Nat]
            /\ off.enabled = FALSE /\ off.browser = 0 /\ off.loop = slot[s].loop
        BY <4>2 DEF Off
      <4>4. slot[s] = off
        <5>1. off = [enabled |-> off.enabled, browser |-> off.browser, loop |-> off.loop]
          BY <4>3
        <5>2. slot[s] = [enabled |-> slot[s].enabled, browser |-> slot[s].browser, loop |-> slot[s].loop]
          BY <3>1
        <5> HIDE DEF off
        <5>3. QED
          BY <4>2, <4>3, <5>1, <5>2, Zenon
      <4>5. \E t \in IF s = Shadow THEN loops ELSE {} : slot[s] = [Off EXCEPT !.loop = t]
        BY <4>1, <4>3, <4>4
      <4>6. QED
        BY <4>5, Zenon
    <3>5. QED
      BY <3>2, <3>3, <3>4
  <2>4. stopAll \in [slot : 0..GhostCount, waits : {0} \cup Begun]
    BY <1>3 DEF GhostInv, Stopped, Of
  <2>5. QED
    BY <1>3, <2>2, <2>3, <2>4 DEF GhostInv, Named, Stopped, GhostTypeOK
<1>4. QED
  BY <1>1, <1>2, <1>3, PTL DEF GhostSpec
==============================================================================
