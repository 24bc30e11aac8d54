------------------------------ MODULE GhostSlots -----------------------------
(***************************************************************************)
(* The headless browsers that are mirrored on the dashboard: the shadow    *)
(* browser and the three ghost slots, which are toggled alike.  A toggle   *)
(* looks at the slot once, works through its awaits, and then overwrites   *)
(* the slot, whatever other toggles have done to it meanwhile.             *)
(***************************************************************************)
EXTENDS Naturals, Sequences, FiniteSets

CONSTANTS Shadow,      \* the shadow browser: its state is a slot of its own
          GhostCount,  \* MAX_GHOST_SLOTS
          MaxToggles,  \* bound: toggles that find something to do
          MaxTroubles  \* bound: set-ups that fail, browsers that die

ASSUME GhostAssumption ==
  /\ GhostCount \in Nat \ {0} /\ Shadow \notin 1..GhostCount
  /\ MaxToggles \in Nat /\ MaxTroubles \in Nat

VARIABLES
  slot,      \* the state of each slot: enabled, its browser, its mirror loop
  toggles,   \* the toggles begun: the slot, the await each stands at, and the
             \* browser it holds; a browser and a loop are named by the toggle
             \* that made them, and 0 is none
  browsers,  \* the browsers that are open
  loops,     \* the mirror loops that run
  stopAll,   \* the slot /api/ghost/stop-all has come to, 0 when none is in
             \* progress, and the toggle it awaits
  troubles,
  accidents, \* history: for each slot, the overlapping toggles and failed set-ups
  spent,     \* history: the slots whose browser has died
  doomed     \* history: the browsers of the ghost slots when stop-all began

ghostVars == <<slot, toggles, browsers, loops, stopAll, troubles, accidents, spent, doomed>>

GhostSlot == 1..GhostCount
AllSlots == GhostSlot \cup {Shadow}
Begun == 1..Len(toggles)
Awaiting == {"launch", "page", "close"}
On(s) == {t \in Begun : toggles[t].slot = s}
BusySlot(s) == \E t \in On(s) : toggles[t].at \in Awaiting

Off == [enabled |-> FALSE, browser |-> 0, loop |-> 0]

GhostInit ==
  /\ slot = [s \in AllSlots |-> Off]
  /\ toggles = <<>> /\ browsers = {} /\ loops = {}
  /\ stopAll = [slot |-> 0, waits |-> 0] /\ troubles = 0
  /\ accidents = [s \in AllSlots |-> 0] /\ spent = {} /\ doomed = {}

Moves(t, from, to) ==
  /\ toggles[t].at = from
  /\ toggles' = [toggles EXCEPT ![t].at = to]

Blamed(s) == accidents' = [accidents EXCEPT ![s] = @ + 1]

\* A toggle of s that finds something to do.
Toggle(s, at, b) ==
  /\ Len(toggles) < MaxToggles
  /\ toggles' = Append(toggles, [slot |-> s, at |-> at, browser |-> b])
  /\ IF BusySlot(s) THEN Blamed(s) ELSE UNCHANGED accidents

\* Switched on: the launch is awaited with the slot as it was.
TurnOn(s) ==
  /\ ~slot[s].enabled
  /\ Toggle(s, "launch", Len(toggles) + 1)
  /\ UNCHANGED <<slot, browsers, loops, stopAll, troubles, spent, doomed>>

\* Switched off: the loop is cleared, and the close is awaited.
TurningOff(s) ==
  /\ Toggle(s, "close", slot[s].browser)
  /\ loops' = loops \ {slot[s].loop}

TurnOff(s) ==
  /\ slot[s].enabled /\ TurningOff(s)
  /\ UNCHANGED <<slot, browsers, stopAll, troubles, spent, doomed>>

\* The browser is open: newContext, newPage and goto are awaited.
BrowserOpened(t) ==
  /\ Moves(t, "launch", "page")
  /\ browsers' = browsers \cup {toggles[t].browser}
  /\ UNCHANGED <<slot, loops, stopAll, troubles, accidents, spent, doomed>>

Trouble == troubles < MaxTroubles /\ troubles' = troubles + 1

\* chromium.launch throws.
LaunchFails(t) ==
  /\ Trouble /\ Moves(t, "launch", "failed")
  /\ UNCHANGED <<slot, browsers, loops, stopAll, accidents, spent, doomed>>

\* newContext or newPage throws, and nobody closes the browser.
SetupFails(t) ==
  /\ Trouble /\ Moves(t, "page", "failed")
  /\ Blamed(toggles[t].slot)
  /\ UNCHANGED <<slot, browsers, loops, stopAll, spent, doomed>>

\* The page is there: the loop starts and the slot is overwritten.
Published(t) ==
  /\ Moves(t, "page", "done")
  /\ slot' = [slot EXCEPT ![toggles[t].slot] = [enabled |-> TRUE, browser |-> t, loop |-> t]]
  /\ loops' = loops \cup {t}
  /\ spent' = IF t \in browsers THEN spent \ {toggles[t].slot} ELSE spent \cup {toggles[t].slot}
  /\ UNCHANGED <<browsers, stopAll, troubles, accidents, doomed>>

\* A variant with a bug: the slot is freed and its browser is not awaited.
ClosedUnawaited(t) ==
  /\ Moves(t, "close", "done")
  /\ slot' = [slot EXCEPT ![toggles[t].slot] = Off]
  /\ UNCHANGED <<browsers, loops, stopAll, troubles, accidents, spent, doomed>>

\* A slot after the close; the mirror loop of shadow mode has a variable of its
\* own, so that one started during the close is still known.
Disabled(s) ==
  [Off EXCEPT !.loop = IF s = Shadow /\ slot[s].loop \in loops THEN slot[s].loop ELSE 0]

\* The browser is closed, or was already: the slot is overwritten.
Closed(t) ==
  /\ Moves(t, "close", "done")
  /\ browsers' = browsers \ {toggles[t].browser}
  /\ slot' = [slot EXCEPT ![toggles[t].slot] = Disabled(toggles[t].slot)]
  /\ UNCHANGED <<loops, stopAll, troubles, accidents, spent, doomed>>

\* Chromium dies under a slot: the loop goes on, and the slot stays enabled.
BrowserDies(b) ==
  /\ Trouble
  /\ browsers' = browsers \ {b}
  /\ spent' = spent \cup {s \in AllSlots : slot[s].browser = b}
  /\ UNCHANGED <<slot, toggles, loops, stopAll, accidents, doomed>>

-----------------------------------------------------------------------------
(* Stopping all ghosts, one slot after the other *)

StopAllBegins ==
  /\ stopAll.slot = 0
  /\ stopAll' = [slot |-> 1, waits |-> 0]
  /\ doomed' = {slot[s].browser : s \in GhostSlot} \ {0}
  /\ UNCHANGED <<slot, toggles, browsers, loops, troubles, accidents, spent>>

NextSlot(s) == [slot |-> IF s = GhostCount THEN 0 ELSE s + 1, waits |-> 0]

\* The slot it has come to is toggled off, if it is on, and that is awaited.
StopAllSlot ==
  /\ stopAll.slot # 0 /\ stopAll.waits = 0
  /\ LET s == stopAll.slot IN
     \/ /\ slot[s].enabled /\ TurningOff(s)
        /\ stopAll' = [stopAll EXCEPT !.waits = Len(toggles')]
     \/ /\ ~slot[s].enabled
        /\ stopAll' = NextSlot(s)
        /\ UNCHANGED <<toggles, loops, accidents>>
  /\ UNCHANGED <<slot, browsers, troubles, spent, doomed>>

StopAllGoesOn ==
  /\ stopAll.waits # 0 /\ toggles[stopAll.waits].at = "done"
  /\ stopAll' = NextSlot(stopAll.slot)
  /\ UNCHANGED <<slot, toggles, browsers, loops, troubles, accidents, spent, doomed>>

GhostNext ==
  \/ \E s \in AllSlots : TurnOn(s) \/ TurnOff(s)
  \/ \E t \in Begun : BrowserOpened(t) \/ LaunchFails(t) \/ SetupFails(t) \/ Published(t) \/ Closed(t)
  \/ \E b \in browsers : BrowserDies(b)
  \/ StopAllBegins \/ StopAllSlot \/ StopAllGoesOn

GhostSpec == GhostInit /\ [][GhostNext]_ghostVars

-----------------------------------------------------------------------------
(* Properties *)

\* The type invariant of the toggled browsers, shadow-bridge.ts and browser.ts
\* 33-166; only a slot that is enabled has a browser, or (but for shadow mode) a loop.
GhostTypeOK ==
  /\ toggles \in Seq([slot : AllSlots, at : Awaiting \cup {"done", "failed"}, browser : Begun])
  /\ \A s \in AllSlots :
       slot[s] \in [enabled : {TRUE}, browser : Begun, loop : Begun]
                    \cup {Off} \cup {[Off EXCEPT !.loop = t] : t \in IF s = Shadow THEN loops ELSE {}}
  /\ browsers \cup loops \cup doomed \subseteq Begun
  /\ stopAll \in [slot : 0..GhostCount, waits : {0} \cup Begun]
  /\ accidents \in [AllSlots -> Nat] /\ spent \subseteq AllSlots

\* The browsers of s nobody can close any more, and its loops nobody can stop.
Owned(s) == {slot[s].browser} \cup {toggles[t].browser : t \in {u \in On(s) : toggles[u].at \in Awaiting}}
OrphanBrowsers(s) == (On(s) \cap browsers) \ Owned(s)
OrphanLoops(s) == (On(s) \cap loops) \ {slot[s].loop}

\* A headless browser or a mirror loop that can never be closed again comes
\* only of a toggle begun while another of its slot was awaiting something,
\* or of a set-up that failed after the launch: of a slot there are never more
\* of them than such accidents (toggleShadowMode, toggleGhostSlot).
OrphansOfAccidents ==
  \A s \in AllSlots :
    /\ Cardinality(OrphanBrowsers(s)) <= accidents[s]
    /\ Cardinality(OrphanLoops(s)) <= accidents[s]

\* Toggled one after the other, a slot is what it says: enabled with its one
\* browser (unless Chromium has died under it) and its one mirror loop, or
\* disabled with neither, however many were enabled and disabled before.
SlotTruthful ==
  \A s \in AllSlots : accidents[s] = 0 /\ ~BusySlot(s) =>
    /\ On(s) \cap loops = {slot[s].loop} \ {0}
    /\ On(s) \cap browsers = IF s \in spent THEN {} ELSE {slot[s].browser} \ {0}

\* When stop-all returns, no ghost slot holds a browser that one held when it
\* began, whatever was toggled meanwhile (stopAllGhosts).
StopAllStops ==
  stopAll.slot = 0 => doomed \cap {slot[s].browser : s \in GhostSlot} = {}

\* The slots and the browsers agree, toggle by toggle and when all are stopped,
\* but for what accidents leave behind.
GhostsControlled == OrphansOfAccidents /\ SlotTruthful /\ StopAllStops
=============================================================================
