---------------------------- MODULE BrowserSession ----------------------------
(***************************************************************************)
(* The Chromium session of the executor under GhostGuard.  All goals share *)
(* one Executor and with it one BrowserTools: its fields browser, context  *)
(* and page are read and written around awaits by every browser step of    *)
(* every goal.  A step first passes the memory gate (checkBrowserRAM,      *)
(* which closes the session in lite mode) and then calls ensurePage, which *)
(* launches a browser when none is connected.  web_search and browser_url  *)
(* take no gate.  Playwright is external: launches, set-up calls, page     *)
(* operations and closes take time and may fail, and Chromium may crash.   *)
(***************************************************************************)
EXTENDS GhostGuard, FiniteSets

CONSTANTS Steps,       \* the executions of executeStep that may overlap
          Procs,       \* bound: the Chromium processes that can be launched
          None,
          MaxRounds,   \* bound: how often one tool calls ensurePage
          MaxCrashes   \* bound: how often Chromium crashes

ASSUME SessionAssumption ==
  /\ None \notin Procs
  /\ MaxRounds \in Nat \ {0}
  /\ MaxCrashes \in Nat

VARIABLES
  browser,   \* the fields of BrowserTools: the process that the browser,
  context,   \* the context and the page belong to, or None
  page,
  launched,  \* processes launched so far
  live,      \* processes that run
  closed,    \* processes whose context was closed
  step,      \* where an execution of a browser step stands
  mishaps,   \* history: what has gone wrong with the session so far
  crashes

session == <<browser, context, page>>
chromium == <<launched, live, closed, crashes>>
vars == <<guard, session, chromium, step, mishaps>>

\* Mutant: the gate opens below the threshold of the lite mode.
BROWSER_RAM_LIMIT_OF_LITE == 90

BROWSER_RAM_LIMIT_PCT == 82

Setup == {"launching", "contexting", "paging"}
Teardown == {"closingContext", "closingBrowser"}

\* left: calls of ensurePage that the tool has still to make after this one;
\* refuse: the gate read a memory above the limit; gate: a close by the gate.
StepRecord ==
  LET At(phases, refs) == [at : phases, ref : refs, left : 0..MaxRounds,
                           refuse : BOOLEAN, gate : BOOLEAN]
  IN At({"idle", "launching"}, {None})
       \cup At({"contexting", "paging", "using"} \cup Teardown, Procs)

Idle == [at |-> "idle", ref |-> None, left |-> 0, refuse |-> FALSE, gate |-> FALSE]

TypeOK ==
  /\ GuardTypeOK
  /\ browser \in Procs \cup {None}
  /\ context \in Procs \cup {None}
  /\ page \in Procs \cup {None}
  /\ launched \subseteq Procs
  /\ live \subseteq launched
  /\ closed \subseteq Procs
  /\ step \in [Steps -> StepRecord]
  /\ mishaps \subseteq {"overlap", "setup", "close"}
  /\ crashes \in 0..MaxCrashes

Init ==
  /\ GuardInit
  /\ browser = None /\ context = None /\ page = None
  /\ launched = {} /\ live = {} /\ closed = {}
  /\ step = [s \in Steps |-> Idle]
  /\ mishaps = {}
  /\ crashes = 0

isOpen == browser # None /\ browser \in live

\* An await of s is changing the session.
Changing(s) == step[s].at \in Setup \cup Teardown
Mark(kind, cond) == mishaps' = IF cond THEN mishaps \cup {kind} ELSE mishaps
MarkOverlap(s) == Mark("overlap", \E t \in Steps \ {s} : Changing(t))

\* ensurePage() up to its first await.  With a connected browser it returns
\* this.page as it is; on null the caller's page call throws.
ensurePage(s, left) ==
  /\ MarkOverlap(s)
  /\ step' = [step EXCEPT ![s] =
       IF ~isOpen THEN [Idle EXCEPT !.at = "launching", !.left = left]
       ELSE IF page = None THEN Idle
       ELSE [Idle EXCEPT !.at = "using", !.ref = page, !.left = left]]
  /\ UNCHANGED session

\* close() up to its first await.
close(s, left, refuse, gate) ==
  LET Closing(at, ref) ==
        [at |-> at, ref |-> ref, left |-> left, refuse |-> refuse, gate |-> gate]
  IN /\ MarkOverlap(s)
     /\ \/ context # None /\ step' = [step EXCEPT ![s] = Closing("closingContext", context)]
        \/ /\ context = None /\ browser # None
           /\ step' = [step EXCEPT ![s] = Closing("closingBrowser", browser)]
     /\ UNCHANGED session

\* What follows close(): browser_close is done; a gated step is refused or
\* goes on to ensurePage, which finds no browser.
Detached(s) ==
  /\ browser' = None /\ context' = None /\ page' = None
  /\ step' = [step EXCEPT ![s] =
       IF ~step[s].gate \/ step[s].refuse THEN Idle
       ELSE [Idle EXCEPT !.at = "launching", !.left = step[s].left]]

-----------------------------------------------------------------------------
\* A browser tool starts: the gate reads lastRam and liteActive together.
Gated(s, rounds) ==
  LET refuse == Rounded(lastRam) >= BROWSER_RAM_LIMIT_PCT
  IN /\ step[s] = Idle
     /\ \/ liteActive /\ isOpen /\ close(s, rounds - 1, refuse, TRUE)
        \/ ~(liteActive /\ isOpen) /\ ~refuse /\ ensurePage(s, rounds - 1)
     /\ UNCHANGED <<guard, chromium>>

\* web_search and browser_url: no gate.
Ungated(s, rounds) ==
  /\ step[s] = Idle
  /\ ensurePage(s, rounds - 1)
  /\ UNCHANGED <<guard, chromium>>

browser_close(s) ==
  /\ step[s] = Idle
  /\ close(s, 0, FALSE, FALSE)
  /\ UNCHANGED <<guard, chromium>>

\* Mutant: the caller does not keep what the launch returned.
LaunchedAnonymous(s, p) ==
  /\ step[s].at = "launching"
  /\ p \in Procs \ launched
  /\ launched' = launched \cup {p}
  /\ live' = live \cup {p}
  /\ browser' = p
  /\ step' = [step EXCEPT ![s].at = "contexting"]
  /\ UNCHANGED <<guard, context, page, closed, crashes, mishaps>>

\* chromium.launch() answers; newContext() is called at once.
Launched(s, p) ==
  /\ step[s].at = "launching"
  /\ p \in Procs \ launched
  /\ launched' = launched \cup {p}
  /\ live' = live \cup {p}
  /\ browser' = p
  /\ step' = [step EXCEPT ![s].at = "contexting", ![s].ref = p]
  /\ UNCHANGED <<guard, context, page, closed, crashes, mishaps>>

\* newContext() answers; newPage() is called at once.
ContextMade(s) ==
  /\ step[s].at = "contexting"
  /\ step[s].ref \in live
  /\ context' = step[s].ref
  /\ step' = [step EXCEPT ![s].at = "paging"]
  /\ UNCHANGED <<guard, browser, page, chromium, mishaps>>

\* Mutant: the new page is returned and not kept.
PageMadeUnkept(s) ==
  /\ step[s].at = "paging"
  /\ step[s].ref \in live \ closed
  /\ step' = [step EXCEPT ![s].at = "using"]
  /\ UNCHANGED <<guard, session, chromium, mishaps>>

\* newPage() answers.
PageMade(s) ==
  /\ step[s].at = "paging"
  /\ step[s].ref \in live \ closed
  /\ page' = step[s].ref
  /\ step' = [step EXCEPT ![s].at = "using"]
  /\ UNCHANGED <<guard, browser, context, chromium, mishaps>>

\* The launch or a set-up call fails and so does the step; the fields that
\* were assigned stay.
SetupFailed(s) ==
  /\ step[s].at \in Setup
  /\ step' = [step EXCEPT ![s] = Idle]
  /\ Mark("setup", step[s].at # "launching")
  /\ UNCHANGED <<guard, session, chromium>>

\* The operation on the page answers, and the tool asks for the page again
\* (perception after a click, the extracts of a search) or is done.
Operated(s) ==
  /\ step[s].at = "using"
  /\ step[s].ref \in live \ closed
  /\ \/ step[s].left > 0 /\ ensurePage(s, step[s].left - 1)
     \/ /\ step[s].left = 0
        /\ step' = [step EXCEPT ![s] = Idle]
        /\ UNCHANGED <<session, mishaps>>
  /\ UNCHANGED <<guard, chromium>>

OperationFailed(s) ==
  /\ step[s].at = "using"
  /\ step' = [step EXCEPT ![s] = Idle]
  /\ UNCHANGED <<guard, session, chromium, mishaps>>

\* Mutant: with its context closed the browser is taken for closed.
ContextClosedOnly(s) ==
  /\ step[s].at = "closingContext"
  /\ closed' = closed \cup {step[s].ref}
  /\ Detached(s)
  /\ UNCHANGED <<guard, launched, live, crashes, mishaps>>

\* The first await of close() is over: this.browser is read only now.
ContextClosed(s) ==
  /\ step[s].at = "closingContext"
  /\ closed' = closed \cup {step[s].ref}
  /\ \/ /\ browser # None
        /\ step' = [step EXCEPT ![s].at = "closingBrowser", ![s].ref = browser]
        /\ UNCHANGED session
     \/ browser = None /\ Detached(s)
  /\ UNCHANGED <<guard, launched, live, crashes, mishaps>>

\* The second await is over: the process has ended.
BrowserClosed(s) ==
  /\ step[s].at = "closingBrowser"
  /\ live' = live \ {step[s].ref}
  /\ Detached(s)
  /\ UNCHANGED <<guard, launched, closed, crashes, mishaps>>

\* One of the two closes throws; the fields are reset all the same.
CloseFailed(s) ==
  /\ step[s].at \in Teardown
  /\ Detached(s)
  /\ Mark("close", TRUE)
  /\ UNCHANGED <<guard, chromium>>

Crashed(p) ==
  /\ p \in live
  /\ crashes < MaxCrashes
  /\ crashes' = crashes + 1
  /\ live' = live \ {p}
  /\ UNCHANGED <<guard, session, launched, closed, step, mishaps>>

Sampled(r) ==
  /\ onResourceSample(r)
  /\ UNCHANGED <<session, chromium, step, mishaps>>

Next ==
  \/ \E s \in Steps :
       \/ \E n \in 1..MaxRounds : Gated(s, n) \/ Ungated(s, n)
       \/ browser_close(s)
       \/ \E p \in Procs : Launched(s, p)
       \/ ContextMade(s) \/ PageMade(s) \/ SetupFailed(s)
       \/ Operated(s) \/ OperationFailed(s)
       \/ ContextClosed(s) \/ BrowserClosed(s) \/ CloseFailed(s)
  \/ \E p \in Procs : Crashed(p)
  \/ \E r \in RamLevels : Sampled(r)

Spec == Init /\ [][Next]_vars

-----------------------------------------------------------------------------
\* A step whose gate closes the session for lack of memory is refused: it is
\* never followed by a fresh launch in the same step, which would cost memory
\* and lose the page.  This relates the thresholds of two components: lite
\* mode ends below 85 %, the gate opens below 82 %.
EmergencyRefuses ==
  \A s \in Steps : step[s].at \in Teardown /\ step[s].gate => step[s].refuse

\* What reads the samples of the memory, each with thresholds of its own, agrees
\* under pressure: the lite mode, the watcher of the logs and the gate of the
\* executor (ghost-guard.ts 211-234, executor.ts 97-112).
PressureSafe == WatcherSafe /\ EmergencyRefuses

\* Processes that run and that nothing will ever close.
Orphans ==
  { p \in live : p # browser /\ \A s \in Steps : ~(step[s].at = "closingBrowser" /\ step[s].ref = p) }

\* close() and ensurePage() leave no Chromium behind as long as no step has
\* entered the session while another was changing it and no close has thrown:
\* neither crashes nor failed set-ups leak a process.
NoOrphans == mishaps \cap {"overlap", "close"} = {} => Orphans = {}

\* As long as nothing has overlapped or failed half-way, an open session at
\* rest has the page and the context of the browser that runs, whatever
\* crashed before: ensurePage returns no null and no page of a dead browser.
PageReady ==
  mishaps = {} /\ isOpen /\ (\A s \in Steps : ~Changing(s))
    => page = browser /\ context = browser
=============================================================================
