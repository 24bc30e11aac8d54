------------------------------- MODULE NightOwl ------------------------------
(***************************************************************************)
(* The night shift: a poll every 90 seconds starts a scan when the machine *)
(* is idle and the last shift is long enough ago; the dashboard starts one *)
(* at once.  Its last task lists the source files changed since the shift  *)
(* before, by comparing their mtime with the start of that shift, over the *)
(* first files of the walk only.  The tasks do not wait for anything, so   *)
(* within the program a shift is one step; what changes under it are the   *)
(* files, which others write.                                              *)
(*                                                                         *)
(* Time is kept as an order: an mtime is "old" (not after the watermark),  *)
(* "new" (after it), or "fresh" (after the start of the shift that runs).  *)
(***************************************************************************)
EXTENDS Naturals, FiniteSets

CONSTANTS FileCount,    \* the names a source file may have, in the order of the walk
          MaxScanFiles  \* how many files a walk looks at

ASSUME NightOwlAssumption == FileCount \in Nat /\ MaxScanFiles \in Nat

VARIABLES
  shift,    \* _scanning and the await: "none", "tasks" or "diff"
  cooled,   \* SHIFT_COOLDOWN_MS have gone by since the last shift began
  idle,     \* the CPU, the memory and the orchestrator are
  present,  \* the files that exist
  mtime,    \* their times, in the order of the comment above
  listed,   \* the files the running walk has yet to look at
  untold,   \* history: the files whose last change no shift has listed
  beyond    \* history: the files with a change that a walk left out as too many

owlVars == <<shift, cooled, idle, present, mtime, listed, untold, beyond>>

Files == 1..FileCount

\* The files the walk looks at: scanned stops at MAX_SCAN_FILES.
Within == {f \in present : Cardinality({g \in present : g <= f}) <= MaxScanFiles}

\* Before the first shift the watermark is 0 and every file counts as changed.
OwlInit ==
  /\ shift = "none" /\ cooled = TRUE /\ idle \in BOOLEAN
  /\ present \in SUBSET Files
  /\ mtime = [f \in Files |-> "new"]
  /\ listed = {} /\ untold = present /\ beyond = {}

\* Somebody writes a file, new or not.
Change(f) ==
  /\ present' = present \cup {f}
  /\ mtime' = [mtime EXCEPT ![f] = IF shift = "none" THEN "new" ELSE "fresh"]
  /\ untold' = untold \cup {f}
  /\ beyond' = beyond \ {f}
  /\ UNCHANGED <<shift, cooled, idle, listed>>

Remove(f) ==
  /\ present' = present \ {f}
  /\ untold' = untold \ {f}
  /\ beyond' = beyond \ {f}
  /\ UNCHANGED <<shift, cooled, idle, mtime, listed>>

MachineChanges ==
  /\ idle' = ~idle
  /\ UNCHANGED <<shift, cooled, present, mtime, listed, untold, beyond>>

CooldownOver ==
  /\ ~cooled /\ cooled' = TRUE
  /\ UNCHANGED <<shift, idle, present, mtime, listed, untold, beyond>>

\* _runNightShift takes the start time; code health, the audit of the
\* dependencies, the logs and the memory come before the diff.
Begins ==
  /\ shift = "none"
  /\ shift' = "tasks"
  /\ UNCHANGED <<cooled, idle, present, mtime, listed, untold, beyond>>

OnPoll == idle /\ cooled /\ Begins

TriggerNow == Begins

\* The walk takes the names.
Lists ==
  /\ shift = "tasks"
  /\ shift' = "diff"
  /\ listed' = Within
  /\ beyond' = beyond \cup (untold \ Within)
  /\ UNCHANGED <<cooled, idle, present, mtime, untold>>

\* The next of them: a file that is gone is skipped.
Stats ==
  /\ shift = "diff" /\ listed # {}
  /\ LET f == CHOOSE g \in listed : \A h \in listed : g <= h IN
     /\ listed' = listed \ {f}
     /\ IF f \in present /\ mtime[f] # "old"
        THEN untold' = untold \ {f} /\ beyond' = beyond \ {f}
        ELSE UNCHANGED <<untold, beyond>>
  /\ UNCHANGED <<shift, cooled, idle, present, mtime>>

\* A variant with a bug: the watermark is the end of the shift.
AfterWatermarkOfEnd(m) == "old"

\* What an mtime is once the watermark is the start of the shift that ends.
AfterWatermark(m) == IF m = "fresh" THEN "new" ELSE "old"

\* A variant with a bug: the flag stays up.
EndsScanning ==
  /\ shift = "diff" /\ listed = {}
  /\ cooled' = FALSE
  /\ mtime' = [f \in Files |-> AfterWatermark(mtime[f])]
  /\ UNCHANGED <<shift, idle, present, listed, untold, beyond>>

\* The finding is emitted (the memory may refuse it, and that is caught), and
\* the start of the shift becomes the watermark and the start of the cooldown.
Ends ==
  /\ shift = "diff" /\ listed = {}
  /\ shift' = "none"
  /\ cooled' = FALSE
  /\ mtime' = [f \in Files |-> AfterWatermark(mtime[f])]
  /\ UNCHANGED <<idle, present, listed, untold, beyond>>

OwlNext ==
  \/ \E f \in Files : Change(f) \/ Remove(f)
  \/ MachineChanges \/ CooldownOver
  \/ OnPoll \/ TriggerNow \/ Lists \/ Stats \/ Ends

\* The poll timer fires again and again, time passes, and a shift, once begun,
\* runs to its end; nobody has to press the button or leave the machine alone.
OwlFairness ==
  /\ WF_owlVars(OnPoll) /\ WF_owlVars(CooldownOver)
  /\ WF_owlVars(Lists) /\ WF_owlVars(Stats) /\ WF_owlVars(Ends)

OwlSpec == OwlInit /\ [][OwlNext]_owlVars /\ OwlFairness

-----------------------------------------------------------------------------
(* Properties *)

\* The type invariant of the scheduler, night-owl.ts 93-102.
OwlTypeOK ==
  /\ shift \in {"none", "tasks", "diff"}
  /\ cooled \in BOOLEAN /\ idle \in BOOLEAN
  /\ beyond \subseteq untold /\ untold \subseteq present /\ present \subseteq Files
  /\ mtime \in [Files -> {"old", "new", "fresh"}]
  /\ listed \subseteq Files /\ Cardinality(listed) <= MaxScanFiles
  /\ shift = "none" => \A f \in Files : mtime[f] # "fresh"

\* No change of a source file falls between two shifts, although files are
\* written while a shift walks over them: one that no shift has listed is
\* newer than the watermark, and the next shift lists it, unless a walk found
\* too many files before it (_taskWorkspaceDiff, _lastScanWatermark).
DiffComplete ==
  \A f \in untold \ beyond : mtime[f] # "old"

\* If the machine stays idle in the end, a change is listed by some shift, or
\* the file is removed or left out (night-owl.ts 158-181: the cooldown and the
\* idle check never lock the scheduler out for good).
ChangesTold ==
  <>[]idle => \A f \in Files : f \in untold ~> f \notin untold \/ f \in beyond
=============================================================================
