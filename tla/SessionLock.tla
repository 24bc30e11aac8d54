----------------------------- MODULE SessionLock -----------------------------
(***************************************************************************)
(* The write lock of one session file of the gateway: a lock file made     *)
(* with O_EXCL that names the process, and in each process the map of the  *)
(* locks it holds, which its tasks share re-entrantly.  A lock file is     *)
(* removed by path: by the last release, the watchdog, a termination       *)
(* signal, a task that finds it stale, or the sweep of a gateway that      *)
(* starts; each of them decides first and removes after an await.  Where a *)
(* removal fails the file stays, and only whoever finds it stale tries     *)
(* again.  The time is left open: a wait may end at once, or a lock get    *)
(* old.                                                                    *)
(***************************************************************************)
EXTENDS Naturals, FiniteSets

CONSTANTS LockTasks,   \* the calls of acquireSessionWriteLock
          LockProcs,   \* the processes: the gateway, a local agent
          ProcOf,      \* the process of a task
          Reentrants,  \* the tasks that allow re-entrance
          NoLock,
          MaxSweeps    \* bound: how many gateways start

ASSUME SessionLockAssumption ==
  /\ ProcOf \in [LockTasks -> LockProcs]
  /\ Reentrants \subseteq LockTasks
  /\ NoLock \notin LockTasks
  /\ MaxSweeps \in Nat

VARIABLES
  lockFile,    \* the task whose open made the lock file
  written,     \* whether it has its payload
  tooOld,      \* whether it is older than staleMs
  leftover,    \* history: whether its process could not remove it
  heldLocks,   \* HELD_LOCKS of each process, by the task that made the lock
  lockCount,   \* HeldLock.count
  taskAt,      \* the await of a task
  object,      \* the HeldLock a task entered with, or the file it found stale
  watchdogAt,  \* whether the watchdog of a process awaits a release
  sweeper,     \* the lock file the sweep is about to remove
  sweeps,
  died,        \* the processes that died
  procfs,      \* whether /proc tells the start time of a process
  evicted,     \* history: the locks that the watchdog or a signal took
  mishap       \* history: a live lock got too old, or was removed by somebody
               \* who had not looked at it, or could not know it

lockVars == <<lockFile, written, tooOld, leftover, heldLocks, lockCount, taskAt, object,
              watchdogAt, sweeper, sweeps, died, procfs, evicted, mishap>>
fileVars == <<lockFile, written, tooOld, leftover>>
holding == <<heldLocks, lockCount>>
others == <<watchdogAt, sweeper, sweeps, died, procfs, evicted>>

LockInit ==
  /\ lockFile = NoLock /\ written = FALSE /\ tooOld = FALSE /\ leftover = FALSE
  /\ heldLocks = [p \in LockProcs |-> NoLock]
  /\ lockCount = [t \in LockTasks |-> 0]
  /\ taskAt = [t \in LockTasks |-> "new"]
  /\ object = [t \in LockTasks |-> NoLock]
  /\ watchdogAt = [p \in LockProcs |-> "idle"]
  /\ sweeper = NoLock /\ sweeps = 0
  /\ died = {} /\ procfs \in BOOLEAN /\ evicted = {} /\ mishap = FALSE

Lives(t) == ProcOf[t] \notin died
Passes(t, from, to) == Lives(t) /\ taskAt[t] = from /\ taskAt' = [taskAt EXCEPT ![t] = to]
With(t, l) == object' = [object EXCEPT ![t] = l]

\* fs.rm(lockPath, { force: true }): whoever has made the file by now.
Rm == lockFile' = NoLock /\ written' = FALSE /\ tooOld' = FALSE /\ leftover' = FALSE

\* Whoever gives a lock back ignores that its file could not be removed.
TriesRm == Rm \/ (lockFile # NoLock /\ leftover' = TRUE /\ UNCHANGED <<lockFile, written, tooOld>>)

\* Nobody has the lock file for a lock any more, and nobody is about to.
Abandoned == leftover \/ ProcOf[lockFile] \in died

-----------------------------------------------------------------------------
(* acquireSessionWriteLock *)

\* A variant with a bug: nobody asks for allowReentrant.
AcquireShared(t) ==
  LET h == heldLocks[ProcOf[t]] IN
  /\ \/ /\ h # NoLock
        /\ lockCount' = [lockCount EXCEPT ![h] = @ + 1]
        /\ Passes(t, "new", "in") /\ With(t, h)
     \/ h = NoLock /\ Passes(t, "new", "open") /\ UNCHANGED <<lockCount, object>>
  /\ UNCHANGED <<heldLocks, fileVars, others, mishap>>

Acquire(t) ==
  LET h == heldLocks[ProcOf[t]] IN
  /\ \/ /\ t \in Reentrants /\ h # NoLock
        /\ lockCount' = [lockCount EXCEPT ![h] = @ + 1]
        /\ Passes(t, "new", "in") /\ With(t, h)
     \/ /\ ~(t \in Reentrants /\ h # NoLock)
        /\ Passes(t, "new", "open") /\ UNCHANGED <<lockCount, object>>
  /\ UNCHANGED <<heldLocks, fileVars, others, mishap>>

\* fs.open(lockPath, "wx"), or the loop has run out of time.
OpenLock(t) ==
  /\ \/ lockFile = NoLock /\ Passes(t, "open", "write") /\ lockFile' = t
     \/ lockFile # NoLock /\ Passes(t, "open", "inspect") /\ UNCHANGED lockFile
     \/ Passes(t, "open", "failed") /\ UNCHANGED lockFile
  /\ UNCHANGED <<written, tooOld, leftover, holding, object, others, mishap>>

\* handle.writeFile; a lock that could not be written is closed and removed.
WriteLock(t) ==
  /\ \/ Passes(t, "write", "hold") /\ written' = (written \/ lockFile = t)
     \/ Passes(t, "write", "remove") /\ UNCHANGED written
  /\ UNCHANGED <<lockFile, tooOld, leftover, holding, object, others, mishap>>

HoldLock(t) ==
  /\ Passes(t, "hold", "in")
  /\ heldLocks' = [heldLocks EXCEPT ![ProcOf[t]] = t]
  /\ lockCount' = [lockCount EXCEPT ![t] = 1]
  /\ With(t, t)
  /\ UNCHANGED <<fileVars, others, mishap>>

\* inspectLockPayload: a pid that is dead, or alive with another start time, or
\* a payload that is too old.
StaleLock(f) == tooOld \/ ProcOf[f] \in died

\* shouldTreatAsOrphanSelfLock: the lock bears the pid of this process, no start
\* time, and is not in the map.  A dead process may have had the same pid.
OrphanSelf(t, f) ==
  ~procfs /\ heldLocks[ProcOf[t]] = NoLock /\ ProcOf[f] \in died \cup {ProcOf[t]}

\* A variant with a bug: no second look at the mtime of a lock without a payload.
SeemsStaleUndated(t, f, read, dated) ==
  IF read /\ written THEN StaleLock(f) \/ OrphanSelf(t, f) ELSE TRUE

\* A lock without a payload, or whose payload could not be read, is only stale if
\* its mtime is old, or could not be learnt either.
SeemsStale(t, f, read, dated) ==
  IF read /\ written THEN StaleLock(f) \/ OrphanSelf(t, f) ELSE tooOld \/ ~dated

\* Without start times a dead process whose pid is in use again seems alive.
InspectLock(t) ==
  \E read, dated \in BOOLEAN :
    \/ /\ Passes(t, "inspect", "reclaim") /\ With(t, lockFile)
       /\ lockFile # NoLock /\ SeemsStale(t, lockFile, read, dated)
       /\ mishap' = (mishap \/ ((~dated \/ OrphanSelf(t, lockFile)) /\ ~Abandoned))
       /\ UNCHANGED <<fileVars, holding, others>>
    \/ /\ Passes(t, "inspect", "open")
       /\ \/ lockFile = NoLock
          \/ lockFile # NoLock /\ ~SeemsStale(t, lockFile, read, dated)
          \/ lockFile # NoLock /\ ~procfs /\ ~tooOld /\ ProcOf[lockFile] \in died
       /\ UNCHANGED <<fileVars, holding, object, others, mishap>>

\* An error of fs.rm is one of the call.
ReclaimLock(t) ==
  /\ With(t, NoLock)
  /\ \/ /\ Passes(t, "reclaim", "open") /\ Rm
        /\ mishap' = (mishap \/ lockFile \notin {object[t], NoLock})
     \/ Passes(t, "reclaim", "failed") /\ UNCHANGED <<fileVars, mishap>>
  /\ UNCHANGED <<holding, others>>

-----------------------------------------------------------------------------
(* releaseHeldLock, the watchdog and the termination signals *)

Forgotten(p) == heldLocks' = [heldLocks EXCEPT ![p] = NoLock]

\* A variant with a bug: whatever the process holds is released.
ReleaseAny(t) ==
  /\ \/ /\ heldLocks[ProcOf[t]] # NoLock
        /\ Forgotten(ProcOf[t]) /\ Passes(t, "in", "remove")
     \/ heldLocks[ProcOf[t]] = NoLock /\ Passes(t, "in", "out") /\ UNCHANGED heldLocks
  /\ UNCHANGED <<lockCount, object, fileVars, others, mishap>>

\* A lock that the watchdog or a signal has released is not this one any more.
Release(t) ==
  LET h == object[t] IN
  /\ taskAt[t] = "in"
  /\ With(t, NoLock)
  /\ \/ heldLocks[ProcOf[t]] # h /\ Passes(t, "in", "out") /\ UNCHANGED holding
     \/ /\ heldLocks[ProcOf[t]] = h
        /\ lockCount' = [lockCount EXCEPT ![h] = @ - 1]
        /\ \/ lockCount[h] > 1 /\ Passes(t, "in", "out") /\ UNCHANGED heldLocks
           \/ lockCount[h] = 1 /\ Passes(t, "in", "remove") /\ Forgotten(ProcOf[t])
  /\ UNCHANGED <<fileVars, others, mishap>>

\* After the handle is closed: fs.rm.
RemoveLock(t) ==
  /\ Passes(t, "remove", "out")
  /\ TriesRm
  /\ UNCHANGED <<holding, object, others, mishap>>

\* runLockWatchdogCheck: held for longer than maxHoldMs, by however many.
WatchdogReleases(p) ==
  /\ p \notin died /\ watchdogAt[p] = "idle" /\ heldLocks[p] # NoLock
  /\ Forgotten(p)
  /\ lockCount' = [lockCount EXCEPT ![heldLocks[p]] = 0]
  /\ watchdogAt' = [watchdogAt EXCEPT ![p] = "remove"]
  /\ evicted' = evicted \cup {heldLocks[p]}
  /\ UNCHANGED <<fileVars, taskAt, object, sweeper, sweeps, died, procfs, mishap>>

\* A variant with a bug: the file stays.
WatchdogKeepsFile(p) ==
  /\ p \notin died /\ watchdogAt[p] = "remove"
  /\ watchdogAt' = [watchdogAt EXCEPT ![p] = "idle"]
  /\ UNCHANGED <<fileVars, holding, taskAt, object, sweeper, sweeps, died, procfs, evicted, mishap>>

WatchdogRemoves(p) ==
  /\ p \notin died /\ watchdogAt[p] = "remove"
  /\ watchdogAt' = [watchdogAt EXCEPT ![p] = "idle"]
  /\ TriesRm
  /\ UNCHANGED <<holding, taskAt, object, sweeper, sweeps, died, procfs, evicted, mishap>>

\* A process that dies leaves its lock file.
Dies(p) ==
  /\ died' = died \cup {p}
  /\ taskAt' = [t \in LockTasks |-> IF ProcOf[t] = p THEN "dead" ELSE taskAt[t]]
  /\ object' = [t \in LockTasks |-> IF ProcOf[t] = p THEN NoLock ELSE object[t]]
  /\ watchdogAt' = [watchdogAt EXCEPT ![p] = "idle"]

\* handleTerminationSignal: what is held is given back at once; the process goes
\* on if somebody else listens to the signal, as the gateway's run loop does.
TerminationSignal(p) ==
  /\ p \notin died
  /\ Forgotten(p)
  /\ IF heldLocks[p] = NoLock THEN UNCHANGED <<fileVars, evicted>>
     ELSE TriesRm /\ evicted' = evicted \cup {heldLocks[p]}
  /\ Dies(p) \/ UNCHANGED <<died, taskAt, object, watchdogAt>>
  /\ UNCHANGED <<lockCount, sweeper, sweeps, procfs, mishap>>

LockCrash(p) ==
  /\ p \notin died
  /\ Dies(p) /\ Forgotten(p)
  /\ UNCHANGED <<fileVars, lockCount, sweeper, sweeps, procfs, evicted, mishap>>

-----------------------------------------------------------------------------
(* cleanStaleLockFiles, when a gateway starts; old locks; crashes *)

\* The sweep has no second look at the mtime of a lock without a payload, or whose
\* payload could not be read.
Sweep ==
  /\ sweeps < MaxSweeps /\ sweeper = NoLock
  /\ lockFile # NoLock
  /\ \E read \in BOOLEAN : read /\ written => StaleLock(lockFile)
  /\ sweeper' = lockFile /\ sweeps' = sweeps + 1
  /\ UNCHANGED <<fileVars, holding, taskAt, object, watchdogAt, died, procfs, evicted, mishap>>

SweepRemoves ==
  /\ sweeper # NoLock
  /\ sweeper' = NoLock
  /\ \/ /\ Rm
        /\ mishap' = (mishap \/ (lockFile # NoLock /\ ~(lockFile = sweeper /\ Abandoned)))
     \/ UNCHANGED <<fileVars, mishap>>
  /\ UNCHANGED <<holding, taskAt, object, watchdogAt, sweeps, died, procfs, evicted>>

\* staleMs may be shorter than maxHoldMs: 30 seconds for the session store,
\* while a run without a timeout may hold the lock for weeks.
GetsTooOld ==
  /\ lockFile # NoLock /\ ~tooOld
  /\ tooOld' = TRUE
  /\ mishap' = (mishap \/ ~Abandoned)
  /\ UNCHANGED <<lockFile, written, leftover, holding, taskAt, object, others>>

LockNext ==
  \/ \E t \in LockTasks :
       \/ Acquire(t) \/ OpenLock(t) \/ WriteLock(t) \/ HoldLock(t)
       \/ InspectLock(t) \/ ReclaimLock(t) \/ Release(t) \/ RemoveLock(t)
  \/ \E p \in LockProcs :
       WatchdogReleases(p) \/ WatchdogRemoves(p) \/ TerminationSignal(p) \/ LockCrash(p)
  \/ Sweep \/ SweepRemoves \/ GetsTooOld

\* Promises of the file system settle and the watchdog comes round; a task may
\* hold its lock for ever.
LockFairness ==
  /\ \A t \in LockTasks : WF_lockVars(WriteLock(t) \/ HoldLock(t) \/ RemoveLock(t))
  /\ \A p \in LockProcs : WF_lockVars(WatchdogReleases(p) \/ WatchdogRemoves(p))

LockSpec == LockInit /\ [][LockNext]_lockVars /\ LockFairness

-----------------------------------------------------------------------------
(* Properties *)

LockTypeOK ==
  /\ lockFile \in LockTasks \cup {NoLock}
  /\ written \in BOOLEAN /\ tooOld \in BOOLEAN /\ leftover \in BOOLEAN
  /\ heldLocks \in [LockProcs -> LockTasks \cup {NoLock}]
  /\ lockCount \in [LockTasks -> Nat]
  /\ taskAt \in [LockTasks -> {"new", "open", "write", "hold", "in", "inspect", "reclaim",
                               "remove", "out", "failed", "dead"}]
  /\ object \in [LockTasks -> LockTasks \cup {NoLock}]
  /\ watchdogAt \in [LockProcs -> {"idle", "remove"}]
  /\ sweeper \in LockTasks \cup {NoLock} /\ sweeps \in 0..MaxSweeps
  /\ died \subseteq LockProcs /\ procfs \in BOOLEAN /\ evicted \subseteq LockTasks
  /\ mishap \in BOOLEAN

Removing(p) ==
  watchdogAt[p] = "remove" \/ \E t \in LockTasks : ProcOf[t] = p /\ taskAt[t] = "remove"

\* Unless one of the five mishaps has happened (a live lock older than staleMs; a
\* reclaim or a sweep that removes another file than it looked at, or one that is
\* being written; a process without start times that takes its own lock for an
\* orphan; a live lock that could be neither read nor dated), a process that holds
\* the lock has the lock file, so two never hold it, and a lock file without a dead
\* process is about to be held, is held, is about to be removed, or could not be:
\* through watchdog, signals, crashes and reclaims (session-write-lock.ts 125-212,
\* 229-245, 341-370, 482-548).
LockExclusive ==
  ~mishap =>
    /\ \A p \in LockProcs \ died : heldLocks[p] # NoLock => lockFile = heldLocks[p]
    /\ lockFile # NoLock /\ ~Abandoned =>
         \/ taskAt[lockFile] \in {"write", "hold"}
         \/ heldLocks[ProcOf[lockFile]] = lockFile
         \/ Removing(ProcOf[lockFile])

Section(h) == {t \in LockTasks : taskAt[t] = "in" /\ object[t] = h}

\* The count of a lock that is held is the number of the tasks in their sections
\* with it; and without a mishap no task is in its section without its lock,
\* except where the watchdog or a signal took it from all of them: no release of
\* theirs, early or late, takes a lock from others.
CountExact ==
  /\ \A p \in LockProcs : heldLocks[p] # NoLock =>
       lockCount[heldLocks[p]] = Cardinality(Section(heldLocks[p]))
  /\ ~mishap => \A h \in LockTasks :
       Section(h) # {} => heldLocks[ProcOf[h]] = h \/ h \in evicted

\* Where a call is for its caller; it is evicted when its lock is not its
\* process's any more, which it does not know.
Stage(t) ==
  CASE taskAt[t] \in {"remove", "out", "failed"} -> "after"
    [] taskAt[t] = "dead" -> "dead"
    [] taskAt[t] = "in" -> IF heldLocks[ProcOf[t]] = object[t] THEN "inside" ELSE "evicted"
    [] OTHER -> "before"

\* The locks, counts, watchdog and signals of the processes implement WriteLock:
\* whoever is in its section is alone with tasks of its process that came in
\* re-entrantly, a release of one leaves the others inside, and a lock is taken
\* from all of them or none (session-write-lock.ts 125-212, 229-245, 442-548).
Contract == INSTANCE WriteLock
  WITH caller <- [t \in LockTasks |-> Stage(t)], broken <- mishap

ImplementsWriteLock == Contract!Spec

\* Without a mishap no two tasks are in their sections with the lock at a time,
\* unless they are of one process and one of them allows re-entrance
\* (session-write-lock.ts 469-482, 482-548).
SectionsExclude == Contract!Exclusive

\* Without a mishap a session file is not locked for ever by a process that
\* lives, although a task may hang in its section: the watchdog takes the lock,
\* unless it could not remove the file.
LockFreed ==
  \A t \in LockTasks : lockFile = t ~> lockFile # t \/ mishap \/ Abandoned
=============================================================================
