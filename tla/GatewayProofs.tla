---------------------------- MODULE GatewayProofs ----------------------------
(***************************************************************************)
(* Two parts of the gateway daemon, each proved for itself: the lock of a  *)
(* session file, and the command lanes with the run loop that drives them. *)
(*                                                                         *)
(* The lock, for any tasks and processes: unless one of the five mishaps   *)
(* of module SessionLock has happened, a process that holds it has the     *)
(* lock file. The argument counts claims: a task that is creating or       *)
(* removing the file, a process that holds the lock, or its watchdog that  *)
(* is about to remove the file. There is one claim at most, it is of a     *)
(* live process, and the lock file is that process's; nobody claims a file *)
(* that its process could not remove. CountInv adds where                  *)
(* the tasks in their sections are: with a lock of their own process,      *)
(* which is held and counts them, or was taken from all of them.  With     *)
(* that the lock refines the contract of module WriteLock.                 *)
(*                                                                         *)
(* The lanes, for any commands, lanes and limits: LanesOK ties the states  *)
(* of the commands to the queues and the active sets, and every queue is   *)
(* in the order of the commands; the lemma PumpedLanes says what pumping   *)
(* does to that, and one lemma per operation of module CommandQueue        *)
(* reduces it to a pump. LoopInv follows the run loop and its signal       *)
(* handler place by place, DrainInv what a drain has let go of.            *)
(***************************************************************************)
EXTENDS SessionLock, GatewayLoop, FiniteSetTheorems, TLAPS

-----------------------------------------------------------------------------
(* The session lock: exclusion *)

Claims(t) == taskAt[t] \in {"write", "hold", "remove"}

\* The tasks that are past their own open, if they made a lock file at all.
Opened(t) == taskAt[t] \in {"write", "hold", "in", "remove", "out", "dead"}

\* What holds with or without a mishap: the dead do nothing and hold nothing, and
\* a lock file is of a task that has opened it.
Grounded ==
  /\ lockFile # NoLock => Opened(lockFile)
  /\ \A p \in died : heldLocks[p] = NoLock /\ watchdogAt[p] = "idle"
  /\ \A t \in LockTasks :
       /\ taskAt[t] = "in" => object[t] \in LockTasks
       /\ taskAt[t] = "reclaim" => object[t] \in LockTasks /\ Opened(object[t])
       /\ ProcOf[t] \in died => taskAt[t] = "dead"

ClaimsMatch ==
  /\ \A t \in LockTasks : Claims(t) =>
       /\ lockFile # NoLock /\ ProcOf[lockFile] = ProcOf[t]
       /\ taskAt[t] # "remove" => lockFile = t
  /\ \A p \in LockProcs :
       /\ heldLocks[p] # NoLock => lockFile = heldLocks[p] /\ ProcOf[lockFile] = p
       /\ watchdogAt[p] = "remove" => lockFile # NoLock /\ ProcOf[lockFile] = p

ClaimsUnique ==
  /\ \A t, u \in LockTasks : Claims(t) /\ Claims(u) => t = u
  /\ \A t \in LockTasks : Claims(t) =>
       heldLocks[ProcOf[t]] = NoLock /\ watchdogAt[ProcOf[t]] = "idle"
  /\ \A p \in LockProcs : heldLocks[p] # NoLock => watchdogAt[p] = "idle"

FileClaimed ==
  lockFile # NoLock /\ ~Abandoned =>
    \/ heldLocks[ProcOf[lockFile]] = lockFile
    \/ watchdogAt[ProcOf[lockFile]] = "remove"
    \/ \E t \in LockTasks : Claims(t)

Unclaimed ==
  /\ \A t \in LockTasks : ~Claims(t)
  /\ \A p \in LockProcs : heldLocks[p] = NoLock /\ watchdogAt[p] = "idle"

StaleIsDead ==
  /\ leftover => lockFile # NoLock /\ Unclaimed
  /\ tooOld => lockFile # NoLock /\ Abandoned
  /\ \A t \in LockTasks : taskAt[t] = "reclaim" => (lockFile = object[t] => Abandoned)

Claimed == ClaimsMatch /\ ClaimsUnique /\ FileClaimed /\ StaleIsDead
LockInv == LockTypeOK /\ Grounded /\ (~mishap => Claimed)

-----------------------------------------------------------------------------
LEMMA LockTypeStep == LockTypeOK /\ Grounded /\ [LockNext]_lockVars => LockTypeOK'
<1> SUFFICES ASSUME LockTypeOK, Grounded, [LockNext]_lockVars PROVE LockTypeOK'
  OBVIOUS
<1> USE SessionLockAssumption DEF LockTypeOK, Lives, Passes, With, Rm, TriesRm, fileVars, holding, others
<1>1. ASSUME NEW t \in LockTasks, Acquire(t) PROVE LockTypeOK'
  BY <1>1 DEF Acquire
<1>2. ASSUME NEW t \in LockTasks, OpenLock(t) PROVE LockTypeOK'
  BY <1>2 DEF OpenLock
<1>3. ASSUME NEW t \in LockTasks, WriteLock(t) PROVE LockTypeOK'
  BY <1>3 DEF WriteLock
<1>4. ASSUME NEW t \in LockTasks, HoldLock(t) PROVE LockTypeOK'
  BY <1>4 DEF HoldLock
<1>5. ASSUME NEW t \in LockTasks, InspectLock(t) PROVE LockTypeOK'
  <2>1. mishap' \in BOOLEAN
    <3>1. UNCHANGED mishap \/ \E f, g : mishap' = (mishap \/ (f /\ g))
      BY <1>5 DEF InspectLock
    <3>2. QED
      BY <3>1
  <2>2. UNCHANGED <<fileVars, holding, others>>
    BY <1>5 DEF InspectLock
  <2>3. /\ taskAt' \in [LockTasks -> {"new", "open", "write", "hold", "in", "inspect", "reclaim",
                                      "remove", "out", "failed", "dead"}]
        /\ object' \in [LockTasks -> LockTasks \cup {NoLock}]
    BY <1>5 DEF InspectLock
  <2>4. QED
    BY <2>1, <2>2, <2>3
<1>6. ASSUME NEW t \in LockTasks, ReclaimLock(t) PROVE LockTypeOK'
  BY <1>6 DEF ReclaimLock
<1>7. ASSUME NEW t \in LockTasks, Release(t) PROVE LockTypeOK'
  BY <1>7 DEF Release, Forgotten, Grounded
<1>8. ASSUME NEW t \in LockTasks, RemoveLock(t) PROVE LockTypeOK'
  BY <1>8 DEF RemoveLock
<1>9. ASSUME NEW p \in LockProcs, WatchdogReleases(p) PROVE LockTypeOK'
  BY <1>9 DEF WatchdogReleases, Forgotten
<1>10. ASSUME NEW p \in LockProcs, WatchdogRemoves(p) PROVE LockTypeOK'
  BY <1>10 DEF WatchdogRemoves
<1>11. ASSUME NEW p \in LockProcs, TerminationSignal(p) PROVE LockTypeOK'
  <2>1. /\ lockFile' \in LockTasks \cup {NoLock}
        /\ written' \in BOOLEAN /\ tooOld' \in BOOLEAN /\ leftover' \in BOOLEAN
    BY <1>11 DEF TerminationSignal
  <2>2. heldLocks' \in [LockProcs -> LockTasks \cup {NoLock}]
    BY <1>11 DEF TerminationSignal, Forgotten
  <2>3. evicted' \subseteq LockTasks
    <3>1. CASE heldLocks[p] = NoLock
      BY <1>11, <3>1 DEF TerminationSignal
    <3>2. CASE heldLocks[p] # NoLock
      <4>1. heldLocks[p] \in LockTasks
        BY <3>2
      <4>2. evicted' = evicted \cup {heldLocks[p]}
        BY <1>11, <3>2 DEF TerminationSignal
      <4>3. QED
        BY <4>1, <4>2
    <3>3. QED
      BY <3>1, <3>2
  <2>4. /\ died' \subseteq LockProcs
        /\ watchdogAt' \in [LockProcs -> {"idle", "remove"}]
        /\ object' \in [LockTasks -> LockTasks \cup {NoLock}]
        /\ taskAt' \in [LockTasks -> {"new", "open", "write", "hold", "in", "inspect", "reclaim",
                                      "remove", "out", "failed", "dead"}]
    BY <1>11 DEF TerminationSignal, Dies
  <2>5. UNCHANGED <<lockCount, sweeper, sweeps, procfs, mishap>>
    BY <1>11 DEF TerminationSignal
  <2>6. QED
    BY <2>1, <2>2, <2>3, <2>4, <2>5
<1>12. ASSUME NEW p \in LockProcs, LockCrash(p) PROVE LockTypeOK'
  BY <1>12 DEF LockCrash, Forgotten, Dies
<1>13. ASSUME Sweep \/ SweepRemoves \/ GetsTooOld PROVE LockTypeOK'
  <2>1. CASE Sweep
    BY <2>1 DEF Sweep, StaleLock
  <2>2. CASE SweepRemoves
    BY <2>2 DEF SweepRemoves
  <2>3. CASE GetsTooOld
    BY <2>3 DEF GetsTooOld
  <2>4. QED
    BY <1>13, <2>1, <2>2, <2>3
<1>14. CASE UNCHANGED lockVars
  BY <1>14 DEF lockVars
<1>15. QED
  BY <1>1, <1>2, <1>3, <1>4, <1>5, <1>6, <1>7, <1>8, <1>9, <1>10, <1>11, <1>12, <1>13, <1>14
     DEF LockNext

LEMMA GroundedStep == LockTypeOK /\ Grounded /\ [LockNext]_lockVars => Grounded'
<1> SUFFICES ASSUME LockTypeOK, Grounded, [LockNext]_lockVars PROVE Grounded'
  OBVIOUS
<1> USE SessionLockAssumption
    DEF LockTypeOK, Grounded, Opened, Lives, Passes, With, Rm, TriesRm, fileVars, holding, others
<1>1. ASSUME NEW t \in LockTasks, Acquire(t) PROVE Grounded'
  BY <1>1 DEF Acquire
<1>2. ASSUME NEW t \in LockTasks, OpenLock(t) PROVE Grounded'
  BY <1>2 DEF OpenLock
<1>3. ASSUME NEW t \in LockTasks, WriteLock(t) PROVE Grounded'
  BY <1>3 DEF WriteLock
<1>4. ASSUME NEW t \in LockTasks, HoldLock(t) PROVE Grounded'
  BY <1>4 DEF HoldLock
<1>5. ASSUME NEW t \in LockTasks, InspectLock(t) PROVE Grounded'
  BY <1>5 DEF InspectLock
<1>6. ASSUME NEW t \in LockTasks, ReclaimLock(t) PROVE Grounded'
  BY <1>6 DEF ReclaimLock
<1>7. ASSUME NEW t \in LockTasks, Release(t) PROVE Grounded'
  BY <1>7 DEF Release, Forgotten
<1>8. ASSUME NEW t \in LockTasks, RemoveLock(t) PROVE Grounded'
  BY <1>8 DEF RemoveLock
<1>9. ASSUME NEW p \in LockProcs, WatchdogReleases(p) PROVE Grounded'
  BY <1>9 DEF WatchdogReleases, Forgotten
<1>10. ASSUME NEW p \in LockProcs, WatchdogRemoves(p) PROVE Grounded'
  BY <1>10 DEF WatchdogRemoves
<1>11. ASSUME NEW p \in LockProcs, TerminationSignal(p) PROVE Grounded'
  BY <1>11 DEF TerminationSignal, Forgotten, Dies
<1>12. ASSUME NEW p \in LockProcs, LockCrash(p) PROVE Grounded'
  BY <1>12 DEF LockCrash, Forgotten, Dies
<1>13. ASSUME Sweep \/ SweepRemoves \/ GetsTooOld PROVE Grounded'
  BY <1>13 DEF Sweep, SweepRemoves, GetsTooOld
<1>14. CASE UNCHANGED lockVars
  BY <1>14 DEF lockVars
<1>15. QED
  BY <1>1, <1>2, <1>3, <1>4, <1>5, <1>6, <1>7, <1>8, <1>9, <1>10, <1>11, <1>12, <1>13, <1>14
     DEF LockNext

-----------------------------------------------------------------------------
\* Where there is no lock file, or an abandoned one, nobody has a claim.
LEMMA NobodyClaims ==
  ASSUME LockTypeOK, Grounded, Claimed,
         lockFile # NoLock => Abandoned
  PROVE  Unclaimed
BY SessionLockAssumption
   DEF LockTypeOK, Grounded, Claimed, ClaimsMatch, StaleIsDead, Abandoned, Unclaimed, Claims

\* A step that is no mishap keeps the one claim.
LEMMA ClaimedStep ==
  ASSUME LockTypeOK, Grounded, Claimed, LockNext, ~mishap'
  PROVE  Claimed'
<1> USE SessionLockAssumption
    DEF LockTypeOK, Grounded, Opened, Claimed, ClaimsMatch, ClaimsUnique, FileClaimed, StaleIsDead,
        Unclaimed, Abandoned, Claims, Lives, Passes, With, Rm, TriesRm, fileVars, holding, others
<1>1. ASSUME NEW t \in LockTasks, Acquire(t) PROVE Claimed'
  BY <1>1 DEF Acquire
<1>2. ASSUME NEW t \in LockTasks, OpenLock(t) PROVE Claimed'
  BY <1>2 DEF OpenLock
<1>3. ASSUME NEW t \in LockTasks, WriteLock(t) PROVE Claimed'
  BY <1>3 DEF WriteLock
<1>4. ASSUME NEW t \in LockTasks, HoldLock(t) PROVE Claimed'
  BY <1>4 DEF HoldLock
<1>5. ASSUME NEW t \in LockTasks, InspectLock(t) PROVE Claimed'
  <2>1. UNCHANGED <<fileVars, holding, others>>
    BY <1>5 DEF InspectLock
  <2>2. CASE UNCHANGED <<object, mishap>> /\ taskAt' = [taskAt EXCEPT ![t] = "open"] /\ taskAt[t] = "inspect"
    BY <2>1, <2>2
  <2>3. ASSUME taskAt' = [taskAt EXCEPT ![t] = "reclaim"], taskAt[t] = "inspect",
               object' = [object EXCEPT ![t] = lockFile], Abandoned
        PROVE  Claimed'
    BY <2>1, <2>3
  <2>4. ASSUME NEW read \in BOOLEAN, NEW dated \in BOOLEAN,
               lockFile # NoLock, SeemsStale(t, lockFile, read, dated),
               mishap' = (mishap \/ ((~dated \/ OrphanSelf(t, lockFile)) /\ ~Abandoned))
        PROVE  Abandoned
    <3>1. Abandoned \/ (dated /\ ~OrphanSelf(t, lockFile))
      BY <2>4
    <3>2. CASE dated /\ ~OrphanSelf(t, lockFile)
      BY <2>4, <3>2 DEF SeemsStale, StaleLock
    <3>3. QED
      BY <3>1, <3>2
  <2>5. QED
    BY <1>5, <2>2, <2>3, <2>4 DEF InspectLock
<1>6. ASSUME NEW t \in LockTasks, ReclaimLock(t) PROVE Claimed'
  <2>1. CASE Rm
    <3>1. lockFile # NoLock => Abandoned
      BY <1>6, <2>1 DEF ReclaimLock
    <3>2. Unclaimed
      BY <3>1, NobodyClaims
    <3>3. QED
      BY <1>6, <2>1, <3>2 DEF ReclaimLock
  <2>2. CASE UNCHANGED fileVars
    BY <1>6, <2>2 DEF ReclaimLock
  <2>3. QED
    BY <1>6, <2>1, <2>2 DEF ReclaimLock
<1>7. ASSUME NEW t \in LockTasks, Release(t) PROVE Claimed'
  BY <1>7 DEF Release, Forgotten
<1>8. ASSUME NEW t \in LockTasks, RemoveLock(t) PROVE Claimed'
  BY <1>8 DEF RemoveLock
<1>9. ASSUME NEW p \in LockProcs, WatchdogReleases(p) PROVE Claimed'
  BY <1>9 DEF WatchdogReleases, Forgotten
<1>10. ASSUME NEW p \in LockProcs, WatchdogRemoves(p) PROVE Claimed'
  BY <1>10 DEF WatchdogRemoves
<1>11. ASSUME NEW p \in LockProcs, TerminationSignal(p) PROVE Claimed'
  BY <1>11 DEF TerminationSignal, Forgotten, Dies
<1>12. ASSUME NEW p \in LockProcs, LockCrash(p) PROVE Claimed'
  BY <1>12 DEF LockCrash, Forgotten, Dies
<1>13. ASSUME Sweep PROVE Claimed'
  BY <1>13 DEF Sweep
<1>14. ASSUME SweepRemoves PROVE Claimed'
  <2>1. CASE Rm
    <3>1. lockFile # NoLock => Abandoned
      BY <1>14, <2>1 DEF SweepRemoves
    <3>2. Unclaimed
      BY <3>1, NobodyClaims
    <3>3. QED
      BY <1>14, <2>1, <3>2 DEF SweepRemoves
  <2>2. CASE UNCHANGED fileVars
    BY <1>14, <2>2 DEF SweepRemoves
  <2>3. QED
    BY <1>14, <2>1, <2>2 DEF SweepRemoves
<1>15. ASSUME GetsTooOld PROVE Claimed'
  BY <1>15 DEF GetsTooOld
<1>16. QED
  BY <1>1, <1>2, <1>3, <1>4, <1>5, <1>6, <1>7, <1>8, <1>9, <1>10, <1>11, <1>12, <1>13, <1>14, <1>15
     DEF LockNext

LEMMA LockInvStep == LockInv /\ [LockNext]_lockVars => LockInv'
<1> SUFFICES ASSUME LockInv, [LockNext]_lockVars PROVE LockInv'
  OBVIOUS
<1>1. LockTypeOK' /\ Grounded'
  BY LockTypeStep, GroundedStep DEF LockInv
<1>2. ASSUME LockNext, ~mishap' PROVE Claimed'
  <2>1. ~mishap
    BY <1>2 DEF LockNext, Acquire, OpenLock, WriteLock, HoldLock, InspectLock, ReclaimLock,
       Release, RemoveLock, WatchdogReleases, WatchdogRemoves, TerminationSignal, LockCrash,
       Sweep, SweepRemoves, GetsTooOld, others
  <2>2. QED
    BY <1>2, <2>1, ClaimedStep DEF LockInv
<1>3. ASSUME UNCHANGED lockVars, ~mishap' PROVE Claimed'
  BY <1>3 DEF LockInv, lockVars, Claimed, ClaimsMatch, ClaimsUnique, FileClaimed, StaleIsDead,
     Unclaimed, Abandoned, Claims
<1>4. QED
  BY <1>1, <1>2, <1>3 DEF LockInv

LEMMA LockInvInit == LockInit => LockInv
<1> SUFFICES ASSUME LockInit PROVE LockInv
  OBVIOUS
<1> USE SessionLockAssumption DEF LockInit
<1>1. LockTypeOK
  <2>1. written \in BOOLEAN /\ tooOld \in BOOLEAN /\ leftover \in BOOLEAN /\ procfs \in BOOLEAN /\ mishap \in BOOLEAN
    BY Zenon
  <2>2. sweeps \in 0..MaxSweeps
    OBVIOUS
  <2>3. QED
    BY <2>1, <2>2 DEF LockTypeOK
<1>2. Grounded
  BY DEF Grounded
<1>3. Claimed
  BY DEF Claimed, ClaimsMatch, ClaimsUnique, FileClaimed, StaleIsDead, Abandoned, Unclaimed, Claims
<1>4. QED
  BY <1>1, <1>2, <1>3 DEF LockInv

\* The type invariant of the session lock.
THEOREM LockTyped == LockSpec => []LockTypeOK
<1>1. LockInv => LockTypeOK
  BY DEF LockInv
<1>2. QED
  BY <1>1, LockInvInit, LockInvStep, PTL DEF LockSpec

\* However many tasks and processes contend, crash, are signalled or are released
\* by their watchdogs: without a mishap two processes never hold the lock, and no
\* living process leaves a lock file behind that it could remove
\* (session-write-lock.ts 125-212, 229-245, 482-548).
THEOREM LockIsExclusive == LockSpec => []LockExclusive
<1>1. LockInv => LockExclusive
  <2> SUFFICES ASSUME LockInv, ~mishap PROVE LockExclusive
    BY DEF LockExclusive
  <2>1. LockTypeOK /\ ClaimsMatch /\ FileClaimed
    BY DEF LockInv, Claimed
  <2>2. ASSUME NEW p \in LockProcs, heldLocks[p] # NoLock PROVE lockFile = heldLocks[p]
    BY <2>1, <2>2 DEF ClaimsMatch
  <2>3. ASSUME lockFile # NoLock, ~Abandoned
        PROVE  \/ taskAt[lockFile] \in {"write", "hold"}
               \/ heldLocks[ProcOf[lockFile]] = lockFile
               \/ Removing(ProcOf[lockFile])
    <3>1. ASSUME NEW t \in LockTasks, Claims(t)
          PROVE  taskAt[lockFile] \in {"write", "hold"} \/ Removing(ProcOf[lockFile])
      BY <2>1, <3>1 DEF ClaimsMatch, Claims, Removing
    <3>2. QED
      BY <2>1, <2>3, <3>1 DEF FileClaimed, Removing
  <2>4. QED
    BY <2>2, <2>3 DEF LockExclusive
<1>2. QED
  BY <1>1, LockInvInit, LockInvStep, PTL DEF LockSpec

-----------------------------------------------------------------------------
(* The session lock: the count *)

\* The tasks in their sections with a lock are of its process, a lock that is
\* not made yet has none, and one that is held counts them; what a task is in
\* its section with was taken from all of them or is held.
Early(t) == taskAt[t] \in {"new", "open", "write", "hold", "inspect", "reclaim"}

SectionOK(h) ==
  /\ IsFiniteSet(Section(h))
  /\ \A t \in Section(h) : ProcOf[t] = ProcOf[h]
  /\ Early(h) => Section(h) = {}
  /\ heldLocks[ProcOf[h]] = h => ~Early(h) /\ lockCount[h] = Cardinality(Section(h))

HeldAtHome == \A p \in LockProcs : heldLocks[p] # NoLock => ProcOf[heldLocks[p]] = p

Covered(h) == Section(h) # {} => heldLocks[ProcOf[h]] = h \/ h \in evicted

CountInv ==
  /\ LockInv /\ HeldAtHome
  /\ \A h \in LockTasks : SectionOK(h)
  /\ ~mishap => \A h \in LockTasks : Covered(h)

\* A step that moves no task in or out of a section and touches no lock that
\* is held.
LEMMA QuietSections ==
  ASSUME \A h \in LockTasks : SectionOK(h), HeldAtHome,
         UNCHANGED <<heldLocks, lockCount>>, evicted \subseteq evicted',
         \A t \in LockTasks : /\ taskAt'[t] = "in" <=> taskAt[t] = "in"
                              /\ taskAt[t] = "in" => object'[t] = object[t]
                              /\ Early(t)' => Early(t)
  PROVE  /\ \A h \in LockTasks : SectionOK(h)' /\ (Covered(h) => Covered(h)')
         /\ HeldAtHome'
<1>1. \A h \in LockTasks : Section(h)' = Section(h)
  BY DEF Section
<1>2. QED
  BY <1>1 DEF SectionOK, HeldAtHome, Covered

\* What a step does to the sections.
SectionsKept ==
  /\ HeldAtHome'
  /\ \A h \in LockTasks : SectionOK(h)'
  /\ ~mishap' => \A h \in LockTasks : Covered(h)'

LEMMA MishapStays == [LockNext]_lockVars /\ ~mishap' => ~mishap
  BY DEF LockNext, Acquire, OpenLock, WriteLock, HoldLock, InspectLock, ReclaimLock,
     Release, RemoveLock, WatchdogReleases, WatchdogRemoves, TerminationSignal, LockCrash,
     Sweep, SweepRemoves, GetsTooOld, others, lockVars

LEMMA AcquireSections ==
  ASSUME CountInv, NEW t \in LockTasks, Acquire(t)
  PROVE  SectionsKept
<1>1. /\ LockTypeOK /\ HeldAtHome /\ \A h \in LockTasks : SectionOK(h)
      /\ ProcOf \in [LockTasks -> LockProcs] /\ NoLock \notin LockTasks
      /\ ~mishap => \A h \in LockTasks : Covered(h)
  BY SessionLockAssumption DEF CountInv, LockInv
<1>2. /\ UNCHANGED <<heldLocks, evicted, mishap>>
      /\ taskAt[t] = "new"
  BY DEF Acquire, others, Passes
<1> DEFINE h == heldLocks[ProcOf[t]]
<1>3. CASE /\ h # NoLock /\ lockCount' = [lockCount EXCEPT ![h] = @ + 1]
           /\ taskAt' = [taskAt EXCEPT ![t] = "in"] /\ object' = [object EXCEPT ![t] = h]
  <2>1. h \in LockTasks /\ ProcOf[h] = ProcOf[t]
    BY <1>1, <1>3 DEF LockTypeOK, HeldAtHome
  <2>2. /\ \A g \in LockTasks : g # h => Section(g)' = Section(g)
        /\ Section(h)' = Section(h) \cup {t} /\ t \notin Section(h)
    BY <1>1, <1>2, <1>3, <2>1 DEF Section, LockTypeOK
  <2>3. /\ \A g \in LockTasks : Early(g)' => Early(g)
        /\ \A g \in LockTasks : g # h => lockCount'[g] = lockCount[g]
        /\ lockCount'[h] = lockCount[h] + 1
    BY <1>1, <1>2, <1>3, <2>1 DEF Early, LockTypeOK
  <2>4. /\ IsFiniteSet(Section(h)') /\ Cardinality(Section(h)') = Cardinality(Section(h)) + 1
    BY <1>1, <2>1, <2>2, FS_AddElement DEF SectionOK
  <2>5. SectionOK(h)' /\ Covered(h)'
    BY <1>1, <1>2, <2>1, <2>2, <2>3, <2>4 DEF SectionOK, Covered
  <2>6. \A g \in LockTasks : g # h => SectionOK(g)' /\ (Covered(g) => Covered(g)')
    BY <1>1, <1>2, <2>2, <2>3 DEF SectionOK, Covered
  <2>7. QED
    BY <1>1, <1>2, <2>5, <2>6 DEF SectionsKept, HeldAtHome
<1>4. CASE taskAt' = [taskAt EXCEPT ![t] = "open"] /\ UNCHANGED <<lockCount, object>>
  <2>1. \A u \in LockTasks : /\ taskAt'[u] = "in" <=> taskAt[u] = "in"
                             /\ taskAt[u] = "in" => object'[u] = object[u]
                             /\ Early(u)' => Early(u)
    BY <1>1, <1>2, <1>4 DEF Early, LockTypeOK
  <2>2. QED
    BY <1>1, <1>2, <1>4, <2>1, QuietSections DEF SectionsKept
<1>5. QED
  BY <1>3, <1>4 DEF Acquire, Passes, With

LEMMA HoldLockSections ==
  ASSUME CountInv, NEW t \in LockTasks, HoldLock(t)
  PROVE  SectionsKept
<1>1. /\ LockTypeOK /\ HeldAtHome /\ \A h \in LockTasks : SectionOK(h)
      /\ ProcOf \in [LockTasks -> LockProcs] /\ NoLock \notin LockTasks
      /\ ~mishap => \A h \in LockTasks : Covered(h)
      /\ ~mishap => ClaimsUnique
  BY SessionLockAssumption DEF CountInv, LockInv, Claimed
<1>2. /\ UNCHANGED <<evicted, mishap>>
      /\ taskAt[t] = "hold" /\ taskAt' = [taskAt EXCEPT ![t] = "in"]
      /\ heldLocks' = [heldLocks EXCEPT ![ProcOf[t]] = t]
      /\ lockCount' = [lockCount EXCEPT ![t] = 1]
      /\ object' = [object EXCEPT ![t] = t]
  BY DEF HoldLock, others, Passes, With
<1>3. /\ \A g \in LockTasks : g # t => Section(g)' = Section(g) /\ (Early(g)' <=> Early(g))
      /\ Section(t)' = {t} /\ ~Early(t)'
  <2>1. \A g \in LockTasks : g # t => taskAt'[g] = taskAt[g] /\ object'[g] = object[g]
    BY <1>1, <1>2 DEF LockTypeOK
  <2>2. taskAt'[t] = "in" /\ object'[t] = t
    BY <1>1, <1>2 DEF LockTypeOK
  <2>3. Section(t) = {} /\ \A g \in LockTasks : t \notin Section(g)
    BY <1>1, <1>2 DEF SectionOK, Early, Section
  <2>4. \A g \in LockTasks : g # t => Section(g)' = Section(g) /\ (Early(g)' <=> Early(g))
    BY <1>2, <2>1, <2>2 DEF Section, Early
  <2>5. Section(t)' = {t}
    <3>1. \A u \in LockTasks : u # t => (u \in Section(t)' <=> u \in Section(t))
      BY <2>1 DEF Section
    <3>2. t \in Section(t)' /\ Section(t)' \subseteq LockTasks
      BY <2>2 DEF Section
    <3>3. QED
      BY <2>3, <3>1, <3>2
  <2>6. QED
    BY <2>2, <2>4, <2>5 DEF Early
<1>4. /\ \A p \in LockProcs : heldLocks'[p] = IF p = ProcOf[t] THEN t ELSE heldLocks[p]
      /\ \A g \in LockTasks : lockCount'[g] = IF g = t THEN 1 ELSE lockCount[g]
  BY <1>1, <1>2 DEF LockTypeOK
<1>5. SectionOK(t)' /\ Covered(t)'
  <2>1. IsFiniteSet(Section(t)') /\ Cardinality(Section(t)') = 1
    BY <1>3, FS_Singleton
  <2>2. heldLocks'[ProcOf[t]] = t /\ lockCount'[t] = 1
    BY <1>1, <1>4
  <2>3. QED
    BY <1>3, <2>1, <2>2 DEF SectionOK, Covered
<1>6. \A g \in LockTasks : g # t => SectionOK(g)'
  BY <1>1, <1>3, <1>4 DEF SectionOK
<1>7. ASSUME ~mishap, NEW g \in LockTasks, g # t
      PROVE  Covered(g)'
  <2>1. heldLocks[ProcOf[t]] = NoLock
    BY <1>1, <1>2, <1>7 DEF ClaimsUnique, Claims
  <2>2. heldLocks[ProcOf[g]] = g => heldLocks'[ProcOf[g]] = g
    BY <1>1, <1>4, <2>1
  <2>3. QED
    BY <1>1, <1>2, <1>3, <1>7, <2>2 DEF Covered
<1>8. HeldAtHome'
  BY <1>1, <1>4 DEF HeldAtHome
<1>9. QED
  BY <1>2, <1>5, <1>6, <1>7, <1>8 DEF SectionsKept

LEMMA ReleaseSections ==
  ASSUME CountInv, NEW t \in LockTasks, Release(t)
  PROVE  SectionsKept
<1>1. /\ LockTypeOK /\ HeldAtHome /\ \A g \in LockTasks : SectionOK(g)
      /\ ProcOf \in [LockTasks -> LockProcs] /\ NoLock \notin LockTasks
      /\ ~mishap => \A g \in LockTasks : Covered(g)
      /\ taskAt[t] = "in" => object[t] \in LockTasks
  BY SessionLockAssumption DEF CountInv, LockInv, Grounded
<1>0. PICK h \in LockTasks : h = object[t]
  BY <1>1 DEF Release
<1>2. /\ UNCHANGED <<evicted, mishap>> /\ taskAt[t] = "in"
      /\ object' = [object EXCEPT ![t] = NoLock]
  BY <1>1 DEF Release, others, With
<1>3. PICK to \in {"out", "remove"} : taskAt' = [taskAt EXCEPT ![t] = to]
  BY DEF Release, Passes
<1>4. /\ \A g \in LockTasks : g # h => Section(g)' = Section(g)
      /\ \A g \in LockTasks : Early(g)' => Early(g)
      /\ Section(h)' = Section(h) \ {t} /\ t \in Section(h) /\ ProcOf[t] = ProcOf[h]
  <2>1. t \in Section(h)
    BY <1>0, <1>2 DEF Section
  <2>2. ProcOf[t] = ProcOf[h]
    BY <1>1, <2>1 DEF SectionOK
  <2>3. /\ taskAt'[t] = to
        /\ \A u \in LockTasks : u # t => taskAt'[u] = taskAt[u] /\ object'[u] = object[u]
    BY <1>1, <1>2, <1>3 DEF LockTypeOK
  <2>4. \A g \in LockTasks : Early(g)' => Early(g)
    BY <2>3 DEF Early
  <2>5. \A g \in LockTasks : g # h => Section(g)' = Section(g)
    BY <1>0, <2>3 DEF Section
  <2>6. Section(h)' = Section(h) \ {t}
    BY <2>3 DEF Section
  <2>7. QED
    BY <2>1, <2>2, <2>4, <2>5, <2>6
<1>5. /\ IsFiniteSet(Section(h)') /\ Cardinality(Section(h)') = Cardinality(Section(h)) - 1
      /\ Cardinality(Section(h)) \in Nat /\ Cardinality(Section(h)') \in Nat
      /\ \A u \in Section(h)' : ProcOf[u] = ProcOf[h]
      /\ Early(h)' => Section(h)' = {}
  <2>1. SectionOK(h)
    BY <1>1
  <2>2. /\ IsFiniteSet(Section(h)') /\ Cardinality(Section(h)') = Cardinality(Section(h)) - 1
    BY <1>4, <2>1, FS_RemoveElement DEF SectionOK
  <2>3. Cardinality(Section(h)) \in Nat /\ Cardinality(Section(h)') \in Nat
    BY <2>1, <2>2, FS_CardinalityType DEF SectionOK
  <2>4. QED
    BY <1>4, <2>1, <2>2, <2>3 DEF SectionOK
<1>6. ASSUME heldLocks[ProcOf[t]] # h, UNCHANGED holding
      PROVE  SectionsKept
  <2>1. \A g \in LockTasks : g # h => SectionOK(g)' /\ (Covered(g) => Covered(g)')
    BY <1>1, <1>2, <1>4, <1>6 DEF SectionOK, Covered, holding
  <2>2. SectionOK(h)' /\ (Covered(h) => Covered(h)')
    BY <1>1, <1>2, <1>4, <1>5, <1>6 DEF SectionOK, Covered, holding
  <2>3. QED
    BY <1>1, <1>2, <1>6, <2>1, <2>2 DEF SectionsKept, HeldAtHome, holding
<1>7. ASSUME heldLocks[ProcOf[t]] = h, lockCount' = [lockCount EXCEPT ![h] = @ - 1],
             \/ lockCount[h] > 1 /\ UNCHANGED heldLocks
             \/ lockCount[h] = 1 /\ Forgotten(ProcOf[t])
      PROVE  SectionsKept
  <2>1. lockCount[h] = Cardinality(Section(h)) /\ ~Early(h)
    BY <1>1, <1>2, <1>4, <1>7 DEF SectionOK
  <2>2. \A g \in LockTasks : lockCount'[g] = IF g = h THEN lockCount[g] - 1 ELSE lockCount[g]
    BY <1>1, <1>2, <1>7 DEF LockTypeOK
  <2>3. \A p \in LockProcs : heldLocks'[p] = heldLocks[p] \/ heldLocks'[p] = NoLock
    BY <1>1, <1>7 DEF LockTypeOK, Forgotten
  <2>4. \A g \in LockTasks : g # h => SectionOK(g)'
    BY <1>1, <1>4, <2>2, <2>3 DEF SectionOK
  <2>5. SectionOK(h)'
    BY <1>1, <1>2, <1>4, <1>5, <2>1, <2>2, <2>3 DEF SectionOK
  <2>6. ASSUME ~mishap, NEW g \in LockTasks
        PROVE  Covered(g)'
    <3>1. CASE UNCHANGED heldLocks
      BY <1>1, <1>2, <1>4, <2>6, <3>1 DEF Covered
    <3>2. CASE lockCount[h] = 1 /\ Forgotten(ProcOf[t])
      <4>1. Section(h)' = {}
        BY <1>5, <2>1, <3>2, FS_EmptySet
      <4>2. CASE g = h
        BY <4>1, <4>2 DEF Covered
      <4>3. CASE g # h
        <5>1. heldLocks[ProcOf[g]] = g => heldLocks'[ProcOf[g]] = g
          BY <1>1, <1>7, <3>2, <4>3 DEF LockTypeOK, Forgotten
        <5>2. QED
          BY <1>1, <1>2, <1>4, <2>6, <4>3, <5>1 DEF Covered
      <4>4. QED
        BY <4>2, <4>3
    <3>3. QED
      BY <1>7, <3>1, <3>2
  <2>7. HeldAtHome'
    BY <1>1, <2>3 DEF HeldAtHome
  <2>8. QED
    BY <1>2, <2>4, <2>5, <2>6, <2>7 DEF SectionsKept
<1>8. QED
  BY <1>0, <1>6, <1>7 DEF Release

LEMMA WatchdogSections ==
  ASSUME CountInv, NEW p \in LockProcs, WatchdogReleases(p)
  PROVE  SectionsKept
<1> DEFINE h == heldLocks[p]
<1>1. /\ LockTypeOK /\ HeldAtHome /\ \A g \in LockTasks : SectionOK(g)
      /\ ProcOf \in [LockTasks -> LockProcs] /\ NoLock \notin LockTasks
      /\ ~mishap => \A g \in LockTasks : Covered(g)
  BY SessionLockAssumption DEF CountInv, LockInv
<1>2. /\ UNCHANGED <<taskAt, object, mishap>> /\ evicted' = evicted \cup {h}
      /\ heldLocks' = [heldLocks EXCEPT ![p] = NoLock]
      /\ lockCount' = [lockCount EXCEPT ![h] = 0]
      /\ h \in LockTasks /\ ProcOf[h] = p
  BY <1>1 DEF WatchdogReleases, Forgotten, LockTypeOK, HeldAtHome
<1>3. \A g \in LockTasks : Section(g)' = Section(g) /\ (Early(g)' <=> Early(g))
  BY <1>2 DEF Section, Early
<1>4. /\ \A g \in LockTasks : g # h => lockCount'[g] = lockCount[g]
      /\ \A q \in LockProcs : heldLocks'[q] = IF q = p THEN NoLock ELSE heldLocks[q]
  BY <1>1, <1>2 DEF LockTypeOK
<1>5. \A g \in LockTasks : SectionOK(g)'
  BY <1>1, <1>2, <1>3, <1>4 DEF SectionOK
<1>6. \A g \in LockTasks : Covered(g) => Covered(g)'
  BY <1>1, <1>2, <1>3, <1>4 DEF Covered
<1>7. QED
  BY <1>1, <1>2, <1>4, <1>5, <1>6 DEF SectionsKept, HeldAtHome

\* A signal or a crash: what the process holds is gone, and its tasks go on or die.
LEMMA DeathSections ==
  ASSUME CountInv, NEW p \in LockProcs, Forgotten(p), UNCHANGED lockCount, evicted \subseteq evicted',
         Dies(p) \/ (UNCHANGED <<taskAt, object>> /\ (heldLocks[p] # NoLock => heldLocks[p] \in evicted')),
         ~mishap' => ~mishap
  PROVE  SectionsKept
<1>1. /\ LockTypeOK /\ HeldAtHome /\ \A g \in LockTasks : SectionOK(g)
      /\ ProcOf \in [LockTasks -> LockProcs] /\ NoLock \notin LockTasks
      /\ ~mishap => \A g \in LockTasks : Covered(g)
  BY SessionLockAssumption DEF CountInv, LockInv
<1>2. \A q \in LockProcs : heldLocks'[q] = IF q = p THEN NoLock ELSE heldLocks[q]
  BY <1>1 DEF LockTypeOK, Forgotten
<1>3. HeldAtHome'
  BY <1>1, <1>2 DEF HeldAtHome
<1>4. CASE Dies(p)
  <2>1. \A t \in LockTasks : IF ProcOf[t] = p THEN taskAt'[t] = "dead"
                             ELSE taskAt'[t] = taskAt[t] /\ object'[t] = object[t]
    BY <1>4 DEF Dies
  <2>2. /\ \A g \in LockTasks : Early(g)' => Early(g)
        /\ \A g \in LockTasks : ProcOf[g] # p => Section(g)' = Section(g)
        /\ \A g \in LockTasks : ProcOf[g] = p => Section(g)' = {}
    <3>1. \A g \in LockTasks : Early(g)' => Early(g)
      BY <2>1 DEF Early
    <3>2. ASSUME NEW g \in LockTasks
          PROVE  /\ ProcOf[g] # p => Section(g)' = Section(g)
                 /\ ProcOf[g] = p => Section(g)' = {}
      <4>1. \A t \in LockTasks : t \in Section(g) => ProcOf[t] = ProcOf[g]
        BY <1>1, <3>2 DEF SectionOK
      <4>2. \A t \in LockTasks : t \in Section(g)' => t \in Section(g) /\ ProcOf[t] # p
        BY <2>1 DEF Section
      <4>3. \A t \in LockTasks : t \in Section(g) /\ ProcOf[t] # p => t \in Section(g)'
        BY <2>1 DEF Section
      <4>4. Section(g) \subseteq LockTasks /\ Section(g)' \subseteq LockTasks
        BY DEF Section
      <4>5. QED
        BY <4>1, <4>2, <4>3, <4>4
    <3>3. QED
      BY <3>1, <3>2
  <2>3. \A g \in LockTasks : SectionOK(g)'
    BY <1>1, <1>2, <2>2, FS_EmptySet DEF SectionOK
  <2>4. \A g \in LockTasks : Covered(g) => Covered(g)'
    BY <1>1, <1>2, <2>2 DEF Covered
  <2>5. QED
    BY <1>1, <1>3, <2>3, <2>4 DEF SectionsKept
<1>5. CASE UNCHANGED <<taskAt, object>> /\ (heldLocks[p] # NoLock => heldLocks[p] \in evicted')
  <2>1. \A g \in LockTasks : Section(g)' = Section(g) /\ (Early(g)' <=> Early(g))
    BY <1>5 DEF Section, Early
  <2>2. \A g \in LockTasks : SectionOK(g)'
    BY <1>1, <1>2, <2>1 DEF SectionOK
  <2>3. \A g \in LockTasks : Covered(g) => Covered(g)'
    BY <1>1, <1>2, <1>5, <2>1 DEF Covered
  <2>4. QED
    BY <1>1, <1>3, <2>2, <2>3 DEF SectionsKept
<1>6. QED
  BY <1>4, <1>5

LEMMA CountStep == CountInv /\ [LockNext]_lockVars => CountInv'
<1> SUFFICES ASSUME CountInv, [LockNext]_lockVars PROVE CountInv'
  OBVIOUS
<1>1. LockInv' /\ LockTypeOK /\ (~mishap' => ~mishap)
  BY LockInvStep, MishapStays DEF CountInv, LockInv
<1>2. ASSUME NEW t \in LockTasks, Acquire(t) PROVE SectionsKept
  BY <1>2, AcquireSections
<1>3. ASSUME NEW t \in LockTasks, HoldLock(t) PROVE SectionsKept
  BY <1>3, HoldLockSections
<1>4. ASSUME NEW t \in LockTasks, Release(t) PROVE SectionsKept
  BY <1>4, ReleaseSections
<1>5. ASSUME NEW p \in LockProcs, WatchdogReleases(p) PROVE SectionsKept
  BY <1>5, WatchdogSections
<1>6. ASSUME NEW p \in LockProcs, TerminationSignal(p) PROVE SectionsKept
  <2>1. CASE heldLocks[p] = NoLock
    BY <1>1, <1>6, <2>1, DeathSections DEF TerminationSignal
  <2>2. CASE heldLocks[p] # NoLock
    BY <1>1, <1>6, <2>2, DeathSections DEF TerminationSignal
  <2>3. QED
    BY <2>1, <2>2
<1>7. ASSUME NEW p \in LockProcs, LockCrash(p) PROVE SectionsKept
  BY <1>1, <1>7, DeathSections DEF LockCrash
<1>8. ASSUME UNCHANGED <<heldLocks, lockCount>>, evicted \subseteq evicted',
             \A t \in LockTasks : /\ taskAt'[t] = "in" <=> taskAt[t] = "in"
                                  /\ taskAt[t] = "in" => object'[t] = object[t]
                                  /\ Early(t)' => Early(t)
      PROVE  SectionsKept
  BY <1>1, <1>8, QuietSections DEF CountInv, SectionsKept
<1>9. ASSUME NEW t \in LockTasks, OpenLock(t) \/ WriteLock(t) \/ RemoveLock(t)
      PROVE  SectionsKept
  <2>1. UNCHANGED <<heldLocks, lockCount, object, evicted>>
    BY <1>9 DEF OpenLock, WriteLock, RemoveLock, holding, others
  <2>2. \A u \in LockTasks : (taskAt'[u] = "in" <=> taskAt[u] = "in") /\ (Early(u)' => Early(u))
    BY <1>1, <1>9 DEF OpenLock, WriteLock, RemoveLock, Passes, LockTypeOK, Early
  <2>3. QED
    BY <1>8, <2>1, <2>2
<1>10. ASSUME NEW t \in LockTasks, InspectLock(t) \/ ReclaimLock(t)
       PROVE  SectionsKept
  <2>1. UNCHANGED <<heldLocks, lockCount, evicted>>
    BY <1>10 DEF InspectLock, ReclaimLock, holding, others
  <2>2. taskAt[t] # "in" /\ \A u \in LockTasks : u # t => object'[u] = object[u]
    BY <1>1, <1>10 DEF InspectLock, ReclaimLock, Passes, With, LockTypeOK
  <2>3. \A u \in LockTasks : (taskAt'[u] = "in" <=> taskAt[u] = "in") /\ (Early(u)' => Early(u))
    BY <1>1, <1>10 DEF InspectLock, ReclaimLock, Passes, LockTypeOK, Early
  <2>4. QED
    BY <1>8, <2>1, <2>2, <2>3
<1>11. ASSUME NEW p \in LockProcs, WatchdogRemoves(p) PROVE SectionsKept
  BY <1>8, <1>11 DEF WatchdogRemoves, holding, Early
<1>12. ASSUME Sweep \/ SweepRemoves \/ GetsTooOld \/ UNCHANGED lockVars PROVE SectionsKept
  BY <1>8, <1>12 DEF Sweep, SweepRemoves, GetsTooOld, lockVars, holding, others, Early
<1>13. SectionsKept
  BY <1>2, <1>3, <1>4, <1>5, <1>6, <1>7, <1>9, <1>10, <1>11, <1>12 DEF LockNext
<1>14. QED
  BY <1>1, <1>13 DEF CountInv, SectionsKept

LEMMA CountInvInit == LockInit => CountInv
<1> SUFFICES ASSUME LockInit PROVE CountInv
  OBVIOUS
<1>1. LockInv
  BY LockInvInit
<1>2. \A h \in LockTasks : Section(h) = {} /\ heldLocks[ProcOf[h]] # h
  BY SessionLockAssumption DEF LockInit, Section
<1>3. HeldAtHome
  BY DEF LockInit, HeldAtHome
<1>4. QED
  BY <1>1, <1>2, <1>3, FS_EmptySet DEF CountInv, SectionOK, Covered

\* For any tasks and processes the count of a lock that is held is the number
\* of the tasks in their sections with it; and without a mishap no task is in
\* its section without its lock, except where the watchdog or a signal took it
\* from all of them (acquireSessionWriteLock and releaseHeldLock of
\* agents/session-write-lock.ts).
THEOREM LockCountExact == LockSpec => []CountExact
<1>1. CountInv => CountExact
  BY DEF CountInv, LockInv, LockTypeOK, HeldAtHome, SectionOK, Covered, CountExact
<1>2. QED
  BY <1>1, CountInvInit, CountStep, PTL DEF LockSpec

-----------------------------------------------------------------------------
(* The session lock: the contract with its callers *)

\* Whoever is inside is in the section of the lock that its process holds.
LEMMA InsideHolds ==
  ASSUME LockTypeOK, Grounded, NEW t \in LockTasks
  PROVE  Stage(t) = "inside" <=>
           /\ taskAt[t] = "in" /\ object[t] \in LockTasks
           /\ heldLocks[ProcOf[t]] = object[t]
BY DEF Stage, LockTypeOK, Grounded

\* Without a mishap those inside are of the process that holds the lock.
LEMMA InsideTogether ==
  ASSUME LockTypeOK, Grounded, Claimed, NEW t \in LockTasks, Stage(t) = "inside",
         NEW p \in LockProcs, heldLocks[p] # NoLock
  PROVE  ProcOf[t] = p
<1>1. taskAt[t] = "in" /\ object[t] \in LockTasks /\ heldLocks[ProcOf[t]] = object[t]
  BY InsideHolds
<1>2. QED
  BY <1>1, SessionLockAssumption DEF Claimed, ClaimsMatch

bar == <<[t \in LockTasks |-> Stage(t)], mishap>>

LEMMA StagesTyped ==
  ASSUME LockTypeOK, NEW t \in LockTasks
  PROVE  Stage(t) \in Contract!Stages
BY DEF Stage, Contract!Stages, LockTypeOK

\* Where a step leaves all calls but one where they are.
LEMMA OthersStay ==
  ASSUME NEW t \in LockTasks, NEW s, Stage(t)' = s,
         \A u \in LockTasks : u # t => Stage(u)' = Stage(u)
  PROVE  [u \in LockTasks |-> Stage(u)]' = [[u \in LockTasks |-> Stage(u)] EXCEPT ![t] = s]
OBVIOUS

LEMMA AcquireEnters ==
  ASSUME CountInv, ~mishap, NEW t \in LockTasks, Acquire(t)
  PROVE  Contract!Enter(t) \/ UNCHANGED bar
<1>1. /\ LockTypeOK /\ Grounded /\ Claimed /\ HeldAtHome
      /\ ProcOf \in [LockTasks -> LockProcs] /\ NoLock \notin LockTasks
  BY SessionLockAssumption DEF CountInv, LockInv
<1>2. /\ UNCHANGED <<heldLocks, mishap>> /\ taskAt[t] = "new" /\ Stage(t) = "before"
  BY DEF Acquire, Passes, Stage
<1> DEFINE h == heldLocks[ProcOf[t]]
<1>3. CASE /\ t \in Reentrants /\ h # NoLock
           /\ taskAt' = [taskAt EXCEPT ![t] = "in"] /\ object' = [object EXCEPT ![t] = h]
  <2>1. Stage(t)' = "inside" /\ \A u \in LockTasks : u # t => Stage(u)' = Stage(u)
    BY <1>1, <1>2, <1>3 DEF Stage, LockTypeOK
  <2>2. \A u \in LockTasks : Stage(u) = "inside" => ProcOf[u] = ProcOf[t]
    BY <1>1, <1>3, InsideTogether
  <2>3. QED
    BY <1>2, <1>3, <2>1, <2>2, OthersStay DEF Contract!Enter, Contract!Inside, Contract!Goes
<1>4. CASE taskAt' = [taskAt EXCEPT ![t] = "open"] /\ UNCHANGED object
  <2>1. \A u \in LockTasks : Stage(u)' = Stage(u)
    BY <1>1, <1>2, <1>4 DEF Stage, LockTypeOK
  <2>2. QED
    BY <1>2, <2>1 DEF bar
<1>5. QED
  BY <1>3, <1>4 DEF Acquire, Passes, With

LEMMA HoldLockEnters ==
  ASSUME CountInv, ~mishap, NEW t \in LockTasks, HoldLock(t)
  PROVE  Contract!Enter(t)
<1>1. /\ LockTypeOK /\ Grounded /\ Claimed
      /\ ProcOf \in [LockTasks -> LockProcs] /\ NoLock \notin LockTasks
  BY SessionLockAssumption DEF CountInv, LockInv
<1>2. /\ taskAt[t] = "hold" /\ taskAt' = [taskAt EXCEPT ![t] = "in"]
      /\ heldLocks' = [heldLocks EXCEPT ![ProcOf[t]] = t]
      /\ object' = [object EXCEPT ![t] = t]
  BY DEF HoldLock, Passes, With
<1>3. \A p \in LockProcs : heldLocks[p] = NoLock
  BY <1>1, <1>2 DEF Claimed, ClaimsMatch, ClaimsUnique, Claims
<1>4. \A u \in LockTasks : Stage(u) # "inside"
  BY <1>1, <1>3, InsideHolds
<1>5. \A u \in LockTasks : taskAt[u] = "in" => object[u] # t
  BY <1>1, <1>2 DEF CountInv, SectionOK, Section, Early
<1>6. Stage(t) = "before" /\ Stage(t)' = "inside"
  BY <1>1, <1>2 DEF Stage, LockTypeOK
<1>7. ASSUME NEW u \in LockTasks, u # t
      PROVE  Stage(u)' = Stage(u)
  <2>1. taskAt'[u] = taskAt[u] /\ object'[u] = object[u]
    BY <1>1, <1>2, <1>7 DEF LockTypeOK
  <2>2. taskAt[u] = "in" => object[u] \in LockTasks \ {t}
    BY <1>1, <1>5, <1>7 DEF Grounded
  <2>3. heldLocks[ProcOf[u]] = NoLock /\ heldLocks'[ProcOf[u]] \in {NoLock, t}
    BY <1>1, <1>2, <1>3 DEF LockTypeOK
  <2>4. QED
    BY <1>1, <2>1, <2>2, <2>3 DEF Stage
<1>8. QED
  BY <1>4, <1>6, <1>7, OthersStay DEF Contract!Enter, Contract!Inside, Contract!Goes

LEMMA ReleaseLeaves ==
  ASSUME CountInv, NEW t \in LockTasks, Release(t)
  PROVE  Contract!Leave(t)
<1>1. /\ LockTypeOK /\ Grounded /\ \A h \in LockTasks : SectionOK(h)
      /\ ProcOf \in [LockTasks -> LockProcs] /\ NoLock \notin LockTasks
      /\ object[t] \in LockTasks
  BY SessionLockAssumption DEF CountInv, LockInv, Grounded, Release
<1>2. taskAt[t] = "in" /\ object' = [object EXCEPT ![t] = NoLock]
  BY DEF Release, With
<1>3. PICK to \in {"out", "remove"} : taskAt' = [taskAt EXCEPT ![t] = to]
  BY DEF Release, Passes
<1>4. Stage(t) \in {"inside", "evicted"} /\ Stage(t)' = "after"
  BY <1>1, <1>2, <1>3 DEF Stage, LockTypeOK
<1>5. ASSUME NEW u \in LockTasks, u # t
      PROVE  Stage(u)' = Stage(u)
  <2>1. taskAt'[u] = taskAt[u] /\ object'[u] = object[u]
    BY <1>1, <1>2, <1>3, <1>5 DEF LockTypeOK
  <2>2. CASE UNCHANGED heldLocks
    BY <2>1, <2>2 DEF Stage
  <2>3. CASE /\ heldLocks[ProcOf[t]] = object[t] /\ lockCount[object[t]] = 1
             /\ Forgotten(ProcOf[t])
    <3>1. t \in Section(object[t]) /\ ProcOf[t] = ProcOf[object[t]]
      BY <1>1, <1>2 DEF Section, SectionOK
    <3>2. Cardinality(Section(object[t])) = 1 /\ IsFiniteSet(Section(object[t]))
      BY <1>1, <2>3, <3>1 DEF SectionOK
    <3>3. u \notin Section(object[t])
      <4>1. PICK x : Section(object[t]) = {x}
        BY <3>2, FS_Singleton
      <4>2. QED
        BY <1>5, <3>1, <4>1
    <3>4. taskAt[u] = "in" => object[u] \in LockTasks /\ object[u] # object[t]
      BY <1>1, <3>3 DEF Section, Grounded
    <3>5. /\ ProcOf[u] # ProcOf[t] => heldLocks'[ProcOf[u]] = heldLocks[ProcOf[u]]
          /\ ProcOf[u] = ProcOf[t] => heldLocks'[ProcOf[u]] = NoLock
                                       /\ heldLocks[ProcOf[u]] = object[t]
      BY <1>1, <2>3 DEF Forgotten, LockTypeOK
    <3>6. QED
      BY <1>1, <2>1, <3>4, <3>5 DEF Stage
  <2>4. QED
    BY <2>2, <2>3 DEF Release, holding
<1>6. QED
  BY <1>4, <1>5, OthersStay DEF Contract!Leave, Contract!Goes

\* What a process holds is taken from it, and its tasks go on.
LEMMA ForgottenEvicts ==
  ASSUME CountInv, ~mishap, NEW p \in LockProcs, Forgotten(p), UNCHANGED <<taskAt, object>>
  PROVE  Contract!Evict \/ UNCHANGED [t \in LockTasks |-> Stage(t)]
<1>1. /\ LockTypeOK /\ Grounded /\ Claimed
      /\ ProcOf \in [LockTasks -> LockProcs] /\ NoLock \notin LockTasks
  BY SessionLockAssumption DEF CountInv, LockInv
<1>2. \A q \in LockProcs : heldLocks'[q] = IF q = p THEN NoLock ELSE heldLocks[q]
  BY <1>1 DEF Forgotten, LockTypeOK
<1>3. CASE heldLocks[p] = NoLock
  <2>1. \A t \in LockTasks : Stage(t)' = Stage(t)
    BY <1>1, <1>2, <1>3 DEF Stage
  <2>2. QED
    BY <2>1
<1>4. CASE heldLocks[p] # NoLock
  <2>1. \A t \in LockTasks : Stage(t) = "inside" => ProcOf[t] = p
    BY <1>1, <1>4, InsideTogether
  <2>2. ASSUME NEW t \in LockTasks
        PROVE  Stage(t)' = IF Stage(t) = "inside" THEN "evicted" ELSE Stage(t)
    <3>1. taskAt[t] = "in" => object[t] \in LockTasks
      BY <1>1 DEF Grounded
    <3>2. CASE Stage(t) = "inside"
      BY <1>1, <1>2, <2>1, <3>1, <3>2 DEF Stage
    <3>3. CASE Stage(t) # "inside"
      BY <1>1, <1>2, <3>1, <3>3 DEF Stage
    <3>4. QED
      BY <3>2, <3>3
  <2>3. QED
    BY <2>2 DEF Contract!Evict, Contract!Inside
<1>5. QED
  BY <1>3, <1>4

LEMMA DiesDies ==
  ASSUME LockTypeOK, NEW p \in LockProcs, Forgotten(p), Dies(p)
  PROVE  (\E t \in LockTasks : Contract!Die(t)) \/ UNCHANGED [t \in LockTasks |-> Stage(t)]
<1>1. /\ ProcOf \in [LockTasks -> LockProcs]
      /\ \A q \in LockProcs : heldLocks'[q] = IF q = p THEN NoLock ELSE heldLocks[q]
  BY SessionLockAssumption DEF Forgotten, LockTypeOK
<1>2. \A u \in LockTasks : Stage(u)' = IF ProcOf[u] = p THEN "dead" ELSE Stage(u)
  BY <1>1 DEF Dies, Stage
<1>3. CASE \E t \in LockTasks : ProcOf[t] = p
  <2>1. PICK t \in LockTasks : ProcOf[t] = p
    BY <1>3
  <2>2. Contract!Die(t)
    BY <1>2, <2>1 DEF Contract!Die
  <2>3. QED
    BY <2>2
<1>4. CASE \A t \in LockTasks : ProcOf[t] # p
  BY <1>2, <1>4
<1>5. QED
  BY <1>3, <1>4

\* Every step but the mishaps is one of the contract's, or none.
LEMMA ContractStep ==
  ASSUME CountInv, LockNext, ~mishap, ~mishap'
  PROVE  Contract!Next \/ UNCHANGED bar
<1>1. LockTypeOK /\ UNCHANGED mishap
  <2>1. CountInv'
    BY CountStep
  <2>2. mishap \in BOOLEAN /\ mishap' \in BOOLEAN
    BY <2>1 DEF CountInv, LockInv, LockTypeOK
  <2>3. QED
    BY <2>2 DEF CountInv, LockInv
<1>2. ASSUME NEW t \in LockTasks, Acquire(t) PROVE Contract!Next \/ UNCHANGED bar
  BY <1>1, <1>2, AcquireEnters DEF Contract!Next
<1>3. ASSUME NEW t \in LockTasks, HoldLock(t) PROVE Contract!Next
  BY <1>1, <1>3, HoldLockEnters DEF Contract!Next
<1>4. ASSUME NEW t \in LockTasks, Release(t) PROVE Contract!Next
  BY <1>1, <1>4, ReleaseLeaves DEF Contract!Next
<1>5. ASSUME NEW t \in LockTasks,
             OpenLock(t) \/ WriteLock(t) \/ RemoveLock(t) \/ InspectLock(t) \/ ReclaimLock(t)
      PROVE  Contract!Next \/ UNCHANGED bar
  <2>1. /\ UNCHANGED heldLocks /\ taskAt[t] # "in"
        /\ \A u \in LockTasks : u # t => object'[u] = object[u] /\ taskAt'[u] = taskAt[u]
        /\ taskAt'[t] \in {"write", "inspect", "failed", "hold", "remove", "out", "reclaim", "open"}
        /\ taskAt[t] = "remove" => taskAt'[t] = "out"
        /\ taskAt[t] \in {"open", "write", "remove", "inspect", "reclaim"}
    BY <1>1, <1>5 DEF OpenLock, WriteLock, RemoveLock, InspectLock, ReclaimLock, Passes, With,
       holding, LockTypeOK
  <2>2. \A u \in LockTasks : u # t => Stage(u)' = Stage(u)
    BY <2>1 DEF Stage
  <2>3. Stage(t)' = Stage(t) \/ (Stage(t) = "before" /\ Stage(t)' = "after")
    BY <2>1 DEF Stage
  <2>4. CASE Stage(t)' = Stage(t)
    BY <1>1, <2>2, <2>4 DEF bar
  <2>5. CASE Stage(t) = "before" /\ Stage(t)' = "after"
    BY <1>1, <2>2, <2>5, OthersStay DEF Contract!Next, Contract!Leave, Contract!Goes
  <2>6. QED
    BY <2>3, <2>4, <2>5
<1>6. ASSUME NEW p \in LockProcs, WatchdogReleases(p) PROVE Contract!Next \/ UNCHANGED bar
  BY <1>1, <1>6, ForgottenEvicts DEF WatchdogReleases, Contract!Next, bar
<1>7. ASSUME NEW p \in LockProcs, TerminationSignal(p) PROVE Contract!Next \/ UNCHANGED bar
  BY <1>1, <1>7, ForgottenEvicts, DiesDies DEF TerminationSignal, Contract!Next, bar
<1>8. ASSUME NEW p \in LockProcs, LockCrash(p) PROVE Contract!Next \/ UNCHANGED bar
  BY <1>1, <1>8, DiesDies DEF LockCrash, Contract!Next, bar
<1>9. ASSUME UNCHANGED <<heldLocks, taskAt, object>> PROVE UNCHANGED bar
  BY <1>1, <1>9 DEF bar, Stage
<1>10. ASSUME NEW p \in LockProcs, WatchdogRemoves(p) PROVE UNCHANGED bar
  BY <1>9, <1>10 DEF WatchdogRemoves, holding
<1>11. ASSUME Sweep \/ SweepRemoves \/ GetsTooOld PROVE UNCHANGED bar
  BY <1>9, <1>11 DEF Sweep, SweepRemoves, GetsTooOld, holding
<1>12. QED
  BY <1>2, <1>3, <1>4, <1>5, <1>6, <1>7, <1>8, <1>10, <1>11 DEF LockNext

\* For any tasks and processes the session lock refines WriteLock: until a live
\* lock is mistaken for a stale one, those inside are of one process and came in
\* re-entrantly, a release takes the lock from nobody else, and watchdog and
\* signals take it from all of them (session-write-lock.ts 125-212, 229-245,
\* 442-548).
THEOREM LockImplementsWriteLock == LockSpec => ImplementsWriteLock
<1>1. LockInit => Contract!Init
  BY DEF LockInit, Contract!Init, Stage
<1>2. CountInv /\ CountInv' /\ [LockNext]_lockVars => [Contract!Next]_bar
  <2> SUFFICES ASSUME CountInv, CountInv', [LockNext]_lockVars PROVE Contract!Next \/ UNCHANGED bar
    OBVIOUS
  <2>1. CASE UNCHANGED lockVars
    BY <2>1 DEF lockVars, bar, Stage
  <2>2. CASE mishap'
    <3>1. \A t \in LockTasks : Stage(t)' \in Contract!Stages
      BY StagesTyped DEF CountInv, LockInv, Stage, LockTypeOK, Contract!Stages
    <3>2. QED
      BY <2>2, <3>1 DEF Contract!Next
  <2>3. CASE LockNext /\ ~mishap'
    BY <2>3, MishapStays, ContractStep
  <2>4. QED
    BY <2>1, <2>2, <2>3
<1>3. QED
  BY <1>1, <1>2, CountInvInit, CountStep, PTL DEF LockSpec, ImplementsWriteLock, Contract!Spec, bar

\* With the contract comes what it entails: for any tasks and processes no two
\* tasks are in their sections with the lock at a time, unless they are of one
\* process and one of them allows re-entrance, or a mishap has happened
\* (acquireSessionWriteLock, session-write-lock.ts 442-548).
THEOREM LockExcludesSections == LockSpec => []SectionsExclude
<1>1. Contract!Init => Contract!Exclusive
  BY DEF Contract!Init, Contract!Exclusive, Contract!Inside
<1>2. Contract!Exclusive /\ [Contract!Next]_bar => Contract!Exclusive'
  <2> SUFFICES ASSUME Contract!Exclusive, [Contract!Next]_bar, ~mishap',
                      NEW t \in Contract!Inside', NEW u \in Contract!Inside', t # u
               PROVE  ProcOf[t] = ProcOf[u] /\ {t, u} \cap Reentrants # {}
    BY DEF Contract!Exclusive
  <2> USE DEF Contract!Exclusive, Contract!Inside, Contract!Goes, bar
  <2>1. CASE UNCHANGED bar
    BY <2>1
  <2>2. ASSUME NEW v \in LockTasks, Contract!Enter(v), UNCHANGED mishap
        PROVE  ProcOf[t] = ProcOf[u] /\ {t, u} \cap Reentrants # {}
    <3>1. /\ \A x \in LockTasks : x # v => Stage(x)' = Stage(x)
          /\ \A x \in LockTasks : Stage(x) = "inside" => ProcOf[x] = ProcOf[v] /\ v \in Reentrants
      BY <2>2 DEF Contract!Enter
    <3>2. CASE t = v \/ u = v
      BY <3>1, <3>2
    <3>3. CASE t # v /\ u # v
      BY <2>2, <3>1, <3>3
    <3>4. QED
      BY <3>2, <3>3
  <2>3. ASSUME \A x \in LockTasks : Stage(x)' = "inside" => Stage(x) = "inside", UNCHANGED mishap
        PROVE  ProcOf[t] = ProcOf[u] /\ {t, u} \cap Reentrants # {}
    BY <2>3
  <2>4. ASSUME NEW v \in LockTasks, Contract!Leave(v) \/ Contract!Die(v), UNCHANGED mishap
        PROVE  ProcOf[t] = ProcOf[u] /\ {t, u} \cap Reentrants # {}
    BY <2>3, <2>4 DEF Contract!Leave, Contract!Die
  <2>5. CASE Contract!Evict /\ UNCHANGED mishap
    BY <2>3, <2>5 DEF Contract!Evict
  <2>6. QED
    BY <2>1, <2>2, <2>4, <2>5 DEF Contract!Next
<1>3. QED
  BY <1>1, <1>2, LockImplementsWriteLock, PTL
     DEF ImplementsWriteLock, Contract!Spec, SectionsExclude, bar

-----------------------------------------------------------------------------
(* The command lanes and the run loop *)

States == {"new", "queued", "running", "settled", "cleared", "refused"}

Increasing(q) == \A i, j \in 1..Len(q) : i < j => q[i] < q[j]
First(q, n) == {q[i] : i \in 1..n}
Waits(q) == {q[i] : i \in 1..Len(q)}

\* What holds of the states st of the commands, the lanes' queues q, their active
\* commands a and their limits m, before and after a lane is pumped.
LanesOK(st, q, a, m) ==
  /\ st \in [Commands -> States]
  /\ q \in [Lanes -> Seq(Commands)]
  /\ a \in [Lanes -> SUBSET Commands]
  /\ m \in [Lanes -> 1..MaxConcurrency]
  /\ \A l \in Lanes : Increasing(q[l])
  /\ \A l \in Lanes : \A c \in Waits(q[l]) : st[c] = "queued"
  /\ \A l, k \in Lanes : l # k => Waits(q[l]) \cap Waits(q[k]) = {}
  /\ \A c \in Commands : st[c] = "queued" => \E l \in Lanes : c \in Waits(q[l])
  /\ \A l \in Lanes : \A c \in a[l] : st[c] = "running"

\* The commands are enqueued in the order of their numbers.
Numbered == \A c, d \in Commands : state[c] # "new" /\ d < c => state[d] # "new"

LanesInv == LanesOK(state, queue, active, maxConcurrent) /\ Numbered

\* What a pump of the lanes in S starts in lane l.
Count(S, q, a, m, l) ==
  IF l \in S THEN Startable(q[l], Cardinality(a[l]), m[l]) ELSE 0
Started(S, q, a, m, l) == First(q[l], Count(S, q, a, m, l))

-----------------------------------------------------------------------------
LEMMA CommandsNat == \A c \in Commands : c \in Nat
BY QueueAssumption DEF Commands

\* What is left of a queue when its first n commands have been started.
LEMMA Rest ==
  ASSUME NEW q \in Seq(Commands), Increasing(q), NEW n \in 0..Len(q),
         NEW r, r = SubSeq(q, n + 1, Len(q))
  PROVE  /\ r \in Seq(Commands)
         /\ Len(r) = Len(q) - n
         /\ Increasing(r)
         /\ First(q, n) \subseteq Commands
         /\ Waits(q) = First(q, n) \cup Waits(r)
         /\ \A c \in First(q, n), d \in Waits(r) : c < d
<1>1. Len(q) \in Nat /\ n \in Nat /\ n + 1 \in Nat
  OBVIOUS
<1>2. \A i \in 1..Len(q) - n : i + n \in 1..Len(q)
  BY <1>1
<1>3. r = [i \in 1..(Len(q) - n) |-> q[i + n]]
  <2>1. r = [i \in 1..(1 + Len(q) - (n + 1)) |-> q[i + (n + 1) - 1]]
    BY <1>1
  <2>2. 1 + Len(q) - (n + 1) = Len(q) - n /\ Len(q) - n \in Nat
    BY <1>1
  <2>3. \A i \in 1..(Len(q) - n) : i + (n + 1) - 1 = i + n
    BY <1>1
  <2>4. QED
    BY <2>1, <2>2, <2>3
<1>4. Len(q) - n \in Nat /\ \A i \in 1..(Len(q) - n) : q[i + n] \in Commands
  BY <1>1, <1>2
<1>5. r \in Seq(Commands) /\ Len(r) = Len(q) - n
  BY <1>3, <1>4
<1>6. \A i \in 1..Len(r) : r[i] = q[i + n]
  BY <1>3, <1>5
<1>7. Increasing(r)
  BY <1>1, <1>2, <1>5, <1>6 DEF Increasing
<1>8. First(q, n) \subseteq Commands
  BY <1>1 DEF First
<1>9. Waits(q) \subseteq First(q, n) \cup Waits(r)
  <2> SUFFICES ASSUME NEW i \in 1..Len(q)
               PROVE  q[i] \in First(q, n) \cup Waits(r)
    BY DEF Waits
  <2>1. CASE i \in 1..n
    BY <2>1 DEF First
  <2>2. CASE i \notin 1..n
    <3>1. i - n \in 1..Len(r) /\ (i - n) + n = i
      BY <1>1, <1>5, <2>2
    <3>2. q[i] = r[i - n]
      BY <1>6, <3>1
    <3>3. QED
      BY <3>1, <3>2 DEF Waits
  <2>3. QED
    BY <2>1, <2>2
<1>10. First(q, n) \cup Waits(r) \subseteq Waits(q)
  <2>1. First(q, n) \subseteq Waits(q)
    BY <1>1 DEF First, Waits
  <2>2. ASSUME NEW j \in 1..Len(r)
        PROVE  r[j] \in Waits(q)
    <3>1. j + n \in 1..Len(q) /\ r[j] = q[j + n]
      BY <1>2, <1>5, <1>6
    <3>2. QED
      BY <3>1 DEF Waits
  <2>3. QED
    BY <2>1, <2>2 DEF Waits
<1>11. \A c \in First(q, n), d \in Waits(r) : c < d
  <2> SUFFICES ASSUME NEW i \in 1..n, NEW j \in 1..Len(r)
               PROVE  q[i] < r[j]
    BY DEF First, Waits
  <2>1. i \in 1..Len(q) /\ j + n \in 1..Len(q) /\ i < j + n
    BY <1>1, <1>2, <1>5
  <2>2. QED
    BY <2>1, <1>6 DEF Increasing
<1>12. QED
  BY <1>5, <1>7, <1>8, <1>9, <1>10, <1>11

LEMMA PrefixCounted ==
  ASSUME NEW q \in Seq(Commands), Increasing(q), NEW n \in 0..Len(q)
  PROVE  /\ IsFiniteSet(First(q, n))
         /\ Cardinality(First(q, n)) = n
<1> DEFINE f == [i \in 1..n |-> q[i]]
<1>1. n \in Nat /\ 1..n \subseteq 1..Len(q)
  OBVIOUS
<1>2. f \in Bijection(1..n, First(q, n))
  <2>1. \A i, j \in 1..n : f[i] = f[j] => i = j
    <3>1. \A i \in 1..n : q[i] \in Nat
      BY <1>1, CommandsNat
    <3>2. QED
      BY <1>1, <3>1 DEF Increasing
  <2>2. QED
    BY <2>1 DEF Bijection, Injection, Surjection, IsInjective, First
<1>3. IsFiniteSet(1..n) /\ Cardinality(1..n) = n
  BY <1>1, FS_Interval
<1>4. QED
  BY <1>2, <1>3, FS_Bijection DEF ExistsBijection

LEMMA ActiveFinite ==
  ASSUME NEW S \in SUBSET Commands
  PROVE  IsFiniteSet(S) /\ Cardinality(S) \in Nat
<1>1. IsFiniteSet(Commands)
  BY FS_Interval, QueueAssumption DEF Commands
<1>2. IsFiniteSet(S)
  BY <1>1, FS_Subset
<1>3. QED
  BY <1>2, FS_CardinalityType

LEMMA CountType ==
  ASSUME NEW st, NEW q, NEW a, NEW m, LanesOK(st, q, a, m), NEW S, NEW l \in Lanes
  PROVE  /\ Count(S, q, a, m, l) \in 0..Len(q[l])
         /\ Len(q[l]) \in Nat /\ Cardinality(a[l]) \in Nat /\ m[l] \in Nat
         /\ Count(S, q, a, m, l) > 0 =>
              l \in S /\ Cardinality(a[l]) + Count(S, q, a, m, l) <= m[l]
         /\ l \notin S => Count(S, q, a, m, l) = 0
         /\ l \in S /\ Count(S, q, a, m, l) < Len(q[l]) =>
              Cardinality(a[l]) + Count(S, q, a, m, l) >= m[l]
<1>1. Cardinality(a[l]) \in Nat /\ m[l] \in Nat /\ Len(q[l]) \in Nat
  BY ActiveFinite, QueueAssumption DEF LanesOK
<1>2. QED
  BY <1>1 DEF Count, Startable

\* A pump of the lanes in S: each starts what it may, in order, and is left with
\* commands only if it is full.
LEMMA PumpedLanes ==
  ASSUME NEW st, NEW q, NEW a, NEW m, LanesOK(st, q, a, m),
         NEW S \in SUBSET Lanes, Pumped(S, st, q, a, m)
  PROVE  /\ LanesOK(state', queue', active', maxConcurrent')
         /\ maxConcurrent' = m
         /\ \A c \in Commands : (state'[c] = "new") <=> (st[c] = "new")
         /\ \A c \in Commands :
              \/ state'[c] = st[c]
              \/ st[c] = "queued" /\ state'[c] = "running" /\ \E l \in Lanes : c \in active'[l]
         /\ \A l \in Lanes :
              /\ active'[l] = a[l] \cup Started(S, q, a, m, l)
              /\ Started(S, q, a, m, l) \cap a[l] = {}
              /\ Cardinality(active'[l]) = Cardinality(a[l]) + Count(S, q, a, m, l)
              /\ Len(queue'[l]) = Len(q[l]) - Count(S, q, a, m, l)
              /\ \A c \in Started(S, q, a, m, l), d \in Waits(queue'[l]) : c < d
<1> DEFINE N(l) == Count(S, q, a, m, l)
           T(l) == Started(S, q, a, m, l)
<1>1. /\ queue' = [l \in Lanes |-> SubSeq(q[l], N(l) + 1, Len(q[l]))]
      /\ active' = [l \in Lanes |-> a[l] \cup T(l)]
      /\ state' = [c \in Commands |-> IF \E l \in Lanes : c \in T(l) THEN "running" ELSE st[c]]
      /\ maxConcurrent' = m
  BY DEF Pumped, Count, Started, First
<1>2. \A l \in Lanes :
        /\ queue'[l] \in Seq(Commands)
        /\ Len(queue'[l]) = Len(q[l]) - N(l)
        /\ Increasing(queue'[l])
        /\ T(l) \subseteq Commands
        /\ Waits(q[l]) = T(l) \cup Waits(queue'[l])
        /\ \A c \in T(l), d \in Waits(queue'[l]) : c < d
  <2> TAKE l \in Lanes
  <2>1. N(l) \in 0..Len(q[l])
    BY CountType
  <2>2. q[l] \in Seq(Commands) /\ Increasing(q[l])
    BY DEF LanesOK
  <2>3. queue'[l] = SubSeq(q[l], N(l) + 1, Len(q[l]))
    BY <1>1
  <2>4. T(l) = First(q[l], N(l))
    BY DEF Started
  <2> HIDE DEF N, T
  <2>5. /\ queue'[l] \in Seq(Commands)
        /\ Len(queue'[l]) = Len(q[l]) - N(l)
        /\ Increasing(queue'[l])
        /\ First(q[l], N(l)) \subseteq Commands
        /\ Waits(q[l]) = First(q[l], N(l)) \cup Waits(queue'[l])
        /\ \A c \in First(q[l], N(l)), d \in Waits(queue'[l]) : c < d
    BY <2>1, <2>2, <2>3, Rest
  <2>6. QED
    BY <2>4, <2>5
<1>3. \A l \in Lanes : IsFiniteSet(T(l)) /\ Cardinality(T(l)) = N(l)
  <2> TAKE l \in Lanes
  <2>1. N(l) \in 0..Len(q[l])
    BY CountType
  <2>2. q[l] \in Seq(Commands) /\ Increasing(q[l])
    BY DEF LanesOK
  <2>3. QED
    BY <2>1, <2>2, PrefixCounted DEF Started
<1>4. \A l \in Lanes : T(l) \cap Waits(queue'[l]) = {}
  <2>1. \A l \in Lanes : \A c \in T(l), d \in Waits(queue'[l]) : c < d /\ c \in Nat
    BY <1>2, CommandsNat
  <2>2. QED
    BY <2>1
<1>5. \A l \in Lanes : \A c \in T(l) : c \in Commands /\ st[c] = "queued"
  BY <1>2 DEF LanesOK
<1> HIDE DEF N, T
<1>6. \A l, k \in Lanes : Waits(queue'[l]) \cap T(k) = {}
  <2> TAKE l, k \in Lanes
  <2>1. CASE l = k
    BY <2>1, <1>4
  <2>2. CASE l # k
    BY <2>2, <1>2 DEF LanesOK
  <2>3. QED
    BY <2>1, <2>2
<1>7. /\ state' \in [Commands -> States]
      /\ queue' \in [Lanes -> Seq(Commands)]
      /\ active' \in [Lanes -> SUBSET Commands]
      /\ maxConcurrent' \in [Lanes -> 1..MaxConcurrency]
  <2>1. \A c \in Commands : state'[c] \in States
    BY <1>1 DEF LanesOK, States
  <2>2. \A l \in Lanes : a[l] \cup T(l) \in SUBSET Commands
    BY <1>5 DEF LanesOK
  <2>3. queue' = [l \in Lanes |-> queue'[l]]
    BY <1>1
  <2>4. queue' \in [Lanes -> Seq(Commands)]
    BY <2>3, <1>2
  <2>5. QED
    BY <1>1, <2>1, <2>2, <2>4 DEF LanesOK
<1>8. \A l \in Lanes : \A c \in Waits(queue'[l]) : state'[c] = "queued"
  <2> TAKE l \in Lanes
  <2> TAKE c \in Waits(queue'[l])
  <2>1. c \in Waits(q[l]) /\ \A k \in Lanes : c \notin T(k)
    BY <1>2, <1>6
  <2>2. st[c] = "queued" /\ c \in Commands
    <3>1. queue'[l] \in Seq(Commands)
      BY <1>2
    <3>2. c \in Commands
      BY <3>1 DEF Waits
    <3>3. QED
      BY <2>1, <3>2 DEF LanesOK
  <2>3. QED
    BY <1>1, <2>1, <2>2
<1>9. \A l, k \in Lanes : l # k => Waits(queue'[l]) \cap Waits(queue'[k]) = {}
  BY <1>2 DEF LanesOK
<1>10. \A c \in Commands : state'[c] = "queued" => \E l \in Lanes : c \in Waits(queue'[l])
  <2> SUFFICES ASSUME NEW c \in Commands, state'[c] = "queued"
               PROVE  \E l \in Lanes : c \in Waits(queue'[l])
    OBVIOUS
  <2>1. st[c] = "queued" /\ \A l \in Lanes : c \notin T(l)
    BY <1>1
  <2>2. PICK l \in Lanes : c \in Waits(q[l])
    BY <2>1 DEF LanesOK
  <2>3. QED
    BY <1>2, <2>1, <2>2
<1>11. \A l \in Lanes : \A c \in active'[l] : state'[c] = "running"
  <2> TAKE l \in Lanes
  <2> TAKE c \in active'[l]
  <2>1. CASE c \in T(l)
    BY <1>1, <1>5, <2>1
  <2>2. CASE c \notin T(l)
    <3>1. c \in a[l]
      BY <1>1, <2>2
    <3>2. c \in Commands /\ st[c] = "running"
      BY <3>1 DEF LanesOK
    <3>3. QED
      BY <1>1, <3>2
  <2>3. QED
    BY <2>1, <2>2
<1>12. \A c \in Commands : (state'[c] = "new") <=> (st[c] = "new")
  BY <1>1, <1>5
<1>13. \A l \in Lanes :
         /\ T(l) \cap a[l] = {}
         /\ Cardinality(active'[l]) = Cardinality(a[l]) + N(l)
  <2> TAKE l \in Lanes
  <2>1. T(l) \cap a[l] = {}
    BY <1>5 DEF LanesOK
  <2>2. IsFiniteSet(a[l]) /\ Cardinality(a[l]) \in Nat
    BY ActiveFinite DEF LanesOK
  <2>3. Cardinality(a[l] \cap T(l)) = 0
    <3>1. a[l] \cap T(l) = {}
      BY <2>1
    <3>2. QED
      BY <3>1, FS_EmptySet
  <2>4. IsFiniteSet(T(l)) /\ Cardinality(T(l)) = N(l)
    BY <1>3
  <2>5. Cardinality(a[l] \cup T(l)) = Cardinality(a[l]) + Cardinality(T(l)) - Cardinality(a[l] \cap T(l))
    BY <2>2, <2>4, FS_Union
  <2>6. active'[l] = a[l] \cup T(l)
    BY <1>1
  <2>7. N(l) \in Nat
    BY <2>4, FS_CardinalityType
  <2>8. QED
    BY <2>1, <2>2, <2>3, <2>4, <2>5, <2>6, <2>7
<1>14. LanesOK(state', queue', active', maxConcurrent')
  BY <1>2, <1>7, <1>8, <1>9, <1>10, <1>11 DEF LanesOK
<1>15. \A l \in Lanes : active'[l] = a[l] \cup T(l)
  BY <1>1
<1>16. \A c \in Commands :
         \/ state'[c] = st[c]
         \/ st[c] = "queued" /\ state'[c] = "running" /\ \E l \in Lanes : c \in active'[l]
  BY <1>1, <1>5, <1>15
<1>17. QED
  BY <1>1, <1>2, <1>12, <1>13, <1>14, <1>15, <1>16 DEF T, N

-----------------------------------------------------------------------------
\* What LaneDiscipline says of a step.
StartsRight ==
  \A l \in Lanes : LET started == active'[l] \ active[l] IN
    /\ started # {} => Cardinality(active'[l]) <= maxConcurrent'[l]
    /\ \A c \in started, d \in Waiting(l)' : c < d

LEMMA WaitingWaits == \A l \in Lanes : Waiting(l) = Waits(queue[l])
BY DEF Waiting, Waits

\* A step that takes commands out of lanes, and pumps those it has changed.
LEMMA PumpStep ==
  ASSUME NoStall,
         NEW st, NEW q, NEW a, NEW m, LanesOK(st, q, a, m),
         NEW S \in SUBSET Lanes, Pumped(S, st, q, a, m),
         \A l \in Lanes : a[l] \subseteq active[l],
         \A l \in Lanes \ S : q[l] = queue[l] /\ a[l] = active[l] /\ m[l] = maxConcurrent[l]
  PROVE  NoStall' /\ StartsRight
<1>1. NoStall'
  <2> SUFFICES ASSUME NEW l \in Lanes, queue'[l] # <<>>
               PROVE  Cardinality(active'[l]) >= maxConcurrent'[l]
    BY DEF NoStall
  <2>1. /\ maxConcurrent' = m
        /\ active'[l] = a[l] \cup Started(S, q, a, m, l)
        /\ Cardinality(active'[l]) = Cardinality(a[l]) + Count(S, q, a, m, l)
        /\ Len(queue'[l]) = Len(q[l]) - Count(S, q, a, m, l)
    BY PumpedLanes
  <2>7. LanesOK(state', queue', active', maxConcurrent')
    BY PumpedLanes
  <2>8. queue'[l] \in Seq(Commands) /\ q[l] \in Seq(Commands)
    BY <2>7 DEF LanesOK
  <2>2. Len(queue'[l]) \in Nat \ {0}
    BY <2>8
  <2>3. /\ Count(S, q, a, m, l) \in 0..Len(q[l])
        /\ Len(q[l]) \in Nat /\ Cardinality(a[l]) \in Nat /\ m[l] \in Nat
        /\ l \notin S => Count(S, q, a, m, l) = 0
        /\ l \in S /\ Count(S, q, a, m, l) < Len(q[l]) =>
             Cardinality(a[l]) + Count(S, q, a, m, l) >= m[l]
    BY CountType
  <2>4. CASE l \in S
    BY <2>1, <2>2, <2>3, <2>4
  <2>5. CASE l \notin S
    <3>1. q[l] = queue[l] /\ a[l] = active[l] /\ m[l] = maxConcurrent[l]
      BY <2>5
    <3>2. Len(q[l]) # 0 /\ Cardinality(active'[l]) = Cardinality(a[l])
      BY <2>1, <2>2, <2>3, <2>5
    <3>3. queue[l] # <<>>
      BY <2>8, <3>1, <3>2
    <3>4. Cardinality(active[l]) >= maxConcurrent[l]
      BY <3>3 DEF NoStall
    <3>5. QED
      BY <2>1, <3>1, <3>2, <3>4
  <2>6. QED
    BY <2>4, <2>5
<1>2. StartsRight
  <2> SUFFICES ASSUME NEW l \in Lanes
               PROVE  /\ active'[l] \ active[l] # {} => Cardinality(active'[l]) <= maxConcurrent'[l]
                      /\ \A c \in active'[l] \ active[l], d \in Waits(queue'[l]) : c < d
    BY WaitingWaits DEF StartsRight, Waiting, Waits
  <2>1. /\ maxConcurrent' = m
        /\ active'[l] = a[l] \cup Started(S, q, a, m, l)
        /\ Cardinality(active'[l]) = Cardinality(a[l]) + Count(S, q, a, m, l)
        /\ \A c \in Started(S, q, a, m, l), d \in Waits(queue'[l]) : c < d
    BY PumpedLanes
  <2>2. active'[l] \ active[l] \subseteq Started(S, q, a, m, l)
    BY <2>1
  <2>3. ASSUME active'[l] \ active[l] # {}
        PROVE  Cardinality(active'[l]) <= maxConcurrent'[l]
    <3>1. Started(S, q, a, m, l) # {}
      BY <2>2, <2>3
    <3>2. Count(S, q, a, m, l) \in Nat
      BY CountType
    <3>3. Count(S, q, a, m, l) # 0
      BY <3>1 DEF Started, First
    <3>4. Count(S, q, a, m, l) > 0 => Cardinality(a[l]) + Count(S, q, a, m, l) <= m[l]
      BY CountType
    <3>5. QED
      BY <2>1, <3>2, <3>3, <3>4
  <2>4. QED
    BY <2>1, <2>2, <2>3
<1>3. QED
  BY <1>1, <1>2

\* What every operation of the lanes preserves, and how it starts commands.
LaneStep == LanesInv' /\ NoStall' /\ StartsRight

LEMMA EnqueueLanes ==
  ASSUME LanesInv, NoStall, NEW c \in Commands, NEW l \in Lanes, Enqueue(c, l)
  PROVE  LaneStep
<1>1. LanesOK(state, queue, active, maxConcurrent) /\ Numbered
  BY DEF LanesInv
<1>2. state[c] = "new" /\ \A d \in Commands : d < c => state[d] # "new"
  BY DEF Enqueue
<1>3. CASE gatewayDraining
  <2>1. /\ state' = [state EXCEPT ![c] = "refused"]
        /\ queue' = queue /\ active' = active /\ maxConcurrent' = maxConcurrent
    BY <1>3 DEF Enqueue
  <2>2. \A d \in Commands : state'[d] = IF d = c THEN "refused" ELSE state[d]
    BY <1>1, <2>1 DEF LanesOK
  <2>3. \A k \in Lanes : \A d \in Waits(queue[k]) : d \in Commands
    BY <1>1 DEF LanesOK, Waits
  <2>4. LanesOK(state', queue', active', maxConcurrent')
    <3>1. state' \in [Commands -> States]
      BY <1>1, <2>1 DEF LanesOK, States
    <3>2. \A k \in Lanes : \A d \in Waits(queue'[k]) : state'[d] = "queued"
      BY <1>1, <1>2, <2>1, <2>2, <2>3 DEF LanesOK
    <3>3. \A d \in Commands : state'[d] = "queued" => \E k \in Lanes : d \in Waits(queue'[k])
      BY <1>1, <2>1, <2>2 DEF LanesOK
    <3>4. \A k \in Lanes : \A d \in active'[k] : state'[d] = "running"
      BY <1>1, <1>2, <2>1, <2>2 DEF LanesOK
    <3>5. QED
      BY <1>1, <2>1, <3>1, <3>2, <3>3, <3>4 DEF LanesOK
  <2>5. Numbered'
    BY <1>1, <1>2, <2>2 DEF Numbered
  <2>6. NoStall' /\ StartsRight
    BY <2>1 DEF NoStall, StartsRight
  <2>7. QED
    BY <2>4, <2>5, <2>6 DEF LaneStep, LanesInv
<1>4. CASE ~gatewayDraining
  <2> DEFINE st == [state EXCEPT ![c] = "queued"]
             q == [queue EXCEPT ![l] = Append(@, c)]
  <2>1. Pumped({l}, st, q, active, maxConcurrent)
    BY <1>4 DEF Enqueue
  <2>2. \A d \in Commands : st[d] = IF d = c THEN "queued" ELSE state[d]
    BY <1>1 DEF LanesOK
  <2>3. \A k \in Lanes : q[k] = IF k = l THEN Append(queue[l], c) ELSE queue[k]
    BY <1>1 DEF LanesOK
  <2>4. queue[l] \in Seq(Commands) /\ \A k \in Lanes : Waits(queue[k]) \subseteq Commands
    BY <1>1 DEF LanesOK, Waits
  <2>5. /\ q[l] \in Seq(Commands)
        /\ Waits(q[l]) = Waits(queue[l]) \cup {c}
        /\ Len(q[l]) = Len(queue[l]) + 1 /\ Len(queue[l]) \in Nat
        /\ \A i \in 1..Len(q[l]) : q[l][i] = IF i = Len(q[l]) THEN c ELSE queue[l][i]
    <3>1. q[l] = Append(queue[l], c)
      BY <2>3
    <3>2. /\ q[l] \in Seq(Commands)
          /\ Len(q[l]) = Len(queue[l]) + 1 /\ Len(queue[l]) \in Nat
          /\ \A i \in 1..Len(q[l]) : q[l][i] = IF i = Len(q[l]) THEN c ELSE queue[l][i]
      BY <2>4, <3>1
    <3> HIDE DEF q
    <3>3. Waits(q[l]) = Waits(queue[l]) \cup {c}
      BY <3>2 DEF Waits
    <3>4. QED
      BY <3>2, <3>3
  <2>6. \A k \in Lanes : \A d \in Waits(queue[k]) : state[d] = "queued" /\ d < c
    <3> SUFFICES ASSUME NEW k \in Lanes, NEW d \in Waits(queue[k])
                 PROVE  state[d] = "queued" /\ d < c
      OBVIOUS
    <3>1. state[d] = "queued" /\ d \in Commands
      BY <1>1, <2>4 DEF LanesOK
    <3>2. c \in Nat /\ d \in Nat /\ d # c /\ ~(c < d)
      BY <1>1, <1>2, <3>1, CommandsNat DEF Numbered
    <3>3. QED
      BY <3>1, <3>2
  <2>7. Increasing(q[l])
    <3> SUFFICES ASSUME NEW i \in 1..Len(q[l]), NEW j \in 1..Len(q[l]), i < j
                 PROVE  q[l][i] < q[l][j]
      BY DEF Increasing
    <3>1. i \in 1..Len(queue[l]) /\ q[l][i] = queue[l][i]
      BY <2>5
    <3>2. CASE j = Len(q[l])
      BY <2>5, <2>6, <3>1, <3>2 DEF Waits
    <3>3. CASE j # Len(q[l])
      <4>1. j \in 1..Len(queue[l]) /\ q[l][j] = queue[l][j]
        BY <2>5, <3>3
      <4>2. Increasing(queue[l])
        BY <1>1 DEF LanesOK
      <4>3. QED
        BY <3>1, <4>1, <4>2 DEF Increasing
    <3>4. QED
      BY <3>2, <3>3
  <2>8. LanesOK(st, q, active, maxConcurrent)
    <3>1. st \in [Commands -> States]
      BY <1>1 DEF LanesOK, States
    <3>2. q \in [Lanes -> Seq(Commands)]
      <4>1. \A k \in Lanes : q[k] \in Seq(Commands)
        BY <1>1, <2>3, <2>5 DEF LanesOK
      <4>2. q = [k \in Lanes |-> q[k]]
        BY <1>1 DEF LanesOK
      <4>3. QED
        BY <4>1, <4>2
    <3> HIDE DEF st, q
    <3>3. \A k \in Lanes : Increasing(q[k])
      BY <1>1, <2>3, <2>7 DEF LanesOK
    <3>4. \A k \in Lanes : Waits(q[k]) = IF k = l THEN Waits(queue[l]) \cup {c} ELSE Waits(queue[k])
      BY <2>3, <2>5
    <3>5. \A k \in Lanes : \A d \in Waits(q[k]) : st[d] = "queued"
      BY <2>2, <2>4, <2>6, <3>4
    <3>6. \A k \in Lanes : c \notin Waits(queue[k])
      BY <1>2, <2>6
    <3>7. \A k, j \in Lanes : k # j => Waits(q[k]) \cap Waits(q[j]) = {}
      <4>1. \A k, j \in Lanes : k # j => Waits(queue[k]) \cap Waits(queue[j]) = {}
        BY <1>1 DEF LanesOK
      <4>2. QED
        BY <3>4, <3>6, <4>1
    <3>8. \A d \in Commands : st[d] = "queued" => \E k \in Lanes : d \in Waits(q[k])
      <4>1. \A d \in Commands : state[d] = "queued" => \E k \in Lanes : d \in Waits(queue[k])
        BY <1>1 DEF LanesOK
      <4>2. QED
        BY <2>2, <3>4, <4>1
    <3>9. \A k \in Lanes : \A d \in active[k] : st[d] = "running"
      BY <1>1, <1>2, <2>2 DEF LanesOK
    <3>10. QED
      BY <1>1, <3>1, <3>2, <3>3, <3>5, <3>7, <3>8, <3>9 DEF LanesOK
  <2>9. \A k \in Lanes \ {l} : q[k] = queue[k]
    BY <2>3
  <2> HIDE DEF st, q
  <2>10. LanesOK(state', queue', active', maxConcurrent') /\ \A d \in Commands : (state'[d] = "new") <=> (st[d] = "new")
    BY <2>1, <2>8, PumpedLanes
  <2>11. NoStall' /\ StartsRight
    BY <2>1, <2>8, <2>9, PumpStep
  <2>12. Numbered'
    BY <1>1, <1>2, <2>2, <2>10 DEF Numbered
  <2>13. QED
    BY <2>10, <2>11, <2>12 DEF LaneStep, LanesInv
<1>5. QED
  BY <1>3, <1>4

\* The lanes as a completed command leaves them, before they are pumped.
LEMMA CompleteOK ==
  ASSUME LanesInv, NEW c \in Commands, CompleteTask(c)
  PROVE  LanesOK([state EXCEPT ![c] = "settled"], queue,
                 [l \in Lanes |-> active[l] \ {c}], maxConcurrent)
<1> DEFINE st == [state EXCEPT ![c] = "settled"]
           a == [l \in Lanes |-> active[l] \ {c}]
<1>1. LanesOK(state, queue, active, maxConcurrent)
  BY DEF LanesInv
<1>2. state[c] = "running"
  BY DEF CompleteTask
<1>3. \A d \in Commands : st[d] = IF d = c THEN "settled" ELSE state[d]
  BY <1>1 DEF LanesOK
<1>4. LanesOK(st, queue, a, maxConcurrent)
  <2>1. st \in [Commands -> States]
    BY <1>1 DEF LanesOK, States
  <2>2. a \in [Lanes -> SUBSET Commands]
    BY <1>1 DEF LanesOK
  <2>3. \A l \in Lanes : Waits(queue[l]) \subseteq Commands
    BY <1>1 DEF LanesOK, Waits
  <2>4. \A l \in Lanes : \A d \in Waits(queue[l]) : st[d] = "queued"
    BY <1>1, <1>2, <1>3, <2>3 DEF LanesOK
  <2>5. \A d \in Commands : st[d] = "queued" => \E l \in Lanes : d \in Waits(queue[l])
    BY <1>1, <1>3 DEF LanesOK
  <2>6. \A l \in Lanes : \A d \in a[l] : st[d] = "running"
    BY <1>1, <1>3 DEF LanesOK
  <2> HIDE DEF st, a
  <2>7. QED
    BY <1>1, <2>1, <2>2, <2>4, <2>5, <2>6 DEF LanesOK
<1>5. QED
  BY <1>4

LEMMA CompleteTaskLanes ==
  ASSUME LanesInv, NoStall, NEW c \in Commands, CompleteTask(c)
  PROVE  LaneStep
<1>1. LanesOK(state, queue, active, maxConcurrent) /\ Numbered
  BY DEF LanesInv
<1>2. state[c] = "running"
  BY DEF CompleteTask
<1> DEFINE st == [state EXCEPT ![c] = "settled"]
           a == [l \in Lanes |-> active[l] \ {c}]
<1>3. \A d \in Commands : st[d] = IF d = c THEN "settled" ELSE state[d]
  BY <1>1 DEF LanesOK
<1>4. LanesOK(st, queue, a, maxConcurrent)
  BY CompleteOK
<1>5. CASE c \in ActiveCommands
  <2> DEFINE S == {l \in Lanes : c \in active[l]}
  <2>1. Pumped(S, st, queue, a, maxConcurrent)
    BY <1>5 DEF CompleteTask
  <2>2. \A l \in Lanes : a[l] \subseteq active[l]
    OBVIOUS
  <2>3. \A l \in Lanes \ S : a[l] = active[l]
    OBVIOUS
  <2>4. S \in SUBSET Lanes
    OBVIOUS
  <2> HIDE DEF st, a, S
  <2>5. LanesOK(state', queue', active', maxConcurrent') /\ \A d \in Commands : (state'[d] = "new") <=> (st[d] = "new")
    BY <1>4, <2>1, <2>4, PumpedLanes
  <2>6. NoStall' /\ StartsRight
    BY <1>4, <2>1, <2>2, <2>3, <2>4, PumpStep
  <2>7. Numbered'
    BY <1>1, <1>2, <1>3, <2>5 DEF Numbered
  <2>8. QED
    BY <2>5, <2>6, <2>7 DEF LaneStep, LanesInv
<1>6. CASE c \notin ActiveCommands
  <2>1. state' = st /\ queue' = queue /\ active' = active /\ maxConcurrent' = maxConcurrent
    BY <1>6 DEF CompleteTask
  <2>2. a = active
    BY <1>1, <1>6 DEF LanesOK, ActiveCommands
  <2> HIDE DEF st, a
  <2>3. LanesOK(state', queue', active', maxConcurrent')
    BY <1>4, <2>1, <2>2
  <2>4. Numbered'
    BY <1>1, <1>2, <1>3, <2>1 DEF Numbered
  <2>5. NoStall' /\ StartsRight
    BY <2>1 DEF NoStall, StartsRight
  <2>6. QED
    BY <2>3, <2>4, <2>5 DEF LaneStep, LanesInv
<1>7. QED
  BY <1>5, <1>6

LEMMA SetCommandLaneConcurrencyLanes ==
  ASSUME LanesInv, NoStall, NEW l \in Lanes, NEW n \in 1..MaxConcurrency,
         SetCommandLaneConcurrency(l, n)
  PROVE  LaneStep
<1> DEFINE m == [maxConcurrent EXCEPT ![l] = n]
<1>1. LanesOK(state, queue, active, maxConcurrent) /\ Numbered
  BY DEF LanesInv
<1>2. Pumped({l}, state, queue, active, m)
  BY DEF SetCommandLaneConcurrency
<1>3. m \in [Lanes -> 1..MaxConcurrency] /\ \A k \in Lanes \ {l} : m[k] = maxConcurrent[k]
  BY <1>1 DEF LanesOK
<1> HIDE DEF m
<1>4. LanesOK(state, queue, active, m)
  BY <1>1, <1>3 DEF LanesOK
<1>5. LanesOK(state', queue', active', maxConcurrent') /\ \A d \in Commands : (state'[d] = "new") <=> (state[d] = "new")
  BY <1>2, <1>4, PumpedLanes
<1>6. NoStall' /\ StartsRight
  BY <1>2, <1>3, <1>4, PumpStep
<1>7. Numbered'
  BY <1>1, <1>5 DEF Numbered
<1>8. QED
  BY <1>5, <1>6, <1>7 DEF LaneStep, LanesInv

LEMMA ClearCommandLaneLanes ==
  ASSUME LanesInv, NoStall, NEW l \in Lanes, ClearCommandLane(l)
  PROVE  LaneStep
<1>1. LanesOK(state, queue, active, maxConcurrent) /\ Numbered
  BY DEF LanesInv
<1>2. /\ queue' = [queue EXCEPT ![l] = <<>>]
      /\ state' = [c \in Commands |-> IF c \in Waits(queue[l]) THEN "cleared" ELSE state[c]]
      /\ active' = active /\ maxConcurrent' = maxConcurrent
  BY WaitingWaits DEF ClearCommandLane
<1>3. \A k \in Lanes : queue'[k] = IF k = l THEN <<>> ELSE queue[k]
  BY <1>1, <1>2 DEF LanesOK
<1>4. \A k \in Lanes : Waits(queue[k]) \subseteq Commands
  BY <1>1 DEF LanesOK, Waits
<1>5. \A k \in Lanes : Waits(queue'[k]) = IF k = l THEN {} ELSE Waits(queue[k])
  BY <1>3 DEF Waits
<1>6. LanesOK(state', queue', active', maxConcurrent')
  <2>1. state' \in [Commands -> States]
    BY <1>1, <1>2 DEF LanesOK, States
  <2>2. queue' \in [Lanes -> Seq(Commands)]
    BY <1>1, <1>2 DEF LanesOK
  <2>3. \A k \in Lanes : Increasing(queue'[k])
    BY <1>1, <1>3 DEF LanesOK, Increasing
  <2>4. \A k \in Lanes : \A d \in Waits(queue'[k]) : state'[d] = "queued"
    <3> SUFFICES ASSUME NEW k \in Lanes, NEW d \in Waits(queue'[k])
                 PROVE  state'[d] = "queued"
      OBVIOUS
    <3>1. k # l /\ d \in Waits(queue[k]) /\ d \in Commands
      BY <1>4, <1>5
    <3>2. d \notin Waits(queue[l]) /\ state[d] = "queued"
      BY <1>1, <3>1 DEF LanesOK
    <3>3. QED
      BY <1>2, <3>1, <3>2
  <2>5. \A k, j \in Lanes : k # j => Waits(queue'[k]) \cap Waits(queue'[j]) = {}
    BY <1>1, <1>5 DEF LanesOK
  <2>6. \A d \in Commands : state'[d] = "queued" => \E k \in Lanes : d \in Waits(queue'[k])
    BY <1>1, <1>2, <1>5 DEF LanesOK
  <2>7. \A k \in Lanes : \A d \in active'[k] : state'[d] = "running"
    <3> SUFFICES ASSUME NEW k \in Lanes, NEW d \in active[k]
                 PROVE  state'[d] = "running"
      BY <1>2
    <3>1. d \in Commands /\ state[d] = "running"
      BY <1>1 DEF LanesOK
    <3>2. d \notin Waits(queue[l])
      BY <1>1, <3>1 DEF LanesOK
    <3>3. QED
      BY <1>2, <3>1, <3>2
  <2>8. QED
    BY <1>1, <1>2, <2>1, <2>2, <2>3, <2>4, <2>5, <2>6, <2>7 DEF LanesOK
<1>7. Numbered'
  <2>1. \A d \in Commands : (state'[d] = "new") <=> (state[d] = "new")
    BY <1>1, <1>2 DEF LanesOK
  <2>2. QED
    BY <1>1, <2>1 DEF Numbered
<1>8. NoStall' /\ StartsRight
  BY <1>2, <1>3 DEF NoStall, StartsRight
<1>9. QED
  BY <1>6, <1>7, <1>8 DEF LaneStep, LanesInv

LEMMA ResetAllLanesLanes ==
  ASSUME LanesInv, NoStall, ResetAllLanes
  PROVE  LaneStep
<1> DEFINE a == [l \in Lanes |-> {}]
<1>1. LanesOK(state, queue, active, maxConcurrent) /\ Numbered
  BY DEF LanesInv
<1>2. Pumped(Lanes, state, queue, a, maxConcurrent)
  BY DEF ResetAllLanes
<1>3. a \in [Lanes -> SUBSET Commands] /\ \A l \in Lanes : a[l] = {}
  OBVIOUS
<1> HIDE DEF a
<1>4. LanesOK(state, queue, a, maxConcurrent)
  BY <1>1, <1>3 DEF LanesOK
<1>5. LanesOK(state', queue', active', maxConcurrent') /\ \A d \in Commands : (state'[d] = "new") <=> (state[d] = "new")
  BY <1>2, <1>4, PumpedLanes
<1>6. NoStall' /\ StartsRight
  BY <1>2, <1>3, <1>4, PumpStep
<1>7. Numbered'
  BY <1>1, <1>5 DEF Numbered
<1>8. QED
  BY <1>5, <1>6, <1>7 DEF LaneStep, LanesInv

-----------------------------------------------------------------------------
LEMMA LanesAtInit == QueueInit => LanesInv /\ NoStall
<1> SUFFICES ASSUME QueueInit
             PROVE  LanesInv /\ NoStall
  OBVIOUS
<1>1. \A l \in Lanes : queue[l] = <<>> /\ Waits(queue[l]) = {} /\ Increasing(queue[l]) /\ active[l] = {}
  BY DEF QueueInit, Waits, Increasing
<1>2. /\ state \in [Commands -> States]
      /\ queue \in [Lanes -> Seq(Commands)]
      /\ active \in [Lanes -> SUBSET Commands]
      /\ maxConcurrent \in [Lanes -> 1..MaxConcurrency]
  BY QueueAssumption DEF QueueInit, States
<1>3. \A c \in Commands : state[c] = "new"
  BY DEF QueueInit
<1>4. LanesOK(state, queue, active, maxConcurrent)
  BY <1>1, <1>2, <1>3 DEF LanesOK
<1>5. QED
  BY <1>1, <1>3, <1>4 DEF LanesInv, Numbered, NoStall

LEMMA UnchangedLanes ==
  ASSUME LanesInv, NoStall, UNCHANGED queueVars
  PROVE  LaneStep
BY DEF LanesInv, LanesOK, Numbered, NoStall, LaneStep, StartsRight, queueVars

LEMMA GatewayStepLanes ==
  ASSUME LanesInv, NoStall, [GatewayNext]_gatewayVars
  PROVE  LaneStep
<1>1. CASE UNCHANGED gatewayVars
  BY <1>1, UnchangedLanes DEF gatewayVars
<1>2. CASE StartOk \/ StartFails \/ RequestStop
  BY <1>2, UnchangedLanes DEF StartOk, StartFails, RequestStop
<1>3. CASE RequestRestart
  BY <1>3 DEF RequestRestart, LanesInv, LanesOK, Numbered, NoStall, LaneStep, StartsRight
<1>4. CASE DrainEnds \/ CloseEnds \/ ForceExit \/ ReleaseEnds \/ ReacquireEnds
  BY <1>4, UnchangedLanes DEF DrainEnds, CloseEnds, ForceExit, ReleaseEnds, ReacquireEnds
<1>5. CASE Resumes
  <2>1. UNCHANGED queueVars \/ ResetAllLanes
    BY <1>5 DEF Resumes
  <2>2. QED
    BY <2>1, UnchangedLanes, ResetAllLanesLanes
<1>6. CASE QueueNext
  BY <1>6, CompleteTaskLanes, EnqueueLanes, ClearCommandLaneLanes, SetCommandLaneConcurrencyLanes
     DEF QueueNext
<1>7. QED
  BY <1>1, <1>2, <1>3, <1>4, <1>5, <1>6 DEF GatewayNext, HandlerStep, HandlerGoesOn

\* The invariant of the lanes, for every behaviour of the gateway that drives them.
LEMMA LanesInvariant == GatewaySpec => [](LanesInv /\ NoStall)
<1>1. GatewayInit => LanesInv /\ NoStall
  BY LanesAtInit DEF GatewayInit
<1>2. LanesInv /\ NoStall /\ [GatewayNext]_gatewayVars => (LanesInv /\ NoStall)'
  BY GatewayStepLanes DEF LaneStep
<1>3. QED
  BY <1>1, <1>2, PTL DEF GatewaySpec

\* For any commands, lanes and limits: no lane stands still with work in it.  Whatever
\* settles, is cleared, is reconfigured or restarted, commands wait only behind a full
\* lane (drainLane and resetAllLanes of process/command-queue.ts).
THEOREM LanesNeverStall == GatewaySpec => []NoStall
BY LanesInvariant, PTL

\* For any commands and lanes: a lane starts commands in the order in which
\* they came, and never one above its limit, although the limit may drop below
\* what runs already (drainLane of process/command-queue.ts).
THEOREM LanesKeepOrder == GatewaySpec => LaneDiscipline
<1>1. LanesInv /\ NoStall /\ [GatewayNext]_gatewayVars => [StartsRight]_queueVars
  BY GatewayStepLanes DEF LaneStep
<1>2. GatewaySpec => [][StartsRight]_queueVars
  BY <1>1, LanesInvariant, PTL DEF GatewaySpec
<1>3. QED
  BY <1>2 DEF LaneDiscipline, StartsRight

\* The type invariant follows.
LEMMA LanesTyped == LanesInv => QueueTypeOK
<1> SUFFICES ASSUME LanesInv
             PROVE  QueueTypeOK
  OBVIOUS
<1>1. LanesOK(state, queue, active, maxConcurrent)
  BY DEF LanesInv
<1>2. ASSUME NEW l \in Lanes
      PROVE  queue[l] \in Seq(Commands) /\ Cardinality(Waiting(l)) = Len(queue[l])
  <2>1. queue[l] \in Seq(Commands) /\ Increasing(queue[l])
    BY <1>1 DEF LanesOK
  <2>2. Len(queue[l]) \in 0..Len(queue[l])
    BY <2>1
  <2>3. Cardinality(First(queue[l], Len(queue[l]))) = Len(queue[l])
    BY <2>1, <2>2, PrefixCounted
  <2>4. QED
    BY <2>1, <2>3 DEF First, Waiting
<1>3. \A l \in Lanes : Waiting(l) \subseteq Commands
  <2> TAKE l \in Lanes
  <2>1. queue[l] \in Seq(Commands)
    BY <1>2
  <2>2. QED
    BY <2>1 DEF Waiting
<1>4. In("queued") = UNION {Waiting(l) : l \in Lanes}
  <2>1. \A l \in Lanes : \A c \in Waiting(l) : state[c] = "queued"
    BY <1>1, WaitingWaits DEF LanesOK
  <2>2. \A c \in Commands : state[c] = "queued" => \E l \in Lanes : c \in Waiting(l)
    BY <1>1, WaitingWaits DEF LanesOK
  <2>3. QED
    BY <1>3, <2>1, <2>2 DEF In
<1>5. ActiveCommands \subseteq In("running")
  BY <1>1 DEF LanesOK, ActiveCommands, In
<1>6. QED
  BY <1>1, <1>2, <1>4, <1>5 DEF LanesOK, QueueTypeOK, States

\* The lanes are of their type: the queue of a lane holds no command twice, what waits is
\* queued somewhere, and what is active runs.
THEOREM QueueTyped == GatewaySpec => []QueueTypeOK
BY LanesTyped, LanesInvariant, PTL

-----------------------------------------------------------------------------
LoopTyped ==
  /\ loop \in {"starting", "waiting", "exited", "respawned"}
  /\ iteration \in Nat \ {0}
  /\ shutdown \in {"none", "drain", "close", "release", "reacquire", "resume"}

Locked == lock \/ "startFailed" \in upsets
OnlyServer == open = {server} \ {0}
NoServer == server = 0 /\ open = {}

\* Where the loop and its handler are, as long as no signal came during a start.
InStep ==
  /\ shutdown \in {"drain", "reacquire", "resume"} => restart
  /\ loop = "waiting" => resolver = iteration
  /\ restart /\ shutdown # "none" => loop = "waiting"
  /\ loop = "starting" /\ shutdown = "none" => NoServer /\ ~gatewayDraining /\ Locked
  /\ loop = "waiting" /\ shutdown = "none" => OnlyServer /\ ~gatewayDraining /\ Locked
  /\ shutdown = "drain" => OnlyServer /\ Locked
  /\ shutdown = "close" /\ restart => OnlyServer /\ target = server /\ Locked
  /\ shutdown = "release" /\ restart => NoServer /\ Locked
  /\ shutdown = "reacquire" => NoServer
  /\ shutdown = "resume" => NoServer /\ Locked

LoopInv == LoopTyped /\ (Alive /\ "early" \notin upsets => InStep)

\* What a drain, and the restart after it, has let go of.
DrainInv ==
  /\ shutdown = "drain" =>
       /\ gatewayDraining
       /\ In("queued") \subseteq atRisk
       /\ In("running") \subseteq atRisk \cup awaited
       /\ awaited \cap In("running") \subseteq ActiveCommands
  /\ Alive /\ shutdown \in {"close", "release"} /\ restart /\ "timeout" \notin upsets =>
       gatewayDraining /\ In("running") \cup In("queued") \subseteq atRisk
  /\ RestartLoses

\* What an operation of the lanes leaves of a command: once it runs, or waits, it
\* did so before, and a command that has just been started is active.
Flows ==
  /\ In("queued")' \subseteq In("queued")
  /\ In("running")' \subseteq In("queued") \cup In("running")
  /\ In("running")' \cap In("queued") \subseteq ActiveCommands'
  /\ In("running")' \cap ActiveCommands \subseteq ActiveCommands'

LEMMA PumpFlows ==
  ASSUME NEW st, NEW q, NEW a, NEW m, LanesOK(st, q, a, m),
         NEW S \in SUBSET Lanes, Pumped(S, st, q, a, m),
         \A c \in Commands : st[c] = state[c] \/ st[c] = "settled",
         \A l \in Lanes : \A c \in active[l] : c \in a[l] \/ st[c] = "settled"
  PROVE  Flows
<1>1. \A c \in Commands :
        \/ state'[c] = st[c]
        \/ st[c] = "queued" /\ state'[c] = "running" /\ \E l \in Lanes : c \in active'[l]
  BY PumpedLanes
<1>2. \A l \in Lanes : a[l] \subseteq active'[l]
  BY PumpedLanes
<1>3. In("queued")' \subseteq In("queued")
  BY <1>1 DEF In
<1>4. In("running")' \subseteq In("queued") \cup In("running")
  BY <1>1 DEF In
<1>5. In("running")' \cap In("queued") \subseteq ActiveCommands'
  BY <1>1 DEF In, ActiveCommands
<1>6. In("running")' \cap ActiveCommands \subseteq ActiveCommands'
  <2> SUFFICES ASSUME NEW c \in Commands, state'[c] = "running", NEW l \in Lanes, c \in active[l]
               PROVE  c \in ActiveCommands'
    BY DEF In, ActiveCommands
  <2>1. CASE c \in a[l]
    BY <1>2, <2>1 DEF ActiveCommands
  <2>2. CASE st[c] = "settled"
    BY <1>1, <2>2
  <2>3. QED
    BY <2>1, <2>2
<1>7. QED
  BY <1>3, <1>4, <1>5, <1>6 DEF Flows

LEMMA QueueFlows ==
  ASSUME LanesInv, gatewayDraining, QueueNext
  PROVE  Flows /\ gatewayDraining'
<1>1. LanesOK(state, queue, active, maxConcurrent)
  BY DEF LanesInv
<1>2. ASSUME NEW c \in Commands, CompleteTask(c)
      PROVE  Flows
  <2> DEFINE st == [state EXCEPT ![c] = "settled"]
             a == [l \in Lanes |-> active[l] \ {c}]
             S == {l \in Lanes : c \in active[l]}
  <2>1. \A d \in Commands : st[d] = IF d = c THEN "settled" ELSE state[d]
    BY <1>1 DEF LanesOK
  <2>2. CASE c \in ActiveCommands
    <3>1. Pumped(S, st, queue, a, maxConcurrent)
      BY <1>2, <2>2 DEF CompleteTask
    <3>2. LanesOK(st, queue, a, maxConcurrent)
      BY <1>2, CompleteOK
    <3>3. \A l \in Lanes : \A d \in active[l] : d \in a[l] \/ st[d] = "settled"
      BY <1>1, <2>1 DEF LanesOK
    <3> HIDE DEF st, a, S
    <3>4. S \in SUBSET Lanes
      BY DEF S
    <3>5. QED
      BY <2>1, <3>1, <3>2, <3>3, <3>4, PumpFlows
  <2>3. CASE c \notin ActiveCommands
    <3>1. state' = st /\ active' = active
      BY <1>2, <2>3 DEF CompleteTask
    <3> HIDE DEF st
    <3>2. state[c] = "running" /\ ActiveCommands' = ActiveCommands
      BY <1>2, <3>1 DEF CompleteTask, ActiveCommands
    <3>3. QED
      BY <2>1, <3>1, <3>2 DEF Flows, In
  <2>4. QED
    BY <2>2, <2>3
<1>3. ASSUME NEW c \in Commands, NEW l \in Lanes, Enqueue(c, l)
      PROVE  Flows
  <2>1. state' = [state EXCEPT ![c] = "refused"] /\ active' = active
    BY <1>3 DEF Enqueue
  <2>2. \A d \in Commands : state'[d] = IF d = c THEN "refused" ELSE state[d]
    BY <1>1, <2>1 DEF LanesOK
  <2>3. QED
    BY <2>1, <2>2 DEF Flows, In, ActiveCommands
<1>4. ASSUME NEW l \in Lanes, ClearCommandLane(l)
      PROVE  Flows
  <2>1. /\ state' = [c \in Commands |-> IF c \in Waiting(l) THEN "cleared" ELSE state[c]]
        /\ active' = active
    BY <1>4 DEF ClearCommandLane
  <2>2. \A c \in Commands : state'[c] = IF c \in Waiting(l) THEN "cleared" ELSE state[c]
    BY <2>1
  <2>3. \A c \in Waiting(l) \cap Commands : state[c] = "queued"
    BY <1>1, WaitingWaits DEF LanesOK
  <2>4. QED
    BY <2>1, <2>2, <2>3 DEF Flows, In, ActiveCommands
<1>5. ASSUME NEW l \in Lanes, NEW n \in 1..MaxConcurrency, SetCommandLaneConcurrency(l, n)
      PROVE  Flows
  <2> DEFINE m == [maxConcurrent EXCEPT ![l] = n]
  <2>1. Pumped({l}, state, queue, active, m)
    BY <1>5 DEF SetCommandLaneConcurrency
  <2>2. LanesOK(state, queue, active, m)
    BY <1>1 DEF LanesOK
  <2> HIDE DEF m
  <2>3. QED
    BY <2>1, <2>2, PumpFlows
<1>6. gatewayDraining'
  BY DEF QueueNext, CompleteTask, Enqueue, ClearCommandLane, SetCommandLaneConcurrency
<1>7. QED
  BY <1>2, <1>3, <1>4, <1>5, <1>6 DEF QueueNext

-----------------------------------------------------------------------------
LEMMA LoopAtInit == GatewayInit => LoopInv /\ DrainInv
BY DEF GatewayInit, QueueInit, LoopInv, LoopTyped, InStep, Locked, OnlyServer, NoServer, Alive,
       DrainInv, RestartLoses

LEMMA LoopStep ==
  ASSUME LoopInv, [GatewayNext]_gatewayVars
  PROVE  LoopInv'
<1> USE DEF LoopInv, LoopTyped, InStep, Locked, OnlyServer, NoServer, Alive
<1>1. CASE UNCHANGED gatewayVars
  BY <1>1 DEF gatewayVars, queueVars, loopVars, handlerVars
<1>2. CASE StartOk
  BY <1>2 DEF StartOk, queueVars, handlerVars
<1>3. CASE StartFails
  BY <1>3 DEF StartFails, queueVars, handlerVars
<1>4. CASE RequestStop
  BY <1>4 DEF RequestStop, queueVars
<1>5. CASE RequestRestart
  BY <1>5 DEF RequestRestart
<1>6. CASE DrainEnds
  BY <1>6 DEF DrainEnds, queueVars
<1>7. CASE CloseEnds
  BY <1>7 DEF CloseEnds, queueVars
<1>8. CASE ForceExit
  BY <1>8 DEF ForceExit, queueVars, handlerVars
<1>9. CASE ReleaseEnds
  BY <1>9 DEF ReleaseEnds, queueVars
<1>10. CASE ReacquireEnds
  BY <1>10 DEF ReacquireEnds, queueVars
<1>11. CASE Resumes
  BY <1>11 DEF Resumes, ResetAllLanes, queueVars
<1>12. CASE QueueNext /\ UNCHANGED loopVars
  <2>1. gatewayDraining' = gatewayDraining
    BY <1>12 DEF QueueNext, CompleteTask, Enqueue, ClearCommandLane, SetCommandLaneConcurrency
  <2>2. QED
    BY <1>12, <2>1 DEF loopVars, handlerVars
<1>13. QED
  BY <1>1, <1>2, <1>3, <1>4, <1>5, <1>6, <1>7, <1>8, <1>9, <1>10, <1>11, <1>12
     DEF GatewayNext, HandlerStep, HandlerGoesOn

\* For any commands, lanes and signals: a gateway that serves and has nothing
\* to do with a shutdown takes commands, has one server and holds the lock,
\* unless a signal came during a start or a start failed (cli/gateway-cli/run-
\* loop.ts).
THEOREM ServesAfterRestarts == GatewaySpec => []ServesProperly
<1>1. GatewayInit => LoopInv
  BY LoopAtInit
<1>2. LoopInv /\ [GatewayNext]_gatewayVars => LoopInv'
  BY LoopStep
<1>3. LoopInv => ServesProperly
  BY DEF LoopInv, LoopTyped, InStep, Alive, OnlyServer, NoServer, Locked, ServesProperly
<1>4. QED
  BY <1>1, <1>2, <1>3, PTL DEF GatewaySpec

LEMMA DrainStep ==
  ASSUME LanesInv, DrainInv, [GatewayNext]_gatewayVars
  PROVE  DrainInv'
<1> USE DEF DrainInv, RestartLoses, Alive
<1>1. CASE UNCHANGED gatewayVars
  BY <1>1 DEF gatewayVars, queueVars, loopVars, handlerVars, In, ActiveCommands
<1>2. CASE StartOk
  BY <1>2 DEF StartOk, queueVars, handlerVars, In, ActiveCommands
<1>3. CASE StartFails
  BY <1>3 DEF StartFails, queueVars, handlerVars, In, ActiveCommands
<1>4. CASE RequestStop
  BY <1>4 DEF RequestStop, queueVars, In, ActiveCommands
<1>5. CASE RequestRestart
  BY <1>5 DEF RequestRestart, In, ActiveCommands
<1>6. CASE DrainEnds
  <2>1. UNCHANGED <<In("queued"), In("running"), ActiveCommands, gatewayDraining>>
    BY <1>6 DEF DrainEnds, queueVars, In, ActiveCommands
  <2>2. QED
    BY <1>6, <2>1 DEF DrainEnds, WaitForActiveTasks
<1>7. CASE CloseEnds
  BY <1>7 DEF CloseEnds, queueVars, In, ActiveCommands
<1>8. CASE ForceExit
  BY <1>8 DEF ForceExit, queueVars, handlerVars, In, ActiveCommands
<1>9. CASE ReleaseEnds
  BY <1>9 DEF ReleaseEnds, queueVars, In, ActiveCommands
<1>10. CASE ReacquireEnds
  BY <1>10 DEF ReacquireEnds, queueVars, In, ActiveCommands
<1>11. CASE Resumes
  BY <1>11 DEF Resumes
<1>12. CASE Alive /\ QueueNext /\ UNCHANGED loopVars
  <2>1. UNCHANGED <<loop, shutdown, restart, awaited, upsets, atRisk>>
    BY <1>12 DEF loopVars, handlerVars
  <2>2. gatewayDraining => Flows /\ gatewayDraining'
    BY <1>12, QueueFlows
  <2>3. QED
    BY <1>12, <2>1, <2>2 DEF Flows
<1>13. QED
  BY <1>1, <1>2, <1>3, <1>4, <1>5, <1>6, <1>7, <1>8, <1>9, <1>10, <1>11, <1>12
     DEF GatewayNext, HandlerStep, HandlerGoesOn

\* For any commands, lanes and signals: a restart with a fresh process, if the
\* drain had time enough, takes nothing with it that ran when the signal came;
\* it loses only what waited in a lane and what an earlier restart had
\* abandoned (waitForActiveTasks, run-loop.ts 120-150).
THEOREM RestartLosesOnlyWaiting == GatewaySpec => []RestartLoses
<1>1. GatewayInit => DrainInv
  BY LoopAtInit
<1>2. LanesInv /\ DrainInv /\ [GatewayNext]_gatewayVars => DrainInv'
  BY DrainStep
<1>3. DrainInv => RestartLoses
  BY DEF DrainInv
<1>4. QED
  BY <1>1, <1>2, <1>3, LanesInvariant, PTL DEF GatewaySpec
=============================================================================
