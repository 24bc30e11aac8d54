--------------------------- MODULE VectorStoreProofs ---------------------------
(***************************************************************************)
(* The statistics of the store follow its entries, for any set of terms,   *)
(* any number of entries and any number of faults.  The invariant counts   *)
(* what the operation under way has still to add (insert) or has already   *)
(* taken away (deleteById) as pending; the counters plus the pending part  *)
(* never exceed the entries and fall short of them by at most one for each *)
(* fault.                                                                  *)
(*                                                                         *)
(* And the JSON memory keeps what it was given.  The invariant MemInv says *)
(* of every document, in the file or in a process, that it holds each      *)
(* record once and none before its time; of an operation that is alone,    *)
(* what the document it is about to write will have; and of the files,     *)
(* while nobody is writing them, that they keep the records that returned, *)
(* in their order, the profile and the index.  A history keeps records     *)
(* when those it lacks are older than all it has and it is full; appending *)
(* to it drops the oldest, and ShiftKeeps says that this keeps the rest.   *)
(***************************************************************************)
EXTENDS VectorStore, ProfileMemory, FiniteSetTheorems, TLAPS

\* What the operation works on.
OpOK ==
  /\ op = Idle => todo = {}
  /\ op # Idle => op.id \in entries /\ todo \subseteq tokens[op.id]
  /\ op.kind = "erase" => todo = {}

PendingTerm(t) ==
  \/ op.kind = "insert" /\ t \in todo
  \/ op.kind = "delete" /\ t \in tokens[op.id] \ todo
  \/ op.kind = "erase" /\ t \in tokens[op.id]

Pending(t) == IF PendingTerm(t) THEN 1 ELSE 0
PendingCount == IF op.kind \in {"insert", "erase"} THEN 1 ELSE 0

InSync(counter, size) == counter <= size /\ size <= counter + faults

Lockstep ==
  /\ \A t \in Terms : InSync(docFreq[t] + Pending(t), Cardinality(Containing(t)))
  /\ InSync(docCount + PendingCount, Cardinality(entries))

IInv == TypeOK /\ OpOK /\ Lockstep

-----------------------------------------------------------------------------
\* The store is finite, and so is every selection of it.
LEMMA StoreFinite ==
  ASSUME TypeOK
  PROVE  /\ IsFiniteSet(entries)
         /\ Cardinality(entries) \in Nat
         /\ \A t : IsFiniteSet(Containing(t)) /\ Cardinality(Containing(t)) \in Nat
<1>1. lastId \in Int
  BY StoreAssumption DEF TypeOK
<1>2. IsFiniteSet(1..lastId)
  BY <1>1, FS_Interval
<1>3. IsFiniteSet(entries)
  BY <1>2, FS_Subset DEF TypeOK
<1>4. \A t : IsFiniteSet(Containing(t))
  BY <1>3, FS_Subset DEF Containing
<1>5. QED
  BY <1>3, <1>4, FS_CardinalityType

\* Every state is of its type.
LEMMA TypeStep == TypeOK /\ OpOK /\ [Next]_vars => TypeOK'
<1> SUFFICES ASSUME TypeOK, OpOK, [Next]_vars PROVE TypeOK'
  OBVIOUS
<1> USE StoreAssumption DEF TypeOK, Ids, Kinds, Idle, rows, stats
<1>1. ASSUME NEW ts \in SUBSET Terms, InsertRow(ts) PROVE TypeOK'
  BY <1>1 DEF InsertRow
<1>2. ASSUME NEW t \in Terms, UpsertTerm(t) PROVE TypeOK'
  BY <1>2 DEF UpsertTerm
<1>3. ASSUME NEW t \in Terms, DecrementTerm(t) PROVE TypeOK'
  BY <1>3 DEF DecrementTerm, Decremented
<1>4. CASE IncrementCount
  BY <1>4 DEF IncrementCount
<1>5. ASSUME NEW i \in Ids, ReadRow(i) PROVE TypeOK'
  BY <1>5 DEF ReadRow
<1>6. CASE DecrementCount
  BY <1>6 DEF DecrementCount, Decremented
<1>7. CASE DeleteRow
  BY <1>7 DEF DeleteRow
<1>8. CASE BreakOff
  BY <1>8 DEF BreakOff
<1>9. CASE UNCHANGED vars
  BY <1>9 DEF vars, ops
<1>10. QED
  BY <1>1, <1>2, <1>3, <1>4, <1>5, <1>6, <1>7, <1>8, <1>9 DEF Next

\* An operation works on an entry that is there, on terms of that entry.
LEMMA OpStep == TypeOK /\ OpOK /\ [Next]_vars => OpOK'
<1> SUFFICES ASSUME TypeOK, OpOK, [Next]_vars PROVE OpOK'
  OBVIOUS
<1> USE StoreAssumption DEF TypeOK, OpOK, Ids, Kinds, Idle, rows, stats
<1>1. ASSUME NEW ts \in SUBSET Terms, InsertRow(ts) PROVE OpOK'
  BY <1>1 DEF InsertRow
<1>2. ASSUME NEW t \in Terms, UpsertTerm(t) PROVE OpOK'
  BY <1>2 DEF UpsertTerm
<1>3. ASSUME NEW t \in Terms, DecrementTerm(t) PROVE OpOK'
  BY <1>3 DEF DecrementTerm
<1>4. CASE IncrementCount
  BY <1>4 DEF IncrementCount
<1>5. ASSUME NEW i \in Ids, ReadRow(i) PROVE OpOK'
  BY <1>5 DEF ReadRow
<1>6. CASE DecrementCount
  BY <1>6 DEF DecrementCount
<1>7. CASE DeleteRow
  BY <1>7 DEF DeleteRow
<1>8. CASE BreakOff
  BY <1>8 DEF BreakOff
<1>9. CASE UNCHANGED vars
  BY <1>9 DEF vars, ops
<1>10. QED
  BY <1>1, <1>2, <1>3, <1>4, <1>5, <1>6, <1>7, <1>8, <1>9 DEF Next

\* Statements that leave the rows alone leave the selections alone.
LEMMA SameRows ==
  ASSUME UNCHANGED rows
  PROVE  entries' = entries /\ \A t : Containing(t)' = Containing(t)
BY DEF rows, Containing

LEMMA InsertRowLockstep ==
  ASSUME IInv, NEW ts \in SUBSET Terms, InsertRow(ts)
  PROVE  Lockstep'
<1> DEFINE i == lastId + 1
<1>1. /\ i \notin entries /\ i \in Ids
      /\ \A j \in entries : j # i /\ tokens'[j] = tokens[j]
      /\ tokens'[i] = ts
      /\ entries' = entries \cup {i}
  BY StoreAssumption DEF IInv, TypeOK, InsertRow, Ids
<1>2. /\ \A t \in ts : Containing(t)' = Containing(t) \cup {i}
      /\ \A t \in Terms \ ts : Containing(t)' = Containing(t)
      /\ \A t : i \notin Containing(t)
  BY <1>1 DEF Containing
<1>3. /\ IsFiniteSet(entries)
      /\ \A t : IsFiniteSet(Containing(t))
      /\ \A t : Cardinality(Containing(t)) \in Nat
  BY StoreFinite DEF IInv
<1>4. Cardinality(entries') = Cardinality(entries) + 1
  BY <1>1, <1>3, FS_AddElement
<1>5. \A t \in ts : Cardinality(Containing(t)') = Cardinality(Containing(t)) + 1
  BY <1>2, <1>3, FS_AddElement
<1>6. \A t \in Terms : Pending(t) = 0 /\ Pending(t)' = IF t \in ts THEN 1 ELSE 0
  BY DEF Pending, PendingTerm, InsertRow, Idle
<1>7. PendingCount = 0 /\ PendingCount' = 1
  BY DEF PendingCount, InsertRow, Idle
<1>8. UNCHANGED <<docFreq, docCount, faults>>
  BY DEF InsertRow, stats
<1>9. docFreq \in [Terms -> Nat] /\ docCount \in Nat /\ faults \in Nat
  BY DEF IInv, TypeOK
<1>10. InSync(docCount + PendingCount, Cardinality(entries))'
  BY <1>3, <1>4, <1>7, <1>8, <1>9, FS_CardinalityType DEF IInv, Lockstep, InSync
<1>11. ASSUME NEW t \in Terms
       PROVE  InSync(docFreq[t] + Pending(t), Cardinality(Containing(t)))'
  <2>1. InSync(docFreq[t] + 0, Cardinality(Containing(t)))
    BY <1>6 DEF IInv, Lockstep
  <2>2. CASE t \in ts
    BY <1>3, <1>5, <1>6, <1>8, <1>9, <2>1, <2>2 DEF InSync
  <2>3. CASE t \notin ts
    BY <1>2, <1>3, <1>6, <1>8, <1>9, <2>1, <2>3 DEF InSync
  <2>4. QED
    BY <2>2, <2>3
<1>12. QED
  BY <1>10, <1>11 DEF Lockstep

LEMMA DeleteRowLockstep ==
  ASSUME IInv, DeleteRow
  PROVE  Lockstep'
<1> DEFINE i == op.id
<1>1. i \in entries /\ entries' = entries \ {i} /\ tokens' = tokens
  BY DEF IInv, OpOK, DeleteRow, Idle
<1>2. /\ \A t : Containing(t)' = Containing(t) \ {i}
      /\ \A t \in Terms : i \in Containing(t) <=> t \in tokens[i]
  BY <1>1 DEF Containing
<1>3. /\ IsFiniteSet(entries)
      /\ \A t : IsFiniteSet(Containing(t))
      /\ Cardinality(entries) \in Nat
      /\ \A t : Cardinality(Containing(t)) \in Nat
  BY StoreFinite DEF IInv
<1>4. Cardinality(entries') = Cardinality(entries) - 1
  BY <1>1, <1>3, FS_RemoveElement
<1>5. \A t \in Terms : Cardinality(Containing(t)') =
        IF t \in tokens[i] THEN Cardinality(Containing(t)) - 1
                           ELSE Cardinality(Containing(t))
  BY <1>2, <1>3, FS_RemoveElement
<1>6. \A t \in Terms : Pending(t)' = 0 /\ Pending(t) = IF t \in tokens[i] THEN 1 ELSE 0
  BY DEF Pending, PendingTerm, DeleteRow, Idle
<1>7. PendingCount = 1 /\ PendingCount' = 0
  BY DEF PendingCount, DeleteRow, Idle
<1>8. UNCHANGED <<docFreq, docCount, faults>>
  BY DEF DeleteRow, stats
<1>9. docFreq \in [Terms -> Nat] /\ docCount \in Nat /\ faults \in Nat
  BY DEF IInv, TypeOK
<1>10. InSync(docCount + PendingCount, Cardinality(entries))'
  BY <1>3, <1>4, <1>7, <1>8, <1>9 DEF IInv, Lockstep, InSync
<1>11. ASSUME NEW t \in Terms
       PROVE  InSync(docFreq[t] + Pending(t), Cardinality(Containing(t)))'
  <2>1. InSync(docFreq[t] + Pending(t), Cardinality(Containing(t)))
    BY DEF IInv, Lockstep
  <2>2. docFreq[t] \in Nat /\ Cardinality(Containing(t)) \in Nat
    BY <1>3, <1>9
  <2>3. CASE t \in tokens[i]
    BY <1>5, <1>6, <1>8, <1>9, <2>1, <2>2, <2>3 DEF InSync
  <2>4. CASE t \notin tokens[i]
    BY <1>5, <1>6, <1>8, <1>9, <2>1, <2>2, <2>4 DEF InSync
  <2>5. QED
    BY <2>3, <2>4
<1>12. QED
  BY <1>10, <1>11 DEF Lockstep

\* The statements that touch the statistics of one term.
LEMMA TermLockstep ==
  ASSUME IInv, NEW t \in Terms, UpsertTerm(t) \/ DecrementTerm(t)
  PROVE  Lockstep'
<1>1. entries' = entries /\ \A s : Containing(s)' = Containing(s)
  BY SameRows DEF UpsertTerm, DecrementTerm
<1>2. tokens' = tokens /\ op' = op /\ faults' = faults /\ docCount' = docCount
  BY DEF UpsertTerm, DecrementTerm, rows
<1>3. /\ docFreq \in [Terms -> Nat] /\ faults \in Nat
      /\ \A s : IsFiniteSet(Containing(s)) /\ Cardinality(Containing(s)) \in Nat
  BY StoreFinite DEF IInv, TypeOK
<1>4. InSync(docCount + PendingCount, Cardinality(entries))'
  BY <1>1, <1>2 DEF IInv, Lockstep, InSync, PendingCount
<1>5. ASSUME NEW s \in Terms, s # t
      PROVE  InSync(docFreq[s] + Pending(s), Cardinality(Containing(s)))'
  <2>1. docFreq'[s] = docFreq[s] /\ (s \in todo' <=> s \in todo)
    BY <1>3, <1>5 DEF UpsertTerm, DecrementTerm
  <2>2. Pending(s)' = Pending(s)
    BY <1>2, <2>1 DEF Pending, PendingTerm
  <2>3. QED
    BY <1>1, <1>2, <2>1, <2>2 DEF IInv, Lockstep, InSync
<1>6. InSync(docFreq[t] + Pending(t), Cardinality(Containing(t)))'
  <2>1. InSync(docFreq[t] + Pending(t), Cardinality(Containing(t)))
    BY DEF IInv, Lockstep
  <2>2. docFreq[t] \in Nat /\ Cardinality(Containing(t)) \in Nat
    BY <1>3
  <2>3. CASE UpsertTerm(t)
    <3>1. Pending(t) = 1 /\ Pending(t)' = 0 /\ docFreq'[t] = docFreq[t] + 1
      BY <1>2, <1>3, <2>3 DEF UpsertTerm, Pending, PendingTerm
    <3>2. QED
      BY <1>1, <1>2, <1>3, <2>1, <2>2, <3>1 DEF InSync
  <2>4. CASE DecrementTerm(t)
    <3>1. t \in tokens[op.id] /\ op.id \in entries
      BY <2>4 DEF IInv, OpOK, DecrementTerm, Idle
    <3>2. Pending(t) = 0 /\ Pending(t)' = 1 /\ docFreq'[t] = Decremented(docFreq[t])
      BY <1>2, <1>3, <2>4, <3>1 DEF DecrementTerm, Pending, PendingTerm
    <3>3. Cardinality(Containing(t)) # 0
      <4>1. Containing(t) # {}
        BY <3>1 DEF Containing
      <4>2. QED
        BY <1>3, <4>1, FS_EmptySet
    <3>4. QED
      BY <1>1, <1>2, <1>3, <2>1, <2>2, <3>2, <3>3 DEF InSync, Decremented
  <2>5. QED
    BY <2>3, <2>4
<1>7. QED
  BY <1>4, <1>5, <1>6 DEF Lockstep

\* The statements that touch the number of entries.
LEMMA CountLockstep ==
  ASSUME IInv, IncrementCount \/ DecrementCount
  PROVE  Lockstep'
<1>1. entries' = entries /\ \A s : Containing(s)' = Containing(s)
  BY SameRows DEF IncrementCount, DecrementCount
<1>2. tokens' = tokens /\ faults' = faults /\ docFreq' = docFreq
  BY DEF IncrementCount, DecrementCount, rows
<1>3. docCount \in Nat /\ faults \in Nat /\ Cardinality(entries) \in Nat
      /\ IsFiniteSet(entries)
  BY StoreFinite DEF IInv, TypeOK
<1>4. op \in {Idle} \cup [kind : Kinds, id : Ids]
  BY DEF IInv, TypeOK
<1>5. ASSUME NEW t \in Terms PROVE Pending(t)' = Pending(t)
  BY <1>2, <1>4 DEF IncrementCount, DecrementCount, Pending, PendingTerm, Idle
<1>6. InSync(docCount + PendingCount, Cardinality(entries))
  BY DEF IInv, Lockstep
<1>7. CASE IncrementCount
  <2>1. PendingCount = 1 /\ PendingCount' = 0 /\ docCount' = docCount + 1
    BY <1>7 DEF IncrementCount, PendingCount, Idle
  <2>2. QED
    BY <1>1, <1>2, <1>3, <1>5, <1>6, <2>1 DEF IInv, Lockstep, InSync
<1>8. CASE DecrementCount
  <2>1. op # Idle /\ op.id \in entries
    BY <1>8 DEF IInv, OpOK, DecrementCount, Idle
  <2>2. Cardinality(entries) # 0
    BY <1>3, <2>1, FS_EmptySet
  <2>3. PendingCount = 0 /\ PendingCount' = 1 /\ docCount' = Decremented(docCount)
    BY <1>4, <1>8, <2>1 DEF DecrementCount, PendingCount
  <2>4. QED
    BY <1>1, <1>2, <1>3, <1>5, <1>6, <2>2, <2>3 DEF IInv, Lockstep, InSync, Decremented
<1>9. QED
  BY <1>7, <1>8

LEMMA ReadRowLockstep ==
  ASSUME IInv, NEW i \in Ids, ReadRow(i)
  PROVE  Lockstep'
<1>1. entries' = entries /\ \A s : Containing(s)' = Containing(s)
  BY SameRows DEF ReadRow
<1>2. UNCHANGED <<docFreq, docCount, faults>>
  BY DEF ReadRow, stats
<1>3. \A t \in Terms : Pending(t) = 0 /\ Pending(t)' = 0
  BY DEF Pending, PendingTerm, ReadRow, Idle, rows
<1>4. PendingCount = 0 /\ PendingCount' = 0
  BY DEF PendingCount, ReadRow, Idle
<1>5. QED
  BY <1>1, <1>2, <1>3, <1>4 DEF IInv, Lockstep, InSync

\* Breaking off gives up at most one pending count, and is counted as a fault.
LEMMA BreakOffLockstep ==
  ASSUME IInv, BreakOff
  PROVE  Lockstep'
<1>1. entries' = entries /\ \A s : Containing(s)' = Containing(s)
  BY SameRows DEF BreakOff
<1>2. docFreq' = docFreq /\ docCount' = docCount /\ faults' = faults + 1
  BY DEF BreakOff, stats
<1>3. /\ docFreq \in [Terms -> Nat] /\ docCount \in Nat /\ faults \in Nat
      /\ Cardinality(entries) \in Nat
      /\ \A t : Cardinality(Containing(t)) \in Nat
  BY StoreFinite DEF IInv, TypeOK
<1>4. \A t \in Terms : Pending(t) \in {0, 1} /\ Pending(t)' = 0
  BY DEF Pending, PendingTerm, BreakOff, Idle
<1>5. PendingCount \in {0, 1} /\ PendingCount' = 0
  BY DEF PendingCount, BreakOff, Idle
<1>6. ASSUME NEW t \in Terms
      PROVE  InSync(docFreq[t] + Pending(t), Cardinality(Containing(t)))'
  <2>1. InSync(docFreq[t] + Pending(t), Cardinality(Containing(t)))
    BY DEF IInv, Lockstep
  <2>2. docFreq[t] \in Nat /\ Cardinality(Containing(t)) \in Nat
    BY <1>3
  <2>3. QED
    BY <1>1, <1>2, <1>3, <1>4, <2>1, <2>2 DEF InSync
<1>7. InSync(docCount + PendingCount, Cardinality(entries))'
  BY <1>1, <1>2, <1>3, <1>5 DEF IInv, Lockstep, InSync
<1>8. QED
  BY <1>6, <1>7 DEF Lockstep

LEMMA InitIInv == Init => IInv
<1> SUFFICES ASSUME Init PROVE IInv
  OBVIOUS
<1>1. TypeOK
  BY StoreAssumption DEF Init, TypeOK, Ids
<1>2. OpOK
  BY DEF Init, OpOK, Idle
<1>3. Cardinality(entries) = 0 /\ \A t : Cardinality(Containing(t)) = 0
  BY FS_EmptySet DEF Init, Containing
<1>4. PendingCount = 0 /\ \A t \in Terms : Pending(t) = 0
  BY DEF Init, Idle, PendingCount, Pending, PendingTerm
<1>5. Lockstep
  BY <1>3, <1>4 DEF Init, Lockstep, InSync
<1>6. QED
  BY <1>1, <1>2, <1>5 DEF IInv

LEMMA NextIInv == IInv /\ [Next]_vars => IInv'
<1> SUFFICES ASSUME IInv, [Next]_vars PROVE IInv'
  OBVIOUS
<1>1. TypeOK' /\ OpOK'
  BY TypeStep, OpStep DEF IInv
<1>2. Lockstep'
  <2>1. CASE UNCHANGED vars
    BY <2>1 DEF vars, rows, stats, ops, IInv, Lockstep, InSync, Containing, Pending,
                PendingTerm, PendingCount
  <2>2. CASE Next
    BY <2>2, InsertRowLockstep, DeleteRowLockstep, TermLockstep, CountLockstep,
       ReadRowLockstep, BreakOffLockstep DEF Next
  <2>3. QED
    BY <2>1, <2>2
<1>3. QED
  BY <1>1, <1>2 DEF IInv

LEMMA StoreInvariant == Spec => []IInv
BY InitIInv, NextIInv, PTL DEF Spec

\* Type correctness of the store for any terms and entries.
THEOREM StoreTyped == Spec => []TypeOK
<1>1. IInv => TypeOK
  BY DEF IInv
<1>2. QED
  BY <1>1, StoreInvariant, PTL

-----------------------------------------------------------------------------
\* Between operations nothing is pending.
LEMMA QuietPending ==
  ASSUME op = Idle
  PROVE  PendingCount = 0 /\ \A t \in Terms : Pending(t) = 0
BY DEF Idle, PendingCount, Pending, PendingTerm

\* Wherever an operation breaks off, the statistics never count an entry or a
\* term of an entry that is not there.
THEOREM StoreNeverOvercounts == Spec => []NeverOvercounts
<1>1. IInv => NeverOvercounts
  <2> SUFFICES ASSUME IInv PROVE NeverOvercounts
    OBVIOUS
  <2>1. docCount \in Nat /\ docFreq \in [Terms -> Nat] /\ Cardinality(entries) \in Nat
    BY StoreFinite DEF IInv, TypeOK
  <2>2. docCount <= Cardinality(entries)
    BY <2>1 DEF IInv, Lockstep, InSync, PendingCount
  <2>3. ASSUME NEW t \in Terms PROVE docFreq[t] <= Cardinality(Containing(t))
    <3>1. docFreq[t] \in Nat /\ Cardinality(Containing(t)) \in Nat
      BY <2>1, StoreFinite DEF IInv
    <3>2. docFreq[t] + Pending(t) <= Cardinality(Containing(t)) /\ Pending(t) \in {0, 1}
      BY DEF IInv, Lockstep, InSync, Pending
    <3>3. QED
      BY <3>1, <3>2
  <2>4. QED
    BY <2>2, <2>3 DEF NeverOvercounts
<1>2. QED
  BY <1>1, StoreInvariant, PTL

\* Between operations the statistics fall short of the entries by at most one
\* for each operation that broke off, retried or not.
THEOREM StoreDriftBounded == Spec => []DriftBounded
<1>1. IInv => DriftBounded
  <2> SUFFICES ASSUME IInv, op = Idle
               PROVE  /\ \A t \in Terms : Cardinality(Containing(t)) <= docFreq[t] + faults
                      /\ Cardinality(entries) <= docCount + faults
    BY DEF DriftBounded, Quiescent
  <2>1. docCount \in Nat /\ docFreq \in [Terms -> Nat]
    BY DEF IInv, TypeOK
  <2>2. QED
    BY <2>1, QuietPending DEF IInv, Lockstep, InSync
<1>2. QED
  BY <1>1, StoreInvariant, PTL

\* As long as no operation broke off, the statistics between operations are
\* exactly those of the entries.
THEOREM StoreStatsExact == Spec => []StatsExact
<1>1. IInv => StatsExact
  <2> SUFFICES ASSUME IInv, op = Idle, faults = 0
               PROVE  /\ \A t \in Terms : docFreq[t] = Cardinality(Containing(t))
                      /\ docCount = Cardinality(entries)
    BY DEF StatsExact, Quiescent
  <2>1. docCount \in Nat /\ docFreq \in [Terms -> Nat]
    BY DEF IInv, TypeOK
  <2>2. /\ Cardinality(entries) \in Nat
        /\ \A t : Cardinality(Containing(t)) \in Nat
    BY StoreFinite DEF IInv
  <2>3. docCount = Cardinality(entries)
    BY <2>1, <2>2, QuietPending DEF IInv, Lockstep, InSync
  <2>4. ASSUME NEW t \in Terms PROVE docFreq[t] = Cardinality(Containing(t))
    <3>1. docFreq[t] \in Nat /\ Cardinality(Containing(t)) \in Nat
      BY <2>1, <2>2
    <3>2. InSync(docFreq[t] + 0, Cardinality(Containing(t)))
      BY QuietPending DEF IInv, Lockstep
    <3>3. QED
      BY <3>1, <3>2 DEF InSync
  <2>5. QED
    BY <2>3, <2>4
<1>2. QED
  BY <1>1, StoreInvariant, PTL

\* The three together, for any terms, entries and break-offs.
THEOREM StoreStatsSound == Spec => []StatsSound
<1>1. NeverOvercounts /\ DriftBounded /\ StatsExact => StatsSound
  BY DEF StatsSound
<1>2. QED
  BY <1>1, StoreNeverOvercounts, StoreDriftBounded, StoreStatsExact, PTL

\* With exact statistics a search for a distinguishing term, in any category, has a
\* full result or every entry with the term among the rows that are read.
THEOREM StoreFindsDistinctive == Spec => []DistinctiveTermFound
<1>1. IInv /\ StatsExact => DistinctiveTermFound
  <2> SUFFICES ASSUME IInv, StatsExact, op = Idle, faults = 0,
                      NEW t \in Terms, NEW C \in SUBSET entries, Containing(t) # entries,
                      NEW found \in search({t}, C), Cardinality(found) # ResultLimit
               PROVE  Scanned(C) \cap Containing(t) \subseteq found
    BY DEF DistinctiveTermFound, Quiescent
  <2>1. docFreq[t] = Cardinality(Containing(t)) /\ docCount = Cardinality(entries)
    BY DEF StatsExact, Quiescent
  <2>2. IsFiniteSet(entries) /\ Cardinality(entries) \in Nat
        /\ Cardinality(Containing(t)) \in Nat
    BY StoreFinite DEF IInv
  <2>3. Containing(t) \subseteq entries
    BY DEF Containing
  <2>4. Cardinality(Containing(t)) < Cardinality(entries)
    BY <2>2, <2>3, FS_Subset
  <2>5. Weighed(t)
    BY <2>1, <2>2, <2>4 DEF Weighed
  <2>6. Scanned(C) \cap Containing(t) \subseteq Matching({t}, C)
    BY <2>5 DEF Matching, Containing
  <2>7. found = Matching({t}, C)
    BY DEF search
  <2>8. QED
    BY <2>6, <2>7
<1>2. QED
  BY <1>1, StoreInvariant, StoreStatsExact, PTL

-----------------------------------------------------------------------------
(* The JSON memory *)

Docs == [text : {"json", "absent", "empty", "torn"},
         profile : Pages \cup {CloudProfile, NoProfile},
         conversations : Seq(Records)]

\* The records whose entry was put into a document.
Recorded == {o \in Records : at[o] \notin {"new", "load", "loaded"}}

Once(c) == \A j, k \in 1..Len(c) : c[j] = c[k] => j = k

\* What holds of every document, wherever it is, with R recorded: one that does not
\* parse is empty, and a record is in it once, and only after it was put there.
DocOK(d, R) ==
  /\ d \in Docs
  /\ d.text # "json" => d.conversations = <<>> /\ d.profile = NoProfile
  /\ Len(d.conversations) <= MaxHistory
  /\ Once(d.conversations)
  /\ \A j \in 1..Len(d.conversations) : d.conversations[j] \in R

DailyStages == {"readDaily", "openDaily", "writeDaily", "rereadDaily", "indexDaily"}
Stages == {"new", "load", "loaded", "mkdir", "open", "write", "markdown", "done", "dead"} \cup DailyStages

Written ==
  /\ at \in [Operations -> Stages]
  /\ \A o \in Operations : at[o] \in DailyStages => o \in Records
  /\ data \in [Pages \cup {"mem"} -> Docs] /\ held \in [Operations -> Docs]
  /\ seen \in [Operations -> SUBSET Records] /\ daily \subseteq Records
  /\ DocOK(userJson, Recorded)
  /\ \A x \in Pages \cup {"mem"} : DocOK(data[x], Recorded)
  /\ \A o \in Operations : DocOK(held[o], Recorded)

\* The records that returned, in this order.
Returned ==
  /\ finished \in Seq(Records) /\ Once(finished)
  /\ \A i \in 1..Len(finished) : at[finished[i]] = "done"
  /\ userJson.text = "absent" \/ "json" \notin intact => finished = <<>>

Exclusion ==
  /\ alone \in BOOLEAN
  /\ alone => \A o, p \in Operations : InFlight(o) /\ InFlight(p) => o = p
  /\ ~alone => intact = {}

\* The conversations c hold the last of the records f, in their order.
Has(c, r) == \E j \in 1..Len(c) : c[j] = r
Keeps(c, f) ==
  /\ \A i \in 1..Len(f) : Has(c, f[i]) \/ (Len(c) = MaxHistory /\ \A h \in 1..i : ~Has(c, f[h]))
  /\ \A j, k \in 1..Len(c), a, b \in 1..Len(f) : c[j] = f[a] /\ c[k] = f[b] /\ j < k => a < b

Sound(d) ==
  /\ d.text \in {"json", "absent"}
  /\ Keeps(d.conversations, finished)
  /\ d.profile = profile

\* The document operation o is about to write.
WillHave(o) == IF o \in Records THEN Append(finished, o) ELSE finished
Upcoming(o, d) ==
  /\ d.text = "json"
  /\ Keeps(d.conversations, WillHave(o))
  /\ "json" \in intact => d.profile = IF o \in Pages THEN o ELSE profile

\* The operation that is alone, at the await it has come to.
JsonStage(o) ==
  /\ at[o] = "loaded" => held[o] = userJson
  /\ at[o] \in DailyStages \cup {"mkdir"} =>
       Upcoming(o, data[ObjectOf(o)])
  /\ at[o] \in {"open", "write"} => Upcoming(o, held[o])
  /\ at[o] = "write" => userJson.text = "empty"
  /\ at[o] = "markdown" =>
       /\ userJson.text = "json" /\ Keeps(userJson.conversations, WillHave(o))
       /\ "json" \in intact => userJson.profile = profile

DailyStage(o) ==
  /\ at[o] = "writeDaily" => daily = {}
  /\ at[o] = "rereadDaily" => daily # {}
  /\ at[o] = "indexDaily" => daily # {} /\ seen[o] = daily
  /\ o \in Records /\ at[o] \in {"mkdir", "open", "write", "markdown"} => dailyIndex = daily

\* The files, but for the one that is being written.
JsonRests == \A o \in Operations : at[o] \notin {"write", "markdown"}
DailyRests == \A o \in Operations : at[o] \notin {"writeDaily", "rereadDaily", "indexDaily"}
Booting == at["boot"] \in {"load", "loaded"}

JsonSound == alone /\ "json" \in intact /\ JsonRests => Sound(userJson)
DailySound == alone /\ "daily" \in intact /\ DailyRests => dailyIndex = daily \/ (Booting /\ daily # {})

MemInv ==
  /\ Written /\ Returned /\ Exclusion /\ JsonSound /\ DailySound
  /\ alone => \A o \in Operations : JsonStage(o) /\ DailyStage(o)

-----------------------------------------------------------------------------
(* Conversations *)

LEMMA DocGrows ==
  ASSUME NEW d, NEW R, NEW S, DocOK(d, R), R \subseteq S
  PROVE  DocOK(d, S)
BY DEF DocOK

LEMMA EmptyDocs ==
  ASSUME NEW t \in {"json", "absent", "empty", "torn"}, NEW p \in Pages \cup {CloudProfile, NoProfile}, NEW R
  PROVE  /\ EMPTY.text = "json" /\ EMPTY.conversations = <<>> /\ EMPTY.profile = NoProfile
         /\ DocOK(EMPTY, R)
         /\ Unreadable(t).text = t /\ DocOK(Unreadable(t), R)
         /\ [EMPTY EXCEPT !.profile = p].text = "json" /\ [EMPTY EXCEPT !.profile = p].profile = p
         /\ [EMPTY EXCEPT !.profile = p].conversations = <<>>
         /\ DocOK([EMPTY EXCEPT !.profile = p], R)
<1>1. /\ EMPTY = [text |-> "json", profile |-> NoProfile, conversations |-> <<>>]
      /\ Unreadable(t) = [text |-> t, profile |-> NoProfile, conversations |-> <<>>]
      /\ [EMPTY EXCEPT !.profile = p] = [text |-> "json", profile |-> p, conversations |-> <<>>]
  BY DEF EMPTY, Unreadable
<1>2. ASSUME NEW u \in {"json", "absent", "empty", "torn"}, NEW q \in Pages \cup {CloudProfile, NoProfile},
             u # "json" => q = NoProfile
      PROVE  DocOK([text |-> u, profile |-> q, conversations |-> <<>>], R)
  <2>1. [text |-> u, profile |-> q, conversations |-> <<>>] \in Docs
    BY DEF Docs
  <2>2. Len(<<>>) = 0 /\ Once(<<>>) /\ \A k \in 1..Len(<<>>) : <<>>[k] \in R
    BY DEF Once
  <2>3. Len(<<>>) <= MaxHistory
    BY <2>2, ProfileMemoryAssumption
  <2>4. QED
    BY <1>2, <2>1, <2>2, <2>3 DEF DocOK
<1>3. QED
  BY <1>1, <1>2

\* d is c with o at its end and without its first s entries; F is f with o at its end.
Shifts(c, d, o, s) ==
  /\ Len(c) \in Nat /\ Len(d) \in Nat /\ s \in {0, 1}
  /\ s = 1 <=> Len(c) = MaxHistory
  /\ Len(d) = Len(c) + 1 - s /\ Len(d) <= MaxHistory
  /\ d[Len(d)] = o
  /\ \A j \in 1..Len(d) : j # Len(d) => d[j] = c[j + s]

Grows(f, F, o) ==
  /\ Len(f) \in Nat /\ Len(F) = Len(f) + 1
  /\ F[Len(F)] = o
  /\ \A i \in 1..Len(f) : F[i] = f[i]

\* Appending an entry to a full history drops the oldest one.
LEMMA Appended ==
  ASSUME NEW c \in Seq(Records), Len(c) <= MaxHistory, NEW o \in Records
  PROVE  \E d, s : d = KeepLast(Append(c, o)) /\ d \in Seq(Records) /\ Shifts(c, d, o, s)
<1>0. PICK e : e = Append(c, o)
  OBVIOUS
<1>1. e \in Seq(Records) /\ Len(e) = Len(c) + 1 /\ Len(c) \in Nat /\ MaxHistory \in Nat \ {0}
      /\ \A j \in 1..Len(e) : e[j] = IF j = Len(e) THEN o ELSE c[j]
  BY <1>0, ProfileMemoryAssumption
<1>2. CASE Len(c) = MaxHistory
  <2>1. PICK d : d = SubSeq(e, 2, Len(e))
    OBVIOUS
  <2>2. KeepLast(e) = d
    <3>1. Len(e) > MaxHistory /\ Len(e) - MaxHistory + 1 = 2
      BY <1>1, <1>2
    <3>2. QED
      BY <2>1, <3>1 DEF KeepLast
  <2>3. d \in Seq(Records) /\ Len(d) = Len(c) /\ \A j \in 1..Len(c) : d[j] = e[j + 1]
    BY <1>1, <1>2, <2>1
  <2>4. d[Len(d)] = o /\ \A j \in 1..Len(d) : j # Len(d) => d[j] = c[j + 1]
    BY <1>1, <1>2, <2>3
  <2>5. Shifts(c, d, o, 1)
    BY <1>1, <1>2, <2>3, <2>4 DEF Shifts
  <2>6. QED
    BY <1>0, <2>2, <2>3, <2>5
<1>3. CASE Len(c) # MaxHistory
  <2>1. ~(Len(e) > MaxHistory)
    BY <1>1, <1>3
  <2>2. KeepLast(e) = SubSeq(e, 1, Len(e))
    BY <2>1 DEF KeepLast
  <2>3. SubSeq(e, 1, Len(e)) = e
    BY <1>1
  <2>4. e[Len(e)] = o /\ \A j \in 1..Len(e) : j # Len(e) => e[j] = c[j + 0]
    BY <1>1
  <2>5. Shifts(c, e, o, 0)
    BY <1>1, <1>3, <2>1, <2>4 DEF Shifts
  <2>6. QED
    BY <1>0, <1>1, <2>2, <2>3, <2>5
<1>4. QED
  BY <1>2, <1>3

LEMMA ShiftKeeps ==
  ASSUME NEW c, NEW f, NEW d, NEW F, NEW o, NEW s, Shifts(c, d, o, s), Grows(f, F, o),
         Once(c), ~Has(c, o), ~Has(f, o), Keeps(c, f)
  PROVE  Once(d) /\ (\A r : Has(d, r) => Has(c, r) \/ r = o) /\ Keeps(d, F)
<1>1. /\ s \in {0, 1} /\ Len(c) \in Nat /\ Len(d) \in Nat /\ Len(d) > 0
      /\ d[Len(d)] = o /\ Len(d) = Len(c) + 1 - s
  <2>1. /\ s \in {0, 1} /\ Len(c) \in Nat /\ Len(d) \in Nat /\ (s = 1 <=> Len(c) = MaxHistory)
        /\ d[Len(d)] = o /\ Len(d) = Len(c) + 1 - s
    BY DEF Shifts
  <2>2. MaxHistory > 0 /\ MaxHistory \in Nat
    BY ProfileMemoryAssumption
  <2>3. Len(d) > 0
    BY <2>1, <2>2
  <2>4. QED
    BY <2>1, <2>3
<1>2. Len(f) \in Nat /\ Len(F) = Len(f) + 1 /\ F[Len(F)] = o
  BY DEF Grows
<1>3. \A i \in 1..Len(f) : F[i] = f[i] /\ F[i] # o
  BY DEF Grows, Has
<1>4. \A i \in 1..Len(F) : i = Len(F) \/ i \in 1..Len(f)
  BY <1>2
<1>5. \A j \in 1..Len(d) : j # Len(d) => j + s \in 1..Len(c)
  BY <1>1
<1>6. \A j \in 1..Len(d) : j # Len(d) => d[j] = c[j + s] /\ d[j] # o
  <2> SUFFICES ASSUME NEW j \in 1..Len(d), j # Len(d)
               PROVE  d[j] = c[j + s] /\ d[j] # o
    OBVIOUS
  <2>1. d[j] = c[j + s]
    BY DEF Shifts
  <2>2. QED
    BY <1>5, <2>1 DEF Has
<1>7. Once(d)
  <2> SUFFICES ASSUME NEW j \in 1..Len(d), NEW k \in 1..Len(d), d[j] = d[k]
               PROVE  j = k
    BY DEF Once
  <2>1. CASE j = Len(d) \/ k = Len(d)
    BY <1>1, <1>6, <2>1
  <2>2. CASE j # Len(d) /\ k # Len(d)
    <3>1. c[j + s] = c[k + s]
      BY <1>6, <2>2
    <3>2. j + s = k + s
      BY <1>5, <2>2, <3>1 DEF Once
    <3>3. QED
      BY <1>1, <3>2
  <2>3. QED
    BY <2>1, <2>2
<1>8. ASSUME NEW r, Has(d, r)
      PROVE  Has(c, r) \/ r = o
  <2>1. PICK j \in 1..Len(d) : d[j] = r
    BY <1>8 DEF Has
  <2>2. QED
    BY <1>1, <1>5, <1>6, <2>1 DEF Has
<1>9. ASSUME NEW i \in 1..Len(F)
      PROVE  Has(d, F[i]) \/ (Len(d) = MaxHistory /\ \A h \in 1..i : ~Has(d, F[h]))
  <2>1. CASE i = Len(F)
    <3>1. Len(d) \in 1..Len(d) /\ d[Len(d)] = F[i]
      BY <1>1, <1>2, <2>1
    <3>2. QED
      BY <3>1 DEF Has
  <2>2. CASE i \in 1..Len(f) /\ ~Has(c, f[i])
    <3>1. Len(c) = MaxHistory /\ \A h \in 1..i : ~Has(c, f[h])
      BY <2>2 DEF Keeps
    <3>2. Len(d) = MaxHistory
      BY <1>1, <3>1 DEF Shifts
    <3>3. \A h \in 1..i : h \in 1..Len(f)
      BY <1>2, <2>2
    <3>4. \A h \in 1..i : ~Has(d, F[h])
      BY <1>3, <1>8, <3>1, <3>3
    <3>5. QED
      BY <3>2, <3>4
  <2>3. CASE i \in 1..Len(f) /\ Has(c, f[i])
    <3>1. PICK j \in 1..Len(c) : c[j] = f[i]
      BY <2>3 DEF Has
    <3>2. F[i] = f[i] /\ F[i] # o
      BY <1>3, <2>3
    <3>3. CASE s = 0 \/ j # 1
      <4>1. PICK k \in 1..Len(d) : k + s = j /\ k # Len(d)
        <5>1. j - s \in 1..Len(d) /\ j - s # Len(d) /\ (j - s) + s = j
          BY <1>1, <3>3
        <5>2. QED
          BY <5>1
      <4>2. d[k] = F[i]
        BY <1>6, <3>1, <3>2, <4>1
      <4>3. QED
        BY <4>2 DEF Has
    <3>4. CASE s = 1 /\ j = 1
      <4>1. Len(d) = MaxHistory
        BY <1>1, <3>4 DEF Shifts
      <4>2. ASSUME NEW h \in 1..i, Has(d, F[h])
            PROVE  FALSE
        <5>1. h \in 1..Len(f)
          BY <1>2, <2>3
        <5>2. F[h] = f[h] /\ F[h] # o
          BY <1>3, <5>1
        <5>3. PICK k \in 1..Len(d) : d[k] = F[h]
          BY <4>2 DEF Has
        <5>4. k # Len(d)
          BY <1>1, <5>2, <5>3
        <5>5. k + s \in 1..Len(c) /\ c[k + s] = f[h]
          BY <1>5, <1>6, <5>2, <5>3, <5>4
        <5>6. j < k + s
          BY <3>4
        <5>7. i < h
          BY <2>3, <3>1, <5>1, <5>5, <5>6 DEF Keeps
        <5>8. QED
          BY <5>7, <1>2, <2>3
      <4>3. QED
        BY <4>1, <4>2
    <3>5. QED
      BY <1>1, <3>3, <3>4
  <2>4. QED
    BY <1>4, <2>1, <2>2, <2>3
<1>10. ASSUME NEW j \in 1..Len(d), NEW k \in 1..Len(d), NEW a \in 1..Len(F), NEW b \in 1..Len(F),
              d[j] = F[a], d[k] = F[b], j < k
       PROVE  a < b
  <2>1. j # Len(d)
    BY <1>1, <1>10
  <2>2. j + s \in 1..Len(c) /\ d[j] = c[j + s] /\ d[j] # o
    BY <1>5, <1>6, <2>1
  <2>3. a \in 1..Len(f) /\ F[a] = f[a]
    BY <1>2, <1>3, <1>4, <1>10, <2>2
  <2>4. CASE b = Len(F)
    BY <1>2, <2>3, <2>4
  <2>5. CASE b \in 1..Len(f)
    <3>1. F[b] = f[b] /\ F[b] # o
      BY <1>3, <2>5
    <3>2. k # Len(d)
      BY <1>1, <1>10, <3>1
    <3>3. k + s \in 1..Len(c) /\ d[k] = c[k + s]
      BY <1>5, <1>6, <3>2
    <3>4. c[j + s] = f[a] /\ c[k + s] = f[b]
      BY <1>10, <2>2, <2>3, <3>1, <3>3
    <3>5. j + s < k + s
      BY <1>1, <1>10
    <3>6. QED
      BY <2>2, <2>3, <2>5, <3>3, <3>4, <3>5 DEF Keeps
  <2>6. QED
    BY <1>4, <2>4, <2>5
<1>11. Keeps(d, F)
  BY <1>9, <1>10 DEF Keeps
<1>12. QED
  BY <1>7, <1>8, <1>11

LEMMA AppendedOK ==
  ASSUME NEW c \in Seq(Records), Len(c) <= MaxHistory, Once(c), NEW o \in Records, ~Has(c, o),
         NEW f \in Seq(Records), ~Has(f, o), Keeps(c, f),
         NEW d, d = KeepLast(Append(c, o))
  PROVE  /\ d \in Seq(Records) /\ Len(d) <= MaxHistory /\ Once(d)
         /\ \A r : Has(d, r) => Has(c, r) \/ r = o
         /\ Keeps(d, Append(f, o))
<1>1. PICK s : Shifts(c, d, o, s)
  BY Appended
<1>2. d \in Seq(Records)
  BY Appended
<1>3. Grows(f, Append(f, o), o)
  BY DEF Grows
<1>4. Once(d) /\ (\A r : Has(d, r) => Has(c, r) \/ r = o) /\ Keeps(d, Append(f, o))
  BY <1>1, <1>3, ShiftKeeps
<1>5. QED
  BY <1>1, <1>2, <1>4 DEF Shifts

\* What keeps more records keeps the first of them.
LEMMA KeepsFewer ==
  ASSUME NEW c, NEW f \in Seq(Records), NEW o \in Records, Keeps(c, Append(f, o))
  PROVE  Keeps(c, f)
<1>1. Grows(f, Append(f, o), o)
  BY DEF Grows
<1>2. PICK F : F = Append(f, o)
  OBVIOUS
<1>3. Len(f) \in Nat /\ Len(F) = Len(f) + 1 /\ \A i \in 1..Len(f) : F[i] = f[i]
  BY <1>1, <1>2 DEF Grows
<1>4. \A i \in 1..Len(f) : i \in 1..Len(F) /\ \A h \in 1..i : h \in 1..Len(f)
  BY <1>3
<1>5. QED
  BY <1>2, <1>3, <1>4 DEF Keeps

LEMMA KeepsNone ==
  ASSUME NEW c
  PROVE  Keeps(c, <<>>)
BY DEF Keeps

-----------------------------------------------------------------------------
(* One operation at a time *)

Resting == {"new", "done", "dead"}

\* An operation in flight goes from one await to the next.
LEMMA StepFacts ==
  ASSUME Written, NEW o \in Operations, NEW from, NEW to \in Stages, from \notin Resting, Steps(o, from, to)
  PROVE  /\ at' \in [Operations -> Stages] /\ at[o] = from /\ at'[o] = to /\ from \in Stages
         /\ \A p \in Operations : p # o => at'[p] = at[p]
         /\ InFlight(o) /\ ~Quiet
         /\ \A p \in Operations : InFlight(p)' => InFlight(p)
BY DEF Written, Steps, InFlight, Quiet, Resting

\* What it does to the stages of the others: they are idle, or it does not matter.
LEMMA StepStages ==
  ASSUME Written, Exclusion, NEW o \in Operations, NEW from, NEW to \in Stages, from \notin Resting,
         Steps(o, from, to), alone' = alone, alone => JsonStage(o)' /\ DailyStage(o)'
  PROVE  alone' => \A p \in Operations : JsonStage(p)' /\ DailyStage(p)'
<1> SUFFICES ASSUME alone, NEW p \in Operations, p # o
             PROVE  JsonStage(p)' /\ DailyStage(p)'
  OBVIOUS
<1>1. InFlight(o) /\ at'[p] = at[p]
  BY StepFacts
<1>2. ~InFlight(p)
  BY <1>1 DEF Exclusion
<1>3. at'[p] \in Resting
  BY <1>1, <1>2 DEF InFlight, Resting
<1>4. QED
  BY <1>3 DEF JsonStage, DailyStage, Resting, DailyStages

\* While one is in flight under alone, nobody else is at a later stage.
LEMMA OnlyOne ==
  ASSUME Exclusion, alone, NEW o \in Operations, InFlight(o)
  PROVE  \A p \in Operations : p # o => at[p] \in Resting
BY DEF Exclusion, InFlight, Resting

\* Documents that a step leaves alone.
LEMMA RecordedGrows ==
  ASSUME Written, NEW o \in Operations, NEW from, NEW to \in Stages, from \notin Resting, Steps(o, from, to),
         to \notin {"new", "load"}, to = "loaded" => from = "load"
  PROVE  Recorded \subseteq Recorded'
<1>1. at[o] = from /\ at'[o] = to /\ \A p \in Operations : p # o => at'[p] = at[p]
  BY StepFacts
<1>2. QED
  BY <1>1 DEF Recorded, Operations

-----------------------------------------------------------------------------
(* The steps *)

\* Nothing that Written says of the files is touched.
LEMMA WrittenKept ==
  ASSUME Written, at' \in [Operations -> Stages], \A o \in Operations : at'[o] \in DailyStages => o \in Records,
         Recorded \subseteq Recorded', UNCHANGED <<userJson, data, held, seen, daily>>
  PROVE  Written'
<1>1. DocOK(userJson, Recorded)'
  BY DocGrows DEF Written
<1>2. \A x \in Pages \cup {"mem"} : DocOK(data[x], Recorded')
  BY DocGrows DEF Written
<1>3. \A o \in Operations : DocOK(held[o], Recorded')
  BY DocGrows DEF Written
<1>4. QED
  BY <1>1, <1>2, <1>3 DEF Written

\* The histories and the order of the awaits, in a step of one operation that ends nothing.
LEMMA HistoryKept ==
  ASSUME Written, Returned, Exclusion, NEW o \in Operations, NEW from, NEW to \in Stages, from \notin Resting,
         Steps(o, from, to), UNCHANGED <<alone, intact, finished>>,
         userJson'.text = "absent" => userJson.text = "absent" \/ finished = <<>>
  PROVE  Returned' /\ Exclusion'
<1>1. /\ at' \in [Operations -> Stages] /\ at[o] = from /\ at'[o] = to
      /\ \A p \in Operations : p # o => at'[p] = at[p]
      /\ \A p \in Operations : InFlight(p)' => InFlight(p)
  BY StepFacts
<1>2. Returned'
  <2>1. \A i \in 1..Len(finished) : at'[finished[i]] = "done"
    <3>1. \A i \in 1..Len(finished) : at[finished[i]] = "done" /\ finished[i] \in Operations
      BY DEF Returned, Operations
    <3>2. QED
      BY <1>1, <3>1 DEF Resting
  <2>2. QED
    BY <2>1 DEF Returned
<1>3. Exclusion'
  BY <1>1 DEF Exclusion
<1>4. QED
  BY <1>2, <1>3

LEMMA BeginKept ==
  ASSUME MemInv, NEW o \in Operations, Begin(o)
  PROVE  MemInv'
<1>1. /\ at[o] = "new" /\ at' = [at EXCEPT ![o] = "load"] /\ at \in [Operations -> Stages]
      /\ alone' = Quiet /\ intact' = (IF Quiet THEN intact ELSE {})
      /\ finished' = (IF Quiet THEN finished ELSE <<>>)
      /\ UNCHANGED <<userJson, data, held, seen, daily, dailyIndex, profile>>
      /\ Written /\ Returned /\ Exclusion /\ JsonSound /\ DailySound
  <2>1. Steps(o, "new", "load") /\ Overlap(~Quiet) /\ UNCHANGED <<userJson, data, held, dailyVars, crashes, profile>>
    BY DEF Begin
  <2>2. alone' = Quiet /\ intact' = (IF Quiet THEN intact ELSE {}) /\ finished' = (IF Quiet THEN finished ELSE <<>>)
    BY <2>1 DEF Overlap, Quiet
  <2>3. Written /\ Returned /\ Exclusion /\ JsonSound /\ DailySound /\ at \in [Operations -> Stages]
    BY DEF MemInv, Written
  <2>4. QED
    BY <2>1, <2>2, <2>3 DEF Steps, dailyVars
<1>2. /\ at' \in [Operations -> Stages] /\ at'[o] = "load"
      /\ \A p \in Operations : p # o => at'[p] = at[p]
  BY <1>1 DEF Stages
<1>3. Recorded' = Recorded
  BY <1>1, <1>2 DEF Recorded, Operations
<1>4. Written'
  <2>1. \A p \in Operations : at'[p] \in DailyStages => p \in Records
    BY <1>1, <1>2 DEF Written, DailyStages
  <2>2. QED
    BY <1>1, <1>2, <1>3, <2>1, WrittenKept
<1>5. Returned'
  <2>1. \A i \in 1..Len(finished) : at'[finished[i]] = "done"
    <3>1. \A i \in 1..Len(finished) : at[finished[i]] = "done" /\ finished[i] \in Operations
      BY <1>1 DEF Returned, Operations
    <3>2. QED
      BY <1>1, <1>2, <3>1
  <2>2. CASE Quiet
    BY <1>1, <2>1, <2>2 DEF Returned
  <2>3. CASE ~Quiet
    <3>1. finished' = <<>> /\ Len(<<>>) = 0 /\ <<>> \in Seq(Records)
      BY <1>1, <2>3
    <3>2. QED
      BY <3>1 DEF Returned, Once
  <2>4. QED
    BY <2>2, <2>3
<1>6. Quiet => \A p \in Operations : p # o => at'[p] \in Resting
  BY <1>2 DEF Quiet, InFlight, Resting
<1>7. Exclusion'
  <2>1. Quiet \in BOOLEAN
    BY DEF Quiet
  <2>2. QED
    BY <1>1, <1>6, <2>1 DEF Exclusion, InFlight, Resting
<1>8. JsonSound'
  <2>1. SUFFICES ASSUME Quiet, "json" \in intact
                 PROVE  Sound(userJson)'
    BY <1>1 DEF JsonSound
  <2>2. alone /\ JsonRests
    BY <1>1, <2>1 DEF Exclusion, Quiet, InFlight, JsonRests
  <2>3. QED
    BY <1>1, <2>1, <2>2 DEF JsonSound, Sound
<1>9. DailySound'
  <2>1. SUFFICES ASSUME Quiet, "daily" \in intact
                 PROVE  dailyIndex = daily
    BY <1>1 DEF DailySound
  <2>2. alone /\ DailyRests /\ ~Booting
    BY <1>1, <2>1 DEF Exclusion, Quiet, InFlight, DailyRests, Booting, Operations
  <2>3. QED
    BY <1>1, <2>1, <2>2 DEF DailySound
<1>10. alone' => \A p \in Operations : JsonStage(p)' /\ DailyStage(p)'
  BY <1>1, <1>2, <1>6 DEF JsonStage, DailyStage, Resting, DailyStages
<1>11. QED
  BY <1>4, <1>5, <1>7, <1>8, <1>9, <1>10 DEF MemInv

LEMMA ReadKept ==
  ASSUME MemInv, NEW o \in Operations, Read(o)
  PROVE  MemInv'
<1>1. /\ Steps(o, "load", "loaded") /\ held' = [held EXCEPT ![o] = userJson]
      /\ UNCHANGED <<userJson, data, seen, daily, dailyIndex, crashes, alone, intact, finished, profile>>
      /\ Written /\ Returned /\ Exclusion /\ JsonSound /\ DailySound
      /\ "load" \notin Resting /\ "loaded" \in Stages
  BY DEF Read, Hold, MemInv, dailyVars, history, Resting, Stages
<1>2. /\ at' \in [Operations -> Stages] /\ at[o] = "load" /\ at'[o] = "loaded"
      /\ \A p \in Operations : p # o => at'[p] = at[p]
  BY <1>1, StepFacts
<1>3. Recorded \subseteq Recorded'
  BY <1>1, RecordedGrows
<1>4. Written'
  <2>1. \A p \in Operations : at'[p] \in DailyStages => p \in Records
    BY <1>1, <1>2 DEF Written, DailyStages
  <2>2. /\ DocOK(userJson, Recorded')
        /\ \A x \in Pages \cup {"mem"} : DocOK(data[x], Recorded')
        /\ \A p \in Operations : DocOK(held[p], Recorded')
    BY <1>1, <1>3, DocGrows DEF Written
  <2>3. held' \in [Operations -> Docs] /\ \A p \in Operations : DocOK(held'[p], Recorded')
    BY <1>1, <2>2 DEF Written, DocOK
  <2>4. QED
    BY <1>1, <1>2, <2>1, <2>2, <2>3 DEF Written
<1>5. Returned' /\ Exclusion'
  BY <1>1, HistoryKept
<1>6. JsonSound'
  BY <1>1, <1>2 DEF JsonSound, JsonRests, Sound
<1>7. DailySound'
  BY <1>1, <1>2 DEF DailySound, DailyRests, Booting, Operations
<1>8. JsonStage(o)' /\ DailyStage(o)'
  BY <1>1, <1>2 DEF JsonStage, DailyStage, DailyStages, Written
<1>9. alone' => \A p \in Operations : JsonStage(p)' /\ DailyStage(p)'
  BY <1>1, <1>8, StepStages
<1>10. QED
  BY <1>4, <1>5, <1>6, <1>7, <1>9 DEF MemInv

\* What an operation that is alone finds when it has loaded the file.
LEMMA LoadedSound ==
  ASSUME MemInv, NEW o \in Operations, at[o] = "loaded"
  PROVE  /\ DocOK(Loaded(o), Recorded) /\ Loaded(o).text = "json"
         /\ alone => /\ Keeps(Loaded(o).conversations, finished)
                     /\ "json" \in intact => Loaded(o).profile = profile
<1>1. DocOK(held[o], Recorded) /\ Written /\ Returned /\ Exclusion /\ JsonSound
  BY DEF MemInv, Written
<1>2. /\ EMPTY.text = "json" /\ EMPTY.conversations = <<>> /\ EMPTY.profile = NoProfile /\ DocOK(EMPTY, Recorded)
  BY EmptyDocs
<1>3. DocOK(Loaded(o), Recorded) /\ Loaded(o).text = "json"
  BY <1>1, <1>2 DEF Loaded
<1>4. held[o].text # "json" => held[o].conversations = <<>> /\ held[o].profile = NoProfile
  BY <1>1 DEF DocOK
<1>5. Loaded(o).conversations = held[o].conversations /\ Loaded(o).profile = held[o].profile
  BY <1>2, <1>4 DEF Loaded
<1>6. ASSUME alone
      PROVE  /\ Keeps(Loaded(o).conversations, finished)
             /\ "json" \in intact => Loaded(o).profile = profile
  <2>1. held[o] = userJson
    BY <1>6 DEF MemInv, JsonStage
  <2>2. CASE "json" \in intact
    <3>1. InFlight(o)
      BY DEF InFlight
    <3>2. JsonRests
      BY <1>1, <1>6, <3>1, OnlyOne DEF JsonRests, Resting
    <3>3. Sound(userJson)
      BY <1>1, <1>6, <2>2, <3>2 DEF JsonSound
    <3>4. QED
      BY <1>5, <2>1, <3>3 DEF Sound
  <2>3. CASE "json" \notin intact
    BY <1>1, <2>3, KeepsNone DEF Returned
  <2>4. QED
    BY <2>2, <2>3
<1>7. QED
  BY <1>3, <1>6

LEMMA RecordChange ==
  ASSUME MemInv, NEW o \in Records, at[o] = "loaded", NEW d,
         d = [Loaded(o) EXCEPT !.conversations = KeepLast(Append(@, o))]
  PROVE  /\ DocOK(d, Recorded \cup {o}) /\ d.text = "json"
         /\ alone => /\ Keeps(d.conversations, Append(finished, o))
                     /\ "json" \in intact => d.profile = profile
<1>1. o \in Operations /\ Returned
  BY DEF Operations, MemInv
<1>2. /\ DocOK(Loaded(o), Recorded) /\ Loaded(o).text = "json"
      /\ alone => /\ Keeps(Loaded(o).conversations, finished)
                  /\ "json" \in intact => Loaded(o).profile = profile
  BY <1>1, LoadedSound
<1>3. PICK l : l = Loaded(o)
  OBVIOUS
<1>4. /\ l \in Docs /\ l.conversations \in Seq(Records) /\ Len(l.conversations) <= MaxHistory /\ Once(l.conversations)
      /\ \A j \in 1..Len(l.conversations) : l.conversations[j] \in Recorded
  BY <1>2, <1>3 DEF DocOK, Docs
<1>5. o \notin Recorded /\ ~Has(l.conversations, o)
  BY <1>4 DEF Recorded, Has
<1>6. finished \in Seq(Records) /\ ~Has(finished, o)
  BY <1>1 DEF Returned, Has
<1>7. PICK e : e = KeepLast(Append(l.conversations, o))
  OBVIOUS
<1>8. d = [text |-> "json", profile |-> l.profile, conversations |-> e] /\ l.profile \in Pages \cup {CloudProfile, NoProfile}
  BY <1>2, <1>3, <1>4, <1>7 DEF Docs
<1>9. ASSUME NEW f \in Seq(Records), ~Has(f, o), Keeps(l.conversations, f)
      PROVE  /\ e \in Seq(Records) /\ Len(e) <= MaxHistory /\ Once(e)
             /\ \A r : Has(e, r) => Has(l.conversations, r) \/ r = o
             /\ Keeps(e, Append(f, o))
  BY <1>4, <1>5, <1>7, <1>9, AppendedOK
<1>10. /\ e \in Seq(Records) /\ Len(e) <= MaxHistory /\ Once(e)
       /\ \A r : Has(e, r) => Has(l.conversations, r) \/ r = o
  <2>1. <<>> \in Seq(Records) /\ ~Has(<<>>, o) /\ Keeps(l.conversations, <<>>)
    BY KeepsNone DEF Has
  <2>2. QED
    BY <1>9, <2>1
<1>11. \A j \in 1..Len(e) : e[j] \in Recorded \cup {o}
  BY <1>4, <1>10 DEF Has
<1>12. DocOK(d, Recorded \cup {o})
  <2>1. d \in Docs
    <3>1. e \in Seq(Records) /\ l.profile \in Pages \cup {CloudProfile, NoProfile}
      BY <1>8, <1>10
    <3>2. [text |-> "json", profile |-> l.profile, conversations |-> e] \in Docs
      BY <3>1 DEF Docs
    <3>3. QED
      BY <1>8, <3>2
  <2>2. d.text = "json" /\ d.conversations = e
    BY <1>8
  <2>3. QED
    BY <1>10, <1>11, <2>1, <2>2 DEF DocOK
<1>13. ASSUME alone
       PROVE  /\ Keeps(d.conversations, Append(finished, o))
              /\ "json" \in intact => d.profile = profile
  BY <1>2, <1>3, <1>6, <1>8, <1>9, <1>13
<1>14. QED
  BY <1>8, <1>12, <1>13

LEMMA ChangeKept ==
  ASSUME MemInv, NEW o \in Operations, Change(o)
  PROVE  MemInv'
<1>1. /\ UNCHANGED <<userJson, held, seen, daily, crashes, alone, intact, finished, profile>>
      /\ Written /\ Returned /\ Exclusion /\ JsonSound /\ DailySound
      /\ "loaded" \notin Resting
  BY DEF Change, MemInv, history, Resting
<1>2. PICK to \in Stages : Steps(o, "loaded", to)
  BY DEF Change, Stages, DailyStages
<1>3. /\ at' \in [Operations -> Stages] /\ at[o] = "loaded" /\ at'[o] = to
      /\ \A p \in Operations : p # o => at'[p] = at[p] /\ InFlight(o)
  BY <1>1, <1>2, StepFacts DEF InFlight
<1>4. /\ DocOK(Loaded(o), Recorded) /\ Loaded(o).text = "json"
      /\ alone => /\ Keeps(Loaded(o).conversations, finished)
                  /\ "json" \in intact => Loaded(o).profile = profile
  BY <1>3, LoadedSound
<1>5. PICK x, d :
        /\ x \in Pages \cup {"mem"}
        /\ data' = [data EXCEPT ![x] = d] /\ d.text = "json"
        /\ to \in {"readDaily", "mkdir", "done"} /\ (to = "readDaily" <=> o \in Records) /\ (to = "done" => o = "boot")
        /\ to # "done" => x = ObjectOf(o)
        /\ DocOK(d, Recorded') /\ Recorded \subseteq Recorded'
        /\ alone => Keeps(d.conversations, WillHave(o))
        /\ alone /\ "json" \in intact => d.profile = IF o \in Pages THEN o ELSE profile
        /\ o # "boot" => dailyIndex' = dailyIndex
        /\ o = "boot" => dailyIndex' = IF daily = {} THEN dailyIndex ELSE daily
  <2>1. CASE o \in Records
    <3>1. /\ Steps(o, "loaded", "readDaily")
          /\ data' = [data EXCEPT !["mem"] = [Loaded(o) EXCEPT !.conversations = KeepLast(Append(@, o))]]
          /\ dailyIndex' = dailyIndex /\ o \notin Pages /\ o # "boot"
      BY <2>1, ProfileMemoryAssumption DEF Change
    <3>2. to = "readDaily"
      BY <1>1, <1>3, <3>1 DEF Steps, Written
    <3>3. Recorded' = Recorded \cup {o}
      BY <1>3, <2>1, <3>2 DEF Recorded, Operations
    <3>4. PICK d : d = [Loaded(o) EXCEPT !.conversations = KeepLast(Append(@, o))]
      OBVIOUS
    <3>5. /\ DocOK(d, Recorded \cup {o}) /\ d.text = "json"
          /\ alone => /\ Keeps(d.conversations, Append(finished, o))
                      /\ "json" \in intact => d.profile = profile
      BY <1>3, <2>1, <3>4, RecordChange
    <3>6. ObjectOf(o) = "mem" /\ WillHave(o) = Append(finished, o)
      BY <2>1, <3>1 DEF ObjectOf, WillHave
    <3>7. data' = [data EXCEPT !["mem"] = d]
      BY <3>1, <3>4
    <3>8. QED
      BY <2>1, <3>1, <3>2, <3>3, <3>5, <3>6, <3>7
  <2>2. CASE o \in Pages
    <3>1. /\ Steps(o, "loaded", "mkdir") /\ data' = [data EXCEPT ![o] = [Loaded(o) EXCEPT !.profile = o]]
          /\ dailyIndex' = dailyIndex /\ o \notin Records /\ o # "boot"
      BY <2>2, ProfileMemoryAssumption DEF Change
    <3>2. to = "mkdir"
      BY <1>1, <1>3, <3>1 DEF Steps, Written
    <3>3. Recorded' = Recorded
      BY <1>3, <3>1 DEF Recorded, Operations
    <3>4. PICK d : d = [Loaded(o) EXCEPT !.profile = o]
      OBVIOUS
    <3>5. d \in Docs /\ d.text = "json" /\ d.profile = o /\ d.conversations = Loaded(o).conversations
      BY <1>4, <2>2, <3>4 DEF DocOK, Docs
    <3>6. DocOK(d, Recorded)
      BY <1>4, <3>5 DEF DocOK
    <3>7. ObjectOf(o) = o /\ WillHave(o) = finished
      BY <2>2, <3>1 DEF ObjectOf, WillHave
    <3>8. data' = [data EXCEPT ![o] = d]
      BY <3>1, <3>4
    <3>9. QED
      BY <1>4, <2>2, <3>1, <3>2, <3>3, <3>5, <3>6, <3>7, <3>8
  <2>3. CASE o = "boot"
    <3>1. /\ Steps(o, "loaded", IF Loaded(o).profile = NoProfile THEN "done" ELSE "mkdir")
          /\ data' = [data EXCEPT !["mem"] = Loaded(o)]
          /\ dailyIndex' = IF daily = {} THEN dailyIndex ELSE daily
          /\ o \notin Records /\ o \notin Pages
      BY <2>3, ProfileMemoryAssumption DEF Change
    <3>2. to \in {"done", "mkdir"}
      BY <1>1, <1>3, <3>1 DEF Steps, Written
    <3>3. Recorded' = Recorded
      BY <1>3, <3>1 DEF Recorded, Operations
    <3>4. ObjectOf(o) = "mem" /\ WillHave(o) = finished
      BY <3>1 DEF ObjectOf, WillHave
    <3>5. QED
      BY <1>4, <2>3, <3>1, <3>2, <3>3, <3>4
  <2>4. QED
    BY <2>1, <2>2, <2>3 DEF Operations
<1>6. Written'
  <2>1. \A p \in Operations : at'[p] \in DailyStages => p \in Records
    BY <1>1, <1>3, <1>5 DEF Written, DailyStages
  <2>2. /\ DocOK(userJson, Recorded')
        /\ \A y \in Pages \cup {"mem"} : DocOK(data[y], Recorded')
        /\ \A p \in Operations : DocOK(held[p], Recorded')
    BY <1>1, <1>5, DocGrows DEF Written
  <2>3. data \in [Pages \cup {"mem"} -> Docs] /\ d \in Docs
    BY <1>1, <1>5 DEF Written, DocOK
  <2>4. data' \in [Pages \cup {"mem"} -> Docs] /\ \A y \in Pages \cup {"mem"} : DocOK(data'[y], Recorded')
    BY <1>5, <2>2, <2>3
  <2>5. QED
    BY <1>1, <1>3, <2>1, <2>2, <2>4 DEF Written
<1>7. Returned' /\ Exclusion'
  BY <1>1, <1>2, HistoryKept
<1>8. JsonSound'
  BY <1>1, <1>3 DEF JsonSound, JsonRests, Sound
<1>9. DailySound'
  <2>1. SUFFICES ASSUME alone, "daily" \in intact, DailyRests'
                 PROVE  dailyIndex' = daily \/ (Booting' /\ daily # {})
    BY <1>1 DEF DailySound
  <2>2. DailyRests
    BY <1>3, <2>1 DEF DailyRests
  <2>3. dailyIndex = daily \/ (Booting /\ daily # {})
    BY <1>1, <2>1, <2>2 DEF DailySound
  <2>4. CASE o = "boot"
    BY <1>5, <2>3, <2>4
  <2>5. CASE o # "boot"
    <3>1. ~Booting
      BY <1>1, <1>3, <2>1, <2>5, OnlyOne DEF Booting, Resting, Operations
    <3>2. QED
      BY <1>5, <2>3, <2>5, <3>1
  <2>6. QED
    BY <2>4, <2>5
<1>10. alone => JsonStage(o)' /\ DailyStage(o)'
  <2>1. SUFFICES ASSUME alone
                 PROVE  JsonStage(o)' /\ DailyStage(o)'
    OBVIOUS
  <2>2. to # "done" => data'[ObjectOf(o)] = d
    BY <1>1, <1>5 DEF Written
  <2>3. to # "done" => Upcoming(o, data[ObjectOf(o)])'
    BY <1>1, <1>5, <2>1, <2>2 DEF Upcoming, WillHave, ObjectOf
  <2>4. JsonStage(o)'
    BY <1>3, <1>5, <2>3 DEF JsonStage, DailyStages
  <2>5. DailyStage(o)'
    BY <1>3, <1>5 DEF DailyStage
  <2>6. QED
    BY <2>4, <2>5
<1>11. alone' => \A p \in Operations : JsonStage(p)' /\ DailyStage(p)'
  BY <1>1, <1>2, <1>10, StepStages
<1>12. QED
  BY <1>6, <1>7, <1>8, <1>9, <1>11 DEF MemInv

\* A step from await to await among those of the daily file.
LEMMA DailyStep ==
  ASSUME MemInv, NEW o \in Operations, NEW from \in DailyStages, NEW to \in DailyStages \cup {"mkdir"},
         Steps(o, from, to),
         UNCHANGED <<userJson, data, held, alone, intact, finished, profile>>,
         seen' \in [Operations -> SUBSET Records], daily' \subseteq Records,
         DailySound', alone => DailyStage(o)'
  PROVE  MemInv'
<1>1. /\ Written /\ Returned /\ Exclusion /\ JsonSound
      /\ from \notin Resting /\ to \in Stages /\ to \notin {"new", "load", "loaded"}
  BY DEF MemInv, Resting, DailyStages, Stages
<1>2. /\ at' \in [Operations -> Stages] /\ at[o] = from /\ at'[o] = to
      /\ \A p \in Operations : p # o => at'[p] = at[p]
  BY <1>1, StepFacts
<1>3. o \in Records
  BY <1>1, <1>2 DEF Written
<1>4. Recorded \subseteq Recorded'
  BY <1>1, RecordedGrows
<1>5. Written'
  <2>1. \A p \in Operations : at'[p] \in DailyStages => p \in Records
    BY <1>1, <1>2, <1>3 DEF Written
  <2>2. /\ DocOK(userJson, Recorded')
        /\ \A x \in Pages \cup {"mem"} : DocOK(data[x], Recorded')
        /\ \A p \in Operations : DocOK(held[p], Recorded')
    BY <1>1, <1>4, DocGrows DEF Written
  <2>3. QED
    BY <1>1, <1>2, <2>1, <2>2 DEF Written
<1>6. Returned' /\ Exclusion'
  BY <1>1, HistoryKept
<1>7. JsonSound'
  BY <1>1, <1>2 DEF JsonSound, JsonRests, Sound, DailyStages
<1>8. alone => JsonStage(o)'
  <2>1. SUFFICES ASSUME alone
                 PROVE  JsonStage(o)'
    OBVIOUS
  <2>2. Upcoming(o, data[ObjectOf(o)])
    BY <1>2, <2>1 DEF MemInv, JsonStage
  <2>3. Upcoming(o, data[ObjectOf(o)])'
    BY <2>2 DEF Upcoming, WillHave, ObjectOf
  <2>4. QED
    BY <1>2, <2>3 DEF JsonStage, DailyStages
<1>9. alone' => \A p \in Operations : JsonStage(p)' /\ DailyStage(p)'
  BY <1>1, <1>8, StepStages
<1>10. QED
  BY <1>5, <1>6, <1>7, <1>9 DEF MemInv

\* The daily file of a recorder that is alone: emptied, written, and indexed as it is.
LEMMA DailyKept ==
  ASSUME MemInv, NEW o \in Operations,
         ReadDaily(o) \/ OpenDaily(o) \/ WriteDaily(o) \/ RereadDaily(o) \/ IndexDaily(o)
  PROVE  MemInv'
<1>1. /\ Written /\ Exclusion /\ DailySound /\ (alone => DailyStage(o))
      /\ seen \in [Operations -> SUBSET Records] /\ daily \subseteq Records /\ at \in [Operations -> Stages]
  BY DEF MemInv, Written
<1>2. /\ UNCHANGED <<userJson, data, held, alone, intact, finished, profile>>
      /\ "boot" \notin Records
  BY ProfileMemoryAssumption
     DEF ReadDaily, OpenDaily, WriteDaily, RereadDaily, IndexDaily, history
<1>4. ASSUME NEW from \in DailyStages, NEW to \in DailyStages \cup {"mkdir"}, Steps(o, from, to)
      PROVE  /\ at[o] = from /\ at'[o] = to /\ o \in Records /\ o # "boot"
             /\ at'["boot"] = at["boot"] /\ "boot" \in Operations
             /\ \A p \in Operations : p # o => at'[p] = at[p]
             /\ alone => ~Booting /\ ~Booting'
  <2>1. from \notin Resting /\ to \in Stages
    BY DEF DailyStages, Resting, Stages
  <2>2. /\ at[o] = from /\ at'[o] = to /\ InFlight(o) /\ "boot" \in Operations
        /\ \A p \in Operations : p # o => at'[p] = at[p]
    BY <1>1, <1>4, <2>1, StepFacts DEF Operations
  <2>3. o \in Records /\ o # "boot"
    BY <1>1, <1>2, <2>2 DEF Written
  <2>4. alone => at["boot"] \in Resting
    BY <1>1, <2>2, <2>3, OnlyOne
  <2>5. QED
    BY <2>2, <2>3, <2>4 DEF Booting, Resting
<1>5. CASE ReadDaily(o)
  <2>1. /\ Steps(o, "readDaily", "openDaily") /\ seen' = [seen EXCEPT ![o] = daily]
        /\ UNCHANGED <<daily, dailyIndex>> /\ "readDaily" \in DailyStages /\ "openDaily" \in DailyStages
    BY <1>5 DEF ReadDaily, Note, DailyStages
  <2>2. /\ at[o] = "readDaily" /\ at'[o] = "openDaily"
        /\ \A p \in Operations : p # o => at'[p] = at[p]
        /\ alone => ~Booting /\ ~Booting'
    BY <1>4, <2>1
  <2>3. DailySound'
    BY <1>1, <1>2, <2>1, <2>2 DEF DailySound, DailyRests
  <2>4. DailyStage(o)'
    BY <2>2 DEF DailyStage
  <2>5. seen' \in [Operations -> SUBSET Records] /\ daily' \subseteq Records
    BY <1>1, <2>1
  <2>6. QED
    BY <1>2, <2>1, <2>3, <2>4, <2>5, DailyStep
<1>6. CASE OpenDaily(o)
  <2>1. /\ Steps(o, "openDaily", "writeDaily") /\ daily' = {}
        /\ UNCHANGED <<seen, dailyIndex>> /\ "openDaily" \in DailyStages /\ "writeDaily" \in DailyStages
    BY <1>6 DEF OpenDaily, DailyStages
  <2>2. at'[o] = "writeDaily"
    BY <1>4, <2>1
  <2>3. DailySound'
    BY <2>2 DEF DailySound, DailyRests
  <2>4. DailyStage(o)'
    BY <2>1, <2>2 DEF DailyStage
  <2>5. seen' \in [Operations -> SUBSET Records] /\ daily' \subseteq Records
    BY <1>1, <2>1
  <2>6. QED
    BY <1>2, <2>1, <2>3, <2>4, <2>5, DailyStep
<1>7. CASE WriteDaily(o)
  <2>1. /\ Steps(o, "writeDaily", "rereadDaily")
        /\ UNCHANGED <<seen, dailyIndex>> /\ "writeDaily" \in DailyStages /\ "rereadDaily" \in DailyStages
    BY <1>7 DEF WriteDaily, DailyStages
  <2>2. at'[o] = "rereadDaily" /\ o \in Records
    BY <1>4, <2>1
  <2>3. PICK rest \in SUBSET daily : daily' = seen[o] \cup {o} \cup rest
    BY <1>7 DEF WriteDaily
  <2>4. DailySound'
    BY <2>2 DEF DailySound, DailyRests
  <2>5. DailyStage(o)'
    BY <2>2, <2>3 DEF DailyStage
  <2>6. seen' \in [Operations -> SUBSET Records] /\ daily' \subseteq Records
    BY <1>1, <2>1, <2>2, <2>3
  <2>7. QED
    BY <1>2, <2>1, <2>4, <2>5, <2>6, DailyStep
<1>8. CASE RereadDaily(o)
  <2>1. /\ Steps(o, "rereadDaily", "indexDaily") /\ seen' = [seen EXCEPT ![o] = daily]
        /\ UNCHANGED <<daily, dailyIndex>> /\ "rereadDaily" \in DailyStages /\ "indexDaily" \in DailyStages
    BY <1>8 DEF RereadDaily, Note, DailyStages
  <2>2. at[o] = "rereadDaily" /\ at'[o] = "indexDaily"
    BY <1>4, <2>1
  <2>3. DailySound'
    BY <2>2 DEF DailySound, DailyRests
  <2>4. alone => DailyStage(o)'
    BY <1>1, <2>1, <2>2 DEF DailyStage
  <2>5. seen' \in [Operations -> SUBSET Records] /\ daily' \subseteq Records
    BY <1>1, <2>1
  <2>6. QED
    BY <1>2, <2>1, <2>3, <2>4, <2>5, DailyStep
<1>9. CASE IndexDaily(o)
  <2>1. /\ Steps(o, "indexDaily", "mkdir") /\ dailyIndex' = IF seen[o] = {} THEN dailyIndex ELSE seen[o]
        /\ UNCHANGED <<seen, daily>> /\ "indexDaily" \in DailyStages
    BY <1>9 DEF IndexDaily, DailyStages
  <2>2. at[o] = "indexDaily" /\ at'[o] = "mkdir"
    BY <1>4, <2>1
  <2>3. alone => dailyIndex' = daily
    BY <1>1, <2>1, <2>2 DEF DailyStage
  <2>4. DailySound'
    BY <1>2, <2>1, <2>3 DEF DailySound
  <2>5. alone => DailyStage(o)'
    BY <2>1, <2>2, <2>3 DEF DailyStage
  <2>6. seen' \in [Operations -> SUBSET Records] /\ daily' \subseteq Records
    BY <1>1, <2>1
  <2>7. QED
    BY <1>2, <2>1, <2>4, <2>5, <2>6, DailyStep
<1>10. QED
  BY <1>5, <1>6, <1>7, <1>8, <1>9

LEMMA SerialiseKept ==
  ASSUME MemInv, NEW o \in Operations, Serialise(o)
  PROVE  MemInv'
<1>1. /\ Steps(o, "mkdir", "open") /\ held' = [held EXCEPT ![o] = data[ObjectOf(o)]]
      /\ UNCHANGED <<userJson, data, seen, daily, dailyIndex, crashes, alone, intact, finished, profile>>
      /\ Written /\ Returned /\ Exclusion /\ JsonSound /\ DailySound
      /\ "mkdir" \notin Resting /\ "open" \in Stages
  BY DEF Serialise, Hold, MemInv, dailyVars, history, Resting, Stages
<1>2. /\ at' \in [Operations -> Stages] /\ at[o] = "mkdir" /\ at'[o] = "open"
      /\ \A p \in Operations : p # o => at'[p] = at[p]
  BY <1>1, StepFacts
<1>3. Recorded \subseteq Recorded'
  BY <1>1, RecordedGrows
<1>4. Written'
  <2>1. \A p \in Operations : at'[p] \in DailyStages => p \in Records
    BY <1>1, <1>2 DEF Written, DailyStages
  <2>2. /\ DocOK(userJson, Recorded')
        /\ \A x \in Pages \cup {"mem"} : DocOK(data[x], Recorded')
        /\ \A p \in Operations : DocOK(held[p], Recorded')
    BY <1>1, <1>3, DocGrows DEF Written
  <2>3. ObjectOf(o) \in Pages \cup {"mem"}
    BY DEF ObjectOf
  <2>4. held' \in [Operations -> Docs] /\ \A p \in Operations : DocOK(held'[p], Recorded')
    BY <1>1, <2>2, <2>3 DEF Written, DocOK
  <2>5. QED
    BY <1>1, <1>2, <2>1, <2>2, <2>4 DEF Written
<1>5. Returned' /\ Exclusion'
  BY <1>1, HistoryKept
<1>6. JsonSound'
  BY <1>1, <1>2 DEF JsonSound, JsonRests, Sound
<1>7. DailySound'
  BY <1>1, <1>2 DEF DailySound, DailyRests, Booting, Operations
<1>8. alone => JsonStage(o)' /\ DailyStage(o)'
  <2>1. SUFFICES ASSUME alone
                 PROVE  JsonStage(o)' /\ DailyStage(o)'
    OBVIOUS
  <2>2. JsonStage(o) /\ DailyStage(o)
    BY <2>1 DEF MemInv
  <2>3. held'[o] = data[ObjectOf(o)]
    BY <1>1 DEF Written
  <2>4. Upcoming(o, held[o])'
    BY <1>1, <1>2, <2>2, <2>3 DEF JsonStage, Upcoming, WillHave
  <2>5. JsonStage(o)'
    BY <1>2, <2>4 DEF JsonStage, DailyStages
  <2>6. DailyStage(o)'
    BY <1>1, <1>2, <2>2 DEF DailyStage
  <2>7. QED
    BY <2>5, <2>6
<1>9. alone' => \A p \in Operations : JsonStage(p)' /\ DailyStage(p)'
  BY <1>1, <1>8, StepStages
<1>10. QED
  BY <1>4, <1>5, <1>6, <1>7, <1>9 DEF MemInv

LEMMA OpenKept ==
  ASSUME MemInv, NEW o \in Operations, Open(o)
  PROVE  MemInv'
<1>1. /\ Steps(o, "open", "write") /\ userJson' = Unreadable("empty")
      /\ UNCHANGED <<data, held, seen, daily, dailyIndex, crashes, alone, intact, finished, profile>>
      /\ Written /\ Returned /\ Exclusion /\ JsonSound /\ DailySound
      /\ "open" \notin Resting /\ "write" \in Stages
  BY DEF Open, MemInv, dailyVars, history, Resting, Stages
<1>2. /\ at' \in [Operations -> Stages] /\ at[o] = "open" /\ at'[o] = "write"
      /\ \A p \in Operations : p # o => at'[p] = at[p]
  BY <1>1, StepFacts
<1>3. Recorded \subseteq Recorded'
  BY <1>1, RecordedGrows
<1>4. userJson'.text = "empty" /\ DocOK(userJson', Recorded')
  BY <1>1, EmptyDocs
<1>5. Written'
  <2>1. \A p \in Operations : at'[p] \in DailyStages => p \in Records
    BY <1>1, <1>2 DEF Written, DailyStages
  <2>2. /\ \A x \in Pages \cup {"mem"} : DocOK(data[x], Recorded')
        /\ \A p \in Operations : DocOK(held[p], Recorded')
    BY <1>1, <1>3, DocGrows DEF Written
  <2>3. QED
    BY <1>1, <1>2, <1>4, <2>1, <2>2 DEF Written
<1>6. Returned' /\ Exclusion'
  BY <1>1, <1>4, HistoryKept
<1>7. JsonSound'
  BY <1>2 DEF JsonSound, JsonRests
<1>8. DailySound'
  BY <1>1, <1>2 DEF DailySound, DailyRests, Booting, Operations
<1>9. alone => JsonStage(o)' /\ DailyStage(o)'
  <2>1. SUFFICES ASSUME alone
                 PROVE  JsonStage(o)' /\ DailyStage(o)'
    OBVIOUS
  <2>2. JsonStage(o) /\ DailyStage(o)
    BY <2>1 DEF MemInv
  <2>3. Upcoming(o, held[o])'
    BY <1>1, <1>2, <2>2 DEF JsonStage, Upcoming, WillHave
  <2>4. JsonStage(o)'
    BY <1>2, <1>4, <2>3 DEF JsonStage, DailyStages
  <2>5. DailyStage(o)'
    BY <1>1, <1>2, <2>2 DEF DailyStage
  <2>6. QED
    BY <2>4, <2>5
<1>10. alone' => \A p \in Operations : JsonStage(p)' /\ DailyStage(p)'
  BY <1>1, <1>9, StepStages
<1>11. QED
  BY <1>5, <1>6, <1>7, <1>8, <1>10 DEF MemInv

LEMMA WriteKept ==
  ASSUME MemInv, NEW o \in Operations, Write(o)
  PROVE  MemInv'
<1>1. /\ Steps(o, "write", "markdown")
      /\ userJson' \in {held[o]} \cup IF userJson.text = "empty" THEN {} ELSE {Unreadable("torn")}
      /\ profile' = IF o \in Pages THEN o ELSE profile
      /\ UNCHANGED <<data, held, seen, daily, dailyIndex, crashes, alone, intact, finished>>
      /\ Written /\ Returned /\ Exclusion /\ JsonSound /\ DailySound
      /\ "write" \notin Resting /\ "markdown" \in Stages
  BY DEF Write, MemInv, dailyVars, Resting, Stages
<1>2. /\ at' \in [Operations -> Stages] /\ at[o] = "write" /\ at'[o] = "markdown"
      /\ \A p \in Operations : p # o => at'[p] = at[p]
  BY <1>1, StepFacts
<1>3. Recorded \subseteq Recorded'
  BY <1>1, RecordedGrows
<1>4. DocOK(userJson', Recorded')
  <2>1. DocOK(Unreadable("torn"), Recorded')
    BY EmptyDocs
  <2>2. DocOK(held[o], Recorded')
    BY <1>1, <1>3, DocGrows DEF Written
  <2>3. userJson' = held[o] \/ userJson' = Unreadable("torn")
    BY <1>1
  <2>4. QED
    BY <2>1, <2>2, <2>3
<1>5. Written'
  <2>1. \A p \in Operations : at'[p] \in DailyStages => p \in Records
    BY <1>1, <1>2 DEF Written, DailyStages
  <2>2. /\ \A x \in Pages \cup {"mem"} : DocOK(data[x], Recorded')
        /\ \A p \in Operations : DocOK(held[p], Recorded')
    BY <1>1, <1>3, DocGrows DEF Written
  <2>3. QED
    BY <1>1, <1>2, <1>4, <2>1, <2>2 DEF Written
<1>6. alone => userJson' = held[o] /\ Upcoming(o, held[o]) /\ DailyStage(o)
  <2>1. SUFFICES ASSUME alone
                 PROVE  userJson' = held[o] /\ Upcoming(o, held[o]) /\ DailyStage(o)
    OBVIOUS
  <2>2. JsonStage(o) /\ DailyStage(o)
    BY <2>1 DEF MemInv
  <2>3. userJson.text = "empty" /\ Upcoming(o, held[o])
    BY <1>2, <2>2 DEF JsonStage
  <2>4. QED
    BY <1>1, <2>2, <2>3
<1>7. Returned' /\ Exclusion'
  <2>1. userJson'.text = "absent" => finished = <<>>
    <3>1. CASE alone
      BY <1>6, <3>1 DEF Upcoming
    <3>2. CASE ~alone
      BY <1>1, <3>2 DEF Exclusion, Returned
    <3>3. QED
      BY <3>1, <3>2
  <2>2. QED
    BY <1>1, <2>1, HistoryKept
<1>8. JsonSound'
  BY <1>2 DEF JsonSound, JsonRests
<1>9. DailySound'
  BY <1>1, <1>2 DEF DailySound, DailyRests, Booting, Operations
<1>10. alone => JsonStage(o)' /\ DailyStage(o)'
  <2>1. SUFFICES ASSUME alone
                 PROVE  JsonStage(o)' /\ DailyStage(o)'
    OBVIOUS
  <2>2. /\ userJson'.text = "json" /\ Keeps(userJson'.conversations, WillHave(o))
        /\ "json" \in intact => userJson'.profile = profile'
    BY <1>1, <1>6, <2>1 DEF Upcoming
  <2>3. WillHave(o)' = WillHave(o)
    BY <1>1 DEF WillHave
  <2>4. JsonStage(o)'
    BY <1>1, <1>2, <2>2, <2>3 DEF JsonStage, DailyStages
  <2>5. DailyStage(o)'
    BY <1>1, <1>2, <1>6, <2>1 DEF DailyStage
  <2>6. QED
    BY <2>4, <2>5
<1>11. alone' => \A p \in Operations : JsonStage(p)' /\ DailyStage(p)'
  BY <1>1, <1>10, StepStages
<1>12. QED
  BY <1>5, <1>7, <1>8, <1>9, <1>11 DEF MemInv

LEMMA ReturnKept ==
  ASSUME MemInv, NEW o \in Operations, Return(o)
  PROVE  MemInv'
<1>1. /\ Steps(o, "markdown", "done")
      /\ alone => /\ finished' = WillHave(o)
                  /\ intact' = intact \cup {"json"} \cup (IF o \in Records THEN {"daily"} ELSE {})
      /\ ~alone => finished' = finished /\ intact' = intact
      /\ profile' = IF "json" \in intact THEN profile ELSE userJson.profile
      /\ UNCHANGED <<userJson, data, held, seen, daily, dailyIndex, crashes, alone>>
      /\ Written /\ Returned /\ Exclusion /\ JsonSound /\ DailySound
      /\ "markdown" \notin Resting /\ "done" \in Stages
  BY DEF Return, MemInv, dailyVars, Resting, Stages, WillHave
<1>2. /\ at' \in [Operations -> Stages] /\ at[o] = "markdown" /\ at'[o] = "done" /\ InFlight(o)
      /\ \A p \in Operations : p # o => at'[p] = at[p]
      /\ \A p \in Operations : InFlight(p)' => InFlight(p)
  BY <1>1, StepFacts
<1>3. Recorded \subseteq Recorded'
  BY <1>1, RecordedGrows
<1>4. Written'
  <2>1. \A p \in Operations : at'[p] \in DailyStages => p \in Records
    BY <1>1, <1>2 DEF Written, DailyStages
  <2>2. QED
    BY <1>1, <1>2, <1>3, <2>1, WrittenKept
<1>5. alone => /\ userJson.text = "json" /\ Keeps(userJson.conversations, WillHave(o))
               /\ "json" \in intact => userJson.profile = profile
               /\ o \in Records => dailyIndex = daily
  BY <1>2 DEF MemInv, JsonStage, DailyStage
<1>6. \A i \in 1..Len(finished) : finished[i] # o /\ at'[finished[i]] = "done"
  <2>1. \A i \in 1..Len(finished) : at[finished[i]] = "done" /\ finished[i] \in Operations
    BY <1>1 DEF Returned, Operations
  <2>2. QED
    BY <1>2, <2>1
<1>7. Returned'
  <2>1. finished \in Seq(Records) /\ Once(finished)
    BY <1>1 DEF Returned
  <2>2. CASE finished' = finished
    <3>1. ~alone => finished = <<>>
      BY <1>1 DEF Exclusion, Returned
    <3>2. alone => userJson'.text = "json" /\ "json" \in intact'
      BY <1>1, <1>5
    <3>3. userJson'.text = "absent" \/ "json" \notin intact' => finished' = <<>>
      BY <2>2, <3>1, <3>2
    <3>4. QED
      BY <1>6, <2>1, <2>2, <3>3 DEF Returned
  <2>3. CASE alone /\ o \in Records
    <3>1. PICK F : F = Append(finished, o)
      OBVIOUS
    <3>2. F \in Seq(Records) /\ Len(finished) \in Nat /\ Len(F) = Len(finished) + 1 /\ F[Len(F)] = o
          /\ \A i \in 1..Len(finished) : F[i] = finished[i]
      BY <2>1, <2>3, <3>1
    <3>3. \A i \in 1..Len(F) : i = Len(F) \/ i \in 1..Len(finished)
      BY <3>2
    <3>4. Once(F)
      BY <1>6, <2>1, <3>2, <3>3 DEF Once
    <3>5. \A i \in 1..Len(F) : at'[F[i]] = "done"
      BY <1>2, <1>6, <3>2, <3>3
    <3>6. finished' = F /\ userJson'.text = "json" /\ "json" \in intact'
      BY <1>1, <1>5, <2>3, <3>1 DEF WillHave
    <3>7. QED
      BY <3>2, <3>4, <3>5, <3>6 DEF Returned
  <2>4. QED
    BY <1>1, <2>2, <2>3 DEF WillHave
<1>8. Exclusion'
  BY <1>1, <1>2 DEF Exclusion
<1>9. JsonSound'
  <2>1. SUFFICES ASSUME alone
                 PROVE  Sound(userJson)'
    BY <1>1 DEF JsonSound
  <2>2. QED
    BY <1>1, <1>5, <2>1 DEF Sound
<1>10. DailySound'
  <2>1. SUFFICES ASSUME alone, "daily" \in intact', DailyRests'
                 PROVE  dailyIndex = daily \/ (Booting' /\ daily # {})
    BY <1>1 DEF DailySound
  <2>2. CASE o \in Records
    BY <1>5, <2>1, <2>2
  <2>3. CASE o \notin Records
    <3>1. "daily" \in intact /\ DailyRests
      BY <1>1, <1>2, <2>1, <2>3 DEF DailyRests
    <3>2. Booting => Booting'
      BY <1>2 DEF Booting, Operations
    <3>3. QED
      BY <1>1, <2>1, <3>1, <3>2 DEF DailySound
  <2>4. QED
    BY <2>2, <2>3
<1>11. JsonStage(o)' /\ DailyStage(o)'
  BY <1>2 DEF JsonStage, DailyStage, DailyStages
<1>12. alone' => \A p \in Operations : JsonStage(p)' /\ DailyStage(p)'
  BY <1>1, <1>11, StepStages
<1>13. QED
  BY <1>4, <1>7, <1>8, <1>9, <1>10, <1>12 DEF MemInv

LEMMA RestoreKept ==
  ASSUME MemInv, CloudRestore
  PROVE  MemInv'
<1>1. /\ userJson.text = "absent" /\ userJson' = [EMPTY EXCEPT !.profile = CloudProfile] /\ profile' = CloudProfile
      /\ alone' = Quiet /\ intact' = (IF Quiet THEN intact ELSE {})
      /\ finished' = (IF Quiet THEN finished ELSE <<>>)
      /\ UNCHANGED <<at, data, held, seen, daily, dailyIndex>>
      /\ Written /\ Returned /\ Exclusion /\ JsonSound /\ DailySound
  <2>1. Overlap(~Quiet) /\ UNCHANGED <<data, at, held, dailyVars, crashes>>
    BY DEF CloudRestore
  <2>2. alone' = Quiet /\ intact' = (IF Quiet THEN intact ELSE {}) /\ finished' = (IF Quiet THEN finished ELSE <<>>)
    BY <2>1 DEF Overlap, Quiet
  <2>3. Written /\ Returned /\ Exclusion /\ JsonSound /\ DailySound
    BY DEF MemInv
  <2>4. QED
    BY <2>1, <2>2, <2>3 DEF CloudRestore, dailyVars
<1>2. /\ userJson'.text = "json" /\ userJson'.profile = CloudProfile /\ userJson'.conversations = <<>>
      /\ DocOK(userJson', Recorded)
  BY <1>1, EmptyDocs
<1>3. Recorded' = Recorded
  BY <1>1 DEF Recorded
<1>4. Written'
  BY <1>1, <1>2, <1>3 DEF Written
<1>5. finished = <<>> /\ finished' = <<>>
  BY <1>1 DEF Returned
<1>6. Returned'
  BY <1>1, <1>5 DEF Returned
<1>7. Quiet => \A p \in Operations : at'[p] \in Resting
  BY <1>1 DEF Quiet, InFlight, Resting
<1>8. Exclusion'
  <2>1. Quiet \in BOOLEAN
    BY DEF Quiet
  <2>2. QED
    BY <1>1, <1>7, <2>1 DEF Exclusion, InFlight, Resting
<1>9. JsonSound'
  BY <1>1, <1>2, <1>5, KeepsNone DEF JsonSound, Sound
<1>10. DailySound'
  <2>1. SUFFICES ASSUME Quiet, "daily" \in intact
                 PROVE  dailyIndex = daily
    BY <1>1 DEF DailySound
  <2>2. alone /\ DailyRests /\ ~Booting
    BY <1>1, <2>1 DEF Exclusion, Quiet, InFlight, DailyRests, Booting, Operations
  <2>3. QED
    BY <1>1, <2>1, <2>2 DEF DailySound
<1>11. alone' => \A p \in Operations : JsonStage(p)' /\ DailyStage(p)'
  BY <1>1, <1>7 DEF JsonStage, DailyStage, Resting, DailyStages
<1>12. QED
  BY <1>4, <1>6, <1>8, <1>9, <1>10, <1>11 DEF MemInv

\* The files as a crash finds them: a record may be in the one and not have returned.
LEMMA CrashKept ==
  ASSUME MemInv, Crash
  PROVE  MemInv'
<1>1. /\ alone' = TRUE /\ intact' \subseteq intact
      /\ "json" \in intact' => \A o \in Operations : at[o] # "write"
      /\ "daily" \in intact' => \A o \in Operations : at[o] # "writeDaily"
      /\ finished' = IF "json" \in intact' THEN finished ELSE <<>>
      /\ at' = [o \in Operations |-> AfterCrash(o)]
      /\ data' = [x \in Pages \cup {"mem"} |-> EMPTY]
      /\ UNCHANGED <<userJson, held, seen, daily, dailyIndex, profile>>
      /\ Written /\ Returned /\ Exclusion /\ JsonSound /\ DailySound
  BY DEF Crash, MemInv, dailyVars
<1>2. /\ "boot" \in Operations /\ "boot" \notin Records /\ Records \subseteq Operations
      /\ at \in [Operations -> Stages]
  BY <1>1, ProfileMemoryAssumption DEF Operations, Written
<1>3. /\ at'["boot"] = "load"
      /\ \A o \in Operations : o # "boot" => /\ at[o] \in Resting => at'[o] = at[o]
                                             /\ at[o] \notin Resting => at'[o] = "dead"
  BY <1>1, <1>2 DEF AfterCrash, InFlight, Resting
<1>4. \A o \in Operations : at'[o] \in Resting \/ (o = "boot" /\ at'[o] = "load")
  BY <1>3 DEF Resting
<1>5. at' \in [Operations -> Stages]
  BY <1>1, <1>4 DEF Resting, Stages
<1>6. Recorded \subseteq Recorded'
  BY <1>2, <1>3 DEF Recorded, Resting
<1>7. Written'
  <2>1. \A p \in Operations : at'[p] \in DailyStages => p \in Records
    BY <1>4 DEF DailyStages, Resting
  <2>2. DocOK(userJson, Recorded') /\ \A p \in Operations : DocOK(held[p], Recorded')
    BY <1>1, <1>6, DocGrows DEF Written
  <2>3. DocOK(EMPTY, Recorded')
    BY EmptyDocs
  <2>4. data' \in [Pages \cup {"mem"} -> Docs] /\ \A x \in Pages \cup {"mem"} : DocOK(data'[x], Recorded')
    BY <1>1, <2>3 DEF DocOK
  <2>5. QED
    BY <1>1, <1>5, <2>1, <2>2, <2>4 DEF Written
<1>8. Returned'
  <2>1. \A i \in 1..Len(finished) : at'[finished[i]] = "done"
    <3>1. \A i \in 1..Len(finished) : at[finished[i]] = "done" /\ finished[i] \in Records
      BY <1>1 DEF Returned
    <3>2. QED
      BY <1>2, <1>3, <3>1 DEF Resting
  <2>2. CASE "json" \in intact'
    BY <1>1, <2>1, <2>2 DEF Returned
  <2>3. CASE "json" \notin intact'
    <3>1. finished' = <<>> /\ Len(<<>>) = 0 /\ <<>> \in Seq(Records)
      BY <1>1, <2>3
    <3>2. QED
      BY <3>1 DEF Returned, Once
  <2>4. QED
    BY <2>2, <2>3
<1>9. Exclusion'
  BY <1>1, <1>4 DEF Exclusion, InFlight, Resting
<1>10. JsonSound'
  <2>1. SUFFICES ASSUME "json" \in intact'
                 PROVE  Sound(userJson)'
    BY DEF JsonSound
  <2>2. "json" \in intact /\ alone /\ finished' = finished
    BY <1>1, <2>1 DEF Exclusion
  <2>3. Sound(userJson)
    <3>1. CASE JsonRests
      BY <1>1, <2>2, <3>1 DEF JsonSound
    <3>2. CASE ~JsonRests
      <4>1. PICK o \in Operations : at[o] = "markdown"
        BY <1>1, <2>1, <3>2 DEF JsonRests
      <4>2. /\ userJson.text = "json" /\ Keeps(userJson.conversations, WillHave(o))
            /\ userJson.profile = profile
        BY <2>2, <4>1 DEF MemInv, JsonStage
      <4>3. finished \in Seq(Records)
        BY <1>1 DEF Returned
      <4>4. Keeps(userJson.conversations, finished)
        BY <4>2, <4>3, KeepsFewer DEF WillHave
      <4>5. QED
        BY <4>2, <4>4 DEF Sound
    <3>3. QED
      BY <3>1, <3>2
  <2>4. QED
    BY <1>1, <2>2, <2>3 DEF Sound
<1>11. DailySound'
  <2>1. SUFFICES ASSUME "daily" \in intact'
                 PROVE  dailyIndex = daily \/ daily # {}
    BY <1>1, <1>3 DEF DailySound, Booting
  <2>2. "daily" \in intact /\ alone
    BY <1>1, <2>1 DEF Exclusion
  <2>3. CASE DailyRests
    BY <1>1, <2>2, <2>3 DEF DailySound
  <2>4. CASE ~DailyRests
    <3>1. PICK o \in Operations : at[o] \in {"rereadDaily", "indexDaily"}
      BY <1>1, <2>1, <2>4 DEF DailyRests
    <3>2. QED
      BY <2>2, <3>1 DEF MemInv, DailyStage
  <2>5. QED
    BY <2>3, <2>4
<1>12. \A p \in Operations : JsonStage(p)' /\ DailyStage(p)'
  BY <1>4 DEF JsonStage, DailyStage, Resting, DailyStages
<1>13. QED
  BY <1>7, <1>8, <1>9, <1>10, <1>11, <1>12 DEF MemInv

-----------------------------------------------------------------------------
(* The theorem *)

LEMMA MemInvInit == MemInit => MemInv
<1> SUFFICES ASSUME MemInit
             PROVE  MemInv
  OBVIOUS
<1>1. /\ userJson = Unreadable("absent") /\ daily = {} /\ dailyIndex = {}
      /\ alone = TRUE /\ intact = {"json", "daily"} /\ finished = <<>> /\ profile = NoProfile
      /\ data = [x \in Pages \cup {"mem"} |-> EMPTY] /\ held = [o \in Operations |-> EMPTY]
      /\ seen = [o \in Operations |-> {}]
      /\ at \in [Operations -> Stages]
      /\ \A o \in Operations : at[o] = IF o = "boot" THEN "load" ELSE "new"
  BY DEF MemInit, Stages
<1>2. /\ DocOK(EMPTY, Recorded) /\ DocOK(userJson, Recorded)
      /\ userJson.text = "absent"
  BY <1>1, EmptyDocs
<1>3. userJson.conversations = <<>> /\ userJson.profile = NoProfile
  BY <1>2 DEF DocOK
<1>4. Written
  <2>1. \A o \in Operations : at[o] \in DailyStages => o \in Records
    BY <1>1 DEF DailyStages
  <2>2. data \in [Pages \cup {"mem"} -> Docs] /\ held \in [Operations -> Docs]
    BY <1>1, <1>2 DEF DocOK
  <2>3. QED
    BY <1>1, <1>2, <2>1, <2>2 DEF Written
<1>5. Returned
  <2>1. Len(<<>>) = 0 /\ <<>> \in Seq(Records)
    OBVIOUS
  <2>2. QED
    BY <1>1, <2>1 DEF Returned, Once
<1>6. Exclusion
  BY <1>1 DEF Exclusion, InFlight
<1>7. JsonSound
  BY <1>1, <1>2, <1>3, KeepsNone DEF JsonSound, Sound
<1>8. DailySound
  BY <1>1 DEF DailySound
<1>9. \A o \in Operations : JsonStage(o) /\ DailyStage(o)
  BY <1>1 DEF JsonStage, DailyStage, DailyStages
<1>10. QED
  BY <1>4, <1>5, <1>6, <1>7, <1>8, <1>9 DEF MemInv

LEMMA MemInvNext == MemInv /\ [MemNext]_memVars => MemInv'
<1> SUFFICES ASSUME MemInv, [MemNext]_memVars
             PROVE  MemInv'
  OBVIOUS
<1>1. CASE CloudRestore
  BY <1>1, RestoreKept
<1>2. CASE Crash
  BY <1>2, CrashKept
<1>3. ASSUME NEW o \in Operations,
             \/ Begin(o) \/ Read(o) \/ Change(o)
             \/ ReadDaily(o) \/ OpenDaily(o) \/ WriteDaily(o) \/ RereadDaily(o) \/ IndexDaily(o)
             \/ Serialise(o) \/ Open(o) \/ Write(o) \/ Return(o)
      PROVE  MemInv'
  BY <1>3, BeginKept, ReadKept, ChangeKept, DailyKept, SerialiseKept, OpenKept, WriteKept, ReturnKept
<1>4. CASE UNCHANGED memVars
  BY <1>4
     DEF MemInv, memVars, Written, Returned, Exclusion, JsonSound, DailySound, Recorded, InFlight, JsonRests,
         DailyRests, Booting, Sound, JsonStage, DailyStage, Upcoming, WillHave
<1>5. QED
  BY <1>1, <1>2, <1>3, <1>4 DEF MemNext

LEMMA MemInvKept == MemInv => MemoryKept
<1> SUFFICES ASSUME MemInv, Quiet
             PROVE  MemoryKept
  BY DEF MemoryKept, NothingLost, ProfileKept, DailyIndexed
<1>1. Written /\ Returned /\ Exclusion /\ JsonSound /\ DailySound
  BY DEF MemInv
<1>2. JsonRests /\ DailyRests /\ ~Booting
  BY DEF Quiet, InFlight, JsonRests, DailyRests, Booting, Operations
<1>3. "json" \in intact => Sound(userJson)
  BY <1>1, <1>2 DEF Exclusion, JsonSound
<1>4. ProfileKept
  BY <1>3 DEF ProfileKept, Sound
<1>5. DailyIndexed
  BY <1>1, <1>2 DEF DailyIndexed, DailySound, Exclusion
<1>6. NothingLost
  <2>1. PICK c : c = userJson.conversations
    OBVIOUS
  <2>2. c \in Seq(Records) /\ finished \in Seq(Records)
    BY <1>1, <2>1 DEF Written, DocOK, Docs, Returned
  <2>3. DOMAIN c = 1..Len(c) /\ DOMAIN finished = 1..Len(finished)
    BY <2>2
  <2>4. Keeps(c, finished)
    BY <1>1, <1>3, <2>1, KeepsNone DEF Sound, Returned
  <2>5. \A i \in DOMAIN finished :
          \/ \E j \in DOMAIN c : c[j] = finished[i]
          \/ Len(c) = MaxHistory /\ \A j \in DOMAIN c, h \in 1..i : c[j] # finished[h]
    BY <2>3, <2>4 DEF Keeps, Has
  <2>6. QED
    BY <2>1, <2>5 DEF NothingLost
<1>7. QED
  BY <1>4, <1>5, <1>6 DEF MemoryKept

\* For any number of records and set-up pages, any interleaving of their awaits
\* and any crashes: what the memory was given while no two operations
\* overlapped and no crash met an emptied file is in user.json, in the profile
\* and in the search index, unless newer entries took its place.
THEOREM MemoryStays == MemSpec => []MemoryKept
<1>1. MemSpec => []MemInv
  BY MemInvInit, MemInvNext, PTL DEF MemSpec
<1>2. QED
  BY <1>1, MemInvKept, PTL

\* The index and the bound on crashes, which MemInv does not mention.
Indexed == dailyIndex \subseteq Records /\ crashes \in 0..MaxCrashes

\* For any number of records, pages and crashes the files, the objects of the
\* processes and what the operations hold are of their types, and a history
\* never has more than MaxHistory entries.
THEOREM MemoryTyped == MemSpec => []MemTypeOK
<1>1. MemInit => Indexed
  BY ProfileMemoryAssumption DEF MemInit, Indexed
<1>2. MemInv /\ Indexed /\ [MemNext]_memVars => Indexed'
  <2> SUFFICES ASSUME MemInv, Indexed, [MemNext]_memVars
               PROVE  Indexed'
    OBVIOUS
  <2>1. daily \subseteq Records /\ seen \in [Operations -> SUBSET Records]
    BY DEF MemInv, Written
  <2>2. CASE CloudRestore
    BY <2>2 DEF CloudRestore, Indexed, dailyVars
  <2>3. CASE Crash
    BY <2>3, ProfileMemoryAssumption DEF Crash, Indexed, dailyVars
  <2>4. ASSUME NEW o \in Operations, Change(o)
        PROVE  Indexed'
    BY <2>1, <2>4 DEF Change, Indexed, history
  <2>5. ASSUME NEW o \in Operations, IndexDaily(o)
        PROVE  Indexed'
    BY <2>1, <2>5 DEF IndexDaily, Indexed, history
  <2>6. ASSUME NEW o \in Operations,
               \/ Begin(o) \/ Read(o) \/ ReadDaily(o) \/ OpenDaily(o) \/ WriteDaily(o) \/ RereadDaily(o)
               \/ Serialise(o) \/ Open(o) \/ Write(o) \/ Return(o)
        PROVE  UNCHANGED <<dailyIndex, crashes>>
    BY <2>6 DEF Begin, Read, ReadDaily, OpenDaily, WriteDaily, RereadDaily, Serialise, Open, Write, Return,
                history, dailyVars
  <2>7. CASE UNCHANGED <<dailyIndex, crashes>>
    BY <2>7 DEF Indexed
  <2>8. CASE UNCHANGED memVars
    BY <2>7, <2>8 DEF memVars
  <2>9. QED
    BY <2>2, <2>3, <2>4, <2>5, <2>6, <2>7, <2>8 DEF MemNext
<1>3. MemInv /\ Indexed => MemTypeOK
  <2> SUFFICES ASSUME MemInv, Indexed
               PROVE  MemTypeOK
    OBVIOUS
  <2>1. ASSUME NEW d, NEW R, DocOK(d, R)
        PROVE  d \in Documents
    <3>1. d \in Docs /\ Len(d.conversations) <= MaxHistory
      BY <2>1 DEF DocOK
    <3>2. PICK c : c = d.conversations
      OBVIOUS
    <3>3. c \in Seq(Records) /\ Len(c) \in Nat /\ Len(c) <= MaxHistory /\ MaxHistory \in Nat
      BY <3>1, <3>2, ProfileMemoryAssumption DEF Docs
    <3>4. c \in [1..Len(c) -> Records] /\ Len(c) \in 0..MaxHistory
      BY <3>3
    <3>5. c \in UNION { [1..n -> Records] : n \in 0..MaxHistory }
      BY <3>4
    <3>6. QED
      BY <3>1, <3>2, <3>5 DEF Docs, Documents
  <2>2. /\ userJson \in Documents
        /\ \A x \in Pages \cup {"mem"} : data[x] \in Documents
        /\ \A o \in Operations : held[o] \in Documents
    BY <2>1 DEF MemInv, Written
  <2>3. data \in [Pages \cup {"mem"} -> Documents] /\ held \in [Operations -> Documents]
    BY <2>2 DEF MemInv, Written
  <2>4. QED
    BY <2>2, <2>3 DEF MemInv, Written, Indexed, MemTypeOK
<1>4. QED
  BY <1>1, <1>2, <1>3, MemInvInit, MemInvNext, PTL DEF MemSpec
=============================================================================
