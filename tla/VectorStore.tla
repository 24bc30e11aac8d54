----------------------------- MODULE VectorStore -----------------------------
(***************************************************************************)
(* The long-term memory's SQLite store: the entries, and the statistics    *)
(* that search weighs terms with (corpus_stats and meta.doc_count).        *)
(* insert and deleteById are sequences of autocommitted statements without *)
(* a transaction, so an action is one statement; a statement may fail      *)
(* (database is locked, disk full) or be the last one before a crash, and  *)
(* then the rest of the operation is never done.  The calls are            *)
(* synchronous and one process has the file open: they never overlap.      *)
(***************************************************************************)
EXTENDS Naturals, FiniteSets

CONSTANTS Terms,       \* the terms that contents are made of
          MaxScanned,  \* how many rows a search reads at most: 2000
          ResultLimit, \* how many entries a search returns at most: 8 unless told
          MaxEntries,  \* bound: how many entries are ever inserted
          MaxFaults    \* bound: how many operations break off

ASSUME StoreAssumption ==
  /\ MaxScanned \in Nat \ {0}
  /\ ResultLimit \in Nat \ {0}
  /\ MaxEntries \in Nat
  /\ MaxFaults \in Nat

VARIABLES
  entries,    \* ids of the rows of vector_entries
  tokens,     \* the terms of an entry, by id
  lastId,     \* the AUTOINCREMENT counter
  docFreq,    \* corpus_stats: doc_freq by term
  docCount,   \* meta: doc_count
  op,         \* the operation under way: which, on which entry
  todo,       \* terms whose statistics the operation has still to update
  faults      \* how many operations broke off

rows  == <<entries, tokens, lastId>>
stats == <<docFreq, docCount>>
ops   == <<op, todo>>
vars  == <<rows, stats, ops, faults>>

Ids == 1..MaxEntries
Idle == [kind |-> "idle", id |-> 0]
Kinds == {"insert", "delete", "erase"}

TypeOK ==
  /\ entries \subseteq 1..lastId
  /\ tokens \in [Ids -> SUBSET Terms]
  /\ lastId \in 0..MaxEntries
  /\ docFreq \in [Terms -> Nat]
  /\ docCount \in Nat
  /\ op \in {Idle} \cup [kind : Kinds, id : Ids]
  /\ todo \in SUBSET Terms
  /\ faults \in Nat

Init ==
  /\ entries = {}
  /\ tokens = [i \in Ids |-> {}]
  /\ lastId = 0
  /\ docFreq = [t \in Terms |-> 0]
  /\ docCount = 0
  /\ op = Idle
  /\ todo = {}
  /\ faults = 0

\* MAX(0, n - 1)
Decremented(n) == IF n = 0 THEN 0 ELSE n - 1

-----------------------------------------------------------------------------
(* insert(content, category, tags) *)

InsertRow(ts) ==
  /\ op = Idle
  /\ lastId < MaxEntries
  /\ lastId' = lastId + 1
  /\ entries' = entries \cup {lastId + 1}
  /\ tokens' = [tokens EXCEPT ![lastId + 1] = ts]
  /\ op' = [kind |-> "insert", id |-> lastId + 1]
  /\ todo' = ts
  /\ UNCHANGED <<stats, faults>>

UpsertTerm(t) ==
  /\ op.kind = "insert"
  /\ t \in todo
  /\ docFreq' = [docFreq EXCEPT ![t] = @ + 1]
  /\ todo' = todo \ {t}
  /\ UNCHANGED <<rows, docCount, op, faults>>

IncrementCount ==
  /\ op.kind = "insert"
  /\ todo = {}
  /\ docCount' = docCount + 1
  /\ op' = Idle
  /\ UNCHANGED <<rows, docFreq, todo, faults>>

-----------------------------------------------------------------------------
(* deleteById(id) *)

\* A variant with a bug: the row goes before its statistics.
ReadRowDeletesFirst(i) ==
  /\ op = Idle
  /\ i \in entries
  /\ entries' = entries \ {i}
  /\ op' = [kind |-> "delete", id |-> i]
  /\ todo' = tokens[i]
  /\ UNCHANGED <<tokens, lastId, stats, faults>>

\* An id that is not found is answered with false and nothing else happens.
ReadRow(i) ==
  /\ op = Idle
  /\ i \in entries
  /\ op' = [kind |-> "delete", id |-> i]
  /\ todo' = tokens[i]
  /\ UNCHANGED <<rows, stats, faults>>

DecrementTerm(t) ==
  /\ op.kind = "delete"
  /\ t \in todo
  /\ docFreq' = [docFreq EXCEPT ![t] = Decremented(@)]
  /\ todo' = todo \ {t}
  /\ UNCHANGED <<rows, docCount, op, faults>>

DecrementCount ==
  /\ op.kind = "delete"
  /\ todo = {}
  /\ docCount' = Decremented(docCount)
  /\ op' = [op EXCEPT !.kind = "erase"]
  /\ UNCHANGED <<rows, docFreq, todo, faults>>

DeleteRow ==
  /\ op.kind = "erase"
  /\ entries' = entries \ {op.id}
  /\ op' = Idle
  /\ UNCHANGED <<tokens, lastId, stats, todo, faults>>

-----------------------------------------------------------------------------
\* The next statement throws, or the process dies before it.
BreakOff ==
  /\ op # Idle
  /\ faults < MaxFaults
  /\ faults' = faults + 1
  /\ op' = Idle
  /\ todo' = {}
  /\ UNCHANGED <<rows, stats>>

Next ==
  \/ \E ts \in SUBSET Terms : InsertRow(ts)
  \/ \E t \in Terms : UpsertTerm(t) \/ DecrementTerm(t)
  \/ IncrementCount
  \/ \E i \in Ids : ReadRow(i)
  \/ DecrementCount
  \/ DeleteRow
  \/ BreakOff

Spec == Init /\ [][Next]_vars

-----------------------------------------------------------------------------
(* search(query, limit, category): the entries a query of the terms q returns.
   C are the rows the category keeps, all of them when none is given. *)

\* A variant with a bug: log(N / (df + 1)) > 0.
WeighedUnsmoothed(t) == docFreq[t] + 1 < (IF docCount = 0 THEN 1 ELSE docCount)

\* log((N + 1) / (df + 1)) > 0, with N = docCount || 1.  A term that is not
\* weighed positively is dropped from the query.
Weighed(t) == docFreq[t] < (IF docCount = 0 THEN 1 ELSE docCount)

\* ORDER BY id DESC LIMIT 2000: older rows are not read.
Scanned(C) == { i \in C : Cardinality({ j \in C : j > i }) < MaxScanned }

\* The rows with a score above 0.
Matching(q, C) == { i \in Scanned(C) : \E t \in q \cap tokens[i] : Weighed(t) }

\* The best ResultLimit of them.  Scores are not modelled: any choice may be the
\* best.
search(q, C) ==
  IF Cardinality(Matching(q, C)) <= ResultLimit
  THEN {Matching(q, C)}
  ELSE { S \in SUBSET Matching(q, C) : Cardinality(S) = ResultLimit }

-----------------------------------------------------------------------------
(* Properties *)

Containing(t) == { i \in entries : t \in tokens[i] }
Quiescent == op = Idle

\* As long as no operation broke off, the statistics between operations are
\* those of the entries (vector-store.ts:104-127, 237-263).
StatsExact ==
  Quiescent /\ faults = 0 =>
    /\ \A t \in Terms : docFreq[t] = Cardinality(Containing(t))
    /\ docCount = Cardinality(entries)

\* The statistics never count more than there is, wherever an operation breaks
\* off: the order of the statements (row first on insert, row last on delete)
\* makes every error an undercount.
NeverOvercounts ==
  /\ \A t \in Terms : docFreq[t] <= Cardinality(Containing(t))
  /\ docCount <= Cardinality(entries)

\* Each operation that broke off costs at most one count of a term and one of
\* the entries, even if it is tried again.
DriftBounded ==
  Quiescent =>
    /\ \A t \in Terms : Cardinality(Containing(t)) <= docFreq[t] + faults
    /\ Cardinality(entries) <= docCount + faults

\* What search can rely on: wherever insert or deleteById breaks off
\* (vector-store.ts:104-127, 237-263), the statistics err on one side only, by
\* no more than what broke off, and by nothing if nothing did.
StatsSound == NeverOvercounts /\ DriftBounded /\ StatsExact

\* With exact statistics a term that distinguishes entries is searchable, whatever
\* category the search is for: the result is full, or it has every entry with the
\* term among the rows that are read (vector-store.ts:135-195).
DistinctiveTermFound ==
  Quiescent /\ faults = 0 =>
    \A t \in Terms, C \in SUBSET entries :
      Containing(t) # entries =>
        \A found \in search({t}, C) :
          \/ Cardinality(found) = ResultLimit
          \/ Scanned(C) \cap Containing(t) \subseteq found
=============================================================================
