---------------------------- MODULE ProfileMemory ----------------------------
(***************************************************************************)
(* The JSON memory of the agent, memory/user.json, and the daily Markdown  *)
(* file beside it.  Every change loads the whole file, changes the object  *)
(* and writes the whole file again, with awaits in between.  The recorders *)
(* (the memory_write tool, the terminal loop) share the object of the      *)
(* process; each set-up page makes its own; boot loads the shared one and  *)
(* writes it back.  writeFile empties the file first and then writes; two  *)
(* writers of one file write over each other.                              *)
(***************************************************************************)
EXTENDS Naturals, Sequences, FiniteSets

CONSTANTS Records,      \* the calls of recordConversation, each its own entry
          Pages,        \* the set-up pages that call setProfile
          CloudProfile, \* the profile in the cloud backup
          NoProfile,
          MaxHistory,   \* the 200 conversations that are kept
          MaxCrashes    \* bound

ASSUME ProfileMemoryAssumption ==
  /\ Records \cap Pages = {}
  /\ "boot" \notin Records \cup Pages
  /\ MaxHistory \in Nat \ {0}
  /\ MaxCrashes \in Nat

VARIABLES
  userJson,    \* the file, as load() finds it
  data,        \* LongTermMemory.data of the shared object and of each page's
  at,          \* the await an operation stands at
  held,        \* the document an operation read or is about to write
  seen,        \* the entries of the daily file that it read
  daily,       \* the entries of the daily file
  dailyIndex,  \* the entries of the daily file in the search index
  crashes,
  alone,       \* history: no two operations have overlapped since all were idle
  intact,      \* history: the files no overlap and no crash has hurt, or an
               \* operation that was alone has since repaired
  finished,    \* history: the records that returned while user.json was intact
  profile      \* history: the profile saved last

memVars == <<userJson, data, at, held, seen, daily, dailyIndex, crashes, alone, intact, finished, profile>>

Operations == Records \cup Pages \cup {"boot"}
ObjectOf(o) == IF o \in Pages THEN o ELSE "mem"

\* What load() finds: a file that is not "json" does not parse.
EMPTY == [text |-> "json", profile |-> NoProfile, conversations |-> <<>>]
Unreadable(t) == [EMPTY EXCEPT !.text = t]

MemInit ==
  /\ userJson = Unreadable("absent")
  /\ data = [x \in Pages \cup {"mem"} |-> EMPTY]
  /\ at = [o \in Operations |-> IF o = "boot" THEN "load" ELSE "new"]
  /\ held = [o \in Operations |-> EMPTY]
  /\ seen = [o \in Operations |-> {}]
  /\ daily = {} /\ dailyIndex = {}
  /\ crashes = 0 /\ alone = TRUE /\ intact = {"json", "daily"}
  /\ finished = <<>> /\ profile = NoProfile

InFlight(o) == at[o] \notin {"new", "done", "dead"}
Quiet == \A o \in Operations : ~InFlight(o)

\* An operation begins; the others do or do not overlap with it.
Overlap(yes) ==
  /\ alone' = ~yes
  /\ intact' = IF yes THEN {} ELSE intact
  /\ finished' = IF yes THEN <<>> ELSE finished

Steps(o, from, to) == at[o] = from /\ at' = [at EXCEPT ![o] = to]
Hold(o, v) == held' = [held EXCEPT ![o] = v]
Note(o) == seen' = [seen EXCEPT ![o] = daily]

history == <<crashes, alone, intact, finished, profile>>
dailyVars == <<seen, daily, dailyIndex>>

-----------------------------------------------------------------------------
(* Load and change *)

Begin(o) ==
  /\ ~InFlight("boot")
  /\ Steps(o, "new", "load")
  /\ Overlap(~Quiet)
  /\ UNCHANGED <<userJson, data, held, dailyVars, crashes, profile>>

Read(o) ==
  /\ Steps(o, "load", "loaded")
  /\ Hold(o, userJson)
  /\ UNCHANGED <<userJson, data, dailyVars, history>>

\* A variant with a bug: a recorder relies on the object loaded at boot.
LoadedOnce(o) ==
  IF o \in Records THEN data["mem"] ELSE IF held[o].text = "json" THEN held[o] ELSE EMPTY

Loaded(o) == IF held[o].text = "json" THEN held[o] ELSE EMPTY

KeepLast(s) == SubSeq(s, IF Len(s) > MaxHistory THEN Len(s) - MaxHistory + 1 ELSE 1, Len(s))

\* The continuation of load: a recorder appends its entry and goes on to the
\* daily file, a page sets the profile, boot indexes the daily files and saves
\* only if there is a profile.
Change(o) ==
  /\ \/ /\ o \in Records
        /\ Steps(o, "loaded", "readDaily")
        /\ data' = [data EXCEPT !["mem"] = [Loaded(o) EXCEPT
                     !.conversations = KeepLast(Append(@, o))]]
        /\ UNCHANGED dailyIndex
     \/ /\ o \in Pages
        /\ Steps(o, "loaded", "mkdir")
        /\ data' = [data EXCEPT ![o] = [Loaded(o) EXCEPT !.profile = o]]
        /\ UNCHANGED dailyIndex
     \/ /\ o = "boot"
        /\ Steps(o, "loaded", IF Loaded(o).profile = NoProfile THEN "done" ELSE "mkdir")
        /\ data' = [data EXCEPT !["mem"] = Loaded(o)]
        /\ dailyIndex' = IF daily = {} THEN dailyIndex ELSE daily
  /\ UNCHANGED <<userJson, held, seen, daily, history>>

-----------------------------------------------------------------------------
(* The daily file: read, empty, write, read again, index *)

ReadDaily(o) ==
  /\ Steps(o, "readDaily", "openDaily")
  /\ Note(o)
  /\ UNCHANGED <<userJson, data, held, daily, dailyIndex, history>>

OpenDaily(o) ==
  /\ Steps(o, "openDaily", "writeDaily")
  /\ daily' = {}
  /\ UNCHANGED <<userJson, data, held, seen, dailyIndex, history>>

\* Where another writer was faster, the end of its text may remain.
WriteDaily(o) ==
  /\ Steps(o, "writeDaily", "rereadDaily")
  /\ \E rest \in SUBSET daily : daily' = seen[o] \cup {o} \cup rest
  /\ UNCHANGED <<userJson, data, held, seen, dailyIndex, history>>

RereadDaily(o) ==
  /\ Steps(o, "rereadDaily", "indexDaily")
  /\ Note(o)
  /\ UNCHANGED <<userJson, data, held, daily, dailyIndex, history>>

\* indexMarkdownFile: a blank file leaves the index alone.
IndexDaily(o) ==
  /\ Steps(o, "indexDaily", "mkdir")
  /\ dailyIndex' = IF seen[o] = {} THEN dailyIndex ELSE seen[o]
  /\ UNCHANGED <<userJson, data, held, seen, daily, history>>

-----------------------------------------------------------------------------
(* save() *)

\* After the mkdir the object is serialised, as it is by then.
Serialise(o) ==
  /\ Steps(o, "mkdir", "open")
  /\ Hold(o, data[ObjectOf(o)])
  /\ UNCHANGED <<userJson, data, dailyVars, history>>

Open(o) ==
  /\ Steps(o, "open", "write")
  /\ userJson' = Unreadable("empty")
  /\ UNCHANGED <<data, held, dailyVars, history>>

\* Over the longer text of another writer, the rest of that text remains.
Write(o) ==
  /\ Steps(o, "write", "markdown")
  /\ userJson' \in {held[o]} \cup IF userJson.text = "empty" THEN {} ELSE {Unreadable("torn")}
  /\ profile' = IF o \in Pages THEN o ELSE profile
  /\ UNCHANGED <<data, held, dailyVars, crashes, alone, intact, finished>>

\* must-b.md is written, which nothing reads back, and the call returns.
Return(o) ==
  /\ Steps(o, "markdown", "done")
  /\ finished' = IF o \in Records /\ alone THEN Append(finished, o) ELSE finished
  /\ intact' = IF alone THEN intact \cup {"json"} \cup (IF o \in Records THEN {"daily"} ELSE {})
               ELSE intact
  /\ profile' = IF "json" \in intact THEN profile ELSE userJson.profile
  /\ UNCHANGED <<userJson, data, held, dailyVars, crashes, alone>>

-----------------------------------------------------------------------------
(* CloudSync.restore writes a file that is absent, in one synchronous call. *)
CloudRestore ==
  /\ ~InFlight("boot")
  /\ userJson.text = "absent"
  /\ userJson' = [EMPTY EXCEPT !.profile = CloudProfile]
  /\ profile' = CloudProfile
  /\ Overlap(~Quiet)
  /\ UNCHANGED <<data, at, held, dailyVars, crashes>>

\* Where a call is after a crash; the process boots again.
AfterCrash(o) ==
  IF o = "boot" THEN "load" ELSE IF InFlight(o) THEN "dead" ELSE at[o]

Crash ==
  /\ crashes < MaxCrashes
  /\ crashes' = crashes + 1
  /\ alone' = TRUE
  /\ intact' = intact \ ((IF \E o \in Operations : at[o] = "write" THEN {"json"} ELSE {})
                \cup (IF \E o \in Operations : at[o] = "writeDaily" THEN {"daily"} ELSE {}))
  /\ finished' = IF "json" \in intact' THEN finished ELSE <<>>
  /\ at' = [o \in Operations |-> AfterCrash(o)]
  /\ data' = [x \in Pages \cup {"mem"} |-> EMPTY]
  /\ UNCHANGED <<userJson, held, dailyVars, profile>>

MemNext ==
  \/ CloudRestore \/ Crash
  \/ \E o \in Operations :
       \/ Begin(o) \/ Read(o) \/ Change(o)
       \/ ReadDaily(o) \/ OpenDaily(o) \/ WriteDaily(o) \/ RereadDaily(o) \/ IndexDaily(o)
       \/ Serialise(o) \/ Open(o) \/ Write(o) \/ Return(o)

MemSpec == MemInit /\ [][MemNext]_memVars

-----------------------------------------------------------------------------
Documents ==
  [text : {"json", "absent", "empty", "torn"},
   profile : Pages \cup {CloudProfile, NoProfile},
   conversations : UNION { [1..n -> Records] : n \in 0..MaxHistory }]

MemTypeOK ==
  /\ userJson \in Documents
  /\ data \in [Pages \cup {"mem"} -> Documents]
  /\ held \in [Operations -> Documents]
  /\ seen \in [Operations -> SUBSET Records]
  /\ daily \cup dailyIndex \subseteq Records
  /\ crashes \in 0..MaxCrashes

\* As long as no two operations overlap and no crash meets an emptied file, and
\* again for every record after such an accident, a record that returned is in
\* user.json, unless it gave way to newer ones; through the saves of the set-up
\* pages, restarts and a restore (long-term.ts:85-114, 175-179).
NothingLost ==
  Quiet =>
    \A i \in DOMAIN finished :
      \/ \E j \in DOMAIN userJson.conversations : userJson.conversations[j] = finished[i]
      \/ /\ Len(userJson.conversations) = MaxHistory
         /\ \A j \in DOMAIN userJson.conversations, h \in 1..i :
              userJson.conversations[j] # finished[h]

\* Under the same condition the profile that was saved last stays, whatever the
\* recorders and a boot write over it (long-term.ts:69-83, index.ts:258-263).
ProfileKept == Quiet /\ "json" \in intact => userJson.profile = profile

\* Under the same condition the search index holds the daily file, also after a
\* crash between the write of the file and its indexing (semantic.ts:135-167,
\* 170-180, 195-212).
DailyIndexed == Quiet /\ "daily" \in intact => dailyIndex = daily

\* The memory keeps what it was given, in all three of its places.
MemoryKept == NothingLost /\ ProfileKept /\ DailyIndexed
=============================================================================
