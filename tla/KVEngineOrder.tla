----------------------------- MODULE KVEngineOrder -----------------------------
(***************************************************************************)
(* Replay knows the order of writes from file ids alone, so every new file *)
(* must get an id above all others and the active file must have the       *)
(* largest.  Both hold unless an I/O call fails: a commit that fails after *)
(* a rename leaves a file above the active one.                            *)
(***************************************************************************)
EXTENDS KVEngineProofs, FiniteSetTheorems

USE DataAssumption, NilAssumption, EngineAssumption
USE DEF diskVars, fileVars, loadVars, mergeVars, localVars, threadVars, boundVars

Renaming == \E t \in Threads : pc[t] = "rename"

\* The last id is the largest in the directory, and but for the renames of a
\* commit it is that of the active file.
OrderOK ==
  status \in {"loading", "up"} =>
    /\ \A f \in onDisk : f <= lastId
    /\ ~Renaming => lastId = active

\* The actions that change the directory, the ids or the process.
LEMMA FrameOrder ==
  ASSUME IoErrors = FALSE
  PROVE  Next => \/ Open \/ Crash
                 \/ \E t \in Threads : Rotate(t) \/ Rename(t) \/ SwapActive(t) \/ RemoveCandidate(t)
                 \/ UNCHANGED <<onDisk, active, lastId, status>>
BY FrameStore DEF storeVars, Count, AppendRecord, CallError, Index, Unindex, Applied,
  CompareExchange, Relocate, RenameError, Release

\* A commit ends its renames by making a new file the active one.
LEMMA RenamingStays ==
  ASSUME IoErrors = FALSE, IInv, Next, Renaming
  PROVE  Renaming' \/ Crash \/ \E t \in Threads : SwapActive(t)
<1>1. PICK u \in Threads : pc[u] = "rename"
  BY DEF Renaming
<1>2. CASE Same(u)
  BY <1>1, <1>2 DEF Same, Renaming
<1>3. CASE Call(u)
  BY <1>1, <1>3 DEF Call, CallPut, CallDelete, CallGet, Begin
<1>4. CASE Step(u)
  <2>1. CASE ~MergeStep(u)
    BY <1>1, <1>4, <2>1 DEF Step, Lookup, Read, Check, Reread, ReadOld, ReadOldPosition,
      Count, Ensure, Rotate, AppendRecord, CallError, Index, Unindex, Trigger,
      CompareExchange
  <2>2. CASE MergeStep(u) /\ ~SwapActive(u)
    <3>1. Rename(u)
      BY <1>1, <2>2 DEF MergeStep, Select, ScanOpen, ScanRecord, BeginCommit, Recheck,
        Relocate, BeginCleanup, RemoveCandidate, EndMerge, MergeError, RenameError, Release
    <3>2. pc' = pc
      BY <3>1 DEF Rename
    <3> QED
      BY <1>1, <3>2 DEF Renaming
  <2> QED
    BY <2>1, <2>2
<1> QED
  BY <1>2, <1>3, <1>4, FrameThread DEF IInv, TypeOK

\* The ids the engine gives to new files are the one after the last.
LEMMA FreshIds ==
  ASSUME IInv, NEW t \in Threads
  PROVE  /\ Rename(t) => MergedId = lastId + 1
         /\ SwapActive(t) => NewActiveId = lastId + 1
         /\ status = "up" \/ ~(Rotate(t) \/ Rename(t) \/ SwapActive(t) \/ RemoveCandidate(t))
<1>1. lastId \in Nat /\ start \in Nat /\ moved \in Nat /\ cur \in Nat
  BY DEF IInv, TypeOK, StoreTypes, MergeTypes, FileIds
<1>2. pc[t] = "rename" => start + moved = lastId + 1 /\ moved <= cur + 1
  BY DEF IInv, CommitOK
<1>3. Rename(t) => MergedId = lastId + 1
  BY <1>2 DEF Rename, MergedId
<1>4. SwapActive(t) => NewActiveId = lastId + 1
  BY <1>1, <1>2 DEF SwapActive, NewActiveId
<1>5. pc[t] # "idle" => status = "up"
  BY DEF IInv, ThreadsOK
<1> QED
  BY <1>3, <1>4, <1>5 DEF Rotate, Rename, SwapActive, RemoveCandidate

\* A step that adds the successor of the last id to the directory.
LEMMA AddedId ==
  ASSUME IInv, \A f \in onDisk : f <= lastId,
         onDisk' = onDisk \cup {lastId + 1}, lastId' = lastId + 1
  PROVE  \A f \in onDisk' : f <= lastId'
<1>1. lastId \in Nat /\ onDisk \subseteq Nat
  BY DEF IInv, TypeOK, StoreTypes, FileIds
<1> QED
  BY <1>1

\* Without I/O errors every step keeps the order.
LEMMA OrderStep ==
  ASSUME IoErrors = FALSE, IInv, OrderOK, Next
  PROVE  OrderOK'
<1>1. CASE OpenFiles
  <2>1. onDisk' \subseteq FileIds
    BY <1>1, Zero DEF OpenFiles, IInv, TypeOK, StoreTypes
  <2>2. lastId' = active' /\ \A f \in onDisk' : f <= lastId'
    BY <1>1 DEF OpenFiles
  <2> QED
    BY <2>2 DEF OrderOK
<1>2. CASE LoadRecord \/ LoadFileEnd
  <2>1. UNCHANGED <<onDisk, active, lastId, pc>> /\ status = "loading"
    BY <1>2 DEF LoadRecord, LoadFileEnd
  <2> QED
    BY <2>1 DEF OrderOK, Renaming
<1>3. CASE Crash
  BY <1>3 DEF Crash, OrderOK
<1>4. ASSUME NEW t \in Threads, Rotate(t) PROVE OrderOK'
  <2>1. ~Renaming /\ status = "up"
    BY <1>4, FreshIds DEF Rotate, Renaming, Committing, CommitPCs
  <2>2. lastId = active /\ \A f \in onDisk : f <= lastId
    BY <2>1 DEF OrderOK
  <2>3. CASE UNCHANGED <<onDisk, fileVars>>
    BY <2>2, <2>3 DEF OrderOK
  <2>4. CASE ~UNCHANGED <<onDisk, fileVars>>
    <3>1. onDisk' = onDisk \cup {lastId + 1} /\ lastId' = lastId + 1 /\ active' = lastId'
      BY <1>4, <2>4 DEF Rotate, NextFileId
    <3> QED
      BY <2>2, <3>1, AddedId DEF OrderOK
  <2> QED
    BY <2>3, <2>4
<1>5. ASSUME NEW t \in Threads, Rename(t) PROVE OrderOK'
  <2>1. status = "up" /\ pc' = pc /\ pc[t] = "rename"
    BY <1>5, FreshIds DEF Rename
  <2>2. onDisk' = onDisk \cup {lastId + 1} /\ lastId' = lastId + 1
    BY <1>5, FreshIds DEF Rename
  <2>3. \A f \in onDisk' : f <= lastId'
    BY <2>1, <2>2, AddedId DEF OrderOK
  <2> QED
    BY <2>1, <2>3 DEF OrderOK, Renaming
<1>6. ASSUME NEW t \in Threads, SwapActive(t) PROVE OrderOK'
  <2>1. status = "up"
    BY <1>6, FreshIds
  <2>2. onDisk' = onDisk \cup {lastId + 1} /\ lastId' = lastId + 1 /\ active' = lastId'
    BY <1>6, FreshIds DEF SwapActive
  <2> QED
    BY <2>1, <2>2, AddedId DEF OrderOK
<1>7. ASSUME NEW t \in Threads, RemoveCandidate(t) PROVE OrderOK'
  <2>1. onDisk' \subseteq onDisk /\ UNCHANGED <<active, lastId, status, pc>>
    BY <1>7 DEF RemoveCandidate
  <2> QED
    BY <2>1 DEF OrderOK, Renaming
<1>8. CASE UNCHANGED <<onDisk, active, lastId, status>>
  <2>1. \A t \in Threads : ~SwapActive(t)
    <3> SUFFICES ASSUME NEW t \in Threads, SwapActive(t) PROVE FALSE
      OBVIOUS
    <3>1. lastId \in Nat /\ lastId' = lastId + 1
      BY FreshIds DEF SwapActive, IInv, TypeOK, StoreTypes, FileIds
    <3> QED
      BY <1>8, <3>1
  <2>2. ~Crash \/ status = "down"
    BY <1>8 DEF Crash
  <2> QED
    BY <1>8, <2>1, <2>2, RenamingStays DEF OrderOK
<1> QED
  BY <1>1, <1>2, <1>3, <1>4, <1>5, <1>6, <1>7, <1>8, FrameOrder DEF Open

\* Without I/O errors the order holds in every reachable state.
LEMMA OrderInvariant ==
  ASSUME IoErrors = FALSE
  PROVE  Spec => [](IInv /\ OrderOK)
<1>1. Init => OrderOK
  BY DEF Init, OrderOK
<1>2. IInv /\ OrderOK /\ [Next]_vars => OrderOK'
  <2>1. ASSUME OrderOK, UNCHANGED vars PROVE OrderOK'
    BY <2>1 DEF vars, OrderOK, Renaming
  <2> QED
    BY <2>1, OrderStep
<1> QED
  BY <1>1, <1>2, InitInv, NextInv, PTL DEF Spec

\* As long as no I/O call fails, the active file is the one with the largest
\* id: a restart appends to the file that was written last.
THEOREM ActiveIsOnTop ==
  ASSUME IoErrors = FALSE
  PROVE  Spec => []ActiveOnTop
<1>1. IInv /\ OrderOK => ActiveOnTop
  <2> SUFFICES ASSUME IInv, OrderOK, status = "up", ~Committing
               PROVE active \notin older /\ \A f \in onDisk \ {active} : f < active
    BY DEF ActiveOnTop
  <2>1. ~Renaming
    BY DEF Committing, CommitPCs, Renaming
  <2>2. active \in Nat /\ onDisk \subseteq Nat
    BY DEF IInv, TypeOK, StoreTypes, FileIds
  <2>3. active = lastId /\ \A f \in onDisk : f <= lastId
    BY <2>1 DEF OrderOK
  <2>4. active \notin older
    BY DEF IInv, FilesOK
  <2> QED
    BY <2>2, <2>3, <2>4
<1> QED
  BY <1>1, OrderInvariant, PTL

\* As long as no I/O call fails, every file that is created or written, but for
\* the active one, gets an id above all others: no rename replaces a file, and
\* the order of the ids is the order in which the files were made.
THEOREM NewIdsAreOnTop ==
  ASSUME IoErrors = FALSE
  PROVE  Spec => NewIdsOnTop
<1>1. ASSUME IInv, OrderOK, Next, NEW f \in FileIds \ {active},
             disk'[f] # disk[f] \/ f \in onDisk' \ onDisk, NEW g \in onDisk
      PROVE  g < f
  <2>1. onDisk \subseteq Nat /\ lastId \in Nat /\ disk \in [FileIds -> File]
    BY <1>1 DEF IInv, TypeOK, StoreTypes, FileIds
  <2>2. ASSUME NEW t \in Threads, Rotate(t) \/ Rename(t) \/ SwapActive(t) PROVE g < f
    <3>1. status = "up"
      BY <1>1, <2>2, FreshIds
    <3>2. f = lastId + 1
      BY <1>1, <2>1, <2>2, FreshIds DEF Rotate, NextFileId, Rename, SwapActive
    <3> QED
      BY <1>1, <2>1, <3>1, <3>2 DEF OrderOK
  <2>3. ~Open
    BY <1>1 DEF Open, OpenFiles, LoadRecord, LoadFileEnd
  <2>4. \A t \in Threads : ~(AppendRecord(t) \/ RemoveCandidate(t))
    BY <1>1, <2>1 DEF AppendRecord, Appended, RemoveCandidate
  <2> QED
    BY <1>1, <2>2, <2>3, <2>4, FrameStore DEF storeVars, Crash, Count, CallError, Index,
      Unindex, Applied, CompareExchange, Relocate, RenameError, Release
<1>2. IInv /\ OrderOK /\ [Next]_vars =>
        [\A f \in FileIds \ {active} :
           disk'[f] # disk[f] \/ f \in onDisk' \ onDisk => \A g \in onDisk : g < f]_vars
  BY <1>1
<1> QED
  BY <1>2, OrderInvariant, PTL DEF Spec, NewIdsOnTop

-------------------------------------------------------------------------------
(***************************************************************************)
(* Replay: the index is that of the records read so far.                   *)
(***************************************************************************)

\* Where the records of a key are, in any disk and directory.
PlacesIn(d, dir, k) ==
  UNION {{Pos(f, i) : i \in {j \in DOMAIN d[f].recs : d[f].recs[j].key = k}} : f \in dir}

IsPlace(d, dir, k, p) ==
  /\ p = Pos(p.file, p.off) /\ p.file \in dir /\ p.file \in Nat /\ p.off \in Nat /\ 1 <= p.off
  /\ p.off \in 1 .. Len(d[p.file].recs) /\ d[p.file].recs[p.off].key = k

LEMMA Places ==
  ASSUME NEW d \in [FileIds -> File], NEW dir \in SUBSET FileIds, NEW k, NEW p
  PROVE  p \in PlacesIn(d, dir, k) <=> IsPlace(d, dir, k, p)
<1>1. \A f \in dir : DOMAIN d[f].recs = 1 .. Len(d[f].recs)
  <2> SUFFICES ASSUME NEW f \in dir PROVE d[f].recs \in Seq(Record)
    OBVIOUS
  <2> QED
    BY DEF File
<1>2. \A f, i : Pos(f, i).file = f /\ Pos(f, i).off = i
  BY DEF Pos
<1>3. \A f \in dir : f \in Nat
  BY DEF FileIds
<1>4. \A f \in dir : \A i \in 1 .. Len(d[f].recs) : i \in Nat /\ 1 <= i
  OBVIOUS
<1>5. ASSUME p \in PlacesIn(d, dir, k) PROVE IsPlace(d, dir, k, p)
  <2>1. PICK f \in dir : p \in {Pos(f, i) : i \in {j \in DOMAIN d[f].recs : d[f].recs[j].key = k}}
    BY <1>5 DEF PlacesIn
  <2>2. PICK i \in DOMAIN d[f].recs : p = Pos(f, i) /\ d[f].recs[i].key = k
    BY <2>1
  <2>3. p.file = f /\ p.off = i
    BY <1>2, <2>2
  <2> QED
    BY <1>1, <1>3, <1>4, <2>2, <2>3 DEF IsPlace
<1>6. ASSUME IsPlace(d, dir, k, p) PROVE p \in PlacesIn(d, dir, k)
  <2>1. p.off \in {j \in DOMAIN d[p.file].recs : d[p.file].recs[j].key = k}
    BY <1>1, <1>6 DEF IsPlace
  <2> QED
    BY <1>6, <2>1 DEF IsPlace, PlacesIn
<1> QED
  BY <1>5, <1>6

LEMMA RecordPlaces ==
  ASSUME StoreTypes, NEW k, NEW p
  PROVE  p \in RecordsOf(k) <=> IsPlace(disk, onDisk, k, p)
<1>1. RecordsOf(k) = PlacesIn(disk, onDisk, k)
  BY DEF RecordsOf, PlacesIn
<1> QED
  BY <1>1, Places DEF StoreTypes

LEMMA RecordPlacesNext ==
  ASSUME StoreTypes', NEW k, NEW p
  PROVE  p \in RecordsOf(k)' <=> IsPlace(disk', onDisk', k, p)
<1>1. RecordsOf(k)' = PlacesIn(disk', onDisk', k)
  BY DEF RecordsOf, PlacesIn
<1> QED
  BY <1>1, Places DEF StoreTypes

\* A record that comes after all others decides.
LEMMA LastDecides ==
  ASSUME NEW S, NEW p, \A q \in S : Before(q, p) /\ ~Before(p, q), ~Before(p, p)
  PROVE  LiveLast(S \cup {p}) = IF RecordAt(p).val = Deleted THEN {} ELSE {p}
BY DEF LiveLast

\* Start-up opens the files of the directory and begins with the first.
LEMMA OpenReplays == IInv /\ OpenFiles => ReplayOK'
<1> SUFFICES ASSUME IInv, OpenFiles PROVE ReplayOK'
  OBVIOUS
<1> USE DEF IInv, TypeOK
<1>1. /\ onDisk' = older' \cup {active'} /\ active' \notin older' /\ loadOff' = 1 /\ index' = NoIndex
      /\ \A f \in onDisk' : loadFile' <= f /\ f <= active'
  BY DEF OpenFiles, FilesOK
<1>2. Next
  BY DEF Next, Open
<1>3. StoreTypes' /\ LoadTypes'
  BY <1>2, StoreTypesStep, LoadTypesStep
<1>4. onDisk' \subseteq Nat /\ active' \in Nat /\ loadFile' \in Nat
  BY <1>3 DEF StoreTypes, LoadTypes, FileIds
<1>5. \A f \in older' : f < active'
  BY <1>1, <1>4
<1>6. ASSUME NEW k \in Keys PROVE Replayed(k)' = {}
  <2> SUFFICES ASSUME NEW p \in RecordsOf(k)', Before(p, Pos(loadFile', loadOff')) PROVE FALSE
    BY DEF Replayed, Before
  <2>1. p.file \in onDisk' /\ p.file \in Nat /\ p.off \in Nat /\ 1 <= p.off
    BY <1>3, RecordPlacesNext DEF IsPlace
  <2> QED
    BY <1>1, <1>4, <2>1 DEF Before, Pos
<1> QED
  BY <1>1, <1>5, <1>6 DEF ReplayOK, LiveLast, NoIndex

\* While it replays start-up changes no file.
LEMMA LoadingSteps ==
  ASSUME IInv, Next, status' = "loading"
  PROVE  OpenFiles \/ (status = "loading" /\ (LoadRecord \/ LoadFileEnd))
<1>1. \A t \in Threads : ~(Call(t) \/ Step(t))
  BY StatusStep
<1>2. ~Crash
  BY DEF Crash
<1>3. ~Finished
  BY DEF Finished, vars
<1> QED
  BY <1>1, <1>2, <1>3 DEF Next, Open, LoadRecord, LoadFileEnd

\* What a turn of the replay loop adds, and what the end of a file does.
LEMMA LoadReplays ==
  ASSUME IInv, ReplayOK, LoadRecord
  PROVE  ReplayOK'
<1> USE DEF IInv, TypeOK
<1>1. PICK r, p : r = disk[loadFile].recs[loadOff] /\ p = Pos(loadFile, loadOff)
  OBVIOUS
<1>2. /\ status = "loading" /\ UNCHANGED <<disk, onDisk, fileVars, loadFile>> /\ loadOff' = loadOff + 1
      /\ index' = [index EXCEPT ![r.key] = IF r.val = Deleted THEN Nil ELSE p]
      /\ loadOff <= Len(disk[loadFile].recs)
  BY <1>1 DEF LoadRecord, ApplyRecord
<1>3. /\ loadFile \in onDisk /\ disk[loadFile].recs \in Seq(Record)
      /\ loadOff \in 1 .. Len(disk[loadFile].recs) /\ r \in Record
  <2>1. loadFile \in onDisk
    BY <1>2 DEF ReplayOK, FilesOK
  <2>2. disk[loadFile].recs \in Seq(Record)
    BY DEF LoadTypes, StoreTypes, File
  <2>3. loadOff \in 1 .. Len(disk[loadFile].recs)
    BY <1>2, <2>2 DEF LoadTypes, FilesOK
  <2> QED
    BY <1>1, <2>1, <2>2, <2>3
<1>4. p.file = loadFile /\ p.off = loadOff /\ loadFile \in Nat /\ loadOff \in Nat
  BY <1>1 DEF Pos, LoadTypes, FileIds
<1>5. p \in Position /\ p # Nil
  BY <1>1, <1>3 DEF Position, Pos, LoadTypes
<1>6. ASSUME NEW k \in Keys
      PROVE  Replayed(k)' = IF k = r.key THEN Replayed(k) \cup {p} ELSE Replayed(k)
  <2>1. RecordsOf(k)' = RecordsOf(k)
    BY <1>2 DEF RecordsOf
  <2>2. p \in RecordsOf(k) <=> k = r.key
    BY <1>1, <1>3, <1>4, RecordPlaces DEF IsPlace
  <2>3. ASSUME NEW q \in RecordsOf(k)
        PROVE  Before(q, Pos(loadFile, loadOff + 1)) <=> Before(q, p) \/ q = p
    <3>1. q = Pos(q.file, q.off) /\ q.file \in Nat /\ q.off \in Nat
      BY <2>3, RecordPlaces DEF IsPlace
    <3> QED
      BY <1>1, <1>4, <3>1 DEF Before, Pos
  <2>4. ~Before(p, p)
    BY <1>4 DEF Before
  <2>5. Replayed(k)' = {q \in RecordsOf(k) : Before(q, Pos(loadFile, loadOff + 1))}
    BY <1>2, <2>1 DEF Replayed, Before
  <2> QED
    BY <1>1, <2>2, <2>3, <2>5 DEF Replayed
<1>7. ASSUME NEW k \in Keys, NEW q \in Replayed(k) PROVE Before(q, p) /\ ~Before(p, q)
  <2>1. q.file \in Nat /\ q.off \in Nat /\ Before(q, p)
    BY <1>1, <1>7, RecordPlaces DEF Replayed, IsPlace
  <2> QED
    BY <1>4, <2>1 DEF Before
<1>8. ASSUME NEW k \in Keys
      PROVE  LET live == LiveLast(Replayed(k)')
             IN IF index'[k] = Nil THEN live = {} ELSE index'[k] \in live
  <2>1. CASE k # r.key
    <3>1. index'[k] = index[k] /\ Replayed(k)' = Replayed(k)
      BY <1>2, <1>6, <2>1 DEF StoreTypes
    <3> QED
      BY <1>2, <3>1 DEF ReplayOK
  <2>2. CASE k = r.key
    <3>1. Replayed(k)' = Replayed(k) \cup {p}
      BY <1>6, <2>2
    <3>2. LiveLast(Replayed(k) \cup {p}) = IF RecordAt(p).val = Deleted THEN {} ELSE {p}
      <4>1. \A q \in Replayed(k) : Before(q, p) /\ ~Before(p, q)
        BY <1>7
      <4>2. ~Before(p, p)
        BY <1>4 DEF Before
      <4> QED
        BY <4>1, <4>2, LastDecides
    <3>3. RecordAt(p) = r
      BY <1>1, <1>4 DEF RecordAt
    <3>4. index'[k] = IF r.val = Deleted THEN Nil ELSE p
      BY <1>2, <2>2 DEF StoreTypes
    <3> QED
      BY <1>5, <3>1, <3>2, <3>3, <3>4
  <2> QED
    BY <2>1, <2>2
<1>9. \A S : LiveLast(S)' = LiveLast(S)
  BY <1>2 DEF LiveLast, RecordAt
<1> QED
  BY <1>2, <1>8, <1>9 DEF ReplayOK, LiveLast, RecordAt

\* The end of a file, but for the last one, replays nothing.
LEMMA FileEndReplays ==
  ASSUME IInv, ReplayOK, LoadFileEnd
  PROVE  ReplayOK'
<1> SUFFICES ASSUME status' = "loading" PROVE ReplayOK'
  BY DEF ReplayOK
<1> USE DEF IInv, TypeOK
<1>1. PICK n \in older \cup {active} :
        /\ n > loadFile /\ loadFile' = n
        /\ \A f \in older \cup {active} : f > loadFile => n <= f
  BY DEF LoadFileEnd
<1>2. /\ status = "loading" /\ loadOff' = 1 /\ loadOff > Len(disk[loadFile].recs)
      /\ UNCHANGED <<disk, onDisk, fileVars, index>>
  BY DEF LoadFileEnd
<1>3. loadFile \in Nat /\ n \in Nat /\ loadOff \in Nat /\ older \cup {active} \subseteq Nat
  BY DEF LoadTypes, StoreTypes, FileIds
<1>4. onDisk = older \cup {active}
  BY <1>2 DEF ReplayOK
<1>5. ASSUME NEW k \in Keys PROVE Replayed(k)' = Replayed(k)
  <2>1. RecordsOf(k)' = RecordsOf(k)
    BY <1>2 DEF RecordsOf
  <2>2. ASSUME NEW q \in RecordsOf(k)
        PROVE  Before(q, Pos(n, 1)) <=> Before(q, Pos(loadFile, loadOff))
    <3>1. /\ q.file \in onDisk /\ q.file \in Nat /\ q.off \in Nat /\ 1 <= q.off
          /\ q.off \in 1 .. Len(disk[q.file].recs)
      BY <2>2, RecordPlaces DEF IsPlace
    <3>2. q.file = loadFile => q.off < loadOff
      <4>1. Len(disk[loadFile].recs) \in Nat
        BY DEF StoreTypes, LoadTypes, File
      <4> QED
        BY <1>2, <1>3, <3>1, <4>1
    <3>3. q.file < n <=> q.file <= loadFile
      BY <1>1, <1>3, <1>4, <3>1
    <3> QED
      BY <1>3, <3>1, <3>2, <3>3 DEF Before, Pos
  <2>3. Replayed(k)' = {q \in RecordsOf(k) : Before(q, Pos(n, 1))}
    BY <1>1, <1>2, <2>1 DEF Replayed, Before
  <2> QED
    BY <2>2, <2>3 DEF Replayed
<1>6. \A S : LiveLast(S)' = LiveLast(S)
  BY <1>2 DEF LiveLast, RecordAt
<1> QED
  BY <1>2, <1>5, <1>6 DEF ReplayOK

\* Every step keeps ReplayOK.
LEMMA ReplayStep == IInv /\ ReplayOK /\ [Next]_vars => ReplayOK'
<1> SUFFICES ASSUME IInv, ReplayOK, [Next]_vars, status' = "loading" PROVE ReplayOK'
  BY DEF ReplayOK
<1>1. CASE UNCHANGED vars
  <2>1. UNCHANGED <<disk, onDisk, status, fileVars, index, loadFile, loadOff>>
    BY <1>1 DEF vars
  <2>2. \A k : Replayed(k)' = Replayed(k)
    BY <2>1 DEF Replayed, RecordsOf
  <2>3. \A S : LiveLast(S)' = LiveLast(S)
    BY <2>1 DEF LiveLast, RecordAt
  <2> QED
    BY <2>1, <2>2, <2>3 DEF ReplayOK
<1> QED
  BY <1>1, LoadingSteps, OpenReplays, LoadReplays, FileEndReplays

LEMMA ReplayInvariant == Spec => [](IInv /\ ReplayOK)
<1>1. Init => ReplayOK
  BY DEF Init, ReplayOK
<1> QED
  BY <1>1, ReplayStep, InitInv, NextInv, PTL DEF Spec

\* Of two records of a key one comes after the other.
LEMMA OneLast ==
  ASSUME StoreTypes, NEW k, NEW p \in LiveLast(RecordsOf(k)), NEW q \in LiveLast(RecordsOf(k))
  PROVE  p = q
<1>1. ~Before(p, q) /\ ~Before(q, p) /\ p \in RecordsOf(k) /\ q \in RecordsOf(k)
  BY DEF LiveLast
<1>2. p = Pos(p.file, p.off) /\ q = Pos(q.file, q.off) /\ p.file \in Nat /\ p.off \in Nat
      /\ q.file \in Nat /\ q.off \in Nat
  BY <1>1, RecordPlaces DEF IsPlace
<1>3. p.file = q.file /\ p.off = q.off
  BY <1>1, <1>2 DEF Before
<1> QED
  BY <1>2, <1>3

\* The last position of a key is the one that is last.
LEMMA LastIs ==
  ASSUME NEW k, NEW p, LiveLast(RecordsOf(k)) = AsSet(p)
  PROVE  LastPosition(k) = p
<1> DEFINE live == LiveLast(RecordsOf(k))
<1>1. CASE p = Nil
  BY <1>1 DEF AsSet, LastPosition
<1>2. CASE p # Nil
  <2>1. live = {p}
    BY <1>2 DEF AsSet
  <2> HIDE DEF live
  <2>2. (CHOOSE q \in live : TRUE) = p
    BY <2>1
  <2> QED
    BY <2>1, <2>2 DEF LastPosition, live
<1> QED
  BY <1>1, <1>2

\* At the end of the last file every record has been read.
LEMMA AllReplayed ==
  ASSUME IInv, ReplayOK, status = "loading", loadFile = active,
         loadOff > Len(disk[loadFile].recs), NEW k \in Keys
  PROVE  LiveLast(RecordsOf(k)) = AsSet(index[k])
<1> USE DEF IInv, TypeOK
<1>1. /\ onDisk = older \cup {active} /\ (\A f \in older : f < active)
      /\ IF index[k] = Nil THEN LiveLast(Replayed(k)) = {} ELSE index[k] \in LiveLast(Replayed(k))
  BY DEF ReplayOK
<1>2. Replayed(k) = RecordsOf(k)
  <2> SUFFICES ASSUME NEW q \in RecordsOf(k) PROVE Before(q, Pos(loadFile, loadOff))
    BY DEF Replayed
  <2>1. /\ q.file \in onDisk /\ q.file \in Nat /\ q.off \in Nat
        /\ q.off \in 1 .. Len(disk[q.file].recs)
    BY RecordPlaces DEF IsPlace
  <2>2. Len(disk[loadFile].recs) \in Nat /\ loadOff \in Nat
    BY DEF StoreTypes, LoadTypes, File
  <2> QED
    BY <1>1, <2>1, <2>2 DEF Before, Pos
<1>3. index[k] # Nil => \A p \in LiveLast(RecordsOf(k)) : p = index[k]
  BY <1>1, <1>2, OneLast
<1> QED
  BY <1>1, <1>2, <1>3 DEF AsSet

\* Start-up ends at the end of the last file.
LEMMA Started ==
  ASSUME IInv, Next, status = "loading", status' = "up"
  PROVE  /\ LoadFileEnd /\ loadFile = active /\ loadOff > Len(disk[loadFile].recs)
         /\ UNCHANGED <<disk, onDisk, fileVars, index>>
<1>1. \A t \in Threads : ~(Call(t) \/ Step(t))
  BY StatusStep
<1>2. LoadFileEnd
  BY <1>1 DEF Next, Open, OpenFiles, LoadRecord, Crash, Finished, vars
<1> QED
  BY <1>2 DEF LoadFileEnd

\* Whatever directory start-up finds, after any kill, failed call or merge, the
\* index it builds points to the last record of each key, or to none if that
\* record is a tombstone or there is none.
THEOREM Replays == Spec => ReplayIsLastWriter
<1>1. ASSUME IInv, ReplayOK, Next, status = "loading", status' = "up", NEW k \in Keys
      PROVE  index'[k] = LastPosition(k)'
  <2>1. /\ loadFile = active /\ loadOff > Len(disk[loadFile].recs)
        /\ UNCHANGED <<disk, onDisk, index>>
    BY <1>1, Started
  <2>2. LastPosition(k)' = LastPosition(k)
    BY <2>1 DEF LastPosition, LiveLast, RecordsOf, RecordAt
  <2> QED
    BY <1>1, <2>1, <2>2, AllReplayed, LastIs
<1>2. IInv /\ ReplayOK /\ [Next]_vars =>
        [status = "loading" /\ status' = "up" => \A k \in Keys : index'[k] = LastPosition(k)']_vars
  BY <1>1
<1> QED
  BY <1>2, ReplayInvariant, PTL DEF Spec, ReplayIsLastWriter
-------------------------------------------------------------------------------
(***************************************************************************)
(* A new file is empty (TopOK).                                            *)
(***************************************************************************)

\* What the merges, the ids and the directory have in common: the actions that
\* change one of them.
LEMMA FrameTop ==
  ASSUME IoErrors = FALSE
  PROVE  Next => \/ Open \/ Crash
                 \/ \E t \in Threads : \/ AppendRecord(t) \/ Rotate(t) \/ Rename(t)
                                       \/ SwapActive(t) \/ RemoveCandidate(t)
                 \/ UNCHANGED <<disk, onDisk, lastId, status>>
BY FrameStore DEF storeVars, Count, CallError, Index, Unindex, Applied, CompareExchange,
  Relocate, RenameError, Release

\* A file above the last id is empty.
LEMMA EmptyAbove ==
  ASSUME IInv, OrderOK, TopOK, status \in {"loading", "up"}, NEW f \in FileIds, lastId < f
  PROVE  disk[f] = EmptyFile
<1>1. \A g \in onDisk : g <= lastId
  BY DEF OrderOK
<1>2. onDisk \subseteq Nat /\ lastId \in Nat /\ f \in Nat
  BY DEF IInv, TypeOK, StoreTypes, FileIds
<1> QED
  BY <1>1, <1>2 DEF TopOK

\* TopOK, for the directory.
DirectoryOK ==
  /\ \A f \in FileIds : disk[f] # EmptyFile => \E g \in onDisk : f <= g
  /\ status \in {"loading", "up"} => lastId \in onDisk

LEMMA DirectoryStep ==
  ASSUME IoErrors = FALSE, IInv, OrderOK, TopOK, Next
  PROVE  DirectoryOK'
<1> USE DEF IInv, TypeOK, StoreTypes
<1>1. DirectoryOK /\ onDisk \subseteq Nat /\ lastId \in Nat /\ FileIds \subseteq Nat
  BY DEF TopOK, DirectoryOK, FileIds
<1>2. CASE OpenFiles
  <2>1. disk' = disk /\ onDisk \subseteq onDisk' /\ lastId' \in onDisk'
    BY <1>2 DEF OpenFiles
  <2> QED
    BY <1>1, <2>1 DEF DirectoryOK
<1>3. CASE LoadRecord \/ LoadFileEnd
  <2>1. UNCHANGED <<disk, onDisk, lastId>> /\ status = "loading"
    BY <1>3 DEF LoadRecord, LoadFileEnd
  <2> QED
    BY <1>1, <2>1 DEF DirectoryOK
<1>4. CASE Crash
  BY <1>1, <1>4 DEF Crash, DirectoryOK
<1>5. ASSUME NEW t \in Threads, AppendRecord(t) PROVE DirectoryOK'
  <2>1. status = "up" /\ UNCHANGED <<onDisk, lastId, status>> /\ lastId \in onDisk
    BY <1>1, <1>5, StatusStep DEF Step, AppendRecord, DirectoryOK
  <2>2. \A f \in FileIds : f # active => disk'[f] = disk[f]
    BY <1>5 DEF AppendRecord, Appended
  <2>3. active <= lastId
    BY <2>1 DEF FilesOK
  <2> QED
    BY <1>1, <2>1, <2>2, <2>3 DEF DirectoryOK
<1>6. ASSUME NEW t \in Threads, Rotate(t) \/ SwapActive(t) PROVE DirectoryOK'
  <2>1. disk' = disk /\ (UNCHANGED <<onDisk, lastId, status>> \/ onDisk' = onDisk \cup {lastId'})
    BY <1>6 DEF Rotate, SwapActive
  <2> QED
    BY <1>1, <2>1 DEF DirectoryOK
<1>7. ASSUME NEW t \in Threads, Rename(t) PROVE DirectoryOK'
  <2>1. onDisk' = onDisk \cup {lastId'} /\ \A f \in FileIds : f # lastId' => disk'[f] = disk[f]
    BY <1>7 DEF Rename
  <2> QED
    BY <1>1, <2>1 DEF DirectoryOK
<1>8. ASSUME NEW t \in Threads, RemoveCandidate(t) PROVE DirectoryOK'
  <2>1. PICK f \in todo : onDisk' = onDisk \ {f}
    BY <1>8 DEF RemoveCandidate
  <2>2. f < lastId /\ status = "up"
    BY <1>8, <2>1, FreshIds DEF RemoveCandidate, TopOK
  <2>3. UNCHANGED <<disk, lastId>> /\ lastId \in onDisk
    BY <1>1, <1>8, <2>2 DEF RemoveCandidate, DirectoryOK
  <2>4. f \in Nat
    BY <1>1 DEF MergeTypes
  <2>5. lastId' \in onDisk'
    BY <2>1, <2>2, <2>3, <2>4
  <2>6. ASSUME NEW h \in FileIds, disk[h] # EmptyFile PROVE \E g \in onDisk' : h <= g
    <3>1. PICK g \in onDisk : h <= g
      BY <1>1, <2>6 DEF DirectoryOK
    <3>2. h \in Nat /\ g \in Nat
      BY <1>1
    <3>3. CASE g = f
      BY <1>1, <2>2, <2>3, <2>4, <2>5, <3>1, <3>2, <3>3
    <3> QED
      BY <2>1, <3>1, <3>3
  <2> QED
    BY <2>3, <2>5, <2>6 DEF DirectoryOK
<1>9. CASE UNCHANGED <<disk, onDisk, lastId, status>>
  BY <1>1, <1>9 DEF DirectoryOK
<1> QED
  BY <1>2, <1>3, <1>4, <1>5, <1>6, <1>7, <1>8, <1>9, FrameTop DEF Open

\* TopOK, for the files a merge removes.
RemovedOK(u) ==
  /\ pc[u] \in {"scan", "rename"} => \A f \in cand \cup todo : f <= lastId
  /\ pc[u] \in {"recheck", "cleanup"} => \A f \in cand \cup todo : f < lastId

LEMMA RemovedStep ==
  ASSUME IoErrors = FALSE, IInv, TopOK, Next, NEW u \in Threads
  PROVE  RemovedOK(u)'
<1> USE DEF IInv, TypeOK
<1>1. RemovedOK(u) /\ cand \subseteq Nat /\ todo \subseteq Nat /\ lastId \in Nat
  BY DEF TopOK, RemovedOK, MergeTypes, StoreTypes, FileIds
<1>2. lastId' \in Nat
  BY StoreTypesStep DEF StoreTypes, FileIds
<1>3. CASE Crash
  BY <1>3 DEF Crash, RemovedOK
<1>4. CASE MergeStep(u)
  <2>1. CASE Select(u)
    <3>1. \A f \in older : f <= lastId
      BY <2>1, StatusStep DEF Step, MergeStep, FilesOK
    <3>2. cand' = Candidates /\ todo' = Candidates /\ lastId' = lastId /\ pc'[u] \in {"release", "scan"}
      BY <2>1 DEF Select, Goto, CallTypes
    <3> QED
      BY <3>1, <3>2 DEF RemovedOK, Candidates
  <2>2. CASE ScanOpen(u) \/ ScanRecord(u)
    BY <1>1, <2>2 DEF ScanOpen, ScanRecord, RemovedOK
  <2>3. CASE BeginCommit(u)
    BY <1>1, <2>3 DEF BeginCommit, Goto, CallTypes, RemovedOK
  <2>4. CASE Rename(u)
    <3>1. lastId' = lastId + 1 /\ UNCHANGED <<cand, todo, pc>> /\ pc[u] = "rename"
      BY <2>4, FreshIds DEF Rename
    <3> QED
      BY <1>1, <3>1 DEF RemovedOK
  <2>5. CASE SwapActive(u)
    <3>1. lastId' = lastId + 1 /\ UNCHANGED <<cand, todo>> /\ pc[u] = "rename" /\ pc'[u] = "recheck"
      BY <2>5, FreshIds DEF SwapActive, Goto, CallTypes
    <3> QED
      BY <1>1, <3>1 DEF RemovedOK
  <2>6. CASE Recheck(u) \/ Relocate(u)
    BY <1>1, <2>6 DEF Recheck, Relocate, RemovedOK
  <2>7. CASE BeginCleanup(u)
    BY <1>1, <2>7 DEF BeginCleanup, Goto, CallTypes, RemovedOK
  <2>8. CASE RemoveCandidate(u)
    BY <1>1, <2>8 DEF RemoveCandidate, RemovedOK
  <2>9. CASE EndMerge(u) \/ Release(u)
    BY <2>9 DEF EndMerge, Release, Return, Goto, CallTypes, RemovedOK
  <2> QED
    BY <1>4, <2>1, <2>2, <2>3, <2>4, <2>5, <2>6, <2>7, <2>8, <2>9 DEF MergeStep, MergeError, RenameError
<1>5. CASE (Call(u) \/ Step(u)) /\ ~MergeStep(u)
  <2>1. pc'[u] \notin {"scan", "rename", "recheck", "cleanup"}
    BY <1>5 DEF Call, CallPut, CallDelete, CallGet, Begin, Step, Lookup, Read, Check, Reread,
      ReadOld, ReadOldPosition, Count, Ensure, Rotate, AppendRecord, CallError, Index, Unindex,
      Applied, Trigger, CompareExchange, Return, Goto, CallTypes
  <2> QED
    BY <2>1 DEF RemovedOK
<1>6. CASE Same(u) /\ ~Crash /\ pc[u] \in {"scan", "rename", "recheck", "cleanup"}
  <2>1. status = "up" /\ lastId <= lastId'
    BY <1>6, GrowsStep DEF ThreadsOK, OpenFiles, Grows
  <2>2. ASSUME NEW t \in Threads, MergeStep(t) PROVE t = u
    <3>1. pc[t] \in MergePCs
      BY <2>2 DEF MergeStep, Select, ScanOpen, ScanRecord, BeginCommit, Rename,
        SwapActive, Recheck, Relocate, BeginCleanup, RemoveCandidate, EndMerge, MergeError,
        RenameError, Release, MergePCs, CommitPCs
    <3> QED
      BY <1>6, <3>1, OneMerger DEF MergePCs, CommitPCs
  <2>3. MergeStep(u) \/ UNCHANGED mergeVars
    BY <1>6, <2>2, FrameMerge
  <2>4. CASE UNCHANGED mergeVars
    <3>1. cand' = cand /\ todo' = todo /\ pc'[u] = pc[u]
      BY <1>6, <2>4 DEF Same
    <3> QED
      BY <1>1, <1>2, <2>1, <3>1 DEF RemovedOK
  <2> QED
    BY <1>4, <2>3, <2>4
<1>7. CASE Same(u) /\ pc[u] \notin {"scan", "rename", "recheck", "cleanup"}
  BY <1>7 DEF Same, RemovedOK
<1> QED
  BY <1>3, <1>4, <1>5, <1>6, <1>7, FrameThread

\* Without I/O errors every new file is empty.
LEMMA TopInvariant ==
  ASSUME IoErrors = FALSE
  PROVE  Spec => [](IInv /\ OrderOK /\ TopOK)
<1>1. Init => TopOK
  BY DEF Init, TopOK, NoFiles
<1>2. ASSUME IInv, OrderOK, TopOK, [Next]_vars PROVE TopOK'
  <2>1. CASE Next
    BY <1>2, <2>1, DirectoryStep, RemovedStep DEF TopOK, DirectoryOK, RemovedOK
  <2>2. CASE UNCHANGED vars
    BY <1>2, <2>2 DEF vars, TopOK
  <2> QED
    BY <1>2, <2>1, <2>2
<1> QED
  BY <1>1, <1>2, OrderInvariant, PTL DEF Spec
-------------------------------------------------------------------------------
(***************************************************************************)
(* Sizes (BoundedOK).                                                      *)
(***************************************************************************)

\* A finite set has a largest element: a smallest subset without one would
\* have one when some element is left out.
LEMMA HasLargest ==
  ASSUME NEW S, IsFiniteSet(S), S # {}, NEW w \in [S -> Nat]
  PROVE  \E v \in S : \A x \in S : w[x] <= w[v]
<1> DEFINE Largest(U) == \E v \in U : \A x \in U : w[x] <= w[v]
           Without == {U \in SUBSET S : U # {} /\ ~Largest(U)}
<1>1. SUFFICES ASSUME Without # {} PROVE FALSE
  OBVIOUS
<1>2. IsWellFoundedOn(StrictSubsetOrdering(S), SUBSET S)
  BY FS_StrictSubsetOrderingWellFounded, FS_FiniteSubsetsOfFinite
<1>3. PICK U \in Without : \A V \in Without : ~(<<V, U>> \in StrictSubsetOrdering(S))
  <2> DEFINE R == StrictSubsetOrdering(S)
             All == SUBSET S
  <2>1. IsWellFoundedOn(R, All) /\ Without \subseteq All
    BY <1>2
  <2> HIDE DEF R, All, Without
  <2> QED
    BY <1>1, <2>1, WFMin DEF R
<1>4. PICK x \in U : TRUE
  BY <1>3
<1>5. U \ {x} \notin Without
  <2>1. <<U \ {x}, U>> \in StrictSubsetOrdering(S)
    BY <1>3, <1>4 DEF StrictSubsetOrdering
  <2> QED
    BY <1>3, <2>1
<1>6. CASE U \ {x} = {}
  <2>1. \A y \in U : y = x
    BY <1>6
  <2> QED
    BY <1>3, <1>4, <2>1
<1>7. CASE Largest(U \ {x})
  <2>1. PICK v \in U \ {x} : \A y \in U \ {x} : w[y] <= w[v]
    BY <1>7
  <2>2. \A y \in U : w[y] \in Nat
    BY <1>3
  <2>3. w[x] <= w[v] \/ (w[v] <= w[x] /\ \A y \in U : w[y] <= w[x])
    BY <1>4, <2>1, <2>2
  <2> QED
    BY <1>3, <1>4, <2>1, <2>3
<1> QED
  BY <1>3, <1>5, <1>6, <1>7

\* MaxSize is the size of the largest record.
LEMMA Sizes ==
  ASSUME IsFiniteSet(Values)
  PROVE  MaxSize \in Nat /\ \A v \in Values \cup {Deleted} : Size[v] \in Nat /\ Size[v] <= MaxSize
<1> DEFINE all == {Size[v] : v \in Values \cup {Deleted}}
<1>1. IsFiniteSet(Values \cup {Deleted})
  BY FS_AddElement
<1>2. Size \in [Values \cup {Deleted} -> Nat]
  OBVIOUS
<1>3. PICK m \in Values \cup {Deleted} : \A v \in Values \cup {Deleted} : Size[v] <= Size[m]
  BY <1>1, <1>2, HasLargest
<1>4. Size[m] \in all /\ \A y \in all : Size[m] >= y
  BY <1>2, <1>3
<1>5. MaxSize \in all /\ \A y \in all : MaxSize >= y
  BY <1>4 DEF MaxSize, Max
<1> QED
  BY <1>2, <1>5

\* Multiplication is monotonic.
LEMMA Scale ==
  ASSUME NEW a \in Int, NEW b \in Int, NEW m \in Nat, a <= b
  PROVE  a * m \in Int /\ b * m \in Int /\ a * m <= b * m /\ (a - 1) * m = a * m - m
OBVIOUS

\* A set of threads is no larger than the set of all.
LEMMA Crowd ==
  ASSUME IsFiniteSet(Threads), NEW A \in SUBSET Threads, A # {}
  PROVE  /\ Cardinality(A) \in Nat /\ Cardinality(Threads) \in Nat
         /\ 1 <= Cardinality(A) /\ Cardinality(A) <= Cardinality(Threads)
<1>1. IsFiniteSet(A) /\ Cardinality(A) <= Cardinality(Threads)
  BY FS_Subset
<1>2. Cardinality(A) \in Nat /\ Cardinality(Threads) \in Nat
  BY <1>1, FS_CardinalityType
<1>3. Cardinality(A) # 0
  BY <1>1, FS_EmptySet
<1> QED
  BY <1>1, <1>2, <1>3

\* What a file of at most DataFileSize is allowed.
LEMMA Limit ==
  ASSUME IsFiniteSet(Values), IsFiniteSet(Threads), MaxSize <= DataFileSize
  PROVE  SizeLimit \in Int /\ 0 <= SizeLimit /\ (Threads # {} => DataFileSize <= SizeLimit)
<1>1. Cardinality(Threads) \in Nat /\ (Cardinality(Threads) = 0 <=> Threads = {})
  BY FS_CardinalityType, FS_EmptySet
<1>2. PICK n \in Nat, m \in Nat : n = Cardinality(Threads) /\ m = MaxSize
  BY <1>1, Sizes
<1>3. (n - 1) * m \in Int /\ (n - 1) * m >= (0 - 1) * m /\ (n # 0 => (n - 1) * m >= 0)
  BY Scale
<1> QED
  BY <1>1, <1>2, <1>3 DEF SizeLimit

\* A thread that has just found room, or any if the active file is new.
LEMMA RoomNext ==
  ASSUME IsFiniteSet(Values), IsFiniteSet(Threads), MaxSize <= DataFileSize,
         NEW s \in Nat, NEW v \in Values \cup {Deleted}, s + Size[v] <= DataFileSize,
         NEW A \in SUBSET Threads, A # {}
  PROVE  s + Size[v] + (Cardinality(A) - 1) * MaxSize <= SizeLimit
<1>1. PICK a \in Nat, n \in Nat, m \in Nat :
        a = Cardinality(A) /\ n = Cardinality(Threads) /\ m = MaxSize /\ a <= n
  BY Crowd, Sizes
<1>2. (a - 1) * m \in Int /\ (n - 1) * m \in Int /\ (a - 1) * m <= (n - 1) * m
  BY <1>1, Scale
<1>3. Size[v] \in Nat
  OBVIOUS
<1> QED
  BY <1>1, <1>2, <1>3 DEF SizeLimit

\* A thread between its look and its write has a record to write.
LEMMA AppenderRequest ==
  ASSUME IInv, NEW t \in Threads, pc[t] \in {"ensure", "rotate", "append"}
  PROVE  req[t].val \in Values \cup {Deleted} /\ req[t].key \in Keys /\ active \in FileIds
         /\ disk[active] \in File /\ disk[active].size \in Nat
BY DEF IInv, TypeOK, StoreTypes, ThreadsOK, Request, File

\* One of them writes: the room left for the others is still enough.
LEMMA OneWrites ==
  ASSUME IsFiniteSet(Values), IsFiniteSet(Threads), IInv, RoomOK, NEW t \in Appenders
  PROVE  LET s == disk[active].size + Size[req[t].val]
         IN /\ s <= SizeLimit
            /\ Appenders \ {t} # {} =>
                 \E u \in Appenders \ {t} :
                   s + Size[req[u].val] + (Cardinality(Appenders \ {t}) - 1) * MaxSize <= SizeLimit
<1>1. PICK w \in Appenders :
        disk[active].size + Size[req[w].val] + (Cardinality(Appenders) - 1) * MaxSize <= SizeLimit
  BY DEF RoomOK
<1>2. PICK A : A = Appenders
  OBVIOUS
<1>3. A \subseteq Threads /\ t \in A /\ \A u \in A : pc[u] = "append"
  BY <1>2 DEF Appenders
<1>4. IsFiniteSet(A) /\ Cardinality(A \ {t}) = Cardinality(A) - 1
  BY <1>3, FS_Subset, FS_RemoveElement
<1>0. PICK L : L = SizeLimit
  OBVIOUS
<1>5. PICK a \in Nat, m \in Nat, s \in Nat :
        a = Cardinality(A) /\ m = MaxSize /\ s = disk[active].size /\ 1 <= a
  BY <1>3, Crowd, Sizes, AppenderRequest
<1>6. SizeLimit \in Int
  <2>1. Cardinality(Threads) \in Nat
    BY FS_CardinalityType
  <2>2. (Cardinality(Threads) - 1) * MaxSize \in Int
    BY <2>1, Sizes, Scale
  <2> QED
    BY <2>2 DEF SizeLimit
<1>7. \A u \in A : Size[req[u].val] \in Nat /\ Size[req[u].val] <= m
  BY <1>3, <1>5, AppenderRequest, Sizes
<1>8. s + Size[req[w].val] + (a - 1) * m <= L /\ w \in A
  BY <1>0, <1>1, <1>2, <1>5
<1>9. (a - 1) * m \in Int /\ 0 <= (a - 1) * m /\ ((a - 1) - 1) * m = (a - 1) * m - m
  BY <1>5, Scale
<1>10. CASE A \ {t} = {}
  <2>1. w = t
    BY <1>8, <1>10
  <2>2. s + Size[req[t].val] <= L
    BY <1>0, <1>3, <1>5, <1>6, <1>7, <1>8, <1>9, <2>1
  <2> QED
    BY <1>0, <1>2, <1>5, <1>10, <2>2
<1>11. ASSUME A \ {t} # {}, NEW u \in A \ {t}, w # t => u = w
       PROVE  /\ s + Size[req[t].val] <= L
              /\ s + Size[req[t].val] + Size[req[u].val] + ((a - 1) - 1) * m <= L
  <2>1. u \in A /\ Size[req[t].val] <= m /\ Size[req[u].val] <= m /\ Size[req[t].val] \in Nat
        /\ Size[req[u].val] \in Nat
    BY <1>3, <1>7, <1>11
  <2>2. a - 1 >= 1
    <3>1. A \ {t} \in SUBSET Threads
      BY <1>3
    <3> QED
      BY <1>4, <1>5, <1>11, <3>1, Crowd
  <2>3. m <= (a - 1) * m
    BY <1>5, <2>2, Scale
  <2>4. CASE w = t
    BY <1>0, <1>5, <1>6, <1>8, <1>9, <2>1, <2>3, <2>4
  <2>5. CASE w # t
    BY <1>0, <1>5, <1>6, <1>8, <1>9, <1>11, <2>1, <2>3, <2>5
  <2> QED
    BY <2>4, <2>5
<1>12. CASE A \ {t} # {}
  <2>1. PICK u \in A \ {t} : w # t => u = w
    BY <1>8, <1>12
  <2>2. /\ s + Size[req[t].val] <= L
        /\ s + Size[req[t].val] + Size[req[u].val] + ((a - 1) - 1) * m <= L
    BY <1>11, <1>12, <2>1
  <2> QED
    BY <1>0, <1>2, <1>4, <1>5, <2>1, <2>2
<1> QED
  BY <1>10, <1>12

\* A temporary file gets a record that fits, or is new.
LEMMA TempStep ==
  ASSUME RecordsFit, IInv, TempOK, Next
  PROVE  TempOK'
<1> USE DEF IInv, TypeOK, MergeTypes
<1>1. FileIds \subseteq Nat /\ EmptyFile.size = 0
  BY DEF FileIds, EmptyFile
<1>2. CASE NoMerge
  BY <1>1, <1>2 DEF NoMerge, NoFiles, TempOK
<1>3. CASE UNCHANGED <<tmp, cur>>
  BY <1>3 DEF TempOK
<1>4. ASSUME NEW t \in Threads, ScanRecord(t), ~UNCHANGED <<tmp, cur>> PROVE TempOK'
  <2>1. PICK r, c : r = disk[scanFile].recs[scanOff] /\ c = OutFile(r)
    OBVIOUS
  <2>2. c \in FileIds /\ cur' = c /\ tmp' = [tmp EXCEPT ![c] = Write(@, r)]
    BY <1>4, <2>1 DEF ScanRecord, ContextAppend
  <2>3. r \in Record
    <3>1. disk[scanFile].recs \in Seq(Record)
      BY DEF StoreTypes, File
    <3>2. scanOff \in 1 .. Len(disk[scanFile].recs)
      BY <1>4, <3>1 DEF ScanRecord, Scanning, FilesOK
    <3> QED
      BY <2>1, <3>1, <3>2
  <2>4. Size[r.val] \in Nat /\ Size[r.val] <= DataFileSize
    BY <2>3 DEF Record, RecordsFit
  <2>5. tmp'[c].size = tmp[c].size + Size[r.val]
    BY <2>2 DEF Write
  <2>6. cur \in Nat /\ c \in Nat /\ tmp[c].size \in Nat
    BY <1>1, <2>2 DEF File
  <2>7. cur <= c /\ tmp[c].size + Size[r.val] <= DataFileSize
    <3>1. CASE Fits(tmp[cur], r)
      BY <2>1, <2>6, <3>1 DEF OutFile, Fits
    <3>2. CASE ~Fits(tmp[cur], r)
      <4>1. c = cur + 1
        BY <2>1, <3>2 DEF OutFile
      <4>2. tmp[c].size = 0
        BY <1>1, <2>2, <2>6, <4>1 DEF TempOK
      <4> QED
        BY <2>4, <2>6, <4>1, <4>2
    <3> QED
      BY <3>1, <3>2
  <2>8. \A i \in FileIds : i # c => tmp'[i] = tmp[i]
    BY <2>2
  <2> QED
    BY <1>1, <2>2, <2>5, <2>6, <2>7, <2>8 DEF TempOK
<1>5. ASSUME NEW t \in Threads, Release(t) \/ Recheck(t) \/ Relocate(t)
      PROVE  NoMerge \/ UNCHANGED <<tmp, cur>>
  BY <1>5 DEF Release, Recheck, Relocate
<1> QED
  BY <1>2, <1>3, <1>4, <1>5, FrameCopies DEF Crash

\* The steps that change the active file or who is about to write to it.
LEMMA FrameRoom ==
  ASSUME IoErrors = FALSE, IInv, OrderOK, Next
  PROVE  \/ Appenders' = {}
         \/ \E t \in Threads : Ensure(t) \/ Rotate(t) \/ AppendRecord(t) \/ SwapActive(t)
         \/ /\ Appenders' = Appenders /\ active' = active /\ disk'[active] = disk[active]
            /\ \A u \in Appenders : req'[u] = req[u]
<1> USE DEF IInv, TypeOK
<1>1. CASE Crash
  BY <1>1 DEF Crash, Appenders
<1>2. CASE Open \/ Finished
  <2>1. CASE status = "up"
    BY <1>2, <2>1 DEF Open, OpenFiles, LoadRecord, LoadFileEnd, Finished, vars, Appenders
  <2>2. CASE status # "up"
    <3>1. \A t \in Threads : pc[t] = "idle" /\ pc' = pc
      BY <1>2, <2>2 DEF Open, OpenFiles, LoadRecord, LoadFileEnd, Finished, vars, ThreadsOK
    <3> QED
      BY <3>1 DEF Appenders
  <2> QED
    BY <2>1, <2>2
<1>3. ASSUME NEW t \in Threads, Call(t) \/ Step(t),
             ~(Ensure(t) \/ Rotate(t) \/ AppendRecord(t) \/ SwapActive(t))
      PROVE  /\ Appenders' = Appenders /\ active' = active /\ disk'[active] = disk[active]
             /\ \A u \in Appenders : req'[u] = req[u]
  <2>1. pc[t] # "append" /\ pc'[t] # "append"
    <3>1. CASE Call(t)
      BY <3>1 DEF Call, CallPut, CallDelete, CallGet, Begin, Goto, CallTypes
    <3>2. CASE MergeStep(t)
      BY <3>2 DEF MergeStep, Select, ScanOpen, ScanRecord, BeginCommit, Rename, Recheck,
        Relocate, BeginCleanup, RemoveCandidate, EndMerge, MergeError, RenameError, Release,
        Return, Goto, CallTypes, SwapActive
    <3>3. CASE Step(t) /\ ~MergeStep(t)
      BY <1>3, <3>3 DEF Step, Lookup, Read, Check, Reread, ReadOld, ReadOldPosition, Count,
        CallError, Index, Unindex, Applied, Trigger, CompareExchange, Return, Goto, CallTypes
    <3> QED
      BY <1>3, <3>1, <3>2, <3>3
  <2>2. active' = active /\ disk'[active] = disk[active]
    <3>1. CASE Rename(t)
      <4>1. MergedId = lastId + 1 /\ status = "up"
        BY <3>1, FreshIds DEF Rename
      <4>2. active <= lastId /\ active \in Nat /\ lastId \in Nat
        BY <4>1 DEF FilesOK, StoreTypes, FileIds
      <4> QED
        BY <3>1, <4>1, <4>2 DEF Rename, StoreTypes
    <3>2. CASE Call(t)
      BY <3>2 DEF Call, CallPut, CallDelete, CallGet, Begin
    <3>3. CASE MergeStep(t) /\ ~Rename(t)
      BY <1>3, <3>3 DEF MergeStep, Select, ScanOpen, ScanRecord, BeginCommit, Recheck,
        Relocate, BeginCleanup, RemoveCandidate, EndMerge, MergeError, RenameError, Release
    <3>4. CASE Step(t) /\ ~MergeStep(t)
      BY <1>3, <3>4 DEF Step, Lookup, Read, Check, Reread, ReadOld, ReadOldPosition, Count,
        CallError, Index, Unindex, Applied, Trigger, CompareExchange
    <3> QED
      BY <1>3, <3>1, <3>2, <3>3, <3>4
  <2>3. \A u \in Threads : u # t => Same(u)
    BY <1>3, OthersSame
  <2> QED
    BY <2>1, <2>2, <2>3 DEF Appenders, Same
<1> QED
  BY <1>1, <1>2, <1>3 DEF Next

\* A thread that enters the block in which it writes has found room.
LEMMA EnterRoom ==
  ASSUME IsFiniteSet(Values), IsFiniteSet(Threads), MaxSize <= DataFileSize, StoreTypes',
         NEW t \in Appenders', req'[t].val \in Values \cup {Deleted},
         disk'[active'].size + Size[req'[t].val] <= DataFileSize
  PROVE  RoomOK'
<1>1. Appenders' \subseteq Threads /\ Appenders' # {}
  BY DEF Appenders
<1>2. disk'[active'].size \in Nat
  BY DEF StoreTypes, File
<1>3. disk'[active'].size + Size[req'[t].val] + (Cardinality(Appenders') - 1) * MaxSize <= SizeLimit
  BY <1>1, <1>2, RoomNext
<1> QED
  BY <1>3 DEF RoomOK

\* Every step keeps RoomOK.
LEMMA RoomStep ==
  ASSUME IoErrors = FALSE, IsFiniteSet(Values), IsFiniteSet(Threads), MaxSize <= DataFileSize,
         IInv, OrderOK, TopOK, RoomOK, Next
  PROVE  RoomOK'
<1> USE DEF IInv, TypeOK
<1>1. StoreTypes' /\ StoreTypes
  BY StoreTypesStep
<1>2. RecordsFit
  BY Sizes DEF RecordsFit
<1>3. ASSUME NEW t \in Threads, Ensure(t) PROVE RoomOK'
  <2>1. UNCHANGED <<disk, active, req>> /\ (\A u \in Threads : u # t => pc'[u] = pc[u])
    BY <1>3 DEF Ensure, Goto, CallTypes
  <2>2. CASE t \in Appenders'
    <3>1. HasSpace(req[t].val) /\ pc[t] = "ensure"
      BY <1>3, <2>2 DEF Ensure, Goto, CallTypes, Appenders
    <3> QED
      BY <1>1, <2>1, <2>2, <3>1, EnterRoom, AppenderRequest DEF HasSpace
  <2>3. CASE t \notin Appenders'
    <3>1. Appenders' = Appenders
      BY <1>3, <2>1, <2>3 DEF Appenders, Ensure
    <3> QED
      BY <2>1, <3>1 DEF RoomOK
  <2> QED
    BY <2>2, <2>3
<1>4. ASSUME NEW t \in Threads, Rotate(t) PROVE RoomOK'
  <2>1. UNCHANGED <<disk, req>> /\ t \in Appenders' /\ pc[t] = "rotate"
    BY <1>4 DEF Rotate, Goto, CallTypes, Appenders
  <2>2. req[t].val \in Values \cup {Deleted}
    BY <2>1, AppenderRequest
  <2>3. disk[active'].size + Size[req[t].val] <= DataFileSize
    <3>1. CASE HasSpace(req[t].val) /\ UNCHANGED fileVars
      BY <3>1 DEF HasSpace
    <3>2. CASE ~HasSpace(req[t].val)
      <4>1. status = "up" /\ active' = lastId + 1 /\ active' \in FileIds
        BY <1>1, <1>4, <3>2, FreshIds DEF Rotate, NextFileId, StoreTypes
      <4>2. lastId < active'
        BY <4>1 DEF StoreTypes, FileIds
      <4>3. disk[active'] = EmptyFile
        BY <4>1, <4>2, EmptyAbove
      <4> QED
        BY <1>2, <2>2, <4>3 DEF EmptyFile, RecordsFit
    <3> QED
      BY <1>4, <3>1, <3>2 DEF Rotate
  <2> QED
    BY <1>1, <2>1, <2>2, <2>3, EnterRoom
<1>5. ASSUME NEW t \in Threads, SwapActive(t) PROVE RoomOK'
  <2>1. SUFFICES ASSUME NEW u \in Appenders' PROVE RoomOK'
    BY DEF RoomOK
  <2>2. UNCHANGED <<disk, req>> /\ pc[u] = "append" /\ u \in Threads
    BY <1>5, <2>1 DEF SwapActive, Goto, CallTypes, Appenders
  <2>3. req[u].val \in Values \cup {Deleted}
    BY <2>2, AppenderRequest
  <2>4. status = "up" /\ active' = lastId + 1 /\ active' \in FileIds /\ lastId \in Nat
    BY <1>5, FreshIds DEF SwapActive, StoreTypes, FileIds
  <2>5. disk[active'] = EmptyFile
    BY <2>4, EmptyAbove
  <2>6. disk[active'].size + Size[req[u].val] <= DataFileSize
    BY <1>2, <2>3, <2>5 DEF EmptyFile, RecordsFit
  <2> QED
    BY <1>1, <2>1, <2>2, <2>3, <2>6, EnterRoom
<1>6. ASSUME NEW t \in Threads, AppendRecord(t) PROVE RoomOK'
  <2>1. t \in Appenders /\ Appenders' = Appenders \ {t} /\ UNCHANGED <<active, req>>
    BY <1>6 DEF AppendRecord, Goto, CallTypes, Appenders
  <2>2. disk'[active].size = disk[active].size + Size[req[t].val]
    BY <1>6 DEF AppendRecord, Appended, Write, StoreTypes
  <2> QED
    BY <2>1, <2>2, OneWrites DEF RoomOK
<1>7. CASE Appenders' = {}
  BY <1>7 DEF RoomOK
<1>8. CASE /\ Appenders' = Appenders /\ active' = active /\ disk'[active] = disk[active]
           /\ \A u \in Appenders : req'[u] = req[u]
  BY <1>8 DEF RoomOK
<1> QED
  BY <1>3, <1>4, <1>5, <1>6, <1>7, <1>8, FrameRoom

\* No file outgrows the limit.
LEMMA BoundStep ==
  ASSUME IoErrors = FALSE, IsFiniteSet(Values), IsFiniteSet(Threads), MaxSize <= DataFileSize,
         IInv, BoundedOK, Next
  PROVE  \A f \in FileIds : disk'[f].size <= SizeLimit
<1> USE DEF IInv, TypeOK
<1>1. \A f \in FileIds : disk[f].size <= SizeLimit
  BY DEF BoundedOK
<1>2. ASSUME NEW t \in Threads, AppendRecord(t) PROVE \A f \in FileIds : disk'[f].size <= SizeLimit
  <2>1. t \in Appenders
    BY <1>2 DEF AppendRecord, Appenders
  <2>2. disk'[active].size = disk[active].size + Size[req[t].val]
        /\ \A f \in FileIds : f # active => disk'[f] = disk[f]
    BY <1>2 DEF AppendRecord, Appended, Write, StoreTypes
  <2>3. disk[active].size + Size[req[t].val] <= SizeLimit
    BY <2>1, OneWrites DEF BoundedOK
  <2> QED
    BY <1>1, <2>2, <2>3
<1>3. ASSUME NEW t \in Threads, Rename(t) PROVE \A f \in FileIds : disk'[f].size <= SizeLimit
  <2>1. moved \in FileIds /\ \A f \in FileIds : disk'[f] \in {disk[f], tmp[moved]}
    BY <1>3 DEF Rename, MergeTypes, StoreTypes, FileIds
  <2>2. tmp[moved].size <= SizeLimit
    <3>1. tmp[moved].size <= DataFileSize /\ tmp[moved].size \in Nat
      BY <2>1 DEF BoundedOK, TempOK, MergeTypes, File
    <3> QED
      BY <3>1, Limit
  <2> QED
    BY <1>1, <2>1, <2>2
<1>4. CASE disk' = disk
  BY <1>1, <1>4
<1> QED
  BY <1>2, <1>3, <1>4, FrameTop DEF Open, OpenFiles, LoadRecord, LoadFileEnd, Crash, Rotate,
    SwapActive, RemoveCandidate

\* As long as no I/O call fails and every record fits into a file of its own, a
\* data file is larger than data_file_size by at most one record for each
\* further thread, also after merges and restarts.
THEOREM FilesStayBounded ==
  ASSUME IoErrors = FALSE, IsFiniteSet(Values), IsFiniteSet(Threads)
  PROVE  Spec => []FilesBounded
<1> DEFINE Bounded == MaxSize <= DataFileSize => BoundedOK
<1>1. Init => Bounded
  <2> SUFFICES ASSUME Init, MaxSize <= DataFileSize PROVE BoundedOK
    OBVIOUS
  <2>1. \A f \in FileIds : disk[f].size = 0 /\ tmp[f] = EmptyFile /\ tmp[f].size = 0
    BY DEF Init, NoFiles, EmptyFile
  <2>2. Appenders = {}
    BY DEF Init, Appenders
  <2> QED
    BY <2>1, <2>2, Limit DEF BoundedOK, TempOK, RoomOK
<1>2. ASSUME IInv, OrderOK, TopOK, Bounded, [Next]_vars PROVE Bounded'
  <2> SUFFICES ASSUME MaxSize <= DataFileSize PROVE BoundedOK'
    OBVIOUS
  <2>1. CASE Next
    <3>1. RecordsFit
      BY Sizes DEF RecordsFit
    <3> QED
      BY <1>2, <2>1, <3>1, TempStep, RoomStep, BoundStep DEF BoundedOK
  <2>2. CASE UNCHANGED vars
    BY <1>2, <2>2 DEF vars, BoundedOK, TempOK, RoomOK, Appenders
  <2> QED
    BY <1>2, <2>1, <2>2
<1>3. Bounded => FilesBounded
  BY DEF BoundedOK, FilesBounded
<1> HIDE DEF Bounded
<1> QED
  BY <1>1, <1>2, <1>3, TopInvariant, PTL DEF Spec

-------------------------------------------------------------------------------
(***************************************************************************)
(* Start-up succeeds (OpenableOK), without merges: a merge that copies no  *)
(* record leaves an empty file behind.                                     *)
(***************************************************************************)

\* Without merges the directory changes by rotation and start-up only.
LEMMA FrameUnmerged ==
  ASSUME IoErrors = FALSE, NoMerging
  PROVE  Next => \/ Open \/ Crash
                 \/ \E t \in Threads : AppendRecord(t) \/ Rotate(t)
                 \/ UNCHANGED <<disk, onDisk, lastId, status>>
<1>1. ASSUME NEW t \in Threads, Rename(t) \/ SwapActive(t) \/ RemoveCandidate(t) PROVE FALSE
  BY <1>1 DEF Rename, SwapActive, RemoveCandidate, NoMerging, MergePCs, CommitPCs
<1> QED
  BY <1>1, FrameTop

\* A file is closed for writing only when a record no longer fits.
LEMMA OpenableStep ==
  ASSUME IoErrors = FALSE, RecordsFit, IInv, OrderOK, TopOK, NoMerging, OpenableOK, Next
  PROVE  OpenableOK'
<1> USE DEF IInv, TypeOK, StoreTypes
<1>1. ASSUME NEW t \in Threads, AppendRecord(t) PROVE OpenableOK'
  <2>1. disk'[active].size = disk[active].size + Size[req[t].val] /\ onDisk' = onDisk
        /\ \A f \in FileIds : f # active => disk'[f] = disk[f]
    BY <1>1 DEF AppendRecord, Appended, Write
  <2>2. disk[active].size \in Nat /\ Size[req[t].val] \in Nat
    BY <1>1, AppenderRequest DEF AppendRecord
  <2> QED
    BY <2>1, <2>2 DEF OpenableOK
<1>2. ASSUME NEW t \in Threads, Rotate(t), onDisk' # onDisk PROVE OpenableOK'
  <2>1. onDisk' = onDisk \cup {lastId + 1} /\ disk' = disk /\ ~HasSpace(req[t].val) /\ pc[t] = "rotate"
    BY <1>2 DEF Rotate, NextFileId
  <2>2. status = "up" /\ ~Renaming
    BY <1>2, FreshIds DEF Renaming, NoMerging, MergePCs, CommitPCs
  <2>3. lastId = active /\ (\A f \in onDisk : f <= lastId) /\ lastId \in onDisk
    BY <2>2 DEF OrderOK, TopOK
  <2>4. disk[active].size > 0
    <3>1. disk[active].size \in Nat /\ Size[req[t].val] \in Nat /\ Size[req[t].val] <= DataFileSize
      BY <2>1, AppenderRequest DEF RecordsFit
    <3> QED
      BY <2>1, <3>1 DEF HasSpace
  <2>5. onDisk \subseteq Nat /\ lastId \in Nat
    BY DEF FileIds
  <2>6. ASSUME NEW f \in onDisk', NEW g \in onDisk', f < g PROVE disk'[f].size > 0
    <3>1. f \in onDisk
      BY <2>1, <2>3, <2>5, <2>6
    <3>2. f = active \/ f < lastId
      BY <2>3, <2>5, <3>1
    <3> QED
      BY <2>1, <2>3, <2>4, <3>1, <3>2 DEF OpenableOK
  <2> QED
    BY <2>6 DEF OpenableOK
<1>3. CASE OpenFiles
  <2>1. disk' = disk /\ (onDisk' = onDisk \/ onDisk' = {0})
    BY <1>3 DEF OpenFiles
  <2> QED
    BY <2>1 DEF OpenableOK
<1>4. CASE UNCHANGED <<disk, onDisk>>
  BY <1>4 DEF OpenableOK
<1>5. ASSUME NEW t \in Threads, Rotate(t) PROVE disk' = disk
  BY <1>5 DEF Rotate
<1> QED
  BY <1>1, <1>2, <1>3, <1>4, <1>5, FrameUnmerged DEF Open, LoadRecord, LoadFileEnd, Crash

\* Start-up fails only on an empty older file.
LEMMA OpensStep ==
  ASSUME IInv, ReplayOK, OpenableOK, OpenSucceeds, Next
  PROVE  OpenSucceeds'
<1> SUFFICES ASSUME LoadFileEnd, status' = "failed" PROVE FALSE
  BY StatusStep DEF OpenSucceeds, Next, Open, OpenFiles, LoadRecord, Crash, Finished, vars
<1>1. PICK f \in older : disk[f].size = 0
  BY DEF LoadFileEnd
<1>2. f \in onDisk /\ active \in onDisk /\ f < active
  BY <1>1 DEF LoadFileEnd, ReplayOK
<1> QED
  BY <1>1, <1>2 DEF OpenableOK

\* A directory that the engine has written can be opened again, as long as it
\* has not merged, no I/O call has failed and every record fits into a file.
THEOREM Reopens ==
  ASSUME IoErrors = FALSE, RecordsFit
  PROVE  Spec /\ []NoMerging => []OpenSucceeds
<1>1. Init => OpenableOK /\ OpenSucceeds
  BY DEF Init, OpenableOK, OpenSucceeds
<1>2. ASSUME IInv, OrderOK, TopOK, ReplayOK, OpenableOK, OpenSucceeds, NoMerging, [Next]_vars
      PROVE  OpenableOK' /\ OpenSucceeds'
  <2>1. CASE UNCHANGED vars
    BY <1>2, <2>1 DEF vars, OpenableOK, OpenSucceeds
  <2> QED
    BY <1>2, <2>1, OpenableStep, OpensStep
<1> QED
  BY <1>1, <1>2, TopInvariant, ReplayInvariant, PTL DEF Spec
===============================================================================
