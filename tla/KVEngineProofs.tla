----------------------------- MODULE KVEngineProofs -----------------------------
(***************************************************************************)
(* Proofs about the engine.  The argument: IInv (KVEngineInv) holds        *)
(* initially and every step keeps it, part by part.  Each part has a       *)
(* lemma; the Frame lemmas say which actions a group of variables can      *)
(* change under, so that the lemma of a part looks at those actions only.  *)
(* The safety theorems at the end follow from IInv.                        *)
(***************************************************************************)
EXTENDS KVEngineInv, TLAPS

USE DataAssumption, NilAssumption, EngineAssumption
USE DEF diskVars, fileVars, loadVars, mergeVars, localVars, threadVars, boundVars

\* The files, the index and the sizes.
storeVars == <<diskVars, status, fileVars, index, reclaim, mergeRunning>>

\* The actions that change the files, the index or the sizes.
LEMMA FrameStore ==
  Next => \/ Open \/ Crash
          \/ \E t \in Threads :
               \/ Count(t) \/ Rotate(t) \/ AppendRecord(t) \/ CallError(t)
               \/ Index(t) \/ Unindex(t) \/ CompareExchange(t)
               \/ Rename(t) \/ SwapActive(t) \/ Relocate(t) \/ RemoveCandidate(t)
               \/ RenameError(t) \/ Release(t)
          \/ UNCHANGED storeVars
BY SMTT(30) DEF Next, Call, CallPut, CallDelete, CallGet, Begin, Step, Lookup, Read, Check,
  Reread, ReadOld, ReadOldPosition, Ensure, Trigger, MergeStep, Select, ScanOpen,
  ScanRecord, BeginCommit, Recheck, BeginCleanup, EndMerge, MergeError, Finished,
  vars, storeVars

\* The actions that change the replay cursor.
LEMMA FrameLoad == Next => Open \/ Crash \/ UNCHANGED loadVars
<1>1. ASSUME NEW t \in Threads, Call(t) PROVE UNCHANGED loadVars
  BY <1>1 DEF Call, CallPut, CallDelete, CallGet, Begin
<1>2. ASSUME NEW t \in Threads, Step(t), ~MergeStep(t) PROVE UNCHANGED loadVars
  BY <1>2 DEF Step, Lookup, Read, Check, Reread, ReadOld, ReadOldPosition, Count, Ensure,
    Rotate, AppendRecord, CallError, Index, Unindex, Applied, Trigger, CompareExchange
<1>3. ASSUME NEW t \in Threads, MergeStep(t) PROVE UNCHANGED loadVars
  BY <1>3 DEF MergeStep, Select, ScanOpen, ScanRecord, BeginCommit, Rename, SwapActive,
    Recheck, Relocate, BeginCleanup, RemoveCandidate, EndMerge, MergeError, RenameError,
    Release
<1>4. Finished => UNCHANGED loadVars
  BY DEF Finished, vars
<1> QED
  BY <1>1, <1>2, <1>3, <1>4 DEF Next

\* The actions that change the state of the merge.
LEMMA FrameMerge == Next => (\E t \in Threads : MergeStep(t)) \/ Crash \/ UNCHANGED mergeVars
BY ZenonT(30) DEF Next, Open, OpenFiles, LoadRecord, LoadFileEnd, Call, CallPut, CallDelete, CallGet,
  Begin, Step, Lookup, Read, Check, Reread, ReadOld, ReadOldPosition, Count, Ensure,
  Rotate, AppendRecord, CallError, Index, Unindex, Applied, Trigger, CompareExchange,
  Finished, vars

\* There is a first file id.
LEMMA Zero == 0 \in FileIds
BY DEF FileIds

\* Writing a record to a file gives a file.
LEMMA WriteType ==
  ASSUME NEW file \in File, NEW r \in Record PROVE Write(file, r) \in File
<1>1. Size[r.val] \in Nat
  BY DEF Record
<1> QED
  BY <1>1 DEF Write, File

\* A step keeps the replay cursor well typed.
LEMMA LoadTypesStep == TypeOK /\ FilesOK /\ Next => LoadTypes'
<1> SUFFICES ASSUME TypeOK, FilesOK, Next PROVE LoadTypes'
  OBVIOUS
<1> USE Zero DEF TypeOK, LoadTypes
<1>1. CASE OpenFiles
  BY <1>1 DEF OpenFiles, StoreTypes
<1>2. CASE LoadRecord
  <2> DEFINE r == disk[loadFile].recs[loadOff]
  <2>1. r \in Record
    <3>1. disk[loadFile].recs \in Seq(Record)
      BY DEF StoreTypes, File
    <3>2. loadOff \in 1 .. Len(disk[loadFile].recs)
      BY <1>2, <3>1 DEF LoadRecord, FilesOK
    <3> QED
      BY <3>1, <3>2
  <2> QED
    <3>1. Size[r.val] \in Nat
      BY <2>1 DEF Record
    <3>2. /\ loadFile' = loadFile /\ loadOff' = loadOff + 1
          /\ \/ validSize' = [validSize EXCEPT ![loadFile] = validSize[loadFile]]
             \/ validSize' = [validSize EXCEPT ![loadFile] = validSize[loadFile] + Size[r.val]]
      BY <1>2 DEF LoadRecord
    <3> HIDE DEF r
    <3> QED
      BY <3>1, <3>2
<1>3. CASE LoadFileEnd
  BY <1>3 DEF LoadFileEnd, NoSizes, StoreTypes
<1>4. CASE Crash
  BY <1>4 DEF Crash, NoSizes
<1>5. CASE UNCHANGED loadVars
  BY <1>5
<1> QED
  BY <1>1, <1>2, <1>3, <1>4, <1>5, FrameLoad DEF Open

\* A position that names a record leads to a record with a value.
LEMMA NamedRecord ==
  ASSUME StoreTypes, NEW k \in Keys, NEW p, Names(k, p)
  PROVE /\ p \in Position
        /\ RecordAt(p) \in Record
        /\ RecordAt(p).val \in Values
        /\ Size[RecordAt(p).val] \in Nat
<1>1. p.file \in FileIds /\ p.off \in 1 .. Len(disk[p.file].recs)
  BY DEF Names, Position, StoreTypes, File
<1>2. RecordAt(p) \in Record
  BY <1>1 DEF RecordAt, StoreTypes, File
<1> QED
  BY <1>2 DEF Record, Names

\* A rebased position of the merge is a position up to the last id.
LEMMA RebaseType ==
  ASSUME IInv, NEW t \in Threads, pc[t] = "recheck", NEW k \in Keys, newPos[k] # Nil
  PROVE Rebase(newPos[k]) \in Position /\ start + newPos[k].file <= lastId
<1>1. newPos[k] \in Position /\ newPos[k].file <= cur
  BY DEF IInv, TypeOK, MergeTypes, CopiesOK
<1>2. start + newPos[k].file \in FileIds /\ start + newPos[k].file <= lastId
  <2>1. start + moved = lastId /\ moved = cur + 1
    BY DEF IInv, CommitOK
  <2>2. newPos[k].file \in Nat
    BY <1>1 DEF Position, FileIds
  <2>3. start \in Nat /\ cur \in Nat /\ lastId \in 0 .. MaxFileId
    BY DEF IInv, TypeOK, MergeTypes, StoreTypes, FileIds
  <2> QED
    BY <1>1, <2>1, <2>2, <2>3 DEF FileIds
<1> QED
  BY <1>1, <1>2 DEF Rebase, Pos, Position

\* A step keeps files, index and sizes well typed.
LEMMA StoreTypesStep == IInv /\ Next => StoreTypes'
<1> SUFFICES ASSUME IInv, Next PROVE StoreTypes'
  OBVIOUS
<1> USE Zero DEF IInv, TypeOK, StoreTypes
<1>1. CASE OpenFiles
  BY <1>1 DEF OpenFiles
<1>2. CASE LoadRecord
  BY <1>2 DEF LoadRecord,  ApplyRecord, Pos, Position, File, Record, FilesOK, LoadTypes
<1>3. CASE LoadFileEnd
  <2>1. \A f \in FileIds : disk[f].size \in Nat /\ validSize[f] \in Nat
    BY DEF File, LoadTypes
  <2>2. InvalidSizes \in [FileIds -> Nat]
    BY <2>1 DEF InvalidSizes
  <2> QED
    BY <1>3, <2>2 DEF LoadFileEnd
<1>4. ASSUME NEW t \in Threads, Count(t) PROVE StoreTypes'
  <2>1. old[t].file \in FileIds /\ OldSize(t) \in Nat
    BY <1>4, NamedRecord DEF Count, PositionsOK, Held, OldSize, Position, ThreadsOK,
      CallTypes, Request
  <2> QED
    BY <1>4, <2>1 DEF Count
<1>5. ASSUME NEW t \in Threads, Rotate(t) PROVE StoreTypes'
  BY <1>5 DEF Rotate
<1>6. ASSUME NEW t \in Threads, AppendRecord(t) \/ CallError(t) PROVE StoreTypes'
  <2> DEFINE r == [key |-> req[t].key, val |-> req[t].val]
  <2>1. r \in Record
    BY <1>6 DEF AppendRecord, CallError, ThreadsOK, CallTypes, Request, Record
  <2>2. Write(disk[active], r) \in File
    BY <2>1, WriteType
  <2> QED
    BY <1>6, <2>2 DEF AppendRecord, CallError, Appended
<1>7. ASSUME NEW t \in Threads, Index(t) \/ Unindex(t) PROVE StoreTypes'
  <2>1. pc[t] = "index" => pos[t] \in Position
    BY DEF PositionsOK, HoldsPos, Held, Names
  <2> QED
    BY <1>7, <2>1 DEF Index, Unindex, Applied
<1>8. ASSUME NEW t \in Threads, CompareExchange(t) \/ Release(t) PROVE StoreTypes'
  BY <1>8 DEF CompareExchange, Release
<1>9. ASSUME NEW t \in Threads, Rename(t) \/ RenameError(t) PROVE StoreTypes'
  <2>1. moved \in FileIds
    BY <1>9 DEF Rename, RenameError, MergeTypes, FileIds
  <2>2. tmp[moved] \in File
    BY <2>1 DEF MergeTypes
  <2> QED
    BY <1>9, <2>2 DEF Rename, RenameError
<1>10. ASSUME NEW t \in Threads, SwapActive(t) PROVE StoreTypes'
  BY <1>10 DEF SwapActive
<1>11. ASSUME NEW t \in Threads, Relocate(t) PROVE StoreTypes'
  <2>1. PICK k \in moving : index' = [index EXCEPT ![k] = Rebase(newPos[k])]
    BY <1>11 DEF Relocate
  <2>2. k \in Keys /\ newPos[k] # Nil
    BY <2>1 DEF MergeTypes, CopiesOK
  <2>3. Rebase(newPos[k]) \in Position
    BY <1>11, <2>2, RebaseType DEF Relocate
  <2> QED
    BY <1>11, <2>1, <2>2, <2>3 DEF Relocate
<1>12. ASSUME NEW t \in Threads, RemoveCandidate(t) PROVE StoreTypes'
  <2>1. PICK f \in todo : /\ older' = older \ {f} /\ onDisk' \subseteq onDisk
                          /\ reclaim' = [reclaim EXCEPT ![f] = 0]
    BY <1>12 DEF RemoveCandidate
  <2> QED
    BY <1>12, <2>1 DEF RemoveCandidate, MergeTypes
<1>13. CASE Crash
  BY <1>13 DEF Crash, NoIndex, NoSizes
<1>14. CASE UNCHANGED storeVars
  BY <1>14 DEF storeVars
<1> QED
  BY <1>1, <1>2, <1>3, <1>4, <1>5, <1>6, <1>7, <1>8, <1>9, <1>10, <1>11, <1>12,
     <1>13, <1>14, FrameStore DEF Open

\* A step keeps the state of the merge well typed.
LEMMA MergeTypesStep == IInv /\ Next => MergeTypes'
<1> SUFFICES ASSUME IInv, Next PROVE MergeTypes'
  OBVIOUS
<1> USE Zero DEF IInv, TypeOK, MergeTypes
<1>1. ASSUME NEW t \in Threads, Select(t) PROVE MergeTypes'
  BY <1>1 DEF Select, Candidates, StoreTypes
<1>2. ASSUME NEW t \in Threads, ScanOpen(t) PROVE MergeTypes'
  BY <1>2 DEF ScanOpen, FirstOffset
<1>3. ASSUME NEW t \in Threads, ScanRecord(t) PROVE MergeTypes'
  <2> DEFINE recs == disk[scanFile].recs
             r == recs[scanOff]
  <2>1. scanOff' \in Nat
    BY <1>3 DEF ScanRecord, Advance
  <2>2. CASE IsValid(r.key, scanFile, scanOff)
    <3>1. r \in Record
      <4>1. recs \in Seq(Record)
        BY DEF StoreTypes, File
      <4>2. scanOff \in 1 .. Len(recs)
        BY <1>3, <4>1 DEF ScanRecord, Scanning, FilesOK
      <4> QED
        BY <4>1, <4>2
    <3> DEFINE c == OutFile(r)
    <3>2. c \in FileIds /\ Write(tmp[c], r) \in File /\ cur' = c
      BY <1>3, <2>2, <3>1, WriteType DEF ScanRecord, ContextAppend
    <3>3. tmp' = [tmp EXCEPT ![c] = Write(@, r)]
      BY <1>3, <2>2 DEF ScanRecord, ContextAppend
    <3>4. WriteOffset(tmp[c]) \in Nat \ {0}
      BY <3>2 DEF WriteOffset, File
    <3>5. newPos' = [newPos EXCEPT ![r.key] = Pos(c, WriteOffset(tmp[c]))]
      BY <1>3, <2>2 DEF ScanRecord, ContextAppend
    <3>6. Pos(c, WriteOffset(tmp[c])) \in Position
      BY <3>2, <3>4 DEF Pos, Position
    <3> QED
      BY <1>3, <2>1, <3>2, <3>3, <3>5, <3>6 DEF ScanRecord
  <2>3. CASE ~IsValid(r.key, scanFile, scanOff)
    BY <1>3, <2>1, <2>3 DEF ScanRecord
  <2> QED
    BY <2>2, <2>3
<1>4. ASSUME NEW t \in Threads, BeginCommit(t) PROVE MergeTypes'
  BY <1>4 DEF BeginCommit, NextFileId, StoreTypes, FileIds
<1>5. ASSUME NEW t \in Threads, Rename(t) PROVE MergeTypes'
  BY <1>5 DEF Rename
<1>6. ASSUME NEW t \in Threads, Recheck(t) PROVE MergeTypes'
  BY <1>6 DEF Recheck
<1>7. ASSUME NEW t \in Threads, Relocate(t) PROVE MergeTypes'
  BY <1>7 DEF Relocate
<1>8. ASSUME NEW t \in Threads, BeginCleanup(t) \/ RemoveCandidate(t) PROVE MergeTypes'
  BY <1>8 DEF BeginCleanup, RemoveCandidate
<1>9. ASSUME NEW t \in Threads, MergeError(t) PROVE MergeTypes'
  BY <1>9 DEF MergeError
<1>10. ASSUME NoMerge PROVE MergeTypes'
  BY <1>10 DEF NoMerge, NoFiles, NoIndex, EmptyFile, File
<1>11. CASE UNCHANGED mergeVars
  BY <1>11
<1> QED
  BY <1>1, <1>2, <1>3, <1>4, <1>5, <1>6, <1>7, <1>8, <1>9, <1>10, <1>11, FrameMerge
  DEF MergeStep, SwapActive, EndMerge, RenameError, Release, Crash

-------------------------------------------------------------------------------
(***************************************************************************)
(* Threads: a step changes the local state of the thread that takes it.    *)
(***************************************************************************)
Same(u) ==
  /\ pc'[u] = pc[u] /\ req'[u] = req[u] /\ pos'[u] = pos[u]
  /\ old'[u] = old[u] /\ result'[u] = result[u]

\* A step of one thread leaves the local state of the others alone.
LEMMA OthersSame ==
  ASSUME CallTypes, NEW t \in Threads, NEW u \in Threads, t # u, Call(t) \/ Step(t)
  PROVE  Same(u)
<1>1. ASSUME Call(t) PROVE Same(u)
  BY <1>1 DEF Call, CallPut, CallDelete, CallGet, Begin, Goto, Same, CallTypes
<1>2. ASSUME Step(t), ~MergeStep(t) PROVE Same(u)
  BY <1>2 DEF Step, Lookup, Read, Check, Reread, ReadOld, ReadOldPosition, Count,
    Ensure, Rotate, AppendRecord, CallError, Index, Unindex, Applied, Trigger,
    CompareExchange, Return, Goto, Same, CallTypes
<1>3. ASSUME MergeStep(t) PROVE Same(u)
  BY <1>3 DEF MergeStep, Select, ScanOpen, ScanRecord, BeginCommit, Rename, SwapActive,
    Recheck, Relocate, BeginCleanup, RemoveCandidate, EndMerge, MergeError,
    RenameError, Release, Return, Goto, Same, CallTypes
<1> QED
  BY <1>1, <1>2, <1>3

\* A thread whose local state a step changes is the one that takes the step.
LEMMA FrameThread ==
  ASSUME CallTypes, Next, NEW u \in Threads
  PROVE Call(u) \/ Step(u) \/ Crash \/ Same(u)
<1>1. CASE Open \/ Finished
  BY <1>1 DEF Open, OpenFiles, LoadRecord, LoadFileEnd, Finished, vars, Same
<1> QED
  BY <1>1, OthersSame DEF Next

\* Returning an answer keeps local state well typed.
LEMMA ReturnType ==
  ASSUME CallTypes, NEW t \in Threads, NEW r \in Outcomes, Return(t, r)
  PROVE CallTypes'
<1>1. "idle" \in PCs
  BY DEF PCs
<1> QED
  BY <1>1 DEF CallTypes, Return, Goto

\* Going on to another block keeps local state well typed.
LEMMA GotoType ==
  ASSUME CallTypes, NEW t \in Threads, NEW l \in PCs, Goto(t, l),
         UNCHANGED <<req, pos, old, result>>
  PROVE CallTypes'
BY DEF CallTypes, Goto

\* The outcomes a call may have.
LEMMA OutcomeNames ==
  /\ \A o \in {"pending", "ok", "none", "not_found", "file_missing", "io_error"} : o \in Outcomes
  /\ \A v \in Values : v \in Outcomes
BY DEF Outcomes

\* The blocks a thread may be in.
LEMMA Blocks ==
  \A l \in {"idle", "lookup", "read", "check", "reread", "ensure", "rotate", "append",
            "readOld", "count", "index", "unindex", "trigger", "cas", "select", "scan",
            "rename", "recheck", "cleanup", "release"} : l \in PCs
BY DEF PCs, PendingPCs, MergePCs, CommitPCs

\* A step keeps the local state of every thread well typed.
LEMMA CallTypesStep == IInv /\ Next => CallTypes'
<1> SUFFICES ASSUME IInv, Next PROVE CallTypes'
  OBVIOUS
<1> USE DEF IInv, TypeOK
<1>1. CASE Open \/ Finished
  BY <1>1 DEF Open, OpenFiles, LoadRecord, LoadFileEnd, Finished, vars, CallTypes
<1>2. CASE Crash
  BY <1>2, Blocks, OutcomeNames DEF Crash, CallTypes
<1>3. ASSUME NEW t \in Threads, Call(t) PROVE CallTypes'
  <2>1. PICK op \in {"put", "delete", "get"}, k \in Keys, v \in Values \cup {Deleted},
             l \in {"ensure", "check", "lookup"} : Begin(t, op, k, v, l)
    BY <1>3 DEF Call, CallPut, CallDelete, CallGet
  <2>2. [op |-> op, key |-> k, val |-> v] \in Request
    BY DEF Request
  <2> QED
    BY <2>1, <2>2, Blocks, OutcomeNames DEF Begin, Goto, CallTypes
<1>4. ASSUME NEW t \in Threads, Lookup(t) PROVE CallTypes'
  <2>1. CASE index[req[t].key] = Nil
    BY <1>4, <2>1, ReturnType, OutcomeNames DEF Lookup
  <2>2. CASE index[req[t].key] # Nil
    <3>1. index[req[t].key] \in Position
      BY <1>4, <2>2 DEF Lookup, StoreTypes, ThreadsOK, CallTypes, Request
    <3> QED
      BY <1>4, <2>2, <3>1, Blocks DEF Lookup, Goto, CallTypes
  <2> QED
    BY <2>1, <2>2
<1>5. ASSUME NEW t \in Threads, Read(t) PROVE CallTypes'
  <2>1. RecordAt(pos[t]).val \in Values
    BY <1>5, NamedRecord DEF Read, PositionsOK, HoldsPos, Held, ThreadsOK, CallTypes, Request
  <2> QED
    BY <1>5, <2>1, ReturnType, OutcomeNames DEF Read
<1>6. ASSUME NEW t \in Threads, Check(t) PROVE CallTypes'
  BY <1>6, ReturnType, GotoType, Blocks, OutcomeNames DEF Check
<1>7. ASSUME NEW t \in Threads, Reread(t) \/ ReadOld(t) PROVE CallTypes'
  <2>1. req[t].key \in Keys
    BY <1>7 DEF Reread, ReadOld, ReadOldPosition, ThreadsOK, CallTypes, Request
  <2>2. PICK l \in {"ensure", "index", "count"} : Goto(t, l)
    BY <1>7 DEF Reread, ReadOld, ReadOldPosition
  <2> QED
    BY <1>7, <2>1, <2>2, Blocks DEF Reread, ReadOld, ReadOldPosition, Goto, CallTypes, StoreTypes
<1>8. ASSUME NEW t \in Threads, Count(t) \/ Ensure(t) \/ Rotate(t) PROVE CallTypes'
  <2>1. PICK l \in {"index", "ensure", "append", "rotate"} : Goto(t, l)
    BY <1>8 DEF Count, Ensure, Rotate
  <2> QED
    BY <1>8, <2>1, GotoType, Blocks DEF Count, Ensure, Rotate
<1>9. ASSUME NEW t \in Threads, AppendRecord(t) PROVE CallTypes'
  <2>1. Pos(active, WriteOffset(disk[active])) \in Position
    BY DEF Pos, Position, WriteOffset, StoreTypes, File
  <2> QED
    BY <1>9, <2>1, Blocks DEF AppendRecord, Goto, CallTypes
<1>10. ASSUME NEW t \in Threads, CallError(t) PROVE CallTypes'
  BY <1>10, ReturnType, OutcomeNames DEF CallError
<1>11. ASSUME NEW t \in Threads, Index(t) \/ Unindex(t) PROVE CallTypes'
  BY <1>11, Blocks DEF Index, Unindex, Applied, Goto, CallTypes
<1>12. ASSUME NEW t \in Threads, Trigger(t) \/ CompareExchange(t) PROVE CallTypes'
  BY <1>12, ReturnType, GotoType, Blocks, OutcomeNames DEF Trigger, CompareExchange
<1>13. ASSUME NEW t \in Threads, MergeStep(t) PROVE CallTypes'
  <2>1. CASE ScanOpen(t) \/ ScanRecord(t) \/ Rename(t) \/ Recheck(t) \/ Relocate(t)
             \/ RemoveCandidate(t)
    BY <2>1 DEF ScanOpen, ScanRecord, Rename, Recheck, Relocate, RemoveCandidate, CallTypes
  <2>2. CASE Select(t) \/ BeginCommit(t) \/ SwapActive(t) \/ BeginCleanup(t) \/ EndMerge(t)
    <3>1. PICK l \in {"release", "scan", "rename", "recheck", "cleanup"} : Goto(t, l)
      BY <2>2 DEF Select, BeginCommit, SwapActive, BeginCleanup, EndMerge
    <3> QED
      BY <2>2, <3>1, GotoType, Blocks DEF Select, BeginCommit, SwapActive, BeginCleanup, EndMerge
  <2>3. CASE MergeError(t) \/ RenameError(t)
    BY <2>3, Blocks, OutcomeNames DEF MergeError, RenameError, Goto, CallTypes
  <2>4. CASE Release(t)
    BY <2>4, ReturnType, OutcomeNames DEF Release
  <2> QED
    BY <1>13, <2>1, <2>2, <2>3, <2>4 DEF MergeStep
<1> QED
  BY <1>1, <1>2, <1>3, <1>4, <1>5, <1>6, <1>7, <1>8, <1>9, <1>10, <1>11, <1>12, <1>13
  DEF Next, Step

\* A step keeps the counters and the recovery history well typed.
LEMMA BoundTypesStep == IInv /\ Next => BoundTypes'
<1> SUFFICES ASSUME IInv, Next PROVE BoundTypes'
  OBVIOUS
<1> USE DEF IInv, TypeOK, BoundTypes
<1>1. CASE Crash
  <2>1. ASSUME NEW k \in Keys PROVE View(k) \in Values \cup {Deleted}
    BY NamedRecord DEF View, ValueAt, PositionsOK, Held
  <2>2. \A u \in Threads : pc[u] \in PendingPCs => req[u].val \in Values \cup {Deleted}
    BY DEF PendingPCs, ThreadsOK, CallTypes, Request
  <2>3. \A k \in Keys : Recoverable(k) \subseteq Values \cup {Deleted}
    BY <2>1, <2>2 DEF Recoverable
  <2> QED
    BY <1>1, <2>3 DEF Crash
<1>2. ASSUME NEW t \in Threads, Call(t) PROVE BoundTypes'
  BY <1>2 DEF Call, CallPut, CallDelete, CallGet, Begin
<1>3. CASE UNCHANGED boundVars
  BY <1>3
<1>4. ASSUME NEW t \in Threads, Step(t) PROVE UNCHANGED boundVars
  <2>1. ASSUME MergeStep(t) PROVE UNCHANGED boundVars
    BY <2>1 DEF MergeStep, Select, ScanOpen, ScanRecord, BeginCommit, Rename, SwapActive,
      Recheck, Relocate, BeginCleanup, RemoveCandidate, EndMerge, MergeError,
      RenameError, Release
  <2> QED
    BY <1>4, <2>1 DEF Step, Lookup, Read, Check, Reread, ReadOld, ReadOldPosition, Count,
      Ensure, Rotate, AppendRecord, CallError, Index, Unindex, Applied, Trigger,
      CompareExchange
<1>5. CASE Open \/ Finished
  BY <1>5 DEF Open, OpenFiles, LoadRecord, LoadFileEnd, Finished, vars
<1> QED
  BY <1>1, <1>2, <1>3, <1>4, <1>5 DEF Next

\* A step keeps every variable in its type.
LEMMA TypeStep == IInv /\ Next => TypeOK'
BY StoreTypesStep, LoadTypesStep, MergeTypesStep, CallTypesStep, BoundTypesStep DEF IInv, TypeOK

-------------------------------------------------------------------------------
(***************************************************************************)
(* Control: what a thread in a block holds.                                *)
(***************************************************************************)

\* ThreadsOK, for one thread.
ThreadOK(u) ==
  /\ pc[u] # "idle" => status = "up" /\ req[u] \in Request
  /\ pc[u] \in {"ensure", "rotate", "append"} =>
       req[u].op \in {"put", "delete"} /\ (req[u].op = "put" => req[u].val # Deleted)
  /\ pc[u] \in {"readOld", "index"} => req[u].op = "put"
  /\ pc[u] = "count" => req[u].op \in {"put", "delete"}
  /\ pc[u] \in {"check", "reread"} => req[u].op = "delete"

\* The process stays up as long as a thread takes its steps.
LEMMA StatusStep ==
  ASSUME IInv, NEW t \in Threads, Call(t) \/ Step(t)
  PROVE status = "up" /\ status' = "up"
<1>1. CASE Call(t)
  BY <1>1 DEF Call, CallPut, CallDelete, CallGet, Begin
<1>2. CASE Step(t)
  <2>1. pc[t] # "idle"
    BY <1>2 DEF Step, MergeStep, Select, ScanOpen, ScanRecord, BeginCommit, Rename, SwapActive,
      Recheck, Relocate, BeginCleanup, RemoveCandidate, EndMerge, MergeError,
      RenameError, Release, Lookup, Read, Check, Reread, ReadOld, ReadOldPosition, Count,
      Ensure, Rotate, AppendRecord, CallError, Index, Unindex, Applied, Trigger,
      CompareExchange
  <2>2. status' = status
    <3>1. ASSUME MergeStep(t) PROVE status' = status
      BY <3>1 DEF MergeStep, Select, ScanOpen, ScanRecord, BeginCommit, Rename, SwapActive,
        Recheck, Relocate, BeginCleanup, RemoveCandidate, EndMerge, MergeError,
        RenameError, Release
    <3> QED
      BY <1>2, <3>1 DEF Step, Lookup, Read, Check, Reread, ReadOld, ReadOldPosition, Count,
        Ensure, Rotate, AppendRecord, CallError, Index, Unindex, Applied, Trigger,
        CompareExchange
  <2> QED
    BY <2>1, <2>2 DEF IInv, ThreadsOK
<1> QED
  BY <1>1, <1>2

\* Only a kill brings the process down.
LEMMA StaysUp == IInv /\ Next /\ status = "up" => status' = "up" \/ Crash
BY StatusStep DEF Next, Open, OpenFiles, LoadRecord, LoadFileEnd, Finished, vars

\* A step keeps ThreadsOK.
LEMMA ThreadsStep == IInv /\ Next => ThreadsOK'
<1> SUFFICES ASSUME IInv, Next, NEW u \in Threads PROVE ThreadOK(u)'
  BY DEF ThreadOK, ThreadsOK
<1> USE DEF IInv, TypeOK
<1>1. CASE Crash
  BY <1>1 DEF Crash, ThreadOK
<1>2. CASE Same(u)
  <2>1. status = "up" => status' = "up" \/ Crash
    BY StaysUp
  <2> QED
    BY <1>1, <1>2, <2>1 DEF Same, ThreadOK, ThreadsOK
<1>3. CASE Call(u)
  <2>1. status' = "up"
    BY <1>3, StatusStep
  <2>2. CASE CallPut(u)
    <3>1. PICK k \in Keys, v \in Values : Begin(u, "put", k, v, "ensure")
      BY <2>2 DEF CallPut
    <3>2. v # Deleted
      OBVIOUS
    <3>3. [op |-> "put", key |-> k, val |-> v] \in Request
      BY DEF Request
    <3> QED
      BY <2>1, <3>1, <3>2, <3>3 DEF Begin, Goto, ThreadOK, CallTypes
  <2>3. CASE CallDelete(u) \/ CallGet(u)
    <3>1. PICK op \in {"delete", "get"}, k \in Keys, l \in {"check", "lookup"} :
            Begin(u, op, k, Deleted, l) /\ (l = "check" => op = "delete")
      BY <2>3 DEF CallDelete, CallGet
    <3>2. [op |-> op, key |-> k, val |-> Deleted] \in Request
      BY DEF Request
    <3> QED
      BY <2>1, <3>1, <3>2 DEF Begin, Goto, ThreadOK, CallTypes
  <2> QED
    BY <1>3, <2>2, <2>3 DEF Call
<1>4. CASE Step(u)
  <2>1. status' = "up"
    BY <1>4, StatusStep
  <2>2. ThreadOK(u)
    BY DEF ThreadOK, ThreadsOK
  <2>3. CASE MergeStep(u)
    BY <2>1, <2>2, <2>3 DEF MergeStep, Select, ScanOpen, ScanRecord, BeginCommit, Rename,
      SwapActive, Recheck, Relocate, BeginCleanup, RemoveCandidate, EndMerge, MergeError,
      RenameError, Release, Return, Goto, ThreadOK, CallTypes
  <2>4. CASE ~MergeStep(u)
    BY <1>4, <2>1, <2>2, <2>4 DEF Step, Lookup, Read, Check, Reread, ReadOld,
      ReadOldPosition, Count, Ensure, Rotate, AppendRecord, CallError, Index, Unindex,
      Applied, Trigger, CompareExchange, Return, Goto, ThreadOK, CallTypes
  <2> QED
    BY <2>3, <2>4
<1> QED
  BY <1>1, <1>2, <1>3, <1>4, FrameThread

-------------------------------------------------------------------------------
(***************************************************************************)
(* The log: a record at a position up to the last id stays what it is.     *)
(***************************************************************************)
Grows ==
  /\ lastId <= lastId'
  /\ \A f \in FileIds : f <= lastId =>
       /\ Len(disk[f].recs) <= Len(disk'[f].recs)
       /\ \A i \in 1 .. Len(disk[f].recs) : disk'[f].recs[i] = disk[f].recs[i]

\* Writing a record at the end of a file keeps those before it.
LEMMA WriteGrows ==
  ASSUME NEW file \in File, NEW r
  PROVE /\ Len(Write(file, r).recs) = Len(file.recs) + 1
        /\ Write(file, r).recs[Len(file.recs) + 1] = r
        /\ \A i \in 1 .. Len(file.recs) : Write(file, r).recs[i] = file.recs[i]
<1>1. file.recs \in Seq(Record)
  BY DEF File
<1> QED
  BY <1>1 DEF Write

\* Two acts of writing: one call's append, and the commit of a merge, which
\* writes above the last id.
LEMMA GrowsStep ==
  ASSUME IInv, Next PROVE Grows \/ OpenFiles \/ Crash
<1> USE DEF IInv, TypeOK, StoreTypes
<1>1. ASSUME NEW t \in Threads, AppendRecord(t) \/ CallError(t) PROVE Grows
  <2>1. CASE UNCHANGED <<disk, lastId>>
    BY <2>1 DEF Grows, File, FileIds
  <2>2. CASE disk' = Appended(t) /\ UNCHANGED lastId
    <3> DEFINE r == [key |-> req[t].key, val |-> req[t].val]
    <3>1. disk' = [disk EXCEPT ![active] = Write(disk[active], r)]
      BY <2>2 DEF Appended
    <3> HIDE DEF r
    <3>2. \A f \in FileIds : disk'[f] = IF f = active THEN Write(disk[active], r) ELSE disk[f]
      BY <3>1
    <3>3. \A f \in FileIds : Len(disk[f].recs) \in Nat /\ disk[f] \in File
      BY DEF File
    <3>4. ASSUME NEW f \in FileIds
          PROVE /\ Len(disk[f].recs) <= Len(disk'[f].recs)
                /\ \A i \in 1 .. Len(disk[f].recs) : disk'[f].recs[i] = disk[f].recs[i]
      <4>1. CASE f # active
        BY <3>2, <3>3, <4>1
      <4>2. CASE f = active
        <5>1. disk'[f] = Write(disk[f], r)
          BY <3>2, <4>2
        <5> QED
          BY <3>3, <5>1, WriteGrows
      <4> QED
        BY <4>1, <4>2
    <3>5. lastId <= lastId'
      BY <2>2 DEF FileIds
    <3> QED
      BY <3>4, <3>5 DEF Grows
  <2> QED
    BY <1>1, <2>1, <2>2 DEF AppendRecord, CallError
<1>2. ASSUME NEW t \in Threads, Rename(t) \/ RenameError(t) PROVE Grows
  <2>1. MergedId = lastId + 1
    BY <1>2 DEF Rename, RenameError, CommitOK, MergedId
  <2>2. \A f \in FileIds : f <= lastId => disk'[f] = disk[f]
    BY <1>2, <2>1 DEF Rename, RenameError, FileIds
  <2>3. lastId <= lastId'
    BY <1>2, <2>1 DEF Rename, RenameError, FileIds
  <2> QED
    BY <2>2, <2>3 DEF Grows, File
<1>3. ASSUME NEW t \in Threads, Rotate(t) \/ SwapActive(t) PROVE Grows
  <2>1. disk' = disk
    BY <1>3 DEF Rotate, SwapActive
  <2>2. lastId <= lastId'
    BY <1>3 DEF Rotate, SwapActive, NewActiveId, CommitOK, MergeTypes, NextFileId, FileIds
  <2> QED
    BY <2>1, <2>2 DEF Grows, File
<1>4. ASSUME UNCHANGED <<disk, lastId>> PROVE Grows
  BY <1>4 DEF Grows, File, FileIds
<1>5. ASSUME NEW t \in Threads, Count(t) \/ Index(t) \/ Unindex(t) \/ CompareExchange(t)
                                \/ Relocate(t) \/ RemoveCandidate(t) \/ Release(t)
      PROVE UNCHANGED <<disk, lastId>>
  BY <1>5 DEF Count, Index, Unindex, Applied, CompareExchange, Relocate, RemoveCandidate, Release
<1>6. CASE LoadRecord \/ LoadFileEnd
  BY <1>4, <1>6 DEF LoadRecord, LoadFileEnd
<1> QED
  BY <1>1, <1>2, <1>3, <1>4, <1>5, <1>6, FrameStore DEF Open, storeVars

\* Position p is safe to hold for key k after the step.
HeldNext(k, p) ==
  /\ p \in Position /\ p.file <= lastId'
  /\ p.off <= Len(disk'[p.file].recs)
  /\ disk'[p.file].recs[p.off].key = k
  /\ disk'[p.file].recs[p.off].val # Deleted

\* So what is safe to hold stays safe to hold.
LEMMA HeldStable ==
  ASSUME StoreTypes, StoreTypes', Grows, NEW k \in Keys, NEW p, Held(k, p)
  PROVE HeldNext(k, p)
<1>1. /\ p \in Position /\ p.file \in FileIds /\ p.off \in Nat \ {0}
      /\ p.file <= lastId /\ p.off <= Len(disk[p.file].recs)
  BY DEF Held, Names, Position
<1>2. Len(disk[p.file].recs) \in Nat /\ Len(disk'[p.file].recs) \in Nat
  <2>1. disk[p.file].recs \in Seq(Record) /\ disk'[p.file].recs \in Seq(Record)
    BY <1>1 DEF StoreTypes, File
  <2> QED
    BY <2>1
<1>3. /\ disk'[p.file].recs[p.off] = disk[p.file].recs[p.off]
      /\ p.off <= Len(disk'[p.file].recs)
  BY <1>1, <1>2 DEF Grows
<1>4. p.file <= lastId'
  BY <1>1 DEF Grows, StoreTypes, FileIds
<1> QED
  BY <1>1, <1>3, <1>4 DEF Held, HeldNext, Names, RecordAt

-------------------------------------------------------------------------------
(***************************************************************************)
(* Positions: the index, and the positions threads hold.                   *)
(***************************************************************************)

\* The actions that change the index.
LEMMA FrameIndex ==
  Next => \/ LoadRecord \/ Crash
          \/ \E t \in Threads : Index(t) \/ Unindex(t) \/ Relocate(t)
          \/ UNCHANGED index
<1>1. ASSUME NEW t \in Threads, Call(t) PROVE UNCHANGED index
  BY <1>1 DEF Call, CallPut, CallDelete, CallGet, Begin
<1>2. ASSUME NEW t \in Threads, Step(t), ~MergeStep(t)
      PROVE Index(t) \/ Unindex(t) \/ UNCHANGED index
  BY <1>2 DEF Step, Lookup, Read, Check, Reread, ReadOld, ReadOldPosition, Count, Ensure,
    Rotate, AppendRecord, CallError, Trigger, CompareExchange
<1>3. ASSUME NEW t \in Threads, MergeStep(t) PROVE Relocate(t) \/ UNCHANGED index
  BY <1>3 DEF MergeStep, Select, ScanOpen, ScanRecord, BeginCommit, Rename, SwapActive,
    Recheck, BeginCleanup, RemoveCandidate, EndMerge, MergeError, RenameError, Release
<1>4. Finished \/ OpenFiles \/ LoadFileEnd => UNCHANGED index
  BY DEF Finished, vars, OpenFiles, LoadFileEnd
<1> QED
  BY <1>1, <1>2, <1>3, <1>4 DEF Next, Open

\* A record of the file being replayed is one the index may name.
LEMMA IndexStep ==
  ASSUME IInv, Next, NEW k \in Keys, index'[k] # Nil PROVE HeldNext(k, index'[k])
<1> USE DEF IInv, TypeOK
<1>1. StoreTypes /\ StoreTypes'
  BY StoreTypesStep
<1>2. CASE Crash
  BY <1>2 DEF Crash, NoIndex
<1>3. CASE OpenFiles
  BY <1>3 DEF OpenFiles, FilesOK, NoIndex
<1>4. ASSUME Grows, index[k] # Nil PROVE HeldNext(k, index[k])
  BY <1>1, <1>4, HeldStable DEF PositionsOK
<1>5. ASSUME Grows, UNCHANGED index PROVE HeldNext(k, index'[k])
  BY <1>4, <1>5
<1>6. ASSUME Grows, LoadRecord PROVE HeldNext(k, index'[k])
  <2> DEFINE r == disk[loadFile].recs[loadOff]
             p == Pos(loadFile, loadOff)
  <2>1. disk[loadFile].recs \in Seq(Record)
    BY DEF StoreTypes, LoadTypes, File
  <2>2. loadOff \in 1 .. Len(disk[loadFile].recs)
    BY <1>6, <2>1 DEF LoadRecord, FilesOK, LoadTypes
  <2>3. index' = [index EXCEPT ![r.key] = IF r.val = Deleted THEN Nil ELSE p]
    BY <1>6 DEF LoadRecord, ApplyRecord
  <2>4. CASE k # r.key
    BY <1>4, <1>6, <2>3, <2>4 DEF StoreTypes
  <2>5. CASE k = r.key
    <3>1. r.val # Deleted /\ index'[k] = p
      BY <2>3, <2>5 DEF StoreTypes
    <3>2. Held(k, p)
      BY <1>6, <2>1, <2>2, <2>5, <3>1 DEF Held, Names, Pos, Position, RecordAt, LoadTypes,
        LoadRecord, FilesOK
    <3> QED
      BY <1>1, <1>6, <3>1, <3>2, HeldStable
  <2> QED
    BY <2>4, <2>5
<1>7. ASSUME Grows, NEW t \in Threads, Index(t) PROVE HeldNext(k, index'[k])
  <2>1. CASE k # req[t].key
    BY <1>4, <1>7, <2>1 DEF Index, StoreTypes
  <2>2. CASE k = req[t].key
    <3>1. Held(k, pos[t]) /\ index'[k] = pos[t]
      BY <1>7, <2>2 DEF Index, PositionsOK, HoldsPos, StoreTypes
    <3> QED
      BY <1>1, <1>7, <3>1, HeldStable
  <2> QED
    BY <2>1, <2>2
<1>8. ASSUME Grows, NEW t \in Threads, Unindex(t) PROVE HeldNext(k, index'[k])
  BY <1>4, <1>8 DEF Unindex, StoreTypes
<1>9. ASSUME Grows, NEW t \in Threads, Relocate(t) PROVE HeldNext(k, index'[k])
  <2>1. PICK j \in moving : index' = [index EXCEPT ![j] = Rebase(newPos[j])]
    BY <1>9 DEF Relocate
  <2>2. CASE k # j
    BY <1>4, <1>9, <2>1, <2>2 DEF StoreTypes
  <2>3. CASE k = j
    <3> DEFINE p == newPos[k]
    <3>1. newPos[k] # Nil /\ index'[k] = Rebase(p)
      BY <2>1, <2>3 DEF CopiesOK, StoreTypes
    <3>2. Rebase(p) \in Position /\ start + p.file <= lastId
      BY <1>9, <3>1, RebaseType DEF Relocate
    <3>3. p \in Position
      BY <3>1 DEF MergeTypes
    <3>4. p.file \in FileIds /\ p.file <= cur /\ p.file < moved
      <4>1. p.file \in FileIds /\ p.file <= cur
        BY <3>1, <3>3 DEF CopiesOK, Position
      <4>2. moved = cur + 1
        BY <1>9 DEF Relocate, CommitOK
      <4> QED
        BY <4>1, <4>2 DEF MergeTypes, FileIds
    <3>5. disk[start + p.file] = tmp[p.file]
      BY <1>9, <3>4 DEF CommitOK, Relocate
    <3>6. Held(k, Rebase(p))
      BY <3>1, <3>2, <3>5 DEF Held, Names, Rebase, Pos, RecordAt, CopiesOK
    <3> QED
      BY <1>1, <1>9, <3>1, <3>6, HeldStable
  <2> QED
    BY <2>2, <2>3
<1> QED
  BY <1>2, <1>3, <1>5, <1>6, <1>7, <1>8, <1>9, GrowsStep, FrameIndex

\* The positions of one thread, before and after the step.
HoldOK(u) ==
  /\ HoldsPos(u) => Held(req[u].key, pos[u])
  /\ pc[u] = "count" => Held(req[u].key, old[u])

HoldNext(u) ==
  /\ HoldsPos(u)' => HeldNext(req'[u].key, pos'[u])
  /\ pc'[u] = "count" => HeldNext(req'[u].key, old'[u])

\* A write appends the very record its position names.
LEMMA AppendHeld ==
  ASSUME IInv, Next, NEW t \in Threads, AppendRecord(t), req[t].op = "put"
  PROVE HeldNext(req[t].key, pos'[t])
<1> USE DEF IInv, TypeOK, StoreTypes
<1> DEFINE r == [key |-> req[t].key, val |-> req[t].val]
           p == Pos(active, WriteOffset(disk[active]))
<1>1. pos'[t] = p /\ disk'[active] = Write(disk[active], r) /\ lastId' = lastId
  BY DEF AppendRecord, Appended, CallTypes
<1>2. active \in FileIds /\ active <= lastId /\ r.val # Deleted
  BY DEF AppendRecord, ThreadsOK, FilesOK
<1>3. disk[active].recs \in Seq(Record)
  BY <1>2 DEF File
<1>4. p \in Position /\ p.file = active /\ p.off = Len(disk[active].recs) + 1
  BY <1>2, <1>3 DEF Pos, Position, WriteOffset
<1>5. disk'[active].recs[p.off] = r /\ p.off <= Len(disk'[active].recs)
  BY <1>1, <1>2, <1>3, <1>4, WriteGrows
<1> QED
  BY <1>1, <1>2, <1>4, <1>5 DEF HeldNext

\* A step keeps PositionsOK.
LEMMA PositionsStep == IInv /\ Next => PositionsOK'
<1> SUFFICES ASSUME IInv, Next, NEW u \in Threads PROVE HoldNext(u)
  BY IndexStep DEF PositionsOK, HoldNext, HeldNext, Held, Names, RecordAt
<1> USE DEF IInv, TypeOK
<1>1. StoreTypes /\ StoreTypes' /\ ThreadsOK'
  BY StoreTypesStep, ThreadsStep
<1>2. CASE Crash
  BY <1>2 DEF Crash, HoldNext, HoldsPos
<1>3. CASE OpenFiles
  BY <1>3 DEF OpenFiles, ThreadsOK, HoldNext, HoldsPos
<1>4. ASSUME Grows, NEW p, pc[u] # "idle", Held(req[u].key, p) PROVE HeldNext(req[u].key, p)
  BY <1>1, <1>4, HeldStable DEF ThreadsOK, Request
<1>5. HoldOK(u)
  BY DEF HoldOK, PositionsOK
<1>6. ASSUME Grows, Same(u) PROVE HoldNext(u)
  BY <1>4, <1>5, <1>6 DEF HoldOK, HoldNext, HoldsPos, Same
<1>7. ASSUME Grows, Call(u) PROVE HoldNext(u)
  BY <1>7 DEF Call, CallPut, CallDelete, CallGet, Begin, Goto, HoldNext, HoldsPos, CallTypes
<1>8. ASSUME Grows, Lookup(u) PROVE HoldNext(u)
  <2>1. index[req[u].key] # Nil => Held(req[u].key, index[req[u].key])
    BY <1>8 DEF Lookup, PositionsOK, ThreadsOK, Request
  <2> QED
    BY <1>4, <1>8, <2>1 DEF Lookup, Return, Goto, HoldNext, HoldsPos, CallTypes
<1>9. ASSUME Grows, Reread(u) \/ ReadOld(u) PROVE HoldNext(u)
  <2>1. index[req[u].key] # Nil => Held(req[u].key, index[req[u].key])
    BY <1>9 DEF Reread, ReadOld, ReadOldPosition, PositionsOK, ThreadsOK, Request
  <2>2. pc[u] = "reread" => req[u].op = "delete"
    BY DEF ThreadsOK
  <2> QED
    BY <1>4, <1>5, <1>9, <2>1, <2>2 DEF Reread, ReadOld, ReadOldPosition, Goto, HoldOK, HoldNext,
      HoldsPos, CallTypes
<1>10. ASSUME Grows, Count(u) PROVE HoldNext(u)
  BY <1>4, <1>5, <1>10 DEF Count, Goto, HoldOK, HoldNext, HoldsPos, CallTypes
<1>11. ASSUME Grows, AppendRecord(u) PROVE HoldNext(u)
  BY <1>11, AppendHeld DEF AppendRecord, Goto, HoldNext, HoldsPos, CallTypes
<1>12. ASSUME Grows, Read(u) \/ Check(u) \/ Ensure(u) \/ Rotate(u) \/ CallError(u)
                     \/ Index(u) \/ Unindex(u) \/ Trigger(u) \/ CompareExchange(u)
       PROVE HoldNext(u)
  BY <1>12 DEF Read, Check, Ensure, Rotate, CallError, Index, Unindex, Applied, Trigger,
    CompareExchange, Return, Goto, HoldNext, HoldsPos, CallTypes
<1>13. ASSUME Grows, MergeStep(u) PROVE HoldNext(u)
  BY <1>13 DEF MergeStep, Select, ScanOpen, ScanRecord, BeginCommit, Rename,
      SwapActive, Recheck, Relocate, BeginCleanup, RemoveCandidate, EndMerge, MergeError,
      RenameError, Release, Return, Goto, HoldNext, HoldsPos, CallTypes
<1> QED
  BY <1>2, <1>3, <1>6, <1>7, <1>8, <1>9, <1>10, <1>11, <1>12, <1>13, GrowsStep, FrameThread
  DEF Step

-------------------------------------------------------------------------------
(***************************************************************************)
(* Files and the merge.                                                    *)
(***************************************************************************)

\* At most one thread commits, and while it does nobody else writes.
LEMMA OneMerger ==
  ASSUME IInv, NEW t \in Threads, NEW u \in Threads, pc[t] \in MergePCs, pc[u] \in MergePCs
  PROVE t = u
BY DEF IInv, ExclusiveOK, MergeExclusive

\* The actions that change which files are open.
LEMMA FrameFiles ==
  Next => \/ Open \/ Crash
          \/ \E t \in Threads : Rotate(t) \/ Rename(t) \/ SwapActive(t) \/ RemoveCandidate(t)
          \/ UNCHANGED fileVars /\ (status' = status)
BY FrameStore DEF storeVars, Count, AppendRecord, CallError, Index, Unindex, Applied,
  CompareExchange, Relocate, RenameError, Release

\* No open file gets an id above the last one.
LEMMA OpenFilesStep ==
  IInv /\ Next /\ status' \in {"loading", "up"} =>
    \A f \in (older \cup {active})' : f <= lastId'
<1> SUFFICES ASSUME IInv, Next, status' \in {"loading", "up"}
             PROVE \A f \in (older \cup {active})' : f <= lastId'
  OBVIOUS
<1> USE DEF IInv, TypeOK, StoreTypes
<1>1. CASE OpenFiles
  BY <1>1 DEF OpenFiles
<1>2. CASE LoadRecord \/ LoadFileEnd
  BY <1>2 DEF LoadRecord, LoadFileEnd, FilesOK
<1>3. CASE Crash
  BY <1>3 DEF Crash
<1>4. ASSUME NEW t \in Threads, Rotate(t) PROVE \A f \in (older \cup {active})' : f <= lastId'
  <2>1. \A f \in older \cup {active} : f <= lastId
    BY <1>4 DEF Rotate, ThreadsOK, FilesOK
  <2> QED
    <3>1. \A f \in older \cup {active} : f \in Nat
      BY DEF FileIds
    <3>2. CASE UNCHANGED fileVars
      BY <2>1, <3>2
    <3>3. CASE older' = older \cup {active} /\ active' = lastId + 1 /\ lastId' = lastId + 1
      <4>1. (older \cup {active})' = older \cup {active, lastId + 1}
        BY <3>3
      <4>2. lastId \in Nat
        BY DEF FileIds
      <4> QED
        BY <2>1, <3>1, <3>3, <4>1, <4>2
    <3> QED
      BY <1>4, <3>2, <3>3 DEF Rotate, NextFileId
<1>5. ASSUME NEW t \in Threads, Rename(t) \/ SwapActive(t)
      PROVE \A f \in (older \cup {active})' : f <= lastId'
  <2>1. \A f \in older \cup {active} : f <= lastId
    BY <1>5 DEF Rename, SwapActive, ThreadsOK, FilesOK
  <2>2. lastId <= lastId'
    BY <1>5 DEF Rename, SwapActive, MergedId, NewActiveId, CommitOK, MergeTypes, FileIds
  <2>3. lastId' \in (older \cup {active})' /\ (older \cup {active})' = older \cup {active, lastId'}
    BY <1>5 DEF Rename, SwapActive
  <2>4. lastId' \in FileIds
    BY StoreTypesStep
  <2>5. \A f \in older \cup {active} : f \in Nat
    BY DEF FileIds
  <2>6. lastId \in Nat /\ lastId' \in Nat
    BY <2>4 DEF FileIds
  <2> QED
    BY <2>1, <2>2, <2>3, <2>5, <2>6
<1>6. ASSUME NEW t \in Threads, RemoveCandidate(t)
      PROVE \A f \in (older \cup {active})' : f <= lastId'
  <2>1. \A f \in older \cup {active} : f <= lastId
    BY <1>6 DEF RemoveCandidate, ThreadsOK, FilesOK
  <2> QED
    BY <1>6, <2>1 DEF RemoveCandidate
<1>7. CASE UNCHANGED fileVars /\ status' = status
  BY <1>7 DEF FilesOK
<1> QED
  BY <1>1, <1>2, <1>3, <1>4, <1>5, <1>6, <1>7, FrameFiles DEF Open

\* The active file is new when it becomes active and older when it is closed.
LEMMA ActiveStep ==
  IInv /\ Next /\ status' \in {"loading", "up"} => active' \notin older'
<1> SUFFICES ASSUME IInv, Next, status' \in {"loading", "up"} PROVE active' \notin older'
  OBVIOUS
<1> USE DEF IInv, TypeOK, StoreTypes
<1>1. CASE Open
  BY <1>1 DEF Open, OpenFiles, LoadRecord, LoadFileEnd, FilesOK
<1>2. CASE Crash
  BY <1>2 DEF Crash
<1>3. ASSUME NEW t \in Threads, pc[t] # "idle"
      PROVE active \notin older /\ \A f \in older \cup {active} : f # lastId + 1
  <2>1. \A f \in older \cup {active} : f \in Nat /\ f <= lastId
    BY <1>3 DEF ThreadsOK, FilesOK, FileIds
  <2>2. lastId \in Nat
    BY DEF FileIds
  <2> QED
    BY <1>3, <2>1, <2>2 DEF ThreadsOK, FilesOK
<1>4. ASSUME NEW t \in Threads, Rotate(t) PROVE active' \notin older'
  BY <1>3, <1>4 DEF Rotate, NextFileId
<1>5. ASSUME NEW t \in Threads, Rename(t) PROVE active' \notin older'
  BY <1>3, <1>5 DEF Rename, MergedId, CommitOK
<1>6. ASSUME NEW t \in Threads, SwapActive(t) PROVE active' \notin older'
  <2>1. NewActiveId = lastId + 1
    BY <1>6 DEF SwapActive, NewActiveId, CommitOK, MergeTypes, FileIds
  <2> QED
    BY <1>3, <1>6, <2>1 DEF SwapActive
<1>7. ASSUME NEW t \in Threads, RemoveCandidate(t) PROVE active' \notin older'
  BY <1>3, <1>7 DEF RemoveCandidate
<1>8. CASE UNCHANGED fileVars /\ status' = status
  BY <1>8 DEF FilesOK
<1> QED
  BY <1>1, <1>2, <1>4, <1>5, <1>6, <1>7, <1>8, FrameFiles

\* The actions that move the scan of the merge.
LEMMA FrameScan ==
  Next => Crash \/ (\E t \in Threads : ScanOpen(t) \/ ScanRecord(t) \/ Release(t) \/ MergeError(t))
          \/ UNCHANGED <<scanFile, scanOff>>
BY FrameMerge DEF MergeStep, Select, BeginCommit, Rename, SwapActive, Recheck, Relocate,
  BeginCleanup, RemoveCandidate, EndMerge, RenameError

\* The scan stands on a record.
ScanOK == scanOff # 0 => scanFile <= lastId /\ scanOff <= Len(disk[scanFile].recs)

\* A step leaves the scan on a record, or between files.
LEMMA ScanStep == IInv /\ Next => ScanOK'
<1> SUFFICES ASSUME IInv, Next PROVE ScanOK'
  OBVIOUS
<1> USE DEF IInv, TypeOK
<1>1. CASE Crash
  BY <1>1 DEF Crash, NoMerge, ScanOK
<1>2. ASSUME NEW t \in Threads, ScanOpen(t) PROVE ScanOK'
  <2>1. PICK f \in todo : scanFile' = f /\ scanOff' = FirstOffset(f)
    BY <1>2 DEF ScanOpen
  <2>2. UNCHANGED <<disk, lastId, status>> /\ status = "up"
    BY <1>2 DEF ScanOpen, ThreadsOK
  <2>3. disk[f].recs \in Seq(Record)
    BY <2>1 DEF StoreTypes, MergeTypes, File
  <2> QED
    BY <2>1, <2>2, <2>3 DEF FirstOffset, FilesOK, ScanOK
<1>3. ASSUME NEW t \in Threads, ScanRecord(t) PROVE ScanOK'
  <2>1. disk[scanFile].recs \in Seq(Record)
    BY DEF StoreTypes, MergeTypes, File
  <2> QED
    BY <1>3, <2>1 DEF ScanRecord, Scanning, Advance, FilesOK, ScanOK, MergeTypes
<1>4. ASSUME NEW t \in Threads, Release(t) \/ MergeError(t) PROVE ScanOK'
  BY <1>4 DEF Release, MergeError, NoMerge, ScanOK
<1>5. ASSUME UNCHANGED <<scanFile, scanOff>>, Grows PROVE ScanOK'
  <2>1. disk[scanFile].recs \in Seq(Record) /\ disk'[scanFile].recs \in Seq(Record)
    BY StoreTypesStep DEF StoreTypes, MergeTypes, File
  <2>2. Len(disk[scanFile].recs) \in Nat /\ Len(disk'[scanFile].recs) \in Nat
    BY <2>1
  <2>3. lastId \in Nat /\ lastId' \in Nat /\ scanFile \in Nat /\ scanOff \in Nat
    BY StoreTypesStep DEF StoreTypes, MergeTypes, FileIds
  <2> QED
    BY <1>5, <2>2, <2>3 DEF Grows, FilesOK, ScanOK, MergeTypes
<1>6. CASE OpenFiles
  BY <1>6 DEF OpenFiles, FilesOK, ScanOK
<1> QED
  BY <1>1, <1>2, <1>3, <1>4, <1>5, <1>6, GrowsStep, FrameScan

\* A step keeps FilesOK.
LEMMA FilesStep == IInv /\ Next => FilesOK'
<1> SUFFICES ASSUME IInv, Next PROVE FilesOK'
  OBVIOUS
<1> USE DEF IInv, TypeOK
<1>1. status' = "down" => index' = NoIndex /\ scanOff' = 0
  <2>1. CASE Crash
    BY <2>1 DEF Crash, NoMerge
  <2>2. CASE status' = status
    BY <2>2, FrameIndex, FrameScan, StatusStep DEF FilesOK, LoadRecord, Crash,
      Index, Unindex, Relocate, ScanOpen, ScanRecord, Release, MergeError, ThreadsOK
  <2>3. CASE Open
    BY <2>3 DEF Open, OpenFiles, LoadRecord, LoadFileEnd, FilesOK
  <2> QED
    BY <2>1, <2>2, <2>3, StatusStep DEF Next, Finished, vars
<1>2. status' = "loading" => scanOff' = 0
  BY StatusStep DEF Next, Open, OpenFiles, LoadRecord, LoadFileEnd, Crash, Finished, vars, FilesOK
<1>3. status' = "loading" => loadFile' \in older' \cup {active'} /\ loadOff' # 0
  <2>1. CASE OpenFiles
    BY <2>1 DEF OpenFiles
  <2>2. CASE LoadRecord \/ LoadFileEnd
    BY <2>2 DEF LoadRecord, LoadFileEnd, FilesOK, LoadTypes
  <2> QED
    BY <2>1, <2>2, StatusStep DEF Next, Open, Crash, Finished, vars, FilesOK
<1> QED
  BY <1>1, <1>2, <1>3, OpenFilesStep, ActiveStep, ScanStep DEF FilesOK, ScanOK

-------------------------------------------------------------------------------
(***************************************************************************)
(* The merge flag.                                                         *)
(***************************************************************************)
Merging(t) == pc[t] \in MergePCs

\* Only the compare-and-swap lets a thread into a merge, and only the release
\* lets it out; no other step touches the flag.
LEMMA FrameFlag ==
  ASSUME IInv, Next
  PROVE \/ Crash
        \/ \E t \in Threads : CompareExchange(t) \/ Release(t)
        \/ mergeRunning' = mergeRunning /\ \A u \in Threads : Merging(u)' <=> Merging(u)
<1> USE DEF IInv, TypeOK
<1>1. CASE Open \/ Finished
  BY <1>1 DEF Open, OpenFiles, LoadRecord, LoadFileEnd, Finished, vars, Merging
<1>2. ASSUME NEW t \in Threads, Call(t)
      PROVE mergeRunning' = mergeRunning /\ \A u \in Threads : Merging(u)' <=> Merging(u)
  BY <1>2 DEF Call, CallPut, CallDelete, CallGet, Begin, Goto, Merging, MergePCs, CommitPCs,
    CallTypes
<1>3. ASSUME NEW t \in Threads, Step(t), ~MergeStep(t), ~CompareExchange(t)
      PROVE mergeRunning' = mergeRunning /\ \A u \in Threads : Merging(u)' <=> Merging(u)
  BY <1>3 DEF Step, Lookup, Read, Check, Reread, ReadOld, ReadOldPosition, Count,
    Ensure, Rotate, AppendRecord, CallError, Index, Unindex, Applied, Trigger,
    Return, Goto, Merging, MergePCs, CommitPCs, CallTypes
<1>4. ASSUME NEW t \in Threads, MergeStep(t), ~Release(t)
      PROVE mergeRunning' = mergeRunning /\ \A u \in Threads : Merging(u)' <=> Merging(u)
  BY <1>4 DEF MergeStep, Select, ScanOpen, ScanRecord, BeginCommit, Rename,
    SwapActive, Recheck, Relocate, BeginCleanup, RemoveCandidate, EndMerge, MergeError,
    RenameError, Goto, Merging, MergePCs, CommitPCs, CallTypes
<1> QED
  BY <1>1, <1>2, <1>3, <1>4 DEF Next

\* A step keeps ExclusiveOK.
LEMMA ExclusiveStep == IInv /\ Next => ExclusiveOK'
<1> SUFFICES ASSUME IInv, Next PROVE ExclusiveOK'
  OBVIOUS
<1> USE DEF IInv, TypeOK
<1>1. CASE Crash
  BY <1>1 DEF Crash, ExclusiveOK, MergeExclusive, MergePCs, CommitPCs
<1>2. ASSUME NEW t \in Threads, CompareExchange(t) PROVE ExclusiveOK'
  <2>1. status = "up" /\ status' = "up"
    BY <1>2, StatusStep DEF Step
  <2>2. ~Merging(t)
    BY <1>2 DEF CompareExchange, Merging, MergePCs, CommitPCs
  <2>3. CASE mergeRunning
    <3>1. \A u \in Threads : Merging(u)' <=> Merging(u)
      BY <1>2, <2>2, <2>3 DEF CompareExchange, Return, Goto, Merging, MergePCs, CommitPCs, CallTypes
    <3> QED
      BY <1>2, <2>1, <2>3, <3>1 DEF CompareExchange, ExclusiveOK, MergeExclusive, Merging
  <2>4. CASE ~mergeRunning
    <3>1. \A u \in Threads : ~Merging(u)
      BY <2>1, <2>4 DEF ExclusiveOK, MergeExclusive, Merging
    <3>2. \A u \in Threads : Merging(u)' <=> u = t
      BY <1>2, <2>4, <3>1 DEF CompareExchange, Goto, Merging, MergePCs, CallTypes
    <3> QED
      BY <1>2, <2>1, <2>4, <3>2 DEF CompareExchange, ExclusiveOK, MergeExclusive, Merging
  <2> QED
    BY <2>3, <2>4
<1>3. ASSUME NEW t \in Threads, Release(t) PROVE ExclusiveOK'
  <2>1. status = "up" /\ status' = "up"
    BY <1>3, StatusStep DEF Step, MergeStep
  <2>2. \A u \in Threads : Merging(u) => u = t
    BY <1>3 DEF Release, Merging, MergePCs, ExclusiveOK, MergeExclusive
  <2>3. \A u \in Threads : ~Merging(u)'
    BY <1>3, <2>2 DEF Release, Return, Goto, Merging, MergePCs, CommitPCs, CallTypes
  <2> QED
    BY <1>3, <2>1, <2>3 DEF Release, ExclusiveOK, MergeExclusive, Merging
<1>4. CASE mergeRunning' = mergeRunning /\ \A u \in Threads : Merging(u)' <=> Merging(u)
  <2>1. MergeExclusive!1 /\ MergeExclusive!1'
    BY <1>4 DEF ExclusiveOK, MergeExclusive, Merging
  <2>2. status # "up" => \A u \in Threads : ~Merging(u)
    BY DEF ThreadsOK, Merging, MergePCs, CommitPCs
  <2>3. status' = "up" => status \in {"loading", "up"}
    BY StatusStep DEF Next, Open, OpenFiles, LoadRecord, LoadFileEnd, Crash, Finished, vars
  <2>4. status' \in {"down", "loading"} => status \in {"down", "loading"} \/ Crash
    BY StatusStep DEF Next, Open, OpenFiles, LoadRecord, LoadFileEnd, Finished, vars
  <2> QED
    BY <1>1, <1>4, <2>1, <2>2, <2>3, <2>4 DEF ExclusiveOK, MergeExclusive, Merging
<1> QED
  BY <1>1, <1>2, <1>3, <1>4, FrameFlag

-------------------------------------------------------------------------------
(***************************************************************************)
(* The copies of a merge and its commit.                                   *)
(***************************************************************************)

\* CopiesOK, for one key.
CopyOK(k) ==
  newPos[k] # Nil =>
    /\ newPos[k].file <= cur
    /\ newPos[k].off <= Len(tmp[newPos[k].file].recs)
    /\ tmp[newPos[k].file].recs[newPos[k].off].key = k
    /\ tmp[newPos[k].file].recs[newPos[k].off].val # Deleted

\* The actions that change the copies of the merge.
LEMMA FrameCopies ==
  Next => \/ Crash
          \/ \E t \in Threads : ScanRecord(t) \/ Recheck(t) \/ Relocate(t) \/ Release(t)
          \/ UNCHANGED <<tmp, cur, newPos, moving>>
BY FrameMerge DEF MergeStep, Select, ScanOpen, BeginCommit, Rename, SwapActive,
  BeginCleanup, RemoveCandidate, EndMerge, MergeError, RenameError

\* A valid record is copied to the end of the temporary file being written.
LEMMA CopyStep ==
  ASSUME IInv, Next, NEW t \in Threads, ScanRecord(t), NEW k \in Keys
  PROVE CopyOK(k)'
<1> USE DEF IInv, TypeOK, MergeTypes
<1> DEFINE recs == disk[scanFile].recs
           r == recs[scanOff]
           c == OutFile(r)
<1>1. CopyOK(k)
  BY DEF CopyOK, CopiesOK
<1>2. CASE UNCHANGED <<tmp, cur, newPos>>
  BY <1>1, <1>2 DEF CopyOK
<1>3. CASE IsValid(r.key, scanFile, scanOff)
  <2>1. r \in Record
    <3>1. recs \in Seq(Record)
      BY DEF StoreTypes, File
    <3>2. scanOff \in 1 .. Len(recs)
      BY <3>1 DEF ScanRecord, Scanning, FilesOK
    <3> QED
      BY <3>1, <3>2
  <2>2. r.val # Deleted
    <3>1. index[r.key] = Pos(scanFile, scanOff) /\ r.key \in Keys /\ index[r.key] # Nil
      <4>1. Pos(scanFile, scanOff) \in Position
        BY DEF ScanRecord, Scanning, Pos, Position
      <4> QED
        BY <1>3, <2>1, <4>1 DEF IsValid, Record
    <3> QED
      <4>1. Names(r.key, Pos(scanFile, scanOff))
        BY <3>1 DEF PositionsOK, Held
      <4> QED
        BY <4>1 DEF Names, RecordAt, Pos
  <2>3. /\ c \in FileIds /\ cur' = c /\ tmp' = [tmp EXCEPT ![c] = Write(@, r)]
        /\ newPos' = [newPos EXCEPT ![r.key] = Pos(c, WriteOffset(tmp[c]))]
    BY <1>3 DEF ScanRecord, ContextAppend
  <2> HIDE DEF r, c
  <2>4. cur <= c /\ cur \in Nat /\ c \in Nat
    BY <2>3 DEF c, OutFile, FileIds
  <2>5. tmp[c].recs \in Seq(Record) /\ tmp[c] \in File
    BY <2>3 DEF File
  <2>6. tmp'[c] = Write(tmp[c], r) /\ \A f \in FileIds : f # c => tmp'[f] = tmp[f]
    BY <2>3
  <2>7. CASE k = r.key
    <3>1. newPos'[k].file = c /\ newPos'[k].off = Len(tmp[c].recs) + 1
      BY <2>3, <2>7 DEF Pos, WriteOffset
    <3>2. /\ Len(tmp'[c].recs) = Len(tmp[c].recs) + 1
          /\ tmp'[c].recs[Len(tmp[c].recs) + 1] = r
      BY <2>5, <2>6, WriteGrows
    <3>3. c <= cur' /\ Len(tmp[c].recs) + 1 <= Len(tmp'[c].recs)
      BY <2>3, <2>4, <2>5, <3>2
    <3> QED
      BY <2>2, <2>7, <3>1, <3>2, <3>3 DEF CopyOK
  <2>8. CASE k # r.key
    <3>1. newPos'[k] = newPos[k]
      BY <2>3, <2>8
    <3> DEFINE p == newPos[k]
    <3>2. CASE p = Nil
      BY <3>1, <3>2 DEF CopyOK
    <3>3. CASE p # Nil
      <4>1. p.file \in FileIds /\ p.off \in Nat \ {0}
        BY <3>3 DEF Position
      <4>2. tmp[p.file].recs \in Seq(Record)
        BY <4>1 DEF File
      <4>3. Len(tmp[p.file].recs) \in Nat
        BY <4>2
      <4>4. p.file <= cur /\ p.off <= Len(tmp[p.file].recs)
        BY <1>1, <3>3 DEF CopyOK
      <4>5. tmp'[p.file].recs[p.off] = tmp[p.file].recs[p.off]
            /\ p.off <= Len(tmp'[p.file].recs)
        <5>1. CASE p.file # c
          BY <2>6, <4>1, <4>4, <5>1
        <5>2. CASE p.file = c
          <6>1. p.off \in 1 .. Len(tmp[c].recs)
            BY <4>1, <4>3, <4>4, <5>2
          <6>2. /\ Len(tmp'[c].recs) = Len(tmp[c].recs) + 1
                /\ tmp'[c].recs[p.off] = tmp[c].recs[p.off]
            BY <2>5, <2>6, <6>1, WriteGrows
          <6> QED
            BY <4>1, <4>3, <4>4, <5>2, <6>2
        <5> QED
          BY <5>1, <5>2
      <4>6. p.file <= c
        BY <2>4, <4>1, <4>4 DEF FileIds
      <4> QED
        BY <1>1, <2>3, <3>1, <3>3, <4>5, <4>6 DEF CopyOK
    <3> QED
      BY <3>2, <3>3
  <2> QED
    BY <2>7, <2>8
<1> QED
  BY <1>2, <1>3 DEF ScanRecord

\* A step keeps CopiesOK.
LEMMA CopiesStep == IInv /\ Next => CopiesOK'
<1> SUFFICES ASSUME IInv, Next PROVE CopiesOK'
  OBVIOUS
<1> USE DEF IInv, TypeOK, MergeTypes
<1>1. CASE Crash
  BY <1>1 DEF Crash, NoMerge, NoIndex, CopiesOK
<1>2. ASSUME NEW t \in Threads, ScanRecord(t) PROVE CopiesOK'
  <2>1. \A k \in Keys : newPos[k] # Nil => newPos'[k] # Nil
    <3> DEFINE c == OutFile(disk[scanFile].recs[scanOff])
    <3>1. CASE UNCHANGED newPos
      BY <3>1
    <3>2. CASE ContextAppend(disk[scanFile].recs[scanOff])
      <4>1. c \in FileIds /\ WriteOffset(tmp[c]) \in Nat \ {0}
        BY <3>2 DEF ContextAppend, WriteOffset, File
      <4>2. Pos(c, WriteOffset(tmp[c])) \in Position
        BY <4>1 DEF Pos, Position
      <4> QED
        BY <3>2, <4>2 DEF ContextAppend
    <3> QED
      BY <1>2, <3>1, <3>2 DEF ScanRecord
  <2>2. moving' = moving
    BY <1>2 DEF ScanRecord
  <2> QED
    BY <1>2, <2>1, <2>2, CopyStep DEF CopyOK, CopiesOK
<1>3. ASSUME NEW t \in Threads, Recheck(t) PROVE CopiesOK'
  <2>1. moving = {} /\ UNCHANGED <<tmp, cur>>
    BY <1>3 DEF Recheck
  <2>2. PICK k \in Keys :
          /\ newPos[k] # Nil
          /\ \/ moving' = {k} /\ newPos' = newPos
             \/ moving' = {} /\ newPos' = [newPos EXCEPT ![k] = Nil]
    BY <1>3, <2>1 DEF Recheck
  <2>3. CASE moving' = {k} /\ newPos' = newPos
    BY <2>1, <2>2, <2>3 DEF CopiesOK
  <2>4. CASE moving' = {} /\ newPos' = [newPos EXCEPT ![k] = Nil]
    BY <2>1, <2>4 DEF CopiesOK
  <2> QED
    BY <2>2, <2>3, <2>4
<1>4. ASSUME NEW t \in Threads, Relocate(t) PROVE CopiesOK'
  BY <1>4 DEF Relocate, CopiesOK
<1>5. ASSUME NEW t \in Threads, Release(t) PROVE CopiesOK'
  BY <1>5 DEF Release, NoMerge, NoIndex, CopiesOK
<1>6. CASE UNCHANGED <<tmp, cur, newPos, moving>>
  BY <1>6 DEF CopiesOK
<1> QED
  BY <1>1, <1>2, <1>3, <1>4, <1>5, <1>6, FrameCopies

\* The variables CommitOK speaks of.
commitVars == <<start, moved, cur, tmp, lastId, disk>>

\* While a thread commits, only its own steps touch them: the blocks of the
\* others that would need a lock it holds.
LEMMA FrameCommit ==
  ASSUME IInv, Next, NEW u \in Threads, pc[u] \in {"rename", "recheck"}
  PROVE Crash \/ MergeStep(u) \/ (UNCHANGED commitVars /\ pc'[u] = pc[u])
<1> USE DEF IInv, TypeOK
<1>1. u \in Threads /\ Committing /\ status = "up"
  BY DEF Committing, CommitPCs, ThreadsOK
<1>2. ASSUME NEW t \in Threads, MergeStep(t) PROVE t = u
  <2>1. pc[t] \in MergePCs
    BY <1>2 DEF MergeStep, Select, ScanOpen, ScanRecord, BeginCommit, Rename,
      SwapActive, Recheck, Relocate, BeginCleanup, RemoveCandidate, EndMerge, MergeError,
      RenameError, Release, MergePCs, CommitPCs
  <2> QED
    BY <2>1, OneMerger DEF MergePCs, CommitPCs
<1>3. ASSUME NEW t \in Threads, Step(t), ~MergeStep(t) PROVE UNCHANGED commitVars
  BY <1>1, <1>3 DEF Step, Lookup, Read, Check, Reread, ReadOld, ReadOldPosition, Count,
    Ensure, Rotate, AppendRecord, CallError, Index, Unindex, Applied, Trigger,
    CompareExchange, commitVars
<1>4. ASSUME NEW t \in Threads, Call(t) PROVE UNCHANGED commitVars
  BY <1>4 DEF Call, CallPut, CallDelete, CallGet, Begin, commitVars
<1>5. CASE Open \/ Finished
  BY <1>1, <1>5 DEF Open, OpenFiles, LoadRecord, LoadFileEnd, Finished, vars, commitVars
<1>6. CASE Call(u) \/ (Step(u) /\ ~MergeStep(u))
  BY <1>6 DEF Call, CallPut, CallDelete, CallGet, Begin, Step, Lookup, Read, Check, Reread,
    ReadOld, ReadOldPosition, Count, Ensure, Rotate, AppendRecord, CallError, Index, Unindex,
    Trigger, CompareExchange
<1> QED
  BY <1>2, <1>3, <1>4, <1>5, <1>6, FrameThread DEF Next, Same

\* CommitOK, for one thread.
CommitsOK(u) ==
  /\ pc[u] = "rename" => start + moved = lastId + 1 /\ moved <= cur + 1
  /\ pc[u] = "recheck" => start + moved = lastId /\ moved = cur + 1
  /\ pc[u] \in {"rename", "recheck"} =>
       \A i \in FileIds : i < moved => disk[start + i] = tmp[i]

\* A step keeps CommitOK.
LEMMA CommitStep == IInv /\ Next => CommitOK'
<1> SUFFICES ASSUME IInv, Next, NEW u \in Threads PROVE CommitsOK(u)'
  BY DEF CommitOK, CommitsOK
<1> USE DEF IInv, TypeOK
<1>1. CommitsOK(u)
  BY DEF CommitOK, CommitsOK
<1>2. lastId \in Nat /\ start \in Nat /\ moved \in Nat /\ cur \in Nat
  BY DEF StoreTypes, MergeTypes, FileIds
<1>3. CASE Crash
  BY <1>3 DEF Crash, CommitsOK
<1>4. CASE UNCHANGED commitVars /\ pc'[u] = pc[u]
  BY <1>1, <1>4 DEF CommitsOK, commitVars
<1>5. ASSUME pc[u] \notin {"rename", "recheck"} PROVE CommitsOK(u)'
  <2>1. CASE Same(u)
    BY <1>5, <2>1 DEF Same, CommitsOK
  <2>2. CASE Call(u)
    BY <2>2 DEF Call, CallPut, CallDelete, CallGet, Begin, Goto, CallTypes, CommitsOK
  <2>3. CASE Step(u) /\ ~BeginCommit(u)
    <3>1. CASE MergeStep(u)
      BY <1>5, <2>3, <3>1 DEF MergeStep, Select, ScanOpen, ScanRecord, Rename,
        SwapActive, Recheck, Relocate, BeginCleanup, RemoveCandidate, EndMerge, MergeError,
        RenameError, Release, Return, Goto, CallTypes, CommitsOK
    <3>2. CASE ~MergeStep(u)
      BY <1>5, <2>3, <3>2 DEF Step, Lookup, Read, Check, Reread, ReadOld, ReadOldPosition,
        Count, Ensure, Rotate, AppendRecord, CallError, Index, Unindex, Applied, Trigger,
        CompareExchange, Return, Goto, CallTypes, CommitsOK
    <3> QED
      BY <3>1, <3>2
  <2>4. CASE BeginCommit(u)
    BY <1>2, <2>4 DEF BeginCommit, NextFileId, Goto, CallTypes, CommitsOK, FileIds
  <2> QED
    BY <1>3, <2>1, <2>2, <2>3, <2>4, FrameThread
<1>6. ASSUME pc[u] \in {"rename", "recheck"}, MergeStep(u) PROVE CommitsOK(u)'
  <2>1. CASE Rename(u)
    <3>1. moved \in FileIds /\ start + moved = lastId + 1 /\ moved <= cur
      BY <1>1, <1>2, <2>1 DEF Rename, CommitsOK, MergeTypes, FileIds
    <3>2. disk' = [disk EXCEPT ![start + moved] = tmp[moved]] /\ start + moved \in FileIds
      BY <2>1 DEF Rename, MergedId
    <3>3. \A i \in FileIds : i < moved => disk'[start + i] = tmp[i]
      <4> TAKE i \in FileIds
      <4> HAVE i < moved
      <4>1. i \in Nat /\ start + i # start + moved
        BY <1>2 DEF FileIds
      <4>2. disk[start + i] = tmp[i]
        BY <1>1, <2>1 DEF Rename, CommitsOK
      <4>3. start + i \in FileIds
        BY <1>2, <3>2, <4>1 DEF FileIds
      <4> QED
        BY <3>2, <4>1, <4>2, <4>3 DEF StoreTypes
    <3>4. disk'[start + moved] = tmp[moved]
      BY <3>2 DEF StoreTypes
    <3>5. \A i \in FileIds : i < moved + 1 => i < moved \/ i = moved
      BY <1>2 DEF FileIds
    <3>6. /\ UNCHANGED <<start, cur, tmp, pc>> /\ moved' = moved + 1
          /\ lastId' = start + moved /\ pc[u] = "rename"
      BY <2>1 DEF Rename, MergedId
    <3>7. \A i \in FileIds : i < moved + 1 => disk'[start + i] = tmp[i]
      BY <3>3, <3>4, <3>5
    <3>8. start' + moved' = lastId' + 1 /\ moved' <= cur' + 1
      BY <1>2, <3>1, <3>6
    <3> QED
      BY <3>6, <3>7, <3>8 DEF CommitsOK
  <2>2. CASE SwapActive(u)
    <3>1. moved = cur + 1 /\ lastId' = start + moved
      BY <1>1, <1>2, <2>2 DEF SwapActive, CommitsOK, NewActiveId
    <3> QED
      BY <1>1, <2>2, <3>1 DEF SwapActive, Goto, CallTypes, CommitsOK
  <2>3. CASE Recheck(u) \/ Relocate(u)
    BY <1>1, <2>3 DEF Recheck, Relocate, CommitsOK
  <2>4. CASE BeginCleanup(u) \/ MergeError(u) \/ RenameError(u)
    BY <2>4 DEF BeginCleanup, MergeError, RenameError, Goto, CallTypes, CommitsOK
  <2> QED
    BY <1>6, <2>1, <2>2, <2>3, <2>4 DEF MergeStep, Select, ScanOpen, ScanRecord, BeginCommit,
      RemoveCandidate, EndMerge, Release
<1> QED
  BY <1>3, <1>4, <1>5, <1>6, FrameCommit

-------------------------------------------------------------------------------
(***************************************************************************)
(* The theorems.                                                           *)
(***************************************************************************)

\* The invariant holds before the first start.
LEMMA InitInv == Init => IInv
<1> SUFFICES ASSUME Init PROVE IInv
  OBVIOUS
<1> USE Zero DEF Init
<1>1. EmptyFile \in File
  BY DEF EmptyFile, File
<1>2. StoreTypes
  BY <1>1 DEF StoreTypes, NoFiles, NoIndex, NoSizes
<1>3. LoadTypes
  BY DEF LoadTypes, NoSizes
<1>4. MergeTypes
  BY <1>1 DEF MergeTypes, NoFiles, NoIndex
<1>5. CallTypes
  BY Blocks, OutcomeNames DEF CallTypes
<1>6. BoundTypes
  BY DEF BoundTypes
<1>7. ThreadsOK /\ PositionsOK /\ FilesOK
  BY DEF ThreadsOK, PositionsOK, HoldsPos, FilesOK, NoIndex
<1>8. ExclusiveOK
  BY DEF ExclusiveOK, MergeExclusive, MergePCs, CommitPCs
<1>9. CopiesOK /\ CommitOK
  BY DEF CopiesOK, CommitOK, NoIndex
<1> QED
  BY <1>2, <1>3, <1>4, <1>5, <1>6, <1>7, <1>8, <1>9 DEF IInv, TypeOK

\* A step that changes nothing keeps the invariant.
LEMMA StutterInv == IInv /\ UNCHANGED vars => IInv'
<1> SUFFICES ASSUME IInv, UNCHANGED vars PROVE IInv'
  OBVIOUS
<1> USE DEF vars
<1>1. TypeOK'
  BY DEF IInv, TypeOK, StoreTypes, LoadTypes, MergeTypes, CallTypes, BoundTypes
<1>2. ThreadsOK' /\ FilesOK' /\ CopiesOK' /\ CommitOK'
  BY DEF IInv, ThreadsOK, FilesOK, CopiesOK, CommitOK
<1>3. PositionsOK'
  BY DEF IInv, PositionsOK, HoldsPos, Held, Names, RecordAt
<1>4. ExclusiveOK'
  BY DEF IInv, ExclusiveOK, MergeExclusive
<1> QED
  BY <1>1, <1>2, <1>3, <1>4 DEF IInv

\* The invariant is inductive.
LEMMA NextInv == IInv /\ [Next]_vars => IInv'
BY TypeStep, ThreadsStep, PositionsStep, FilesStep, ExclusiveStep, CopiesStep, CommitStep,
   StutterInv DEF IInv

\* Whatever the numbers of threads, keys, calls, kills and failing I/O calls,
\* and whatever the sizes, the invariant holds in every reachable state.
THEOREM Invariant == Spec => []IInv
BY InitInv, NextInv, PTL DEF Spec

\* Every variable has its type in every reachable state; with it the records
\* that replay, get and merge read always exist.
THEOREM TypeCorrect == Spec => []TypeOK
<1>1. IInv => TypeOK
  BY DEF IInv
<1> QED
  BY <1>1, Invariant, PTL

\* The index never points at a tombstone, at another key's record or past the
\* end of a file.
THEOREM IndexIsSound == Spec => []IndexSound
<1>1. IInv => IndexSound
  BY DEF IInv, PositionsOK, Held, IndexSound
<1> QED
  BY <1>1, Invariant, PTL

\* A thread that goes on reading keeps its position, and the process runs on.
LEMMA Reading ==
  ASSUME IInv, Next, NEW t \in Threads, pc[t] = "read", pc'[t] = "read"
  PROVE  pos'[t] = pos[t] /\ ~Crash
<1>0. CallTypes
  BY DEF IInv, TypeOK
<1>1. ~Crash
  BY DEF Crash
<1>2. CASE Open \/ Finished
  BY <1>1, <1>2 DEF Open, OpenFiles, LoadRecord, LoadFileEnd, Finished, vars
<1>3. ASSUME NEW u \in Threads, Call(u) \/ Step(u) PROVE pos'[t] = pos[t]
  <2>1. CASE u = t
    <3>1. ~Read(t) /\ ~CallError(t)
      BY <1>0 DEF Read, CallError, Return, Goto, CallTypes
    <3> QED
      BY <1>3, <2>1, <3>1 DEF Call, CallPut, CallDelete, CallGet, Begin, Step, Lookup, Check,
        Reread, ReadOld, ReadOldPosition, Count, Ensure, Rotate, AppendRecord, Index, Unindex,
        Trigger, CompareExchange, MergeStep, Select, ScanOpen, ScanRecord, BeginCommit, Rename,
        SwapActive, Recheck, Relocate, BeginCleanup, RemoveCandidate, EndMerge, MergeError,
        RenameError, Release, MergePCs, CommitPCs
  <2>2. CASE u # t
    BY <1>0, <1>3, <2>2, OthersSame DEF Same
  <2> QED
    BY <2>1, <2>2
<1> QED
  BY <1>1, <1>2, <1>3 DEF Next

\* While the process runs, a file that is opened has an id above the last one.
LEMMA OpenedAbove ==
  ASSUME IInv, Next, status = "up", ~Crash, NEW f \in Nat, f <= lastId,
         f \in older' \cup {active'}
  PROVE  f \in older \cup {active}
<1> USE DEF IInv, TypeOK, StoreTypes
<1>1. lastId \in Nat
  BY DEF FileIds
<1>2. CASE Open
  BY <1>2 DEF Open, OpenFiles, LoadRecord, LoadFileEnd
<1>3. ASSUME NEW t \in Threads, Rotate(t) PROVE f \in older \cup {active}
  BY <1>1, <1>3 DEF Rotate, NextFileId
<1>4. ASSUME NEW t \in Threads, Rename(t) PROVE f \in older \cup {active}
  BY <1>1, <1>4 DEF Rename, MergedId, CommitOK
<1>5. ASSUME NEW t \in Threads, SwapActive(t) PROVE f \in older \cup {active}
  <2>1. NewActiveId = lastId + 1
    BY <1>5 DEF SwapActive, NewActiveId, CommitOK, MergeTypes, FileIds
  <2> QED
    BY <1>1, <1>5, <2>1 DEF SwapActive
<1>6. ASSUME NEW t \in Threads, RemoveCandidate(t) PROVE f \in older \cup {active}
  BY <1>6 DEF RemoveCandidate
<1>7. CASE UNCHANGED fileVars
  BY <1>7
<1> QED
  BY <1>2, <1>3, <1>4, <1>5, <1>6, <1>7, FrameFiles

\* However many writes and merges come between the lookup of a get and its read,
\* the position it holds names the record it looked up, or is in a file that is
\* gone for good.
THEOREM ReadIsSound == Spec => ReadSound
<1> DEFINE A == \A t \in Threads :
                  pc'[t] = "read" /\ pos'[t].file \in older' \cup {active'} =>
                    /\ Names(req[t].key, pos[t])'
                    /\ pc[t] = "read" => /\ pos[t].file \in older \cup {active}
                                         /\ RecordAt(pos[t])' = RecordAt(pos[t])
<1>1. IInv /\ [Next]_vars => [A]_vars
  <2> SUFFICES ASSUME IInv, Next, NEW t \in Threads,
                      pc'[t] = "read", pos'[t].file \in older' \cup {active'}
               PROVE  /\ Names(req[t].key, pos[t])'
                      /\ pc[t] = "read" => /\ pos[t].file \in older \cup {active}
                                           /\ RecordAt(pos[t])' = RecordAt(pos[t])
    OBVIOUS
  <2>1. IInv'
    BY NextInv
  <2>2. Names(req[t].key, pos[t])'
    BY <2>1 DEF IInv, PositionsOK, HoldsPos, Held
  <2>3. ASSUME pc[t] = "read"
        PROVE /\ pos[t].file \in older \cup {active}
              /\ RecordAt(pos[t])' = RecordAt(pos[t])
    <3>1. status = "up" /\ pos'[t] = pos[t] /\ ~Crash
      BY <2>3, Reading DEF IInv, ThreadsOK
    <3>2. /\ Names(req[t].key, pos[t]) /\ pos[t].file <= lastId
          /\ lastId \in Nat /\ pos[t].file \in FileIds /\ pos[t].off \in Nat \ {0}
      BY <2>3 DEF IInv, PositionsOK, HoldsPos, Held, Names, Position, TypeOK, StoreTypes, FileIds
    <3>3. pos[t].file \in older \cup {active}
      BY <2>3, <3>1, <3>2, OpenedAbove DEF FileIds
    <3>4. Grows
      BY <2>3, GrowsStep, Reading DEF OpenFiles, IInv, ThreadsOK
    <3>5. pos[t].off \in 1 .. Len(disk[pos[t].file].recs)
      <4>1. Len(disk[pos[t].file].recs) \in Nat
        BY <3>2 DEF IInv, TypeOK, StoreTypes, File
      <4> QED
        BY <3>2, <4>1 DEF Names
    <3>6. disk'[pos[t].file].recs[pos[t].off] = disk[pos[t].file].recs[pos[t].off]
      BY <3>2, <3>4, <3>5 DEF Grows
    <3> QED
      BY <3>1, <3>3, <3>6 DEF RecordAt
  <2> QED
    BY <2>2, <2>3
<1> QED
  BY <1>1, Invariant, PTL DEF Spec, ReadSound

\* At most one thread merges at a time, and the flag says so.
THEOREM MergesExclude == Spec => []MergeExclusive
<1>1. IInv => MergeExclusive
  BY DEF IInv, ExclusiveOK
<1> QED
  BY <1>1, Invariant, PTL

\* What is in an older file stays as it is: writes go to the active file, and
\* the files of a merge get ids no open file has.
THEOREM OlderFilesReadOnly == Spec => OlderReadOnly
<1>1. IInv /\ [Next]_vars => [\A f \in older \cap older' : disk'[f] = disk[f]]_vars
  <2> SUFFICES ASSUME IInv, Next, NEW f \in older PROVE disk'[f] = disk[f]
    OBVIOUS
  <2> USE DEF IInv, TypeOK, StoreTypes
  <2>1. ASSUME NEW t \in Threads, AppendRecord(t) \/ CallError(t) PROVE disk'[f] = disk[f]
    <3>1. active # f
      BY <2>1 DEF AppendRecord, CallError, ThreadsOK, FilesOK
    <3> QED
      BY <2>1, <3>1 DEF AppendRecord, CallError, Appended
  <2>2. ASSUME NEW t \in Threads, Rename(t) \/ RenameError(t) PROVE disk'[f] = disk[f]
    <3>1. f <= lastId /\ f \in Nat /\ lastId \in Nat
      BY <2>2 DEF Rename, RenameError, ThreadsOK, FilesOK, FileIds
    <3>2. MergedId = lastId + 1
      BY <2>2 DEF Rename, RenameError, CommitOK, MergedId
    <3> QED
      BY <2>2, <3>1, <3>2 DEF Rename, RenameError
  <2>3. CASE UNCHANGED disk
    BY <2>3
  <2> QED
    BY <2>1, <2>2, <2>3, FrameStore DEF storeVars, Open, OpenFiles, LoadRecord, LoadFileEnd,
      Crash, Count, Rotate, Index, Unindex, Applied, CompareExchange, SwapActive, Relocate,
      RemoveCandidate, Release
<1> QED
  BY <1>1, Invariant, PTL DEF Spec, OlderReadOnly
===============================================================================
