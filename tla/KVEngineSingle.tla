----------------------------- MODULE KVEngineSingle -----------------------------
(***************************************************************************)
(* Proofs about merges when one thread writes, however many threads read:  *)
(* SInv (KVEngineInv) is inductive together with IInv.  It follows every   *)
(* key of the index through a merge: its file is open, it is copied before *)
(* the candidates go, and the copy has its value.  LogOK adds what the log *)
(* on disk says of a key, AccountOK what the counters say of a file.       *)
(***************************************************************************)
EXTENDS KVEngineOrder

USE DataAssumption, NilAssumption, EngineAssumption
USE DEF diskVars, fileVars, loadVars, mergeVars, localVars, threadVars, boundVars

\* The blocks a quiet thread runs.
LEMMA QuietStep ==
  ASSUME NEW t \in Threads, Quiet(t), Step(t)
  PROVE  Lookup(t) \/ Read(t) \/ (CallError(t) /\ pc[t] = "read")
<1>1. ~MergeStep(t)
  BY DEF Quiet, MergeStep, Select, ScanOpen, ScanRecord, BeginCommit, Rename, SwapActive,
    Recheck, Relocate, BeginCleanup, RemoveCandidate, EndMerge, MergeError,
    RenameError, Release
<1>2. ~(\/ Check(t) \/ Reread(t) \/ ReadOld(t) \/ Count(t) \/ Ensure(t) \/ Rotate(t)
        \/ AppendRecord(t) \/ Index(t) \/ Unindex(t) \/ Trigger(t) \/ CompareExchange(t))
  BY DEF Quiet, Check, Reread, ReadOld, ReadOldPosition, Count,
    Ensure, Rotate, AppendRecord, Index, Unindex, Trigger, CompareExchange
<1>3. CallError(t) => pc[t] = "read"
  BY DEF Quiet, CallError
<1> QED
  BY <1>1, <1>2, <1>3 DEF Step

\* They change nothing but the local state of that thread.
LEMMA QuietKeeps ==
  ASSUME CallTypes, NEW t \in Threads, NEW u \in Threads, Quiet(t), Call(t) \/ Step(t)
  PROVE  UNCHANGED <<storeVars, mergeVars>> /\ (t # u => Same(u))
<1>1. CASE Call(t)
  BY <1>1, OthersSame DEF Call, CallPut, CallDelete, CallGet, Begin, storeVars
<1>2. CASE Lookup(t) \/ Read(t) \/ (CallError(t) /\ pc[t] = "read")
  BY <1>2, OthersSame DEF Lookup, Read, CallError, Step, storeVars
<1> QED
  BY <1>1, <1>2, QuietStep

\* Only a thread that may write leaves the blocks of get.
LEMMA RolesStep == IInv /\ RolesOK /\ Next => RolesOK'
<1> SUFFICES ASSUME IInv, RolesOK, Next, NEW u \in Threads, ~Quiet(u)' PROVE u \in Writers
  BY DEF RolesOK
<1> USE DEF IInv, TypeOK
<1>1. CASE Crash
  BY <1>1 DEF Crash, Quiet
<1>2. CASE Same(u)
  BY <1>2 DEF Same, Quiet, RolesOK
<1>3. CASE Call(u)
  <2>1. CASE CallPut(u) \/ CallDelete(u)
    BY <2>1 DEF CallPut, CallDelete, Begin, Writers
  <2>2. CASE CallGet(u)
    BY <2>2 DEF CallGet, Begin, Goto, Quiet, CallTypes
  <2> QED
    BY <1>3, <2>1, <2>2 DEF Call
<1>4. CASE Step(u) /\ Quiet(u)
  <2>1. Lookup(u) \/ Read(u) \/ CallError(u)
    BY <1>4, QuietStep
  <2> QED
    BY <2>1 DEF Lookup, Read, CallError, Return, Goto, Quiet, CallTypes
<1> QED
  BY <1>1, <1>2, <1>3, <1>4, FrameThread DEF RolesOK

\* While the writer is at work nothing else happens to the store.
LEMMA WriterActs ==
  ASSUME SingleWriter, IInv, RolesOK, Next, NEW u \in Threads, ~Quiet(u)
  PROVE  Step(u) \/ Crash \/ (UNCHANGED <<storeVars, mergeVars>> /\ Same(u))
<1> USE DEF IInv, TypeOK
<1>1. status = "up"
  BY DEF Quiet, ThreadsOK
<1>2. ASSUME NEW t \in Threads, t # u, Call(t) \/ Step(t)
      PROVE  UNCHANGED <<storeVars, mergeVars>> /\ Same(u)
  <2>1. Quiet(t)
    BY <1>2 DEF RolesOK, SingleWriter
  <2> QED
    BY <1>2, <2>1, QuietKeeps
<1>3. ~Open
  BY <1>1 DEF Open, OpenFiles, LoadRecord, LoadFileEnd
<1>4. ~Call(u)
  BY DEF Quiet, Call, CallPut, CallDelete, CallGet, Begin
<1>5. Finished => UNCHANGED <<storeVars, mergeVars>> /\ Same(u)
  BY DEF Finished, vars, storeVars, Same
<1> QED
  BY <1>2, <1>3, <1>4, <1>5 DEF Next

\* A thread in the middle of a merge gets there by the steps of the merge.
LEMMA MergerActs ==
  ASSUME SingleWriter, IInv, RolesOK, Next, NEW u \in Threads, pc'[u] \in {"scan"} \cup CommitPCs
  PROVE  MergeStep(u) \/ (UNCHANGED <<storeVars, mergeVars>> /\ Same(u))
<1> USE DEF IInv, TypeOK
<1>1. ~Crash
  BY DEF Crash, CommitPCs
<1>2. ~Call(u)
  BY DEF Call, CallPut, CallDelete, CallGet, Begin, Goto, CallTypes, CommitPCs
<1>3. Step(u) => MergeStep(u)
  BY DEF Step, Lookup, Read, Check, Reread, ReadOld, ReadOldPosition, Count,
    Ensure, Rotate, AppendRecord, CallError, Index, Unindex, Applied, Trigger,
    CompareExchange, Return, Goto, CallTypes, CommitPCs
<1>4. CASE Same(u)
  <2>1. ~Quiet(u)
    BY <1>4 DEF Same, Quiet, CommitPCs
  <2> QED
    BY <1>1, <1>3, <2>1, WriterActs
<1> QED
  BY <1>1, <1>2, <1>3, <1>4, FrameThread

-------------------------------------------------------------------------------
(***************************************************************************)
(* Every key of the index is in an open file.                              *)
(***************************************************************************)

\* Only the clean-up of a merge closes files.
LEMMA OpenGrows ==
  ASSUME IInv, Next
  PROVE  \/ OpenFiles \/ Crash
         \/ \E t \in Threads : RemoveCandidate(t)
         \/ status' \in {"loading", "up"} =>
              status \in {"loading", "up"} /\ older \cup {active} \subseteq (older \cup {active})'
<1>1. CASE LoadRecord \/ LoadFileEnd
  BY <1>1 DEF LoadRecord, LoadFileEnd
<1>2. ASSUME NEW t \in Threads, Rotate(t) \/ Rename(t) \/ SwapActive(t)
      PROVE  status = "up" /\ older \cup {active} \subseteq (older \cup {active})'
  BY <1>2 DEF Rotate, Rename, SwapActive, IInv, ThreadsOK
<1> QED
  BY <1>1, <1>2, FrameFiles DEF Open

\* The positions of the index stay in open files.
LEMMA IndexOpenStep ==
  ASSUME IInv, OpenOK, \A t \in Threads : MergeFilesAt(t) /\ CoveredAt(t),
         Next, status' \in {"loading", "up"}, NEW k \in Keys, index'[k] # Nil
  PROVE  index'[k].file \in (older \cup {active})'
<1> USE DEF IInv, TypeOK
<1>1. index[k] # Nil /\ status \in {"loading", "up"} => index[k].file \in older \cup {active}
  BY DEF OpenOK, IndexOpen
<1>2. CASE OpenFiles
  BY <1>2 DEF OpenFiles, FilesOK, NoIndex
<1>3. CASE LoadRecord
  <2>1. index'[k] = index[k] \/ index'[k] = Pos(loadFile, loadOff)
    BY <1>3 DEF LoadRecord, ApplyRecord, StoreTypes
  <2>2. loadFile \in older \cup {active} /\ UNCHANGED fileVars /\ status = "loading"
    BY <1>3 DEF LoadRecord, FilesOK
  <2> QED
    BY <1>1, <2>1, <2>2 DEF Pos
<1>4. ASSUME NEW t \in Threads, Index(t) \/ Unindex(t)
      PROVE  index'[k].file \in (older \cup {active})'
  <2>1. UNCHANGED fileVars /\ status = "up"
    BY <1>4 DEF Index, Unindex, Applied, ThreadsOK
  <2>2. index'[k] = index[k] \/ (Index(t) /\ index'[k] = pos[t])
    BY <1>4 DEF Index, Unindex, StoreTypes
  <2>3. Index(t) => pos[t].file \in older \cup {active}
    BY DEF Index, OpenOK, HoldsPos, Quiet
  <2> QED
    BY <1>1, <2>1, <2>2, <2>3
<1>5. ASSUME NEW t \in Threads, Relocate(t) PROVE index'[k].file \in (older \cup {active})'
  <2>1. UNCHANGED fileVars /\ status = "up" /\ pc[t] = "recheck"
    BY <1>5 DEF Relocate, ThreadsOK
  <2>2. PICK j \in moving : index' = [index EXCEPT ![j] = Rebase(newPos[j])]
    BY <1>5 DEF Relocate
  <2>3. j \in Keys /\ newPos[j] \in Position /\ newPos[j].file <= cur /\ moved = cur + 1
    BY <2>1 DEF MergeTypes, CopiesOK, CommitOK
  <2>4. newPos[j].file \in FileIds /\ newPos[j].file < moved
    BY <2>3 DEF Position, MergeTypes, FileIds
  <2>5. start + newPos[j].file \in older
    BY <2>1, <2>4 DEF MergeFilesAt
  <2>6. index'[k] = index[k] \/ index'[k] = Rebase(newPos[j])
    BY <2>2 DEF StoreTypes
  <2> QED
    BY <1>1, <2>1, <2>5, <2>6 DEF Rebase, Pos
<1>6. ASSUME NEW t \in Threads, RemoveCandidate(t)
      PROVE  index'[k].file \in (older \cup {active})'
  <2>1. status = "up" /\ UNCHANGED <<index, active>> /\ pc[t] = "cleanup"
    BY <1>6 DEF RemoveCandidate, ThreadsOK
  <2>2. PICK f \in todo : older' = older \ {f}
    BY <1>6 DEF RemoveCandidate
  <2>3. f \in cand /\ index[k].file \notin cand
    BY <2>1, <2>2 DEF MergeFilesAt, CoveredAt, InCandidate
  <2> QED
    BY <1>1, <2>1, <2>2, <2>3
<1>7. CASE UNCHANGED index /\ ~(\E t \in Threads : RemoveCandidate(t)) /\ ~OpenFiles
  BY <1>1, <1>7, OpenGrows DEF Crash
<1>8. ~Crash
  BY DEF Crash
<1> QED
  BY <1>2, <1>3, <1>4, <1>5, <1>6, <1>7, <1>8, FrameIndex

\* A put writes to the active file, and nobody closes a file before the put
\* has put its position into the index.
LEMMA PutOpenStep ==
  ASSUME SingleWriter, IInv, SInv, Next, NEW u \in Threads, HoldsPos(u)', ~Quiet(u)'
  PROVE  pos'[u].file \in (older \cup {active})'
<1> USE DEF IInv, TypeOK
<1>1. pc'[u] \in {"readOld", "index", "count"} /\ (pc'[u] = "count" => req'[u].op = "put")
  BY DEF HoldsPos, Quiet
<1>2. ~Crash /\ ~Call(u)
  BY <1>1 DEF Crash, Call, CallPut, CallDelete, CallGet, Begin, Goto, CallTypes
<1>3. CASE Step(u)
  <2>1. ~MergeStep(u)
    BY <1>1 DEF MergeStep, Select, ScanOpen, ScanRecord, BeginCommit, Rename, SwapActive,
      Recheck, Relocate, BeginCleanup, RemoveCandidate, EndMerge, MergeError, RenameError,
      Release, Return, Goto, CallTypes
  <2>2. ~(\/ Lookup(u) \/ Read(u) \/ Check(u) \/ Ensure(u) \/ Rotate(u) \/ CallError(u)
          \/ Index(u) \/ Unindex(u) \/ Trigger(u) \/ CompareExchange(u))
    BY <1>1 DEF Lookup, Read, Check, Ensure, Rotate, CallError, Index, Unindex, Applied,
      Trigger, CompareExchange, Return, Goto, CallTypes
  <2>3. CASE AppendRecord(u)
    BY <1>1, <2>3 DEF AppendRecord, Pos, Goto, CallTypes
  <2>4. CASE Reread(u)
    BY <1>1, <2>4 DEF Reread, ReadOldPosition, ThreadsOK, Goto, CallTypes
  <2>5. CASE ReadOld(u) \/ Count(u)
    <3>1. HoldsPos(u) /\ ~Quiet(u)
      BY <1>1, <2>5 DEF ReadOld, ReadOldPosition, Count, HoldsPos, Quiet, Goto, CallTypes
    <3>2. UNCHANGED <<fileVars, pos>>
      BY <2>5 DEF ReadOld, ReadOldPosition, Count
    <3> QED
      BY <3>1, <3>2 DEF SInv, OpenOK
  <2> QED
    BY <1>3, <2>1, <2>2, <2>3, <2>4, <2>5 DEF Step
<1>4. CASE Same(u) /\ ~Step(u)
  <2>1. HoldsPos(u) /\ ~Quiet(u)
    BY <1>1, <1>4 DEF Same, HoldsPos, Quiet
  <2>2. UNCHANGED storeVars
    BY <1>2, <1>4, <2>1, WriterActs DEF SInv
  <2> QED
    BY <1>4, <2>1, <2>2 DEF SInv, OpenOK, Same, storeVars
<1> QED
  BY <1>2, <1>3, <1>4, FrameThread

LEMMA OpenStep == SingleWriter /\ IInv /\ SInv /\ Next => OpenOK'
BY IndexOpenStep, PutOpenStep DEF SInv, OpenOK, IndexOpen

-------------------------------------------------------------------------------
(***************************************************************************)
(* Between merges.                                                         *)
(***************************************************************************)

\* A step of a merge is in the middle of one, or ends it.
LEMMA MergeStepPc ==
  ASSUME CallTypes, NEW t \in Threads, MergeStep(t)
  PROVE  Release(t) \/ pc'[t] \in MergePCs \ {"select"}
BY DEF MergeStep, Select, ScanOpen, ScanRecord, BeginCommit, Rename, SwapActive, Recheck,
  Relocate, BeginCleanup, RemoveCandidate, EndMerge, MergeError, RenameError, Goto,
  CallTypes, MergePCs, CommitPCs

\* A thread in the middle of a merge takes steps of the merge only.
LEMMA InMerge ==
  ASSUME NEW t \in Threads, pc[t] \in MergePCs
  PROVE  ~Call(t) /\ (Step(t) => MergeStep(t))
BY DEF MergePCs, CommitPCs, Call, CallPut, CallDelete, CallGet, Begin, Step, Lookup, Read,
  Check, Reread, ReadOld, ReadOldPosition, Count, Ensure, Rotate, AppendRecord, CallError,
  Index, Unindex, Trigger, CompareExchange

\* Release leaves nothing of the merge behind.
LEMMA BetweenStep == IInv /\ SInv /\ Next => BetweenOK'
<1> SUFFICES ASSUME IInv, SInv, Next, \A t \in Threads : pc'[t] \notin MergePCs \ {"select"}
             PROVE newPos' = NoIndex /\ scanOff' = 0
  BY DEF BetweenOK
<1> USE DEF IInv, TypeOK
<1>1. CASE Crash
  BY <1>1 DEF Crash, NoMerge
<1>2. ASSUME NEW t \in Threads, MergeStep(t) PROVE newPos' = NoIndex /\ scanOff' = 0
  BY <1>2, MergeStepPc DEF Release, NoMerge
<1>3. CASE UNCHANGED mergeVars /\ ~Crash /\ ~(\E t \in Threads : MergeStep(t))
  <2>1. ASSUME NEW t \in Threads PROVE pc[t] \notin MergePCs \ {"select"}
    BY <1>3, InMerge, FrameThread DEF Same
  <2> QED
    BY <1>3, <2>1 DEF SInv, BetweenOK
<1> QED
  BY <1>1, <1>2, <1>3, FrameMerge

-------------------------------------------------------------------------------
(***************************************************************************)
(* The files of a merge, and the keys that live in its candidates.         *)
(***************************************************************************)

\* The steps that lead into or through the middle of a merge.
LEMMA MiddleStep ==
  ASSUME CallTypes, NEW u \in Threads, MergeStep(u), pc'[u] \in {"scan"} \cup CommitPCs
  PROVE  \/ Select(u) \/ ScanOpen(u) \/ ScanRecord(u) \/ BeginCommit(u) \/ Rename(u)
         \/ SwapActive(u) \/ Recheck(u) \/ Relocate(u) \/ BeginCleanup(u) \/ RemoveCandidate(u)
<1>1. ~(EndMerge(u) \/ MergeError(u) \/ RenameError(u) \/ Release(u))
  BY DEF EndMerge, MergeError, RenameError, Release, Return, Goto, CallTypes, CommitPCs
<1> QED
  BY <1>1 DEF MergeStep

\* The candidates stay open until the clean-up, and every renamed file is open.
LEMMA MergeFilesStep ==
  ASSUME SingleWriter, IInv, SInv, Next, NEW u \in Threads
  PROVE  MergeFilesAt(u)'
<1> SUFFICES ASSUME pc'[u] \in {"scan"} \cup CommitPCs PROVE MergeFilesAt(u)'
  BY DEF MergeFilesAt, CommitPCs
<1> USE DEF IInv, TypeOK
<1>0. MergeFilesAt(u)
  BY DEF SInv
<1>1. CASE UNCHANGED <<storeVars, mergeVars>> /\ Same(u)
  BY <1>0, <1>1 DEF storeVars, Same, MergeFilesAt
<1>2. CASE Select(u)
  BY <1>2 DEF Select, Candidates, Goto, CallTypes, MergeFilesAt, CommitPCs
<1>3. CASE ScanOpen(u) \/ ScanRecord(u) \/ Recheck(u) \/ Relocate(u)
  BY <1>0, <1>3 DEF ScanOpen, ScanRecord, Recheck, Relocate, MergeFilesAt, CommitPCs
<1>4. CASE BeginCommit(u)
  <2>1. cand \subseteq older /\ \A f \in older : f <= lastId
    BY <1>0, <1>4 DEF BeginCommit, MergeFilesAt, FilesOK, ThreadsOK
  <2>2. start' = lastId + 1 /\ moved' = 0 /\ UNCHANGED <<cand, older>> /\ pc'[u] = "rename"
    BY <1>4 DEF BeginCommit, NextFileId, Goto, CallTypes
  <2>3. \A f \in cand : f < start'
    BY <2>1, <2>2 DEF StoreTypes, MergeTypes, FileIds
  <2>4. \A i \in FileIds : ~(i < moved')
    BY <2>2 DEF FileIds
  <2> QED
    BY <2>1, <2>2, <2>3, <2>4 DEF MergeFilesAt
<1>5. CASE Rename(u)
  <2>1. /\ pc' = pc /\ pc[u] = "rename" /\ UNCHANGED <<cand, todo, start>>
        /\ older' = older \cup {start + moved} /\ moved' = moved + 1
    BY <1>5 DEF Rename, MergedId
  <2>2. \A i \in FileIds : i < moved + 1 => i < moved \/ i = moved
    BY DEF FileIds, MergeTypes
  <2> QED
    BY <1>0, <2>1, <2>2 DEF MergeFilesAt, CommitPCs
<1>6. CASE SwapActive(u)
  BY <1>0, <1>6 DEF SwapActive, Goto, CallTypes, MergeFilesAt, CommitPCs
<1>7. CASE BeginCleanup(u) \/ RemoveCandidate(u)
  BY <1>0, <1>7 DEF BeginCleanup, RemoveCandidate, Goto, CallTypes, MergeFilesAt, CommitPCs
<1> QED
  BY <1>1, <1>2, <1>3, <1>4, <1>5, <1>6, <1>7, MergerActs, MiddleStep DEF SInv

\* The scan stands on a record; if it is valid it is where the index says.
LEMMA ScannedRecord ==
  ASSUME IInv, NEW u \in Threads, ScanRecord(u)
  PROVE  /\ disk[scanFile].recs \in Seq(Record)
         /\ scanOff \in 1 .. Len(disk[scanFile].recs)
         /\ disk[scanFile].recs[scanOff] \in Record
<1>1. disk[scanFile].recs \in Seq(Record)
  BY DEF IInv, TypeOK, MergeTypes, StoreTypes, File
<1>2. scanOff \in 1 .. Len(disk[scanFile].recs)
  BY <1>1 DEF ScanRecord, Scanning, IInv, TypeOK, MergeTypes, FilesOK
<1> QED
  BY <1>1, <1>2

\* A position of the index leads to a record of its key.
LEMMA IndexRecord ==
  ASSUME IInv, NEW k \in Keys, index[k] # Nil
  PROVE  /\ index[k].file \in FileIds /\ index[k].off \in Nat \ {0}
         /\ index[k] = Pos(index[k].file, index[k].off) /\ index[k].file <= lastId
         /\ disk[index[k].file].recs \in Seq(Record)
         /\ index[k].off \in 1 .. Len(disk[index[k].file].recs)
         /\ disk[index[k].file].recs[index[k].off].key = k
<1>1. index[k] \in Position /\ index[k].file <= lastId
      /\ index[k].off <= Len(disk[index[k].file].recs)
      /\ disk[index[k].file].recs[index[k].off].key = k
  BY DEF IInv, PositionsOK, Held, Names, RecordAt
<1>2. index[k].file \in FileIds /\ index[k].off \in Nat \ {0}
      /\ index[k] = Pos(index[k].file, index[k].off)
  BY <1>1 DEF Position, Pos
<1>3. disk[index[k].file].recs \in Seq(Record)
  BY <1>2 DEF IInv, TypeOK, StoreTypes, File
<1> QED
  BY <1>1, <1>2, <1>3

\* A turn of the scan copies the record it passes if the index points to it.
LEMMA ScanCovers ==
  ASSUME IInv, NEW u \in Threads, ScanRecord(u), NEW k \in Keys, index[k] # Nil,
         newPos[k] # Nil \/ Ahead(index[k])
  PROVE  newPos'[k] # Nil \/ Ahead(index[k])'
<1> USE DEF IInv, TypeOK
<1>1. /\ UNCHANGED <<index, todo, scanFile>> /\ scanOff # 0
      /\ scanOff' = Advance(disk[scanFile].recs)
  BY DEF ScanRecord, Scanning
<1>2. PICK r : r = disk[scanFile].recs[scanOff]
  OBVIOUS
<1>3. r \in Record
  BY <1>2, ScannedRecord
<1>4. CASE IsValid(r.key, scanFile, scanOff)
  <2>1. PICK c : /\ c \in FileIds
                 /\ newPos' = [newPos EXCEPT ![r.key] = Pos(c, WriteOffset(tmp[c]))]
    BY <1>2, <1>4 DEF ScanRecord, ContextAppend
  <2>2. Pos(c, WriteOffset(tmp[c])) \in Position
    BY <2>1 DEF Pos, Position, WriteOffset, MergeTypes, File
  <2>3. newPos'[r.key] # Nil /\ \A j \in Keys : newPos[j] # Nil => newPos'[j] # Nil
    BY <1>3, <2>1, <2>2 DEF MergeTypes, Record
  <2>4. CASE newPos[k] # Nil \/ k = r.key
    BY <2>3, <2>4
  <2>5. CASE index[k].file \in todo
    BY <1>1, <2>5 DEF Ahead
  <2>6. CASE k # r.key /\ index[k].file = scanFile /\ scanOff <= index[k].off
    <3>1. index[k].off # scanOff
      BY <1>2, <2>6, IndexRecord
    <3>2. index[k].off \in 1 .. Len(disk[scanFile].recs) /\ disk[scanFile].recs \in Seq(Record)
      BY <2>6, IndexRecord
    <3>3. scanOff < Len(disk[scanFile].recs) /\ scanOff + 1 <= index[k].off
      BY <2>6, <3>1, <3>2 DEF MergeTypes
    <3>4. scanOff' = scanOff + 1 /\ scanOff' # 0
      BY <1>1, <3>3 DEF Advance, MergeTypes
    <3> QED
      BY <1>1, <2>6, <3>3, <3>4 DEF Ahead, Scanning
  <2> QED
    BY <2>4, <2>5, <2>6 DEF Ahead
<1>5. CASE ~IsValid(r.key, scanFile, scanOff)
  <2>1. newPos' = newPos
    BY <1>2, <1>5 DEF ScanRecord
  <2>2. CASE newPos[k] # Nil \/ index[k].file \in todo
    BY <1>1, <2>1, <2>2 DEF Ahead
  <2>3. CASE index[k].file = scanFile /\ scanOff <= index[k].off
    <3>1. index[k].off # scanOff
      BY <1>2, <1>5, <2>3, IndexRecord DEF IsValid
    <3>2. index[k].off \in 1 .. Len(disk[scanFile].recs) /\ disk[scanFile].recs \in Seq(Record)
      BY <2>3, IndexRecord
    <3>3. scanOff < Len(disk[scanFile].recs) /\ scanOff + 1 <= index[k].off
      BY <2>3, <3>1, <3>2 DEF MergeTypes
    <3>4. scanOff' = scanOff + 1 /\ scanOff' # 0
      BY <1>1, <3>3 DEF Advance, MergeTypes
    <3> QED
      BY <1>1, <2>3, <3>3, <3>4 DEF Ahead, Scanning
  <2> QED
    BY <2>2, <2>3 DEF Ahead
<1> QED
  BY <1>4, <1>5

\* Every key in a candidate is copied before the commit, and moved before the
\* clean-up.
LEMMA CoveredStep ==
  ASSUME SingleWriter, IInv, SInv, Next, NEW u \in Threads
  PROVE  CoveredAt(u)'
<1> SUFFICES ASSUME pc'[u] \in {"scan"} \cup CommitPCs PROVE CoveredAt(u)'
  BY DEF CoveredAt, CommitPCs
<1> USE DEF IInv, TypeOK
<1>0. CoveredAt(u) /\ MergeFilesAt(u)
  BY DEF SInv
<1>1. CASE UNCHANGED <<storeVars, mergeVars>> /\ Same(u)
  BY <1>0, <1>1 DEF storeVars, Same, CoveredAt, InCandidate, Ahead, Scanning
<1>2. CASE Select(u)
  <2>1. CASE pc'[u] = "scan"
    BY <1>2, <2>1 DEF Select, CoveredAt, InCandidate, Ahead
  <2>2. pc'[u] \in {"scan", "release"}
    BY <1>2 DEF Select, Goto, CallTypes
  <2> QED
    BY <2>1, <2>2 DEF CommitPCs
<1>3. CASE ScanOpen(u)
  <2>1. PICK f \in todo : todo' = todo \ {f} /\ scanFile' = f /\ scanOff' = FirstOffset(f)
    BY <1>3 DEF ScanOpen
  <2>2. UNCHANGED <<index, cand, newPos, disk, older, pc>> /\ pc[u] = "scan" /\ ~Scanning
    BY <1>3 DEF ScanOpen
  <2>3. ASSUME NEW k \in Keys, InCandidate(k), newPos[k] = Nil PROVE Ahead(index[k])'
    <3>1. index[k] # Nil /\ index[k].file \in todo
      BY <1>0, <2>2, <2>3 DEF CoveredAt, InCandidate, Ahead
    <3>2. CASE index[k].file # f
      BY <2>1, <2>2, <3>1, <3>2 DEF Ahead
    <3>3. CASE index[k].file = f
      <4>1. f \in older /\ disk[f].recs \in Seq(Record) /\ index[k].off \in 1 .. Len(disk[f].recs)
        BY <1>0, <2>1, <2>2, <3>1, <3>3, IndexRecord DEF MergeFilesAt
      <4>2. disk[f].recs # <<>> /\ 1 <= index[k].off
        BY <4>1
      <4>3. scanOff' = 1
        BY <2>1, <4>1, <4>2 DEF FirstOffset
      <4> QED
        BY <2>1, <2>2, <3>3, <4>2, <4>3 DEF Ahead, Scanning
    <3> QED
      BY <3>2, <3>3
  <2> QED
    BY <2>2, <2>3 DEF CoveredAt, InCandidate
<1>4. CASE ScanRecord(u)
  <2>1. UNCHANGED <<index, cand, pc>> /\ pc[u] = "scan"
    BY <1>4 DEF ScanRecord
  <2>2. ASSUME NEW k \in Keys, InCandidate(k) PROVE newPos'[k] # Nil \/ Ahead(index[k])'
    BY <1>0, <1>4, <2>1, <2>2, ScanCovers DEF CoveredAt, InCandidate
  <2> QED
    BY <2>1, <2>2 DEF CoveredAt, InCandidate
<1>5. CASE BeginCommit(u)
  BY <1>0, <1>5 DEF BeginCommit, Goto, CallTypes, CoveredAt, InCandidate, Ahead
<1>6. CASE Rename(u) \/ SwapActive(u)
  BY <1>0, <1>6 DEF Rename, SwapActive, Goto, CallTypes, CoveredAt, InCandidate
<1>7. CASE Recheck(u)
  <2>1. UNCHANGED <<index, cand, pc>> /\ pc[u] = "recheck"
    BY <1>7 DEF Recheck
  <2>2. \A k \in Keys : InCandidate(k) /\ newPos[k] # Nil => newPos'[k] # Nil
    BY <1>7 DEF Recheck, StillCandidate, InCandidate, MergeTypes
  <2> QED
    BY <1>0, <2>1, <2>2 DEF CoveredAt, InCandidate
<1>8. CASE Relocate(u)
  <2>1. UNCHANGED <<cand, pc>> /\ pc[u] = "recheck"
    BY <1>8 DEF Relocate
  <2>2. PICK j \in moving : /\ index' = [index EXCEPT ![j] = Rebase(newPos[j])]
                            /\ newPos' = [newPos EXCEPT ![j] = Nil]
    BY <1>8 DEF Relocate
  <2>3. j \in Keys /\ newPos[j] \in Position
    BY <2>2 DEF MergeTypes, CopiesOK
  <2>4. Rebase(newPos[j]).file \notin cand
    <3>1. \A f \in cand : f < start /\ f \in Nat
      BY <1>0, <2>1 DEF MergeFilesAt, CommitPCs, MergeTypes, FileIds
    <3>2. newPos[j].file \in Nat /\ start \in Nat
      BY <2>3 DEF Position, MergeTypes, FileIds
    <3> QED
      BY <3>1, <3>2 DEF Rebase, Pos
  <2>5. \A k \in Keys : k # j => index'[k] = index[k] /\ newPos'[k] = newPos[k]
    BY <2>2 DEF StoreTypes, MergeTypes
  <2>6. index'[j] = Rebase(newPos[j])
    BY <2>2, <2>3 DEF StoreTypes
  <2> QED
    BY <1>0, <2>1, <2>4, <2>5, <2>6 DEF CoveredAt, InCandidate
<1>9. CASE BeginCleanup(u)
  BY <1>0, <1>9 DEF BeginCleanup, Goto, CallTypes, CoveredAt, InCandidate, NoIndex
<1>10. CASE RemoveCandidate(u)
  BY <1>0, <1>10 DEF RemoveCandidate, CoveredAt, InCandidate
<1> QED
  BY <1>1, <1>2, <1>3, <1>4, <1>5, <1>6, <1>7, <1>8, <1>9, <1>10, MergerActs, MiddleStep
  DEF SInv

-------------------------------------------------------------------------------
(***************************************************************************)
(* The copies have the values get answers.                                 *)
(***************************************************************************)

\* A record at a position that is safe to hold is not overwritten.
LEMMA RecordStays ==
  ASSUME IInv, Grows, NEW k \in Keys, NEW p, Held(k, p)
  PROVE  disk'[p.file].recs[p.off] = disk[p.file].recs[p.off]
<1>1. p.file \in FileIds /\ p.off \in Nat \ {0} /\ p.off <= Len(disk[p.file].recs)
      /\ p.file <= lastId
  BY DEF Held, Names, Position
<1>2. disk[p.file].recs \in Seq(Record)
  BY <1>1 DEF IInv, TypeOK, StoreTypes, File
<1>3. p.off \in 1 .. Len(disk[p.file].recs)
  BY <1>1, <1>2
<1> QED
  BY <1>1, <1>3 DEF Grows

\* So what get answers for a key changes only with its index entry.
LEMMA ViewStays ==
  ASSUME IInv, Grows, NEW k \in Keys, index'[k] = index[k]
  PROVE  View(k)' = View(k)
<1>1. CASE index[k] = Nil
  BY <1>1 DEF View, ValueAt
<1>2. CASE index[k] # Nil
  <2>1. Held(k, index[k])
    BY <1>2 DEF IInv, PositionsOK
  <2> QED
    BY <2>1, RecordStays DEF View, ValueAt, RecordAt
<1> QED
  BY <1>1, <1>2

\* A thread's step leaves the records that are there.
LEMMA ThreadGrows ==
  ASSUME IInv, Next, NEW t \in Threads, Call(t) \/ Step(t)
  PROVE  Grows
BY GrowsStep, StatusStep DEF OpenFiles, Crash

\* A turn of the scan copies the value of the record, and keeps earlier copies.
LEMMA ScanCopies ==
  ASSUME IInv, NEW u \in Threads, ScanRecord(u), NEW k \in Keys,
         newPos[k] # Nil => index[k] # Nil /\ Copy(k).val = View(k), newPos'[k] # Nil
  PROVE  index[k] # Nil /\ Copy(k)'.val = View(k)
<1> USE DEF IInv, TypeOK, MergeTypes
<1>1. PICK r : r = disk[scanFile].recs[scanOff]
  OBVIOUS
<1>2. r \in Record
  BY <1>1, ScannedRecord
<1>3. CASE ~IsValid(r.key, scanFile, scanOff)
  BY <1>1, <1>3 DEF ScanRecord, Copy
<1>4. CASE IsValid(r.key, scanFile, scanOff)
  <2>1. PICK c \in FileIds : /\ tmp' = [tmp EXCEPT ![c] = Write(@, r)]
                             /\ newPos' = [newPos EXCEPT ![r.key] = Pos(c, WriteOffset(tmp[c]))]
    BY <1>1, <1>4 DEF ScanRecord, ContextAppend
  <2>2. tmp[c] \in File /\ tmp[c].recs \in Seq(Record)
    BY DEF File
  <2>3. tmp'[c] = Write(tmp[c], r) /\ \A f \in FileIds : f # c => tmp'[f] = tmp[f]
    BY <2>1
  <2>4. CASE k = r.key
    <3>1. newPos'[k].file = c /\ newPos'[k].off = Len(tmp[c].recs) + 1
      BY <2>1, <2>4 DEF Pos, WriteOffset
    <3>2. Copy(k)' = r
      BY <2>2, <2>3, <3>1, WriteGrows DEF Copy
    <3>3. index[k] = Pos(scanFile, scanOff) /\ index[k] # Nil
      <4>1. Pos(scanFile, scanOff) \in Position
        BY DEF ScanRecord, Scanning, Pos, Position
      <4> QED
        BY <1>4, <2>4, <4>1 DEF IsValid
    <3>4. View(k) = r.val
      BY <1>1, <3>3 DEF View, ValueAt, RecordAt, Pos
    <3> QED
      BY <3>2, <3>3, <3>4
  <2>5. CASE k # r.key
    <3>1. newPos'[k] = newPos[k] /\ newPos[k] # Nil
      BY <2>1, <2>5
    <3>2. newPos[k].file \in FileIds /\ newPos[k].off \in Nat \ {0}
          /\ newPos[k].off <= Len(tmp[newPos[k].file].recs)
      BY <3>1 DEF CopiesOK, Position
    <3>3. Copy(k)' = Copy(k)
      <4>1. CASE newPos[k].file # c
        BY <2>3, <3>1, <3>2, <4>1 DEF Copy
      <4>2. CASE newPos[k].file = c
        <5>1. newPos[k].off \in 1 .. Len(tmp[c].recs)
          BY <2>2, <3>2, <4>2
        <5>2. Write(tmp[c], r).recs[newPos[k].off] = tmp[c].recs[newPos[k].off]
          BY <2>2, <5>1, WriteGrows
        <5> QED
          BY <2>3, <3>1, <4>2, <5>2 DEF Copy
      <4> QED
        BY <4>1, <4>2
    <3> QED
      BY <3>1, <3>3
  <2> QED
    BY <2>4, <2>5
<1> QED
  BY <1>3, <1>4

\* A copy has the value of its key until the key is moved to it.
LEMMA CopiedStep ==
  ASSUME SingleWriter, IInv, SInv, Next, NEW u \in Threads
  PROVE  CopiedAt(u)'
<1> SUFFICES ASSUME pc'[u] \in {"scan", "rename", "recheck"}, NEW k \in Keys, newPos'[k] # Nil
             PROVE  index'[k] # Nil /\ Copy(k)'.val = View(k)'
  BY DEF CopiedAt
<1> USE DEF IInv, TypeOK
<1>0. pc[u] \in {"scan", "rename", "recheck"} /\ newPos[k] # Nil =>
        index[k] # Nil /\ Copy(k).val = View(k)
  BY DEF SInv, CopiedAt
<1>1. CASE UNCHANGED <<storeVars, mergeVars>> /\ Same(u)
  BY <1>0, <1>1 DEF storeVars, Same, Copy, View, ValueAt, RecordAt
<1>2. CASE Select(u)
  <2>1. \A t \in Threads : pc[t] \notin MergePCs \ {"select"}
    BY <1>2, OneMerger DEF Select, MergePCs
  <2>2. newPos' = NoIndex
    BY <1>2, <2>1 DEF SInv, BetweenOK, Select
  <2> QED
    BY <2>2 DEF NoIndex
<1>3. ASSUME MergeStep(u), UNCHANGED <<index, tmp>>, newPos'[k] = newPos[k],
             pc[u] \in {"scan", "rename", "recheck"}
      PROVE  index'[k] # Nil /\ Copy(k)'.val = View(k)'
  <2>1. View(k)' = View(k)
    BY <1>3, ThreadGrows, ViewStays DEF Step
  <2>2. Copy(k)' = Copy(k)
    BY <1>3 DEF Copy
  <2> QED
    BY <1>0, <1>3, <2>1, <2>2
<1>4. CASE ScanOpen(u) \/ BeginCommit(u)
  BY <1>3, <1>4 DEF ScanOpen, BeginCommit, MergeStep
<1>5. CASE ScanRecord(u)
  <2>1. View(k)' = View(k) /\ index' = index
    BY <1>5 DEF ScanRecord, View, ValueAt, RecordAt
  <2>2. pc[u] = "scan"
    BY <1>5 DEF ScanRecord
  <2> QED
    BY <1>0, <1>5, <2>1, <2>2, ScanCopies
<1>6. CASE Rename(u) \/ SwapActive(u)
  BY <1>3, <1>6 DEF Rename, SwapActive, MergeStep
<1>7. CASE Recheck(u)
  <2>1. newPos'[k] = newPos[k]
    BY <1>7 DEF Recheck, MergeTypes
  <2> QED
    BY <1>3, <1>7, <2>1 DEF Recheck, MergeStep
<1>8. CASE Relocate(u)
  <2>1. PICK j \in moving : /\ index' = [index EXCEPT ![j] = Rebase(newPos[j])]
                            /\ newPos' = [newPos EXCEPT ![j] = Nil]
    BY <1>8 DEF Relocate
  <2>2. k # j
    BY <2>1 DEF MergeTypes
  <2>3. index'[k] = index[k] /\ newPos'[k] = newPos[k]
    BY <2>1, <2>2 DEF StoreTypes, MergeTypes
  <2>4. View(k)' = View(k)
    BY <1>8, <2>3, ThreadGrows, ViewStays DEF Step, MergeStep
  <2>5. Copy(k)' = Copy(k)
    BY <1>8, <2>3 DEF Relocate, Copy
  <2> QED
    BY <1>0, <1>8, <2>3, <2>4, <2>5 DEF Relocate
<1>9. ~BeginCleanup(u) /\ ~RemoveCandidate(u)
  BY DEF BeginCleanup, RemoveCandidate, Goto, CallTypes
<1> QED
  BY <1>1, <1>2, <1>4, <1>5, <1>6, <1>7, <1>8, <1>9, MergerActs, MiddleStep DEF SInv, CommitPCs

-------------------------------------------------------------------------------
(***************************************************************************)
(* The invariant and its theorems.                                         *)
(***************************************************************************)
LEMMA InitSingle == Init => SInv
BY Zero DEF Init, SInv, RolesOK, Quiet, OpenOK, IndexOpen, HoldsPos, BetweenOK, MergeFilesAt, CoveredAt,
  CopiedAt, CommitPCs

LEMMA NextSingle == SingleWriter /\ IInv /\ SInv /\ [Next]_vars => SInv'
<1> SUFFICES ASSUME SingleWriter, IInv, SInv, [Next]_vars PROVE SInv'
  OBVIOUS
<1>1. CASE Next
  <2>1. RolesOK' /\ OpenOK' /\ BetweenOK'
    BY <1>1, RolesStep, OpenStep, BetweenStep DEF SInv
  <2>2. \A t \in Threads : MergeFilesAt(t)' /\ CoveredAt(t)' /\ CopiedAt(t)'
    BY <1>1, MergeFilesStep, CoveredStep, CopiedStep
  <2> QED
    BY <2>1, <2>2 DEF SInv
<1>2. CASE UNCHANGED vars
  <2>1. RolesOK' /\ OpenOK' /\ BetweenOK'
    BY <1>2 DEF vars, SInv, RolesOK, Quiet, OpenOK, IndexOpen, HoldsPos, BetweenOK
  <2>2. \A t \in Threads : MergeFilesAt(t)'
    BY <1>2 DEF vars, SInv, MergeFilesAt
  <2>3. \A t \in Threads : CoveredAt(t)'
    BY <1>2 DEF vars, SInv, CoveredAt, InCandidate, Ahead, Scanning
  <2>4. \A t \in Threads : CopiedAt(t)'
    BY <1>2 DEF vars, SInv, CopiedAt, Copy, View, ValueAt, RecordAt
  <2> QED
    BY <2>1, <2>2, <2>3, <2>4 DEF SInv
<1> QED
  BY <1>1, <1>2

\* With one thread that writes, and any number that read, the invariant holds
\* in every reachable state, whether or not I/O calls fail.
LEMMA SingleInvariant ==
  ASSUME SingleWriter
  PROVE  Spec => [](IInv /\ SInv)
<1>1. IInv /\ SInv /\ [Next]_vars => SInv'
  BY NextSingle
<1> QED
  BY <1>1, InitInv, InitSingle, NextInv, PTL DEF Spec

\* A merge step of the thread that writes changes no value.
LEMMA MergeView ==
  ASSUME IInv, SInv, Next, NEW t \in Threads, MergeStep(t), NEW k \in Keys
  PROVE  View(k)' = View(k)
<1> USE DEF IInv, TypeOK
<1>1. CASE index'[k] = index[k]
  BY <1>1, ThreadGrows, ViewStays DEF Step
<1>2. CASE index'[k] # index[k]
  <2>1. Relocate(t)
    BY <1>2 DEF MergeStep, Select, ScanOpen, ScanRecord, BeginCommit, Rename, SwapActive,
      Recheck, BeginCleanup, RemoveCandidate, EndMerge, MergeError, RenameError, Release
  <2>2. PICK j \in moving : index' = [index EXCEPT ![j] = Rebase(newPos[j])]
    BY <2>1 DEF Relocate
  <2>3. k = j /\ newPos[k] # Nil /\ index'[k] = Rebase(newPos[k])
    BY <1>2, <2>2 DEF StoreTypes, CopiesOK
  <2>4. index[k] # Nil /\ Copy(k).val = View(k)
    BY <2>1, <2>3 DEF Relocate, SInv, CopiedAt
  <2>5. newPos[k].file \in FileIds /\ newPos[k].file < moved
    BY <2>1, <2>3 DEF Relocate, CopiesOK, CommitOK, MergeTypes, Position, FileIds
  <2>6. disk[start + newPos[k].file] = tmp[newPos[k].file] /\ disk' = disk
    BY <2>1, <2>5 DEF Relocate, CommitOK
  <2>7. Rebase(newPos[k]) \in Position
    BY <2>1, <2>3, RebaseType DEF Relocate
  <2>8. View(k)' = disk[start + newPos[k].file].recs[newPos[k].off].val
    BY <2>3, <2>6, <2>7 DEF View, ValueAt, RecordAt, Rebase, Pos
  <2> QED
    BY <2>4, <2>6, <2>8 DEF Copy
<1> QED
  BY <1>1, <1>2

\* With one thread that writes, every key of the index is in a file the engine
\* holds open: a merge closes a file only after the last key has left it.
THEOREM NoKeyDangles ==
  ASSUME SingleWriter
  PROVE  Spec => []NoDangling
<1>1. IInv /\ SInv => NoDangling
  BY DEF SInv, OpenOK, IndexOpen, NoDangling
<1> QED
  BY <1>1, SingleInvariant, PTL

\* With one thread that writes, no step of a merge changes what get answers.
THEOREM MergesKeepView ==
  ASSUME SingleWriter
  PROVE  Spec => MergeKeepsView
<1>1. IInv /\ SInv /\ [Next]_vars =>
        [(\E t \in Threads : MergeStep(t)) => \A k \in Keys : View(k)' = View(k)]_vars
  BY MergeView
<1> QED
  BY <1>1, SingleInvariant, PTL DEF Spec, MergeKeepsView

-------------------------------------------------------------------------------
(***************************************************************************)
(* What a merge copies (OnceOK): each key once, from a candidate.          *)
(***************************************************************************)

\* Release leaves no temporary file behind.
LEMMA NothingCopied ==
  ASSUME IInv, OnceOK, Next, \A t \in Threads : pc'[t] \notin MergePCs \ {"select"}
  PROVE  tmp' = NoFiles
<1> USE DEF IInv, TypeOK
<1>1. CASE Crash
  BY <1>1 DEF Crash, NoMerge
<1>2. ASSUME NEW t \in Threads, MergeStep(t) PROVE tmp' = NoFiles
  BY <1>2, MergeStepPc DEF Release, NoMerge
<1>3. CASE UNCHANGED mergeVars /\ ~Crash /\ ~(\E t \in Threads : MergeStep(t))
  <2>1. ASSUME NEW t \in Threads PROVE pc[t] \notin MergePCs \ {"select"}
    BY <1>3, InMerge, FrameThread DEF Same
  <2> QED
    BY <1>3, <2>1 DEF OnceOK
<1> QED
  BY <1>1, <1>2, <1>3, FrameMerge

\* A turn of the scan copies the record of a key whose copy it has not made, and
\* goes past it.
LEMMA ScanOnce ==
  ASSUME IInv, NEW u \in Threads, ScanRecord(u), CopiedOnceAt(u)
  PROVE  CopiedOnceAt(u)'
<1> USE DEF IInv, TypeOK
<1>1. PICK r : r = disk[scanFile].recs[scanOff]
  OBVIOUS
<1>2. /\ pc[u] = "scan" /\ pc' = pc /\ UNCHANGED <<disk, index, cand, todo, scanFile>>
      /\ scanOff # 0 /\ scanOff \in Nat /\ scanFile \in cand \ todo /\ scanFile \in FileIds
      /\ (scanOff' = 0 \/ scanOff' = scanOff + 1)
  BY DEF ScanRecord, Scanning, CopiedOnceAt, Advance, MergeTypes
<1>3. r \in Record /\ r.key \in Keys
  BY <1>1, ScannedRecord DEF Record
<1>4. \A f \in FileIds : \A i \in DOMAIN tmp[f].recs : newPos[tmp[f].recs[i].key] = Pos(f, i)
  BY <1>2 DEF CopiedOnceAt
<1>5. \A k \in Keys : newPos[k] # Nil => ~Ahead(index[k]) /\ InCandidate(k)
  BY <1>2 DEF CopiedOnceAt
<1>6. ASSUME NEW k \in Keys, index[k] # Nil, ~Ahead(index[k]) PROVE ~Ahead(index[k])'
  <2>1. index[k].off \in Nat
    BY <1>6 DEF StoreTypes, Position
  <2>2. index[k].file \notin todo /\ ~(index[k].file = scanFile /\ scanOff <= index[k].off)
    BY <1>2, <1>6 DEF Ahead, Scanning
  <2>3. ~(scanOff' # 0 /\ index[k].file = scanFile /\ scanOff' <= index[k].off)
    BY <1>2, <2>1, <2>2
  <2> QED
    BY <1>2, <2>2, <2>3 DEF Ahead, Scanning
<1>7. CASE ~IsValid(r.key, scanFile, scanOff)
  <2>1. UNCHANGED <<tmp, newPos>>
    BY <1>1, <1>7 DEF ScanRecord
  <2>2. \A k \in Keys : newPos'[k] # Nil => ~Ahead(index[k])' /\ InCandidate(k)'
    BY <1>2, <1>5, <1>6, <2>1 DEF InCandidate
  <2>3. \A f \in FileIds : \A i \in DOMAIN tmp'[f].recs : newPos'[tmp'[f].recs[i].key] = Pos(f, i)
    BY <1>4, <2>1
  <2> QED
    BY <1>2, <2>2, <2>3 DEF CopiedOnceAt
<1>8. CASE IsValid(r.key, scanFile, scanOff)
  <2>1. PICK c \in FileIds : /\ tmp' = [tmp EXCEPT ![c] = Write(@, r)]
                             /\ newPos' = [newPos EXCEPT ![r.key] = Pos(c, WriteOffset(tmp[c]))]
    BY <1>1, <1>8 DEF ScanRecord, ContextAppend
  <2>2. /\ index[r.key] = Pos(scanFile, scanOff) /\ index[r.key] # Nil
        /\ index[r.key].file = scanFile /\ index[r.key].off = scanOff
    <3>1. Pos(scanFile, scanOff) \in Position
      BY <1>2 DEF Pos, Position
    <3> QED
      BY <1>8, <3>1 DEF IsValid, Pos
  <2>3. newPos[r.key] = Nil
    BY <1>2, <1>3, <1>5, <2>2 DEF Ahead, Scanning
  <2>4. ~Ahead(index[r.key])'
    BY <1>2, <2>2 DEF Ahead, Scanning
  <2>5. ASSUME NEW k \in Keys, newPos'[k] # Nil PROVE ~Ahead(index[k])' /\ InCandidate(k)'
    <3>1. CASE k = r.key
      BY <1>2, <2>2, <2>4, <3>1 DEF InCandidate
    <3>2. CASE k # r.key
      <4>1. newPos[k] # Nil
        BY <2>1, <2>5, <3>2 DEF MergeTypes
      <4> QED
        BY <1>2, <1>5, <1>6, <4>1 DEF InCandidate
    <3> QED
      BY <3>1, <3>2
  <2>6. PICK n \in Nat : n = Len(tmp[c].recs)
    BY DEF MergeTypes, File
  <2>7. tmp[c] \in File /\ tmp'[c] = Write(tmp[c], r) /\ (\A f \in FileIds : f # c => tmp'[f] = tmp[f])
        /\ newPos'[r.key] = Pos(c, n + 1)
    BY <1>3, <2>1, <2>6 DEF MergeTypes, WriteOffset
  <2>8. /\ Len(tmp'[c].recs) = n + 1 /\ tmp'[c].recs[n + 1] = r
        /\ \A i \in 1 .. n : tmp'[c].recs[i] = tmp[c].recs[i]
    BY <1>3, <2>6, <2>7, WriteGrows
  <2>9. DOMAIN tmp'[c].recs = 1 .. n + 1 /\ DOMAIN tmp[c].recs = 1 .. n
    <3>1. tmp[c].recs \in Seq(Record) /\ tmp'[c].recs \in Seq(Record)
      BY <1>3, <2>7 DEF File, Write
    <3> QED
      BY <2>6, <2>8, <3>1
  <2>10. ASSUME NEW f \in FileIds, NEW i \in DOMAIN tmp[f].recs,
                tmp'[f].recs[i] = tmp[f].recs[i]
         PROVE  newPos'[tmp'[f].recs[i].key] = Pos(f, i)
    <3>1. tmp[f].recs \in Seq(Record)
      BY DEF MergeTypes, File
    <3>2. tmp[f].recs[i].key \in Keys /\ i \in Nat \ {0}
      <4>1. tmp[f].recs[i] \in Record /\ i \in 1 .. Len(tmp[f].recs)
        BY <3>1
      <4> QED
        BY <3>1, <4>1 DEF Record
    <3>3. Pos(f, i) # Nil
      BY <3>2 DEF Pos, Position
    <3>4. tmp[f].recs[i].key # r.key
      BY <1>4, <2>3, <2>10, <3>3
    <3> QED
      BY <1>4, <2>1, <2>10, <3>2, <3>4 DEF MergeTypes
  <2>11. ASSUME NEW f \in FileIds, NEW i \in DOMAIN tmp'[f].recs
         PROVE  newPos'[tmp'[f].recs[i].key] = Pos(f, i)
    <3>1. CASE f # c
      BY <2>7, <2>10, <2>11, <3>1
    <3>2. CASE f = c /\ i = n + 1
      BY <2>7, <2>8, <3>2
    <3>3. CASE f = c /\ i # n + 1
      BY <2>6, <2>8, <2>9, <2>10, <2>11, <3>3
    <3> QED
      BY <3>1, <3>2, <3>3
  <2> QED
    BY <1>2, <2>5, <2>11 DEF CopiedOnceAt
<1> QED
  BY <1>7, <1>8

\* Every step keeps CopiedOnceAt.
LEMMA OnceStep ==
  ASSUME SingleWriter, IInv, SInv, OnceOK, Next, NEW u \in Threads
  PROVE  CopiedOnceAt(u)'
<1> SUFFICES ASSUME pc'[u] \in {"scan", "rename", "recheck"} PROVE CopiedOnceAt(u)'
  BY DEF CopiedOnceAt
<1> USE DEF IInv, TypeOK
<1>0. CopiedOnceAt(u) /\ MergeFilesAt(u)
  BY DEF OnceOK, SInv
<1>1. CASE UNCHANGED <<storeVars, mergeVars>> /\ Same(u)
  BY <1>0, <1>1 DEF storeVars, Same, CopiedOnceAt, Ahead, Scanning, InCandidate
<1>2. CASE Select(u)
  <2>1. \A t \in Threads : pc[t] \notin MergePCs \ {"select"}
    BY <1>2, OneMerger DEF Select, MergePCs
  <2>2. newPos' = NoIndex /\ tmp' = NoFiles /\ scanOff' = 0
    BY <1>2, <2>1 DEF SInv, BetweenOK, OnceOK, Select
  <2>3. \A f \in FileIds : DOMAIN tmp'[f].recs = {}
    BY <2>2 DEF NoFiles, EmptyFile
  <2> QED
    BY <2>2, <2>3 DEF NoIndex, CopiedOnceAt, Scanning
<1>3. CASE ScanOpen(u)
  <2>1. PICK f \in todo : todo' = todo \ {f} /\ scanFile' = f /\ scanOff' = FirstOffset(f)
    BY <1>3 DEF ScanOpen
  <2>2. /\ pc[u] = "scan" /\ pc' = pc /\ UNCHANGED <<index, tmp, newPos, cand>>
        /\ scanOff = 0 /\ f \in cand
    BY <1>0, <1>3 DEF ScanOpen, Scanning, MergeFilesAt
  <2>3. \A k \in Keys : newPos[k] # Nil => index[k].file \notin todo /\ InCandidate(k)
    BY <1>0, <2>2 DEF CopiedOnceAt, Ahead
  <2>4. \A k \in Keys : newPos[k] # Nil => ~Ahead(index[k])' /\ InCandidate(k)'
    BY <2>1, <2>2, <2>3 DEF Ahead, InCandidate
  <2>5. \A f1 \in FileIds : \A i \in DOMAIN tmp[f1].recs : newPos[tmp[f1].recs[i].key] = Pos(f1, i)
    BY <1>0, <2>2 DEF CopiedOnceAt
  <2> QED
    BY <2>1, <2>2, <2>4, <2>5 DEF CopiedOnceAt
<1>4. CASE ScanRecord(u)
  BY <1>0, <1>4, ScanOnce
<1>5. CASE BeginCommit(u)
  BY <1>0, <1>5 DEF BeginCommit, Goto, CallTypes, CopiedOnceAt, InCandidate
<1>6. CASE Rename(u)
  BY <1>0, <1>6 DEF Rename, CopiedOnceAt, InCandidate
<1>7. CASE SwapActive(u)
  BY <1>0, <1>7 DEF SwapActive, Goto, CallTypes, CopiedOnceAt, InCandidate
<1>8. CASE Recheck(u) \/ Relocate(u)
  <2>1. pc[u] = "recheck" /\ pc' = pc /\ cand' = cand
    BY <1>8 DEF Recheck, Relocate
  <2>2. ASSUME NEW k \in Keys, newPos'[k] # Nil PROVE newPos[k] # Nil /\ index'[k] = index[k]
    BY <1>8, <2>2 DEF Recheck, Relocate, MergeTypes, StoreTypes
  <2> QED
    BY <1>0, <2>1, <2>2 DEF CopiedOnceAt, InCandidate
<1>9. ~BeginCleanup(u) /\ ~RemoveCandidate(u)
  BY DEF BeginCleanup, RemoveCandidate, Goto, CallTypes
<1> QED
  BY <1>1, <1>2, <1>3, <1>4, <1>5, <1>6, <1>7, <1>8, <1>9, MergerActs, MiddleStep
  DEF SInv, CommitPCs

\* OnceOK holds in every reachable state.
LEMMA OnceInvariant ==
  ASSUME SingleWriter
  PROVE  Spec => [](IInv /\ SInv /\ OnceOK)
<1>1. Init => OnceOK
  BY DEF Init, OnceOK, CopiedOnceAt
<1>2. ASSUME IInv, SInv, OnceOK, [Next]_vars PROVE OnceOK'
  <2>1. CASE Next
    BY <1>2, <2>1, NothingCopied, OnceStep DEF OnceOK
  <2>2. CASE UNCHANGED vars
    BY <1>2, <2>2 DEF vars, OnceOK, CopiedOnceAt, Ahead, Scanning, InCandidate
  <2> QED
    BY <1>2, <2>1, <2>2
<1> QED
  BY <1>1, <1>2, SingleInvariant, PTL DEF Spec

-------------------------------------------------------------------------------
(***************************************************************************)
(* Recovery (LogOK), with merges of files that hold puts only.             *)
(***************************************************************************)

\* A put holds the position of the record it has just written.
LEMMA AppendsValue ==
  ASSUME IInv, NEW t \in Threads, AppendRecord(t), req[t].op = "put"
  PROVE  disk'[pos'[t].file].recs[pos'[t].off].val = req[t].val
<1> USE DEF IInv, TypeOK, StoreTypes
<1>1. PICK r : r = [key |-> req[t].key, val |-> req[t].val]
  OBVIOUS
<1>2. disk'[active] = Write(disk[active], r)
  BY <1>1 DEF AppendRecord, Appended
<1>3. pos'[t].file = active /\ pos'[t].off = Len(disk[active].recs) + 1
  BY DEF AppendRecord, CallTypes, Pos, WriteOffset
<1>4. disk[active] \in File
  OBVIOUS
<1>5. disk'[active].recs[Len(disk[active].recs) + 1] = r
  BY <1>2, <1>4, WriteGrows
<1> QED
  BY <1>1, <1>3, <1>5

\* What the record of a call says stays as it is until the call is over.
LEMMA LogCallStep ==
  ASSUME IoErrors = FALSE, IInv, Next, NEW u \in Threads, LogCallOK(u)
  PROVE  LogCallOK(u)'
<1> USE DEF IInv, TypeOK
<1>1. CASE Crash
  BY <1>1 DEF Crash, LogCallOK, Written, HoldsPos
<1>2. CASE Same(u) /\ ~Crash
  <2>1. ASSUME Written(u) PROVE RecordAt(pos[u])' = RecordAt(pos[u])
    <3>1. Held(req[u].key, pos[u]) /\ req[u].key \in Keys /\ status = "up"
      BY <2>1 DEF Written, HoldsPos, PositionsOK, ThreadsOK, Request
    <3>2. Grows
      BY <1>2, <3>1, GrowsStep DEF OpenFiles
    <3> QED
      BY <1>2, <3>1, <3>2, RecordStays DEF RecordAt, Same
  <2> QED
    BY <1>2, <2>1 DEF Same, LogCallOK, Written, HoldsPos
<1>3. CASE Call(u)
  BY <1>3 DEF Call, CallPut, CallDelete, CallGet, Begin, Goto, LogCallOK, Written, HoldsPos, CallTypes
<1>4. CASE Step(u)
  <2>1. CASE MergeStep(u)
    <3>1. Release(u) \/ (pc'[u] \in MergePCs \ {"select"} /\ req' = req /\ pc[u] # "idle")
      BY <2>1, MergeStepPc DEF MergeStep, Select, ScanOpen, ScanRecord, BeginCommit, Rename,
        SwapActive, Recheck, Relocate, BeginCleanup, RemoveCandidate, EndMerge, MergeError,
        RenameError
    <3> QED
      BY <3>1 DEF Release, Return, Goto, CallTypes, LogCallOK, Written, HoldsPos, MergePCs, CommitPCs
  <2>2. CASE pc'[u] = "idle"
    BY <2>2 DEF LogCallOK, Written, HoldsPos
  <2>3. CASE (Lookup(u) \/ Check(u) \/ Reread(u)) /\ pc'[u] # "idle"
    BY <2>3 DEF Lookup, Check, Reread, ReadOldPosition, Return, Goto, LogCallOK, Written,
      HoldsPos, CallTypes, ThreadsOK
  <2>4. CASE ReadOld(u) \/ Count(u)
    BY <2>4 DEF ReadOld, ReadOldPosition, Count, Goto, LogCallOK, Written, HoldsPos, CallTypes,
      RecordAt, ThreadsOK
  <2>5. CASE Ensure(u) \/ Rotate(u)
    BY <2>5 DEF Ensure, Rotate, Goto, LogCallOK, Written, HoldsPos, CallTypes
  <2>6. CASE AppendRecord(u)
    <3>1. req[u].op = "put" => RecordAt(pos[u])'.val = req[u].val
      BY <2>6, AppendsValue DEF RecordAt
    <3> QED
      BY <2>6, <3>1 DEF AppendRecord, Goto, LogCallOK, Written, HoldsPos, CallTypes, ThreadsOK
  <2>7. CASE (Index(u) \/ Unindex(u) \/ Trigger(u) \/ CompareExchange(u)) /\ pc'[u] # "idle"
    BY <2>7 DEF Index, Unindex, Applied, Trigger, CompareExchange, Return, Goto, LogCallOK,
      Written, HoldsPos, CallTypes
  <2>8. CASE Read(u) \/ CallError(u)
    BY <2>2, <2>8 DEF Read, CallError, Return, Goto, CallTypes
  <2> QED
    BY <1>4, <2>1, <2>2, <2>3, <2>4, <2>5, <2>6, <2>7, <2>8 DEF Step
<1> QED
  BY <1>1, <1>2, <1>3, <1>4, FrameThread

\* Between its write and its effect on the index a call keeps its request and
\* its position.
LEMMA LoggedStays ==
  ASSUME IoErrors = FALSE, IInv, Next, ~Crash, NEW u \in Threads, LogCallOK(u),
         ~(AppendRecord(u) \/ Index(u) \/ Unindex(u))
  PROVE  /\ Logged(u)' <=> Logged(u)
         /\ Logged(u) => req'[u] = req[u] /\ pos'[u] = pos[u]
<1> USE DEF IInv, TypeOK
<1>1. CASE Same(u)
  BY <1>1 DEF Same, Logged, Written, HoldsPos
<1>2. CASE Call(u)
  BY <1>2 DEF Call, CallPut, CallDelete, CallGet, Begin, Goto, Logged, Written, HoldsPos, CallTypes
<1>3. CASE Step(u)
  <2>1. CASE MergeStep(u)
    <3>1. pc[u] \in MergePCs
      BY <2>1 DEF MergeStep, Select, ScanOpen, ScanRecord, BeginCommit, Rename, SwapActive,
        Recheck, Relocate, BeginCleanup, RemoveCandidate, EndMerge, MergeError, RenameError,
        Release, MergePCs, CommitPCs
    <3>2. pc'[u] \in MergePCs \cup {"idle"}
      BY <2>1, MergeStepPc DEF Release, Return, Goto, CallTypes
    <3> QED
      BY <3>1, <3>2 DEF Logged, Written, HoldsPos, MergePCs, CommitPCs
  <2>2. CASE Lookup(u) \/ Read(u) \/ Check(u) \/ Reread(u)
    BY <2>2 DEF Lookup, Read, Check, Reread, ReadOldPosition, Return, Goto, Logged, Written,
      HoldsPos, CallTypes, ThreadsOK
  <2>3. CASE ReadOld(u) \/ Count(u)
    BY <2>3 DEF ReadOld, ReadOldPosition, Count, Goto, Logged, Written, HoldsPos, CallTypes,
      ThreadsOK
  <2>4. CASE Ensure(u) \/ Rotate(u) \/ Trigger(u) \/ CompareExchange(u) \/ CallError(u)
    BY <2>4 DEF Ensure, Rotate, Trigger, CompareExchange, CallError, Return, Goto, Logged,
      Written, HoldsPos, CallTypes
  <2> QED
    BY <1>3, <2>1, <2>2, <2>3, <2>4 DEF Step
<1> QED
  BY <1>1, <1>2, <1>3, FrameThread

\* A new file holds no record of any key.
LEMMA NewFileLog ==
  ASSUME StoreTypes, StoreTypes', disk' = disk, NEW n \in FileIds, disk[n] = EmptyFile,
         onDisk' = onDisk \cup {n}, NEW k
  PROVE  RecordsOf(k)' = RecordsOf(k) /\ LiveLast(RecordsOf(k))' = LiveLast(RecordsOf(k))
<1>1. ASSUME NEW p PROVE p \in RecordsOf(k)' <=> p \in RecordsOf(k)
  <2>1. IsPlace(disk', onDisk', k, p) <=> IsPlace(disk, onDisk, k, p)
    <3>1. p.file = n => p.off \notin 1 .. Len(disk[p.file].recs)
      BY DEF EmptyFile
    <3> QED
      BY <3>1 DEF IsPlace
  <2> QED
    BY <2>1, RecordPlaces, RecordPlacesNext
<1>2. RecordsOf(k)' = RecordsOf(k)
  BY <1>1
<1>3. \A S : LiveLast(S)' = LiveLast(S)
  BY DEF LiveLast, RecordAt
<1> QED
  BY <1>2, <1>3

\* A record written to the active file comes after all others.
LEMMA AppendLog ==
  ASSUME IInv, OrderOK, TopOK, NEW t \in Threads, AppendRecord(t), StoreTypes', NEW k \in Keys
  PROVE  LiveLast(RecordsOf(k))' =
           IF k # req[t].key THEN LiveLast(RecordsOf(k))
           ELSE IF req[t].val = Deleted THEN {}
           ELSE {Pos(active, WriteOffset(disk[active]))}
<1> USE DEF IInv, TypeOK
<1>1. PICK r, p, n : /\ r = [key |-> req[t].key, val |-> req[t].val] /\ n = Len(disk[active].recs)
                     /\ p = Pos(active, n + 1)
  OBVIOUS
<1>2. StoreTypes /\ disk[active] \in File /\ active \in FileIds /\ n \in Nat /\ active \in Nat
  <2>1. StoreTypes /\ disk[active] \in File /\ active \in FileIds
    BY DEF StoreTypes
  <2>2. disk[active].recs \in Seq(Record)
    BY <2>1 DEF File
  <2> QED
    BY <1>1, <2>1, <2>2 DEF FileIds
<1>3. /\ disk'[active] = Write(disk[active], r) /\ UNCHANGED <<onDisk, active>>
      /\ \A f \in FileIds : f # active => disk'[f] = disk[f]
  BY <1>1, <1>2 DEF AppendRecord, Appended, StoreTypes
<1>4. /\ Len(disk'[active].recs) = n + 1 /\ disk'[active].recs[n + 1] = r
      /\ \A i \in 1 .. n : disk'[active].recs[i] = disk[active].recs[i]
  BY <1>1, <1>2, <1>3, WriteGrows
<1>5. active \in onDisk /\ \A f \in onDisk : f <= active
  <2>1. status = "up" /\ ~Renaming
    BY DEF AppendRecord, Renaming, Committing, CommitPCs, ThreadsOK
  <2> QED
    BY <2>1 DEF OrderOK, TopOK
<1>6. p.file = active /\ p.off = n + 1
  BY <1>1 DEF Pos
<1>7. ASSUME NEW q PROVE q \in RecordsOf(k)' <=> q \in RecordsOf(k) \/ (q = p /\ k = r.key)
  <2>1. IsPlace(disk', onDisk', k, q) <=> IsPlace(disk, onDisk, k, q) \/ (q = p /\ k = r.key)
    <3>1. CASE q.file # active
      BY <1>2, <1>3, <1>6, <3>1 DEF IsPlace, StoreTypes
    <3>2. CASE q.file = active /\ q.off = n + 1
      <4>1. ~IsPlace(disk, onDisk, k, q)
        BY <1>1, <1>2, <3>2 DEF IsPlace
      <4>2. IsPlace(disk', onDisk', k, p) <=> k = r.key
        <5>1. p = Pos(p.file, p.off) /\ p.file \in onDisk' /\ p.file \in Nat
          BY <1>1, <1>2, <1>3, <1>5, <1>6
        <5>2. p.off \in Nat /\ 1 <= p.off /\ p.off \in 1 .. Len(disk'[p.file].recs)
          BY <1>2, <1>4, <1>6
        <5>3. disk'[p.file].recs[p.off].key = r.key
          BY <1>4, <1>6
        <5> QED
          BY <5>1, <5>2, <5>3 DEF IsPlace
      <4>3. IsPlace(disk', onDisk', k, q) => q = p
        BY <1>1, <3>2 DEF IsPlace
      <4> QED
        BY <4>1, <4>2, <4>3
    <3>3. CASE q.file = active /\ q.off # n + 1
      <4>1. q.off \in 1 .. n + 1 <=> q.off \in 1 .. n
        BY <1>2, <3>3
      <4> QED
        BY <1>1, <1>2, <1>3, <1>4, <1>6, <3>3, <4>1 DEF IsPlace
    <3> QED
      BY <3>1, <3>2, <3>3
  <2> QED
    BY <1>2, <2>1, RecordPlaces, RecordPlacesNext
<1>8. ASSUME NEW q \in RecordsOf(k)
      PROVE  RecordAt(q)' = RecordAt(q) /\ Before(q, p) /\ ~Before(p, q)
  <2>1. IsPlace(disk, onDisk, k, q)
    BY <1>2, <1>8, RecordPlaces
  <2>2. q.file \in FileIds /\ q.file <= active /\ q.off \in 1 .. Len(disk[q.file].recs)
    BY <1>2, <1>5, <2>1 DEF IsPlace, StoreTypes
  <2>3. RecordAt(q)' = RecordAt(q)
    <3>1. CASE q.file = active
      BY <1>1, <1>4, <2>2, <3>1 DEF RecordAt
    <3>2. CASE q.file # active
      BY <1>3, <2>2, <3>2 DEF RecordAt
    <3> QED
      BY <3>1, <3>2
  <2>4. q.file = active => q.off <= n
    BY <1>1, <1>2, <2>1, <2>2
  <2> QED
    BY <1>2, <1>6, <2>1, <2>2, <2>3, <2>4 DEF Before, IsPlace
<1>9. RecordAt(p)' = r /\ ~Before(p, p)
  BY <1>2, <1>4, <1>6 DEF RecordAt, Before
<1>10. CASE k # r.key
  <2>1. RecordsOf(k)' = RecordsOf(k)
    BY <1>7, <1>10
  <2> QED
    BY <1>1, <1>8, <1>10, <2>1 DEF LiveLast
<1>11. CASE k = r.key
  <2>1. RecordsOf(k)' = RecordsOf(k) \cup {p}
    BY <1>7, <1>11
  <2>2. LiveLast(RecordsOf(k))' = IF r.val = Deleted THEN {} ELSE {p}
    BY <1>8, <1>9, <2>1 DEF LiveLast
  <2> QED
    BY <1>1, <1>11, <2>2 DEF WriteOffset
<1> QED
  BY <1>1, <1>10, <1>11

\* As long as the directory stays, the log says the same.
LEMMA SameLog ==
  ASSUME UNCHANGED <<disk, onDisk>>, NEW k
  PROVE  LiveLast(RecordsOf(k))' = LiveLast(RecordsOf(k))
BY DEF LiveLast, RecordsOf, RecordAt

\* Only one thread is ever between its write and its effect.
LEMMA OneLogged ==
  ASSUME SingleWriter, RolesOK, NEW t \in Threads, NEW u \in Threads, ~Quiet(t), Logged(u)
  PROVE  u = t
<1>1. ~Quiet(u)
  BY DEF Logged, Written, HoldsPos, Quiet
<1> QED
  BY <1>1 DEF SingleWriter, RolesOK

\* A position outside a set of records and after all of them is the last one with
\* them, and decides.
LEMMA AddedLog ==
  ASSUME NEW k, NEW p, RecordsOf(k)' = RecordsOf(k) \cup {p}, ~Before(p, p),
         \A q \in RecordsOf(k) : RecordAt(q)' = RecordAt(q) /\ Before(q, p) /\ ~Before(p, q)
  PROVE  LiveLast(RecordsOf(k))' = IF RecordAt(p)'.val = Deleted THEN {} ELSE {p}
BY DEF LiveLast

\* A key with records in the log has a last one.
LEMMA HasLast ==
  ASSUME StoreTypes, NEW k, RecordsOf(k) # {}
  PROVE  \E q \in RecordsOf(k) : \A p \in RecordsOf(k) : ~Before(q, p)
<1> DEFINE Files == {f \in FileIds : \E p \in RecordsOf(k) : p.file = f}
           Offsets(f) == {i \in 1 .. Len(disk[f].recs) : Pos(f, i) \in RecordsOf(k)}
<1>1. ASSUME NEW p \in RecordsOf(k)
      PROVE  /\ p.file \in Files /\ p.file \in FileIds /\ p.file \in Nat /\ p.off \in Nat
             /\ p = Pos(p.file, p.off) /\ p.off \in Offsets(p.file)
  BY <1>1, RecordPlaces DEF IsPlace, StoreTypes
<1>2. PICK f \in Files : \A g \in Files : g <= f
  <2>1. IsFiniteSet(Files) /\ Files # {} /\ Files \subseteq Nat
    <3>1. IsFiniteSet(FileIds) /\ Files \subseteq FileIds /\ FileIds \subseteq Nat
      BY FS_Interval DEF FileIds
    <3>2. Files # {}
      BY <1>1
    <3> QED
      BY <3>1, <3>2, FS_Subset
  <2> HIDE DEF Files
  <2>2. PICK w : w = [g \in Files |-> g]
    OBVIOUS
  <2>3. w \in [Files -> Nat]
    BY <2>1, <2>2
  <2>4. PICK f \in Files : \A g \in Files : w[g] <= w[f]
    BY <2>1, <2>3, HasLargest
  <2> QED
    BY <2>2, <2>4
<1>3. PICK i \in Offsets(f) : \A j \in Offsets(f) : j <= i
  <2> DEFINE S == Offsets(f)
  <2>1. IsFiniteSet(S) /\ S # {} /\ S \subseteq Nat
    <3>1. PICK n \in Nat : n = Len(disk[f].recs)
      BY <1>2 DEF StoreTypes, File
    <3>2. IsFiniteSet(1 .. n)
      BY FS_Interval
    <3>3. S \subseteq 1 .. n
      BY <3>1
    <3>4. S # {}
      BY <1>1, <1>2
    <3>5. S \subseteq Nat
      BY <3>1, <3>3
    <3> HIDE DEF S
    <3> QED
      BY <3>2, <3>3, <3>4, <3>5, FS_Subset
  <2> HIDE DEF S
  <2>2. PICK w : w = [g \in S |-> g]
    OBVIOUS
  <2>3. w \in [S -> Nat]
    BY <2>1, <2>2
  <2>4. PICK i \in S : \A j \in S : w[j] <= w[i]
    BY <2>1, <2>3, HasLargest
  <2>5. \A j \in S : j <= i
    BY <2>2, <2>4
  <2> QED
    BY <2>5 DEF S
<1>4. ASSUME NEW p \in RecordsOf(k) PROVE ~Before(Pos(f, i), p)
  <2>1. p.file <= f /\ (p.file = f => p.off <= i)
    BY <1>1, <1>2, <1>3, <1>4
  <2>2. f \in Nat /\ i \in Nat /\ p.file \in Nat /\ p.off \in Nat
    BY <1>1, <1>2, <1>3, <1>4 DEF FileIds
  <2> QED
    BY <2>1, <2>2 DEF Before, Pos
<1> QED
  BY <1>3, <1>4

\* The last position of a key is the live one of its records, or Nil.
LEMMA OnlyLast ==
  ASSUME StoreTypes, NEW k
  PROVE  LiveLast(RecordsOf(k)) = AsSet(LastPosition(k))
<1> DEFINE live == LiveLast(RecordsOf(k))
<1>1. CASE live = {}
  BY <1>1 DEF LastPosition, AsSet
<1>2. ASSUME NEW p \in live PROVE live = AsSet(LastPosition(k))
  <2>1. live = {p}
    BY <1>2, OneLast
  <2>2. p \in RecordsOf(k)
    BY <1>2 DEF LiveLast
  <2>3. p # Nil
    <3>1. IsPlace(disk, onDisk, k, p)
      BY <2>2, RecordPlaces
    <3>2. p \in Position
      BY <3>1 DEF IsPlace, Pos, Position, StoreTypes
    <3> QED
      BY <3>2
  <2> HIDE DEF live
  <2>4. (CHOOSE q \in live : TRUE) = p
    BY <2>1
  <2>5. LastPosition(k) = p
    BY <2>1, <2>4 DEF LastPosition, live
  <2> QED
    BY <2>1, <2>3, <2>5 DEF AsSet
<1> QED
  BY <1>1, <1>2

\* The record the log should end with for a key is the one get answers from, or a
\* copy of it.
LEMMA LatestView ==
  ASSUME IInv, SInv, NEW k \in Keys
  PROVE  ValueAt(Latest(k)) = View(k)
<1> USE DEF IInv, TypeOK
<1>1. CASE Latest(k) = index[k]
  BY <1>1 DEF View
<1>2. CASE Latest(k) # index[k]
  <2>1. /\ Latest(k) = Rebase(newPos[k]) /\ newPos[k] # Nil /\ newPos[k].file < moved
        /\ Relocating
    BY <1>2 DEF Latest
  <2>2. PICK t \in Threads : pc[t] \in {"rename", "recheck"}
    BY <2>1 DEF Relocating
  <2>3. newPos[k].file \in FileIds /\ Copy(k).val = View(k)
    BY <2>1, <2>2 DEF MergeTypes, Position, SInv, CopiedAt
  <2>4. disk[start + newPos[k].file] = tmp[newPos[k].file]
    BY <2>1, <2>2, <2>3 DEF CommitOK
  <2>5. Rebase(newPos[k]).file = start + newPos[k].file /\ Rebase(newPos[k]).off = newPos[k].off
    BY DEF Rebase, Pos
  <2>6. Rebase(newPos[k]) # Nil
    <3>1. newPos[k].off \in Nat \ {0}
      BY <2>1 DEF MergeTypes, Position
    <3>2. start + newPos[k].file \in FileIds
      <4>1. start + moved \in {lastId, lastId + 1}
        BY <2>2 DEF CommitOK
      <4>2. start \in Nat /\ moved \in Nat /\ lastId \in 0 .. MaxFileId /\ newPos[k].file \in Nat
        BY <2>3 DEF MergeTypes, StoreTypes, FileIds
      <4> QED
        BY <2>1, <4>1, <4>2 DEF FileIds
    <3>3. Rebase(newPos[k]) \in Position
      BY <3>1, <3>2 DEF Rebase, Pos, Position
    <3> QED
      BY <3>3
  <2> QED
    BY <2>1, <2>3, <2>4, <2>5, <2>6 DEF ValueAt, RecordAt, Copy
<1> QED
  BY <1>1, <1>2

\* Which thread relocates follows from where the merging one is.
LEMMA RelocatingIs ==
  ASSUME IInv, NEW t \in Threads, pc[t] \in MergePCs
  PROVE  Relocating <=> pc[t] \in {"rename", "recheck"}
BY OneMerger DEF Relocating, MergePCs, CommitPCs

\* But for a rename, no step of a merge moves the record get answers from.
LEMMA LatestStep ==
  ASSUME IoErrors = FALSE, IInv, OnceOK, Next, NEW t \in Threads, MergeStep(t), ~Rename(t),
         NEW k \in Keys
  PROVE  Latest(k)' = Latest(k)
<1> USE DEF IInv, TypeOK
<1>1. pc[t] \in MergePCs
  BY DEF MergeStep, Select, ScanOpen, ScanRecord, BeginCommit, Rename, SwapActive, Recheck,
    Relocate, BeginCleanup, RemoveCandidate, EndMerge, MergeError, RenameError, Release,
    MergePCs, CommitPCs
<1>2. Relocating <=> pc[t] \in {"rename", "recheck"}
  BY <1>1, RelocatingIs
<1>3. Relocating' <=> pc'[t] \in {"rename", "recheck"}
  <2>1. ASSUME NEW u \in Threads, u # t PROVE pc'[u] \notin {"rename", "recheck"}
    <3>1. pc'[u] = pc[u]
      BY <2>1, OthersSame DEF Step, Same
    <3>2. pc[u] \notin MergePCs
      BY <1>1, <2>1, OneMerger
    <3> QED
      BY <3>1, <3>2 DEF MergePCs, CommitPCs
  <2> QED
    BY <2>1 DEF Relocating
<1>4. CASE Select(t) \/ ScanOpen(t) \/ ScanRecord(t) \/ EndMerge(t) \/ Release(t)
  <2>1. index' = index /\ pc[t] \notin {"rename", "recheck"} /\ pc'[t] \notin {"rename", "recheck"}
    BY <1>4 DEF Select, ScanOpen, ScanRecord, EndMerge, Release, Return, Goto, CallTypes
  <2> QED
    BY <1>2, <1>3, <2>1 DEF Latest
<1>5. CASE BeginCommit(t)
  <2>1. UNCHANGED <<index, newPos>> /\ moved' = 0 /\ pc[t] = "scan"
    BY <1>5 DEF BeginCommit
  <2>2. newPos[k] # Nil => ~(newPos[k].file < 0)
    BY DEF MergeTypes, Position, FileIds
  <2> QED
    BY <1>2, <2>1, <2>2 DEF Latest
<1>6. CASE SwapActive(t)
  BY <1>2, <1>3, <1>6 DEF SwapActive, Goto, CallTypes, Latest, Rebase
<1>7. CASE Recheck(t)
  <2>1. pc[t] = "recheck" /\ pc' = pc /\ UNCHANGED <<index, start, moved>>
    BY <1>7 DEF Recheck
  <2>2. \A j \in Keys : newPos[j] # Nil => StillCandidate(index[j])
    BY <2>1 DEF OnceOK, CopiedOnceAt, InCandidate, StillCandidate
  <2>3. newPos' = newPos
    BY <1>7, <2>2 DEF Recheck
  <2> QED
    BY <1>2, <1>3, <2>1, <2>3 DEF Latest, Rebase
<1>8. CASE Relocate(t)
  <2>1. PICK j \in moving : /\ index' = [index EXCEPT ![j] = Rebase(newPos[j])]
                            /\ newPos' = [newPos EXCEPT ![j] = Nil]
    BY <1>8 DEF Relocate
  <2>2. pc[t] = "recheck" /\ pc' = pc /\ UNCHANGED <<start, moved>>
    BY <1>8 DEF Relocate
  <2>3. CASE k # j
    BY <1>2, <1>3, <2>1, <2>2, <2>3 DEF Latest, Rebase, StoreTypes, MergeTypes
  <2>4. CASE k = j
    <3>1. newPos[k] # Nil /\ newPos[k].file < moved
      <4>1. newPos[k] # Nil /\ newPos[k].file <= cur /\ moved = cur + 1
        BY <2>1, <2>2, <2>4 DEF CopiesOK, CommitOK
      <4>2. newPos[k].file \in Nat /\ cur \in Nat
        BY <4>1 DEF MergeTypes, Position, FileIds
      <4> QED
        BY <4>1, <4>2
    <3>2. newPos'[k] = Nil /\ index'[k] = Rebase(newPos[k])
      BY <2>1, <2>4 DEF StoreTypes, MergeTypes
    <3> QED
      BY <1>2, <2>2, <3>1, <3>2 DEF Latest
  <2> QED
    BY <2>3, <2>4
<1>9. CASE BeginCleanup(t)
  <2>1. newPos = NoIndex /\ index' = index /\ pc'[t] = "cleanup"
    BY <1>9 DEF BeginCleanup, Goto, CallTypes
  <2> QED
    BY <1>3, <2>1 DEF Latest, NoIndex
<1>10. CASE RemoveCandidate(t)
  BY <1>2, <1>3, <1>10 DEF RemoveCandidate, Latest
<1> QED
  BY <1>4, <1>5, <1>6, <1>7, <1>8, <1>9, <1>10 DEF MergeStep, MergeError, RenameError

\* A renamed file holds the copies of the keys whose new position is in it.
LEMMA RenamedPlaces ==
  ASSUME IInv, OnceOK, OrderOK, NEW t \in Threads, Rename(t), StoreTypes', NEW k \in Keys, NEW q
  PROVE  q \in RecordsOf(k)' <=>
           \/ q \in RecordsOf(k)
           \/ newPos[k] # Nil /\ newPos[k].file = moved /\ q = Rebase(newPos[k])
<1> USE DEF IInv, TypeOK
<1>1. PICK n : n = MergedId
  OBVIOUS
<1>2. /\ pc[t] = "rename" /\ n = lastId + 1 /\ n = start + moved /\ n \in FileIds /\ n \in Nat
      /\ moved \in FileIds /\ moved \in Nat /\ status = "up" /\ n \notin onDisk
  <2>1. pc[t] = "rename" /\ n = lastId + 1 /\ n = start + moved /\ n \in FileIds /\ moved <= cur
    BY <1>1, FreshIds DEF Rename, MergedId
  <2>2. status = "up" /\ \A f \in onDisk : f <= lastId
    BY <2>1 DEF ThreadsOK, OrderOK
  <2>3. moved \in Nat /\ cur \in 0 .. MaxFileId /\ lastId \in Nat
    BY DEF MergeTypes, StoreTypes, FileIds
  <2>4. moved \in FileIds /\ n \notin onDisk /\ n \in Nat
    BY <2>1, <2>2, <2>3 DEF FileIds
  <2> QED
    BY <2>1, <2>2, <2>3, <2>4
<1>3. /\ onDisk' = onDisk \cup {n} /\ disk'[n] = tmp[moved]
      /\ \A f \in FileIds : f # n => disk'[f] = disk[f]
  BY <1>1, <1>2 DEF Rename, StoreTypes
<1>4. CASE q.file # n
  <2>1. IsPlace(disk', onDisk', k, q) <=> IsPlace(disk, onDisk, k, q)
    BY <1>3, <1>4 DEF IsPlace, StoreTypes
  <2>2. newPos[k].file = moved => Rebase(newPos[k]).file = n
    BY <1>2 DEF Rebase, Pos
  <2> QED
    BY <1>4, <2>1, <2>2, RecordPlaces, RecordPlacesNext
<1>5. CASE q.file = n
  <2>1. ~IsPlace(disk, onDisk, k, q)
    BY <1>2, <1>5 DEF IsPlace
  <2>2. tmp[moved].recs \in Seq(Record)
    BY <1>2 DEF MergeTypes, File
  <2>3. ASSUME IsPlace(disk', onDisk', k, q)
        PROVE  newPos[k] # Nil /\ newPos[k].file = moved /\ q = Rebase(newPos[k])
    <3>1. /\ q = Pos(n, q.off) /\ q.off \in Nat \ {0} /\ q.off \in 1 .. Len(tmp[moved].recs)
          /\ tmp[moved].recs[q.off].key = k
      BY <1>3, <1>5, <2>3 DEF IsPlace
    <3>2. newPos[k] = Pos(moved, q.off)
      BY <1>2, <2>2, <3>1 DEF OnceOK, CopiedOnceAt
    <3>3. Pos(moved, q.off) \in Position
      BY <1>2, <3>1 DEF Position, Pos
    <3> QED
      BY <1>2, <3>1, <3>2, <3>3 DEF Rebase, Pos
  <2>4. ASSUME newPos[k] # Nil, newPos[k].file = moved, q = Rebase(newPos[k])
        PROVE  IsPlace(disk', onDisk', k, q)
    <3>1. /\ newPos[k].off \in Nat \ {0} /\ newPos[k].off <= Len(tmp[moved].recs)
          /\ tmp[moved].recs[newPos[k].off].key = k
      BY <2>4 DEF CopiesOK, MergeTypes, Position
    <3>2. q = Pos(n, newPos[k].off) /\ q.off = newPos[k].off
      BY <1>2, <2>4 DEF Rebase, Pos
    <3>3. newPos[k].off \in 1 .. Len(tmp[moved].recs)
      BY <2>2, <3>1
    <3> QED
      BY <1>2, <1>3, <1>5, <3>1, <3>2, <3>3 DEF IsPlace
  <2> QED
    BY <1>2, <2>1, <2>3, <2>4, RecordPlaces, RecordPlacesNext
<1> QED
  BY <1>4, <1>5

\* A rename adds the copies of a file to the end of the log.
LEMMA RenameLog ==
  ASSUME IInv, OnceOK, OrderOK, NEW t \in Threads, Rename(t), StoreTypes', NEW k \in Keys,
         LiveLast(RecordsOf(k)) = AsSet(Latest(k))
  PROVE  LiveLast(RecordsOf(k))' = AsSet(Latest(k)')
<1> USE DEF IInv, TypeOK
<1>1. PICK n : n = MergedId
  OBVIOUS
<1>2. /\ pc[t] = "rename" /\ n = lastId + 1 /\ n = start + moved /\ n \in FileIds /\ moved \in FileIds
      /\ status = "up" /\ Relocating /\ Relocating' /\ \A f \in onDisk : f <= lastId
  <2>1. pc[t] = "rename" /\ pc' = pc /\ n = lastId + 1 /\ n = start + moved /\ n \in FileIds
        /\ moved <= cur
    BY <1>1, FreshIds DEF Rename, MergedId
  <2>2. Relocating /\ Relocating'
    BY <2>1 DEF Relocating
  <2>3. status = "up" /\ \A f \in onDisk : f <= lastId
    BY <2>1 DEF ThreadsOK, OrderOK
  <2>4. moved \in Nat /\ cur \in 0 .. MaxFileId
    BY DEF MergeTypes, FileIds
  <2>5. moved \in FileIds
    BY <2>1, <2>4 DEF FileIds
  <2> QED
    BY <2>1, <2>2, <2>3, <2>5
<1>3. /\ disk'[n] = tmp[moved] /\ \A f \in FileIds : f # n => disk'[f] = disk[f]
      /\ UNCHANGED <<index, newPos, start>> /\ moved' = moved + 1
  BY <1>1, <1>2 DEF Rename, StoreTypes
<1>4. ASSUME NEW q \in RecordsOf(k), NEW p, p.file = n
      PROVE  RecordAt(q)' = RecordAt(q) /\ Before(q, p) /\ ~Before(p, q)
  <2>1. q.file \in onDisk /\ q.file \in FileIds /\ q.file \in Nat /\ q.file <= lastId
    BY <1>2, <1>4, RecordPlaces DEF IsPlace, StoreTypes
  <2>2. lastId \in Nat
    BY DEF StoreTypes, FileIds
  <2>3. q.file < n /\ q.file # n /\ ~(n < q.file)
    BY <1>2, <2>1, <2>2
  <2> QED
    BY <1>3, <1>4, <2>1, <2>3 DEF RecordAt, Before
<1>5. CASE newPos[k] # Nil /\ newPos[k].file = moved
  <2>1. PICK p : p = Rebase(newPos[k])
    OBVIOUS
  <2>2. /\ p.file = n /\ p.off = newPos[k].off /\ p.off \in Nat \ {0} /\ p # Nil
        /\ RecordAt(p)'.val # Deleted
    <3>1. p.file = n /\ p.off = newPos[k].off /\ p = Pos(n, newPos[k].off)
      BY <1>2, <1>5, <2>1 DEF Rebase, Pos
    <3>2. newPos[k].off \in Nat \ {0} /\ tmp[moved].recs[newPos[k].off].val # Deleted
      BY <1>5 DEF CopiesOK, MergeTypes, Position
    <3>3. p # Nil
      BY <1>2, <3>1, <3>2 DEF Pos, Position
    <3> QED
      BY <1>3, <3>1, <3>2, <3>3 DEF RecordAt
  <2>3. RecordsOf(k)' = RecordsOf(k) \cup {p}
    BY <1>5, <2>1, RenamedPlaces
  <2>4. ~Before(p, p)
    BY <1>2, <2>2 DEF Before, FileIds
  <2>5. LiveLast(RecordsOf(k))' = {p}
    BY <1>4, <2>2, <2>3, <2>4, AddedLog
  <2>6. moved < moved + 1
    BY DEF MergeTypes
  <2>7. Latest(k)' = p
    BY <1>2, <1>3, <1>5, <2>1, <2>6 DEF Latest, Rebase
  <2> QED
    BY <2>2, <2>5, <2>7 DEF AsSet
<1>6. CASE ~(newPos[k] # Nil /\ newPos[k].file = moved)
  <2>1. RecordsOf(k)' = RecordsOf(k)
    BY <1>6, RenamedPlaces
  <2>2. LiveLast(RecordsOf(k))' = LiveLast(RecordsOf(k))
    <3>1. \A q \in RecordsOf(k) : RecordAt(q)' = RecordAt(q)
      <4>1. PICK p : p = Pos(n, 1)
        OBVIOUS
      <4> QED
        BY <1>4, <4>1 DEF Pos
    <3> QED
      BY <2>1, <3>1 DEF LiveLast
  <2>3. newPos[k] # Nil => (newPos[k].file < moved + 1 <=> newPos[k].file < moved)
    <3>1. newPos[k] # Nil => newPos[k].file \in Nat /\ moved \in Nat
      BY DEF MergeTypes, Position, FileIds
    <3> QED
      BY <1>6, <3>1
  <2>4. Latest(k)' = Latest(k)
    BY <1>2, <1>3, <2>3 DEF Latest, Rebase
  <2> QED
    BY <2>2, <2>4
<1> QED
  BY <1>5, <1>6

\* Of two records of a key one comes before the other.
LEMMA OneFirst ==
  ASSUME StoreTypes, NEW k, NEW p \in RecordsOf(k), NEW q \in RecordsOf(k), ~Before(p, q), ~Before(q, p)
  PROVE  p = q
<1>1. p = Pos(p.file, p.off) /\ q = Pos(q.file, q.off) /\ p.file \in Nat /\ p.off \in Nat
      /\ q.file \in Nat /\ q.off \in Nat
  BY RecordPlaces DEF IsPlace
<1>2. p.file = q.file /\ p.off = q.off
  BY <1>1 DEF Before
<1> QED
  BY <1>1, <1>2

\* A candidate is removed when no key lives in it: it holds superseded puts.
LEMMA RemoveLog ==
  ASSUME IInv, SInv, PutsOnly, NEW t \in Threads, RemoveCandidate(t), StoreTypes', NEW k \in Keys,
         LiveLast(RecordsOf(k)) = AsSet(index[k])
  PROVE  LiveLast(RecordsOf(k))' = LiveLast(RecordsOf(k))
<1> USE DEF IInv, TypeOK
<1>1. PICK f \in todo : onDisk' = onDisk \/ onDisk' = onDisk \ {f}
  BY DEF RemoveCandidate
<1>2. disk' = disk /\ pc[t] = "cleanup" /\ f \in cand /\ f \in FileIds /\ StoreTypes
  BY DEF RemoveCandidate, SInv, MergeFilesAt, MergeTypes
<1>3. CASE onDisk' = onDisk
  BY <1>2, <1>3, SameLog
<1>4. CASE onDisk' = onDisk \ {f}
  <2>1. ASSUME NEW q PROVE q \in RecordsOf(k)' <=> q \in RecordsOf(k) /\ q.file # f
    <3>1. IsPlace(disk', onDisk', k, q) <=> IsPlace(disk, onDisk, k, q) /\ q.file # f
      BY <1>2, <1>4 DEF IsPlace
    <3> QED
      BY <1>2, <3>1, RecordPlaces, RecordPlacesNext
  <2>2. \A q : RecordAt(q)' = RecordAt(q)
    BY <1>2 DEF RecordAt
  <2>3. ASSUME NEW q \in RecordsOf(k), \A p \in RecordsOf(k) : ~Before(q, p), q.file # f
        PROVE  LiveLast(RecordsOf(k))' = LiveLast(RecordsOf(k))
    <3>1. \A p \in RecordsOf(k) : ~Before(p, q) => p = q
      BY <1>2, <2>3, OneFirst
    <3>2. q \in RecordsOf(k)'
      BY <2>1, <2>3
    <3>3. \A p \in RecordsOf(k)' : p \in RecordsOf(k)
      BY <2>1
    <3>4. ASSUME NEW p PROVE p \in LiveLast(RecordsOf(k))' <=> p \in LiveLast(RecordsOf(k))
      BY <2>2, <2>3, <3>1, <3>2, <3>3 DEF LiveLast
    <3> QED
      BY <3>4
  <2>4. CASE index[k] # Nil
    <3>1. index[k] \in LiveLast(RecordsOf(k))
      BY <2>4 DEF AsSet
    <3>2. index[k].file # f
      BY <1>2, <2>4 DEF SInv, CoveredAt, InCandidate
    <3> QED
      BY <2>3, <3>1, <3>2 DEF LiveLast
  <2>5. CASE index[k] = Nil /\ RecordsOf(k) = {}
    <3>1. RecordsOf(k)' = {}
      BY <2>1, <2>5
    <3> QED
      BY <2>5, <3>1 DEF LiveLast
  <2>6. CASE index[k] = Nil /\ RecordsOf(k) # {}
    <3>1. PICK q \in RecordsOf(k) : \A p \in RecordsOf(k) : ~Before(q, p)
      BY <1>2, <2>6, HasLast
    <3>2. RecordAt(q).val = Deleted
      BY <2>6, <3>1 DEF AsSet, LiveLast
    <3>3. q.file = f => TombstoneIn(f)
      <4>1. q.off \in 1 .. Len(disk[q.file].recs)
        BY <1>2, <3>1, RecordPlaces DEF IsPlace
      <4>2. disk[f].recs \in Seq(Record)
        BY <1>2 DEF StoreTypes, File
      <4> QED
        BY <3>2, <4>1, <4>2 DEF TombstoneIn, RecordAt
    <3> QED
      BY <1>2, <2>3, <3>1, <3>3 DEF PutsOnly
  <2> QED
    BY <2>4, <2>5, <2>6
<1> QED
  BY <1>1, <1>3, <1>4

\* A merge of files of puts keeps the log in step: at the end of it are the
\* records get answers from, or their copies.
LEMMA MergeLog ==
  ASSUME IoErrors = FALSE, IInv, SInv, OnceOK, OrderOK, TopOK, PutsOnly, Next,
         NEW t \in Threads, MergeStep(t), NEW k \in Keys, LiveLast(RecordsOf(k)) = AsSet(Latest(k))
  PROVE  LiveLast(RecordsOf(k))' = AsSet(Latest(k)')
<1> USE DEF IInv, TypeOK
<1>1. StoreTypes /\ StoreTypes'
  BY StoreTypesStep
<1>2. CASE Rename(t)
  BY <1>1, <1>2, RenameLog
<1>3. CASE RemoveCandidate(t)
  <2>1. pc[t] = "cleanup"
    BY <1>3 DEF RemoveCandidate
  <2>2. Latest(k) = index[k]
    BY <2>1, RelocatingIs DEF Latest, MergePCs, CommitPCs
  <2>3. Latest(k)' = Latest(k)
    BY <1>3, LatestStep DEF Rename, RemoveCandidate
  <2> QED
    BY <1>1, <1>3, <2>2, <2>3, RemoveLog
<1>4. CASE SwapActive(t)
  <2>1. PICK n : n = NewActiveId
    OBVIOUS
  <2>2. disk' = disk /\ onDisk' = onDisk \cup {n} /\ n \in FileIds /\ n = lastId + 1 /\ status = "up"
    BY <1>4, <2>1, FreshIds DEF SwapActive
  <2>3. lastId < n
    BY <2>2 DEF StoreTypes, FileIds
  <2>4. disk[n] = EmptyFile
    BY <2>2, <2>3, EmptyAbove
  <2>5. LiveLast(RecordsOf(k))' = LiveLast(RecordsOf(k))
    BY <1>1, <2>2, <2>4, NewFileLog
  <2>6. ~Rename(t)
    BY <1>4 DEF Rename, SwapActive, MergeTypes, FileIds
  <2>7. Latest(k)' = Latest(k)
    BY <2>6, LatestStep
  <2> QED
    BY <2>5, <2>7
<1>5. CASE ~Rename(t) /\ ~RemoveCandidate(t) /\ ~SwapActive(t)
  <2>1. UNCHANGED <<disk, onDisk>>
    BY <1>5 DEF MergeStep, Select, ScanOpen, ScanRecord, BeginCommit, Recheck, Relocate,
      BeginCleanup, EndMerge, MergeError, RenameError, Release
  <2> QED
    BY <1>5, <2>1, SameLog, LatestStep
<1> QED
  BY <1>2, <1>3, <1>4, <1>5

\* Calls neither enter nor leave the commit of a merge.
LEMMA RelocatingKeeps ==
  ASSUME IInv, Next, ~Crash, \A u \in Threads : ~MergeStep(u)
  PROVE  Relocating' <=> Relocating
<1> USE DEF IInv, TypeOK
<1>1. ASSUME NEW u \in Threads
      PROVE  pc'[u] \in {"rename", "recheck"} <=> pc[u] \in {"rename", "recheck"}
  <2>1. CASE Same(u)
    BY <2>1 DEF Same
  <2>2. CASE Call(u)
    BY <2>2 DEF Call, CallPut, CallDelete, CallGet, Begin, Goto, CallTypes
  <2>3. CASE Step(u)
    BY <2>3 DEF Step, Lookup, Read, Check, Reread, ReadOld, ReadOldPosition, Count, Ensure,
      Rotate, AppendRecord, CallError, Index, Unindex, Applied, Trigger, CompareExchange,
      Return, Goto, CallTypes
  <2> QED
    BY <2>1, <2>2, <2>3, FrameThread
<1> QED
  BY <1>1 DEF Relocating

\* No call moves the record get answers from, but where it changes the index.
LEMMA LatestKeeps ==
  ASSUME IInv, Next, ~Crash, \A u \in Threads : ~MergeStep(u), NEW k \in Keys, index'[k] = index[k]
  PROVE  Latest(k)' = Latest(k)
<1>1. UNCHANGED mergeVars
  BY FrameMerge
<1> QED
  BY <1>1, RelocatingKeeps DEF Latest, Rebase, mergeVars

\* While another thread is in a put or a delete no merge relocates.
LEMMA OneRelocates ==
  ASSUME SingleWriter, RolesOK, NEW t \in Threads, ~Quiet(t), pc[t] \notin {"rename", "recheck"}
  PROVE  ~Relocating
<1> SUFFICES ASSUME NEW u \in Threads, pc[u] \in {"rename", "recheck"} PROVE FALSE
  BY DEF Relocating
<1>1. ~Quiet(u)
  BY DEF Quiet
<1> QED
  BY <1>1 DEF SingleWriter, RolesOK

\* When the writer takes a step of a call, no merge does.
LEMMA EffectAlone ==
  ASSUME SingleWriter, RolesOK, IInv, NEW t \in Threads, status' = "up",
         AppendRecord(t) \/ Index(t) \/ Unindex(t)
  PROVE  ~Crash /\ (\A u \in Threads : ~MergeStep(u))
<1>1. ~Crash
  BY DEF Crash
<1>2. ASSUME NEW u \in Threads, MergeStep(u) PROVE FALSE
  <2>1. ~Quiet(t) /\ pc[t] \notin MergePCs
    BY DEF AppendRecord, Index, Unindex, Quiet, MergePCs, CommitPCs
  <2>2. pc[u] \in MergePCs
    BY <1>2 DEF MergeStep, Select, ScanOpen, ScanRecord, BeginCommit, Rename, SwapActive,
      Recheck, Relocate, BeginCleanup, RemoveCandidate, EndMerge, MergeError, RenameError,
      Release, MergePCs, CommitPCs
  <2>3. ~Quiet(u)
    BY <2>2 DEF Quiet, MergePCs, CommitPCs
  <2> QED
    BY <2>1, <2>2, <2>3 DEF SingleWriter, RolesOK
<1> QED
  BY <1>1, <1>2

\* The steps that change what the log says, or what it should say.
LEMMA FrameLog ==
  ASSUME IoErrors = FALSE, IInv, OrderOK, TopOK, Next, status' = "up"
  PROVE  \/ status = "loading"
         \/ \E t \in Threads : AppendRecord(t) \/ Index(t) \/ Unindex(t)
         \/ status = "up" /\ ~Crash /\ \E t \in Threads : MergeStep(t)
         \/ /\ status = "up" /\ index' = index /\ ~Crash
            /\ \A k \in Keys : LiveLast(RecordsOf(k))' = LiveLast(RecordsOf(k))
            /\ \A t \in Threads : ~(AppendRecord(t) \/ Index(t) \/ Unindex(t) \/ MergeStep(t))
<1> USE DEF IInv, TypeOK
<1>1. status \in {"loading", "up"} /\ ~Crash /\ (status = "up" => ~Open)
  <2>1. ASSUME NEW t \in Threads, Call(t) \/ Step(t) PROVE status = "up"
    BY <2>1, StatusStep
  <2> QED
    BY <2>1 DEF Next, Open, OpenFiles, LoadRecord, LoadFileEnd, Crash, Finished, vars
<1>2. SUFFICES ASSUME status = "up",
                      \A t \in Threads : ~(AppendRecord(t) \/ Index(t) \/ Unindex(t) \/ MergeStep(t))
               PROVE  /\ index' = index
                      /\ \A k \in Keys : LiveLast(RecordsOf(k))' = LiveLast(RecordsOf(k))
  BY <1>1
<1>3. index' = index
  <2>1. \A t \in Threads : ~Relocate(t)
    BY <1>2 DEF MergeStep
  <2> QED
    BY <1>1, <1>2, <2>1, FrameIndex DEF Open
<1>4. UNCHANGED <<disk, onDisk>> \/ \E t \in Threads : Rotate(t) /\ ~UNCHANGED onDisk
  <2>1. \A t \in Threads : Rotate(t) => disk' = disk
    BY DEF Rotate
  <2>2. \A t \in Threads : ~(Rename(t) \/ SwapActive(t) \/ RemoveCandidate(t))
    BY <1>2 DEF MergeStep
  <2> QED
    BY <1>1, <1>2, <2>1, <2>2, FrameTop
<1>5. ASSUME NEW t \in Threads, Rotate(t), onDisk' # onDisk, NEW k \in Keys
      PROVE  LiveLast(RecordsOf(k))' = LiveLast(RecordsOf(k))
  <2>1. disk' = disk /\ onDisk' = onDisk \cup {lastId + 1} /\ lastId + 1 \in FileIds
    BY <1>5 DEF Rotate, NextFileId
  <2>2. lastId < lastId + 1
    BY DEF StoreTypes, FileIds
  <2>3. disk[lastId + 1] = EmptyFile
    BY <1>2, <2>1, <2>2, EmptyAbove
  <2>4. StoreTypes /\ StoreTypes'
    BY StoreTypesStep
  <2> QED
    BY <2>1, <2>3, <2>4, NewFileLog
<1> QED
  BY <1>3, <1>4, <1>5, SameLog

\* The writer appends: its key awaits the index.
LEMMA AppendLogged ==
  ASSUME SingleWriter, RolesOK, IInv, OrderOK, TopOK, LoggedOK, Next,
         NEW t \in Threads, AppendRecord(t), LogCallOK(t)
  PROVE  LoggedOK'
<1> USE DEF IInv, TypeOK
<1>1. /\ status = "up" /\ index' = index /\ pc[t] = "append" /\ req' = req /\ req[t].key \in Keys
      /\ req[t].op \in {"put", "delete"} /\ (req[t].op = "put" <=> req[t].val # Deleted)
  BY DEF AppendRecord, ThreadsOK, Request, LogCallOK
<1>2. \A u \in Threads : ~Logged(u)
  <2>1. ~Quiet(t) /\ ~Logged(t)
    BY <1>1 DEF Quiet, Logged, Written, HoldsPos
  <2> QED
    BY <2>1, OneLogged
<1>3. \A u \in Threads : u # t => ~Logged(u)'
  BY <1>2, OthersSame DEF Same, Logged, Written, HoldsPos, Step
<1>4. Logged(t)' /\ (req[t].op = "put" => pos'[t] = Pos(active, WriteOffset(disk[active])))
  BY <1>1 DEF AppendRecord, Goto, Logged, Written, HoldsPos, CallTypes
<1>5. Pos(active, WriteOffset(disk[active])) # Nil
  <2>1. disk[active].recs \in Seq(Record) /\ active \in FileIds
    BY DEF StoreTypes, File
  <2>2. Len(disk[active].recs) + 1 \in Nat \ {0}
    BY <2>1
  <2> QED
    BY <2>1, <2>2 DEF Position, Pos, WriteOffset
<1>6. StoreTypes'
  BY StoreTypesStep
<1>7. LiveLast(RecordsOf(req[t].key))' = AsSet(IF req'[t].op = "put" THEN pos'[t] ELSE Nil)
  BY <1>1, <1>4, <1>5, <1>6, AppendLog DEF AsSet
<1>8. ASSUME NEW k \in Keys, k # req[t].key PROVE LiveLast(RecordsOf(k))' = AsSet(Latest(k)')
  <2>1. status' = "up"
    BY <1>1 DEF AppendRecord
  <2>2. ~Crash /\ (\A u \in Threads : ~MergeStep(u))
    BY <2>1, EffectAlone
  <2>3. Latest(k)' = Latest(k)
    BY <1>1, <2>2, LatestKeeps
  <2>4. LiveLast(RecordsOf(k)) = AsSet(Latest(k))
    BY <1>1, <1>2 DEF LoggedOK
  <2> QED
    BY <1>6, <1>8, <2>3, <2>4, AppendLog
<1>9. \A u \in Threads : Logged(u)' => u = t
  BY <1>3
<1> QED
  BY <1>1, <1>4, <1>7, <1>8, <1>9 DEF LoggedOK, AsSet

\* The call takes effect: index and log agree on its key again.
LEMMA EffectLogged ==
  ASSUME SingleWriter, RolesOK, IInv, LoggedOK, Next,
         NEW t \in Threads, Index(t) \/ Unindex(t), LogCallOK(t)
  PROVE  LoggedOK'
<1> USE DEF IInv, TypeOK
<1>1. /\ status = "up" /\ UNCHANGED <<disk, onDisk>> /\ req[t].key \in Keys /\ Logged(t)
      /\ index' = [index EXCEPT ![req[t].key] = IF req[t].op = "put" THEN pos[t] ELSE Nil]
  BY DEF Index, Unindex, Applied, ThreadsOK, Request, LogCallOK, Logged, Written, HoldsPos
<1>2. \A u \in Threads : ~Logged(u)'
  <2>1. \A u \in Threads : u # t => ~Logged(u)
    <3>1. ~Quiet(t)
      BY DEF Quiet, Index, Unindex
    <3> QED
      BY <3>1, OneLogged
  <2>2. ~Logged(t)'
    BY DEF Index, Unindex, Applied, Goto, Logged, Written, HoldsPos, CallTypes
  <2> QED
    BY <2>1, <2>2, OthersSame DEF Same, Logged, Written, HoldsPos, Step
<1>3. ASSUME NEW k \in Keys PROVE LiveLast(RecordsOf(k))' = AsSet(Latest(k)')
  <2>1. LiveLast(RecordsOf(k))' = LiveLast(RecordsOf(k)) /\ Latest(k) = index[k] /\ Latest(k)' = index'[k]
    <3>1. ~Relocating
      BY OneRelocates DEF Quiet, Index, Unindex
    <3>2. ~Crash /\ (\A u \in Threads : ~MergeStep(u))
      <4>1. status' = "up"
        BY <1>1 DEF Index, Unindex, Applied
      <4> QED
        BY <4>1, EffectAlone
    <3>3. ~Relocating'
      BY <3>1, <3>2, RelocatingKeeps
    <3> QED
      BY <1>1, <3>1, <3>3, SameLog DEF Latest
  <2>2. CASE k = req[t].key
    BY <1>1, <2>1, <2>2 DEF LoggedOK, StoreTypes
  <2>3. CASE k # req[t].key
    <3>1. \A u \in Threads : Logged(u) => req[u].key # k
      <4>1. ~Quiet(t)
        BY DEF Quiet, Index, Unindex
      <4> QED
        BY <2>3, <4>1, OneLogged
    <3> QED
      BY <1>1, <2>1, <2>3, <3>1 DEF LoggedOK, StoreTypes
  <2> QED
    BY <2>2, <2>3
<1> QED
  BY <1>2, <1>3 DEF LoggedOK, AsSet

\* Every step keeps LoggedOK.
LEMMA LoggedStep ==
  ASSUME SingleWriter, IoErrors = FALSE, IInv, SInv, OnceOK, OrderOK, TopOK, ReplayOK, PutsOnly,
         LogOK, Next
  PROVE  LoggedOK'
<1> USE DEF IInv, TypeOK
<1>0. SUFFICES ASSUME status' = "up" PROVE LoggedOK'
  BY DEF LoggedOK
<1>1. CASE status = "loading"
  <2>1. /\ loadFile = active /\ loadOff > Len(disk[loadFile].recs)
        /\ UNCHANGED <<disk, onDisk, index>> /\ pc' = pc
    BY <1>0, <1>1, Started DEF LoadFileEnd
  <2>2. \A t \in Threads : ~Logged(t)'
    BY <1>1, <2>1 DEF ThreadsOK, Logged, Written, HoldsPos
  <2>3. \A k \in Keys : LiveLast(RecordsOf(k))' = AsSet(index[k])
    BY <1>1, <2>1, AllReplayed, SameLog
  <2>4. ~Relocating'
    BY <1>1, <2>1 DEF ThreadsOK, Relocating
  <2>5. \A k \in Keys : Latest(k)' = index[k]
    BY <2>1, <2>4 DEF Latest
  <2> QED
    BY <2>2, <2>3, <2>5 DEF LoggedOK, AsSet
<1>2. CASE \E t \in Threads : AppendRecord(t) \/ Index(t) \/ Unindex(t)
  BY <1>2, AppendLogged, EffectLogged DEF LogOK, SInv
<1>4. ASSUME status = "up", ~Crash, NEW t \in Threads, MergeStep(t) PROVE LoggedOK'
  <2>1. pc[t] \in MergePCs /\ ~Quiet(t)
    BY <1>4 DEF MergeStep, Select, ScanOpen, ScanRecord, BeginCommit, Rename, SwapActive, Recheck,
      Relocate, BeginCleanup, RemoveCandidate, EndMerge, MergeError, RenameError, Release,
      MergePCs, CommitPCs, Quiet
  <2>2. \A u \in Threads : ~Logged(u)
    <3>1. ~Logged(t)
      BY <2>1 DEF Logged, Written, HoldsPos, MergePCs, CommitPCs
    <3> QED
      BY <2>1, <3>1, OneLogged DEF SInv
  <2>3. \A u \in Threads : ~Logged(u)'
    <3>1. ~(AppendRecord(t) \/ Index(t) \/ Unindex(t))
      BY <2>1 DEF AppendRecord, Index, Unindex, MergePCs, CommitPCs
    <3>2. ASSUME NEW u \in Threads, AppendRecord(u) \/ Index(u) \/ Unindex(u) PROVE FALSE
      BY <1>0, <1>4, <3>2, EffectAlone DEF SInv
    <3> QED
      BY <1>4, <2>2, <3>2, LoggedStays DEF LogOK
  <2>4. ASSUME NEW k \in Keys PROVE LiveLast(RecordsOf(k)) = AsSet(Latest(k))
    BY <1>4, <2>2 DEF LogOK, LoggedOK
  <2>5. \A k \in Keys : LiveLast(RecordsOf(k))' = AsSet(Latest(k)')
    BY <1>4, <2>4, MergeLog
  <2> QED
    BY <2>3, <2>5 DEF LoggedOK, AsSet
<1>3. CASE /\ status = "up" /\ index' = index /\ ~Crash
           /\ \A k \in Keys : LiveLast(RecordsOf(k))' = LiveLast(RecordsOf(k))
           /\ \A t \in Threads : ~(AppendRecord(t) \/ Index(t) \/ Unindex(t) \/ MergeStep(t))
  <2>1. ASSUME NEW t \in Threads
        PROVE  /\ Logged(t)' <=> Logged(t)
               /\ Logged(t) => req'[t] = req[t] /\ pos'[t] = pos[t] /\ req[t].key \in Keys
    <3>1. Logged(t) => req[t].key \in Keys
      BY DEF Logged, Written, HoldsPos, ThreadsOK, Request
    <3> QED
      BY <1>3, <3>1, LoggedStays DEF LogOK
  <2>2. ASSUME NEW t \in Threads, Logged(t)'
        PROVE  LiveLast(RecordsOf(req[t].key))' = AsSet(IF req[t].op = "put" THEN pos[t] ELSE Nil)
               /\ req'[t] = req[t] /\ pos'[t] = pos[t]
    BY <1>3, <2>1, <2>2 DEF LogOK, LoggedOK
  <2>3. ASSUME NEW k \in Keys, \A t \in Threads : Logged(t)' => req'[t].key # k
        PROVE  LiveLast(RecordsOf(k))' = AsSet(Latest(k)')
    <3>1. LiveLast(RecordsOf(k))' = AsSet(Latest(k))
      BY <1>3, <2>1, <2>3 DEF LogOK, LoggedOK
    <3>2. Latest(k)' = Latest(k)
      BY <1>3, LatestKeeps
    <3> QED
      BY <3>1, <3>2
  <2> QED
    BY <1>3, <2>2, <2>3 DEF LoggedOK, AsSet
<1> QED
  BY <1>0, <1>1, <1>2, <1>3, <1>4, FrameLog

\* What the log says a kill may leave.
LEMMA LogRecoverable ==
  ASSUME LogOK, IInv, SInv, status = "up", NEW k \in Keys
  PROVE  Restored(k) \in Recoverable(k)
<1>1. CASE \A t \in Threads : Logged(t) => req[t].key # k
  <2>1. LastPosition(k) = Latest(k)
    BY <1>1, LastIs DEF LogOK, LoggedOK
  <2>2. Restored(k) = View(k)
    BY <2>1, LatestView DEF Restored
  <2> QED
    BY <2>2 DEF Recoverable
<1>2. ASSUME NEW t \in Threads, Logged(t), req[t].key = k PROVE Restored(k) \in Recoverable(k)
  <2>1. pc[t] \in PendingPCs /\ pc[t] # "idle"
    BY <1>2 DEF Logged, Written, HoldsPos, PendingPCs
  <2>2. LastPosition(k) = IF req[t].op = "put" THEN pos[t] ELSE Nil
    BY <1>2, LastIs DEF LogOK, LoggedOK
  <2>3. Restored(k) = req[t].val
    <3>1. CASE pc[t] = "unindex"
      BY <2>2, <3>1 DEF LogOK, LogCallOK, Restored, ValueAt
    <3>2. CASE Written(t)
      <4>1. req[t].op = "put" /\ pos[t] # Nil
        BY <3>2 DEF Written, HoldsPos, IInv, ThreadsOK, PositionsOK, Held, Names
      <4> QED
        BY <2>2, <3>2, <4>1 DEF LogOK, LogCallOK, Restored, ValueAt
    <3> QED
      BY <1>2, <3>1, <3>2 DEF Logged
  <2> QED
    BY <1>2, <2>1, <2>3 DEF Recoverable
<1> QED
  BY <1>1, <1>2

\* As long as the directory stays, so does what it would restore.
LEMMA SameRestored ==
  ASSUME UNCHANGED <<disk, onDisk>>, NEW k
  PROVE  Restored(k)' = Restored(k)
BY DEF Restored, ValueAt, LastPosition, LiveLast, RecordsOf, RecordAt

\* Every step keeps RestoredOK.
LEMMA RestoredStep ==
  ASSUME IInv, SInv, TopOK, LogOK, Next
  PROVE  RestoredOK'
<1> USE DEF IInv, TypeOK
<1>1. SUFFICES ASSUME status' \in {"down", "loading"}, NEW k \in Keys PROVE Restored(k)' \in expected'[k]
  BY DEF RestoredOK
<1>2. CASE Crash
  <2>1. Restored(k)' = Restored(k)
    BY <1>2, SameRestored DEF Crash
  <2> QED
    BY <1>2, <2>1, LogRecoverable DEF Crash, LogOK, RestoredOK
<1>3. CASE OpenFiles
  <2>1. Restored(k)' = Restored(k)
    <3>1. CASE onDisk # {}
      BY <1>3, <3>1, SameRestored DEF OpenFiles
    <3>2. CASE onDisk = {}
      <4>1. disk' = disk /\ onDisk' = onDisk \cup {0} /\ disk[0] = EmptyFile
        BY <1>3, <3>2, Zero DEF OpenFiles, TopOK
      <4>2. StoreTypes /\ StoreTypes'
        BY StoreTypesStep
      <4>3. LiveLast(RecordsOf(k))' = LiveLast(RecordsOf(k))
        BY <4>1, <4>2, Zero, NewFileLog
      <4> QED
        BY <4>1, <4>3 DEF Restored, ValueAt, LastPosition, RecordAt
    <3> QED
      BY <3>1, <3>2
  <2> QED
    BY <1>3, <2>1 DEF OpenFiles, LogOK, RestoredOK
<1>4. CASE LoadRecord \/ LoadFileEnd
  <2>1. UNCHANGED <<disk, onDisk, expected>> /\ status = "loading"
    BY <1>4 DEF LoadRecord, LoadFileEnd
  <2> QED
    BY <2>1, SameRestored DEF LogOK, RestoredOK
<1>5. CASE Finished
  <2>1. status' = status
    BY <1>5 DEF Finished, vars
  <2> QED
    BY <1>1, <1>5, <2>1 DEF Finished
<1> QED
  BY <1>1, <1>2, <1>3, <1>4, <1>5, StatusStep DEF Next, Open

\* Every step keeps LogOK.
LEMMA LogStep ==
  ASSUME SingleWriter, IoErrors = FALSE, IInv, SInv, OnceOK, OrderOK, TopOK, ReplayOK, PutsOnly,
         LogOK, [Next]_vars
  PROVE  LogOK'
<1>1. CASE Next
  BY <1>1, LoggedStep, RestoredStep, LogCallStep DEF LogOK
<1>2. CASE UNCHANGED vars
  <2>1. \A k \in Keys : LiveLast(RecordsOf(k))' = LiveLast(RecordsOf(k)) /\ Restored(k)' = Restored(k)
    BY <1>2, SameLog, SameRestored DEF vars
  <2>2. UNCHANGED <<disk, status, index, pc, req, pos, expected>>
    BY <1>2 DEF vars
  <2>3. RestoredOK' /\ \A t \in Threads : LogCallOK(t)'
    BY <2>1, <2>2 DEF LogOK, RestoredOK, LogCallOK, Written, HoldsPos, RecordAt
  <2>4. \A t \in Threads : Logged(t)' <=> Logged(t)
    BY <2>2 DEF Logged, Written, HoldsPos
  <2>5. \A t \in Threads : status = "up" /\ Logged(t) => req[t].key \in Keys
    BY DEF IInv, ThreadsOK, Logged, Written, HoldsPos, Request
  <2>6. \A k \in Keys : Latest(k)' = Latest(k)
    BY <1>2 DEF vars, mergeVars, Latest, Relocating, Rebase
  <2>7. LoggedOK'
    BY <2>1, <2>2, <2>4, <2>5, <2>6 DEF LogOK, LoggedOK, AsSet
  <2> QED
    BY <2>3, <2>7 DEF LogOK
<1> QED
  BY <1>1, <1>2

\* With one thread that writes, and no tombstone in the files it merges, a start
\* after any number of kills, in calls or in merges, answers for each key what was
\* answered before the last of them, or what the call it cut short was about to
\* write.
THEOREM Recovers ==
  ASSUME SingleWriter, IoErrors = FALSE
  PROVE  Spec /\ []PutsOnly => RecoversView
<1>1. Init => LogOK
  <2> SUFFICES ASSUME Init PROVE LogOK
    OBVIOUS
  <2>1. \A k \in Keys : RecordsOf(k) = {}
    BY DEF Init, RecordsOf
  <2>2. \A k \in Keys : LiveLast(RecordsOf(k)) = AsSet(Nil)
    BY <2>1 DEF LiveLast, AsSet
  <2>3. \A k \in Keys : LastPosition(k) = Nil
    BY <2>2, LastIs
  <2> QED
    BY <2>3 DEF Init, LogOK, LoggedOK, RestoredOK, LogCallOK, Written, HoldsPos, Restored, ValueAt
<1>2. ASSUME IInv, ReplayOK, LogOK, Next, status = "loading", status' = "up", NEW k \in Keys
      PROVE  View(k)' \in expected[k]
  <2>1. /\ loadFile = active /\ loadOff > Len(disk[loadFile].recs)
        /\ UNCHANGED <<disk, onDisk, index>>
    BY <1>2, Started
  <2>2. View(k)' = View(k)
    BY <2>1 DEF View, ValueAt, RecordAt
  <2>3. LastPosition(k) = index[k]
    BY <1>2, <2>1, AllReplayed, LastIs
  <2> QED
    BY <1>2, <2>2, <2>3 DEF LogOK, RestoredOK, Restored, View
<1>3. IInv /\ ReplayOK /\ LogOK /\ [Next]_vars =>
        [status = "loading" /\ status' = "up" => \A k \in Keys : View(k)' \in expected[k]]_vars
  BY <1>2
<1> QED
  BY <1>1, <1>3, LogStep, OnceInvariant, TopInvariant, ReplayInvariant, PTL
  DEF Spec, RecoversView

\* If the log ends with the records get answers from, it restores what get answers.
Follows == \A k \in Keys : LiveLast(RecordsOf(k)) = AsSet(Latest(k)) => Restored(k) = View(k)

\* With one thread that writes, and no tombstone in the files it merges, no step of
\* a merge makes what a restart would restore depart from what get answers.
THEOREM MergesKeepReplay ==
  ASSUME SingleWriter, IoErrors = FALSE
  PROVE  Spec => PutMergeKeepsReplay
<1>1. IInv /\ SInv => Follows
  <2>1. ASSUME IInv, SInv, NEW k \in Keys, LiveLast(RecordsOf(k)) = AsSet(Latest(k))
        PROVE  Restored(k) = View(k)
    <3>1. LastPosition(k) = Latest(k)
      BY <2>1, LastIs
    <3> QED
      BY <2>1, <3>1, LatestView DEF Restored
  <2> QED
    BY <2>1 DEF Follows
<1>2. ASSUME IInv, SInv, OnceOK, OrderOK, TopOK, Follows', Next, NEW t \in Threads, MergeStep(t),
             \A k \in Keys : LastPosition(k) = Latest(k),
             \A f \in cand \cup cand' : ~TombstoneIn(f)
      PROVE  \A k \in Keys : Restored(k)' = View(k)'
  <2>1. PutsOnly /\ StoreTypes
    BY <1>2 DEF PutsOnly, IInv, TypeOK
  <2>2. ASSUME NEW k \in Keys PROVE LiveLast(RecordsOf(k))' = AsSet(Latest(k)')
    <3>1. LiveLast(RecordsOf(k)) = AsSet(Latest(k))
      BY <1>2, <2>1, OnlyLast
    <3> QED
      BY <1>2, <2>1, <3>1, MergeLog
  <2>3. \A k \in Keys : AsSet(Latest(k)') = AsSet(Latest(k))'
    BY DEF AsSet
  <2> QED
    BY <1>2, <2>2, <2>3 DEF Follows
<1>3. IInv /\ SInv /\ OnceOK /\ OrderOK /\ TopOK /\ Follows' /\ [Next]_vars =>
        [(\E t \in Threads : MergeStep(t)) /\ (\A k \in Keys : LastPosition(k) = Latest(k))
           => \/ \A k \in Keys : Restored(k)' = View(k)'
              \/ \E f \in cand \cup cand' : TombstoneIn(f)]_vars
  BY <1>2
<1> QED
  BY <1>1, <1>3, OnceInvariant, TopInvariant, PTL DEF Spec, PutMergeKeepsReplay

-------------------------------------------------------------------------------
(***************************************************************************)
(* Sums.  Induction is stated for a set of numbers, which the provers can  *)
(* instantiate, where the library's is stated for a predicate.             *)
(***************************************************************************)

\* A set that holds 0 and with each number its successor holds all numbers.
LEMMA AllNumbers ==
  ASSUME NEW S, 0 \in S, \A n \in Nat : n \in S => n + 1 \in S
  PROVE  \A n \in Nat : n \in S
<1> SUFFICES ASSUME Nat \ S # {} PROVE FALSE
  OBVIOUS
<1>1. PICK m \in Nat \ S : \A n \in Nat \ S : ~(<<n, m>> \in OpToRel(<, Nat))
  <2> DEFINE R == OpToRel(<, Nat)
             Out == Nat \ S
  <2>1. IsWellFoundedOn(R, Nat) /\ Out \subseteq Nat /\ Out # {}
    BY NatLessThanWellFounded
  <2> HIDE DEF R, Out
  <2>2. \E m \in Out : \A n \in Out : ~(<<n, m>> \in R)
    BY <2>1, WFMin
  <2> QED
    BY <2>2 DEF R, Out
<1>2. \A n \in Nat \ S : ~(n < m)
  BY <1>1 DEF OpToRel
<1>3. m # 0 /\ m - 1 \in Nat /\ m - 1 < m /\ (m - 1) + 1 = m
  OBVIOUS
<1> QED
  BY <1>2, <1>3

\* The sums of the beginnings of a sequence exist: each is the one before plus
\* one number.
LEMMA SumsAre ==
  ASSUME NEW s \in Seq(Nat)
  PROVE  /\ Sums(s) \in [0 .. Len(s) -> Nat]
         /\ Sums(s)[0] = 0
         /\ \A i \in 1 .. Len(s) : Sums(s)[i] = Sums(s)[i - 1] + s[i]
<1> DEFINE Adds(g, n) == g[0] = 0 /\ \A i \in 1 .. n : g[i] = g[i - 1] + s[i]
           Summable(n) == \E g \in [0 .. n -> Nat] : Adds(g, n)
           Summed == {n \in Nat : n <= Len(s) => Summable(n)}
<1>1. Len(s) \in Nat /\ \A i \in 1 .. Len(s) : s[i] \in Nat
  OBVIOUS
<1>2. 0 \in Summed
  <2>1. [i \in 0 .. 0 |-> 0] \in [0 .. 0 -> Nat] /\ [i \in 0 .. 0 |-> 0][0] = 0
    OBVIOUS
  <2>2. \A i \in 1 .. 0 : FALSE
    OBVIOUS
  <2> QED
    BY <2>1, <2>2
<1>3. ASSUME NEW n \in Nat, n \in Summed PROVE n + 1 \in Summed
  <2>1. SUFFICES ASSUME n + 1 <= Len(s) PROVE Summable(n + 1)
    <3> HIDE DEF Summable
    <3> QED
      OBVIOUS
  <2>2. PICK g \in [0 .. n -> Nat] : Adds(g, n)
    BY <1>1, <1>3, <2>1
  <2> DEFINE h == [i \in 0 .. n + 1 |-> IF i <= n THEN g[i] ELSE g[n] + s[n + 1]]
  <2>3. s[n + 1] \in Nat /\ g[n] \in Nat
    BY <1>1, <2>1
  <2>4. h \in [0 .. n + 1 -> Nat]
    BY <2>3
  <2>5. ASSUME NEW i \in 1 .. n + 1 PROVE h[i] = h[i - 1] + s[i]
    <3>1. CASE i <= n
      BY <2>2, <3>1
    <3>2. CASE i = n + 1
      BY <3>2
    <3> QED
      BY <3>1, <3>2
  <2>6. h[0] = 0
    BY <2>2
  <2> HIDE DEF h
  <2> QED
    BY <2>4, <2>5, <2>6
<1>4. PICK g \in [0 .. Len(s) -> Nat] : Adds(g, Len(s))
  <2> HIDE DEF Summed
  <2>1. Len(s) \in Summed
    BY <1>1, <1>2, <1>3, AllNumbers
  <2> QED
    BY <1>1, <2>1 DEF Summed
<1> DEFINE Sum(h) == h = [i \in 0 .. Len(s) |-> IF i = 0 THEN 0 ELSE h[i - 1] + s[i]]
<1>5. Sum(g)
  BY <1>1, <1>4
<1>6. Sums(s) = CHOOSE h : Sum(h)
  BY DEF Sums
<1>7. PICK h : h = Sums(s)
  OBVIOUS
<1>70. h = [i \in 0 .. Len(s) |-> IF i = 0 THEN 0 ELSE h[i - 1] + s[i]]
  BY <1>5, <1>6, <1>7
<1>8. h[0] = 0 /\ \A i \in 1 .. Len(s) : h[i] = h[i - 1] + s[i]
  <2>1. 0 \in 0 .. Len(s) /\ \A i \in 1 .. Len(s) : i \in 0 .. Len(s) /\ i # 0
    BY <1>1
  <2> HIDE DEF Sum, Adds, Summed
  <2> QED
    BY <1>70, <2>1
<1> DEFINE Numbers == {n \in Nat : n <= Len(s) => h[n] \in Nat}
<1>9. \A n \in Nat : n \in Numbers
  <2>1. 0 \in Numbers
    BY <1>8
  <2>2. ASSUME NEW n \in Nat, n \in Numbers PROVE n + 1 \in Numbers
    <3>1. SUFFICES ASSUME n + 1 <= Len(s) PROVE h[n + 1] \in Nat
      OBVIOUS
    <3>2. n + 1 \in 1 .. Len(s) /\ h[n] \in Nat /\ s[n + 1] \in Nat
      BY <1>1, <2>2, <3>1
    <3>3. h[n + 1] = h[n] + s[n + 1]
      BY <1>8, <3>2
    <3> QED
      BY <3>2, <3>3
  <2> HIDE DEF Numbers
  <2> QED
    BY <2>1, <2>2, AllNumbers
<1>10. h \in [0 .. Len(s) -> Nat]
  <2>1. DOMAIN h = 0 .. Len(s) /\ h = [i \in 0 .. Len(s) |-> h[i]]
    <3> HIDE DEF Sum, Adds, Summed, Numbers
    <3> QED
      BY <1>70
  <2>2. \A i \in 0 .. Len(s) : h[i] \in Nat
    BY <1>1, <1>9
  <2> QED
    BY <2>1, <2>2
<1> QED
  BY <1>7, <1>8, <1>10

\* One turn of a sum.
LEMMA SumsNext ==
  ASSUME NEW s \in Seq(Nat), NEW n \in Nat, n + 1 <= Len(s)
  PROVE  /\ Sums(s)[n] \in Nat /\ s[n + 1] \in Nat
         /\ Sums(s)[n + 1] = Sums(s)[n] + s[n + 1]
<1>1. Len(s) \in Nat /\ n \in 0 .. Len(s) /\ n + 1 \in 1 .. Len(s)
  OBVIOUS
<1>2. PICK i \in 1 .. Len(s) : i = n + 1 /\ i - 1 = n
  BY <1>1
<1>3. Sums(s)[i] = Sums(s)[i - 1] + s[i] /\ s[i] \in Nat
  BY SumsAre
<1> QED
  BY <1>1, <1>2, <1>3, SumsAre

\* A total is a number.
LEMMA TotalType == ASSUME NEW s \in Seq(Nat) PROVE Total(s) \in Nat
<1>1. Len(s) \in 0 .. Len(s)
  OBVIOUS
<1> QED
  BY <1>1, SumsAre DEF Total

\* Changing one number changes the total by the difference.
LEMMA TotalChange ==
  ASSUME NEW s \in Seq(Nat), NEW t \in Seq(Nat), Len(t) = Len(s), NEW j \in 1 .. Len(s),
         \A i \in 1 .. Len(s) : i # j => t[i] = s[i]
  PROVE  Total(t) + s[j] = Total(s) + t[j]
<1> DEFINE Even(n) == IF n < j THEN Sums(t)[n] = Sums(s)[n]
                      ELSE Sums(t)[n] + s[j] = Sums(s)[n] + t[j]
           Done == {n \in Nat : n <= Len(s) => Even(n)}
<1>1. Len(s) \in Nat /\ s[j] \in Nat /\ t[j] \in Nat /\ j \in Nat /\ j > 0
  OBVIOUS
<1>2. 0 \in Done
  BY <1>1, SumsAre
<1>3. ASSUME NEW n \in Nat, n \in Done PROVE n + 1 \in Done
  <2>1. SUFFICES ASSUME n + 1 <= Len(s) PROVE Even(n + 1)
    OBVIOUS
  <2>2. Even(n) /\ n \in 0 .. Len(s) /\ n + 1 \in 1 .. Len(s)
    BY <1>1, <1>3, <2>1
  <2>3. /\ Sums(s)[n + 1] = Sums(s)[n] + s[n + 1] /\ Sums(s)[n] \in Nat /\ s[n + 1] \in Nat
        /\ Sums(t)[n + 1] = Sums(t)[n] + t[n + 1] /\ Sums(t)[n] \in Nat /\ t[n + 1] \in Nat
    BY <1>1, <2>1, SumsNext
  <2>4. CASE n + 1 < j
    BY <2>2, <2>3, <2>4
  <2>5. CASE n + 1 = j
    BY <1>1, <2>2, <2>3, <2>5
  <2>6. CASE n + 1 > j
    <3>1. t[n + 1] = s[n + 1]
      BY <2>2, <2>6
    <3>2. Sums(t)[n] + s[j] = Sums(s)[n] + t[j]
      BY <1>1, <2>2, <2>6
    <3>3. Sums(t)[n + 1] + s[j] = Sums(s)[n + 1] + t[j]
      <4>1. PICK a \in Nat, b \in Nat, c \in Nat, d \in Nat, e \in Nat :
              a = Sums(t)[n] /\ b = Sums(s)[n] /\ c = s[n + 1] /\ d = s[j] /\ e = t[j]
        BY <1>1, <2>3
      <4>2. a + d = b + e => (a + c) + d = (b + c) + e
        OBVIOUS
      <4> QED
        BY <2>3, <3>1, <3>2, <4>1, <4>2
    <3> QED
      BY <1>1, <2>6, <3>3
  <2> QED
    BY <1>1, <2>4, <2>5, <2>6
<1>4. \A n \in Nat : n \in Done
  <2> HIDE DEF Done
  <2> QED
    BY <1>2, <1>3, AllNumbers
<1> QED
  BY <1>1, <1>4 DEF Total

\* A number more at the end is a number more in the total.
LEMMA TotalAppend ==
  ASSUME NEW s \in Seq(Nat), NEW n \in Nat
  PROVE  Total(Append(s, n)) = Total(s) + n
<1> DEFINE t == Append(s, n)
           Alike == {m \in Nat : m <= Len(s) => Sums(t)[m] = Sums(s)[m]}
<1>1. t \in Seq(Nat) /\ Len(s) \in Nat /\ Len(t) = Len(s) + 1 /\ t[Len(s) + 1] = n
      /\ \A i \in 1 .. Len(s) : t[i] = s[i]
  OBVIOUS
<1> HIDE DEF t
<1>2. 0 \in Alike
  BY <1>1, SumsAre
<1>3. ASSUME NEW m \in Nat, m \in Alike PROVE m + 1 \in Alike
  <2>1. SUFFICES ASSUME m + 1 <= Len(s) PROVE Sums(t)[m + 1] = Sums(s)[m + 1]
    OBVIOUS
  <2>2. m + 1 \in 1 .. Len(s) /\ m + 1 \in 1 .. Len(t) /\ (m + 1) - 1 = m /\ Sums(t)[m] = Sums(s)[m]
    BY <1>1, <1>3, <2>1
  <2>3. Sums(s)[m + 1] = Sums(s)[m] + s[m + 1] /\ Sums(t)[m + 1] = Sums(t)[m] + t[m + 1]
    BY <1>1, <2>2, SumsAre
  <2> QED
    BY <1>1, <2>2, <2>3
<1>4. \A m \in Nat : m \in Alike
  <2> HIDE DEF Alike
  <2> QED
    BY <1>2, <1>3, AllNumbers
<1>5. Sums(t)[Len(s)] = Sums(s)[Len(s)]
  BY <1>1, <1>4
<1>6. Len(s) + 1 \in 1 .. Len(t) /\ (Len(s) + 1) - 1 = Len(s)
  BY <1>1
<1>7. Sums(t)[Len(t)] = Sums(t)[Len(s)] + n
  BY <1>1, <1>6, SumsAre
<1> QED
  BY <1>5, <1>7 DEF Total, t

\* Nothing adds up to nothing.
LEMMA TotalZero ==
  ASSUME NEW s \in Seq(Nat), \A i \in 1 .. Len(s) : s[i] = 0
  PROVE  Total(s) = 0
<1> DEFINE None == {m \in Nat : m <= Len(s) => Sums(s)[m] = 0}
<1>1. 0 \in None
  BY SumsAre
<1>2. ASSUME NEW m \in Nat, m \in None PROVE m + 1 \in None
  <2>1. SUFFICES ASSUME m + 1 <= Len(s) PROVE Sums(s)[m + 1] = 0
    OBVIOUS
  <2>2. m + 1 \in 1 .. Len(s) /\ (m + 1) - 1 = m /\ Sums(s)[m] = 0
    BY <1>2, <2>1
  <2>3. Sums(s)[m + 1] = Sums(s)[m] + s[m + 1]
    BY <2>2, SumsAre
  <2> QED
    BY <2>2, <2>3
<1>3. \A m \in Nat : m \in None
  <2> HIDE DEF None
  <2> QED
    BY <1>1, <1>2, AllNumbers
<1> QED
  BY <1>3 DEF Total

-------------------------------------------------------------------------------
(***************************************************************************)
(* The garbage of one file.                                                *)
(***************************************************************************)

\* The garbage of each record: its size, unless it is a tombstone or live.
LEMMA WasteType ==
  ASSUME NEW recs \in Seq(Record), NEW f, NEW L
  PROVE  /\ Waste(recs, f, L) \in Seq(Nat)
         /\ Len(Waste(recs, f, L)) = Len(recs)
         /\ \A i \in 1 .. Len(recs) :
              Waste(recs, f, L)[i] =
                IF recs[i].val = Deleted \/ Pos(f, i) \in L THEN 0 ELSE Size[recs[i].val]
<1> DEFINE w == Waste(recs, f, L)
<1>1. Len(recs) \in Nat /\ DOMAIN recs = 1 .. Len(recs)
  OBVIOUS
<1>2. \A i \in 1 .. Len(recs) :
        w[i] = IF recs[i].val = Deleted \/ Pos(f, i) \in L THEN 0 ELSE Size[recs[i].val]
  BY <1>1 DEF Waste
<1>3. \A i \in 1 .. Len(recs) : w[i] \in Nat
  <2>0. \A i \in 1 .. Len(recs) : recs[i] \in Record
    OBVIOUS
  <2>1. \A i \in 1 .. Len(recs) : recs[i].val \in Values \cup {Deleted}
    BY <2>0 DEF Record
  <2>2. \A v \in Values \cup {Deleted} : Size[v] \in Nat
    OBVIOUS
  <2> HIDE DEF w
  <2> QED
    BY <1>2, <2>1, <2>2
<1>4. w = [i \in 1 .. Len(recs) |-> w[i]]
  BY <1>1 DEF Waste
<1>5. w \in [1 .. Len(recs) -> Nat]
  <2> HIDE DEF w
  <2> QED
    BY <1>3, <1>4
<1>6. w \in Seq(Nat) /\ Len(w) = Len(recs)
  <2> HIDE DEF w
  <2> QED
    BY <1>1, <1>5
<1> QED
  BY <1>2, <1>6

\* The same live positions, the same garbage.
LEMMA SameWaste ==
  ASSUME NEW recs \in Seq(Record), NEW f, NEW L, NEW M,
         \A i \in 1 .. Len(recs) : Pos(f, i) \in M <=> Pos(f, i) \in L
  PROVE  Total(Waste(recs, f, M)) = Total(Waste(recs, f, L))
<1>1. DOMAIN recs = 1 .. Len(recs)
  OBVIOUS
<1> QED
  BY <1>1 DEF Waste

\* A record that is live, or a tombstone, adds none.
LEMMA AppendWaste ==
  ASSUME NEW recs \in Seq(Record), NEW r \in Record, NEW f, NEW L, NEW M,
         \A i \in 1 .. Len(recs) : Pos(f, i) \in M <=> Pos(f, i) \in L,
         r.val = Deleted \/ Pos(f, Len(recs) + 1) \in M
  PROVE  Total(Waste(Append(recs, r), f, M)) = Total(Waste(recs, f, L))
<1> DEFINE n == Len(recs)
           w == Waste(recs, f, L)
<1>0. PICK longer : longer = Append(recs, r)
  OBVIOUS
<1> DEFINE more == Waste(longer, f, M)
<1>1. /\ longer \in Seq(Record) /\ n \in Nat /\ Len(longer) = n + 1
      /\ longer[n + 1] = r /\ \A i \in 1 .. n : longer[i] = recs[i]
  BY <1>0
<1>2. more \in Seq(Nat) /\ Len(more) = n + 1 /\ w \in Seq(Nat) /\ Len(w) = n
  BY <1>1, WasteType
<1>3. \A i \in 1 .. n : more[i] = w[i]
  <2>1. ASSUME NEW i \in 1 .. n PROVE more[i] = w[i]
    <3>1. i \in 1 .. Len(longer) /\ longer[i] = recs[i]
      BY <1>1
    <3>2. more[i] = IF recs[i].val = Deleted \/ Pos(f, i) \in M THEN 0 ELSE Size[recs[i].val]
      BY <1>1, <3>1, WasteType
    <3>3. w[i] = IF recs[i].val = Deleted \/ Pos(f, i) \in L THEN 0 ELSE Size[recs[i].val]
      BY WasteType
    <3> QED
      BY <3>2, <3>3
  <2> QED
    BY <2>1
<1>4. more[n + 1] = 0
  <2>1. n + 1 \in 1 .. Len(longer)
    BY <1>1
  <2> QED
    BY <1>1, <2>1, WasteType
<1> HIDE DEF w, more
<1>5. more = Append(w, 0)
  BY <1>1, <1>2, <1>3, <1>4
<1>6. Total(w) \in Nat /\ Total(Append(w, 0)) = Total(w) + 0
  BY <1>2, TotalAppend, TotalType
<1> QED
  BY <1>0, <1>5, <1>6 DEF w, more

\* A record that is no longer live adds its size.
LEMMA CountWaste ==
  ASSUME NEW recs \in Seq(Record), NEW f, NEW j \in 1 .. Len(recs), NEW L, NEW M,
         \A i \in 1 .. Len(recs) : i # j => (Pos(f, i) \in M <=> Pos(f, i) \in L),
         recs[j].val # Deleted, Pos(f, j) \in L, Pos(f, j) \notin M
  PROVE  Total(Waste(recs, f, M)) = Total(Waste(recs, f, L)) + Size[recs[j].val]
<1> DEFINE w == Waste(recs, f, L)
           more == Waste(recs, f, M)
<1>1. more \in Seq(Nat) /\ Len(more) = Len(recs) /\ w \in Seq(Nat) /\ Len(w) = Len(recs)
  BY WasteType
<1>2. \A i \in 1 .. Len(recs) : i # j => more[i] = w[i]
  BY WasteType
<1>3. w[j] = 0 /\ more[j] = Size[recs[j].val]
  BY WasteType
<1> HIDE DEF w, more
<1>4. Total(more) + w[j] = Total(w) + more[j]
  BY <1>1, <1>2, TotalChange
<1>5. Total(more) \in Nat
  BY <1>1, TotalType
<1> QED
  BY <1>3, <1>4, <1>5 DEF w, more

\* A file of live records and tombstones has none.
LEMMA NoWaste ==
  ASSUME NEW recs \in Seq(Record), NEW f, NEW L,
         \A i \in 1 .. Len(recs) : recs[i].val = Deleted \/ Pos(f, i) \in L
  PROVE  Total(Waste(recs, f, L)) = 0
<1>1. Waste(recs, f, L) \in Seq(Nat) /\ \A i \in 1 .. Len(Waste(recs, f, L)) : Waste(recs, f, L)[i] = 0
  BY WasteType
<1> QED
  BY <1>1, TotalZero

-------------------------------------------------------------------------------
(***************************************************************************)
(* The garbage counters (AccountOK).                                       *)
(***************************************************************************)

\* The counter of a file is right.
Account(f) == reclaim[f] = DeadSize(f, InUse)

\* A file that is neither written nor counted keeps its counter right while the same
\* of its records are in use.
LEMMA KeepsAccount ==
  ASSUME StoreTypes, NEW f \in FileIds, Account(f), disk'[f] = disk[f], reclaim'[f] = reclaim[f],
         \A i \in Nat \ {0} : Pos(f, i) \in InUse' <=> Pos(f, i) \in InUse
  PROVE  Account(f)'
<1>1. PICK recs : recs = disk[f].recs
  OBVIOUS
<1>2. recs \in Seq(Record)
  BY <1>1 DEF StoreTypes, File
<1>3. \A i \in 1 .. Len(recs) : i \in Nat \ {0}
  BY <1>2
<1>4. PICK L, M : L = InUse /\ M = InUse'
  OBVIOUS
<1>5. Total(Waste(recs, f, M)) = Total(Waste(recs, f, L))
  BY <1>2, <1>3, <1>4, SameWaste
<1> QED
  BY <1>1, <1>4, <1>5 DEF Account, DeadSize

\* With no call between its write and its effect, what is in use is what the index
\* and a commit point to.
LEMMA Bare ==
  ASSUME \A u \in Threads : ~Counted(u) /\ ~Written(u)
  PROVE  InUse = {index[k] : k \in Keys} \cup Copies
<1>1. CountedKeys = {}
  BY DEF CountedKeys
<1>2. {u \in Threads : Written(u)} = {}
  OBVIOUS
<1> QED
  BY <1>1, <1>2 DEF InUse

\* So it is in the next state.
LEMMA BareNext ==
  ASSUME \A u \in Threads : ~Counted(u)' /\ ~Written(u)'
  PROVE  InUse' = {index'[k] : k \in Keys} \cup Copies'
<1>1. CountedKeys' = {}
  BY DEF CountedKeys
<1>2. {u \in Threads : Written(u)'} = {}
  OBVIOUS
<1> QED
  BY <1>1, <1>2 DEF InUse

\* A thread that is quiet, or merges, uses nothing of its own.
LEMMA UsesNothing ==
  ASSUME NEW u \in Threads, Quiet(u) \/ pc[u] \in MergePCs
  PROVE  ~Counted(u) /\ ~Written(u)
BY DEF Quiet, MergePCs, CommitPCs, Counted, Written, HoldsPos

\* While one thread merges no other uses a position of its own, and the block of the
\* merge says what is being moved and what is about to go.
LEMMA MergeBare ==
  ASSUME SingleWriter, IInv, RolesOK, NEW t \in Threads, MergeStep(t)
  PROVE  /\ InUse = {index[k] : k \in Keys} \cup Copies
         /\ InUse' = {index'[k] : k \in Keys} \cup Copies'
         /\ Relocating <=> pc[t] \in {"rename", "recheck"}
         /\ Relocating' <=> pc'[t] \in {"rename", "recheck"}
         /\ Dying = IF pc[t] \in {"recheck", "cleanup"} THEN cand ELSE {}
         /\ Dying' = IF pc'[t] \in {"recheck", "cleanup"} THEN cand' ELSE {}
<1> USE DEF IInv, TypeOK
<1>1. pc[t] \in MergePCs
  BY DEF MergeStep, Select, ScanOpen, ScanRecord, BeginCommit, Rename, SwapActive,
    Recheck, Relocate, BeginCleanup, RemoveCandidate, EndMerge, MergeError, RenameError,
    Release, MergePCs, CommitPCs
<1>2. pc'[t] \in MergePCs \cup {"idle"}
  BY MergeStepPc DEF Release, Return, Goto, CallTypes
<1>3. \A u \in Threads : u # t => Quiet(u)
  <2>1. ~Quiet(t)
    BY <1>1 DEF Quiet, MergePCs, CommitPCs
  <2> QED
    BY <2>1 DEF SingleWriter, RolesOK
<1>4. \A u \in Threads : u # t => Same(u)
  BY OthersSame DEF Step
<1>5. \A u \in Threads : ~Counted(u) /\ ~Written(u)
  BY <1>1, <1>3, UsesNothing
<1>6. \A u \in Threads : ~Counted(u)' /\ ~Written(u)'
  <2>1. ~Counted(t)' /\ ~Written(t)'
    BY <1>2 DEF MergePCs, CommitPCs, Counted, Written, HoldsPos
  <2>2. ASSUME NEW u \in Threads, u # t PROVE ~Counted(u)' /\ ~Written(u)'
    <3>1. pc'[u] = pc[u] /\ Quiet(u)
      BY <1>3, <1>4, <2>2 DEF Same
    <3> QED
      BY <3>1 DEF Quiet, Counted, Written, HoldsPos
  <2> QED
    BY <2>1, <2>2
<1>7. \A u \in Threads : u # t => pc[u] \notin MergePCs /\ pc'[u] \notin MergePCs
  <2>1. \A u \in Threads : u # t => pc[u] \notin MergePCs
    BY <1>3 DEF Quiet, MergePCs, CommitPCs
  <2> QED
    BY <1>4, <2>1 DEF Same
<1>8. {"rename", "recheck", "cleanup"} \subseteq MergePCs
  BY DEF MergePCs, CommitPCs
<1>9. /\ Relocating <=> pc[t] \in {"rename", "recheck"}
      /\ Relocating' <=> pc'[t] \in {"rename", "recheck"}
  BY <1>7, <1>8 DEF Relocating
<1>10. /\ Dying = IF pc[t] \in {"recheck", "cleanup"} THEN cand ELSE {}
       /\ Dying' = IF pc'[t] \in {"recheck", "cleanup"} THEN cand' ELSE {}
  BY <1>7, <1>8 DEF Dying
<1> QED
  BY <1>5, <1>6, <1>9, <1>10, Bare, BareNext

\* The steps of a merge that touch neither the index nor the files change nothing
\* of what is in use.
LEMMA MergeUses ==
  ASSUME SingleWriter, IoErrors = FALSE, IInv, SInv, OnceOK, OrderOK, NEW t \in Threads,
         MergeStep(t), ~Rename(t), ~SwapActive(t), ~RemoveCandidate(t),
         NEW f \in FileIds, f <= lastId, ~Relocate(t) \/ f \notin cand, NEW i \in Nat \ {0}
  PROVE  Pos(f, i) \in InUse' <=> Pos(f, i) \in InUse
<1> USE DEF IInv, TypeOK
<1>0. PICK p : p = Pos(f, i)
  OBVIOUS
<1>1. p.file = f /\ p \in Position /\ p # Nil
  BY <1>0 DEF Pos, Position
<1>2. /\ InUse = {index[k] : k \in Keys} \cup Copies
      /\ InUse' = {index'[k] : k \in Keys} \cup Copies'
      /\ Relocating <=> pc[t] \in {"rename", "recheck"}
      /\ Relocating' <=> pc'[t] \in {"rename", "recheck"}
  BY MergeBare DEF SInv
<1>3. CASE Select(t) \/ ScanOpen(t) \/ ScanRecord(t) \/ EndMerge(t) \/ Release(t)
  <2>1. index' = index /\ ~Relocating /\ ~Relocating'
    BY <1>2, <1>3 DEF Select, ScanOpen, ScanRecord, EndMerge, Release, Return, Goto, CallTypes
  <2> QED
    BY <1>0, <1>2, <2>1 DEF Copies
<1>4. CASE BeginCommit(t)
  <2>1. index' = index /\ ~Relocating /\ start' = lastId + 1
    BY <1>2, <1>4 DEF BeginCommit, NextFileId
  <2>2. ASSUME NEW k \in Keys, newPos'[k] # Nil, p = Rebase(newPos[k])' PROVE FALSE
    <3>1. newPos'[k] = newPos[k] /\ newPos[k] \in Position
      BY <1>4, <2>2 DEF BeginCommit, MergeTypes
    <3>2. p.file = start' + newPos[k].file /\ newPos[k].file \in Nat
      BY <2>2, <3>1 DEF Rebase, Pos, Position, FileIds
    <3> QED
      BY <1>1, <2>1, <3>2 DEF StoreTypes, FileIds
  <2>3. p \notin Copies' /\ p \notin Copies
    BY <2>1, <2>2 DEF Copies
  <2> QED
    BY <1>0, <1>2, <2>1, <2>3
<1>5. CASE Recheck(t)
  <2>1. pc[t] = "recheck" /\ pc' = pc /\ UNCHANGED <<index, start>>
    BY <1>5 DEF Recheck
  <2>2. newPos' = newPos
    <3>1. PICK k \in {j \in Keys : newPos[j] # Nil} :
            IF StillCandidate(index[k])
            THEN moving' = {k} /\ UNCHANGED newPos
            ELSE newPos' = [newPos EXCEPT ![k] = Nil] /\ UNCHANGED moving
      BY <1>5 DEF Recheck
    <3>2. StillCandidate(index[k])
      BY <2>1, <3>1 DEF OnceOK, CopiedOnceAt, InCandidate, StillCandidate
    <3> QED
      BY <3>1, <3>2
  <2>3. Copies' = Copies
    BY <1>2, <2>1, <2>2 DEF Copies, Rebase
  <2> QED
    BY <1>0, <1>2, <2>1, <2>3
<1>6. CASE Relocate(t)
  <2>1. PICK j \in moving : /\ index' = [index EXCEPT ![j] = Rebase(newPos[j])]
                            /\ newPos' = [newPos EXCEPT ![j] = Nil]
    BY <1>6 DEF Relocate
  <2>2. pc[t] = "recheck" /\ pc' = pc /\ start' = start /\ Relocating /\ Relocating'
    BY <1>2, <1>6 DEF Relocate
  <2>3. j \in Keys /\ newPos[j] # Nil
    BY <2>1 DEF MergeTypes, CopiesOK
  <2>4. index[j] # Nil /\ index[j].file \in cand
    BY <2>2, <2>3 DEF OnceOK, CopiedOnceAt, InCandidate
  <2>5. p # index[j]
    BY <1>1, <1>6, <2>4
  <2>6. PICK q : q = Rebase(newPos[j])
    OBVIOUS
  <2>7. /\ \A k \in Keys : index'[k] = IF k = j THEN q ELSE index[k]
        /\ \A k \in Keys : newPos'[k] = IF k = j THEN Nil ELSE newPos[k]
    BY <2>1, <2>6 DEF StoreTypes, MergeTypes
  <2>8. /\ p \in Copies <=> \E k \in Keys : newPos[k] # Nil /\ p = Rebase(newPos[k])
        /\ p \in Copies' <=> \E k \in Keys : newPos'[k] # Nil /\ p = Rebase(newPos[k])'
    BY <2>2 DEF Copies
  <2>9. \A k \in Keys : k # j => Rebase(newPos[k])' = Rebase(newPos[k])
    BY <2>2, <2>7 DEF Rebase
  <2>10. p \in InUse <=> p = q \/ \E k \in Keys : k # j /\ (p = index[k] \/ (newPos[k] # Nil /\ p = Rebase(newPos[k])))
    BY <1>2, <2>3, <2>5, <2>6, <2>8
  <2>11. p \in InUse' <=> p = q \/ \E k \in Keys : k # j /\ (p = index[k] \/ (newPos[k] # Nil /\ p = Rebase(newPos[k])))
    <3>1. p \in {index'[k] : k \in Keys} <=> p = q \/ \E k \in Keys : k # j /\ p = index[k]
      BY <2>3, <2>7
    <3>2. p \in Copies' <=> \E k \in Keys : k # j /\ newPos[k] # Nil /\ p = Rebase(newPos[k])
      BY <2>7, <2>8, <2>9
    <3> QED
      BY <1>2, <3>1, <3>2
  <2> QED
    BY <1>0, <2>10, <2>11
<1>7. CASE BeginCleanup(t)
  <2>1. index' = index /\ newPos = NoIndex /\ newPos' = newPos
    BY <1>7 DEF BeginCleanup
  <2>2. p \notin Copies /\ p \notin Copies'
    BY <2>1 DEF Copies, NoIndex
  <2> QED
    BY <1>0, <1>2, <2>1, <2>2
<1> QED
  BY <1>3, <1>4, <1>5, <1>6, <1>7 DEF MergeStep, MergeError, RenameError

\* A renamed file holds copies only.
LEMMA RenamedLive ==
  ASSUME IInv, OnceOK, NEW t \in Threads, Rename(t), NEW i \in 1 .. Len(tmp[moved].recs)
  PROVE  Pos(MergedId, i) \in Copies'
<1> USE DEF IInv, TypeOK
<1>1. /\ pc[t] = "rename" /\ pc' = pc /\ UNCHANGED <<newPos, start>> /\ moved <= cur
      /\ MergedId = start + moved
  BY DEF Rename, MergedId
<1>2. moved \in FileIds
  BY <1>1 DEF MergeTypes, FileIds
<1>3. tmp[moved].recs \in Seq(Record)
  BY <1>2 DEF MergeTypes, File
<1>4. PICK k : k = tmp[moved].recs[i].key
  OBVIOUS
<1>5. k \in Keys /\ i \in DOMAIN tmp[moved].recs /\ i \in Nat \ {0}
  <2>1. tmp[moved].recs[i] \in Record /\ i \in DOMAIN tmp[moved].recs /\ i \in Nat \ {0}
    BY <1>3
  <2> QED
    BY <1>4, <2>1 DEF Record
<1>6. newPos[k] = Pos(moved, i)
  BY <1>1, <1>2, <1>4, <1>5 DEF OnceOK, CopiedOnceAt
<1>7. newPos[k] # Nil /\ Rebase(newPos[k]) = Pos(MergedId, i)
  BY <1>1, <1>2, <1>5, <1>6 DEF Rebase, Pos, Position
<1>8. Relocating'
  BY <1>1 DEF Relocating
<1>9. newPos'[k] # Nil /\ Rebase(newPos[k])' = Pos(MergedId, i)
  BY <1>1, <1>7 DEF Rebase
<1> QED
  BY <1>5, <1>8, <1>9 DEF Copies

\* A file that is new and empty, or holds nothing but copies, has no garbage.
LEMMA NewAccount ==
  ASSUME NEW f \in FileIds, reclaim'[f] = 0, NEW recs \in Seq(Record), disk'[f].recs = recs,
         \A i \in 1 .. Len(recs) : Pos(f, i) \in InUse'
  PROVE  Account(f)'
<1>1. PICK M : M = InUse'
  OBVIOUS
<1>2. Total(Waste(recs, f, M)) = 0
  BY <1>1, NoWaste
<1> QED
  BY <1>1, <1>2 DEF Account, DeadSize

\* Every step of a merge keeps the counters of the files it does not remove right.
LEMMA MergeAccount ==
  ASSUME SingleWriter, IoErrors = FALSE, IInv, SInv, OnceOK, OrderOK, TopOK, AccountOK,
         NEW t \in Threads, MergeStep(t),
         NEW f \in FileIds, f \in ((older \cup {active}) \ Dying)'
  PROVE  Account(f)'
<1> USE DEF IInv, TypeOK
<1>0. /\ status = "up" /\ \A g \in older \cup {active} : g <= lastId /\ g \in FileIds
      /\ StoreTypes /\ reclaim \in [FileIds -> Nat] /\ lastId \in Nat /\ f \in Nat
  <2>1. status = "up"
    BY StatusStep DEF Step
  <2> QED
    BY <2>1 DEF FilesOK, StoreTypes, FileIds
<1>1. /\ Relocating <=> pc[t] \in {"rename", "recheck"}
      /\ Dying = IF pc[t] \in {"recheck", "cleanup"} THEN cand ELSE {}
      /\ Dying' = IF pc'[t] \in {"recheck", "cleanup"} THEN cand' ELSE {}
      /\ InUse' = {index'[k] : k \in Keys} \cup Copies'
  BY MergeBare DEF SInv
<1>2. \A g \in (older \cup {active}) \ Dying : Account(g)
  BY <1>0 DEF AccountOK, CountedOK, Account
<1>3. ASSUME ~Rename(t), ~SwapActive(t), ~RemoveCandidate(t), f \in (older \cup {active}) \ Dying,
             disk' = disk, reclaim' = reclaim, ~Relocate(t) \/ f \notin cand
      PROVE  Account(f)'
  BY <1>0, <1>2, <1>3, MergeUses, KeepsAccount
<1>4. CASE Select(t) \/ ScanOpen(t) \/ ScanRecord(t) \/ BeginCommit(t) \/ Recheck(t) \/ BeginCleanup(t)
  <2>1. UNCHANGED <<disk, reclaim, older, active>>
    BY <1>4 DEF Select, ScanOpen, ScanRecord, BeginCommit, Recheck, BeginCleanup
  <2>2. Dying \subseteq Dying'
    BY <1>1, <1>4 DEF Select, ScanOpen, ScanRecord, BeginCommit, Recheck, BeginCleanup, Goto, CallTypes
  <2> QED
    BY <1>3, <1>4, <2>1, <2>2 DEF Select, ScanOpen, ScanRecord, BeginCommit, Recheck, BeginCleanup,
      Rename, SwapActive, RemoveCandidate, Relocate
<1>5. CASE EndMerge(t) \/ Release(t)
  <2>1. UNCHANGED <<disk, reclaim, older, active>>
    BY <1>5 DEF EndMerge, Release
  <2>2. f \notin Dying
    <3>1. CASE EndMerge(t)
      <4>1. pc[t] = "cleanup" /\ todo = {}
        BY <3>1 DEF EndMerge
      <4>2. cand \cap older = {}
        BY <4>1 DEF AccountOK, CountsAt
      <4>3. \A g \in cand : g < lastId
        BY <4>1 DEF TopOK
      <4>4. ~Renaming
        BY <4>1, OneMerger DEF Renaming, MergePCs, CommitPCs
      <4>5. lastId = active
        BY <1>0, <4>4 DEF OrderOK
      <4> QED
        BY <1>0, <1>1, <2>1, <4>2, <4>3, <4>5
    <3>2. CASE Release(t)
      BY <1>1, <3>2 DEF Release
    <3> QED
      BY <1>5, <3>1, <3>2
  <2> QED
    BY <1>3, <1>5, <2>1, <2>2 DEF EndMerge, Release, Rename, SwapActive, RemoveCandidate, Relocate
<1>6. CASE Rename(t)
  <2>1. /\ pc[t] = "rename" /\ pc' = pc /\ MergedId = lastId + 1 /\ MergedId \in FileIds
        /\ UNCHANGED <<index, reclaim, active, cand, newPos, start>>
        /\ older' = older \cup {MergedId} /\ disk' = [disk EXCEPT ![MergedId] = tmp[moved]]
    BY <1>6, FreshIds DEF Rename
  <2>2. InUse' = InUse
    <3>1. Copies' = Copies
      BY <2>1 DEF Copies, Relocating, Rebase
    <3> QED
      BY <2>1, <3>1, <1>1, <1>6, MergeBare DEF SInv
  <2>3. CASE f # MergedId
    <3>1. f \in (older \cup {active}) \ Dying /\ disk'[f] = disk[f]
      BY <1>1, <2>1, <2>3 DEF StoreTypes
    <3> QED
      BY <1>0, <1>2, <2>1, <2>2, <3>1, KeepsAccount
  <2>4. CASE f = MergedId
    <3>1. reclaim'[f] = 0
      BY <1>0, <2>1, <2>4 DEF AccountOK, UnwrittenOK
    <3>2. moved \in FileIds /\ disk'[f].recs = tmp[moved].recs
      BY <1>6, <2>1, <2>4 DEF Rename, MergeTypes, FileIds, StoreTypes
    <3>3. tmp[moved].recs \in Seq(Record)
      BY <3>2 DEF MergeTypes, File
    <3>4. \A i \in 1 .. Len(tmp[moved].recs) : Pos(f, i) \in InUse'
      BY <1>1, <1>6, <2>4, RenamedLive
    <3> QED
      BY <3>1, <3>2, <3>3, <3>4, NewAccount
  <2> QED
    BY <2>3, <2>4
<1>7. CASE SwapActive(t)
  <2>1. /\ pc[t] = "rename" /\ NewActiveId = lastId + 1 /\ NewActiveId \in FileIds
        /\ UNCHANGED <<disk, index, reclaim, cand, newPos, start>>
        /\ older' = older \cup {active} /\ active' = NewActiveId /\ pc'[t] = "recheck"
    BY <1>7, FreshIds DEF SwapActive, Goto, CallTypes
  <2>2. InUse' = InUse
    <3>1. Relocating /\ Relocating'
      BY <1>1, <1>7, <2>1, MergeBare DEF SInv
    <3>2. Copies' = Copies
      BY <2>1, <3>1 DEF Copies, Rebase
    <3> QED
      BY <2>1, <3>2, <1>1, <1>7, MergeBare DEF SInv
  <2>3. CASE f # NewActiveId
    <3>1. f \in (older \cup {active}) \ Dying
      BY <1>1, <2>1, <2>3
    <3> QED
      BY <1>0, <1>2, <2>1, <2>2, <3>1, KeepsAccount
  <2>4. CASE f = NewActiveId
    <3>1. reclaim'[f] = 0
      BY <1>0, <2>1, <2>4 DEF AccountOK, UnwrittenOK
    <3>2. disk'[f] = EmptyFile
      BY <1>0, <2>1, <2>4, EmptyAbove
    <3>3. disk'[f].recs = <<>> /\ <<>> \in Seq(Record) /\ \A i \in 1 .. Len(<<>>) : FALSE
      BY <3>2 DEF EmptyFile
    <3> QED
      BY <3>1, <3>3, NewAccount
  <2> QED
    BY <2>3, <2>4
<1>8. CASE Relocate(t)
  <2>1. UNCHANGED <<disk, reclaim, older, active, cand>> /\ pc' = pc /\ pc[t] = "recheck"
    BY <1>8 DEF Relocate
  <2>2. Dying' = Dying /\ f \notin cand
    BY <1>1, <2>1
  <2> QED
    BY <1>3, <1>8, <2>1, <2>2 DEF Rename, SwapActive, RemoveCandidate
<1>9. CASE RemoveCandidate(t)
  <2>1. /\ pc[t] = "cleanup" /\ pc' = pc /\ UNCHANGED <<disk, index, active, cand, newPos>>
    BY <1>9 DEF RemoveCandidate
  <2>2. PICK g \in todo : older' = older \ {g} /\ reclaim' = [reclaim EXCEPT ![g] = 0]
    BY <1>9 DEF RemoveCandidate
  <2>3. g \in cand
    BY <2>1, <2>2 DEF SInv, MergeFilesAt
  <2>4. f \in (older \cup {active}) \ Dying /\ f # g
    BY <1>1, <2>1, <2>2, <2>3
  <2>5. InUse' = InUse
    <3>1. ~Relocating /\ ~Relocating'
      BY <1>1, <1>9, <2>1, MergeBare DEF SInv
    <3> QED
      BY <2>1, <3>1, <1>1, <1>9, MergeBare DEF SInv, Copies
  <2>6. reclaim'[f] = reclaim[f]
    BY <1>0, <2>2, <2>4
  <2> QED
    BY <1>0, <1>2, <2>1, <2>4, <2>5, <2>6, KeepsAccount
<1> QED
  BY <1>4, <1>5, <1>6, <1>7, <1>8, <1>9 DEF MergeStep, MergeError, RenameError

\* What is in use when t is the only thread that changes anything, outside a commit.
UsedBy(t, p) ==
  \/ Written(t) /\ p = pos[t]
  \/ \E k \in Keys : p = index[k] /\ ~(Counted(t) /\ req[t].key = k)

\* What is in use is what that thread uses, when no other has anything of its own.
LEMMA OneUses ==
  ASSUME NEW t \in Threads, \A u \in Threads : u # t => ~Counted(u) /\ ~Written(u),
         ~Relocating, NEW p
  PROVE  p \in InUse <=> UsedBy(t, p)
<1>1. Copies = {}
  BY DEF Copies
<1>2. \A k : k \in CountedKeys <=> Counted(t) /\ req[t].key = k
  BY DEF CountedKeys
<1>3. p \in {pos[u] : u \in {v \in Threads : Written(v)}} <=> Written(t) /\ p = pos[t]
  OBVIOUS
<1>4. p \in {index[k] : k \in Keys \ CountedKeys}
      <=> \E k \in Keys : p = index[k] /\ ~(Counted(t) /\ req[t].key = k)
  BY <1>2
<1> QED
  BY <1>1, <1>3, <1>4 DEF InUse, UsedBy

\* So it is in the next state.
LEMMA OneUsesNext ==
  ASSUME NEW t \in Threads, \A u \in Threads : u # t => ~Counted(u)' /\ ~Written(u)',
         ~Relocating', NEW p
  PROVE  p \in InUse' <=> UsedBy(t, p)'
<1>1. Copies' = {}
  BY DEF Copies
<1>2. \A k : k \in CountedKeys' <=> Counted(t)' /\ req'[t].key = k
  BY DEF CountedKeys
<1>3. p \in {pos'[u] : u \in {v \in Threads : Written(v)'}} <=> Written(t)' /\ p = pos'[t]
  OBVIOUS
<1>4. p \in {index'[k] : k \in Keys \ CountedKeys'}
      <=> \E k \in Keys : p = index'[k] /\ ~(Counted(t)' /\ req'[t].key = k)
  BY <1>2
<1> QED
  BY <1>1, <1>3, <1>4 DEF InUse, UsedBy

\* A block of a put or a delete runs alone: no other call is past its write, and no
\* merge renames or removes a file.
LEMMA WriterAlone ==
  ASSUME SingleWriter, IInv, SInv, NEW t \in Threads, Step(t), ~Quiet(t), ~MergeStep(t)
  PROVE  /\ \A u \in Threads : u # t => ~Counted(u) /\ ~Written(u)
         /\ \A u \in Threads : u # t => ~Counted(u)' /\ ~Written(u)'
         /\ ~Relocating /\ ~Relocating' /\ Dying = {} /\ Dying' = {}
<1> USE DEF IInv, TypeOK
<1>1. pc[t] \notin MergePCs /\ pc'[t] \notin {"rename", "recheck", "cleanup"}
  <2>1. pc[t] \in {"check", "reread", "readOld", "count", "ensure", "rotate", "append",
                   "index", "unindex", "trigger", "cas"}
    BY DEF Step, Quiet, Lookup, Read, Check, Reread, ReadOld, ReadOldPosition, Count, Ensure,
      Rotate, AppendRecord, CallError, Index, Unindex, Trigger, CompareExchange
  <2>2. pc'[t] \in {"idle", "lookup", "read", "reread", "readOld", "count", "ensure", "rotate",
                    "append", "index", "unindex", "trigger", "cas", "select"}
    BY DEF Step, Lookup, Read, Check, Reread, ReadOld, ReadOldPosition, Count, Ensure,
      Rotate, AppendRecord, CallError, Index, Unindex, Applied, Trigger, CompareExchange, Return,
      Goto, CallTypes
  <2> QED
    BY <2>1, <2>2 DEF MergePCs, CommitPCs
<1>2. ASSUME NEW u \in Threads, u # t PROVE Quiet(u) /\ pc'[u] = pc[u]
  <2>1. Quiet(u)
    BY <1>2 DEF SInv, RolesOK, SingleWriter
  <2>2. Same(u)
    BY <1>2, OthersSame
  <2> QED
    BY <2>1, <2>2 DEF Same
<1>3. \A u \in Threads : u # t => ~Counted(u) /\ ~Written(u)
  BY <1>2, UsesNothing
<1>4. \A u \in Threads : u # t => ~Counted(u)' /\ ~Written(u)'
  BY <1>2 DEF Quiet, Counted, Written, HoldsPos
<1>5. \A u \in Threads : pc[u] \notin {"rename", "recheck", "cleanup"}
                         /\ pc'[u] \notin {"rename", "recheck", "cleanup"}
  BY <1>1, <1>2 DEF Quiet, MergePCs, CommitPCs
<1> QED
  BY <1>3, <1>4, <1>5 DEF Relocating, Dying

\* The blocks that neither write nor count, and a rotation, leave what is in use as it
\* was: a put that takes effect has counted the position it replaces.
LEMMA UsedStays ==
  ASSUME IoErrors = FALSE, IInv, NEW t \in Threads, LogCallOK(t), Step(t), ~Quiet(t), ~MergeStep(t),
         ~Count(t), ~AppendRecord(t), NEW p, p # Nil
  PROVE  UsedBy(t, p)' <=> UsedBy(t, p)
<1> USE DEF IInv, TypeOK
<1>1. CASE Check(t) \/ Ensure(t) \/ Trigger(t) \/ CompareExchange(t) \/ Rotate(t)
  <2>1. index' = index
    BY <1>1 DEF Check, Ensure, Trigger, CompareExchange, Rotate
  <2>2. ~Written(t) /\ ~Written(t)'
    BY <1>1 DEF Check, Ensure, Trigger, CompareExchange, Rotate, Written, HoldsPos, Return, Goto, CallTypes
  <2>3. Counted(t)' <=> Counted(t)
    BY <1>1 DEF Check, Ensure, Trigger, CompareExchange, Rotate, Counted, Return, Goto, CallTypes
  <2>4. Counted(t) => req' = req
    BY <1>1 DEF Check, Ensure, Trigger, CompareExchange, Rotate, Counted, Return, Goto, CallTypes
  <2> QED
    BY <2>1, <2>2, <2>3, <2>4 DEF UsedBy
<1>2. CASE Reread(t) \/ ReadOld(t)
  <2>1. UNCHANGED <<index, req, pos>> /\ ~Counted(t)
    BY <1>2 DEF Reread, ReadOld, ReadOldPosition, Counted
  <2>2. Written(t)' <=> Written(t)
    BY <1>2 DEF Reread, ReadOld, ReadOldPosition, Written, HoldsPos, Goto, CallTypes, ThreadsOK
  <2>3. Counted(t)' => index[req[t].key] = Nil
    BY <1>2 DEF Reread, ReadOld, ReadOldPosition, Counted, Goto, CallTypes
  <2> QED
    BY <2>1, <2>2, <2>3 DEF UsedBy
<1>3. CASE Index(t)
  <2>1. Written(t) /\ Counted(t) /\ req[t].key \in Keys
    BY <1>3 DEF Index, Written, HoldsPos, Counted, ThreadsOK, Request
  <2>2. ~Written(t)' /\ ~Counted(t)'
    BY <1>3 DEF Index, Applied, Goto, Written, HoldsPos, Counted, CallTypes
  <2>3. \A k \in Keys : index'[k] = IF k = req[t].key THEN pos[t] ELSE index[k]
    BY <1>3 DEF Index, StoreTypes
  <2> QED
    BY <2>1, <2>2, <2>3 DEF UsedBy
<1>4. CASE Unindex(t)
  <2>1. ~Written(t) /\ Counted(t)
    BY <1>4 DEF Unindex, Written, HoldsPos, Counted, LogCallOK
  <2>2. ~Written(t)' /\ ~Counted(t)'
    BY <1>4 DEF Unindex, Applied, Goto, Written, HoldsPos, Counted, CallTypes
  <2>3. \A k \in Keys : index'[k] = IF k = req[t].key THEN Nil ELSE index[k]
    BY <1>4 DEF Unindex, StoreTypes
  <2> QED
    BY <2>1, <2>2, <2>3 DEF UsedBy
<1> QED
  BY <1>1, <1>2, <1>3, <1>4, QuietStep DEF Step, Lookup, Read, Quiet, CallError

\* A write adds to the active file a tombstone, or a record that is in use.
LEMMA AppendAccount ==
  ASSUME SingleWriter, IInv, SInv, NEW t \in Threads, AppendRecord(t), LogCallOK(t),
         NEW f \in FileIds, Account(f)
  PROVE  Account(f)'
<1> USE DEF IInv, TypeOK
<1>1. PICK r : r = [key |-> req[t].key, val |-> req[t].val]
  OBVIOUS
<1>2. PICK recs, new : recs = disk[active].recs /\ new = Pos(active, Len(recs) + 1)
  OBVIOUS
<1>3. /\ r \in Record /\ active \in FileIds /\ recs \in Seq(Record) /\ Len(recs) \in Nat
      /\ req[t].op \in {"put", "delete"}
  <2>1. pc[t] = "append" /\ req[t] \in Request /\ active \in FileIds
    BY DEF AppendRecord, ThreadsOK, StoreTypes
  <2>2. recs \in Seq(Record)
    BY <1>2, <2>1 DEF StoreTypes, File
  <2>3. Len(recs) \in Nat
    BY <2>2
  <2> QED
    BY <1>1, <2>1, <2>2, <2>3 DEF Record, Request, ThreadsOK
<1>4. /\ disk' = [disk EXCEPT ![active] = Write(@, r)] /\ UNCHANGED <<reclaim, index, req>>
      /\ pc[t] = "append"
  BY <1>1 DEF AppendRecord, Appended
<1>5. /\ \A u \in Threads : u # t => ~Counted(u) /\ ~Written(u)
      /\ \A u \in Threads : u # t => ~Counted(u)' /\ ~Written(u)'
      /\ ~Relocating /\ ~Relocating'
  <2>1. Step(t) /\ ~Quiet(t) /\ ~MergeStep(t)
    BY <1>4, InMerge DEF Step, Quiet, MergeStep, Select, ScanOpen, ScanRecord, BeginCommit, Rename,
      SwapActive, Recheck, Relocate, BeginCleanup, RemoveCandidate, EndMerge, MergeError, RenameError,
      Release
  <2> QED
    BY <2>1, WriterAlone
<1>6. ASSUME NEW p, p # new PROVE p \in InUse' <=> p \in InUse
  <2>1. UsedBy(t, p)' <=> UsedBy(t, p)
    <3>1. CASE req[t].op = "put"
      <4>1. pc'[t] = "readOld" /\ pos'[t] = new
        BY <1>2, <3>1 DEF AppendRecord, Goto, CallTypes, WriteOffset
      <4>2. ~Written(t) /\ ~Counted(t) /\ ~Counted(t)'
        BY <1>4, <3>1, <4>1 DEF Written, HoldsPos, Counted
      <4> QED
        BY <1>4, <1>6, <4>1, <4>2 DEF UsedBy
    <3>2. CASE req[t].op = "delete"
      <4>1. pc'[t] = "unindex"
        BY <3>2 DEF AppendRecord, Goto, CallTypes
      <4>2. ~Written(t) /\ ~Written(t)' /\ Counted(t) /\ Counted(t)'
        BY <1>4, <3>2, <4>1 DEF Written, HoldsPos, Counted
      <4> QED
        BY <1>4, <4>2 DEF UsedBy
    <3> QED
      BY <1>3, <3>1, <3>2
  <2> QED
    BY <1>5, <2>1, OneUses, OneUsesNext
<1>7. CASE f # active
  <2>1. disk'[f] = disk[f] /\ reclaim'[f] = reclaim[f] /\ \A i : Pos(f, i) # new
    BY <1>2, <1>4, <1>7 DEF StoreTypes, Pos
  <2> QED
    BY <1>6, <2>1, KeepsAccount
<1>8. CASE f = active
  <2>1. disk'[f].recs = Append(recs, r) /\ reclaim'[f] = reclaim[f] /\ disk[f].recs = recs
    BY <1>2, <1>4, <1>8 DEF StoreTypes, Write
  <2>2. \A i \in 1 .. Len(recs) : Pos(f, i) \in InUse' <=> Pos(f, i) \in InUse
    <3>1. \A i \in 1 .. Len(recs) : Pos(f, i) # new
      BY <1>2, <1>3 DEF Pos
    <3> QED
      BY <1>6, <3>1
  <2>3. r.val = Deleted \/ Pos(f, Len(recs) + 1) \in InUse'
    <3>1. CASE req[t].op = "put"
      <4>1. pc'[t] = "readOld" /\ pos'[t] = new
        BY <1>2, <3>1 DEF AppendRecord, Goto, CallTypes, WriteOffset
      <4>2. UsedBy(t, new)'
        BY <4>1 DEF UsedBy, Written, HoldsPos
      <4> QED
        BY <1>2, <1>5, <1>8, <4>2, OneUsesNext
    <3>2. CASE req[t].op = "delete"
      BY <1>1, <1>4, <3>2 DEF LogCallOK
    <3> QED
      BY <1>3, <3>1, <3>2
  <2>4. PICK L, M : L = InUse /\ M = InUse'
    OBVIOUS
  <2>5. Total(Waste(Append(recs, r), f, M)) = Total(Waste(recs, f, L))
    BY <1>3, <2>2, <2>3, <2>4, AppendWaste
  <2> QED
    BY <2>1, <2>4, <2>5 DEF Account, DeadSize
<1> QED
  BY <1>7, <1>8

\* A position is counted once, while it is in use, and never after.
LEMMA CountAccount ==
  ASSUME SingleWriter, IInv, SInv, NEW t \in Threads, Count(t), CountsAt(t),
         NEW f \in FileIds, Account(f)
  PROVE  Account(f)'
<1> USE DEF IInv, TypeOK
<1>1. PICK o, key : o = old[t] /\ key = req[t].key
  OBVIOUS
<1>2. /\ pc[t] = "count" /\ Names(key, o) /\ key \in Keys /\ o = index[key]
      /\ req[t].op \in {"put", "delete"}
  BY <1>1 DEF Count, PositionsOK, Held, ThreadsOK, Request, CountsAt
<1>3. o \in Position /\ o.file \in FileIds /\ o.off \in Nat /\ o.off > 0
  BY <1>2 DEF Names, Position
<1>4. /\ UNCHANGED <<disk, index, req, pos>>
      /\ reclaim' = [reclaim EXCEPT ![o.file] = @ + Size[RecordAt(o).val]]
  BY <1>1 DEF Count, OldSize
<1>5. /\ \A u \in Threads : u # t => ~Counted(u) /\ ~Written(u)
      /\ \A u \in Threads : u # t => ~Counted(u)' /\ ~Written(u)'
      /\ ~Relocating /\ ~Relocating'
  <2>1. Step(t) /\ ~Quiet(t) /\ ~MergeStep(t)
    BY <1>2 DEF Step, Quiet, MergeStep, Select, ScanOpen, ScanRecord, BeginCommit, Rename,
      SwapActive, Recheck, Relocate, BeginCleanup, RemoveCandidate, EndMerge, MergeError, RenameError,
      Release
  <2> QED
    BY <2>1, WriterAlone
<1>6. ~Counted(t) /\ Counted(t)' /\ (Written(t)' <=> Written(t))
  BY <1>2 DEF Count, Counted, Written, HoldsPos, Goto, CallTypes
<1>7. ASSUME NEW p, p # o PROVE p \in InUse' <=> p \in InUse
  <2>1. UsedBy(t, p)' <=> UsedBy(t, p)
    BY <1>1, <1>2, <1>4, <1>6, <1>7 DEF UsedBy
  <2> QED
    BY <1>5, <2>1, OneUses, OneUsesNext
<1>8. o \in InUse
  BY <1>2, <1>5, <1>6, OneUses DEF UsedBy
<1>9. o \notin InUse'
  <2>1. Written(t) => pos[t] # o
    BY <1>1, <1>2 DEF CountsAt
  <2>2. ASSUME NEW k \in Keys, index[k] = o PROVE k = key
    BY <1>2, <1>3, <2>2 DEF PositionsOK, Held, Names
  <2>3. ~UsedBy(t, o)'
    BY <1>1, <1>4, <1>6, <2>1, <2>2 DEF UsedBy
  <2> QED
    BY <1>5, <2>3, OneUsesNext
<1>10. CASE f # o.file
  <2>1. disk'[f] = disk[f] /\ reclaim'[f] = reclaim[f] /\ \A i : Pos(f, i) # o
    BY <1>4, <1>10 DEF StoreTypes, Pos
  <2> QED
    BY <1>7, <2>1, KeepsAccount
<1>11. CASE f = o.file
  <2>1. PICK recs, j : recs = disk[f].recs /\ j = o.off
    OBVIOUS
  <2>2. recs \in Seq(Record) /\ Pos(f, j) = o /\ RecordAt(o) = recs[j]
    BY <1>3, <1>11, <2>1 DEF StoreTypes, File, Pos, Position, RecordAt
  <2>3. j \in 1 .. Len(recs) /\ recs[j].val # Deleted
    <3>1. Len(recs) \in Nat
      BY <2>2
    <3> QED
      BY <1>2, <1>3, <1>11, <2>1, <2>2, <3>1 DEF Names
  <2>4. \A i \in 1 .. Len(recs) : i # j => (Pos(f, i) \in InUse' <=> Pos(f, i) \in InUse)
    <3>1. \A i \in 1 .. Len(recs) : i # j => Pos(f, i) # o
      BY <2>2 DEF Pos
    <3> QED
      BY <1>7, <3>1
  <2>5. PICK L, M : L = InUse /\ M = InUse'
    OBVIOUS
  <2>6. Total(Waste(recs, f, M)) = Total(Waste(recs, f, L)) + Size[recs[j].val]
    BY <1>8, <1>9, <2>2, <2>3, <2>4, <2>5, CountWaste
  <2>7. reclaim'[f] = reclaim[f] + Size[recs[j].val]
    BY <1>4, <1>11, <2>2 DEF StoreTypes
  <2> QED
    BY <1>4, <2>1, <2>5, <2>6, <2>7 DEF Account, DeadSize
<1> QED
  BY <1>10, <1>11

\* Every other block of a put or a delete keeps the counters right.
LEMMA WriterAccount ==
  ASSUME SingleWriter, IoErrors = FALSE, IInv, SInv, OrderOK, TopOK, AccountOK, Next,
         NEW t \in Threads, Step(t), ~Quiet(t), ~MergeStep(t), LogCallOK(t),
         NEW f \in FileIds, f \in ((older \cup {active}) \ Dying)'
  PROVE  Account(f)'
<1> USE DEF IInv, TypeOK
<1>1. /\ \A u \in Threads : u # t => ~Counted(u) /\ ~Written(u)
      /\ \A u \in Threads : u # t => ~Counted(u)' /\ ~Written(u)'
      /\ ~Relocating /\ ~Relocating' /\ Dying = {} /\ Dying' = {}
  BY WriterAlone
<1>2. status = "up" /\ \A g \in FileIds : g \in older \cup {active} => Account(g)
  <2>1. status = "up"
    BY StatusStep
  <2> QED
    BY <1>1, <2>1 DEF AccountOK, CountedOK, Account
<1>3. CASE AppendRecord(t)
  <2>1. f \in older \cup {active}
    BY <1>3 DEF AppendRecord
  <2> QED
    BY <1>2, <1>3, <2>1, AppendAccount
<1>4. CASE Count(t)
  <2>1. f \in older \cup {active} /\ CountsAt(t)
    BY <1>4 DEF Count, AccountOK
  <2> QED
    BY <1>2, <1>4, <2>1, CountAccount
<1>5. CASE ~AppendRecord(t) /\ ~Count(t)
  <2>1. \A i \in Nat \ {0} : Pos(f, i) \in InUse' <=> Pos(f, i) \in InUse
    <3>1. ASSUME NEW p, p # Nil PROVE p \in InUse' <=> p \in InUse
      <4>1. UsedBy(t, p)' <=> UsedBy(t, p)
        BY <1>5, <3>1, UsedStays
      <4> QED
        BY <1>1, <4>1, OneUses, OneUsesNext
    <3>2. \A i \in Nat \ {0} : Pos(f, i) # Nil
      BY DEF Pos, Position
    <3> QED
      BY <3>1, <3>2
  <2>2. UNCHANGED <<disk, reclaim>>
    BY <1>5, QuietStep DEF Step, Quiet, Lookup, Read, Check, Reread, ReadOld, ReadOldPosition, Ensure, Rotate,
      CallError, Index, Unindex, Applied, Trigger, CompareExchange
  <2>3. CASE f \in older \cup {active}
    BY <1>2, <2>1, <2>2, <2>3, KeepsAccount
  <2>4. CASE f \notin older \cup {active}
    <3>1. f = lastId + 1
      <4>1. (older' = older \cup {active} /\ active' = lastId + 1) \/ UNCHANGED <<older, active>>
        BY <1>5, QuietStep DEF Step, Quiet, Lookup, Read, Check, Reread, ReadOld, ReadOldPosition, Ensure,
          Rotate, CallError, Index, Unindex, Applied, Trigger, CompareExchange, NextFileId
      <4> QED
        BY <2>4, <4>1
    <3>2. lastId < f
      BY <3>1 DEF StoreTypes, FileIds
    <3>3. disk'[f] = EmptyFile
      BY <1>2, <2>2, <3>2, EmptyAbove
    <3>4. reclaim'[f] = 0
      BY <2>2, <3>2 DEF AccountOK, UnwrittenOK
    <3>5. disk'[f].recs = <<>> /\ <<>> \in Seq(Record) /\ \A i \in 1 .. Len(<<>>) : FALSE
      BY <3>3 DEF EmptyFile
    <3> QED
      BY <3>4, <3>5, NewAccount
  <2> QED
    BY <2>3, <2>4
<1> QED
  BY <1>3, <1>4, <1>5

\* A get, and the start of a call, leave what is in use as it was.
LEMMA QuietUses ==
  ASSUME IInv, Next, NEW t \in Threads, Quiet(t), Call(t) \/ Step(t)
  PROVE  InUse' = InUse /\ Dying' = Dying
<1> USE DEF IInv, TypeOK
<1>1. UNCHANGED <<storeVars, mergeVars>> /\ \A u \in Threads : u # t => Same(u)
  BY QuietKeeps
<1>2. Call(t) \/ Lookup(t) \/ Read(t) \/ CallError(t)
  BY QuietStep
<1>3. pc'[t] \in {"idle", "lookup", "read", "ensure", "check"} /\ pc[t] \in {"idle", "lookup", "read"}
  BY <1>2 DEF Call, CallPut, CallDelete, CallGet, Begin, Lookup, Read, CallError, Return, Goto,
    CallTypes, Quiet
<1>4. ~Counted(t) /\ ~Written(t)
  BY UsesNothing
<1>5. ~Written(t)' /\ ~Counted(t)'
  <2>1. pc'[t] = "ensure" => req'[t].op = "put"
    BY <1>2, <1>3 DEF Call, CallPut, CallDelete, CallGet, Begin, Lookup, Read, CallError, Return, Goto,
      CallTypes
  <2> QED
    BY <1>3, <2>1 DEF Written, HoldsPos, Counted
<1>6. \A u \in Threads : /\ Counted(u)' <=> Counted(u)
                         /\ Written(u)' <=> Written(u)
  BY <1>1, <1>4, <1>5 DEF Same, Counted, Written, HoldsPos
<1>7. \A u \in Threads : Counted(u) \/ Written(u) => req'[u] = req[u] /\ pos'[u] = pos[u]
  BY <1>1, <1>4 DEF Same
<1>8. \A u \in Threads : /\ pc'[u] \in {"rename", "recheck"} <=> pc[u] \in {"rename", "recheck"}
                         /\ pc'[u] \in {"recheck", "cleanup"} <=> pc[u] \in {"recheck", "cleanup"}
  BY <1>1, <1>3 DEF Same
<1>9. UNCHANGED <<index, cand, newPos, start>>
  BY <1>1 DEF storeVars
<1>10. Copies' = Copies
  BY <1>8, <1>9 DEF Copies, Relocating, Rebase
<1>11. CountedKeys' = CountedKeys
  BY <1>6, <1>7 DEF CountedKeys
<1>12. {pos'[u] : u \in {v \in Threads : Written(v)'}} = {pos[u] : u \in {v \in Threads : Written(v)}}
  BY <1>6, <1>7
<1>13. Dying' = Dying
  BY <1>8, <1>9 DEF Dying
<1> QED
  BY <1>9, <1>10, <1>11, <1>12, <1>13 DEF InUse

\* A put or a delete counts what the index says, and no put has the position it has
\* written in the index; the clean-up keeps every open candidate on its list.
LEMMA CountsStep ==
  ASSUME SingleWriter, MaxCrashes = 0, IoErrors = FALSE, IInv, SInv, Next, NEW u \in Threads, CountsAt(u)
  PROVE  CountsAt(u)'
<1> USE DEF IInv, TypeOK
<1>0. ~Crash
  BY DEF Crash, BoundTypes
<1>1. CASE pc'[u] \notin {"count", "readOld", "index", "cleanup"}
  BY <1>1 DEF CountsAt, Written, HoldsPos
<1>2. CASE Quiet(u)
  <2>1. pc'[u] \in {"idle", "lookup", "read", "ensure", "check"}
    <3>1. CASE Call(u)
      BY <3>1 DEF Call, CallPut, CallDelete, CallGet, Begin, Goto, CallTypes
    <3>2. CASE Step(u)
      BY <1>2, <3>2, QuietStep DEF Lookup, Read, CallError, Return, Goto, CallTypes
    <3>3. CASE Same(u)
      BY <1>2, <3>3 DEF Same, Quiet
    <3> QED
      BY <1>0, <3>1, <3>2, <3>3, FrameThread
  <2> QED
    BY <1>1, <2>1
<1>3. CASE ~Quiet(u) /\ Same(u) /\ UNCHANGED <<storeVars, mergeVars>>
  BY <1>3 DEF Same, storeVars, CountsAt, Written, HoldsPos
<1>4. CASE ~Quiet(u) /\ Step(u) /\ ~MergeStep(u) /\ ~AppendRecord(u)
  <2>1. CASE Reread(u) \/ ReadOld(u)
    <3>1. /\ UNCHANGED <<index, req, pos>> /\ old'[u] = index[req[u].key]
          /\ pc[u] \in {"reread", "readOld"}
      BY <2>1 DEF Reread, ReadOld, ReadOldPosition, CallTypes
    <3>2. Written(u)' => Written(u)
      BY <2>1 DEF Reread, ReadOld, ReadOldPosition, Written, HoldsPos, Goto, CallTypes, ThreadsOK
    <3>3. pc'[u] # "cleanup"
      BY <2>1 DEF Reread, ReadOld, ReadOldPosition, Goto, CallTypes
    <3> QED
      BY <3>1, <3>2, <3>3 DEF CountsAt
  <2>2. CASE Count(u)
    <3>1. UNCHANGED <<index, req, pos>> /\ pc[u] = "count" /\ pc'[u] \in {"index", "ensure"}
      BY <2>2 DEF Count, Goto, CallTypes
    <3>2. Written(u)' => Written(u)
      BY <2>2, <3>1 DEF Count, Written, HoldsPos, Goto, CallTypes
    <3> QED
      BY <3>1, <3>2 DEF CountsAt
  <2>3. CASE ~(Reread(u) \/ ReadOld(u) \/ Count(u))
    <3>1. pc'[u] \notin {"count", "readOld", "index", "cleanup"}
      BY <1>4, <2>3, QuietStep DEF Step, Check, Ensure, Rotate, CallError, Index, Unindex, Applied,
        Trigger, CompareExchange, Lookup, Read, Quiet, Return, Goto, CallTypes
    <3> QED
      BY <1>1, <3>1
  <2> QED
    BY <2>1, <2>2, <2>3
<1>5. CASE AppendRecord(u)
  <2>1. /\ UNCHANGED <<index, req>> /\ pc'[u] \in {"readOld", "unindex"}
        /\ pc'[u] = "readOld" => pos'[u] = Pos(active, Len(disk[active].recs) + 1)
        /\ req[u].key \in Keys
    BY <1>5 DEF AppendRecord, Goto, CallTypes, WriteOffset, ThreadsOK, Request
  <2>2. ASSUME index[req[u].key] = Pos(active, Len(disk[active].recs) + 1) PROVE FALSE
    <3>1. Pos(active, Len(disk[active].recs) + 1) # Nil
      <4>1. disk[active].recs \in Seq(Record) /\ active \in FileIds
        BY DEF StoreTypes, File
      <4>2. Len(disk[active].recs) + 1 \in Nat \ {0}
        BY <4>1
      <4> QED
        BY <4>1, <4>2 DEF Pos, Position
    <3>2. PICK k \in Keys : k = req[u].key
      BY <2>1
    <3>3. PICK p : p = index[k]
      OBVIOUS
    <3>4. /\ p # Nil /\ p.file = active /\ p.off = Len(disk[active].recs) + 1
          /\ p.off \in 1 .. Len(disk[p.file].recs) /\ disk[p.file].recs \in Seq(Record)
      <4>1. p # Nil /\ p.file = active /\ p.off = Len(disk[active].recs) + 1
        BY <2>2, <3>1, <3>2, <3>3 DEF Pos
      <4>2. p.off \in 1 .. Len(disk[p.file].recs) /\ disk[p.file].recs \in Seq(Record)
        BY <3>3, <4>1, IndexRecord
      <4> QED
        BY <4>1, <4>2
    <3>5. Len(disk[active].recs) \in Nat
      BY <3>4
    <3> QED
      BY <3>4, <3>5
  <2> QED
    BY <2>1, <2>2 DEF CountsAt, Written, HoldsPos
<1>6. CASE MergeStep(u)
  <2>1. CASE BeginCleanup(u)
    BY <2>1 DEF BeginCleanup, Goto, CallTypes, CountsAt, Written, HoldsPos
  <2>2. CASE RemoveCandidate(u)
    BY <2>2 DEF RemoveCandidate, CallTypes, CountsAt, Written, HoldsPos
  <2>3. CASE ~BeginCleanup(u) /\ ~RemoveCandidate(u)
    <3>1. pc'[u] \notin {"count", "readOld", "index", "cleanup"}
      BY <1>6, <2>3 DEF MergeStep, Select, ScanOpen, ScanRecord, BeginCommit, Rename, SwapActive,
        Recheck, Relocate, EndMerge, MergeError, RenameError, Release, Return, Goto, CallTypes
    <3> QED
      BY <1>1, <3>1
  <2> QED
    BY <1>6, <2>1, <2>2, <2>3
<1> QED
  BY <1>0, <1>2, <1>3, <1>4, <1>5, <1>6, WriterActs DEF SInv

\* Start-up finds nothing to replay, and no garbage.
LEMMA StartsClean ==
  ASSUME IInv, UnwrittenOK, Open
  PROVE  disk' = NoFiles /\ reclaim' = NoSizes
<1> USE DEF IInv, TypeOK
<1>1. disk = NoFiles /\ reclaim = NoSizes /\ disk' = disk
  BY DEF Open, OpenFiles, LoadRecord, LoadFileEnd, UnwrittenOK
<1>2. CASE reclaim' = reclaim
  BY <1>1, <1>2
<1>3. CASE reclaim' = InvalidSizes
  <2>1. \A f \in FileIds : disk[f].size = 0 /\ validSize[f] \in Nat /\ reclaim[f] = 0
    BY <1>1 DEF NoFiles, EmptyFile, NoSizes, LoadTypes
  <2>2. InvalidSizes = [f \in FileIds |-> 0]
    BY <2>1 DEF InvalidSizes
  <2> QED
    BY <1>1, <1>3, <2>2 DEF NoSizes
<1> QED
  BY <1>1, <1>2, <1>3 DEF Open, OpenFiles, LoadRecord, LoadFileEnd

\* A file not yet there has no garbage.
LEMMA UnwrittenStep ==
  ASSUME MaxCrashes = 0, IoErrors = FALSE, IInv, UnwrittenOK, Next
  PROVE  UnwrittenOK'
<1> USE DEF IInv, TypeOK
<1>0. ~Crash
  BY DEF Crash, BoundTypes
<1>1. CASE Open
  BY <1>1, StartsClean DEF UnwrittenOK, NoSizes
<1>2. CASE \E t \in Threads : Call(t) \/ Step(t)
  <2>1. PICK t \in Threads : Call(t) \/ Step(t)
    BY <1>2
  <2>2. status' = "up"
    BY <2>1, StatusStep
  <2>3. lastId <= lastId' /\ lastId \in Nat /\ lastId' \in Nat /\ \A f \in FileIds : f \in Nat
    <3>1. StoreTypes'
      BY StoreTypesStep
    <3>2. Grows
      BY <2>1, ThreadGrows
    <3> QED
      BY <3>1, <3>2 DEF Grows, StoreTypes, FileIds
  <2>4. CASE Count(t)
    <3>1. old[t].file <= lastId /\ old[t].file \in FileIds /\ lastId' = lastId
      BY <2>4 DEF Count, PositionsOK, Held, Names, Position
    <3>2. \A f \in FileIds : f # old[t].file => reclaim'[f] = reclaim[f]
      BY <2>4 DEF Count, StoreTypes
    <3> QED
      BY <2>2, <2>3, <3>1, <3>2 DEF UnwrittenOK
  <2>5. CASE RemoveCandidate(t)
    <3>1. \A f \in FileIds : reclaim'[f] = reclaim[f] \/ reclaim'[f] = 0
      BY <2>5 DEF RemoveCandidate, StoreTypes
    <3> QED
      BY <2>2, <2>3, <3>1 DEF UnwrittenOK
  <2>6. CASE ~Count(t) /\ ~RemoveCandidate(t)
    <3>1. reclaim' = reclaim
      <4>1. CASE Call(t) \/ MergeStep(t)
        BY <2>6, <4>1 DEF Call, CallPut, CallDelete, CallGet, Begin, MergeStep, Select, ScanOpen,
          ScanRecord, BeginCommit, Rename, SwapActive, Recheck, Relocate, BeginCleanup, EndMerge,
          MergeError, RenameError, Release
      <4>2. CASE Step(t) /\ ~MergeStep(t)
        BY <2>6, <4>2 DEF Step, Lookup, Read, Check, Reread, ReadOld, ReadOldPosition, Ensure,
          Rotate, AppendRecord, CallError, Index, Unindex, Applied, Trigger, CompareExchange
      <4> QED
        BY <2>1, <4>1, <4>2
    <3> QED
      BY <2>2, <2>3, <3>1 DEF UnwrittenOK
  <2> QED
    BY <2>4, <2>5, <2>6
<1>3. CASE Finished
  BY <1>3 DEF Finished, vars, UnwrittenOK
<1> QED
  BY <1>0, <1>1, <1>2, <1>3 DEF Next

\* A get, or the start of a call, keeps the counters right.
LEMMA QuietAccount ==
  ASSUME IInv, Next, NEW t \in Threads, Quiet(t), Call(t) \/ Step(t), CountedOK, status = "up",
         NEW f \in FileIds, f \in ((older \cup {active}) \ Dying)'
  PROVE  Account(f)'
<1> USE DEF IInv, TypeOK
<1>1. UNCHANGED <<disk, reclaim, older, active>>
  BY QuietKeeps DEF storeVars
<1>2. InUse' = InUse /\ Dying' = Dying
  BY QuietUses
<1>3. Account(f)
  BY <1>1, <1>2 DEF CountedOK, Account
<1> QED
  BY <1>1, <1>2, <1>3, KeepsAccount

\* The counters of the open files are right after every step.
LEMMA CountedStep ==
  ASSUME SingleWriter, MaxCrashes = 0, IoErrors = FALSE, IInv, SInv, OnceOK, OrderOK, TopOK,
         \A t \in Threads : LogCallOK(t), AccountOK, Next, ~Finished
  PROVE  CountedOK'
<1> SUFFICES ASSUME status' = "up", NEW f \in FileIds, f \in ((older \cup {active}) \ Dying)'
             PROVE  Account(f)'
  <2>1. StoreTypes'
    BY StoreTypesStep
  <2>2. (older \cup {active})' \subseteq FileIds
    BY <2>1 DEF StoreTypes
  <2> QED
    BY <2>2 DEF CountedOK, Account
<1>1. ~Crash
  BY DEF Crash, IInv, TypeOK, BoundTypes
<1>2. CASE Open
  <2>1. disk' = NoFiles /\ reclaim' = NoSizes
    BY <1>2, StartsClean DEF AccountOK
  <2>2. reclaim'[f] = 0 /\ disk'[f].recs = <<>>
    BY <2>1 DEF NoFiles, NoSizes, EmptyFile
  <2>3. <<>> \in Seq(Record) /\ \A i \in 1 .. Len(<<>>) : FALSE
    OBVIOUS
  <2> QED
    BY <2>2, <2>3, NewAccount
<1>3. CASE \E t \in Threads : Call(t) \/ Step(t)
  <2>1. PICK t \in Threads : Call(t) \/ Step(t)
    BY <1>3
  <2>2. status = "up"
    BY <2>1, StatusStep
  <2>3. CASE Quiet(t)
    BY <2>1, <2>2, <2>3, QuietAccount DEF AccountOK
  <2>4. CASE MergeStep(t)
    BY <2>4, MergeAccount
  <2>5. CASE ~Quiet(t) /\ ~MergeStep(t)
    <3>1. Step(t)
      BY <2>1, <2>5 DEF Call, CallPut, CallDelete, CallGet, Begin, Quiet
    <3> QED
      BY <2>5, <3>1, WriterAccount
  <2> QED
    BY <2>3, <2>4, <2>5
<1> QED
  BY <1>1, <1>2, <1>3 DEF Next

\* The invariant of the counters, with what a call in progress says of its record.
AccountInv == AccountOK /\ \A t \in Threads : LogCallOK(t)

\* Nothing is counted before the first start.
LEMMA InitAccount == Init => AccountInv
<1> SUFFICES ASSUME Init PROVE AccountInv
  OBVIOUS
<1>1. \A t \in Threads : pc[t] = "idle"
  BY DEF Init
<1>2. UnwrittenOK /\ CountedOK
  BY DEF Init, UnwrittenOK, CountedOK, NoSizes
<1> QED
  BY <1>1, <1>2 DEF AccountInv, AccountOK, CountsAt, LogCallOK, Written, HoldsPos

\* A step that changes nothing keeps the counters right.
LEMMA StutterAccount ==
  ASSUME UNCHANGED vars, AccountInv
  PROVE  AccountInv'
<1> USE DEF vars
<1>1. UnwrittenOK'
  BY DEF AccountInv, AccountOK, UnwrittenOK
<1>2. \A t \in Threads : CountsAt(t)'
  BY DEF AccountInv, AccountOK, CountsAt, Written, HoldsPos
<1>3. \A t \in Threads : LogCallOK(t)'
  BY DEF AccountInv, LogCallOK, Written, HoldsPos, RecordAt
<1>4. CountedOK'
  <2>1. Copies' = Copies
    BY DEF Copies, Relocating, Rebase
  <2>2. CountedKeys' = CountedKeys
    BY DEF CountedKeys, Counted
  <2>3. {pos'[t] : t \in {u \in Threads : Written(u)'}} = {pos[t] : t \in {u \in Threads : Written(u)}}
    BY DEF Written, HoldsPos
  <2>4. InUse' = InUse /\ Dying' = Dying
    BY <2>1, <2>2, <2>3 DEF InUse, Dying
  <2> QED
    BY <2>4 DEF AccountInv, AccountOK, CountedOK, DeadSize
<1> QED
  BY <1>1, <1>2, <1>3, <1>4 DEF AccountInv, AccountOK

\* The invariant of the counters is inductive, on top of those of the merges.
LEMMA AccountStep ==
  ASSUME SingleWriter, MaxCrashes = 0, IoErrors = FALSE, IInv, SInv, OnceOK, OrderOK, TopOK,
         AccountInv, [Next]_vars
  PROVE  AccountInv'
<1>1. CASE UNCHANGED vars
  BY <1>1, StutterAccount
<1>2. CASE Next /\ ~Finished
  <2>1. UnwrittenOK'
    BY <1>2, UnwrittenStep DEF AccountInv, AccountOK
  <2>2. CountedOK'
    BY <1>2, CountedStep DEF AccountInv
  <2>3. \A t \in Threads : CountsAt(t)'
    BY <1>2, CountsStep DEF AccountInv, AccountOK
  <2>4. \A t \in Threads : LogCallOK(t)'
    BY <1>2, LogCallStep DEF AccountInv
  <2> QED
    BY <2>1, <2>2, <2>3, <2>4 DEF AccountInv, AccountOK
<1> QED
  BY <1>1, <1>2 DEF Finished

\* The invariant of the counters holds.
LEMMA AccountInvariant ==
  ASSUME SingleWriter, IoErrors = FALSE, MaxCrashes = 0
  PROVE  Spec => [](IInv /\ AccountInv)
<1> DEFINE Inv == IInv /\ SInv /\ OnceOK /\ OrderOK /\ TopOK
<1>1. Spec => []Inv
  BY OnceInvariant, TopInvariant, PTL
<1>2. Init => AccountInv
  BY InitAccount
<1>3. Inv /\ AccountInv /\ [Next]_vars => AccountInv'
  BY AccountStep
<1>4. Inv => IInv
  OBVIOUS
<1> HIDE DEF Inv
<1> QED
  BY <1>1, <1>2, <1>3, <1>4, PTL DEF Spec

\* file_reclaim_size at every block of a call: with one thread that writes, no failing
\* I/O call and no kill, the counter of each open file is the bytes of its records that
\* are not in use, but for the candidates a commit is about to remove.
THEOREM CountsAlways ==
  ASSUME SingleWriter, IoErrors = FALSE, MaxCrashes = 0
  PROVE  Spec => []AccountOK
<1>1. AccountInv => AccountOK
  BY DEF AccountInv
<1> QED
  BY <1>1, AccountInvariant, PTL

\* Between calls, what is not in the index is garbage.
LEMMA AccountExact ==
  ASSUME IInv, AccountInv
  PROVE  ReclaimExact
<1>1. SUFFICES ASSUME status = "up", \A t \in Threads : Quiet(t)
               PROVE  \A f \in older \cup {active} : reclaim[f] = DeadSize(f, {index[k] : k \in Keys})
  BY DEF ReclaimExact, Quiet
<1>2. \A t \in Threads : ~Counted(t) /\ ~Written(t)
  BY <1>1, UsesNothing
<1>3. Copies = {} /\ Dying = {}
  BY <1>1 DEF Copies, Relocating, Dying, Quiet
<1>4. InUse = {index[k] : k \in Keys}
  BY <1>2, <1>3, Bare
<1> QED
  BY <1>1, <1>3, <1>4 DEF AccountInv, AccountOK, CountedOK

\* file_reclaim_size between calls: with one thread that writes, no failing I/O call and
\* no kill, in every state without a call in progress the counter of each open file is
\* exactly the bytes of its superseded records, whatever puts, deletes, gets, rotations
\* and merges came before.
THEOREM CountsGarbage ==
  ASSUME SingleWriter, IoErrors = FALSE, MaxCrashes = 0
  PROVE  Spec => []ReclaimExact
<1>1. IInv /\ AccountInv => ReclaimExact
  BY AccountExact
<1> QED
  BY <1>1, AccountInvariant, PTL
===============================================================================
