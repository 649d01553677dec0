------------------------------- MODULE KVEngine -------------------------------
(***************************************************************************)
(* The Bitcask-style engine (src/engines/engine.rs, with                   *)
(* src/record/merge.rs and src/index/hash.rs): threads that share one      *)
(* engine handle run put, delete and get; a put or a delete may run a      *)
(* merge before it returns; the process may be killed and started again.   *)
(*                                                                         *)
(* One action is one block of code executed under a lock (or one access to *)
(* the index, which takes its own lock), so two blocks of different        *)
(* threads interleave exactly where the code releases its locks.  The      *)
(* commit phase of a merge holds the active, file_ids and older locks from *)
(* its first rename to the end: the blocks that need one of them wait.     *)
(***************************************************************************)
EXTENDS LogFiles

CONSTANTS
  Threads,      \* threads that hold a clone of the engine
  Ops,          \* the operations each of them calls
  DataFileSize, \* Options.data_file_size
  ThresholdNum, \* Options.compaction_file_threshold is
  ThresholdDen, \*   ThresholdNum / ThresholdDen
  IoErrors,     \* may an I/O call fail?
  MaxCalls,     \* BOUND: calls made in all
  MaxCrashes    \* BOUND: kills of the process

ASSUME EngineAssumption ==
  /\ Ops \in [Threads -> SUBSET {"put", "delete", "get"}]
  /\ DataFileSize \in Nat \ {0}
  /\ ThresholdNum \in Nat \ {0}
  /\ ThresholdDen \in Nat \ {0}
  /\ IoErrors \in BOOLEAN
  /\ MaxCalls \in Nat
  /\ MaxCrashes \in Nat

VARIABLES
  disk,         \* what was written under each file id
  onDisk,       \* the file ids the data directory holds
  status,       \* "down", "loading", "up" or "failed" (open returned Err)
  active,       \* id of active_file
  older,        \* ids in older_files
  lastId,       \* file_ids.last()
  index,        \* the in-memory index
  reclaim,      \* file_reclaim_size; 0 where the map has no entry
  mergeRunning, \* the merge_running flag
  loadFile, loadOff, \* cursor of load_index_from_files
  validSize,    \* its file_valid_size
  cand,         \* merge_candidates
  todo,         \* candidates the current loop of merge has still to visit
  scanFile, scanOff, \* cursor of the scan; scanOff = 0 between files
  tmp, cur,     \* MergeContext: temporary files 0..cur, cur being written
  newPos,       \* MergeContext.new_positions
  start, moved, \* start_merge_id and the number of files renamed
  moving,       \* the key between index.get and index.put of the commit
  pc, req,      \* per thread: next block and the call it serves (Nil if none)
  pos, old,     \* per thread: position written or read, old position
  result,       \* per thread: outcome of its last call
  calls, crashes, \* counters that bound the model
  expected      \* history: per key, the values recovery may restore

diskVars == <<disk, onDisk>>
fileVars == <<active, older, lastId>>
loadVars == <<loadFile, loadOff, validSize>>
mergeVars == <<cand, todo, scanFile, scanOff, tmp, cur, newPos, start, moved, moving>>
localVars == <<pos, old>>
threadVars == <<pc, req, pos, old, result>>
boundVars == <<calls, crashes, expected>>
vars == <<diskVars, status, fileVars, index, reclaim, mergeRunning, loadVars,
          mergeVars, threadVars, boundVars>>

-------------------------------------------------------------------------------
CommitPCs == {"rename", "recheck", "cleanup"}
MergePCs == {"select", "scan", "release"} \cup CommitPCs
\* The blocks before the one in which a call takes effect on the index.
PendingPCs == {"check", "reread", "ensure", "rotate", "append", "readOld",
               "count", "index", "unindex"}
PCs == {"idle", "lookup", "read", "trigger", "cas"} \cup PendingPCs \cup MergePCs

Outcomes == Values \cup {"pending", "ok", "none", "not_found", "file_missing",
                         "io_error"}
Request == [op : {"put", "delete", "get"}, key : Keys, val : Values \cup {Deleted}]

ASSUME RequestAssumption == Nil \notin Request

NoIndex == [k \in Keys |-> Nil]
NoFiles == [f \in FileIds |-> EmptyFile]
NoSizes == [f \in FileIds |-> 0]

RecordAt(p) == disk[p.file].recs[p.off]
ValueAt(p) == IF p = Nil THEN Deleted ELSE RecordAt(p).val

\* The value of a key through the index: what get answers, file permitting.
View(k) == ValueAt(index[k])

\* A merge in its commit phase holds active_file, file_ids and older_files,
\* and reclaim from the clean-up on; a scan holds older_files while in a file.
Committing == \E t \in Threads : pc[t] \in CommitPCs
Cleaning == \E t \in Threads : pc[t] = "cleanup"
Scanning == scanOff # 0

Goto(t, l) == pc' = [pc EXCEPT ![t] = l]

\* A call answers r; its local variables go out of scope.
Return(t, r) ==
  /\ Goto(t, "idle")
  /\ req' = [req EXCEPT ![t] = Nil]
  /\ result' = [result EXCEPT ![t] = r]
  /\ pos' = [pos EXCEPT ![t] = Nil]
  /\ old' = [old EXCEPT ![t] = Nil]

Init ==
  /\ disk = NoFiles
  /\ onDisk = {}
  /\ status = "down"
  /\ active = 0
  /\ older = {}
  /\ lastId = 0
  /\ index = NoIndex
  /\ reclaim = NoSizes
  /\ mergeRunning = FALSE
  /\ loadFile = 0 /\ loadOff = 0 /\ validSize = NoSizes
  /\ cand = {} /\ todo = {} /\ scanFile = 0 /\ scanOff = 0
  /\ tmp = NoFiles /\ cur = 0 /\ newPos = NoIndex
  /\ start = 0 /\ moved = 0 /\ moving = {}
  /\ pc = [t \in Threads |-> "idle"]
  /\ req = [t \in Threads |-> Nil]
  /\ pos = [t \in Threads |-> Nil]
  /\ old = [t \in Threads |-> Nil]
  /\ result = [t \in Threads |-> "none"]
  /\ calls = 0 /\ crashes = 0
  /\ expected = [k \in Keys |-> {Deleted}]

-------------------------------------------------------------------------------
(***************************************************************************)
(* open and load_index_from_files.  The process is single-threaded here.   *)
(***************************************************************************)

\* load_data_file_ids and DataFile::new: the largest id is the active file;
\* an empty directory gets file 0.
OpenFiles ==
  LET ids == IF onDisk = {} THEN {0} ELSE onDisk IN
  /\ status = "down"
  /\ status' = "loading"
  /\ onDisk' = ids
  /\ \E a \in ids, m \in ids :
       /\ \A f \in ids : m <= f /\ f <= a
       /\ active' = a
       /\ lastId' = a
       /\ older' = ids \ {a}
       /\ loadFile' = m
  /\ loadOff' = 1
  /\ UNCHANGED <<disk, index, reclaim, mergeRunning, validSize, mergeVars,
                 threadVars, boundVars>>

\* Mutants: tombstones are skipped; tombstones are kept.
SkipTombstones(r, p) == [index EXCEPT ![r.key] = IF r.val = Deleted THEN @ ELSE p]
KeepTombstones(r, p) == [index EXCEPT ![r.key] = p]

ApplyRecord(r, p) == [index EXCEPT ![r.key] = IF r.val = Deleted THEN Nil ELSE p]

\* One turn of the replay loop: put or delete in the index.
LoadRecord ==
  LET r == disk[loadFile].recs[loadOff] IN
  /\ status = "loading"
  /\ loadOff <= Len(disk[loadFile].recs)
  /\ index' = ApplyRecord(r, Pos(loadFile, loadOff))
  /\ validSize' = [validSize EXCEPT ![loadFile] =
                     IF r.val = Deleted THEN @ ELSE @ + Size[r.val]]
  /\ loadOff' = loadOff + 1
  /\ UNCHANGED <<diskVars, status, fileVars, reclaim, mergeRunning, loadFile,
                 mergeVars, threadVars, boundVars>>

\* UnexpectedEof: the invalid sizes of ALL older files are computed after
\* each file, whether they have been replayed or not; an empty older file
\* makes open fail.
InvalidSizes ==
  [f \in FileIds |->
     IF f \in older /\ disk[f].size > validSize[f]
     THEN disk[f].size - validSize[f]
     ELSE reclaim[f]]

LoadFileEnd ==
  /\ status = "loading"
  /\ loadOff > Len(disk[loadFile].recs)
  /\ IF \E f \in older : disk[f].size = 0
     THEN /\ status' = "failed"
          /\ UNCHANGED <<reclaim, loadVars>>
     ELSE /\ reclaim' = InvalidSizes
          /\ IF loadFile = active
             THEN /\ status' = "up"
                  /\ loadFile' = 0 /\ loadOff' = 0 /\ validSize' = NoSizes
             ELSE /\ \E n \in older \cup {active} :
                       /\ n > loadFile
                       /\ \A f \in older \cup {active} : f > loadFile => n <= f
                       /\ loadFile' = n
                  /\ loadOff' = 1
                  /\ UNCHANGED <<status, validSize>>
  /\ UNCHANGED <<diskVars, fileVars, index, mergeRunning, mergeVars, threadVars,
                 boundVars>>

-------------------------------------------------------------------------------
(***************************************************************************)
(* put, get and delete.  An empty key is refused before any block runs, so *)
(* Keys are the non-empty ones.                                            *)
(***************************************************************************)
Begin(t, op, k, v, l) ==
  /\ status = "up"
  /\ pc[t] = "idle"
  /\ op \in Ops[t]
  /\ calls < MaxCalls
  /\ calls' = calls + 1
  /\ req' = [req EXCEPT ![t] = [op |-> op, key |-> k, val |-> v]]
  /\ Goto(t, l)
  /\ result' = [result EXCEPT ![t] = "pending"]
  /\ UNCHANGED <<diskVars, status, fileVars, index, reclaim, mergeRunning,
                 loadVars, mergeVars, localVars, crashes, expected>>

CallPut(t) == \E k \in Keys, v \in Values : Begin(t, "put", k, v, "ensure")
CallDelete(t) == \E k \in Keys : Begin(t, "delete", k, Deleted, "check")
CallGet(t) == \E k \in Keys : Begin(t, "get", k, Deleted, "lookup")

\* get: read the position from the index.
Lookup(t) ==
  /\ pc[t] = "lookup"
  /\ IF index[req[t].key] = Nil
     THEN Return(t, "none")
     ELSE /\ pos' = [pos EXCEPT ![t] = index[req[t].key]]
          /\ Goto(t, "read")
          /\ UNCHANGED <<req, old, result>>
  /\ UNCHANGED <<diskVars, status, fileVars, index, reclaim, mergeRunning,
                 loadVars, mergeVars, boundVars>>

\* get: read the record under the active (and older) read lock.
Read(t) ==
  /\ pc[t] = "read"
  /\ ~Committing
  /\ IF pos[t].file \in older \cup {active}
     THEN Return(t, RecordAt(pos[t]).val)
     ELSE Return(t, "file_missing")
  /\ UNCHANGED <<diskVars, status, fileVars, index, reclaim, mergeRunning,
                 loadVars, mergeVars, boundVars>>

\* Mutant: the existence check of delete is dropped.
CheckNothing(t) ==
  /\ pc[t] = "check"
  /\ Goto(t, "reread")
  /\ UNCHANGED <<diskVars, status, fileVars, index, reclaim, mergeRunning,
                 loadVars, mergeVars, req, localVars, result, boundVars>>

\* delete: the key must be in the index.
Check(t) ==
  /\ pc[t] = "check"
  /\ IF index[req[t].key] = Nil
     THEN Return(t, "not_found")
     ELSE Goto(t, "reread") /\ UNCHANGED <<req, pos, old, result>>
  /\ UNCHANGED <<diskVars, status, fileVars, index, reclaim, mergeRunning,
                 loadVars, mergeVars, boundVars>>

\* The second index.get of delete, and the index.get of put after its write:
\* a position found here is accounted as garbage before the call goes on.
ReadOldPosition(t, from, next) ==
  /\ pc[t] = from
  /\ old' = [old EXCEPT ![t] = index[req[t].key]]
  /\ Goto(t, IF index[req[t].key] = Nil THEN next ELSE "count")
  /\ UNCHANGED <<diskVars, status, fileVars, index, reclaim, mergeRunning,
                 loadVars, mergeVars, req, pos, result, boundVars>>

Reread(t) == ReadOldPosition(t, "reread", "ensure")
ReadOld(t) == ReadOldPosition(t, "readOld", "index")

\* Mutant: the size of the record being written is counted.
NewSize(t) == Size[req[t].val]

\* old_pos.size
OldSize(t) == Size[RecordAt(old[t]).val]

\* Both: add the size of the old record to its file's garbage.
Count(t) ==
  /\ pc[t] = "count"
  /\ ~Cleaning
  /\ reclaim' = [reclaim EXCEPT ![old[t].file] = @ + OldSize(t)]
  /\ Goto(t, IF req[t].op = "put" THEN "index" ELSE "ensure")
  /\ UNCHANGED <<diskVars, status, fileVars, index, mergeRunning, loadVars,
                 mergeVars, req, pos, old, result, boundVars>>

\* Mutants: the needed bytes are left out; the last byte of a file is not used.
HasRoom(v) == disk[active].size <= DataFileSize
HasMoreSpace(v) == disk[active].size + Size[v] < DataFileSize

HasSpace(v) == disk[active].size + Size[v] <= DataFileSize

\* Mutant: the successor of the active file instead of the last id.
AfterActive == active + 1

NextFileId == lastId + 1

\* ensure_active_space, first look under the read lock.
Ensure(t) ==
  /\ pc[t] = "ensure"
  /\ ~Committing
  /\ Goto(t, IF HasSpace(req[t].val) THEN "append" ELSE "rotate")
  /\ UNCHANGED <<diskVars, status, fileVars, index, reclaim, mergeRunning,
                 loadVars, mergeVars, req, pos, old, result, boundVars>>

\* ensure_active_space, under the write lock: look again, then rotate.
Rotate(t) ==
  /\ pc[t] = "rotate"
  /\ ~Committing
  /\ \/ HasSpace(req[t].val) /\ UNCHANGED <<onDisk, fileVars>>
     \/ /\ ~HasSpace(req[t].val)
        /\ ~Scanning
        /\ NextFileId \in FileIds
        /\ onDisk' = onDisk \cup {NextFileId}
        /\ older' = older \cup {active}
        /\ active' = NextFileId
        /\ lastId' = NextFileId
  /\ Goto(t, "append")
  /\ UNCHANGED <<disk, status, index, reclaim, mergeRunning, loadVars, mergeVars,
                 req, pos, old, result, boundVars>>

\* DataFile::write of the record, or the tombstone, of t's call.
Appended(t) ==
  [disk EXCEPT ![active] = Write(@, [key |-> req[t].key, val |-> req[t].val])]

\* Append under the write lock of the active file.
AppendRecord(t) ==
  /\ pc[t] = "append"
  /\ ~Committing
  /\ disk' = Appended(t)
  /\ IF req[t].op = "put"
     THEN /\ pos' = [pos EXCEPT ![t] = Pos(active, WriteOffset(disk[active]))]
          /\ Goto(t, "readOld")
     ELSE /\ Goto(t, "unindex")
          /\ UNCHANGED pos
  /\ UNCHANGED <<onDisk, status, fileVars, index, reclaim, mergeRunning, loadVars,
                 mergeVars, req, old, result, boundVars>>

\* Rotating, reading or writing fails with nothing written, or the sync after
\* the write (Options.sync_writes) fails: the call returns the error.
CallError(t) ==
  /\ IoErrors
  /\ pc[t] \in {"rotate", "append", "read"}
  /\ ~Committing
  /\ \/ UNCHANGED disk
     \/ pc[t] = "append" /\ disk' = Appended(t)
  /\ Return(t, "io_error")
  /\ UNCHANGED <<onDisk, status, fileVars, index, reclaim, mergeRunning,
                 loadVars, mergeVars, boundVars>>

\* The call has taken effect; what is left is the merge it may trigger.
Applied(t) ==
  /\ Goto(t, "trigger")
  /\ pos' = [pos EXCEPT ![t] = Nil]
  /\ old' = [old EXCEPT ![t] = Nil]
  /\ UNCHANGED <<diskVars, status, fileVars, reclaim, mergeRunning, loadVars,
                 mergeVars, req, result, boundVars>>

\* Mutant: the new position is dropped when the index changed meanwhile.
IndexUnlessChanged(t) ==
  /\ pc[t] = "index"
  /\ index' = IF index[req[t].key] = old[t]
              THEN [index EXCEPT ![req[t].key] = pos[t]]
              ELSE index
  /\ Applied(t)

\* put: index.put of the new position.
Index(t) ==
  /\ pc[t] = "index"
  /\ index' = [index EXCEPT ![req[t].key] = pos[t]]
  /\ Applied(t)

\* delete: index.delete.
Unindex(t) ==
  /\ pc[t] = "unindex"
  /\ index' = [index EXCEPT ![req[t].key] = Nil]
  /\ Applied(t)

-------------------------------------------------------------------------------
(***************************************************************************)
(* maybe_trigger_merge and merge.                                          *)
(***************************************************************************)

\* get_merge_candidates: the older files whose invalid ratio is too high.
Candidates ==
  {f \in older : /\ reclaim[f] > 0
                 /\ disk[f].size > 0
                 /\ reclaim[f] * ThresholdDen >= ThresholdNum * disk[f].size}

\* maybe_trigger_merge, the look before the compare-and-swap.
Trigger(t) ==
  /\ pc[t] = "trigger"
  /\ ~Committing
  /\ IF Candidates = {}
     THEN Return(t, "ok")
     ELSE Goto(t, "cas") /\ UNCHANGED <<req, pos, old, result>>
  /\ UNCHANGED <<diskVars, status, fileVars, index, reclaim, mergeRunning,
                 loadVars, mergeVars, boundVars>>

\* Mutant: the flag is set without looking at it.
SetFlag(t) ==
  /\ pc[t] = "cas"
  /\ mergeRunning' = TRUE
  /\ Goto(t, "select")
  /\ UNCHANGED <<diskVars, status, fileVars, index, reclaim, loadVars, mergeVars,
                 req, localVars, result, boundVars>>

\* compare_exchange(false, true): the loser returns at once.
CompareExchange(t) ==
  /\ pc[t] = "cas"
  /\ IF mergeRunning
     THEN Return(t, "ok") /\ UNCHANGED mergeRunning
     ELSE /\ mergeRunning' = TRUE
          /\ Goto(t, "select")
          /\ UNCHANGED <<req, pos, old, result>>
  /\ UNCHANGED <<diskVars, status, fileVars, index, reclaim, loadVars, mergeVars,
                 boundVars>>

\* merge, phase 1, and MergeContext::new.
Select(t) ==
  /\ pc[t] = "select"
  /\ cand' = Candidates
  /\ todo' = Candidates
  /\ Goto(t, IF Candidates = {} THEN "release" ELSE "scan")
  /\ UNCHANGED <<diskVars, status, fileVars, index, reclaim, mergeRunning,
                 loadVars, scanFile, scanOff, tmp, cur, newPos, start, moved,
                 moving, req, localVars, result, boundVars>>

\* A candidate that is no longer an older file is skipped; one without records
\* meets UnexpectedEof at once.
FirstOffset(f) == IF f \in older /\ disk[f].recs # <<>> THEN 1 ELSE 0

\* merge, phase 2: take the older lock and start on one candidate.
ScanOpen(t) ==
  /\ pc[t] = "scan"
  /\ ~Scanning
  /\ \E f \in todo :
       /\ todo' = todo \ {f}
       /\ scanFile' = f
       /\ scanOff' = FirstOffset(f)
  /\ UNCHANGED <<diskVars, status, fileVars, index, reclaim, mergeRunning,
                 loadVars, cand, tmp, cur, newPos, start, moved, moving,
                 threadVars, boundVars>>

\* Mutant: only the offset is compared.
SameOffset(k, f, i) == index[k] # Nil /\ index[k].off = i

\* is_valid: the index still points at this very record.
IsValid(k, f, i) == index[k] = Pos(f, i)

\* MergeContext::append writes to the current temporary file, or to a new one
\* when the record does not fit.
Fits(file, r) == file.size + Size[r.val] <= DataFileSize
OutFile(r) == IF Fits(tmp[cur], r) THEN cur ELSE cur + 1

ContextAppend(r) ==
  LET c == OutFile(r) IN
  /\ c \in FileIds
  /\ cur' = c
  /\ tmp' = [tmp EXCEPT ![c] = Write(@, r)]
  /\ newPos' = [newPos EXCEPT ![r.key] = Pos(c, WriteOffset(tmp[c]))]

\* Mutant: the offset advances only past valid records.
AdvanceIfValid(recs) ==
  IF ~IsValid(recs[scanOff].key, scanFile, scanOff) THEN scanOff
  ELSE IF scanOff < Len(recs) THEN scanOff + 1 ELSE 0

\* offset += size; the end of the file releases the older lock.
Advance(recs) == IF scanOff < Len(recs) THEN scanOff + 1 ELSE 0

\* One turn of the scan.
ScanRecord(t) ==
  LET recs == disk[scanFile].recs
      r == recs[scanOff]
  IN
  /\ pc[t] = "scan"
  /\ Scanning
  /\ IF IsValid(r.key, scanFile, scanOff)
     THEN ContextAppend(r)
     ELSE UNCHANGED <<tmp, cur, newPos>>
  /\ scanOff' = Advance(recs)
  /\ UNCHANGED <<diskVars, status, fileVars, index, reclaim, mergeRunning,
                 loadVars, cand, todo, scanFile, start, moved, moving,
                 threadVars, boundVars>>

\* MergeContext::finish, the FINISHED file (no code reads it back), and the
\* commit locks.
BeginCommit(t) ==
  /\ pc[t] = "scan"
  /\ ~Scanning
  /\ todo = {}
  /\ start' = NextFileId
  /\ moved' = 0
  /\ Goto(t, "rename")
  /\ UNCHANGED <<diskVars, status, fileVars, index, reclaim, mergeRunning,
                 loadVars, cand, todo, scanFile, scanOff, tmp, cur, newPos,
                 moving, req, localVars, result, boundVars>>

\* Mutant: the temporary file keeps its id.
TempId == moved

\* start_merge_id + i
MergedId == start + moved

\* Rename one temporary file into the data directory and open it.
Rename(t) ==
  LET new == MergedId IN
  /\ pc[t] = "rename"
  /\ moved <= cur
  /\ new \in FileIds
  /\ disk' = [disk EXCEPT ![new] = tmp[moved]]
  /\ onDisk' = onDisk \cup {new}
  /\ older' = older \cup {new}
  /\ lastId' = new
  /\ moved' = moved + 1
  /\ UNCHANGED <<status, active, index, reclaim, mergeRunning, loadVars, cand,
                 todo, scanFile, scanOff, tmp, cur, newPos, start, moving,
                 threadVars, boundVars>>

\* Mutant: the id of the last merged file.
LastMergedId == start + cur

\* start_merge_id + merge_new_count
NewActiveId == start + cur + 1

\* A new active file above the merged ones; the old one becomes an older file.
SwapActive(t) ==
  LET new == NewActiveId IN
  /\ pc[t] = "rename"
  /\ moved > cur
  /\ new \in FileIds
  /\ onDisk' = onDisk \cup {new}
  /\ older' = older \cup {active}
  /\ active' = new
  /\ lastId' = new
  /\ Goto(t, "recheck")
  /\ UNCHANGED <<disk, status, index, reclaim, mergeRunning, loadVars, mergeVars,
                 req, localVars, result, boundVars>>

\* Mutant: the test is inverted.
NotCandidate(p) == p # Nil /\ p.file \notin cand

\* Double check: does the key still live in one of the merged files?
StillCandidate(p) == p # Nil /\ p.file \in cand

Recheck(t) ==
  /\ pc[t] = "recheck"
  /\ moving = {}
  /\ \E k \in {j \in Keys : newPos[j] # Nil} :
       IF StillCandidate(index[k])
       THEN moving' = {k} /\ UNCHANGED newPos
       ELSE newPos' = [newPos EXCEPT ![k] = Nil] /\ UNCHANGED moving
  /\ UNCHANGED <<diskVars, status, fileVars, index, reclaim, mergeRunning,
                 loadVars, cand, todo, scanFile, scanOff, tmp, cur, start, moved,
                 threadVars, boundVars>>

\* Mutant: the position keeps its temporary file id.
Unrebased(p) == p

\* pos.file_id = start_merge_id + pos.file_id
Rebase(p) == Pos(start + p.file, p.off)

\* The index.put that follows a successful double check.
Relocate(t) ==
  /\ pc[t] = "recheck"
  /\ \E k \in moving :
       /\ index' = [index EXCEPT ![k] = Rebase(newPos[k])]
       /\ newPos' = [newPos EXCEPT ![k] = Nil]
  /\ moving' = {}
  /\ UNCHANGED <<diskVars, status, fileVars, reclaim, mergeRunning, loadVars,
                 cand, todo, scanFile, scanOff, tmp, cur, start, moved,
                 threadVars, boundVars>>

BeginCleanup(t) ==
  /\ pc[t] = "recheck"
  /\ newPos = NoIndex
  /\ todo' = cand
  /\ Goto(t, "cleanup")
  /\ UNCHANGED <<diskVars, status, fileVars, index, reclaim, mergeRunning,
                 loadVars, cand, scanFile, scanOff, tmp, cur, newPos, start,
                 moved, moving, req, localVars, result, boundVars>>

\* Drop one candidate: older_files, file_reclaim_size, then the file itself; an
\* error of remove_file is ignored.
RemoveCandidate(t) ==
  /\ pc[t] = "cleanup"
  /\ \E f \in todo :
       /\ todo' = todo \ {f}
       /\ older' = older \ {f}
       /\ reclaim' = [reclaim EXCEPT ![f] = 0]
       /\ \/ onDisk' = onDisk \ {f}
          \/ IoErrors /\ UNCHANGED onDisk
  /\ UNCHANGED <<disk, status, active, lastId, index, mergeRunning, loadVars,
                 cand, scanFile, scanOff, tmp, cur, newPos, start, moved, moving,
                 threadVars, boundVars>>

\* Remove the merge directory and release the commit locks.
EndMerge(t) ==
  /\ pc[t] = "cleanup"
  /\ todo = {}
  /\ Goto(t, "release")
  /\ UNCHANGED <<diskVars, status, fileVars, index, reclaim, mergeRunning,
                 loadVars, mergeVars, req, localVars, result, boundVars>>

\* Mutant: the error is returned before the flag is cleared.
ReturnError(t) ==
  /\ IoErrors
  /\ \/ pc[t] \in {"scan", "rename"}
     \/ pc[t] = "cleanup" /\ todo = {}
  /\ Return(t, "io_error")
  /\ scanOff' = 0
  /\ UNCHANGED <<diskVars, status, fileVars, index, reclaim, mergeRunning,
                 loadVars, cand, todo, scanFile, tmp, cur, newPos, start, moved,
                 moving, boundVars>>

\* An I/O call of the merge fails: `?` leaves merge where it stands.
MergeError(t) ==
  /\ IoErrors
  /\ \/ pc[t] \in {"scan", "rename"}
     \/ pc[t] = "cleanup" /\ todo = {}
  /\ Goto(t, "release")
  /\ result' = [result EXCEPT ![t] = "io_error"]
  /\ scanOff' = 0
  /\ UNCHANGED <<diskVars, status, fileVars, index, reclaim, mergeRunning,
                 loadVars, cand, todo, scanFile, tmp, cur, newPos, start, moved,
                 moving, req, localVars, boundVars>>

\* The rename succeeds and opening the renamed file fails: the directory holds
\* an id that neither older_files nor file_ids knows of.
RenameError(t) ==
  LET new == MergedId IN
  /\ IoErrors
  /\ pc[t] = "rename"
  /\ moved <= cur
  /\ new \in FileIds
  /\ disk' = [disk EXCEPT ![new] = tmp[moved]]
  /\ onDisk' = onDisk \cup {new}
  /\ Goto(t, "release")
  /\ result' = [result EXCEPT ![t] = "io_error"]
  /\ UNCHANGED <<status, fileVars, index, reclaim, mergeRunning, loadVars,
                 mergeVars, req, localVars, boundVars>>

NoMerge ==
  /\ cand' = {} /\ todo' = {}
  /\ scanFile' = 0 /\ scanOff' = 0
  /\ tmp' = NoFiles /\ cur' = 0 /\ newPos' = NoIndex
  /\ start' = 0 /\ moved' = 0 /\ moving' = {}

\* The flag is cleared whatever merge returned; then the call answers.
Release(t) ==
  /\ pc[t] = "release"
  /\ mergeRunning' = FALSE
  /\ NoMerge
  /\ Return(t, IF result[t] = "io_error" THEN "io_error" ELSE "ok")
  /\ UNCHANGED <<diskVars, status, fileVars, index, reclaim, loadVars, boundVars>>

-------------------------------------------------------------------------------
(***************************************************************************)
(* The process is killed: memory is lost, the directory stays as it is     *)
(* (written pages survive the process).                                    *)
(***************************************************************************)

\* What recovery may answer for a key: what get answered before, or what a
\* call cut short before its effect was about to write.
Recoverable(k) ==
  {View(k)} \cup {req[t].val : t \in {u \in Threads : /\ pc[u] \in PendingPCs
                                                      /\ req[u].key = k}}

Crash ==
  /\ status \in {"loading", "up"}
  /\ crashes < MaxCrashes
  /\ crashes' = crashes + 1
  /\ expected' = IF status = "up" THEN [k \in Keys |-> Recoverable(k)] ELSE expected
  /\ status' = "down"
  /\ active' = 0 /\ older' = {} /\ lastId' = 0
  /\ index' = NoIndex
  /\ reclaim' = NoSizes
  /\ mergeRunning' = FALSE
  /\ loadFile' = 0 /\ loadOff' = 0 /\ validSize' = NoSizes
  /\ NoMerge
  /\ pc' = [t \in Threads |-> "idle"]
  /\ req' = [t \in Threads |-> Nil]
  /\ pos' = [t \in Threads |-> Nil]
  /\ old' = [t \in Threads |-> Nil]
  /\ result' = [t \in Threads |-> "none"]
  /\ UNCHANGED <<diskVars, calls>>

\* The end of a bounded behaviour: open failed, or no call is left to make.
Finished ==
  /\ \/ status = "failed"
     \/ /\ status = "up"
        /\ calls = MaxCalls
        /\ \A t \in Threads : pc[t] = "idle"
  /\ UNCHANGED vars

Open == OpenFiles \/ LoadRecord \/ LoadFileEnd

Call(t) == CallPut(t) \/ CallDelete(t) \/ CallGet(t)

MergeStep(t) ==
  \/ Select(t) \/ ScanOpen(t) \/ ScanRecord(t) \/ BeginCommit(t)
  \/ Rename(t) \/ SwapActive(t) \/ Recheck(t) \/ Relocate(t)
  \/ BeginCleanup(t) \/ RemoveCandidate(t) \/ EndMerge(t)
  \/ MergeError(t) \/ RenameError(t) \/ Release(t)

Step(t) ==
  \/ Lookup(t) \/ Read(t)
  \/ Check(t) \/ Reread(t) \/ ReadOld(t) \/ Count(t)
  \/ Ensure(t) \/ Rotate(t) \/ AppendRecord(t) \/ CallError(t)
  \/ Index(t) \/ Unindex(t)
  \/ Trigger(t) \/ CompareExchange(t)
  \/ MergeStep(t)

Next ==
  \/ Open
  \/ \E t \in Threads : Call(t) \/ Step(t)
  \/ Crash
  \/ Finished

Spec == Init /\ [][Next]_vars

\* An I/O call of t's call fails in this step.
Fails(t) == result[t] # "io_error" /\ result'[t] = "io_error"

\* The operating system runs every thread that can run; the process is
\* started, and its start-up code runs to the end.  Failures are not fair:
\* nothing may depend on one.
Fairness ==
  /\ WF_vars(Open)
  /\ \A t \in Threads : WF_vars(Step(t) /\ ~Fails(t))

FairSpec == Spec /\ Fairness
===============================================================================
