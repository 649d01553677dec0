------------------------------ MODULE KVEngineInv ------------------------------
(***************************************************************************)
(* The inductive invariant behind the safety theorems of the engine, in    *)
(* named parts.  The heart of it is Held: every position anybody holds     *)
(* names a live record of its key in a file not above the last id, and new *)
(* files only ever get ids above the last one, so nothing that is held is  *)
(* overwritten.                                                            *)
(***************************************************************************)
EXTENDS KVEngineProps

\* A position that is safe to hold while files are created.
Held(k, p) == Names(k, p) /\ p.file <= lastId

\* A thread in a call has a request that fits the block it is in; outside
\* "up" no thread is in a call and no merge runs.
ThreadsOK ==
  /\ \A t \in Threads : pc[t] # "idle" => status = "up" /\ req[t] \in Request
  /\ \A t \in Threads : pc[t] \in {"ensure", "rotate", "append"} =>
       req[t].op \in {"put", "delete"} /\ (req[t].op = "put" => req[t].val # Deleted)
  /\ \A t \in Threads : pc[t] \in {"readOld", "index"} => req[t].op = "put"
  /\ \A t \in Threads : pc[t] = "count" => req[t].op \in {"put", "delete"}
  /\ \A t \in Threads : pc[t] \in {"check", "reread"} => req[t].op = "delete"

\* Threads that hold a position they read from the index, or wrote.
HoldsPos(t) == pc[t] \in {"read", "readOld", "index"} \/ (pc[t] = "count" /\ req[t].op = "put")

PositionsOK ==
  /\ \A k \in Keys : index[k] # Nil => Held(k, index[k])
  /\ \A t \in Threads : HoldsPos(t) => Held(req[t].key, pos[t])
  /\ \A t \in Threads : pc[t] = "count" => Held(req[t].key, old[t])

\* No open file is above the last id, and the active one is no older one; start-up replays one of the open files;
\* the scan of a merge stands on a record.
FilesOK ==
  /\ status = "down" => index = NoIndex
  /\ status \in {"down", "loading"} => scanOff = 0
  /\ scanOff # 0 => scanFile <= lastId /\ scanOff <= Len(disk[scanFile].recs)
  /\ status \in {"loading", "up"} =>
       active \notin older /\ \A f \in older \cup {active} : f <= lastId
  /\ status = "loading" => loadFile \in older \cup {active} /\ loadOff # 0

\* MergeExclusive, and no merge is recorded as running when none can be.
ExclusiveOK ==
  /\ MergeExclusive
  /\ status \in {"down", "loading"} => ~mergeRunning

\* The new positions of a merge name the live copies in its temporary files.
CopiesOK ==
  /\ \A k \in Keys : newPos[k] # Nil =>
       /\ newPos[k].file <= cur
       /\ newPos[k].off <= Len(tmp[newPos[k].file].recs)
       /\ tmp[newPos[k].file].recs[newPos[k].off].key = k
       /\ tmp[newPos[k].file].recs[newPos[k].off].val # Deleted
  /\ \A k \in moving : newPos[k] # Nil

\* The commit gives the temporary files the ids from start on; the files it
\* has renamed so far are the temporary ones.
CommitOK ==
  \A t \in Threads :
    /\ pc[t] = "rename" => start + moved = lastId + 1 /\ moved <= cur + 1
    /\ pc[t] = "recheck" => start + moved = lastId /\ moved = cur + 1
    /\ pc[t] \in {"rename", "recheck"} =>
         \A i \in FileIds : i < moved => disk[start + i] = tmp[i]

\* In every reachable state, with any threads, kills and I/O errors: each position
\* held by the index, by a call or by a merge names a live record of its key, and
\* nothing a commit does overwrites one.
IInv ==
  /\ TypeOK /\ ThreadsOK /\ PositionsOK /\ FilesOK /\ ExclusiveOK
  /\ CopiesOK /\ CommitOK

-------------------------------------------------------------------------------
(***************************************************************************)
(* Start-up opens every file of the directory, the active one last, and    *)
(* replays them in order.                                                  *)
(***************************************************************************)
Replayed(k) == {p \in RecordsOf(k) : Before(p, Pos(loadFile, loadOff))}

ReplayOK ==
  status = "loading" =>
    /\ onDisk = older \cup {active} /\ \A f \in older : f < active
    /\ \A k \in Keys : LET live == LiveLast(Replayed(k))
                       IN IF index[k] = Nil THEN live = {} ELSE index[k] \in live

-------------------------------------------------------------------------------
(***************************************************************************)
(* With one thread that writes, a merge has the index and the files to     *)
(* itself.  The invariant then follows every key of the index from the     *)
(* candidate file it lives in to the copy the merge makes of it.           *)
(***************************************************************************)
Writers == {t \in Threads : Ops[t] \cap {"put", "delete"} # {}}
SingleWriter == \A t, u \in Writers : t = u
SingleThread == \A t, u \in Threads : t = u

\* A thread that changes nothing.
Quiet(t) == pc[t] \in {"idle", "lookup", "read"}

RolesOK == \A t \in Threads : ~Quiet(t) => t \in Writers

\* The positions of the index are in open files.
IndexOpen ==
  status \in {"loading", "up"} =>
    \A k \in Keys : index[k] # Nil => index[k].file \in older \cup {active}

\* So is that of a put on its way to the index.
OpenOK ==
  /\ IndexOpen
  /\ \A t \in Threads : HoldsPos(t) /\ ~Quiet(t) => pos[t].file \in older \cup {active}

\* The scan has still to come to position p.
Ahead(p) == p.file \in todo \/ (Scanning /\ p.file = scanFile /\ scanOff <= p.off)

InCandidate(k) == index[k] # Nil /\ index[k].file \in cand

\* The files of the merge that t runs: the candidates are open until they are
\* removed, the new files are open and above them.
MergeFilesAt(t) ==
  /\ pc[t] \in {"scan", "rename", "recheck"} => cand \subseteq older
  /\ pc[t] \in {"scan", "cleanup"} => todo \subseteq cand
  /\ pc[t] \in CommitPCs => \A f \in cand : f < start
  /\ pc[t] \in {"rename", "recheck"} =>
       \A i \in FileIds : i < moved => start + i \in older

\* The keys of the index that live in a candidate have a copy, or will have one;
\* when the candidates are removed no key lives there.
CoveredAt(t) ==
  /\ pc[t] = "scan" =>
       \A k \in Keys : InCandidate(k) => newPos[k] # Nil \/ Ahead(index[k])
  /\ pc[t] \in {"rename", "recheck"} => \A k \in Keys : InCandidate(k) => newPos[k] # Nil
  /\ pc[t] = "cleanup" => \A k \in Keys : ~InCandidate(k)

\* A copy has the value that get answers.
Copy(k) == tmp[newPos[k].file].recs[newPos[k].off]
CopiedAt(t) ==
  pc[t] \in {"scan", "rename", "recheck"} =>
    \A k \in Keys : newPos[k] # Nil => index[k] # Nil /\ Copy(k).val = View(k)

\* Between merges nothing is left of the last one.
BetweenOK ==
  (\A t \in Threads : pc[t] \notin MergePCs \ {"select"}) => newPos = NoIndex /\ scanOff = 0

\* With one thread that writes, each key of the index lives in an open file, and a
\* key that lives in a candidate of the merge is ahead of the scan or copied with
\* the value get answers; no file is removed while a key lives in it.
SInv ==
  /\ RolesOK /\ OpenOK /\ BetweenOK
  /\ \A t \in Threads : MergeFilesAt(t) /\ CoveredAt(t) /\ CopiedAt(t)

-------------------------------------------------------------------------------
(***************************************************************************)
(* With one thread that removes, no kill and no failing I/O call, a call   *)
(* takes effect on the index as a dictionary would.                        *)
(***************************************************************************)
SingleRemover == \A t, u \in Threads : "delete" \in Ops[t] \cap Ops[u] => t = u

\* A delete that has found its key.
Deleting(t) == pc[t] \in PendingPCs \ {"check"} /\ req[t].op = "delete"

\* A put that has written its record.
Written(t) == HoldsPos(t) /\ pc[t] # "read"

\* A call of t has no outcome until it returns, and is of an operation t calls; the
\* record a put has written has its value; the key a delete has found is there.
CallOK(t) ==
  /\ pc[t] # "idle" => result[t] = "pending" /\ req[t].op \in Ops[t]
  /\ pc[t] = "lookup" => req[t].op = "get"
  /\ pc[t] = "unindex" => req[t].op = "delete"
  /\ Written(t) => RecordAt(pos[t]).val = req[t].val
  /\ Deleting(t) => index[req[t].key] # Nil

\* There is nothing to replay.
FreshOK == status \in {"down", "loading"} => \A f \in FileIds : disk[f].recs = <<>>

LInv == FreshOK /\ \A t \in Threads : CallOK(t)

\* A get finds the file of its position open.
ReadsFindFiles == \A t \in Threads : pc[t] = "read" => pos[t].file \in older \cup {active}

NoMerging == \A t \in Threads : pc[t] \notin MergePCs

\* While no merge runs, no position anybody holds loses its file.
KeptOK ==
  /\ IndexOpen
  /\ \A t \in Threads : HoldsPos(t) => pos[t].file \in older \cup {active}
-------------------------------------------------------------------------------
(***************************************************************************)
(* Sizes: a new file is empty, and the threads that have found room in the *)
(* active file are the only ones that may write past its limit.            *)
(***************************************************************************)

\* The files above the directory are empty, and the last id stays in it: a merge
\* removes files below the active one it made.
TopOK ==
  /\ \A f \in FileIds : disk[f] # EmptyFile => \E g \in onDisk : f <= g
  /\ status \in {"loading", "up"} => lastId \in onDisk
  /\ \A t \in Threads :
       /\ pc[t] \in {"scan", "rename"} => \A f \in cand \cup todo : f <= lastId
       /\ pc[t] \in {"recheck", "cleanup"} => \A f \in cand \cup todo : f < lastId

\* MergeContext keeps to the limit.
TempOK ==
  \A i \in FileIds : tmp[i].size <= DataFileSize /\ (i > cur => tmp[i] = EmptyFile)

\* The threads between their look at the active file and their write.
Appenders == {t \in Threads : pc[t] = "append"}

\* The last of them to look found room for its record; each of the others may
\* add one.
RoomOK ==
  Appenders # {} =>
    \E t \in Appenders :
      disk[active].size + Size[req[t].val] + (Cardinality(Appenders) - 1) * MaxSize <= SizeLimit

BoundedOK ==
  /\ \A f \in FileIds : disk[f].size <= SizeLimit
  /\ TempOK /\ RoomOK

-------------------------------------------------------------------------------
(***************************************************************************)
(* With one thread that writes, and no tombstone in the merged files, the  *)
(* log says at every step what the index says, or what it will say when    *)
(* the call that wrote last, or the merge, gets there.                     *)
(***************************************************************************)

\* Every record fits into a file of its own.
RecordsFit == \A v \in Values \cup {Deleted} : Size[v] <= DataFileSize

\* Only the file with the largest id may be empty.
OpenableOK == \A f, g \in onDisk : f < g => disk[f].size > 0

\* The files a merge copies from hold puts only.
PutsOnly == \A f \in cand : ~TombstoneIn(f)

\* The merge that t runs has at most one copy of a key, of a record it has passed
\* in one of its candidates.
CopiedOnceAt(t) ==
  /\ pc[t] \in {"scan", "rename"} =>
       \A f \in FileIds : \A i \in DOMAIN tmp[f].recs : newPos[tmp[f].recs[i].key] = Pos(f, i)
  /\ pc[t] = "scan" /\ Scanning => scanFile \in cand \ todo
  /\ pc[t] = "scan" => \A k \in Keys : newPos[k] # Nil => ~Ahead(index[k])
  /\ pc[t] \in {"scan", "rename", "recheck"} => \A k \in Keys : newPos[k] # Nil => InCandidate(k)

\* With one thread that writes, a merge copies no record twice and none that the
\* index does not point to, and what it copied of a candidate stays behind the scan.
OnceOK ==
  /\ (\A t \in Threads : pc[t] \notin MergePCs \ {"select"}) => tmp = NoFiles
  /\ \A t \in Threads : CopiedOnceAt(t)

\* A call that has written its record and not yet changed the index.
Logged(t) == Written(t) \/ pc[t] = "unindex"

AsSet(p) == IF p = Nil THEN {} ELSE {p}

\* The record of a call has its payload.
LogCallOK(t) ==
  /\ pc[t] # "idle" /\ req[t].op = "delete" => req[t].val = Deleted
  /\ pc[t] = "unindex" => req[t].op = "delete"
  /\ Written(t) => RecordAt(pos[t]).val = req[t].val

LoggedOK ==
  status = "up" =>
    /\ \A t \in Threads : Logged(t) =>
         LiveLast(RecordsOf(req[t].key)) = AsSet(IF req[t].op = "put" THEN pos[t] ELSE Nil)
    /\ \A k \in Keys : (\A t \in Threads : Logged(t) => req[t].key # k) =>
         LiveLast(RecordsOf(k)) = AsSet(Latest(k))

\* What a kill leaves in the directory is what it may leave there.
RestoredOK == status \in {"down", "loading"} => \A k \in Keys : Restored(k) \in expected[k]

\* With one thread that writes, and no tombstone in the merged files, the last
\* record of each key in the log is the one the index points to, its renamed copy,
\* or that of the call in progress; so a kill leaves what a restart may answer.
LogOK == LoggedOK /\ RestoredOK /\ \A t \in Threads : LogCallOK(t)

-------------------------------------------------------------------------------
(***************************************************************************)
(* Garbage.  With one thread that writes, no kill and no failing I/O call, *)
(* a counter is the bytes of the records that nothing will use any more.   *)
(***************************************************************************)

\* A call that has counted the position of its key as garbage and not yet taken
\* it out of the index.
Counted(t) ==
  \/ pc[t] = "index"
  \/ pc[t] \in {"ensure", "rotate", "append", "unindex"} /\ req[t].op = "delete"

CountedKeys == {req[t].key : t \in {u \in Threads : Counted(u)}}

\* Where a commit makes the index point.
Copies ==
  IF Relocating THEN {Rebase(newPos[k]) : k \in {j \in Keys : newPos[j] # Nil}} ELSE {}

\* The positions of the records that are not garbage: those in the index that no
\* call has counted, those on their way into it.
InUse ==
  {index[k] : k \in Keys \ CountedKeys}
    \cup {pos[t] : t \in {u \in Threads : Written(u)}} \cup Copies

\* The files a commit is about to remove; it does not count what it moves.
Dying == IF \E t \in Threads : pc[t] \in {"recheck", "cleanup"} THEN cand ELSE {}

\* A put or a delete counts the position its key has in the index, which is not
\* the one it has written; the clean-up removes every candidate that is open.
CountsAt(t) ==
  /\ pc[t] = "count" => old[t] = index[req[t].key]
  /\ Written(t) => pos[t] # index[req[t].key]
  /\ pc[t] = "cleanup" => cand \cap older \subseteq todo

\* Before its first start the directory is empty; a file not yet there has no garbage.
UnwrittenOK ==
  /\ status \in {"down", "loading"} => disk = NoFiles /\ reclaim = NoSizes
  /\ \A f \in FileIds : f > lastId => reclaim[f] = 0

\* With one thread that writes, no kill and no failing I/O call, the counter of each
\* open file is the bytes of its records that are not in use, at every block of a call.
CountedOK ==
  status = "up" => \A f \in (older \cup {active}) \ Dying : reclaim[f] = DeadSize(f, InUse)

AccountOK == UnwrittenOK /\ CountedOK /\ \A t \in Threads : CountsAt(t)
===============================================================================
