----------------------------- MODULE KVEngineProps -----------------------------
(***************************************************************************)
(* What the engine must guarantee: the properties the runs check and the   *)
(* theorems prove.                                                         *)
(***************************************************************************)
EXTENDS KVEngine, FiniteSets, FiniteSetsExt

\* Position p names a live (not a tombstone) record of key k.
Names(k, p) ==
  /\ p \in Position
  /\ p.off <= Len(disk[p.file].recs)
  /\ RecordAt(p).key = k
  /\ RecordAt(p).val # Deleted

StoreTypes ==
  /\ disk \in [FileIds -> File] /\ onDisk \in SUBSET FileIds
  /\ status \in {"down", "loading", "up", "failed"}
  /\ active \in FileIds /\ older \in SUBSET FileIds /\ lastId \in FileIds
  /\ index \in [Keys -> Position \cup {Nil}]
  /\ reclaim \in [FileIds -> Nat]
  /\ mergeRunning \in BOOLEAN

LoadTypes ==
  /\ loadFile \in FileIds /\ loadOff \in Nat
  /\ validSize \in [FileIds -> Nat]

MergeTypes ==
  /\ cand \in SUBSET FileIds /\ todo \in SUBSET FileIds
  /\ scanFile \in FileIds /\ scanOff \in Nat
  /\ tmp \in [FileIds -> File] /\ cur \in FileIds
  /\ newPos \in [Keys -> Position \cup {Nil}]
  /\ start \in Nat /\ moved \in Nat /\ moving \in SUBSET Keys

CallTypes ==
  /\ pc \in [Threads -> PCs]
  /\ req \in [Threads -> Request \cup {Nil}]
  /\ pos \in [Threads -> Position \cup {Nil}]
  /\ old \in [Threads -> Position \cup {Nil}]
  /\ result \in [Threads -> Outcomes]

BoundTypes ==
  /\ calls \in Nat /\ crashes \in Nat
  /\ expected \in [Keys -> SUBSET (Values \cup {Deleted})]

TypeOK == StoreTypes /\ LoadTypes /\ MergeTypes /\ CallTypes /\ BoundTypes

-------------------------------------------------------------------------------
(***************************************************************************)
(* Memory against disk.                                                    *)
(***************************************************************************)

\* The index never points at a tombstone, at another key's record or past the
\* end of a file: the debug_assert!s and the InvalidData errors of get cannot
\* be met, whatever puts, deletes, merges, kills and restarts interleave.
IndexSound == \A k \in Keys : index[k] # Nil => Names(k, index[k])

\* A get that has looked its key up holds, until it reads, a live record of that
\* key which no step changes, or one of a file that a merge has removed: then the
\* read answers "data file not found", and never a record of another file, since
\* an id that was removed is not given to a file again.
ReadSound ==
  [][\A t \in Threads :
       pc'[t] = "read" /\ pos'[t].file \in older' \cup {active'} =>
         /\ Names(req[t].key, pos[t])'
         /\ pc[t] = "read" => /\ pos[t].file \in older \cup {active}
                              /\ RecordAt(pos[t])' = RecordAt(pos[t])]_vars

\* Every key of the index lives in a file the engine holds open.
NoDangling ==
  status = "up" => \A k \in Keys : index[k] # Nil => index[k].file \in older \cup {active}

\* older_files are read-only: only the active file grows while the process
\* runs, and a file once closed for writing never changes.
OlderReadOnly == [][\A f \in older \cap older' : disk'[f] = disk[f]]_vars

\* Whatever file other than the active one is created or written gets an id
\* above every id of the directory: replay order (by id) is creation order, and
\* a rename never replaces a file.
NewIdsOnTop ==
  [][\A f \in FileIds \ {active} :
       disk'[f] # disk[f] \/ f \in onDisk' \ onDisk => \A g \in onDisk : g < f]_vars

\* The active file is the one with the largest id, so that start-up, which
\* tells it by its id, finds the file that was written last.
ActiveOnTop ==
  status = "up" /\ ~Committing =>
    active \notin older /\ \A f \in onDisk \ {active} : f < active

\* At most one thread merges: compare_exchange on merge_running keeps the
\* second one out until the first has cleared the flag.
MergeExclusive ==
  /\ \A t, u \in Threads : pc[t] \in MergePCs /\ pc[u] \in MergePCs => t = u
  /\ status = "up" => (mergeRunning <=> \E t \in Threads : pc[t] \in MergePCs)

\* No step of a merge changes what get answers for any key.
MergeKeepsView ==
  [][(\E t \in Threads : MergeStep(t))
       => \A k \in Keys : View(k)' = View(k)]_vars

\* A get fails with "data file not found" only for a key that is gone.
LiveKeysReadable ==
  [][\A t \in Threads : pc[t] = "read" /\ result'[t] = "file_missing"
       => View(req[t].key) = Deleted]_vars

-------------------------------------------------------------------------------
(***************************************************************************)
(* Sizes.                                                                  *)
(***************************************************************************)

MaxSize == Max({Size[v] : v \in Values \cup {Deleted}})

\* data_file_size may be exceeded only by the writers that all looked at the
\* active file before any of them wrote: one record for each further thread.
SizeLimit == DataFileSize + (Cardinality(Threads) - 1) * MaxSize
FilesBounded == MaxSize <= DataFileSize => \A f \in FileIds : disk[f].size <= SizeLimit

\* The sum of a sequence of numbers, and of each of its beginnings.
Sums(s) ==
  LET sum[i \in 0 .. Len(s)] == IF i = 0 THEN 0 ELSE sum[i - 1] + s[i]
  IN sum
Total(s) == Sums(s)[Len(s)]

\* What each record of file f wastes: the bytes of a put, unless it is at one of
\* the live positions.
Waste(recs, f, live) ==
  [i \in DOMAIN recs |->
     IF recs[i].val = Deleted \/ Pos(f, i) \in live THEN 0 ELSE Size[recs[i].val]]
DeadSize(f, live) == Total(Waste(disk[f].recs, f, live))

\* file_reclaim_size: with no call in progress it holds, for each open file,
\* the bytes of its superseded records, the puts the index does not point to.
ReclaimExact ==
  status = "up" /\ (\A t \in Threads : pc[t] = "idle") =>
    \A f \in older \cup {active} : reclaim[f] = DeadSize(f, {index[k] : k \in Keys})

-------------------------------------------------------------------------------
(***************************************************************************)
(* Crash recovery.                                                         *)
(***************************************************************************)

\* Replay order: by file id, then by offset.
Before(p, q) == p.file < q.file \/ (p.file = q.file /\ p.off < q.off)

\* The positions of the records of key k in the directory.
RecordsOf(k) ==
  UNION {{Pos(f, i) : i \in {j \in DOMAIN disk[f].recs : disk[f].recs[j].key = k}} : f \in onDisk}

\* The last position of a set, if its record is not a tombstone.
LiveLast(S) == {p \in S : (\A q \in S : ~Before(p, q)) /\ RecordAt(p).val # Deleted}

LastPosition(k) ==
  LET live == LiveLast(RecordsOf(k))
  IN IF live = {} THEN Nil ELSE CHOOSE p \in live : TRUE

\* The replay loop computes the last-writer-wins index of the directory.
ReplayIsLastWriter ==
  [][status = "loading" /\ status' = "up" => \A k \in Keys : index'[k] = LastPosition(k)']_vars

\* What a restart that can open the directory would restore of key k.
Restored(k) == ValueAt(LastPosition(k))

\* The merge renames its files, or its renamed files wait for the index to follow.
Relocating == \E t \in Threads : pc[t] \in {"rename", "recheck"}

\* Where the log holds the record get answers key k from: at the position of the
\* index, or in the copy a merge renamed and has not yet put in the index.
Latest(k) ==
  IF Relocating /\ newPos[k] # Nil /\ newPos[k].file < moved THEN Rebase(newPos[k]) ELSE index[k]

\* No step of a merge that copies from files of puts only makes what a restart
\* would restore depart from what get answers, if the log ended with the records
\* get answers from: with no tombstone to lose, a kill between any two steps of one
\* thread's merge changes no answer.  It may still stop the restart: a merge that
\* copies nothing leaves an empty file, and open takes none (see OpenSucceeds).
TombstoneIn(f) == \E i \in DOMAIN disk[f].recs : disk[f].recs[i].val = Deleted
PutMergeKeepsReplay ==
  [][(\E t \in Threads : MergeStep(t)) /\ (\A k \in Keys : LastPosition(k) = Latest(k))
       => \/ \A k \in Keys : Restored(k)' = View(k)'
          \/ \E f \in cand \cup cand' : TombstoneIn(f)]_vars

\* After a kill and a restart get answers what it answered before, but for
\* the calls the kill cut short.
RecoversView ==
  [][status = "loading" /\ status' = "up" => \A k \in Keys : View(k)' \in expected[k]]_vars

\* A directory the engine wrote can be opened again.
OpenSucceeds == status # "failed"

-------------------------------------------------------------------------------
(***************************************************************************)
(* Refinement.  A put or a delete takes effect when it changes the index; a *)
(* delete of an absent key, and a get, when they look the key up.           *)
(***************************************************************************)
Effective(t) == pc[t] \notin {"idle", "lookup"} \cup PendingPCs

AbsReq == [t \in Threads |-> IF pc[t] = "idle" \/ Effective(t) THEN Nil ELSE req[t]]

AbsRes ==
  [t \in Threads |->
     IF pc[t] = "read" THEN ValueAt(pos[t])
     ELSE IF Effective(t) THEN "ok"
     ELSE result[t]]

Store == INSTANCE KVStore WITH
  Clients <- Threads, Absent <- Deleted, NoCall <- Nil,
  db <- [k \in Keys |-> View(k)], req <- AbsReq, res <- AbsRes

\* The engine is a linearizable dictionary: concurrent puts, deletes and gets,
\* with the rotations and merges they cause, look like calls executed one at a
\* time, each with the answer the trait KvsEngine documents.
Linearizable == Store!Spec

-------------------------------------------------------------------------------
\* Every call returns: no thread is left waiting for a merge, and a merge ends.
CallsReturn == \A t \in Threads : pc[t] # "idle" ~> pc[t] = "idle"
===============================================================================
