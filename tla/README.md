# A TLA+ model of MemKV

MemKV (`src/README.md`) is a Bitcask-style key/value store in Rust: an
append-only log of data files, an in-memory hash index, a merge that compacts
files with much garbage, and a TCP server that runs one job of a thread pool
per connection.  This directory models its storage engine (the log, the index,
recovery, rotation, merging, and the locks that are to make all of this safe
for the threads that share one engine handle), a data file below the level of
records, the server with its client and both engines, and the thread pools.  Paths below are relative to the
repository root, `engine.rs` is `src/engines/engine.rs`.

## 1. Inventory

| Component | State | Operations | Interacts with |
|---|---|---|---|
| Log records, data files (`src/record/log_record.rs`, `data_file.rs`, `dbio.rs`) | per file: the bytes and a write offset | `write`, `sync`, `read_log_record` | called by engine and merge context |
| Hash index (`src/index/hash.rs`) | map key → position under its own RwLock | `get`, `put`, `delete`, each atomic | engine |
| Engine (`engine.rs`) | `active_file`, `older_files`, `index`, `file_ids`, `file_reclaim_size`, `merge_running` | `open` (replay), `put`, `get`, `delete`, `merge` | all threads share it by `Clone` |
| Merge context (`src/record/merge.rs`) | temporary files and new positions of one merge | `append`, `finish` | used by `merge` only |
| `KvsEngine` trait (`src/engines/mod.rs`) | – | `set`, `get`, `remove` | what the server calls |
| `KvStore` wrapper (`src/kv.rs`) | an engine | the same on strings; NotFound of `get` becomes `None` | engine |
| Thread pools (`src/thread_pool/`) | queue of jobs, worker threads | `new`, `spawn`, `drop` | server |
| Server, client, protocol (`src/server.rs`, `client.rs`, `common.rs`) | connections | one response per request, in order | pool, engine |
| Sled adapter (`src/engines/sled.rs`) | an external database | `set`, `get`, `remove` | – |
| Programs (`src/bin/`) | the `engine` marker file of `kvs-server` | start-up check; one call per `kvs-client` | server, client |

What makes each of them correct:

* **files and index** – a position in the index (or held by a thread) names a
  live record of its key; older files never change; files stay within
  `data_file_size`; garbage counters are the bytes of superseded records;
* **engine** – it is a linearizable dictionary; a merge changes no answer;
  after a restart it answers what it answered before;
* **merge** – one at a time; no record that is current is lost, no record that
  is superseded or deleted comes back; a failing merge leaves a working engine;
* **locks** – no deadlock, every call returns;
* **data file** – what the index names can be read back, also when a record was
  cut short; a torn record costs no record that was acknowledged;
* **pools** – every job runs once, a panicking job costs no worker, dropping a
  pool waits for its jobs and leaves no thread;
* **server, client, programs** – a directory keeps its engine; what a client was
  told survives a kill; a request has happened as a whole or not at all when its
  connection breaks; who waits is answered.

What is hard here: `put`, `get` and `delete` are chains of small blocks under
different locks, so other threads act between the append and the index update,
between an index lookup and the read, and during the whole scan of a merge; the
commit of a merge is a chain of renames and removals the process can be killed
in, and each of which can fail; replay knows the order of writes only from file
ids and offsets; five locks are taken in nested fashion by four operations.
Around the engine it is `write_all` reaching the file in pieces, the marker file
that decides which engine opens a directory, connections that outnumber the
threads serving them, and the one mutex behind which idle workers wait.
`PROJECT.json` lists each hazard at its line with the properties aimed at it.

## 2. Modules

```
LogFiles ── KVEngine ── KVEngineProps ── KVEngineInv ──┬── MCKVEngine (runs)
                             │                         └── KVEngineProofs ── KVEngineOrder
                     KVStore (INSTANCE)                       ── KVEngineSingle ── KVEngineLinear
EngineLocks ──┬── MCEngineLocks (run)
              └── EngineLocksProofs
DataFile ──┬── MCDataFile (runs)
           └── DataFileProofs
KvsServer ──┬── MCKvsServer (run)          INSTANCE DurableStore (refined),
            └── KvsServerProofs                     ThreadPool (used as its pool)
NaiveThreadPool ──┬── MCNaiveThreadPool    INSTANCE ThreadPool (refined)
                  └── NaiveThreadPoolProofs
```

`KVStore` is what the engine promises its callers.  With several writers, kills or
failing I/O `KVEngine` does not keep that promise (section 3), so `KvsServer` is not
written against it: it lets a call of kvs answer anything.  `ThreadPool` is what the
trait promises and `KvsServer` runs its connections on it, while
`NaiveThreadPool` is shown to implement it.

* `LogFiles` – records, positions, files.  A file is the sequence of records
  appended plus its length in size units; the offset of a record is its
  ordinal, which within a file determines the byte offset and back.
* `KVEngine` – the engine, with the merge context and the index.  **One action
  is one block of code under a lock** (or one index access), named after what
  it does; `pc[t]` says which block of its call thread `t` is at, `pos[t]` and
  `old[t]` are the locals `pos` and `old_val`/`old_pos`, `result[t]` the
  answer.  A call is a path such as (put) `ensure → rotate → append → readOld →
  count → index → trigger → cas → select → scan → rename → recheck → cleanup →
  release`.  `OpenFiles`, `LoadRecord`, `LoadFileEnd` are `open` with
  `load_index_from_files`.  `Crash` kills the process: memory is lost, the
  directory stays.  With `IoErrors` a read, write, sync, rename or open may fail
  (`CallError`, `MergeError`, `RenameError`) and `?` unwinds; removing an old
  file may fail too, which the merge only logs (`RemoveCandidate`).
* `KVEngineProps` – the properties; `KVStore` – the abstract dictionary the
  engine is compared with through a refinement mapping (`Store`): a write takes
  effect when it changes the index, a `get` when it looks its key up.
* `KVEngineInv` – the inductive invariants, in named parts: `IInv` for the
  engine as it is, and on top of it `ReplayOK` (start-up), `SInv` (merges beside
  one writer), `LInv` (effects of calls), `TopOK`/`BoundedOK`/`OpenableOK`
  (sizes), `OnceOK` and `LogOK` (the log against the index), `AccountOK` (the
  garbage counters against the log).  Each of the proof modules extends the one before: `KVEngineProofs` (`IInv`), `KVEngineOrder` (file
  ids, replay, sizes), `KVEngineSingle` (merges, recovery and garbage with one writer),
  `KVEngineLinear` (the refinement of `KVStore`).
* `EngineLocks` – only the lock operations of each call, in program order, one
  step each, with parking_lot's rule that a waiting writer keeps new readers
  out.  `KVEngine` treats a locked block as one step; this module checks what
  that hides, waiting while holding a lock.
* `DataFile` – one file as a row of cells: `write` with the turns of `write_all`
  (`BeginWrite`, `WriteSome`, `EndWrite`, `WriteFails`), the handle's `offset`
  beside the real length, `read_log_record` with its ends of file and CRC errors
  (`ReadRecord`), and the replay of the file (`Open`, `LoadRecord`, `LoadEnd`).
  A cell knows its record and place: that is the CRC.  A header made of pieces
  of two records reads as end of file or as corrupt, at the choice of the model.
* `KvsServer` – `kvs-server` from its start-up (`Launch`, `TruncateMarker`,
  `FillMarker`, `OpenEngine` or `OpenFails`) to `serve` (`Accept`, `Start`, the call
  of the engine, `Reply`, `EndServe`), and the client (`Send`, `Receive`, `Close`,
  `Break`).  A call of sled is `HandleSled` and, after a change, `Flush`, or
  `SledFails`; `mem` is the tree it answers from, `disk` what its files hold, the
  same after a flush.  A call of kvs is `CallKvs` and `KvsReturns`, which answers
  anything its type allows (`KvsAnswers`) and need not happen: the calls of the
  connections run beside each other there, and what they do to each other is
  `KVEngine`'s and `EngineLocks`' subject.  `cores` is what `available_parallelism`
  returned.
* `DurableStore` – the dictionary a client of a directory of sled may rely on: a call
  takes effect in one step, is answered once that is saved, and a restart falls back
  to what was saved; a call that fails may have had its effect.  `KvsServer`
  implements it with `db`, `saved`, `unsaved` and `phase` read off `mem`, `disk`, `pc`
  and `wire` (`Service`); a directory whose `Owner` is kvs shows it nothing (`Shown`).
* `ThreadPool` – the trait; `NaiveThreadPool` – the pool built of a channel and
  a mutex: the owner's steps (`StartWorker`, `StartFails`, `Created`, `Spawn`,
  `DropSender`, `Join`) and a worker's (`Lock`, `Recv`, `Leave`, `Return`,
  `Panic`, `Block`).  `fate` fixes for each job whether it returns, panics or
  never ends.

How the locks appear in `KVEngine`: the commit of a merge holds `active_file`,
`file_ids` and `older_files` from its first rename to the end, so all blocks
that need one of them are guarded by `~Committing` (and `Count` by `~Cleaning`,
as `file_reclaim_size` is only taken for the clean-up).  The scan holds
`older_files` for reading while it is inside a file (`Scanning`), which keeps a
rotation out.  Index accesses are guarded by nothing else: `put` and `delete`
touch the index without the locks of the commit.

Abstractions of the engine: bytes, CRC and the encoding are the size of a record
(`Size`, a constant); a record is written whole or not at all (`DataFile` is
about the other case); `file_ids` is reduced to
its last element `lastId`, the only one its readers use after start-up (the
commit pushes `old_active_id` a second time, which no code can notice);
`reclaim` is a total function, 0 where the map has no entry (an entry of 0
would count as a candidate only with a threshold of 0, which is excluded).  The
FINISHED file and the merge directory are left out as no code reads them back.
Pages written survive a kill of the process (as in `tests/cli.rs`), so `sync`
does not matter; power loss is not modelled.

Abstractions of the server: connecting and being accepted are one step, as the
backlog adds only waiting; one directory has one server process at a time; what kvs
stores is left out, and with it what its answers have to do with each other;
malformed requests, which end the connection, are left out; the client keeps to one
call at a time, as `KvsClient` takes `&mut self`.  Sled is external and taken at its
word: the tree changes atomically, and a flush that succeeds saves what was in it.

## 3. What is checked

Passing runs (`tlc -config <run>.cfg <module>`; deadlock checking is on in all
of them, a finished behaviour stutters in `Finished`):

| Run | Shows | Bounds |
|---|---|---|
| `single` | one thread: refinement of the dictionary (`Linearizable`), no merge step changes an answer (`MergeKeepsView`) or, if no tombstone is in the merged files, what a restart that can open the directory would restore (`PutMergeKeepsReplay`), `NoDangling`, `ReclaimExact` and `AccountOK`, the invariant behind it (the garbage counters at every block), `TypeOK` | 3 keys, values of sizes 3 and 1, 6 calls |
| `shared` | two threads: `IndexSound`, `ReadSound` (a `get` reads the record it looked up, or finds its file gone), `MergeExclusive`, `FilesBounded`, `ActiveOnTop`, `NewIdsOnTop` | 2 keys, 2 values, 4 calls |
| `linear` | two threads, one of which removes, no merge: `Linearizable` | 4 calls, threshold never reached |
| `recover` | one writer, killed twice, no merge: `OpenSucceeds`, `RecoversView`, `ReplayIsLastWriter` | 5 calls, a record may fill a file exactly |
| `faults` | one thread, any I/O call may fail, one kill: `CallsReturn`, `OlderReadOnly`, `IndexSound`, `MergeExclusive`, `PutMergeKeepsReplay` (a merge that fails anywhere, or cannot remove a file, leaves a log that replays to the same dictionary), and the inductive invariant `IInv` of the proofs | 4 puts or gets |
| `locks` | three threads: `NoCircularWait`, and no guard outlives its call (`TypeOK`) | any mix of calls without merges, or one merging writer and two readers |
| `files` | one data file: `ReadBack`, `RecoversTail` (one torn record at the end costs nothing), `TypeOK` | 4 records of 3 or 4 cells, 2 kills |
| `server` | a directory of either engine: `OneEngine`, `Answered` (if clients close and calls of kvs return), `TypeOK`; of sled: `Durable` (refinement of `DurableStore`) | 2 clients, 1 or 2 threads, 1 key, 1 value, 3 calls, 1 kill |
| `pool` | `RunsAsPool` (refinement of `ThreadPool`), `ThreadsStay`, `JobsStart`, `ThreadsEnd`, `DropWaits`, `SpawnFailsOnlyDead`, `TypeOK` | 2 workers, 3 jobs of any fates |

In `shared` and `faults` a file holds two puts (`DataFileSize` 4, a put has size 2, a
tombstone 1) and a merge needs half of a file dead, so four calls are enough to fill,
rotate, supersede, merge and write again, and to have one call of another thread
between any two blocks of that chain.  In `single` puts of one value have size 3, of
the other 1, and a quarter dead is enough: with three keys and six calls a merge
copies two records that do not fit into one temporary file, so that its commit has a
step between two renames, merges follow one another, and candidates hold tombstones.
`MaxFileId` is 12 and never reached: with deadlock
checking on, a run in which the bound stopped a rotation or a rename would
fail.  `PutMergeKeepsReplay` compares positions
(`LastPosition(k) = Latest(k)`) and not values before a step: a record that a
failed sync left in the log without an index entry may have the value of the one
the index points to, so that equal answers do not make the log agree with the
index.  Symmetry is used on keys and values (threads too where every thread may
call the same operations and no liveness is checked).  `recover` has symmetry on
keys only, as its sizes tell values apart, and so has `single`.

Four records are enough for one that is cut short, one behind it that the replay
takes for its rest, and one whose write succeeded before and one after; a record
of four cells lets the pieces line up and not line up.  Two clients on one thread
are the smallest case in which one waits for the other's connection to close; two
threads, in which one reads what the other has not flushed; one kill falls
between any two steps.  Two workers and three jobs let both workers die and leave
a job in the channel, or one die and one go on.

Fairness (`FairSpec`): weak fairness of `Open` and of the steps of each thread,
that is, the operating system keeps running threads that can run.  Starting a
call is not fair (clients need not call), nor is a failing I/O call (`Fails`).
`CallsReturn` is checked with a single thread on purpose: with more, the engine
can deadlock (see below), so no fairness of the scheduler makes it true.

In `server` the threads of the pool and sled's calls are fair, and a waiting client
takes its response and gives up only when its server is gone.  Nothing is assumed of
a client that keeps its connection open, nor of a call of kvs.  Both are premises of
`Answered` instead, without which it is false: a `KvsClient` that stays idle keeps its
thread for good (`server.rs:34`), as does a call in an engine that two writers have
deadlocked.  `kvs-client` does close its connection, when it exits after its call.
Nobody need start the server.  In `pool` every worker is fair, and the owner
finishes `new` and `drop` once begun but need not begin either; a job that
never ends (`Block`) is what `ThreadsEnd` and `JobsStart` make an exception for.

### Where the code does something else than it says

Each of these runs must find its property violated; `PROJECT.json` quotes the
documentation and the lines.

| Run | What happens |
|---|---|
| `tombstone_lost` | a merge copies live records only; it drops a tombstone although the put it deletes is in a file it keeps. A process killed after that starts, and the deleted key has its old value again (`RecoversView`). For the search to be short the run kills only when all calls have begun (`KilledLate`), and sizes and threshold let the file with the tombstone be merged beside a live record, without the file with the put. |
| `lost_update` | the double check of the commit (`engine.rs:575-586`) is two index accesses; a put between them is overwritten with the merged copy. |
| `torn_tail` | a record is cut short, the next one is appended behind the torn cells: the next start-up fails its CRC check, or stops before records whose writes had succeeded. |

More divergences the model shows, with the changes to see them (to `shared`, where no
other configuration is named, and with one property only; they are not kept as runs):

* a put that arrives while a merge copies its key goes to the old active file;
  the stale copy gets a higher file id and wins at the next restart
  (`engine.rs:541`, against the comment at 583): `PutMergeKeepsReplay`, two
  threads with `PutOnly`, 4 calls;
* a `get` that looked its key up before a commit finds the file gone, "data file
  not found" for a live key (`engine.rs:187`), which `kv.rs` reports as absent:
  `LiveKeysReadable`, two threads with `PutAndGet`, 5 calls;
* merging files without a live record leaves an empty data file, which makes the
  next `open`, and so the next start of the server, fail (`engine.rs:264`): `OpenSucceeds`, one thread with `PutOnly`,
  5 calls, one crash;
* `get_merge_candidates` takes `file_reclaim_size` then `older_files`
  (`engine.rs:330-332`), the commit the other way round (534, 593): two writers
  deadlock: `NoCircularWait` in `MCEngineLocks`, two threads, `Mixes <- Mergers`;
* an old file that a merge could not remove is replayed at the next start; the
  comment at `engine.rs:606` says this is harmless, which it is unless the merge
  dropped a tombstone of a put in that file (`RemoveCandidate`);
* after a write that failed half-way the handle's offset is behind the end of the
  file, so every later position of this run of the program is wrong
  (`data_file.rs:72-81`): `ReadBack` without its premise `~short`;
* a kill between the truncation and the write of the marker (`kvs-server.rs:71`)
  leaves a directory that any engine may open, although `tests/cli.rs:176`
  (`cli_wrong_engine`) expects another engine to be refused: `OneEngine` and
  `Durable` in `server` with `TornMarker = TRUE` and two kills;
* a job that panics ends its worker, although `thread_pool/mod.rs:27-29` promises
  the same number of threads: `ThreadsStay` in `pool` without its premise, with
  `Fates <- Panics`; when all have ended `spawn` panics (`naive_thread_pool.rs:77`),
  although line 27 says that it always succeeds;
* an oversize record on an empty active file rotates it and leaves an empty
  older file: `OpenSucceeds` in `recover` with `DataFileSize = 1`;
* two concurrent puts append in one order and index in the other, so a restart
  changes the answer: `RecoversView`, two threads with `PutOnly`, 2 calls, one
  crash, `ThresholdNum = 100`;
* a put that appended but has not indexed when its file is rotated and merged
  leaves the index pointing into a removed file: `NoDangling`, two threads with
  `PutOnly`;
* two removes of one key both succeed: `Linearizable`, two threads with
  `PutDelete`;
* garbage counters are wrong after a restart (replay counts superseded records
  as valid and unread files as garbage) and after two puts that read the same
  old position: `ReclaimExact` with one crash, or with two threads;
* a commit that fails after a rename leaves files with ids above the active
  file: `ActiveOnTop` in `faults`;
* after such a commit the next rotation takes the id of the renamed file and
  appends to it, however full it is (`engine.rs:389-394`): `FilesBounded` in
  `faults` with `Size <- MixedSize`, `ThresholdDen = 4` and 5 puts.

The unit test `delete_makes_key_not_found` (`engine.rs:699`) expects `get` of a
removed key to fail, while `get` (`engine.rs:163-166`) answers `Ok(None)`; the
model follows the code.

## 4. What is proved

`KVEngineProofs` proves with TLAPS, for all values of the constants (any
threads, keys, values, sizes, thresholds, numbers of calls and kills, with and
without I/O errors):

* `Invariant`: `Spec => []IInv`, the inductive invariant;
* `TypeCorrect`: `Spec => []TypeOK`;
* `IndexIsSound`: the index never points at a tombstone, another key's record
  or past the end of a file, so the `debug_assert!`s of `get` cannot fail;
* `ReadIsSound`: a `get` between its lookup and its read holds such a position, of a
  record that stays as it is, as long as the file is open; a file that a merge removed
  is not open again under the same id, so the read then fails with "data file not
  found" (`engine.rs:187`) and never takes a record of another file for its own;
* `MergesExclude`: one merge at a time, and the flag says so;
* `OlderFilesReadOnly`: an open older file never changes.

The theorems of the next three modules have hypotheses, defined in `KVEngineInv`:

| Theorem | Property | Under |
|---|---|---|
| `KVEngineOrder!ActiveIsOnTop` | `ActiveOnTop` | no I/O errors |
| `KVEngineOrder!NewIdsAreOnTop` | `NewIdsOnTop` | no I/O errors |
| `KVEngineOrder!Replays` | `ReplayIsLastWriter` | nothing |
| `KVEngineOrder!FilesStayBounded` | `FilesBounded` | no I/O errors, finitely many threads and values |
| `KVEngineOrder!Reopens` | `OpenSucceeds` | no I/O errors, no merge, each record fits into a file |
| `KVEngineSingle!NoKeyDangles` | `NoDangling` | one writer |
| `KVEngineSingle!MergesKeepView` | `MergeKeepsView` | one writer |
| `KVEngineSingle!MergesKeepReplay` | `PutMergeKeepsReplay` | one writer, no I/O errors |
| `KVEngineSingle!Recovers` | `RecoversView` | one writer, no I/O errors, no tombstone in merged files (`PutsOnly`) |
| `KVEngineSingle!CountsAlways` | `AccountOK` | one writer, no I/O errors, no kill |
| `KVEngineSingle!CountsGarbage` | `ReclaimExact` | one writer, no I/O errors, no kill |
| `KVEngineLinear!ThreadLinearizes` | `Linearizable` | one thread, no I/O errors, no kill |
| `KVEngineLinear!WriterLinearizes` | `Linearizable` | one writer, no I/O errors, no kill, no reader finds its file gone (`ReadsFindFiles`) |
| `KVEngineLinear!UnmergedLinearizes` | `Linearizable` | one thread removes, no merge, no I/O errors, no kill |

Why they are there:

* one writer (`SingleWriter`: one thread puts, deletes and so merges, any number
  of others read) – with two, a merge loses an update (`lost_update`), the index
  is left pointing into a removed file, and two puts append in one order and
  index in the other, all of section 3;
* no I/O errors – a commit that fails leaves files above the active one and full
  files to append to; a failed call may have left its record in the log, which a
  restart finds; a delete that fails after it has counted its record leaves it in
  the index; `KVStore` has no answer for an error.  `MergesKeepReplay` is
  proved without errors only, but `faults` checks its property with them;
* no kill – `KVStore` knows no restart; what a restart answers is `Recovers`; the
  replay counts superseded records as valid, so that counters are wrong after it;
* `PutsOnly` – a merge loses tombstones (`tombstone_lost`); `PutMergeKeepsReplay`,
  which exempts merges with tombstones, speaks like `RecoversView` of restarts that
  open the directory: a merge that copies nothing leaves an empty file, which `open`
  refuses (`engine.rs:264`; `OpenSucceeds` is what fails then);
* no merge – in `Reopens` as a merge without live records leaves an empty file, in
  `UnmergedLinearizes` because of the lost update;
* `ReadsFindFiles` – a merge may remove a file under a reader; one removing thread
  – two both remove the same key; both in section 3;
* finiteness – `SizeLimit` counts threads and takes the maximum of the sizes.

`PutsOnly`, `NoMerging` and `ReadsFindFiles` are assumed in the form
`Spec /\ []P => ...`: the theorem speaks of the behaviours in which `P` holds
throughout, and the proofs use `P` in one state at a time.

`EngineLocksProofs` proves, for any number of threads:

* `OnlyMergersBlock`: whatever the threads call, a ring of waiting threads has one
  in it that is at the last lock of a commit (`file_reclaim_size`);
* `NoRing`: no ring at all (`NoCircularWait`) if a thread whose writes may merge is
  the only one that writes (`MergerWritesAlone`; two of them do deadlock);
* `LocksTyped`: `TypeOK`, so no guard outlives its call.

`DataFileProofs` proves `ReadsBack` (whatever is in the file from earlier runs, the
index names whole records until a write of the open handle is cut short),
`TailRecovers` (a restart finds every acknowledged record if nothing was written
behind a record that was cut short) and `FileTypes`.

`NaiveThreadPoolProofs` proves, for any number of workers and jobs of any fates,
`PoolRefines` (a step of the pool is a step of the trait's pool), `DropHasWaited`,
`SpawnFailsLate` and `PoolTypes`.

`KvsServerProofs` proves, for any number of clients, threads, keys, calls and kills,
that in a directory of sled the server implements `DurableStore`, whatever calls and
flushes fail (`ServerRefines`), and in any directory `OnlyOneEngine` and
`ServerTypes`, each under the assumption that no kill hits a half-written marker
(`TornMarker = FALSE`), without which they are false.  Of what kvs answers it proves
nothing: that is `Linearizable` and `RecoversView` under the hypotheses above, which
connections that write at the same time do not meet.

The assumptions are the named `ASSUME`s of the modules: for the engine (sizes are
positive, a tombstone is not a value, `Nil` is not a position, and the types of
the options), for the file (a record is longer than its header), for the pool and
the server (the model values differ); TLC evaluates them in every run.

The argument for the engine.  `IndexSound` is not inductive: the position put into the index
was read or written several blocks earlier, or copied by a merge into a file
that did not have its id yet.  `IInv` therefore says of *every* position that is
held, in the index (`PositionsOK`), by a thread between two blocks
(`PositionsOK`, with `ThreadsOK` for what a thread in each block holds), or by
the merge (`CopiesOK`), that it names a live record of its key, and that its
file is not above `lastId`.  `GrowsStep` shows that records in files up to
`lastId` never change: an append adds at the end, and a rename writes
`start + moved`, which `CommitOK` shows to be `lastId + 1`.  For that no other
thread may take a file id during the commit, which follows from the guards for
the commit locks, and no second merge may run, which is `ExclusiveOK`.
`CommitOK` also says that the files renamed so far are the temporary ones, so a
rebased position names the copied record.  `FilesOK` bounds the ids of open
files and keeps the scan on a record; this gives `OlderFilesReadOnly`.

Replay needs no induction over the log, as its cursor is part of the state:
`ReplayOK` says that the index points to the last record of each key *before the
cursor*, which one step of the loop keeps, and at the end nothing is behind the
cursor.

Sizes: `RoomOK` says of the threads that have looked at the active file and not
yet written that there is room for the record of one of them, the last to look,
when each of the others writes a record first.  A writer that looks later finds
room on top of what is there and becomes that one; one that writes is taken from
the count.  `TopOK` is what makes a rotation or rename hit an empty file.
`OpenableOK` says that only the highest file may be empty.

Merges beside one writer: `SInv` follows a key of the index.  It lives in an open
file (`IndexOpen`); if in a candidate, it is ahead of the scan or copied
(`CoveredAt`), the copy has its value (`CopiedAt`), and by the time candidates are
removed no key lives in one.  `OnceOK` adds that the temporary files hold no other
record: one copy per key, of a record the index still points to.

Recovery: `LogOK` relates the log to the index in every state.  The last record of
a key is `Latest(k)`, where the index points or, during a commit, the renamed copy
the index has not been pointed to yet; for the key of a call between append and
index it is the record just written.  A rename adds copies above everything
(`KVEngineOrder`), once each; a removal takes a file in which no last record is,
provided that it holds no tombstone that hides an older put (`PutsOnly`).  So a
kill leaves a log that restores the answers or the call's effect (`RestoredOK`),
and `Replays` does the rest.  (To see these invariants hold on an instance: the
constants of `recover` with `Size <- MCSize`, `Ops <- PutOnly`, `DataFileSize = 4`
and `ThresholdNum = 1` satisfy `SInv`, `OnceOK`, `LogOK` and `RecoversView`, with
merges and two kills; a start on an empty merged file fails there, which
`RecoversView` does not count as an answer.)

Garbage: `ReclaimExact` speaks of states without a call in progress, while a call
counts a record some blocks before the index lets go of it, and a put writes one
some blocks before the index points to it.  `AccountOK` therefore defines, for any
state, the positions in use (`InUse`): those of the index, but for that of a key
whose position has been counted (`Counted`), that of a put on its way to the index,
and during a commit the copies the index will be pointed to.  A counter is the
bytes of the puts of its file that are not in use, but for the candidates of a
commit past its swap (`Dying`): the commit takes keys away from them without
counting, and their counters go with them.  Each block then either leaves the
positions in use as they are (`UsedStays`, `MergeUses`), adds a record that is in use
(`AppendAccount`, a renamed file by `OnceOK`), or takes one position away and counts
its size (`CountAccount`), which needs that a call counts what the index says, and
that this is not the record it has just written (`CountsAt`).  `DeadSize` adds up a
sequence with a recursive function; that a file with one number changed, or one
more, has the expected sum (`TotalChange`, `TotalAppend`) is induction over its
length.  The induction theorem of the library cannot be used here, so `AllNumbers`
states it for a set of numbers (a set with 0 and every successor is all of `Nat`),
from the well-foundedness of `<`.

Refinement: `LInv` says what a call has done so far, in the abstract dictionary's
terms (the record written has the value of the request; the key a delete has
found is still there, as no one else removes).  Each step is then an effect, an
invocation, a return or a stutter; merge steps stutter by `MergesKeepView`'s lemma.

Locks: the rest of a thread's path says which locks it holds, namely those whose
next operation in it is an unlock; so discipline is a property of paths, shown for
the paths of the code by composition.  With the ranks `active_file` and
`file_reclaim_size` 0, `file_ids` 1, `older_files` 2, index 3, each lock is asked
for above those held, except `file_reclaim_size` inside a commit.  In a ring the
ranks would rise for ever.

For the file: `HandleOK` says that offset plus the cells written so far is the
length of the file, so `EndWrite` returns where the record starts; `FoundOK`,
that the index names whole records, which an append cannot change; and
`ReadWhole`, that at a whole record nothing else can be read, since its first
cell fixes the record.  For a restart `LayoutOK` says that whole records follow
each other from the start of the file up to the one being written, or up to a
single torn one (`Chain`, `Rest`), while nothing is written behind a record that
was cut short; `ReplayOK` that the replay stands at the end of a whole record and
has found all before it.  At the end of a whole record the replay reads the next,
and behind the last one an end of file, so it can neither fail nor stop early.

For the pool: `PoolInv` follows a job through the channel.  A queued job is in
the channel exactly once, unless the last panic threw the channel away
(`JobsOK`); the channel is empty once a worker has left (`OwnerOK`).  So when
`drop` has joined all workers no job can be queued or running.

For the server: `MarkerOK` says that the marker names the one engine that has
files from before they are created, and that sled has nothing stored while it has no
files; `ConnOK`, per connection, that a request is in transit, with the engine or
answered, and no two of these.  `Tree` is the refinement mapping without the test of
`Owner`: a step that begins and ends in a directory of sled (or of no engine yet) maps
to a step of `Tree` (`TreeStep`), which is then one of `Service` (`Visible`).  The
owner changes only while no engine has files (`OwnerChanges`), when neither view shows
anything, and in a directory of kvs nothing shows.  A kill maps to `Restart`, which
loses exactly the calls that were not answered, and start-up maps to no step at all,
as the tree that is opened holds what was stored.

Only model-checked: all liveness (`CallsReturn`, `Answered`, `ThreadsStay`,
`JobsStart`, `ThreadsEnd`), as fairness is outside what TLAPS proves here.  Every
invariant, action property and refinement that a passing run checks is a theorem,
under the hypotheses above.

## 5. Not modelled

* `KvStore` (`src/kv.rs`) and the errors: no state; conversions of strings, and
  NotFound made `None`, which matters only for the divergence noted above.
* Options: `index_type` is never read and `create_if_missing` only guards `open`;
  the others are constants of `KVEngine`.
* The rayon pool is taken for the pool of the trait; that it is one is up to
  that library.  The server never drops its pool, so neither does the model.
* Two server processes started in one directory at the same time: both may write
  the marker and open their engine before the second fails to bind.
* Power loss: `sync_writes` would matter, and so would the order in which pages
  and renames reach the disk.
* `MergeContext` on its own: a first record larger than a file leaves temporary
  file 0 empty (`Fits` is translated, the runs' sizes do not reach this).
* Direct calls of the public `merge`, which bypass `merge_running`.
* Argument parsing, printing, logging, the encoding of requests and `kvs.rs`.
* `SharedQueueThreadPool` is commented out in `thread_pool/mod.rs`.

Worth adding next: the garbage counters and recovery with several writers whose keys
are disjoint.
