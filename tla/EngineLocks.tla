------------------------------ MODULE EngineLocks ------------------------------
(***************************************************************************)
(* The locks of the engine (src/engines/engine.rs): which locks each       *)
(* operation takes, in which order, and while holding which others.  The   *)
(* data they guard is in KVEngine, where a block under a lock is one step; *)
(* here only the lock operations are left, one step each.                  *)
(*                                                                         *)
(* The locks are parking_lot::RwLock: a writer first announces itself,     *)
(* which keeps new readers and writers out, and then waits for the readers *)
(* inside to leave.  merge_running is a flag taken with compare_exchange,  *)
(* so that a thread that does not get it skips the merge.                  *)
(***************************************************************************)
EXTENDS Naturals, Sequences, FiniteSets

CONSTANTS
  Threads, \* threads that hold a clone of the engine
  None,    \* no writer
  Mixes    \* the assignments of calls to threads: each thread runs a subset
           \* of "get", "put", "delete", and its writes may "merge"

Locks == {"active", "older", "file_ids", "reclaim", "index"}

ASSUME LockAssumption ==
  /\ None \notin Threads \cup Locks
  /\ Mixes \subseteq [Threads -> SUBSET {"get", "put", "delete", "merge"}]

VARIABLES
  mix,     \* the assignment of this behaviour
  readers, \* per lock: the threads that hold it for reading
  writer,  \* per lock: the thread that holds or announced a write, or None
  running, \* merge_running
  path,    \* per thread: the lock operations left of its call
  waiting  \* per thread: the lock whose readers it waits for, or None

vars == <<mix, readers, writer, running, path, waiting>>

-------------------------------------------------------------------------------
(***************************************************************************)
(* The lock operations of a call, in program order.                        *)
(***************************************************************************)
R(l) == [do |-> "read", lock |-> l]
W(l) == [do |-> "write", lock |-> l]
U(l) == [do |-> "unlock", lock |-> l]
Enter == [do |-> "enter", lock |-> "merge_running"]
Leave == [do |-> "leave", lock |-> "merge_running"]

\* p under a read guard, or a write guard, of lock l.
WhileReading(l, p) == <<R(l)>> \o p \o <<U(l)>>
WhileWriting(l, p) == <<W(l)>> \o p \o <<U(l)>>

Reading(l) == WhileReading(l, <<>>)
Writing(l) == WhileWriting(l, <<>>)

\* ensure_active_space: there is space, another thread has made space in the
\* meantime, or the file is rotated.
Ensured == Reading("active")
Reensured == Reading("active") \o Writing("active")
Rotated ==
  Reading("active")
    \o WhileWriting("active", Reading("file_ids") \o Writing("older") \o Writing("file_ids"))

\* get: the older lock is taken inside the active lock.
GetActive == Reading("index") \o Reading("active")

\* Mutant: the older lock first.
GetOlderFirst == Reading("index") \o WhileReading("older", Reading("active"))

GetOlder == Reading("index") \o WhileReading("active", Reading("older"))

\* Mutant: the guard of the older lock outlives the call.
LeakyCandidates == <<R("reclaim"), R("older"), U("reclaim")>>

\* get_merge_candidates: both locks are held until it returns.
Candidates == WhileReading("reclaim", Reading("older"))

\* merge: selection, the scan of a file, the commit.
Scan == WhileReading("older", Reading("index"))
Commit ==
  WhileWriting("active", WhileWriting("file_ids", WhileWriting("older",
    Reading("index") \o Writing("index") \o Writing("reclaim"))))
Merge == {<<Enter>> \o Candidates \o m \o <<Leave>> : m \in {<<>>, Scan \o Commit}}

\* put, delete, with what they do to make space and to count garbage.
PutPath(e, g) ==
  e \o Writing("active") \o Reading("index") \o g \o Writing("index") \o Candidates
DeletePath(e, g) ==
  Reading("index") \o Reading("index") \o g \o e \o Writing("active")
    \o Writing("index") \o Candidates
Spaces == {Ensured, Reensured, Rotated}
Counts == {<<>>, Writing("reclaim")}
Put == {PutPath(e, g) : e \in Spaces, g \in Counts}
Delete == {DeletePath(e, g) : e \in Spaces, g \in Counts}

\* The paths of thread t.
Paths(t) ==
  LET writes == (IF "put" \in mix[t] THEN Put ELSE {})
                  \cup (IF "delete" \in mix[t] THEN Delete ELSE {})
      gets == IF "get" \in mix[t] THEN {GetActive, GetOlder} ELSE {}
      merges == IF "merge" \in mix[t] THEN {w \o m : w \in writes, m \in Merge} ELSE {}
  IN writes \cup gets \cup merges

\* A thread that merges is the only one that writes.
MergerWritesAlone ==
  \A m \in Mixes, t \in Threads :
    "merge" \in m[t] => \A u \in Threads \ {t} : m[u] \subseteq {"get"}

-------------------------------------------------------------------------------
Step(t) == Head(path[t])
Doing(t, what) == path[t] # <<>> /\ waiting[t] = None /\ Step(t).do = what
Proceed(t) == path' = [path EXCEPT ![t] = Tail(@)]

Init ==
  /\ mix \in Mixes
  /\ readers = [l \in Locks |-> {}]
  /\ writer = [l \in Locks |-> None]
  /\ running = FALSE
  /\ path = [t \in Threads |-> <<>>]
  /\ waiting = [t \in Threads |-> None]

Call(t) ==
  /\ path[t] = <<>>
  /\ \E p \in Paths(t) : path' = [path EXCEPT ![t] = p]
  /\ UNCHANGED <<mix, readers, writer, running, waiting>>

\* RwLock::read: no writer inside and none announced.
Read(t) ==
  /\ Doing(t, "read")
  /\ writer[Step(t).lock] = None
  /\ readers' = [readers EXCEPT ![Step(t).lock] = @ \cup {t}]
  /\ Proceed(t)
  /\ UNCHANGED <<mix, writer, running, waiting>>

\* RwLock::write: announce, then wait for the readers to leave.
Announce(t) ==
  /\ Doing(t, "write")
  /\ writer[Step(t).lock] = None
  /\ writer' = [writer EXCEPT ![Step(t).lock] = t]
  /\ waiting' = [waiting EXCEPT ![t] = Step(t).lock]
  /\ UNCHANGED <<mix, readers, running, path>>

Write(t) ==
  /\ waiting[t] # None
  /\ readers[waiting[t]] = {}
  /\ waiting' = [waiting EXCEPT ![t] = None]
  /\ Proceed(t)
  /\ UNCHANGED <<mix, readers, writer, running>>

\* The guard is dropped.
Unlock(t) ==
  LET l == Step(t).lock IN
  /\ Doing(t, "unlock")
  /\ readers' = [readers EXCEPT ![l] = @ \ {t}]
  /\ writer' = [writer EXCEPT ![l] = IF @ = t THEN None ELSE @]
  /\ Proceed(t)
  /\ UNCHANGED <<mix, running, waiting>>

\* compare_exchange on merge_running: the loser returns.
EnterMerge(t) ==
  /\ Doing(t, "enter")
  /\ running' = TRUE
  /\ IF running THEN path' = [path EXCEPT ![t] = <<>>] ELSE Proceed(t)
  /\ UNCHANGED <<mix, readers, writer, waiting>>

LeaveMerge(t) ==
  /\ Doing(t, "leave")
  /\ running' = FALSE
  /\ Proceed(t)
  /\ UNCHANGED <<mix, readers, writer, waiting>>

Advance(t) ==
  \/ Read(t) \/ Announce(t) \/ Write(t) \/ Unlock(t)
  \/ EnterMerge(t) \/ LeaveMerge(t)

Next == \E t \in Threads : Call(t) \/ Advance(t)

Spec == Init /\ [][Next]_vars

-------------------------------------------------------------------------------
TypeOK ==
  /\ mix \in Mixes
  /\ readers \in [Locks -> SUBSET Threads]
  /\ writer \in [Locks -> Threads \cup {None}]
  /\ running \in BOOLEAN
  /\ path \in [Threads -> Seq([do : {"read", "write", "unlock", "enter", "leave"},
                               lock : Locks \cup {"merge_running"}])]
  /\ waiting \in [Threads -> Locks \cup {None}]
  \* A thread between two calls has dropped every guard.
  /\ \A t \in Threads, l \in Locks :
       path[t] = <<>> => t \notin readers[l] /\ writer[l] # t

\* The threads t waits for: those inside a lock whose write it announced, or
\* the writer of the lock it asks for.
WaitsFor(t) ==
  IF waiting[t] # None THEN readers[waiting[t]]
  ELSE IF Doing(t, "read") \/ Doing(t, "write")
       THEN {writer[Step(t).lock]} \ {None}
       ELSE {}

\* The threads never wait for each other in a ring: the engine does not
\* deadlock on its locks.
NoCircularWait ==
  \A S \in (SUBSET Threads) \ {{}} : \E t \in S : WaitsFor(t) \cap S = {}
===============================================================================
