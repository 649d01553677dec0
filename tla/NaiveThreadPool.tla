--------------------------- MODULE NaiveThreadPool ---------------------------
(***************************************************************************)
(* The thread pool of src/thread_pool/naive_thread_pool.rs: an mpsc        *)
(* channel of jobs whose receiver the workers share under a mutex.  The    *)
(* owner creates the pool, spawns jobs and drops the pool.                 *)
(*                                                                         *)
(* A worker holds the mutex while it waits in recv() (the guard is a       *)
(* temporary of the let statement) and has released it when it runs the    *)
(* job.  Nothing catches a panic of a job: it unwinds the worker's loop    *)
(* and ends its thread.  The receiver lives as long as a worker does.      *)
(***************************************************************************)
EXTENDS Naturals, Sequences

CONSTANTS
  NumWorkers, \* the argument of new
  Jobs,
  NoJob,      \* no job; also: nobody holds the mutex
  Fates       \* the fates jobs may have: each returns, panics or never ends

Workers == 1 .. NumWorkers

ASSUME PoolAssumption ==
  /\ NumWorkers \in Nat
  /\ NoJob \notin Jobs /\ NoJob \notin Nat
  /\ Fates \subseteq [Jobs -> {"return", "panic", "block"}]

VARIABLES
  fate,   \* what each job does in this behaviour
  owner,  \* "new", "active", "joining", "dropped", "panicked"
  sender, \* is the channel's sender alive?
  next,   \* the worker that new starts, or drop joins, next
  worker, \* per worker: "unborn", "lock", "recv", "run", "exited" or "dead"
  mutex,  \* the worker that holds the receiver, or NoJob
  queue,  \* the channel
  on,     \* per worker: the job it runs, or NoJob
  status  \* per job: "new", "queued", "running", "ended"

vars == <<fate, owner, sender, next, worker, mutex, queue, on, status>>

Gone(w) == worker[w] \in {"unborn", "exited", "dead"}

Init ==
  /\ fate \in Fates
  /\ owner = "new"
  /\ sender = TRUE
  /\ next = 1
  /\ worker = [w \in Workers |-> "unborn"]
  /\ mutex = NoJob
  /\ queue = <<>>
  /\ on = [w \in Workers |-> NoJob]
  /\ status = [j \in Jobs |-> "new"]

-------------------------------------------------------------------------------
(***************************************************************************)
(* The owner.                                                              *)
(***************************************************************************)

\* Mutant: one turn too many.
StartOneMore ==
  /\ owner = "new"
  /\ next <= NumWorkers + 1
  /\ worker' = [w \in Workers |-> IF w = next THEN "lock" ELSE worker[w]]
  /\ next' = next + 1
  /\ UNCHANGED <<fate, owner, sender, mutex, queue, on, status>>

\* new: one thread::spawn per worker.
StartWorker ==
  /\ owner = "new"
  /\ next \in Workers
  /\ worker' = [worker EXCEPT ![next] = "lock"]
  /\ next' = next + 1
  /\ UNCHANGED <<fate, owner, sender, mutex, queue, on, status>>

\* thread::spawn panics where new should return an error; unwinding drops the
\* sender and the handles.
StartFails ==
  /\ owner = "new"
  /\ next \in Workers
  /\ owner' = "panicked"
  /\ sender' = FALSE
  /\ UNCHANGED <<fate, next, worker, mutex, queue, on, status>>

Created ==
  /\ owner = "new"
  /\ next \notin Workers
  /\ owner' = "active"
  /\ next' = 1
  /\ UNCHANGED <<fate, sender, worker, mutex, queue, on, status>>

\* Mutant: the channel has no buffer (try_send on a sync_channel(0)).
SpawnToWaiting(j) ==
  /\ owner = "active"
  /\ status[j] = "new"
  /\ IF \A w \in Workers : worker[w] # "recv"
     THEN owner' = "panicked" /\ sender' = FALSE /\ UNCHANGED <<queue, status>>
     ELSE /\ queue' = Append(queue, j)
          /\ status' = [status EXCEPT ![j] = "queued"]
          /\ UNCHANGED <<owner, sender>>
  /\ UNCHANGED <<fate, next, worker, mutex, on>>

\* spawn: send fails, and its unwrap panics, once the receiver is gone.  The
\* pool that is dropped in unwinding joins a dead worker and panics again.
Spawn(j) ==
  /\ owner = "active"
  /\ status[j] = "new"
  /\ IF \A w \in Workers : Gone(w)
     THEN owner' = "panicked" /\ sender' = FALSE /\ UNCHANGED <<queue, status>>
     ELSE /\ queue' = Append(queue, j)
          /\ status' = [status EXCEPT ![j] = "queued"]
          /\ UNCHANGED <<owner, sender>>
  /\ UNCHANGED <<fate, next, worker, mutex, on>>

\* drop: the sender first, then the workers in order.
DropSender ==
  /\ owner = "active"
  /\ owner' = "joining"
  /\ sender' = FALSE
  /\ UNCHANGED <<fate, next, worker, mutex, queue, on, status>>

\* Mutant: only the first worker is joined.
JoinFirst ==
  /\ owner = "joining"
  /\ next \in Workers => Gone(next)
  /\ owner' = "dropped"
  /\ UNCHANGED <<fate, sender, next, worker, mutex, queue, on, status>>

\* join().unwrap() panics at a worker that died of a panic; the handles behind
\* it are dropped without being joined.
Join ==
  /\ owner = "joining"
  /\ \/ /\ next \notin Workers
        /\ owner' = "dropped"
        /\ UNCHANGED next
     \/ /\ next \in Workers
        /\ worker[next] = "exited"
        /\ next' = next + 1
        /\ UNCHANGED owner
     \/ /\ next \in Workers
        /\ worker[next] = "dead"
        /\ owner' = "panicked"
        /\ UNCHANGED next
  /\ UNCHANGED <<fate, sender, worker, mutex, queue, on, status>>

-------------------------------------------------------------------------------
(***************************************************************************)
(* A worker: loop { let message = receiver.lock().unwrap().recv(); ... }.  *)
(***************************************************************************)
Lock(w) ==
  /\ worker[w] = "lock"
  /\ mutex = NoJob
  /\ mutex' = w
  /\ worker' = [worker EXCEPT ![w] = "recv"]
  /\ UNCHANGED <<fate, owner, sender, next, queue, on, status>>

\* Mutant: the job stays in the channel.
RecvPeek(w) ==
  /\ worker[w] = "recv"
  /\ queue # <<>>
  /\ on' = [on EXCEPT ![w] = Head(queue)]
  /\ status' = [status EXCEPT ![Head(queue)] = "running"]
  /\ mutex' = NoJob
  /\ worker' = [worker EXCEPT ![w] = "run"]
  /\ UNCHANGED <<fate, owner, sender, next, queue>>

\* recv() returns a job, also when the sender is gone and jobs are left.
Recv(w) ==
  /\ worker[w] = "recv"
  /\ queue # <<>>
  /\ queue' = Tail(queue)
  /\ on' = [on EXCEPT ![w] = Head(queue)]
  /\ status' = [status EXCEPT ![Head(queue)] = "running"]
  /\ mutex' = NoJob
  /\ worker' = [worker EXCEPT ![w] = "run"]
  /\ UNCHANGED <<fate, owner, sender, next>>

\* Mutant: the worker leaves as soon as the sender is gone.
LeaveEarly(w) ==
  /\ worker[w] = "recv"
  /\ ~sender
  /\ mutex' = NoJob
  /\ worker' = [worker EXCEPT ![w] = "exited"]
  /\ UNCHANGED <<fate, owner, sender, next, queue, on, status>>

\* Mutant: the error is ignored and the loop goes on.
Retry(w) ==
  /\ worker[w] = "recv"
  /\ queue = <<>>
  /\ ~sender
  /\ mutex' = NoJob
  /\ worker' = [worker EXCEPT ![w] = "lock"]
  /\ UNCHANGED <<fate, owner, sender, next, queue, on, status>>

\* recv() fails: the sender is gone and the channel is empty.
Leave(w) ==
  /\ worker[w] = "recv"
  /\ queue = <<>>
  /\ ~sender
  /\ mutex' = NoJob
  /\ worker' = [worker EXCEPT ![w] = "exited"]
  /\ UNCHANGED <<fate, owner, sender, next, queue, on, status>>

EndOfJob(w, l) ==
  /\ worker' = [worker EXCEPT ![w] = l]
  /\ on' = [on EXCEPT ![w] = NoJob]
  /\ status' = [status EXCEPT ![on[w]] = "ended"]
  /\ UNCHANGED <<fate, owner, sender, next, mutex>>

\* Mutant: the loop ends with the job.
ReturnAndLeave(w) ==
  /\ worker[w] = "run"
  /\ fate[on[w]] = "return"
  /\ EndOfJob(w, "exited")
  /\ UNCHANGED queue

Return(w) ==
  /\ worker[w] = "run"
  /\ fate[on[w]] = "return"
  /\ EndOfJob(w, "lock")
  /\ UNCHANGED queue

\* The panic ends the thread.  With the last thread the receiver goes, and the
\* jobs in the channel with it.
Panic(w) ==
  /\ worker[w] = "run"
  /\ fate[on[w]] = "panic"
  /\ EndOfJob(w, "dead")
  /\ queue' = IF \A v \in Workers \ {w} : Gone(v) THEN <<>> ELSE queue

\* A job that never ends: a connection whose client stays.
Block(w) ==
  /\ worker[w] = "run"
  /\ fate[on[w]] = "block"
  /\ UNCHANGED vars

Work(w) == Lock(w) \/ Recv(w) \/ Leave(w) \/ Return(w) \/ Panic(w)

\* Nothing is left to happen.
Finished ==
  /\ owner \in {"dropped", "panicked"}
  /\ \A w \in Workers : Gone(w)
  /\ UNCHANGED vars

Next ==
  \/ StartWorker \/ StartFails \/ Created
  \/ \E j \in Jobs : Spawn(j)
  \/ DropSender \/ Join
  \/ \E w \in Workers : Work(w) \/ Block(w)
  \/ Finished

Spec == Init /\ [][Next]_vars

\* The operating system runs every thread that can run; the owner finishes new
\* and drop once it has begun them, and need not spawn nor drop.
Fairness ==
  /\ WF_vars(StartWorker \/ Created \/ Join)
  /\ \A w \in Workers : WF_vars(Work(w))

FairSpec == Spec /\ Fairness

-------------------------------------------------------------------------------
TypeOK ==
  /\ fate \in Fates
  /\ owner \in {"new", "active", "joining", "dropped", "panicked"}
  /\ sender \in BOOLEAN
  /\ next \in 1 .. NumWorkers + 1
  /\ worker \in [Workers -> {"unborn", "lock", "recv", "run", "exited", "dead"}]
  /\ mutex \in Workers \cup {NoJob}
  /\ queue \in Seq(Jobs)
  /\ on \in [Workers -> Jobs \cup {NoJob}]
  /\ status \in [Jobs -> {"new", "queued", "running", "ended"}]

Pool == INSTANCE ThreadPool WITH Threads <- Workers

\* Every job is run at most once, by one worker, whatever other jobs panic or
\* block: the steps of the pool are steps of the trait's pool.
RunsAsPool == Pool!Spec

\* If no job panics, the pool keeps its promise that a queued job is started
\* while a worker is free: the mutex is never kept from an idle worker.
ThreadsStay == (\A j \in Jobs : fate[j] # "panic") => Pool!ThreadsStay

\* Every worker died of a panic or runs a job that never ends.
Exhausted ==
  \A w \in Workers : \/ worker[w] = "dead"
                     \/ worker[w] = "run" /\ fate[on[w]] = "block"

\* With panicking jobs too, a job that was spawned is started as long as one
\* worker is left to do it: also when the pool is being dropped.
JobsStart ==
  \A j \in Jobs :
    status[j] = "queued" ~> status[j] \in {"running", "ended"} \/ Exhausted

\* When drop returns, every job it was given has ended and no worker is left.
DropWaits ==
  owner = "dropped" =>
    /\ \A w \in Workers : worker[w] = "exited"
    /\ \A j \in Jobs : status[j] \in {"new", "ended"}

\* drop, and a new that failed half-way, leave no thread behind, unless a job
\* never ends.
ThreadsEnd ==
  owner \in {"joining", "panicked"} ~>
    /\ owner \in {"dropped", "panicked"} \/ (\E j \in Jobs : fate[j] = "block")
    /\ \A w \in Workers : Gone(w) \/ (worker[w] = "run" /\ fate[on[w]] = "block")

\* spawn panics only if every worker died of a panic: not while new still starts
\* workers, and not because workers left the loop.
SpawnFailsOnlyDead ==
  [][\A j \in Jobs : owner = "active" /\ owner' = "panicked" =>
       \A w \in Workers : worker[w] = "dead"]_vars
===============================================================================
