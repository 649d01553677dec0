------------------------- MODULE NaiveThreadPoolProofs -------------------------
(***************************************************************************)
(* Proofs about the naive thread pool, for any number of workers and jobs  *)
(* and any mix of jobs that return, panic or never end.  The invariant     *)
(* says who holds a job at each point of its way through the channel.      *)
(***************************************************************************)
EXTENDS NaiveThreadPool, TLAPS

USE PoolAssumption

\* A worker runs a job exactly when it holds one, and no two hold the same.
WorkersOK ==
  /\ \A w \in Workers : worker[w] = "run" <=> on[w] # NoJob
  /\ \A w \in Workers : on[w] # NoJob => status[on[w]] = "running"
  /\ \A w, v \in Workers : on[w] # NoJob /\ on[w] = on[v] => w = v
  /\ \A j \in Jobs : status[j] = "running" => \E w \in Workers : on[w] = j

\* The channel holds queued jobs, each once; they have a worker to wait for.
QueueOK ==
  /\ \A i \in 1 .. Len(queue) : status[queue[i]] = "queued"
  /\ \A i, k \in 1 .. Len(queue) : queue[i] = queue[k] => i = k
  /\ queue # <<>> => \E w \in Workers : ~Gone(w)

\* A queued job is in the channel, or was dropped with it by the last panic.
JobsOK ==
  \A j \in Jobs : status[j] = "queued" =>
    \/ \E i \in 1 .. Len(queue) : queue[i] = j
    \/ (\A w \in Workers : Gone(w)) /\ (\E w \in Workers : worker[w] = "dead")

\* Workers leave only an empty channel without sender; they are started in
\* order by new and joined in order by drop.
OwnerOK ==
  /\ sender <=> owner \in {"new", "active"}
  /\ \A w \in Workers : worker[w] = "exited" => ~sender /\ queue = <<>>
  /\ owner = "new" => \A j \in Jobs : status[j] = "new"
  /\ owner = "new" => \A w \in Workers : w < next => worker[w] # "unborn"
  /\ owner \in {"active", "joining"} => \A w \in Workers : worker[w] # "unborn"
  /\ owner = "active" => next = 1
  /\ owner = "joining" => \A w \in Workers : w < next => worker[w] = "exited"
  /\ owner = "dropped" => \A w \in Workers : worker[w] = "exited"

PoolInv == TypeOK /\ WorkersOK /\ QueueOK /\ JobsOK /\ OwnerOK

-------------------------------------------------------------------------------
\* The invariant holds before new is called.
LEMMA InitPool == Init => PoolInv
<1> SUFFICES ASSUME Init PROVE PoolInv
  OBVIOUS
<1> USE DEF Init
<1>1. TypeOK
  BY DEF TypeOK, Workers
<1>2. WorkersOK
  BY DEF WorkersOK, Workers
<1>3. QueueOK /\ JobsOK
  BY DEF QueueOK, JobsOK
<1>4. OwnerOK
  BY DEF OwnerOK, Workers
<1> QED
  BY <1>1, <1>2, <1>3, <1>4 DEF PoolInv

\* The head of the channel and what is left of it.
LEMMA HeadTail ==
  ASSUME NEW q \in Seq(Jobs), q # <<>>
  PROVE  /\ Head(q) = q[1] /\ Head(q) \in Jobs /\ 1 \in 1 .. Len(q)
         /\ Tail(q) \in Seq(Jobs) /\ Len(Tail(q)) = Len(q) - 1
         /\ \A i \in 1 .. Len(Tail(q)) : Tail(q)[i] = q[i + 1] /\ i + 1 \in 1 .. Len(q)
OBVIOUS

\* The owner's steps keep the invariant.
LEMMA OwnerStep ==
  PoolInv /\ (StartWorker \/ StartFails \/ Created \/ DropSender \/ Join) => PoolInv'
<1> SUFFICES ASSUME PoolInv, StartWorker \/ StartFails \/ Created \/ DropSender \/ Join
             PROVE PoolInv'
  OBVIOUS
<1> USE DEF PoolInv
<1>1. CASE StartWorker
  <2>1. next \in Workers /\ worker' = [worker EXCEPT ![next] = "lock"] /\ next' = next + 1
    BY <1>1 DEF StartWorker
  <2>2. UNCHANGED <<fate, owner, sender, mutex, queue, on, status>> /\ owner = "new"
    BY <1>1 DEF StartWorker
  <2>3. TypeOK'
    BY <2>1, <2>2 DEF TypeOK, Workers
  <2>4. worker[next] # "run"
    BY <2>1, <2>2 DEF WorkersOK, OwnerOK, TypeOK
  <2>5. WorkersOK'
    BY <2>1, <2>2 DEF WorkersOK, TypeOK, OwnerOK
  <2>6. \A j \in Jobs : status[j] = "new"
    BY <2>2 DEF OwnerOK
  <2>7. queue = <<>>
    <3> SUFFICES ASSUME queue # <<>> PROVE FALSE
      OBVIOUS
    <3>1. 1 \in 1 .. Len(queue) /\ queue[1] \in Jobs
      BY HeadTail DEF TypeOK
    <3> QED
      BY <2>6, <3>1 DEF QueueOK
  <2>8. QueueOK' /\ JobsOK'
    BY <2>2, <2>6, <2>7 DEF QueueOK, JobsOK
  <2>9. OwnerOK'
    BY <2>1, <2>2, <2>6, <2>7 DEF OwnerOK, TypeOK, Workers
  <2> QED
    BY <2>3, <2>5, <2>8, <2>9
<1>2. CASE StartFails \/ Created \/ DropSender
  <2>1. UNCHANGED <<fate, worker, mutex, queue, on, status>>
    BY <1>2 DEF StartFails, Created, DropSender
  <2>2. TypeOK'
    <3>1. next' \in {next, 1} /\ 1 \in 1 .. NumWorkers + 1
      BY <1>2 DEF StartFails, Created, DropSender
    <3>2. sender' \in BOOLEAN /\ owner' \in {"new", "active", "joining", "dropped", "panicked"}
      BY <1>2 DEF StartFails, Created, DropSender, TypeOK
    <3> QED
      BY <2>1, <3>1, <3>2 DEF TypeOK
  <2>3. WorkersOK' /\ QueueOK' /\ JobsOK'
    BY <2>1 DEF WorkersOK, QueueOK, JobsOK, Gone
  <2>4. OwnerOK'
    <3>1. CASE StartFails
      BY <2>1, <3>1 DEF StartFails, OwnerOK
    <3>2. CASE Created
      <4>1. \A w \in Workers : w < next
        BY <3>2 DEF Created, TypeOK, Workers
      <4>2. \A w \in Workers : ~(w < 1)
        BY DEF Workers
      <4> QED
        BY <2>1, <3>2, <4>1, <4>2 DEF Created, OwnerOK
    <3>3. CASE DropSender
      <4>1. next = 1 /\ next' = next /\ \A w \in Workers : ~(w < 1)
        BY <3>3 DEF DropSender, OwnerOK, Workers
      <4> QED
        BY <2>1, <3>3, <4>1 DEF DropSender, OwnerOK
    <3> QED
      BY <1>2, <3>1, <3>2, <3>3
  <2> QED
    BY <2>2, <2>3, <2>4
<1>3. CASE Join
  <2>1. UNCHANGED <<fate, sender, worker, mutex, queue, on, status>> /\ owner = "joining"
    BY <1>3 DEF Join
  <2>2. TypeOK'
    BY <1>3, <2>1 DEF Join, TypeOK, Workers
  <2>3. WorkersOK' /\ QueueOK' /\ JobsOK'
    BY <2>1 DEF WorkersOK, QueueOK, JobsOK, Gone
  <2>4. OwnerOK'
    <3>1. next \notin Workers => \A w \in Workers : w < next
      BY DEF TypeOK, Workers
    <3>2. \A w \in Workers : w < next + 1 => w < next \/ w = next
      BY DEF TypeOK, Workers
    <3> QED
      BY <1>3, <2>1, <3>1, <3>2 DEF Join, OwnerOK
  <2> QED
    BY <2>2, <2>3, <2>4
<1> QED
  BY <1>1, <1>2, <1>3

\* spawn keeps the invariant.
LEMMA SpawnStep == ASSUME PoolInv, NEW j \in Jobs, Spawn(j) PROVE PoolInv'
<1> USE DEF PoolInv
<1>1. UNCHANGED <<fate, next, worker, mutex, on>> /\ owner = "active" /\ status[j] = "new"
  BY DEF Spawn
<1>2. CASE \A w \in Workers : Gone(w)
  <2>1. owner' = "panicked" /\ sender' = FALSE /\ UNCHANGED <<queue, status>>
    BY <1>2 DEF Spawn
  <2>2. TypeOK'
    BY <1>1, <2>1 DEF TypeOK
  <2>3. WorkersOK' /\ QueueOK' /\ JobsOK'
    BY <1>1, <2>1 DEF WorkersOK, QueueOK, JobsOK, Gone
  <2>4. OwnerOK'
    BY <1>1, <2>1 DEF OwnerOK
  <2> QED
    BY <2>2, <2>3, <2>4
<1>3. CASE ~\A w \in Workers : Gone(w)
  <2>1. queue' = Append(queue, j) /\ status' = [status EXCEPT ![j] = "queued"]
    BY <1>3 DEF Spawn
  <2>2. UNCHANGED <<owner, sender>>
    BY <1>3 DEF Spawn
  <2>3. queue \in Seq(Jobs)
    BY DEF TypeOK
  <2>4. /\ Len(queue') = Len(queue) + 1 /\ queue' \in Seq(Jobs)
        /\ \A i \in 1 .. Len(queue) : queue'[i] = queue[i] /\ queue[i] \in Jobs
        /\ queue'[Len(queue) + 1] = j
    BY <2>1, <2>3
  <2>5. \A i \in 1 .. Len(queue') : i \in 1 .. Len(queue) \/ i = Len(queue) + 1
    BY <2>3, <2>4
  <2>6. TypeOK'
    BY <1>1, <2>1, <2>2, <2>4 DEF TypeOK
  <2>7. WorkersOK'
    BY <1>1, <2>1 DEF WorkersOK, TypeOK
  <2>8. QueueOK'
    <3>1. \A i \in 1 .. Len(queue) : queue[i] # j
      BY <1>1 DEF QueueOK
    <3>2. \A i \in 1 .. Len(queue') : status'[queue'[i]] = "queued"
      BY <2>1, <2>4, <2>5, <3>1 DEF QueueOK, TypeOK
    <3>3. \A i, k \in 1 .. Len(queue') : queue'[i] = queue'[k] => i = k
      BY <2>4, <2>5, <3>1 DEF QueueOK
    <3>4. \E w \in Workers : ~Gone(w)'
      BY <1>1, <1>3 DEF Gone
    <3> QED
      BY <3>2, <3>3, <3>4 DEF QueueOK
  <2>9. JobsOK'
    <3> SUFFICES ASSUME NEW i \in Jobs, status'[i] = "queued"
                 PROVE \E k \in 1 .. Len(queue') : queue'[k] = i
      BY DEF JobsOK
    <3>1. CASE i = j
      BY <2>3, <2>4, <3>1
    <3>2. CASE i # j
      <4>1. PICK k \in 1 .. Len(queue) : queue[k] = i
        BY <1>3, <2>1, <3>2 DEF JobsOK, TypeOK
      <4> QED
        BY <2>3, <2>4, <4>1
    <3> QED
      BY <3>1, <3>2
  <2>10. OwnerOK'
    BY <1>1, <2>1, <2>2 DEF OwnerOK
  <2> QED
    BY <2>6, <2>7, <2>8, <2>9, <2>10
<1> QED
  BY <1>2, <1>3

\* A worker that takes the mutex or leaves keeps the invariant.
LEMMA LeaveStep == ASSUME PoolInv, NEW w \in Workers, Lock(w) \/ Leave(w) PROVE PoolInv'
<1> USE DEF PoolInv
<1>1. UNCHANGED <<fate, owner, sender, next, queue, on, status>>
  BY DEF Lock, Leave
<1>2. PICK l \in {"recv", "exited"} : worker' = [worker EXCEPT ![w] = l]
  BY DEF Lock, Leave
<1>3. worker[w] \in {"lock", "recv"} /\ (l = "exited" => queue = <<>> /\ ~sender)
  BY <1>2 DEF Lock, Leave, TypeOK
<1>4. TypeOK'
  BY <1>1, <1>2 DEF Lock, Leave, TypeOK
<1>5. WorkersOK'
  BY <1>1, <1>2, <1>3 DEF WorkersOK, TypeOK
<1>6. QueueOK'
  BY <1>1, <1>2, <1>3 DEF QueueOK, Gone, TypeOK
<1>7. JobsOK'
  <2>1. ~Gone(w)
    BY <1>3 DEF Gone
  <2> QED
    BY <1>1, <2>1 DEF JobsOK
<1>8. OwnerOK'
  BY <1>1, <1>2, <1>3 DEF OwnerOK, TypeOK
<1> QED
  BY <1>4, <1>5, <1>6, <1>7, <1>8

\* A worker that takes a job out of the channel keeps the invariant.
LEMMA RecvStep == ASSUME PoolInv, NEW w \in Workers, Recv(w) PROVE PoolInv'
<1> USE DEF PoolInv
<1> DEFINE j == Head(queue)
<1>1. UNCHANGED <<fate, owner, sender, next>> /\ worker[w] = "recv" /\ queue # <<>>
  BY DEF Recv
<1>2. /\ queue' = Tail(queue)
      /\ worker' = [worker EXCEPT ![w] = "run"]
      /\ on' = [on EXCEPT ![w] = j]
      /\ status' = [status EXCEPT ![j] = "running"]
      /\ mutex' = NoJob
  BY DEF Recv
<1>3. /\ j = queue[1] /\ j \in Jobs /\ 1 \in 1 .. Len(queue)
      /\ Tail(queue) \in Seq(Jobs) /\ Len(Tail(queue)) = Len(queue) - 1
      /\ \A i \in 1 .. Len(Tail(queue)) : Tail(queue)[i] = queue[i + 1]
                                          /\ i + 1 \in 1 .. Len(queue)
  BY <1>1, HeadTail DEF TypeOK
<1>4. on[w] = NoJob /\ status[j] = "queued"
  BY <1>1, <1>3 DEF WorkersOK, QueueOK
<1>5. TypeOK'
  BY <1>1, <1>2, <1>3 DEF TypeOK
<1>6. \A v \in Workers : on[v] # j
  BY <1>3, <1>4 DEF WorkersOK
<1>7. WorkersOK'
  BY <1>2, <1>3, <1>4, <1>6 DEF WorkersOK, TypeOK
<1>8. QueueOK'
  <2>1. \A i \in 1 .. Len(queue') : queue'[i] = queue[i + 1] /\ i + 1 \in 1 .. Len(queue)
                                    /\ queue'[i] # j /\ queue'[i] \in Jobs
    BY <1>2, <1>3 DEF QueueOK, TypeOK
  <2>2. \A i \in 1 .. Len(queue') : status'[queue'[i]] = "queued"
    BY <1>2, <2>1 DEF QueueOK, TypeOK
  <2>3. \A i, k \in 1 .. Len(queue') : queue'[i] = queue'[k] => i = k
    BY <1>3, <2>1 DEF QueueOK
  <2>4. ~Gone(w)'
    BY <1>2 DEF Gone, TypeOK
  <2> QED
    BY <2>2, <2>3, <2>4 DEF QueueOK
<1>9. JobsOK'
  <2> SUFFICES ASSUME NEW i \in Jobs, status'[i] = "queued"
               PROVE \E k \in 1 .. Len(queue') : queue'[k] = i
    BY DEF JobsOK
  <2>1. i # j /\ status[i] = "queued" /\ ~Gone(w)
    BY <1>1, <1>2, <1>3 DEF Gone, TypeOK
  <2>2. PICK k \in 1 .. Len(queue) : queue[k] = i
    BY <2>1 DEF JobsOK
  <2>3. k # 1 /\ k - 1 \in 1 .. Len(Tail(queue)) /\ (k - 1) + 1 = k
    BY <1>3, <2>1, <2>2 DEF TypeOK
  <2> QED
    BY <1>2, <1>3, <2>2, <2>3
<1>10. OwnerOK'
  <2>1. \A v \in Workers : worker'[v] # "exited"
    BY <1>1, <1>2 DEF OwnerOK, TypeOK
  <2>2. owner # "new" /\ owner # "dropped"
    BY <1>1, <1>3, <1>4 DEF OwnerOK
  <2>3. owner = "joining" => \A v \in Workers : ~(v < next)
    BY <1>1 DEF OwnerOK
  <2> QED
    BY <1>1, <1>2, <2>1, <2>2, <2>3 DEF OwnerOK, TypeOK
<1> QED
  BY <1>5, <1>7, <1>8, <1>9, <1>10

\* A worker whose job returns or panics keeps the invariant.
LEMMA EndStep == ASSUME PoolInv, NEW w \in Workers, Return(w) \/ Panic(w) PROVE PoolInv'
<1> USE DEF PoolInv
<1> DEFINE j == on[w]
<1>1. UNCHANGED <<fate, owner, sender, next, mutex>> /\ worker[w] = "run"
  BY DEF Return, Panic, EndOfJob
<1>2. PICK l \in {"lock", "dead"} :
        /\ worker' = [worker EXCEPT ![w] = l]
        /\ l = "lock" => queue' = queue
        /\ l = "dead" => queue' = IF \A v \in Workers \ {w} : Gone(v) THEN <<>> ELSE queue
  BY DEF Return, Panic, EndOfJob
<1>3. on' = [on EXCEPT ![w] = NoJob] /\ status' = [status EXCEPT ![j] = "ended"]
  BY DEF Return, Panic, EndOfJob
<1>4. j \in Jobs /\ status[j] = "running"
  BY <1>1 DEF WorkersOK, TypeOK
<1>5. queue' \in {queue, <<>>}
  BY <1>2
<1>6. TypeOK'
  <2>1. queue' \in Seq(Jobs)
    <3>1. <<>> \in Seq(Jobs) /\ queue \in Seq(Jobs)
      BY DEF TypeOK
    <3> QED
      BY <1>5, <3>1
  <2>2. worker' \in [Workers -> {"unborn", "lock", "recv", "run", "exited", "dead"}]
    BY <1>2 DEF TypeOK
  <2>3. on' \in [Workers -> Jobs \cup {NoJob}]
    BY <1>3 DEF TypeOK
  <2>4. status' \in [Jobs -> {"new", "queued", "running", "ended"}]
    BY <1>3 DEF TypeOK
  <2> QED
    BY <1>1, <2>1, <2>2, <2>3, <2>4 DEF TypeOK
<1>7. WorkersOK'
  BY <1>2, <1>3, <1>4 DEF WorkersOK, TypeOK
<1>8. \A i \in 1 .. Len(queue) : queue[i] # j
  BY <1>4 DEF QueueOK
<1>9. QueueOK'
  <2>1. CASE queue' = <<>>
    BY <2>1 DEF QueueOK
  <2>2. CASE queue' = queue /\ queue # <<>>
    <3>1. \E v \in Workers : ~Gone(v)'
      <4>1. CASE l = "lock"
        BY <1>2, <4>1 DEF Gone, TypeOK
      <4>2. CASE l = "dead"
        BY <1>2, <2>2, <4>2 DEF Gone, TypeOK
      <4> QED
        BY <4>1, <4>2
    <3>2. \A i \in 1 .. Len(queue) : status'[queue[i]] = "queued"
      BY <1>3, <1>8 DEF QueueOK, TypeOK
    <3> QED
      BY <2>2, <3>1, <3>2 DEF QueueOK
  <2> QED
    BY <1>5, <2>1, <2>2
<1>10. JobsOK'
  <2> SUFFICES ASSUME NEW i \in Jobs, status'[i] = "queued"
               PROVE \/ \E k \in 1 .. Len(queue') : queue'[k] = i
                     \/ (\A v \in Workers : Gone(v)') /\ (\E v \in Workers : worker'[v] = "dead")
    BY DEF JobsOK
  <2>1. status[i] = "queued" /\ ~Gone(w)
    BY <1>1, <1>3 DEF Gone, TypeOK
  <2>2. \E k \in 1 .. Len(queue) : queue[k] = i
    BY <2>1 DEF JobsOK
  <2>3. CASE l = "dead" /\ \A v \in Workers \ {w} : Gone(v)
    BY <1>2, <2>3 DEF Gone, TypeOK
  <2>4. CASE ~(l = "dead" /\ \A v \in Workers \ {w} : Gone(v))
    BY <1>2, <2>2, <2>4
  <2> QED
    BY <2>3, <2>4
<1>11. OwnerOK'
  <2>1. owner # "new" /\ owner # "dropped"
    BY <1>1, <1>4 DEF OwnerOK
  <2>2. \A v \in Workers : worker'[v] = "exited" => worker[v] = "exited"
    BY <1>2 DEF TypeOK
  <2>3. owner = "joining" => \A v \in Workers : v < next => v # w
    BY <1>1 DEF OwnerOK
  <2> QED
    BY <1>1, <1>2, <1>5, <2>1, <2>2, <2>3 DEF OwnerOK, TypeOK
<1> QED
  BY <1>6, <1>7, <1>9, <1>10, <1>11

\* The invariant is inductive.
LEMMA NextPool == PoolInv /\ [Next]_vars => PoolInv'
<1>1. ASSUME PoolInv, UNCHANGED vars PROVE PoolInv'
  BY <1>1 DEF vars, PoolInv, TypeOK, WorkersOK, QueueOK, JobsOK, OwnerOK, Gone
<1> QED
  BY <1>1, OwnerStep, SpawnStep, LeaveStep, RecvStep, EndStep DEF Next, Work, Block, Finished

\* The invariant holds in every reachable state.
LEMMA PoolInvariant == Spec => []PoolInv
BY InitPool, NextPool, PTL DEF Spec

-------------------------------------------------------------------------------
\* The variables of the pool keep their types.
THEOREM PoolTypes == Spec => []TypeOK
<1>1. PoolInv => TypeOK
  BY DEF PoolInv
<1> QED
  BY <1>1, PoolInvariant, PTL

\* When drop returns, every job the pool was given has ended and every worker
\* has left its loop, whatever panicked before.
THEOREM DropHasWaited == Spec => []DropWaits
<1>1. PoolInv => DropWaits
  <2> SUFFICES ASSUME PoolInv, owner = "dropped"
               PROVE (\A w \in Workers : worker[w] = "exited")
                     /\ \A j \in Jobs : status[j] \in {"new", "ended"}
    BY DEF DropWaits
  <2> USE DEF PoolInv
  <2>1. \A w \in Workers : worker[w] = "exited"
    BY DEF OwnerOK
  <2>2. ASSUME NEW j \in Jobs PROVE status[j] # "running"
    BY <2>1 DEF WorkersOK
  <2>3. ASSUME NEW j \in Jobs PROVE status[j] # "queued"
    <3>1. queue = <<>>
      BY <2>1 DEF QueueOK, Gone
    <3> QED
      BY <2>1, <3>1 DEF JobsOK
  <2> QED
    BY <2>1, <2>2, <2>3 DEF TypeOK
<1> QED
  BY <1>1, PoolInvariant, PTL

\* spawn panics on a live pool only when every worker died of a job's panic.
THEOREM SpawnFailsLate == Spec => SpawnFailsOnlyDead
<1>1. ASSUME PoolInv, Next, owner = "active", owner' = "panicked", NEW w \in Workers
      PROVE  worker[w] = "dead"
  <2>1. PICK j \in Jobs : Spawn(j)
    BY <1>1 DEF Next, StartWorker, StartFails, Created, DropSender, Join, Work, Lock, Recv,
      Leave, Return, Panic, EndOfJob, Block, Finished, vars
  <2>2. Gone(w)
    BY <1>1, <2>1 DEF Spawn
  <2>3. worker[w] # "unborn" /\ worker[w] # "exited"
    BY <1>1 DEF PoolInv, OwnerOK
  <2> QED
    BY <2>2, <2>3 DEF Gone
<1>2. PoolInv /\ [Next]_vars =>
        [\A j \in Jobs : owner = "active" /\ owner' = "panicked" =>
           \A w \in Workers : worker[w] = "dead"]_vars
  BY <1>1
<1> QED
  BY <1>2, PoolInvariant, PTL DEF Spec, SpawnFailsOnlyDead

\* The pool implements the trait's pool: every job is run at most once, by one
\* worker, and a job that panics or blocks changes nothing for the others.
THEOREM PoolRefines == Spec => RunsAsPool
<1> USE DEF Pool!Start, Pool!Spawn, Pool!End
<1>1. Init => Pool!Init
  BY DEF Init, Pool!Init
<1>2. ASSUME PoolInv, Next PROVE [Pool!Next]_(Pool!vars)
  <2>1. ASSUME NEW j \in Jobs, Spawn(j) PROVE [Pool!Next]_(Pool!vars)
    <3>1. Pool!Spawn(j) \/ UNCHANGED <<status, on>>
      BY <2>1 DEF Spawn
    <3> QED
      BY <3>1 DEF Pool!Next, Pool!vars
  <2>2. ASSUME NEW w \in Workers, Recv(w) PROVE [Pool!Next]_(Pool!vars)
    <3>1. on[w] = NoJob
      BY <1>2, <2>2 DEF Recv, PoolInv, WorkersOK
    <3>2. Head(queue) \in Jobs /\ status[Head(queue)] = "queued"
      BY <1>2, <2>2, HeadTail DEF Recv, PoolInv, TypeOK, QueueOK
    <3>3. Pool!Start(w, Head(queue))
      BY <2>2, <3>1, <3>2 DEF Recv
    <3> QED
      BY <3>2, <3>3 DEF Pool!Next, Pool!StartAny
  <2>3. ASSUME NEW w \in Workers, Return(w) \/ Panic(w) PROVE [Pool!Next]_(Pool!vars)
    <3>1. on[w] # NoJob
      BY <1>2, <2>3 DEF Return, Panic, PoolInv, WorkersOK
    <3>2. Pool!End(w)
      BY <2>3, <3>1 DEF Return, Panic, EndOfJob
    <3> QED
      BY <3>2 DEF Pool!Next
  <2>4. CASE UNCHANGED <<status, on>>
    BY <2>4 DEF Pool!vars
  <2> QED
    BY <1>2, <2>1, <2>2, <2>3, <2>4 DEF Next, StartWorker, StartFails, Created, DropSender,
      Join, Work, Lock, Leave, Block, Finished, vars
<1>3. UNCHANGED vars => UNCHANGED Pool!vars
  BY DEF vars, Pool!vars
<1>4. PoolInv /\ [Next]_vars => [Pool!Next]_(Pool!vars)
  BY <1>2, <1>3
<1> QED
  BY <1>1, <1>4, PoolInvariant, PTL DEF Spec, RunsAsPool, Pool!Spec
===============================================================================
