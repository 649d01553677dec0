------------------------------ MODULE KvsServer ------------------------------
(***************************************************************************)
(* The programs kvs-server and kvs-client: src/bin/kvs-server.rs chooses a *)
(* storage engine by the file "engine" of its directory, src/server.rs     *)
(* accepts connections and serves each in a job of a thread pool,          *)
(* src/client.rs sends one request at a time and waits for the response.   *)
(*                                                                         *)
(* The two engines are modelled apart.  Sled (src/engines/sled.rs) is an   *)
(* external database whose tree changes atomically and is flushed in a     *)
(* second step.  A call of kvs is a chain of blocks that the connections   *)
(* interleave (KVEngine models them): here it may answer anything its type *)
(* allows or an error, and need not return, and what kvs stores is left    *)
(* out.  Opening either engine may fail.  The server may be killed at any  *)
(* time, and started again by anybody with any --engine.                   *)
(***************************************************************************)
EXTENDS Naturals

CONSTANTS
  Clients,     \* connections, each used by one client
  PoolThreads, \* threads a pool may have
  Keys, Values,
  Absent,      \* no value
  None,        \* no client, no engine, no --engine option, no
               \* request, no response
  TornMarker,  \* may a kill hit between truncating and writing the marker?
  MaxCalls,    \* BOUND: calls made in all
  MaxKills     \* BOUND: kills of the server

Engines == {"kvs", "sled"}

Request == [op : {"set"}, key : Keys, val : Values] \cup [op : {"get", "remove"}, key : Keys]

ASSUME ServerAssumption ==
  /\ None \notin Clients \cup Engines \cup Request \cup Values \cup {Absent}
  /\ Absent \notin Values
  /\ (Values \cup {Absent, None}) \cap {"ok", "not_found", "error", "broken"} = {}
  /\ TornMarker \in BOOLEAN
  /\ MaxCalls \in Nat
  /\ MaxKills \in Nat

VARIABLES
  server,  \* "down", "marking", "filling", "opening" or "up"
  engine,  \* the engine the running server uses, or None
  marker,  \* the file "engine": an engine, "torn" or "none"
  created, \* the engines that have files in the directory
  disk,    \* what the files of sled hold
  mem,     \* the tree a running sled answers from
  cores,   \* the threads this machine gives its pool (available_parallelism)
  job, on, \* the pool: per connection its job's state, per thread its job
  pc,      \* per connection: "none" (not being served), "read", "engine" (in a
           \* call of kvs), "flush" (in one of sled), "reply"
  cut,     \* connections whose server process is gone
  client,  \* per client: "new", "open", "waiting" or "gone"
  wire,    \* per connection: "empty", or a "request" or "response" in transit
  call,    \* per connection: the request in it, or None
  out,     \* per connection: the response computed and not received, or None
  got,     \* per client: the response it received last, None or "broken"
  calls, kills \* counters that bound the model

startVars == <<server, engine, marker, created>>
storeVars == <<disk, mem>>
poolVars == <<cores, job, on>>
connVars == <<pc, cut, wire, call, out>>
clientVars == <<client, got>>
vars == <<startVars, storeVars, poolVars, connVars, clientVars, calls, kills>>

Empty == [k \in Keys |-> Absent]

\* RayonThreadPool: the pool of the trait, one job per connection.
Pool == INSTANCE ThreadPool WITH
  Threads <- PoolThreads, Jobs <- Clients, NoJob <- None, status <- job

Init ==
  /\ server = "down" /\ engine = None /\ marker = "none" /\ created = {}
  /\ disk = Empty /\ mem = Empty
  /\ cores \in (SUBSET PoolThreads) \ {{}}
  /\ Pool!Init
  /\ pc = [c \in Clients |-> "none"]
  /\ cut = {}
  /\ client = [c \in Clients |-> "new"]
  /\ wire = [c \in Clients |-> "empty"]
  /\ call = [c \in Clients |-> None]
  /\ out = [c \in Clients |-> None]
  /\ got = [c \in Clients |-> None]
  /\ calls = 0 /\ kills = 0

-------------------------------------------------------------------------------
(***************************************************************************)
(* main and run of kvs-server.                                             *)
(***************************************************************************)

\* Mutant: the content of the marker is not parsed.
RawMarker == marker

\* current_engine: an unreadable marker counts as none.
CurrentEngine == IF marker \in Engines THEN marker ELSE None

\* Mutant: the option wins over the marker.
AnyEngine(f) == IF f # None THEN f ELSE IF CurrentEngine # None THEN CurrentEngine ELSE "kvs"

\* The engine main runs with option f; None if it exits with "Wrong engine!".
ChosenEngine(f) ==
  IF f = None THEN IF CurrentEngine = None THEN "kvs" ELSE CurrentEngine
  ELSE IF CurrentEngine \in {None, f} THEN f
  ELSE None

Launch ==
  /\ server = "down"
  /\ \E f \in Engines \cup {None} :
       /\ ChosenEngine(f) # None
       /\ engine' = ChosenEngine(f)
  /\ server' = "marking"
  /\ UNCHANGED <<marker, created, storeVars, poolVars, connVars, clientVars,
                 calls, kills>>

\* fs::write truncates the marker, then writes it.
TruncateMarker ==
  /\ server = "marking"
  /\ marker' = "torn"
  /\ server' = "filling"
  /\ UNCHANGED <<engine, created, storeVars, poolVars, connVars, clientVars,
                 calls, kills>>

FillMarker ==
  /\ server = "filling"
  /\ marker' = engine
  /\ server' = "opening"
  /\ UNCHANGED <<engine, created, storeVars, poolVars, connVars, clientVars,
                 calls, kills>>

\* KVEngine::open or sled::open; then the listener is bound.
OpenEngine ==
  /\ server = "opening"
  /\ created' = created \cup {engine}
  /\ mem' = IF engine = "sled" THEN disk ELSE mem
  /\ server' = "up"
  /\ UNCHANGED <<engine, marker, disk, poolVars, connVars, clientVars, calls, kills>>

\* The engine cannot be opened, with or without files of its own left behind, or
\* the address cannot be bound: main prints the error and exits.
OpenFails ==
  /\ server = "opening"
  /\ created' \in {created, created \cup {engine}}
  /\ server' = "down" /\ engine' = None
  /\ UNCHANGED <<marker, storeVars, poolVars, connVars, clientVars, calls, kills>>

\* The process is killed: requests not read are lost, responses sent may still
\* arrive.
Kill ==
  /\ server # "down"
  /\ server = "filling" => TornMarker
  /\ kills < MaxKills
  /\ kills' = kills + 1
  /\ server' = "down" /\ engine' = None
  /\ mem' = Empty
  /\ job' = [c \in Clients |-> IF job[c] = "new" THEN "new" ELSE "ended"]
  /\ on' = [t \in PoolThreads |-> None]
  /\ pc' = [c \in Clients |-> "none"]
  /\ cut' = {c \in Clients : client[c] # "new"}
  /\ wire' = [c \in Clients |-> IF wire[c] = "request" THEN "empty" ELSE wire[c]]
  /\ call' = [c \in Clients |-> None]
  /\ out' = [c \in Clients |-> IF wire[c] = "response" THEN out[c] ELSE None]
  /\ UNCHANGED <<marker, created, disk, cores, clientVars, calls>>

-------------------------------------------------------------------------------
(***************************************************************************)
(* KvsServer::run and serve.                                               *)
(***************************************************************************)

\* A client connects and listener.incoming() yields the connection: the thread
\* that listens does nothing else but spawn a job for each.
Accept(c) ==
  /\ server = "up"
  /\ client[c] = "new"
  /\ client' = [client EXCEPT ![c] = "open"]
  /\ Pool!Spawn(c)
  /\ UNCHANGED <<startVars, storeVars, cores, connVars, got, calls, kills>>

\* A thread of the pool enters serve.
Start(t, c) ==
  /\ t \in cores
  /\ Pool!Start(t, c)
  /\ pc' = [pc EXCEPT ![c] = "read"]
  /\ UNCHANGED <<startVars, storeVars, cores, cut, wire, call, out, clientVars,
                 calls, kills>>

\* What sled answers: a value or Absent, "ok" or "not_found".
Response(r) ==
  IF r.op = "get" THEN mem[r.key]
  ELSE IF r.op = "remove" /\ mem[r.key] = Absent THEN "not_found"
  ELSE "ok"

Changes(r) == r.op = "set" \/ (r.op = "remove" /\ mem[r.key] # Absent)

Changed(r) ==
  IF Changes(r) THEN [mem EXCEPT ![r.key] = IF r.op = "set" THEN r.val ELSE Absent] ELSE mem

\* One turn of serve's loop reads a request and calls the named engine.
Handle(c, e) ==
  /\ engine = e
  /\ pc[c] = "read"
  /\ wire[c] = "request"
  /\ wire' = [wire EXCEPT ![c] = "empty"]
  /\ UNCHANGED <<startVars, disk, poolVars, cut, clientVars, calls, kills>>

\* What a call of kvs may answer, whatever the calls of other connections do.
KvsAnswers(r) ==
  CASE r.op = "get" -> Values \cup {Absent, "error"}
    [] r.op = "set" -> {"ok", "error"}
    [] r.op = "remove" -> {"ok", "not_found", "error"}

CallKvs(c) ==
  /\ Handle(c, "kvs")
  /\ pc' = [pc EXCEPT ![c] = "engine"]
  /\ UNCHANGED <<mem, call, out>>

\* The call returns, if it does: two connections that merge can block each other
\* for good.
KvsReturns(c) ==
  /\ pc[c] = "engine"
  /\ pc' = [pc EXCEPT ![c] = "reply"]
  /\ \E a \in KvsAnswers(call[c]) : out' = [out EXCEPT ![c] = a]
  /\ call' = [call EXCEPT ![c] = None]
  /\ UNCHANGED <<startVars, storeVars, poolVars, cut, wire, clientVars, calls, kills>>

\* Mutant: the flush is left to sled's own thread.
SledNoFlush(c) ==
  /\ Handle(c, "sled")
  /\ pc' = [pc EXCEPT ![c] = "reply"]
  /\ mem' = Changed(call[c])
  /\ call' = [call EXCEPT ![c] = None]
  /\ out' = [out EXCEPT ![c] = Response(call[c])]

\* insert, get or remove of the tree.
HandleSled(c) ==
  /\ Handle(c, "sled")
  /\ pc' = [pc EXCEPT ![c] = IF Changes(call[c]) THEN "flush" ELSE "reply"]
  /\ mem' = Changed(call[c])
  /\ call' = [call EXCEPT ![c] = None]
  /\ out' = [out EXCEPT ![c] = Response(call[c])]

\* It fails, which may leave the tree changed: `?` makes it an error response.
SledFails(c) ==
  /\ Handle(c, "sled")
  /\ pc' = [pc EXCEPT ![c] = "reply"]
  /\ mem' \in {mem, Changed(call[c])}
  /\ call' = [call EXCEPT ![c] = None]
  /\ out' = [out EXCEPT ![c] = "error"]

\* tree.flush() of SledKvsEngine: everything written so far is saved, or the
\* response is an error.
Flush(c) ==
  /\ pc[c] = "flush"
  /\ pc' = [pc EXCEPT ![c] = "reply"]
  /\ \/ disk' = mem /\ UNCHANGED out
     \/ out' = [out EXCEPT ![c] = "error"] /\ UNCHANGED disk
  /\ UNCHANGED <<startVars, mem, poolVars, cut, wire, call, clientVars, calls, kills>>

\* Sled flushes on its own now and then.
BackgroundFlush ==
  /\ engine = "sled" /\ server = "up"
  /\ disk # mem
  /\ disk' = mem
  /\ UNCHANGED <<startVars, mem, poolVars, connVars, clientVars, calls, kills>>

\* Mutant: an error response is not sent.
ReplyIfOk(c) ==
  /\ pc[c] = "reply"
  /\ pc' = [pc EXCEPT ![c] = "read"]
  /\ IF client[c] = "waiting" /\ out[c] # "not_found"
     THEN wire' = [wire EXCEPT ![c] = "response"] /\ UNCHANGED out
     ELSE out' = [out EXCEPT ![c] = None] /\ UNCHANGED wire
  /\ UNCHANGED <<startVars, storeVars, poolVars, cut, call, clientVars, calls, kills>>

\* send_resp!: written into the connection, whether the client is there or not.
Reply(c) ==
  /\ pc[c] = "reply"
  /\ pc' = [pc EXCEPT ![c] = "read"]
  /\ IF client[c] = "waiting"
     THEN wire' = [wire EXCEPT ![c] = "response"] /\ UNCHANGED out
     ELSE out' = [out EXCEPT ![c] = None] /\ UNCHANGED wire
  /\ UNCHANGED <<startVars, storeVars, poolVars, cut, call, clientVars, calls, kills>>

\* serve returns: at the end of the requests, or with the error of a read or a
\* write on a connection whose client has gone.
EndServe(t) ==
  /\ \E c \in Clients :
       /\ on[t] = c
       /\ client[c] = "gone"
       /\ pc[c] \in {"read", "reply"}
       /\ pc' = [pc EXCEPT ![c] = "none"]
       /\ wire' = [wire EXCEPT ![c] = "empty"]
       /\ call' = [call EXCEPT ![c] = None]
       /\ out' = [out EXCEPT ![c] = None]
  /\ Pool!End(t)
  /\ UNCHANGED <<startVars, storeVars, cores, cut, clientVars, calls, kills>>

-------------------------------------------------------------------------------
(***************************************************************************)
(* KvsClient and the program kvs-client.                                   *)
(***************************************************************************)
\* get, set and remove up to the wait for the response.
Send(c) ==
  /\ client[c] = "open" /\ c \notin cut
  /\ calls < MaxCalls
  /\ calls' = calls + 1
  /\ \E r \in Request : call' = [call EXCEPT ![c] = r]
  /\ client' = [client EXCEPT ![c] = "waiting"]
  /\ wire' = [wire EXCEPT ![c] = "request"]
  /\ UNCHANGED <<startVars, storeVars, poolVars, pc, cut, out, got, kills>>

Receive(c) ==
  /\ client[c] = "waiting"
  /\ wire[c] = "response"
  /\ client' = [client EXCEPT ![c] = "open"]
  /\ wire' = [wire EXCEPT ![c] = "empty"]
  /\ got' = [got EXCEPT ![c] = out[c]]
  /\ out' = [out EXCEPT ![c] = None]
  /\ UNCHANGED <<startVars, storeVars, poolVars, pc, cut, call, calls, kills>>

\* kvs-client exits after its call.
Close(c) ==
  /\ client[c] = "open"
  /\ client' = [client EXCEPT ![c] = "gone"]
  /\ UNCHANGED <<startVars, storeVars, poolVars, connVars, got, calls, kills>>

\* The client is killed while it waits, or finds its server gone: a request not
\* read yet stays in the connection of a live server.
Break(c) ==
  /\ client[c] = "waiting"
  /\ client' = [client EXCEPT ![c] = "gone"]
  /\ got' = [got EXCEPT ![c] = "broken"]
  /\ IF wire[c] = "response"
     THEN wire' = [wire EXCEPT ![c] = "empty"] /\ out' = [out EXCEPT ![c] = None]
     ELSE UNCHANGED <<wire, out>>
  /\ UNCHANGED <<startVars, storeVars, poolVars, pc, cut, call, calls, kills>>

-------------------------------------------------------------------------------
Serve(c) == CallKvs(c) \/ HandleSled(c) \/ SledFails(c) \/ Flush(c) \/ Reply(c)

StartUp == TruncateMarker \/ FillMarker \/ OpenEngine \/ OpenFails

\* No client is left, or none can be served again.
Finished ==
  /\ \A c \in Clients : client[c] = "gone" /\ job[c] \in {"new", "ended"}
  /\ UNCHANGED vars

Next ==
  \/ Launch \/ StartUp \/ Kill
  \/ \E c \in Clients : Accept(c) \/ Serve(c) \/ KvsReturns(c)
  \/ \E t \in PoolThreads, c \in Clients : Start(t, c)
  \/ \E t \in PoolThreads : EndServe(t)
  \/ BackgroundFlush
  \/ \E c \in Clients : Send(c) \/ Receive(c) \/ Close(c) \/ Break(c)
  \/ Finished

Spec == Init /\ [][Next]_vars

\* The threads of the server run, and sled's calls return.  A client takes the
\* response it waits for, and gives up only when its server is gone.  Nothing is
\* assumed of a call of kvs, nor of a client that keeps its connection open.
Fairness ==
  /\ \A c \in Clients :
       /\ WF_vars(Serve(c))
       /\ WF_vars(Receive(c) \/ (Break(c) /\ c \in cut))
  /\ WF_vars(\E t \in PoolThreads, c \in Clients : Start(t, c))
  /\ \A t \in PoolThreads : WF_vars(EndServe(t))

FairSpec == Spec /\ Fairness

-------------------------------------------------------------------------------
TypeOK ==
  /\ server \in {"down", "marking", "filling", "opening", "up"}
  /\ engine \in Engines \cup {None}
  /\ marker \in Engines \cup {"torn", "none"}
  /\ created \in SUBSET Engines
  /\ disk \in [Keys -> Values \cup {Absent}]
  /\ mem \in [Keys -> Values \cup {Absent}]
  /\ cores \in SUBSET PoolThreads
  /\ job \in [Clients -> {"new", "queued", "running", "ended"}]
  /\ on \in [PoolThreads -> Clients \cup {None}]
  /\ pc \in [Clients -> {"none", "read", "engine", "flush", "reply"}]
  /\ cut \in SUBSET Clients
  /\ client \in [Clients -> {"new", "open", "waiting", "gone"}]
  /\ wire \in [Clients -> {"empty", "request", "response"}]
  /\ call \in [Clients -> Request \cup {None}]
  /\ out \in [Clients -> Values \cup {Absent, None, "ok", "not_found", "error"}]
  /\ got \in [Clients -> Values \cup {Absent, None, "ok", "not_found", "error", "broken"}]
  /\ calls \in Nat /\ kills \in Nat

\* Whatever starts and kills of the server follow each other, a directory is
\* only ever used by one engine: the check of current_engine comes before
\* anything is opened, and the marker is written before.
OneEngine == \A e \in created : engine \in {e, None} /\ created = {e}

\* The engine this directory belongs to, if it has been decided.
Owner == IF engine # None THEN engine ELSE CurrentEngine

\* A directory of kvs shows the durable store nothing.
Shown(x, nothing) == IF Owner = "kvs" THEN nothing ELSE x

Nothing == [c \in Clients |-> None]

Phase(c) ==
  IF wire[c] = "request" THEN "issued"
  ELSE IF pc[c] \in {"flush", "reply"} \/ wire[c] = "response" THEN "applied"
  ELSE IF client[c] = "waiting" THEN "lost"
  ELSE "idle"

Service == INSTANCE DurableStore WITH
  db <- Shown(IF server = "up" THEN mem ELSE disk, Empty),
  saved <- Shown(disk, Empty),
  unsaved <- Shown({c \in Clients : pc[c] = "flush"}, {}),
  phase <- Shown([c \in Clients |-> Phase(c)], [c \in Clients |-> "idle"]),
  call <- Shown(call, Nothing),
  answer <- Shown(out, Nothing),
  got <- Shown(got, Nothing)

\* In a directory of sled the server is, for its clients, a linearizable dictionary
\* that forgets no change it has confirmed, however connections break, calls of
\* several connections interleave, calls and flushes fail, and the server is killed
\* and started again with any --engine.  With kvs it is not: see KVEngine.
Durable == Service!Spec

\* A waiting client gets its response, or learns that its server is gone, also
\* with more connections than threads, if no client keeps its connection open for
\* ever and every call of kvs returns.
Answered ==
  (\A c \in Clients : <>[](client[c] # "open") /\ []<>(pc[c] # "engine"))
    => \A c \in Clients : client[c] = "waiting" ~> client[c] # "waiting"
===============================================================================
