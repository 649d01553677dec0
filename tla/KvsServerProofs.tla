---------------------------- MODULE KvsServerProofs ----------------------------
(***************************************************************************)
(* Proofs about the server, for any number of clients, threads, keys, calls *)
(* and kills.  What the start-up does with the marker and the files of the *)
(* engines is one part of the invariant; the other says, per connection,   *)
(* where the request or its response is.                                   *)
(***************************************************************************)
EXTENDS KvsServer, TLAPS

\* The marker names the engine that has files, from before they are created
\* until after they are; sled without files has nothing stored.
MarkerOK ==
  /\ server = "down" <=> engine = None
  /\ server = "filling" <=> marker = "torn"
  /\ server \in {"opening", "up"} => marker = engine
  /\ server = "marking" => CurrentEngine \in {None, engine}
  /\ \A e \in created : marker = e \/ (server = "filling" /\ engine = e)
  /\ "sled" \notin created => disk = Empty
  /\ server = "up" => engine \in created

\* The request of a connection is in transit, or with the engine, or its
\* response is on its way, and no two of these at once.
ConnOK(c) ==
  /\ job[c] \in {"queued", "running"} => server = "up"
  /\ pc[c] # "none" => job[c] = "running"
  /\ pc[c] = "flush" => engine = "sled"
  /\ pc[c] = "engine" => engine = "kvs"
  /\ wire[c] = "request" \/ pc[c] = "engine" <=> call[c] # None
  /\ out[c] # None <=> pc[c] \in {"flush", "reply"} \/ wire[c] = "response"
  /\ pc[c] \in {"engine", "flush", "reply"} => wire[c] = "empty"
  /\ wire[c] = "response" => client[c] = "waiting"
  /\ client[c] \in {"new", "open"} => wire[c] = "empty" /\ pc[c] \in {"none", "read"}
  /\ got[c] = "broken" => client[c] = "gone"
  /\ client[c] = "gone" /\ (wire[c] = "request" \/ pc[c] \in {"engine", "flush", "reply"})
       => got[c] = "broken"
  /\ created = {} => client[c] = "new" /\ got[c] = None

ServerInv == TypeOK /\ MarkerOK /\ \A c \in Clients : ConnOK(c)

-------------------------------------------------------------------------------
\* The invariant holds before the server is started.
LEMMA InitServer == Init => ServerInv
<1> SUFFICES ASSUME Init PROVE ServerInv
  OBVIOUS
<1>1. TypeOK
  BY ServerAssumption DEF Init, TypeOK, Empty, Engines, Pool!Init
<1>2. MarkerOK
  BY DEF Init, MarkerOK, CurrentEngine, Engines
<1>3. \A c \in Clients : ConnOK(c)
  BY ServerAssumption DEF Init, ConnOK, Pool!Init
<1> QED
  BY <1>1, <1>2, <1>3 DEF ServerInv

\* The engine that is launched is the one that has files, if any has.
LEMMA Chosen ==
  ASSUME NEW f \in Engines \cup {None}, ChosenEngine(f) # None
  PROVE  /\ ChosenEngine(f) \in Engines
         /\ CurrentEngine \in {None, ChosenEngine(f)}
BY ServerAssumption DEF ChosenEngine, CurrentEngine, Engines

\* Starting the server keeps the invariant.
LEMMA StartUpStep == ServerInv /\ (Launch \/ StartUp) => ServerInv'
<1> SUFFICES ASSUME ServerInv, Launch \/ StartUp PROVE ServerInv'
  OBVIOUS
<1>1. UNCHANGED <<disk, poolVars, connVars, clientVars, calls, kills>>
  BY DEF Launch, StartUp, TruncateMarker, FillMarker, OpenEngine, OpenFails, storeVars
<1>2. TypeOK /\ MarkerOK /\ \A c \in Clients : pc[c] = "none" /\ ConnOK(c)
  BY DEF ServerInv, ConnOK, Launch, StartUp, TruncateMarker, FillMarker, OpenEngine, OpenFails
<1>3. \A c \in Clients : ConnOK(c)'
  <2>1. server # "up" /\ created \subseteq created'
    BY DEF Launch, StartUp, TruncateMarker, FillMarker, OpenEngine, OpenFails
  <2> QED
    BY <1>1, <1>2, <2>1 DEF ConnOK, connVars, clientVars, poolVars
<1>4. CASE Launch
  <2>1. PICK f \in Engines \cup {None} : ChosenEngine(f) # None /\ engine' = ChosenEngine(f)
    BY <1>4 DEF Launch
  <2>2. engine' \in Engines /\ engine' # None /\ CurrentEngine \in {None, engine'}
    BY <2>1, Chosen
  <2>3. server = "down" /\ server' = "marking" /\ UNCHANGED <<marker, created, mem>>
    BY <1>4 DEF Launch, storeVars
  <2>4. TypeOK'
    BY <1>1, <1>2, <2>2, <2>3 DEF TypeOK, connVars, clientVars, poolVars
  <2>5. MarkerOK'
    BY <1>1, <1>2, <2>2, <2>3 DEF MarkerOK, CurrentEngine
  <2> QED
    BY <1>3, <2>4, <2>5 DEF ServerInv
<1>5. CASE TruncateMarker
  <2>1. /\ server = "marking" /\ server' = "filling" /\ marker' = "torn"
        /\ UNCHANGED <<engine, created, mem>>
    BY <1>5 DEF TruncateMarker, storeVars
  <2>2. TypeOK'
    BY <1>1, <1>2, <2>1 DEF TypeOK, connVars, clientVars, poolVars
  <2>3. \A e \in created : engine = e
    BY <1>2, <2>1, ServerAssumption DEF MarkerOK, CurrentEngine, TypeOK
  <2>4. MarkerOK'
    BY <1>1, <1>2, <2>1, <2>3 DEF MarkerOK
  <2> QED
    BY <1>3, <2>2, <2>4 DEF ServerInv
<1>6. CASE FillMarker
  <2>1. /\ server = "filling" /\ server' = "opening" /\ marker' = engine
        /\ UNCHANGED <<engine, created, mem>>
    BY <1>6 DEF FillMarker, storeVars
  <2>2. engine \in Engines /\ engine # "torn" /\ marker = "torn"
    BY <1>2, <2>1 DEF MarkerOK, TypeOK, Engines
  <2>3. TypeOK'
    BY <1>1, <1>2, <2>1, <2>2 DEF TypeOK, connVars, clientVars, poolVars
  <2>4. \A e \in created : engine = e
    BY <1>2, <2>2 DEF MarkerOK, TypeOK, Engines
  <2>5. MarkerOK'
    BY <1>1, <1>2, <2>1, <2>2, <2>4 DEF MarkerOK
  <2> QED
    BY <1>3, <2>3, <2>5 DEF ServerInv
<1>7. CASE OpenEngine
  <2>1. /\ server = "opening" /\ server' = "up" /\ created' = created \cup {engine}
        /\ mem' \in {mem, disk} /\ UNCHANGED <<engine, marker>>
    BY <1>7 DEF OpenEngine
  <2>2. engine \in Engines /\ marker = engine /\ engine # "torn"
    BY <1>2, <2>1 DEF MarkerOK, TypeOK, Engines
  <2>3. TypeOK'
    BY <1>1, <1>2, <2>1, <2>2 DEF TypeOK, connVars, clientVars, poolVars
  <2>4. MarkerOK'
    BY <1>1, <1>2, <2>1, <2>2 DEF MarkerOK
  <2> QED
    BY <1>3, <2>3, <2>4 DEF ServerInv
<1>8. CASE OpenFails
  <2>1. /\ server = "opening" /\ server' = "down" /\ engine' = None
        /\ created' \in {created, created \cup {engine}} /\ UNCHANGED <<marker, mem>>
    BY <1>8 DEF OpenFails, storeVars
  <2>2. engine \in Engines /\ marker = engine /\ engine # "torn"
    BY <1>2, <2>1 DEF MarkerOK, TypeOK, Engines
  <2>3. TypeOK'
    BY <1>1, <1>2, <2>1, <2>2 DEF TypeOK, connVars, clientVars, poolVars
  <2>4. MarkerOK'
    BY <1>1, <1>2, <2>1, <2>2 DEF MarkerOK
  <2> QED
    BY <1>3, <2>3, <2>4 DEF ServerInv
<1> QED
  BY <1>4, <1>5, <1>6, <1>7, <1>8 DEF StartUp

\* A kill keeps the invariant, if it cannot hit a half-written marker.
LEMMA KillStep == ASSUME TornMarker = FALSE, ServerInv, Kill PROVE ServerInv'
<1>1. TypeOK /\ MarkerOK /\ \A c \in Clients : ConnOK(c)
  BY DEF ServerInv
<1>2. server # "down" /\ server # "filling"
  BY DEF Kill
<1>3. TypeOK'
  BY <1>1 DEF Kill, TypeOK, clientVars, Empty
<1>4. MarkerOK'
  BY <1>1, <1>2 DEF Kill, MarkerOK
<1>5. \A c \in Clients : ConnOK(c)'
  BY <1>1 DEF Kill, ConnOK, clientVars, TypeOK
<1> QED
  BY <1>3, <1>4, <1>5 DEF ServerInv

\* What the steps of one connection leave alone.
Quiet(c) ==
  /\ UNCHANGED <<startVars, cores, cut, kills>>
  /\ \A d \in Clients \ {c} :
       /\ pc'[d] = pc[d] /\ wire'[d] = wire[d] /\ call'[d] = call[d] /\ out'[d] = out[d]
       /\ client'[d] = client[d] /\ got'[d] = got[d] /\ job'[d] = job[d]

\* A step of one connection keeps the invariant of the others.
LEMMA Others ==
  ASSUME NEW c \in Clients, \A d \in Clients : ConnOK(d), Quiet(c), ConnOK(c)'
  PROVE  \A d \in Clients : ConnOK(d)'
<1> SUFFICES ASSUME NEW d \in Clients, d # c PROVE ConnOK(d)'
  OBVIOUS
<1> QED
  BY DEF Quiet, ConnOK, startVars

\* The pool's and the client's steps keep the invariant.
LEMMA ClientStep ==
  ASSUME ServerInv, NEW c \in Clients,
         \/ Accept(c) \/ Send(c) \/ Receive(c) \/ Close(c) \/ Break(c)
         \/ \E t \in PoolThreads : Start(t, c)
  PROVE  ServerInv'
<1>1. TypeOK /\ MarkerOK /\ ConnOK(c) /\ \A d \in Clients : ConnOK(d)
  BY DEF ServerInv
<1>2. UNCHANGED <<startVars, storeVars>>
  BY DEF Accept, Send, Receive, Close, Break, Start
<1>3. MarkerOK'
  BY <1>1, <1>2 DEF MarkerOK, CurrentEngine, startVars, storeVars
<1>4. CASE Accept(c)
  <2>1. TypeOK'
    BY <1>1, <1>4 DEF Accept, TypeOK, startVars, storeVars, connVars, Pool!Spawn
  <2>2. server = "up" /\ created # {}
    BY <1>1, <1>4 DEF Accept, MarkerOK
  <2>3. ConnOK(c)' /\ Quiet(c)
    BY <1>1, <1>4, <2>2 DEF Accept, ConnOK, Quiet, TypeOK, startVars, connVars, Pool!Spawn
  <2> QED
    BY <1>1, <1>3, <2>1, <2>3, Others DEF ServerInv
<1>5. CASE Send(c)
  <2>1. TypeOK'
    BY <1>1, <1>5 DEF Send, TypeOK, startVars, storeVars, poolVars
  <2>2. ConnOK(c)' /\ Quiet(c)
    BY <1>1, <1>5, ServerAssumption DEF Send, ConnOK, Quiet, TypeOK, startVars, poolVars
  <2> QED
    BY <1>1, <1>3, <2>1, <2>2, Others DEF ServerInv
<1>6. CASE Receive(c)
  <2>1. TypeOK'
    BY <1>1, <1>6 DEF Receive, TypeOK, startVars, storeVars, poolVars
  <2>2. ConnOK(c)' /\ Quiet(c)
    BY <1>1, <1>6, ServerAssumption DEF Receive, ConnOK, Quiet, TypeOK, startVars, poolVars
  <2> QED
    BY <1>1, <1>3, <2>1, <2>2, Others DEF ServerInv
<1>7. CASE Close(c)
  <2>1. TypeOK'
    BY <1>1, <1>7 DEF Close, TypeOK, startVars, storeVars, poolVars, connVars
  <2>2. ConnOK(c)' /\ Quiet(c)
    BY <1>1, <1>7 DEF Close, ConnOK, Quiet, TypeOK, startVars, poolVars, connVars
  <2> QED
    BY <1>1, <1>3, <2>1, <2>2, Others DEF ServerInv
<1>8. CASE Break(c)
  <2>1. TypeOK'
    BY <1>1, <1>8 DEF Break, TypeOK, startVars, storeVars, poolVars
  <2>2. ConnOK(c)' /\ Quiet(c)
    BY <1>1, <1>8, ServerAssumption DEF Break, ConnOK, Quiet, TypeOK, startVars, poolVars
  <2> QED
    BY <1>1, <1>3, <2>1, <2>2, Others DEF ServerInv
<1>9. ASSUME NEW t \in PoolThreads, Start(t, c) PROVE ServerInv'
  <2>1. TypeOK'
    BY <1>1, <1>9 DEF Start, TypeOK, startVars, storeVars, clientVars, Pool!Start
  <2>2. server = "up"
    BY <1>1, <1>9 DEF Start, ConnOK, Pool!Start
  <2>3. ConnOK(c)' /\ Quiet(c)
    BY <1>1, <1>9, <2>2 DEF Start, ConnOK, Quiet, TypeOK, startVars, clientVars, Pool!Start
  <2> QED
    BY <1>1, <1>3, <2>1, <2>3, Others DEF ServerInv
<1> QED
  BY <1>4, <1>5, <1>6, <1>7, <1>8, <1>9

\* What sled answers is a response, and what it leaves is a dictionary.
LEMMA Responds ==
  ASSUME TypeOK, NEW r \in Request
  PROVE  /\ Response(r) \in Values \cup {Absent, "ok", "not_found"}
         /\ Response(r) # None
         /\ Changed(r) \in [Keys -> Values \cup {Absent}]
<1>1. r.key \in Keys /\ (r.op = "set" => r.val \in Values)
  BY DEF Request
<1>2. mem[r.key] \in Values \cup {Absent}
  BY <1>1 DEF TypeOK
<1>3. "ok" # None /\ "not_found" # None /\ None \notin Values \cup {Absent}
  BY ServerAssumption
<1> QED
  BY <1>1, <1>2, <1>3 DEF Response, Changes, Changed, TypeOK

\* So is what kvs answers.
LEMMA KvsResponds ==
  ASSUME NEW r \in Request, NEW a \in KvsAnswers(r)
  PROVE  a \in Values \cup {Absent, "ok", "not_found", "error"} /\ a # None
<1>1. r.op \in {"get", "set", "remove"}
  BY DEF Request
<1>2. "ok" # None /\ "not_found" # None /\ "error" # None /\ None \notin Values \cup {Absent}
  BY ServerAssumption
<1> QED
  BY <1>1, <1>2 DEF KvsAnswers

\* The engines' steps keep the invariant.
LEMMA EngineStep ==
  ASSUME ServerInv, NEW c \in Clients,
         CallKvs(c) \/ KvsReturns(c) \/ HandleSled(c) \/ SledFails(c) \/ Flush(c)
  PROVE  ServerInv'
<1>1. TypeOK /\ MarkerOK /\ ConnOK(c) /\ \A d \in Clients : ConnOK(d)
  BY DEF ServerInv
<1>2. UNCHANGED startVars /\ server = "up" /\ engine \in created
  BY <1>1 DEF CallKvs, KvsReturns, HandleSled, SledFails, Handle, Flush, ConnOK, MarkerOK
<1>3. CASE HandleSled(c) \/ SledFails(c)
  <2>1. Handle(c, "sled")
    BY <1>3 DEF HandleSled, SledFails
  <2>2. call[c] \in Request /\ call[c] # None
    BY <1>1, <2>1, ServerAssumption DEF Handle, ConnOK, TypeOK
  <2>3. PICK a \in Values \cup {Absent, "ok", "not_found", "error"} :
          a # None /\ out' = [out EXCEPT ![c] = a]
    <3>1. "error" # None
      BY ServerAssumption
    <3> QED
      BY <1>1, <1>3, <2>2, <3>1, Responds DEF HandleSled, SledFails
  <2>4. mem' \in [Keys -> Values \cup {Absent}] /\ call' = [call EXCEPT ![c] = None]
    BY <1>1, <1>3, <2>2, Responds DEF HandleSled, SledFails, TypeOK
  <2>5. PICK l \in {"flush", "reply"} : pc' = [pc EXCEPT ![c] = l]
    BY <1>3 DEF HandleSled, SledFails
  <2>6. TypeOK'
    BY <1>1, <1>2, <2>1, <2>3, <2>4, <2>5
      DEF Handle, TypeOK, startVars, poolVars, clientVars
  <2>7. MarkerOK'
    BY <1>1, <1>2, <2>1 DEF Handle, MarkerOK, CurrentEngine, startVars
  <2>8. ConnOK(c)'
    BY <1>1, <1>2, <2>1, <2>2, <2>3, <2>4, <2>5
      DEF Handle, ConnOK, TypeOK, startVars, poolVars, clientVars
  <2>9. Quiet(c)
    BY <1>1, <1>2, <2>1, <2>3, <2>4, <2>5
      DEF Handle, Quiet, TypeOK, startVars, poolVars, clientVars
  <2> QED
    BY <1>1, <2>6, <2>7, <2>8, <2>9, Others DEF ServerInv
<1>4. CASE Flush(c)
  <2>1. /\ pc' = [pc EXCEPT ![c] = "reply"] /\ pc[c] = "flush" /\ engine = "sled"
        /\ UNCHANGED <<mem, poolVars, cut, wire, call, clientVars, calls, kills>>
    BY <1>1, <1>4 DEF Flush, ConnOK
  <2>2. \/ disk' = mem /\ UNCHANGED out
        \/ out' = [out EXCEPT ![c] = "error"] /\ UNCHANGED disk
    BY <1>4 DEF Flush
  <2>3. TypeOK'
    BY <1>1, <1>2, <2>1, <2>2 DEF TypeOK, startVars, poolVars, clientVars, Engines
  <2>4. MarkerOK'
    BY <1>1, <1>2, <2>1, <2>2 DEF MarkerOK, CurrentEngine, TypeOK, startVars, Engines
  <2>5. "error" # None
    BY ServerAssumption
  <2>6. ConnOK(c)'
    BY <1>1, <1>2, <2>1, <2>2, <2>5 DEF ConnOK, TypeOK, startVars, poolVars, clientVars
  <2>7. Quiet(c)
    BY <1>1, <1>2, <2>1, <2>2 DEF Quiet, TypeOK, startVars, poolVars, clientVars
  <2> QED
    BY <1>1, <2>3, <2>4, <2>6, <2>7, Others DEF ServerInv
<1>5. CASE CallKvs(c)
  <2>1. Handle(c, "kvs") /\ pc' = [pc EXCEPT ![c] = "engine"] /\ UNCHANGED <<mem, call, out>>
    BY <1>5 DEF CallKvs
  <2>2. TypeOK'
    BY <1>1, <1>2, <2>1 DEF Handle, TypeOK, startVars, poolVars, clientVars
  <2>3. MarkerOK'
    BY <1>1, <1>2, <2>1 DEF Handle, MarkerOK, CurrentEngine, startVars
  <2>4. ConnOK(c)' /\ Quiet(c)
    BY <1>1, <1>2, <2>1 DEF Handle, ConnOK, Quiet, TypeOK, startVars, poolVars, clientVars
  <2> QED
    BY <1>1, <2>2, <2>3, <2>4, Others DEF ServerInv
<1>6. CASE KvsReturns(c)
  <2>1. /\ pc[c] = "engine" /\ pc' = [pc EXCEPT ![c] = "reply"]
        /\ call' = [call EXCEPT ![c] = None]
        /\ UNCHANGED <<storeVars, poolVars, cut, wire, clientVars, calls, kills>>
    BY <1>6 DEF KvsReturns
  <2>2. call[c] \in Request
    BY <1>1, <2>1, ServerAssumption DEF ConnOK, TypeOK
  <2>3. PICK a \in KvsAnswers(call[c]) : out' = [out EXCEPT ![c] = a]
    BY <1>6 DEF KvsReturns
  <2>4. a \in Values \cup {Absent, "ok", "not_found", "error"} /\ a # None
    BY <2>2, <2>3, KvsResponds
  <2>5. TypeOK'
    BY <1>1, <1>2, <2>1, <2>3, <2>4 DEF TypeOK, startVars, storeVars, poolVars, clientVars
  <2>6. MarkerOK'
    BY <1>1, <1>2, <2>1 DEF MarkerOK, CurrentEngine, startVars, storeVars
  <2>7. ConnOK(c)' /\ Quiet(c)
    BY <1>1, <1>2, <2>1, <2>3, <2>4
      DEF ConnOK, Quiet, TypeOK, startVars, poolVars, clientVars
  <2> QED
    BY <1>1, <2>5, <2>6, <2>7, Others DEF ServerInv
<1> QED
  BY <1>3, <1>4, <1>5, <1>6

\* The other steps of the server keep the invariant.
LEMMA ServeStep ==
  ASSUME ServerInv,
         BackgroundFlush \/ (\E c \in Clients : Reply(c)) \/ \E t \in PoolThreads : EndServe(t)
  PROVE  ServerInv'
<1>1. TypeOK /\ MarkerOK /\ \A d \in Clients : ConnOK(d)
  BY DEF ServerInv
<1>2. CASE BackgroundFlush
  <2>1. TypeOK'
    BY <1>1, <1>2 DEF BackgroundFlush, TypeOK, startVars, poolVars, connVars, clientVars
  <2>2. MarkerOK'
    BY <1>1, <1>2 DEF BackgroundFlush, MarkerOK, CurrentEngine, TypeOK, startVars, Engines
  <2>3. \A c \in Clients : ConnOK(c)'
    BY <1>1, <1>2 DEF BackgroundFlush, ConnOK, startVars, poolVars, connVars, clientVars
  <2> QED
    BY <2>1, <2>2, <2>3 DEF ServerInv
<1>3. ASSUME NEW c \in Clients, Reply(c) PROVE ServerInv'
  <2>1. TypeOK'
    BY <1>1, <1>3 DEF Reply, TypeOK, startVars, storeVars, poolVars, clientVars
  <2>2. MarkerOK'
    BY <1>1, <1>3 DEF Reply, MarkerOK, CurrentEngine, startVars, storeVars
  <2>3. ConnOK(c)' /\ Quiet(c)
    BY <1>1, <1>3 DEF Reply, ConnOK, Quiet, TypeOK, startVars, poolVars, clientVars
  <2> QED
    BY <1>1, <2>1, <2>2, <2>3, Others DEF ServerInv
<1>4. ASSUME NEW t \in PoolThreads, EndServe(t) PROVE ServerInv'
  <2>1. PICK c \in Clients :
          /\ on[t] = c /\ client[c] = "gone" /\ pc[c] \in {"read", "reply"}
          /\ pc' = [pc EXCEPT ![c] = "none"] /\ wire' = [wire EXCEPT ![c] = "empty"]
          /\ call' = [call EXCEPT ![c] = None] /\ out' = [out EXCEPT ![c] = None]
    BY <1>4 DEF EndServe
  <2>2. /\ on' = [on EXCEPT ![t] = None] /\ job' = [job EXCEPT ![c] = "ended"]
        /\ UNCHANGED <<startVars, storeVars, cores, cut, clientVars, calls, kills>>
    BY <1>4, <2>1 DEF EndServe, Pool!End
  <2>3. TypeOK'
    BY <1>1, <2>1, <2>2 DEF TypeOK, startVars, storeVars, clientVars
  <2>4. MarkerOK'
    BY <1>1, <2>2 DEF MarkerOK, CurrentEngine, startVars, storeVars
  <2>5. ConnOK(c)' /\ Quiet(c)
    BY <1>1, <2>1, <2>2 DEF ConnOK, Quiet, TypeOK, startVars, clientVars
  <2> QED
    BY <1>1, <2>3, <2>4, <2>5, Others DEF ServerInv
<1> QED
  BY <1>2, <1>3, <1>4

\* The invariant is inductive, if a kill cannot hit a half-written marker.
LEMMA NextServer == ASSUME TornMarker = FALSE PROVE ServerInv /\ [Next]_vars => ServerInv'
<1>1. ASSUME ServerInv, UNCHANGED vars PROVE ServerInv'
  BY <1>1 DEF vars, startVars, storeVars, poolVars, connVars, clientVars,
    ServerInv, TypeOK, MarkerOK, CurrentEngine, ConnOK
<1>2. ASSUME ServerInv, Next PROVE ServerInv'
  BY <1>1, <1>2, StartUpStep, KillStep, ClientStep, EngineStep, ServeStep
    DEF Next, Serve, Finished
<1> QED
  BY <1>1, <1>2

\* The invariant holds in every reachable state.
LEMMA ServerInvariant == ASSUME TornMarker = FALSE PROVE Spec => []ServerInv
<1>1. ServerInv /\ [Next]_vars => ServerInv'
  BY NextServer
<1> QED
  BY <1>1, InitServer, PTL DEF Spec

-------------------------------------------------------------------------------
\* The variables of the server keep their types.
THEOREM ServerTypes == ASSUME TornMarker = FALSE PROVE Spec => []TypeOK
<1>1. ServerInv => TypeOK
  BY DEF ServerInv
<1> QED
  BY <1>1, ServerInvariant, PTL

\* However often the server is killed and started, and with whatever --engine,
\* a directory is only ever used by one engine, unless a kill tears the marker.
THEOREM OnlyOneEngine == ASSUME TornMarker = FALSE PROVE Spec => []OneEngine
<1>1. ServerInv => OneEngine
  <2> SUFFICES ASSUME ServerInv, NEW e \in created PROVE engine \in {e, None} /\ created = {e}
    BY DEF OneEngine
  <2>1. TypeOK /\ MarkerOK /\ e \in Engines /\ e # "torn" /\ e # None
    BY ServerAssumption DEF ServerInv, TypeOK, Engines
  <2>2. \A f \in created : f \in Engines /\ f # "torn"
    BY <2>1 DEF TypeOK, Engines
  <2>3. \A f \in created : f = e
    BY <2>1, <2>2 DEF MarkerOK
  <2>4. engine \in {e, None}
    BY <2>1 DEF MarkerOK, TypeOK, CurrentEngine
  <2> QED
    BY <2>3, <2>4
<1> QED
  BY <1>1, ServerInvariant, PTL

-------------------------------------------------------------------------------
\* A directory of sled as the durable store sees it: its dictionary, the calls
\* whose saving is due, and the phases of the calls.
Db == IF server = "up" THEN mem ELSE disk
Unsaved == {c \in Clients : pc[c] = "flush"}
Phases == [c \in Clients |-> Phase(c)]

Tree == INSTANCE DurableStore WITH
  db <- Db, saved <- disk, unsaved <- Unsaved, phase <- Phases, answer <- out

\* Starting sled shows nothing to the clients.
LEMMA StartUpHidden ==
  ASSUME ServerInv, Launch \/ StartUp, engine # "kvs"
  PROVE  UNCHANGED Tree!vars
<1>1. UNCHANGED <<disk, connVars, clientVars>>
  BY DEF Launch, StartUp, TruncateMarker, FillMarker, OpenEngine, OpenFails, storeVars
<1>2. \A c \in Clients : Phase(c)' = Phase(c)
  BY <1>1 DEF Phase, connVars, clientVars
<1>3. UNCHANGED <<Unsaved, Phases, call, out, got>>
  BY <1>1, <1>2 DEF Unsaved, Phases, connVars, clientVars
<1>4. server # "up" /\ (server' = "up" => mem' = disk)
  BY DEF Launch, StartUp, TruncateMarker, FillMarker, OpenEngine, OpenFails, ServerInv,
    MarkerOK, TypeOK, Engines
<1> QED
  BY <1>1, <1>3, <1>4 DEF Tree!vars, Db

\* A kill is a restart: calls not read or not answered are lost, which the
\* clients that are gone do not notice, and what was stored is there.
LEMMA KillRestarts == ASSUME ServerInv, Kill, engine # "kvs" PROVE Tree!Restart
<1>1. server' = "down" /\ engine' = None
      /\ UNCHANGED <<marker, created, disk, got, client>>
  BY DEF Kill, clientVars
<1>2. /\ pc' = [c \in Clients |-> "none"]
      /\ wire' = [c \in Clients |-> IF wire[c] = "request" THEN "empty" ELSE wire[c]]
      /\ call' = [c \in Clients |-> None]
      /\ out' = [c \in Clients |-> IF wire[c] = "response" THEN out[c] ELSE None]
  BY DEF Kill
<1>3. TypeOK /\ \A c \in Clients : ConnOK(c)
  BY DEF ServerInv
<1>4. \A c \in Clients : pc[c] # "engine"
  BY <1>3 DEF ConnOK
<1> DEFINE lost == {c \in Clients : wire[c] = "request" \/ pc[c] \in {"flush", "reply"}}
<1>5. Unsaved \subseteq lost /\ Unsaved' = {} /\ Db' = disk
  BY <1>1, <1>2 DEF Unsaved, Db
<1>6. \A c \in Clients : Phase(c)' =
        IF c \notin lost \/ Phase(c) = "idle" THEN Phase(c)
        ELSE IF got[c] = "broken" THEN "idle" ELSE "lost"
  BY <1>1, <1>2, <1>3 DEF Phase, ConnOK, TypeOK
<1>7. call' = [c \in Clients |-> IF c \in lost THEN None ELSE call[c]]
  BY <1>2, <1>3, <1>4 DEF ConnOK
<1>8. out' = [c \in Clients |-> IF c \in lost THEN None ELSE out[c]]
  BY <1>2, <1>3 DEF ConnOK
<1>9. Phases' = [c \in Clients |-> IF c \notin lost \/ Phases[c] = "idle" THEN Phases[c]
                                   ELSE IF got[c] = "broken" THEN "idle" ELSE "lost"]
  BY <1>6 DEF Phases
<1>10. lost \in SUBSET Clients
  OBVIOUS
<1> HIDE DEF lost
<1> QED
  BY <1>1, <1>5, <1>7, <1>8, <1>9, <1>10 DEF Tree!Restart, Db, Unsaved, Phases

\* A client's steps: a call is issued, returns, or its connection breaks.
LEMMA ClientMaps ==
  ASSUME ServerInv, NEW c \in Clients, engine # "kvs"
  PROVE  /\ Accept(c) \/ Close(c) => UNCHANGED Tree!vars
         /\ \A t \in PoolThreads : Start(t, c) => UNCHANGED Tree!vars
         /\ Send(c) => Tree!Issue(c)
         /\ Receive(c) => Tree!Return(c)
         /\ Break(c) => Tree!Break(c)
<1>1. TypeOK /\ ConnOK(c) /\ pc[c] # "engine" /\ \A d \in Clients : ConnOK(d)
  BY DEF ServerInv, ConnOK
<1>2. ASSUME UNCHANGED <<startVars, storeVars>> PROVE UNCHANGED <<disk, Db>>
  BY <1>2 DEF Db, startVars, storeVars
<1>3. ASSUME Accept(c) \/ Close(c) PROVE UNCHANGED Tree!vars
  <2>1. UNCHANGED <<startVars, storeVars, connVars, got>>
    BY <1>3 DEF Accept, Close
  <2>2. \A d \in Clients : Phase(d)' = Phase(d)
    BY <1>1, <1>3 DEF Phase, Accept, Close, connVars, TypeOK
  <2> QED
    BY <1>2, <2>1, <2>2 DEF Tree!vars, Phases, Unsaved, Db, connVars
<1>4. ASSUME NEW t \in PoolThreads, Start(t, c) PROVE UNCHANGED Tree!vars
  <2>1. /\ UNCHANGED <<startVars, storeVars, cut, wire, call, out, clientVars>>
        /\ pc' = [pc EXCEPT ![c] = "read"]
    BY <1>4 DEF Start
  <2>2. pc[c] = "none"
    BY <1>1, <1>4 DEF Start, Pool!Start, ConnOK
  <2>3. \A d \in Clients : Phase(d)' = Phase(d)
    BY <1>1, <2>1, <2>2 DEF Phase, clientVars, TypeOK
  <2>4. Unsaved' = Unsaved
    BY <1>1, <2>1, <2>2 DEF Unsaved, TypeOK
  <2> QED
    BY <1>2, <2>1, <2>3, <2>4 DEF Tree!vars, Phases, Unsaved, Db, clientVars
<1>5. ASSUME Send(c) PROVE Tree!Issue(c)
  <2>1. UNCHANGED <<startVars, storeVars, out, got, pc>>
    BY <1>5 DEF Send
  <2>2. PICK r \in Request : call' = [call EXCEPT ![c] = r]
    BY <1>5 DEF Send
  <2>3. Phase(c) = "idle"
    BY <1>1, <1>5 DEF Phase, Send, ConnOK
  <2>4. \A d \in Clients : Phase(d)' = IF d = c THEN "issued" ELSE Phase(d)
    BY <1>1, <1>5, <2>1 DEF Phase, Send, TypeOK
  <2>5. Phases' = [Phases EXCEPT ![c] = "issued"] /\ Phases[c] = "idle"
    BY <2>3, <2>4 DEF Phases
  <2>6. Unsaved' = Unsaved
    BY <2>1 DEF Unsaved
  <2> QED
    BY <1>2, <2>1, <2>2, <2>5, <2>6 DEF Tree!Issue, Tree!Calls, Request, Phases, Unsaved, Db
<1>6. ASSUME Receive(c) PROVE Tree!Return(c)
  <2>1. UNCHANGED <<startVars, storeVars, call, pc>> /\ out' = [out EXCEPT ![c] = None]
        /\ got' = [got EXCEPT ![c] = out[c]]
    BY <1>6 DEF Receive
  <2>2. Phase(c) = "applied" /\ pc[c] \notin {"flush", "reply"}
    BY <1>1, <1>6 DEF Phase, Receive, ConnOK
  <2>3. \A d \in Clients : Phase(d)' = IF d = c THEN "idle" ELSE Phase(d)
    BY <1>1, <1>6, <2>1, <2>2 DEF Phase, Receive, TypeOK
  <2>4. Phases' = [Phases EXCEPT ![c] = "idle"] /\ Phases[c] = "applied"
    BY <2>2, <2>3 DEF Phases
  <2>5. Unsaved' = Unsaved /\ c \notin Unsaved
    BY <2>1, <2>2 DEF Unsaved
  <2> QED
    BY <1>2, <2>1, <2>4, <2>5 DEF Tree!Return, Phases, Unsaved, Db
<1>7. ASSUME Break(c) PROVE Tree!Break(c)
  <2>1. UNCHANGED <<startVars, storeVars, call, pc>> /\ got' = [got EXCEPT ![c] = "broken"]
    BY <1>7 DEF Break
  <2>2. Unsaved' = Unsaved
    BY <2>1 DEF Unsaved
  <2>3. CASE wire[c] = "request" \/ pc[c] \in {"flush", "reply"}
    <3>1. UNCHANGED <<wire, out>>
      BY <1>1, <1>7, <2>3 DEF Break, ConnOK
    <3>2. \A d \in Clients : Phase(d)' = Phase(d)
      BY <1>1, <1>7, <2>1, <2>3, <3>1 DEF Phase, Break, TypeOK
    <3> QED
      BY <1>2, <2>1, <2>2, <3>1, <3>2 DEF Tree!Break, Phases, Unsaved, Db
  <2>4. CASE ~(wire[c] = "request" \/ pc[c] \in {"flush", "reply"})
    <3>1. out' = [out EXCEPT ![c] = None] /\ call' = [call EXCEPT ![c] = None]
      BY <1>1, <1>7, <2>1, <2>4 DEF Break, ConnOK, TypeOK
    <3>2. \A d \in Clients : Phase(d)' = IF d = c THEN "idle" ELSE Phase(d)
      BY <1>1, <1>7, <2>1, <2>4 DEF Phase, Break, TypeOK
    <3>3. Phases' = [Phases EXCEPT ![c] = "idle"] /\ c \notin Unsaved
      BY <2>4, <3>2 DEF Phases, Unsaved
    <3> QED
      BY <1>2, <2>1, <2>2, <3>1, <3>3 DEF Tree!Break, Tree!Forget, Phases, Unsaved, Db
  <2> QED
    BY <2>3, <2>4
<1> QED
  BY <1>3, <1>4, <1>5, <1>6, <1>7

\* Sled's steps: a call takes effect or fails, and its effect is saved.
LEMMA EngineMaps ==
  ASSUME ServerInv, NEW c \in Clients, engine # "kvs"
  PROVE  /\ HandleSled(c) \/ SledFails(c) => Tree!Apply(c) \/ Tree!Fail(c)
         /\ Flush(c) => Tree!Save \/ Tree!SaveFails(c)
<1>1. TypeOK /\ MarkerOK /\ ConnOK(c) /\ \A d \in Clients : ConnOK(d)
  BY DEF ServerInv
<1>2. ASSUME HandleSled(c) \/ SledFails(c) PROVE Tree!Apply(c) \/ Tree!Fail(c)
  <2>1. Handle(c, "sled")
    BY <1>2 DEF HandleSled, SledFails
  <2>2. /\ server = "up" /\ Db = mem /\ Db' = mem' /\ UNCHANGED <<disk, got, client>>
        /\ call' = [call EXCEPT ![c] = None]
    BY <1>1, <1>2, <2>1 DEF HandleSled, SledFails, Handle, ConnOK, Db, startVars, clientVars
  <2>3. call[c] \in Request /\ wire[c] = "request" /\ pc[c] = "read"
    BY <1>1, <2>1, ServerAssumption DEF Handle, ConnOK, TypeOK
  <2>4. Changed(call[c]) = Tree!After(call[c], mem)
    BY <1>1, <2>3 DEF Changes, Changed, Request, Tree!After, TypeOK
  <2>5. ~Changes(call[c]) => Changed(call[c]) = mem
    BY DEF Changed
  <2>6. Phases' = [Phases EXCEPT ![c] = "applied"] /\ Phases[c] = "issued"
    <3>1. Phase(c) = "issued"
      BY <2>3 DEF Phase
    <3>2. \A d \in Clients : Phase(d)' = IF d = c THEN "applied" ELSE Phase(d)
      BY <1>1, <1>2, <2>1, <2>2 DEF Phase, HandleSled, SledFails, Handle, TypeOK
    <3> QED
      BY <3>1, <3>2 DEF Phases
  <2>7. CASE HandleSled(c)
    <3>1. mem' = Tree!After(call[c], mem)
      BY <2>4, <2>7 DEF HandleSled
    <3>2. out' = [out EXCEPT ![c] = Tree!Result(call[c], mem)]
      BY <2>7 DEF HandleSled, Response, Tree!Result
    <3>3. Unsaved' = Unsaved \cup {c} \/ (mem' = mem /\ UNCHANGED Unsaved)
      <4>1. CASE Changes(call[c])
        <5>1. Unsaved' = Unsaved \cup {c}
          BY <1>1, <2>7, <4>1 DEF HandleSled, Unsaved, TypeOK
        <5> QED
          BY <5>1
      <4>2. CASE ~Changes(call[c])
        <5>1. Unsaved' = Unsaved
          BY <1>1, <2>3, <2>7, <4>2 DEF HandleSled, Unsaved, TypeOK
        <5> QED
          BY <2>5, <2>7, <4>2, <5>1 DEF HandleSled
      <4> QED
        BY <4>1, <4>2
    <3> QED
      BY <2>2, <2>6, <3>1, <3>2, <3>3 DEF Tree!Apply, Phases, Unsaved, Db
  <2>8. CASE SledFails(c)
    <3>1. mem' \in {mem, Tree!After(call[c], mem)} /\ out' = [out EXCEPT ![c] = "error"]
      BY <2>4, <2>8 DEF SledFails
    <3>2. Unsaved' = Unsaved
      BY <1>1, <2>3, <2>8 DEF SledFails, Unsaved, TypeOK
    <3> QED
      BY <2>2, <2>6, <3>1, <3>2 DEF Tree!Fail, Phases, Unsaved, Db
  <2> QED
    BY <1>2, <2>7, <2>8
<1>3. ASSUME Flush(c) PROVE Tree!Save \/ Tree!SaveFails(c)
  <2>1. /\ pc[c] = "flush" /\ server = "up" /\ pc' = [pc EXCEPT ![c] = "reply"]
        /\ UNCHANGED <<startVars, mem, call, wire, clientVars>>
    BY <1>1, <1>3 DEF Flush, ConnOK
  <2>2. Db = mem /\ Db' = mem
    BY <2>1 DEF Db, startVars
  <2>3. Unsaved' = Unsaved \ {c} /\ c \in Unsaved
    BY <1>1, <2>1 DEF Unsaved, TypeOK
  <2>4. \A d \in Clients : Phase(d)' = Phase(d)
    <3>1. wire[c] = "empty" /\ out' \in {out, [out EXCEPT ![c] = "error"]}
      BY <1>1, <1>3, <2>1 DEF Flush, ConnOK
    <3> QED
      BY <1>1, <2>1, <3>1 DEF Phase, TypeOK, clientVars
  <2>5. Phases' = Phases /\ got' = got
    BY <2>1, <2>4 DEF Phases, clientVars
  <2>6. CASE disk' = mem /\ UNCHANGED out
    <3>1. Unsaved' \in SUBSET Unsaved
      BY <2>3
    <3> QED
      BY <2>1, <2>2, <2>5, <2>6, <3>1 DEF Tree!Save, Phases, Unsaved, Db
  <2>7. CASE out' = [out EXCEPT ![c] = "error"] /\ UNCHANGED disk
    BY <2>1, <2>2, <2>3, <2>5, <2>7 DEF Tree!SaveFails, Phases, Unsaved, Db
  <2> QED
    BY <1>3, <2>6, <2>7 DEF Flush
<1> QED
  BY <1>2, <1>3

\* What sled flushes on its own is saved.
LEMMA FlushMaps == ASSUME ServerInv, BackgroundFlush PROVE Tree!Save
<1>1. /\ server = "up" /\ disk' = mem
      /\ UNCHANGED <<startVars, mem, connVars, clientVars>>
  BY DEF BackgroundFlush
<1>2. Db = mem /\ Db' = mem
  BY <1>1 DEF Db, startVars
<1>3. \A d \in Clients : Phase(d)' = Phase(d)
  BY <1>1 DEF Phase, connVars, clientVars
<1>4. Phases' = Phases /\ Unsaved' = Unsaved /\ UNCHANGED <<call, out, got>>
  BY <1>1, <1>3 DEF Phases, Unsaved, connVars, clientVars
<1> QED
  BY <1>1, <1>2, <1>4 DEF Tree!Save, Phases, Unsaved, Db

\* A response to a client that is gone is dropped, as is a request nobody reads.
LEMMA ReplyMaps ==
  ASSUME ServerInv, NEW c \in Clients, engine # "kvs"
  PROVE  /\ Reply(c) => Tree!Drop(c) \/ UNCHANGED Tree!vars
         /\ \A t \in PoolThreads : EndServe(t) /\ on[t] = c =>
              Tree!Drop(c) \/ UNCHANGED Tree!vars
<1>1. TypeOK /\ ConnOK(c) /\ pc[c] # "engine" /\ \A d \in Clients : ConnOK(d)
  BY DEF ServerInv, ConnOK
<1>2. ASSUME UNCHANGED <<startVars, storeVars>> PROVE UNCHANGED <<disk, Db>>
  BY <1>2 DEF Db, startVars, storeVars
<1>3. ASSUME Reply(c) PROVE Tree!Drop(c) \/ UNCHANGED Tree!vars
  <2>1. /\ pc[c] = "reply" /\ pc' = [pc EXCEPT ![c] = "read"] /\ wire[c] = "empty"
        /\ UNCHANGED <<startVars, storeVars, call, clientVars>>
    BY <1>1, <1>3 DEF Reply, ConnOK
  <2>2. Unsaved' = Unsaved /\ c \notin Unsaved
    BY <1>1, <2>1 DEF Unsaved, TypeOK
  <2>3. CASE client[c] = "waiting"
    <3>1. wire' = [wire EXCEPT ![c] = "response"] /\ UNCHANGED out
      BY <1>3, <2>3 DEF Reply
    <3>2. \A d \in Clients : Phase(d)' = Phase(d)
      BY <1>1, <2>1, <3>1 DEF Phase, TypeOK, clientVars
    <3> QED
      BY <1>2, <2>1, <2>2, <3>1, <3>2 DEF Tree!vars, Phases, Unsaved, Db, clientVars
  <2>4. CASE client[c] # "waiting"
    <3>1. out' = [out EXCEPT ![c] = None] /\ UNCHANGED wire
      BY <1>3, <2>4 DEF Reply
    <3>2. got[c] = "broken" /\ call' = [call EXCEPT ![c] = None]
      BY <1>1, <2>1, <2>4 DEF ConnOK, TypeOK
    <3>3. \A d \in Clients : Phase(d)' = IF d = c THEN "idle" ELSE Phase(d)
      BY <1>1, <2>1, <2>4, <3>1 DEF Phase, TypeOK, clientVars
    <3>4. Phases' = [Phases EXCEPT ![c] = "idle"]
      BY <3>3 DEF Phases
    <3> QED
      BY <1>2, <2>1, <2>2, <3>1, <3>2, <3>4
        DEF Tree!Drop, Tree!Forget, Phases, Unsaved, Db, clientVars
  <2> QED
    BY <2>3, <2>4
<1>4. ASSUME NEW t \in PoolThreads, EndServe(t), on[t] = c
      PROVE  Tree!Drop(c) \/ UNCHANGED Tree!vars
  <2>1. /\ client[c] = "gone" /\ pc[c] \in {"read", "reply"}
        /\ pc' = [pc EXCEPT ![c] = "none"] /\ wire' = [wire EXCEPT ![c] = "empty"]
        /\ call' = [call EXCEPT ![c] = None] /\ out' = [out EXCEPT ![c] = None]
        /\ UNCHANGED <<startVars, storeVars, clientVars>>
    BY <1>4 DEF EndServe
  <2>2. Unsaved' = Unsaved /\ c \notin Unsaved
    BY <1>1, <2>1 DEF Unsaved, TypeOK
  <2>3. \A d \in Clients : Phase(d)' = IF d = c THEN "idle" ELSE Phase(d)
    BY <1>1, <2>1 DEF Phase, TypeOK, clientVars
  <2>4. CASE got[c] = "broken"
    <3>1. Phases' = [Phases EXCEPT ![c] = "idle"]
      BY <2>3 DEF Phases
    <3> QED
      BY <1>2, <2>1, <2>2, <2>4, <3>1
        DEF Tree!Drop, Tree!Forget, Phases, Unsaved, Db, clientVars
  <2>5. CASE got[c] # "broken"
    <3>1. wire[c] # "request" /\ wire[c] # "response" /\ pc[c] = "read"
      BY <1>1, <2>1, <2>5 DEF ConnOK
    <3>2. Phase(c) = "idle" /\ call[c] = None /\ out[c] = None
      BY <1>1, <2>1, <3>1 DEF Phase, ConnOK
    <3>3. Phases' = Phases /\ call' = call /\ out' = out
      BY <1>1, <2>1, <2>3, <3>2 DEF Phases, TypeOK
    <3> QED
      BY <1>2, <2>1, <2>2, <3>3 DEF Tree!vars, Phases, Unsaved, Db, clientVars
  <2> QED
    BY <2>4, <2>5
<1> QED
  BY <1>3, <1>4

\* What a step does to sled's dictionary and calls is a step of the durable store.
LEMMA TreeStep ==
  ASSUME ServerInv, Next, engine # "kvs"
  PROVE  [Tree!Next]_(Tree!vars)
<1>1. CASE Launch \/ StartUp
  BY <1>1, StartUpHidden
<1>2. CASE Kill
  BY <1>2, KillRestarts DEF Tree!Next
<1>3. CASE BackgroundFlush
  BY <1>3, FlushMaps DEF Tree!Next
<1>4. ASSUME NEW c \in Clients,
             \/ Accept(c) \/ Serve(c) \/ Send(c) \/ Receive(c) \/ Close(c) \/ Break(c)
             \/ \E t \in PoolThreads : Start(t, c)
      PROVE  [Tree!Next]_(Tree!vars)
  <2>1. ~CallKvs(c)
    BY DEF CallKvs, Handle
  <2> QED
    BY <1>4, <2>1, ClientMaps, EngineMaps, ReplyMaps DEF Tree!Next, Serve
<1>5. ASSUME NEW c \in Clients PROVE ~KvsReturns(c)
  BY DEF KvsReturns, ServerInv, ConnOK
<1>6. ASSUME NEW t \in PoolThreads, EndServe(t) PROVE [Tree!Next]_(Tree!vars)
  <2>1. PICK c \in Clients : on[t] = c
    BY <1>6 DEF EndServe
  <2> QED
    BY <1>6, <2>1, ReplyMaps DEF Tree!Next
<1>7. CASE Finished
  BY <1>7 DEF Finished, vars, startVars, storeVars, connVars, clientVars, Tree!vars, Db,
    Unsaved, Phases, Phase
<1> QED
  BY <1>1, <1>2, <1>3, <1>4, <1>5, <1>6, <1>7 DEF Next

\* In a directory that is not of kvs, the service is sled's tree.
LEMMA Visible ==
  ASSUME Owner # "kvs", Owner' # "kvs", [Tree!Next]_(Tree!vars)
  PROVE  [Service!Next]_(Service!vars)
<1>1. CASE UNCHANGED Tree!vars
  BY <1>1 DEF Tree!vars, Service!vars, Shown, Db, Unsaved, Phases
<1>2. ASSUME NEW c \in Clients, Tree!Issue(c) PROVE Service!Issue(c)
  BY <1>2 DEF Tree!Issue, Service!Issue, Tree!Calls, Service!Calls, Shown, Db, Unsaved, Phases
<1>3. ASSUME NEW c \in Clients, Tree!Apply(c) PROVE Service!Apply(c)
  BY <1>3 DEF Tree!Apply, Service!Apply, Tree!After, Service!After, Tree!Result,
    Service!Result, Shown, Db, Unsaved, Phases
<1>4. ASSUME NEW c \in Clients, Tree!Fail(c) PROVE Service!Fail(c)
  BY <1>4 DEF Tree!Fail, Service!Fail, Tree!After, Service!After, Shown, Db, Unsaved, Phases
<1>5. ASSUME NEW c \in Clients, Tree!SaveFails(c) PROVE Service!SaveFails(c)
  BY <1>5 DEF Tree!SaveFails, Service!SaveFails, Shown, Db, Unsaved, Phases
<1>6. ASSUME NEW c \in Clients, Tree!Return(c) PROVE Service!Return(c)
  BY <1>6 DEF Tree!Return, Service!Return, Shown, Db, Unsaved, Phases
<1>7. ASSUME NEW c \in Clients, Tree!Break(c) PROVE Service!Break(c)
  BY <1>7 DEF Tree!Break, Service!Break, Tree!Forget, Service!Forget, Shown, Db, Unsaved, Phases
<1>8. ASSUME NEW c \in Clients, Tree!Drop(c) PROVE Service!Drop(c)
  BY <1>8 DEF Tree!Drop, Service!Drop, Tree!Forget, Service!Forget, Shown, Db, Unsaved, Phases
<1>9. ASSUME Tree!Save PROVE Service!Save
  BY <1>9 DEF Tree!Save, Service!Save, Shown, Db, Unsaved, Phases
<1>10. ASSUME Tree!Restart PROVE Service!Restart
  BY <1>10 DEF Tree!Restart, Service!Restart, Shown, Db, Unsaved, Phases
<1> QED
  BY <1>1, <1>2, <1>3, <1>4, <1>5, <1>6, <1>7, <1>8, <1>9, <1>10 DEF Tree!Next, Service!Next

\* The owner of a directory changes only while no engine has files in it, and
\* then clients have seen nothing.
LEMMA OwnerChanges ==
  ASSUME TornMarker = FALSE, ServerInv, Next, Owner' # Owner
  PROVE  UNCHANGED Service!vars
<1>1. TypeOK /\ MarkerOK /\ \A c \in Clients : ConnOK(c)
  BY DEF ServerInv
<1>2. Launch \/ StartUp \/ Kill
  <2>1. ~UNCHANGED startVars
    BY DEF Owner, CurrentEngine, startVars
  <2> QED
    BY <2>1 DEF Next, Serve, Accept, CallKvs, HandleSled, SledFails, Handle, Flush, Reply,
      KvsReturns, Start, EndServe, BackgroundFlush, Send, Receive, Close, Break, Finished, vars
<1>3. ~StartUp
  <2>1. CASE TruncateMarker \/ FillMarker \/ OpenEngine
    BY <1>1, <2>1 DEF TruncateMarker, FillMarker, OpenEngine, Owner, MarkerOK
  <2>2. CASE OpenFails
    BY <1>1, <2>2, ServerAssumption DEF OpenFails, Owner, CurrentEngine, MarkerOK, TypeOK
  <2> QED
    BY <2>1, <2>2 DEF StartUp
<1>4. created = {} /\ server # "up" /\ server' # "up" /\ disk' = disk
  <2>1. CASE Launch
    <3>1. engine = None /\ engine' # None /\ CurrentEngine \in {None, engine'}
      BY <1>1, <2>1, Chosen, ServerAssumption DEF Launch, MarkerOK, Engines
    <3>2. CurrentEngine = None
      BY <3>1 DEF Owner
    <3>3. marker \notin Engines /\ server = "down"
      BY <2>1, <3>2, ServerAssumption DEF CurrentEngine, Launch
    <3> QED
      BY <1>1, <2>1, <3>3 DEF Launch, MarkerOK, TypeOK, storeVars
  <2>2. CASE Kill
    <3>1. engine # None /\ engine' = None /\ server \notin {"down", "filling"} /\ marker' = marker
      BY <1>1, <2>2 DEF Kill, MarkerOK
    <3>2. CurrentEngine # engine
      BY <3>1 DEF Owner, CurrentEngine
    <3>3. marker # engine /\ server = "marking"
      BY <1>1, <3>1, <3>2 DEF CurrentEngine, MarkerOK, TypeOK
    <3>4. marker \notin Engines
      BY <1>1, <3>2, <3>3, ServerAssumption DEF CurrentEngine, MarkerOK
    <3> QED
      BY <1>1, <2>2, <3>3, <3>4 DEF Kill, MarkerOK, TypeOK
  <2> QED
    BY <1>2, <1>3, <2>1, <2>2
<1>5. \A c \in Clients :
        /\ client[c] = "new" /\ got[c] = None /\ wire[c] = "empty" /\ pc[c] = "none"
        /\ call[c] = None /\ out[c] = None
  BY <1>1, <1>4 DEF ConnOK
<1>6. /\ call = Nothing /\ out = Nothing /\ got = Nothing
      /\ UNCHANGED <<pc, wire, call, out, client, got>>
  BY <1>1, <1>2, <1>3, <1>5 DEF Launch, Kill, connVars, clientVars, Nothing, TypeOK
<1>7. \A c \in Clients : Phase(c) = "idle" /\ Phase(c)' = "idle"
  BY <1>5, <1>6 DEF Phase
<1>8. disk = Empty
  BY <1>1, <1>4 DEF MarkerOK
<1>9. UNCHANGED <<Shown(IF server = "up" THEN mem ELSE disk, Empty), Shown(disk, Empty)>>
  BY <1>4, <1>8 DEF Shown, Empty
<1>10. UNCHANGED Shown({c \in Clients : pc[c] = "flush"}, {})
  BY <1>5, <1>6 DEF Shown
<1>11. UNCHANGED Shown([c \in Clients |-> Phase(c)], [c \in Clients |-> "idle"])
  BY <1>7 DEF Shown
<1>12. UNCHANGED <<Shown(call, Nothing), Shown(out, Nothing), Shown(got, Nothing)>>
  BY <1>6 DEF Shown, Nothing
<1> QED
  BY <1>9, <1>10, <1>11, <1>12 DEF Service!vars

\* In a directory of sled the server implements the durable store: for any number
\* of clients, of threads, of calls and of kills its calls are atomic, what it has
\* confirmed survives a kill, and a call without an answer happened as a whole or not.
THEOREM ServerRefines == ASSUME TornMarker = FALSE PROVE Spec => Durable
<1>1. Init => Service!Init
  <2> SUFFICES ASSUME Init PROVE Service!Init
    OBVIOUS
  <2>1. Owner = None /\ None # "kvs"
    BY ServerAssumption DEF Init, Owner, CurrentEngine, Engines
  <2>2. /\ {c \in Clients : pc[c] = "flush"} = {}
        /\ [c \in Clients |-> Phase(c)] = [c \in Clients |-> "idle"]
    BY DEF Init, Phase
  <2> QED
    BY <2>1, <2>2 DEF Init, Service!Init, Shown, Empty
<1>2. ASSUME ServerInv, UNCHANGED vars PROVE UNCHANGED Service!vars
  BY <1>2 DEF vars, startVars, storeVars, connVars, clientVars, Service!vars, Shown, Owner,
    CurrentEngine, Phase
<1>3. ASSUME ServerInv, Next PROVE [Service!Next]_(Service!vars)
  <2>1. CASE Owner' # Owner
    BY <1>3, <2>1, OwnerChanges
  <2>2. CASE Owner = "kvs" /\ Owner' = "kvs"
    BY <2>2 DEF Service!vars, Shown, Empty, Nothing
  <2>3. CASE Owner # "kvs" /\ Owner' # "kvs"
    <3>1. engine # "kvs"
      BY <2>3, ServerAssumption DEF Owner, Engines
    <3> QED
      BY <1>3, <2>3, <3>1, TreeStep, Visible
  <2> QED
    BY <2>1, <2>2, <2>3
<1>4. ServerInv /\ [Next]_vars => [Service!Next]_(Service!vars)
  BY <1>2, <1>3
<1> QED
  BY <1>1, <1>4, ServerInvariant, PTL DEF Spec, Durable, Service!Spec
===============================================================================
