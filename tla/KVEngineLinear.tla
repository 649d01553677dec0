----------------------------- MODULE KVEngineLinear -----------------------------
(***************************************************************************)
(* The engine implements the linearizable dictionary of KVStore: every     *)
(* step maps to the step in which a call takes effect, to the issue of a   *)
(* call, or to none.  One thread must do the removing (two can both remove *)
(* one key), and a merge must not get between a call and its effect: it is *)
(* run by the only thread that writes, or not at all.                      *)
(***************************************************************************)
EXTENDS KVEngineSingle

USE DataAssumption, NilAssumption, EngineAssumption, RequestAssumption
USE DEF diskVars, fileVars, loadVars, mergeVars, localVars, threadVars, boundVars

-------------------------------------------------------------------------------
(***************************************************************************)
(* The invariant LInv (KVEngineInv).                                       *)
(***************************************************************************)

\* A fresh store has nothing to replay.
LEMMA FreshStep == MaxCrashes = 0 /\ IInv /\ FreshOK /\ Next => FreshOK'
<1> SUFFICES ASSUME MaxCrashes = 0, IInv, FreshOK, Next, status' \in {"down", "loading"}
             PROVE  status \in {"down", "loading"} /\ disk' = disk
  BY DEF FreshOK
<1>1. ~Crash
  BY DEF Crash, IInv, TypeOK, BoundTypes
<1>2. CASE Open \/ Finished
  BY <1>2 DEF Open, OpenFiles, LoadRecord, LoadFileEnd, Finished, vars
<1> QED
  BY <1>1, <1>2, StatusStep DEF Next

\* Only a thread that deletes takes a key out of the index.
LEMMA IndexStays ==
  ASSUME IInv, FreshOK, Next, ~Crash, NEW k \in Keys, index[k] # Nil, index'[k] = Nil
  PROVE  \E t \in Threads : Unindex(t) /\ req[t].key = k
<1> USE DEF IInv, TypeOK
<1>1. ~LoadRecord
  BY Zero DEF LoadRecord, FreshOK, FilesOK, LoadTypes
<1>2. ASSUME NEW t \in Threads, Index(t) PROVE FALSE
  <2>1. pos[t] \in Position
    BY <1>2 DEF Index, PositionsOK, HoldsPos, Held, Names
  <2> QED
    BY <1>2, <2>1 DEF Index, StoreTypes
<1>3. ASSUME NEW t \in Threads, Relocate(t) PROVE FALSE
  <2>1. PICK j \in moving : index' = [index EXCEPT ![j] = Rebase(newPos[j])]
    BY <1>3 DEF Relocate
  <2>2. Rebase(newPos[j]) \in Position
    BY <1>3, <2>1, RebaseType DEF Relocate, MergeTypes, CopiesOK
  <2> QED
    BY <2>1, <2>2 DEF StoreTypes
<1>4. ASSUME NEW t \in Threads, Unindex(t) PROVE req[t].key = k
  BY <1>4 DEF Unindex, StoreTypes
<1> QED
  BY <1>1, <1>2, <1>3, <1>4, FrameIndex

\* A call that is under way goes on as it must.
LEMMA CallStep ==
  ASSUME IoErrors = FALSE, MaxCrashes = 0, SingleRemover, IInv, LInv, Next, NEW u \in Threads
  PROVE  CallOK(u)'
<1> USE DEF IInv, TypeOK
<1>0. CallOK(u) /\ FreshOK
  BY DEF LInv
<1>1. ~Crash
  BY DEF Crash, BoundTypes
<1>2. CASE Same(u)
  <2>1. CASE pc[u] = "idle"
    BY <1>2, <2>1 DEF Same, CallOK, Written, HoldsPos, Deleting, PendingPCs
  <2>2. CASE pc[u] # "idle"
    <3>1. Grows /\ req[u].key \in Keys
      BY <1>1, <2>2, GrowsStep DEF OpenFiles, ThreadsOK, Request
    <3>2. ASSUME Written(u) PROVE RecordAt(pos[u])' = RecordAt(pos[u])
      <4>1. Held(req[u].key, pos[u])
        BY <3>2 DEF Written, PositionsOK
      <4> QED
        BY <1>2, <3>1, <4>1, RecordStays DEF RecordAt, Same
    <3>3. ASSUME Deleting(u) PROVE index'[req[u].key] # Nil
      <4>1. ASSUME NEW t \in Threads, Unindex(t) PROVE t = u \/ req[t].key # req[u].key
        <5>1. CallOK(t) /\ pc[t] = "unindex"
          BY <4>1 DEF LInv, Unindex
        <5>2. "delete" \in Ops[t] \cap Ops[u]
          BY <1>0, <2>2, <3>3, <5>1 DEF CallOK, Deleting
        <5> QED
          BY <5>2 DEF SingleRemover
      <4>2. ~Unindex(u)
        BY <1>2 DEF Same, Unindex, Applied, Goto, CallTypes
      <4> QED
        BY <1>0, <1>1, <3>1, <3>3, <4>1, <4>2, IndexStays DEF CallOK
    <3> QED
      BY <1>0, <1>2, <2>2, <3>2, <3>3 DEF Same, CallOK, Written, HoldsPos, Deleting
  <2> QED
    BY <2>1, <2>2
<1>3. CASE Call(u)
  BY <1>3 DEF Call, CallPut, CallDelete, CallGet, Begin, Goto, CallOK, Written, HoldsPos,
    Deleting, CallTypes
<1>4. CASE Step(u)
  <2>1. CASE pc'[u] = "idle"
    BY <2>1 DEF CallOK, Written, HoldsPos, Deleting, PendingPCs
  <2>2. CASE MergeStep(u) /\ pc'[u] # "idle"
    <3>1. pc'[u] \in MergePCs
      BY <2>2, MergeStepPc DEF Release, Return, Goto, CallTypes
    <3>2. req' = req /\ result' = result /\ pc[u] # "idle"
      BY <2>2 DEF MergeStep, Select, ScanOpen, ScanRecord, BeginCommit, Rename, SwapActive,
        Recheck, Relocate, BeginCleanup, RemoveCandidate, EndMerge, MergeError,
        RenameError, Release, Return, Goto, CallTypes
    <3> QED
      BY <1>0, <3>1, <3>2 DEF CallOK, Written, HoldsPos, Deleting, MergePCs, CommitPCs, PendingPCs
  <2>3. CASE Lookup(u) /\ pc'[u] # "idle"
    BY <1>0, <2>3 DEF Lookup, Return, Goto, CallOK, Written, HoldsPos, Deleting, PendingPCs, CallTypes
  <2>4. CASE (Check(u) \/ Reread(u)) /\ pc'[u] # "idle"
    BY <1>0, <2>4 DEF Check, Reread, ReadOldPosition, Return, Goto, CallOK, Written, HoldsPos,
      Deleting, PendingPCs, CallTypes, ThreadsOK
  <2>5. CASE ReadOld(u) \/ Count(u)
    BY <1>0, <2>5 DEF ReadOld, ReadOldPosition, Count, Goto, CallOK, Written, HoldsPos,
      Deleting, PendingPCs, CallTypes, RecordAt, ThreadsOK
  <2>6. CASE Ensure(u) \/ Rotate(u)
    BY <1>0, <2>6 DEF Ensure, Rotate, Goto, CallOK, Written, HoldsPos, Deleting, PendingPCs, CallTypes
  <2>7. CASE AppendRecord(u)
    <3>1. req[u].op = "put" => RecordAt(pos[u])'.val = req[u].val
      BY <2>7, AppendsValue DEF RecordAt
    <3> QED
      BY <1>0, <2>7, <3>1 DEF AppendRecord, Goto, CallOK, Written, HoldsPos, Deleting, PendingPCs,
        CallTypes, ThreadsOK
  <2>8. CASE (Index(u) \/ Unindex(u) \/ Trigger(u) \/ CompareExchange(u)) /\ pc'[u] # "idle"
    BY <1>0, <2>8 DEF Index, Unindex, Applied, Trigger, CompareExchange, Return, Goto, CallOK,
      Written, HoldsPos, Deleting, PendingPCs, CallTypes
  <2>9. CASE Read(u) \/ CallError(u)
    BY <2>1, <2>9 DEF Read, CallError, Return, Goto, CallTypes
  <2> QED
    BY <1>4, <2>1, <2>2, <2>3, <2>4, <2>5, <2>6, <2>7, <2>8, <2>9 DEF Step
<1> QED
  BY <1>1, <1>2, <1>3, <1>4, FrameThread

LEMMA InitLinear == Init => LInv
BY DEF Init, LInv, FreshOK, CallOK, Written, HoldsPos, Deleting, PendingPCs, NoFiles, EmptyFile

LEMMA NextLinear ==
  ASSUME IoErrors = FALSE, MaxCrashes = 0, SingleRemover, IInv, LInv, [Next]_vars
  PROVE  LInv'
<1>1. CASE Next
  BY <1>1, FreshStep, CallStep DEF LInv
<1>2. CASE UNCHANGED vars
  BY <1>2 DEF vars, LInv, FreshOK, CallOK, Written, HoldsPos, Deleting, RecordAt
<1> QED
  BY <1>1, <1>2

-------------------------------------------------------------------------------
(***************************************************************************)
(* Refinement: the dictionary's variables, for one key and one thread.     *)
(***************************************************************************)
CallOf(t) == IF pc[t] = "idle" \/ Effective(t) THEN Nil ELSE req[t]
AnswerOf(t) ==
  IF pc[t] = "read" THEN ValueAt(pos[t])
  ELSE IF Effective(t) THEN "ok"
  ELSE result[t]

Database == [k \in Keys |-> View(k)]

ViewsStay == \A k \in Keys : View(k)' = View(k)
StoreStays(t) == ViewsStay /\ CallOf(t)' = CallOf(t) /\ AnswerOf(t)' = AnswerOf(t)

\* What the call of t answers is what the dictionary answers it in this step.
Answers(t, r) == CallOf(t)' = Nil /\ AnswerOf(t)' = r

\* The dictionary takes no notice of a thread that is not taking the step.
LEMMA OthersStay ==
  ASSUME IInv, Next, NEW u \in Threads, Same(u), Grows
  PROVE  CallOf(u)' = CallOf(u) /\ AnswerOf(u)' = AnswerOf(u)
<1>1. ASSUME pc[u] = "read" PROVE ValueAt(pos[u])' = ValueAt(pos[u])
  <2>1. Held(req[u].key, pos[u]) /\ req[u].key \in Keys
    BY <1>1 DEF IInv, PositionsOK, HoldsPos, ThreadsOK, Request
  <2> QED
    BY <2>1, RecordStays DEF ValueAt, RecordAt, Same
<1> QED
  BY <1>1 DEF Same, CallOf, AnswerOf, Effective

\* A step in which no call takes effect and no key changes is none of the dictionary's.
LEMMA Stutters ==
  ASSUME IInv, Next, NEW t \in Threads, Step(t), StoreStays(t)
  PROVE  UNCHANGED <<Database, AbsReq, AbsRes>>
<1>1. \A u \in Threads : CallOf(u)' = CallOf(u) /\ AnswerOf(u)' = AnswerOf(u)
  BY OthersSame, OthersStay, ThreadGrows DEF StoreStays, IInv, TypeOK
<1>2. Database' = Database
  BY DEF Database, StoreStays, ViewsStay
<1>3. AbsReq' = AbsReq
  BY <1>1 DEF AbsReq, CallOf
<1>4. AbsRes' = AbsRes
  BY <1>1 DEF AbsRes, AnswerOf
<1> QED
  BY <1>2, <1>3, <1>4

\* The other steps change the call and the answer of one thread.
LEMMA OneChanges ==
  ASSUME IInv, Next, NEW t \in Threads, Call(t) \/ Step(t)
  PROVE  /\ AbsReq' = [AbsReq EXCEPT ![t] = CallOf(t)']
         /\ AbsRes' = [AbsRes EXCEPT ![t] = AnswerOf(t)']
         /\ AbsReq[t] = CallOf(t)
<1>1. \A u \in Threads : u # t => CallOf(u)' = CallOf(u) /\ AnswerOf(u)' = AnswerOf(u)
  BY OthersSame, OthersStay, ThreadGrows DEF IInv, TypeOK
<1>2. AbsReq = [u \in Threads |-> CallOf(u)] /\ AbsReq' = [u \in Threads |-> CallOf(u)']
  BY DEF AbsReq, CallOf
<1>3. AbsRes = [u \in Threads |-> AnswerOf(u)] /\ AbsRes' = [u \in Threads |-> AnswerOf(u)']
  BY DEF AbsRes, AnswerOf
<1> HIDE DEF CallOf, AnswerOf
<1> QED
  BY <1>1, <1>2, <1>3

\* A thread in a block before the effect of its call stands for a call of the
\* dictionary; after it, for an answer.
LEMMA Stands ==
  ASSUME IInv, NEW t \in Threads
  PROVE  /\ pc[t] \in {"lookup"} \cup PendingPCs =>
              CallOf(t) = req[t] /\ AnswerOf(t) = result[t] /\ req[t] # Nil /\ req[t].key \in Keys
         /\ pc[t] \in {"trigger", "cas"} \cup MergePCs => CallOf(t) = Nil /\ AnswerOf(t) = "ok"
         /\ pc[t] = "read" => CallOf(t) = Nil /\ AnswerOf(t) = ValueAt(pos[t])
         /\ pc[t] = "idle" => CallOf(t) = Nil /\ AnswerOf(t) = result[t]
<1>1. pc[t] # "idle" => req[t] # Nil /\ req[t].key \in Keys
  BY DEF IInv, ThreadsOK, Request
<1> QED
  BY <1>1 DEF CallOf, AnswerOf, Effective, PendingPCs, MergePCs, CommitPCs

LEMMA StandsNext ==
  ASSUME NEW t \in Threads
  PROVE  /\ pc'[t] \in {"lookup"} \cup PendingPCs =>
              CallOf(t)' = req'[t] /\ AnswerOf(t)' = result'[t]
         /\ pc'[t] \in {"trigger", "cas"} \cup MergePCs => CallOf(t)' = Nil /\ AnswerOf(t)' = "ok"
         /\ pc'[t] = "read" => CallOf(t)' = Nil /\ AnswerOf(t)' = ValueAt(pos[t])'
         /\ pc'[t] = "idle" => CallOf(t)' = Nil /\ AnswerOf(t)' = result'[t]
BY DEF CallOf, AnswerOf, Effective, PendingPCs, MergePCs, CommitPCs

\* Beginning a call issues it.
LEMMA CallMaps ==
  ASSUME IInv, Next, NEW t \in Threads, Call(t)
  PROVE  Store!Issue(t)
<1> USE DEF IInv, TypeOK
<1>1. PICK op \in {"put", "delete", "get"}, k \in Keys, v \in Values \cup {Deleted},
           l \in {"ensure", "check", "lookup"} :
        Begin(t, op, k, v, l) /\ (op = "put" <=> v # Deleted)
  BY DEF Call, CallPut, CallDelete, CallGet
<1>2. pc[t] = "idle" /\ pc'[t] \in {"lookup"} \cup PendingPCs
  BY <1>1 DEF Begin, Goto, CallTypes, PendingPCs
<1>3. CallOf(t)' = [op |-> op, key |-> k, val |-> v] /\ AnswerOf(t)' = "pending"
  BY <1>1, <1>2, StandsNext DEF Begin, CallTypes
<1>4. Database' = Database
  BY <1>1 DEF Begin, Database, View, ValueAt, RecordAt
<1>5. AbsReq[t] = Nil
  BY <1>2, Stands, OneChanges
<1>6. AbsReq' = [AbsReq EXCEPT ![t] = [op |-> op, key |-> k, val |-> v]]
      /\ AbsRes' = [AbsRes EXCEPT ![t] = "pending"]
  BY <1>3, OneChanges
<1> QED
  BY <1>1, <1>4, <1>5, <1>6 DEF Store!Issue, Database

\* Looking the key up answers a get.
LEMMA LookupMaps ==
  ASSUME IInv, LInv, Next, NEW t \in Threads, Lookup(t)
  PROVE  Store!Get(t)
<1> USE DEF IInv, TypeOK
<1>1. pc[t] = "lookup" /\ req[t].op = "get" /\ req[t].key \in Keys
  BY Stands DEF Lookup, LInv, CallOK
<1>2. AbsReq[t] = req[t] /\ req[t] # Nil
  BY <1>1, Stands, OneChanges DEF Step
<1>3. Database' = Database
  BY DEF Lookup, Database, View, ValueAt, RecordAt
<1>4. PICK k \in Keys : k = req[t].key
  BY <1>1
<1>5. Answers(t, IF View(k) = Deleted THEN "none" ELSE View(k))
  <2>1. CASE index[k] = Nil
    <3>1. pc'[t] = "idle" /\ result'[t] = "none"
      BY <1>4, <2>1 DEF Lookup, Return, Goto, CallTypes
    <3> QED
      BY <2>1, <3>1, StandsNext DEF Answers, View, ValueAt
  <2>2. CASE index[k] # Nil
    <3>1. pc'[t] = "read" /\ pos'[t] = index[k] /\ disk' = disk
      BY <1>4, <2>2 DEF Lookup, Goto, CallTypes
    <3>2. ValueAt(pos[t])' = View(k)
      BY <3>1 DEF ValueAt, View, RecordAt
    <3>3. View(k) # Deleted
      BY <2>2 DEF PositionsOK, Held, Names, View, ValueAt
    <3> QED
      BY <3>1, <3>2, <3>3, StandsNext DEF Answers
  <2> QED
    BY <2>1, <2>2
<1>6. AbsReq' = [AbsReq EXCEPT ![t] = Nil]
      /\ AbsRes' = [AbsRes EXCEPT ![t] = IF View(k) = Deleted THEN "none" ELSE View(k)]
  BY <1>5, OneChanges DEF Step, Answers
<1> QED
  BY <1>1, <1>2, <1>3, <1>4, <1>6 DEF Store!Get, Store!Answer, Database

\* A delete that finds no key answers.
LEMMA CheckMaps ==
  ASSUME IInv, Next, NEW t \in Threads, Check(t), index[req[t].key] = Nil
  PROVE  Store!Remove(t)
<1> USE DEF IInv, TypeOK
<1>1. pc[t] \in PendingPCs /\ req[t].op = "delete"
  BY DEF Check, ThreadsOK, PendingPCs
<1>2. AbsReq[t] = req[t] /\ req[t] # Nil
  BY <1>1, Stands, OneChanges DEF Step
<1>3. PICK k \in Keys : k = req[t].key
  BY <1>1, Stands
<1>4. View(k) = Deleted
  BY <1>3 DEF View, ValueAt
<1>5. Database' = [Database EXCEPT ![k] = Deleted]
  <2>1. Database' = Database
    BY DEF Check, Database, View, ValueAt, RecordAt
  <2> QED
    BY <1>4, <2>1 DEF Database
<1>6. pc'[t] = "idle" /\ result'[t] = "not_found"
  BY DEF Check, Return, Goto, CallTypes
<1>7. AbsReq' = [AbsReq EXCEPT ![t] = Nil] /\ AbsRes' = [AbsRes EXCEPT ![t] = "not_found"]
  BY <1>6, StandsNext, OneChanges DEF Step
<1> QED
  BY <1>1, <1>2, <1>3, <1>4, <1>5, <1>7 DEF Store!Remove, Store!Answer, Database

\* Taking the key out of the index removes it.
LEMMA UnindexMaps ==
  ASSUME IInv, LInv, Next, NEW t \in Threads, Unindex(t)
  PROVE  Store!Remove(t)
<1> USE DEF IInv, TypeOK
<1>1. pc[t] \in PendingPCs /\ pc[t] # "check" /\ req[t].op = "delete"
  BY DEF Unindex, LInv, CallOK, PendingPCs
<1>2. AbsReq[t] = req[t] /\ req[t] # Nil
  BY <1>1, Stands, OneChanges DEF Step
<1>3. PICK k \in Keys : k = req[t].key
  BY <1>1, Stands
<1>4. View(k) # Deleted
  <2>1. index[k] # Nil
    BY <1>1, <1>3 DEF LInv, CallOK, Deleting
  <2> QED
    BY <2>1 DEF PositionsOK, Held, Names, View, ValueAt
<1>5. Database' = [Database EXCEPT ![k] = Deleted]
  <2>1. index' = [index EXCEPT ![k] = Nil] /\ disk' = disk
    BY <1>3 DEF Unindex, Applied
  <2>2. View(k)' = Deleted /\ \A j \in Keys : j # k => View(j)' = View(j)
    BY <2>1 DEF View, ValueAt, RecordAt, StoreTypes
  <2> QED
    BY <2>2 DEF Database
<1>6. pc'[t] = "trigger"
  BY DEF Unindex, Applied, Goto, CallTypes
<1>7. AbsReq' = [AbsReq EXCEPT ![t] = Nil] /\ AbsRes' = [AbsRes EXCEPT ![t] = "ok"]
  BY <1>6, StandsNext, OneChanges DEF Step
<1> QED
  BY <1>1, <1>2, <1>3, <1>4, <1>5, <1>7 DEF Store!Remove, Store!Answer, Database

\* Putting the new position into the index sets the key.
LEMMA IndexMaps ==
  ASSUME IInv, LInv, Next, NEW t \in Threads, Index(t)
  PROVE  Store!Set(t)
<1> USE DEF IInv, TypeOK
<1>1. pc[t] \in PendingPCs /\ req[t].op = "put"
  BY DEF Index, ThreadsOK, PendingPCs
<1>2. AbsReq[t] = req[t] /\ req[t] # Nil
  BY <1>1, Stands, OneChanges DEF Step
<1>3. PICK k \in Keys : k = req[t].key
  BY <1>1, Stands
<1>4. RecordAt(pos[t]).val = req[t].val /\ pos[t] # Nil
  BY DEF Index, LInv, CallOK, Written, HoldsPos, PositionsOK, Held, Names
<1>5. Database' = [Database EXCEPT ![k] = req[t].val]
  <2>1. index' = [index EXCEPT ![k] = pos[t]] /\ disk' = disk
    BY <1>3 DEF Index, Applied
  <2>2. View(k)' = req[t].val /\ \A j \in Keys : j # k => View(j)' = View(j)
    BY <1>4, <2>1 DEF View, ValueAt, RecordAt, StoreTypes
  <2> QED
    BY <2>2 DEF Database
<1>6. pc'[t] = "trigger"
  BY DEF Index, Applied, Goto, CallTypes
<1>7. AbsReq' = [AbsReq EXCEPT ![t] = Nil] /\ AbsRes' = [AbsRes EXCEPT ![t] = "ok"]
  BY <1>6, StandsNext, OneChanges DEF Step
<1> QED
  BY <1>1, <1>2, <1>3, <1>5, <1>7 DEF Store!Set, Store!Answer, Database

\* The other blocks of a call are none of the dictionary's.
LEMMA OtherBlocks ==
  ASSUME IoErrors = FALSE, IInv, LInv, ReadsFindFiles, Next, NEW t \in Threads,
         Step(t), ~MergeStep(t), ~Lookup(t), ~Index(t), ~Unindex(t),
         ~(Check(t) /\ index[req[t].key] = Nil)
  PROVE  StoreStays(t)
<1> USE DEF IInv, TypeOK
<1>1. ViewsStay
  <2>1. index' = index
    BY DEF Step, Read, Check, Reread, ReadOld, ReadOldPosition, Count, Ensure, Rotate,
      AppendRecord, CallError, Trigger, CompareExchange
  <2> QED
    BY <2>1, ThreadGrows, ViewStays DEF ViewsStay
<1>2. CASE Read(t)
  <2>1. pc[t] = "read" /\ pos[t].file \in older \cup {active}
    BY <1>2 DEF Read, ReadsFindFiles
  <2>2. pc'[t] = "idle" /\ result'[t] = RecordAt(pos[t]).val
    BY <1>2, <2>1 DEF Read, Return, Goto, CallTypes
  <2>3. pos[t] # Nil
    BY <2>1 DEF PositionsOK, HoldsPos, Held, Names
  <2> QED
    BY <1>1, <2>1, <2>2, <2>3, Stands, StandsNext DEF StoreStays, ValueAt
<1>3. CASE Check(t) \/ Reread(t) \/ ReadOld(t) \/ Count(t) \/ Ensure(t) \/ Rotate(t)
           \/ AppendRecord(t)
  <2>1. pc[t] \in PendingPCs
    BY <1>3 DEF Check, Reread, ReadOld, ReadOldPosition, Count, Ensure, Rotate, AppendRecord,
      PendingPCs
  <2>2. pc'[t] \in PendingPCs /\ req'[t] = req[t] /\ result'[t] = result[t]
    BY <1>3 DEF Check, Reread, ReadOld, ReadOldPosition, Count, Ensure, Rotate, AppendRecord,
      Goto, CallTypes, PendingPCs
  <2> QED
    BY <1>1, <2>1, <2>2, Stands, StandsNext DEF StoreStays
<1>4. CASE Trigger(t) \/ CompareExchange(t)
  <2>1. pc[t] \in {"trigger", "cas"}
    BY <1>4 DEF Trigger, CompareExchange
  <2>2. pc'[t] \in {"cas"} \cup MergePCs \/ (pc'[t] = "idle" /\ result'[t] = "ok")
    BY <1>4 DEF Trigger, CompareExchange, Return, Goto, CallTypes, MergePCs
  <2> QED
    BY <1>1, <2>1, <2>2, Stands, StandsNext DEF StoreStays
<1> QED
  BY <1>2, <1>3, <1>4 DEF Step, CallError

\* Nor are those of a merge, if it keeps what get answers.
LEMMA MergeBlocks ==
  ASSUME IoErrors = FALSE, IInv, LInv, Next, NEW t \in Threads, MergeStep(t), ViewsStay
  PROVE  StoreStays(t)
<1> USE DEF IInv, TypeOK
<1>1. pc[t] \in MergePCs
  BY DEF MergeStep, Select, ScanOpen, ScanRecord, BeginCommit, Rename, SwapActive,
    Recheck, Relocate, BeginCleanup, RemoveCandidate, EndMerge, MergeError,
    RenameError, Release, MergePCs, CommitPCs
<1>2. CASE Release(t)
  <2>1. result[t] = "pending"
    BY <1>2 DEF Release, LInv, CallOK
  <2>2. pc'[t] = "idle" /\ result'[t] = "ok"
    BY <1>2, <2>1 DEF Release, Return, Goto, CallTypes
  <2> QED
    BY <1>1, <2>2, Stands, StandsNext DEF StoreStays
<1>3. CASE ~Release(t)
  BY <1>1, <1>3, MergeStepPc, Stands, StandsNext DEF StoreStays
<1> QED
  BY <1>2, <1>3

\* Every step of the engine is a step of the dictionary or none.
LEMMA StepMaps ==
  ASSUME IoErrors = FALSE, MaxCrashes = 0, IInv, LInv, ReadsFindFiles, [Next]_vars,
         \A t \in Threads : Next /\ MergeStep(t) => ViewsStay
  PROVE  [Store!Next]_(Store!vars)
<1> USE DEF IInv, TypeOK
<1>1. ASSUME UNCHANGED <<Database, AbsReq, AbsRes>> PROVE [Store!Next]_(Store!vars)
  BY <1>1 DEF Store!vars, Database
<1>2. CASE UNCHANGED vars
  BY <1>2 DEF vars, Store!vars, View, ValueAt, RecordAt, AbsReq, AbsRes, Effective
<1>3. CASE Open
  <2>1. ~LoadRecord
    BY Zero DEF LoadRecord, LInv, FreshOK, FilesOK, LoadTypes
  <2>2. UNCHANGED <<disk, index, threadVars>>
    BY <1>3, <2>1 DEF Open, OpenFiles, LoadFileEnd
  <2> QED
    BY <2>2 DEF Store!vars, View, ValueAt, RecordAt, AbsReq, AbsRes, Effective
<1>4. ~Crash
  BY DEF Crash, BoundTypes
<1>5. CASE Finished
  BY <1>2, <1>5 DEF Finished
<1>6. ASSUME Next, NEW t \in Threads, Call(t) PROVE Store!Next
  BY <1>6, CallMaps DEF Store!Next
<1>7. ASSUME Next, NEW t \in Threads, Step(t) PROVE [Store!Next]_(Store!vars)
  <2>1. CASE Lookup(t) \/ Index(t) \/ Unindex(t) \/ (Check(t) /\ index[req[t].key] = Nil)
    BY <1>7, <2>1, LookupMaps, IndexMaps, UnindexMaps, CheckMaps DEF Store!Next
  <2>2. CASE MergeStep(t)
    BY <1>1, <1>7, <2>2, MergeBlocks, Stutters
  <2>3. CASE ~MergeStep(t) /\ ~(Lookup(t) \/ Index(t) \/ Unindex(t)
                               \/ (Check(t) /\ index[req[t].key] = Nil))
    BY <1>1, <1>7, <2>3, OtherBlocks, Stutters
  <2> QED
    BY <2>1, <2>2, <2>3
<1> QED
  BY <1>2, <1>3, <1>4, <1>5, <1>6, <1>7 DEF Next

LEMMA InitMaps == Init => Store!Init
BY DEF Init, Store!Init, View, ValueAt, NoIndex, AbsReq, AbsRes, Effective

-------------------------------------------------------------------------------
(***************************************************************************)
(* The theorems.                                                           *)
(***************************************************************************)
LEMMA WriterRemoves == SingleWriter => SingleRemover
BY DEF SingleWriter, SingleRemover, Writers

\* With one thread that writes, any number of threads that read and merges of
\* any length, the engine is a linearizable dictionary, as long as no merge
\* closes a file under a get that has looked its key up.
THEOREM WriterLinearizes ==
  ASSUME IoErrors = FALSE, MaxCrashes = 0, SingleWriter
  PROVE  Spec /\ []ReadsFindFiles => Linearizable
<1>1. IInv /\ SInv /\ LInv /\ [Next]_vars => LInv'
  BY NextLinear, WriterRemoves
<1>2. IInv /\ SInv /\ LInv /\ ReadsFindFiles /\ [Next]_vars => [Store!Next]_(Store!vars)
  BY StepMaps, MergeView DEF ViewsStay
<1> QED
  BY <1>1, <1>2, InitLinear, InitMaps, SingleInvariant, PTL DEF Spec, Linearizable, Store!Spec

\* A thread that is alone closes no file while it gets.
LEMMA AloneFinds ==
  ASSUME SingleThread, IInv, SInv, ReadsFindFiles, Next
  PROVE  ReadsFindFiles'
<1> SUFFICES ASSUME NEW t \in Threads, pc'[t] = "read"
             PROVE  pos'[t].file \in (older \cup {active})'
  BY DEF ReadsFindFiles
<1> USE DEF IInv, TypeOK
<1>1. ~Crash /\ ~Call(t)
  BY DEF Crash, Call, CallPut, CallDelete, CallGet, Begin, Goto, CallTypes
<1>2. CASE Step(t)
  <2>1. ~MergeStep(t)
    BY MergeStepPc DEF Release, Return, Goto, CallTypes, MergePCs, CommitPCs
  <2>2. Lookup(t)
    BY <1>2, <2>1 DEF Step, Read, Check, Reread, ReadOld, ReadOldPosition, Count, Ensure, Rotate,
      AppendRecord, CallError, Index, Unindex, Applied, Trigger, CompareExchange, Return, Goto,
      CallTypes
  <2>3. req[t].key \in Keys /\ status = "up"
    BY <2>2 DEF Lookup, ThreadsOK, Request
  <2>4. pos'[t] = index[req[t].key] /\ index[req[t].key] # Nil /\ UNCHANGED fileVars
    BY <2>2 DEF Lookup, Return, Goto, CallTypes
  <2> QED
    BY <2>3, <2>4 DEF SInv, OpenOK, IndexOpen
<1>3. CASE ~Step(t)
  <2>1. \A u \in Threads : ~Call(u) /\ ~Step(u)
    BY <1>1, <1>3 DEF SingleThread
  <2>2. Same(t)
    BY <1>1, <1>3, FrameThread
  <2>3. status = "up" /\ pc[t] = "read"
    BY <2>2 DEF Same, ThreadsOK
  <2>4. Finished
    BY <1>1, <2>1, <2>3 DEF Next, Open, OpenFiles, LoadRecord, LoadFileEnd
  <2> QED
    BY <2>2, <2>3, <2>4 DEF Finished, vars, Same, ReadsFindFiles
<1> QED
  BY <1>2, <1>3

\* With one thread the engine is a dictionary, whatever it merges.
THEOREM ThreadLinearizes ==
  ASSUME IoErrors = FALSE, MaxCrashes = 0, SingleThread
  PROVE  Spec => Linearizable
<1>1. SingleWriter
  BY DEF SingleThread, SingleWriter, Writers
<1>2. Init => ReadsFindFiles
  BY DEF Init, ReadsFindFiles
<1>3. IInv /\ SInv /\ ReadsFindFiles /\ [Next]_vars => ReadsFindFiles'
  <2>1. ASSUME ReadsFindFiles, UNCHANGED vars PROVE ReadsFindFiles'
    BY <2>1 DEF ReadsFindFiles, vars
  <2> QED
    BY <2>1, AloneFinds
<1> QED
  BY <1>1, <1>2, <1>3, SingleInvariant, WriterLinearizes, PTL DEF Spec

\* While no merge runs, files are opened and never closed.
LEMMA KeptStep ==
  ASSUME IInv, KeptOK, NoMerging, Next
  PROVE  KeptOK'
<1> USE DEF IInv, TypeOK
<1>1. IndexOpen'
  <2>1. OpenOK /\ \A t \in Threads : MergeFilesAt(t) /\ CoveredAt(t)
    BY DEF KeptOK, OpenOK, NoMerging, MergePCs, CommitPCs, MergeFilesAt, CoveredAt
  <2> QED
    BY <2>1, IndexOpenStep DEF IndexOpen
<1>2. ASSUME NEW u \in Threads, HoldsPos(u)' PROVE pos'[u].file \in (older \cup {active})'
  <2>1. ~Crash /\ ~Call(u)
    BY <1>2 DEF Crash, Call, CallPut, CallDelete, CallGet, Begin, Goto, CallTypes, HoldsPos
  <2>2. \A t \in Threads : ~MergeStep(t)
    BY DEF NoMerging, MergePCs, CommitPCs, MergeStep, Select, ScanOpen, ScanRecord, BeginCommit,
      Rename, SwapActive, Recheck, Relocate, BeginCleanup, RemoveCandidate, EndMerge, MergeError,
      RenameError, Release
  <2>3. status = "up" => older \cup {active} \subseteq (older \cup {active})'
    BY <2>1, <2>2, StaysUp, OpenGrows DEF OpenFiles, MergeStep
  <2>4. CASE Same(u)
    <3>1. HoldsPos(u) /\ status = "up"
      BY <1>2, <2>4 DEF Same, HoldsPos, ThreadsOK
    <3> QED
      BY <2>3, <2>4, <3>1 DEF Same, KeptOK
  <2>5. CASE Step(u)
    <3>1. CASE Lookup(u)
      <4>1. req[u].key \in Keys /\ status = "up"
        BY <3>1 DEF Lookup, ThreadsOK, Request
      <4>2. pos'[u] = index[req[u].key] /\ index[req[u].key] # Nil /\ UNCHANGED fileVars
        BY <1>2, <3>1 DEF Lookup, Return, Goto, CallTypes, HoldsPos
      <4> QED
        BY <4>1, <4>2 DEF KeptOK, IndexOpen
    <3>2. CASE AppendRecord(u)
      BY <1>2, <3>2 DEF AppendRecord, Pos, Goto, CallTypes, HoldsPos
    <3>3. CASE Reread(u)
      BY <1>2, <3>3 DEF Reread, ReadOldPosition, ThreadsOK, Goto, CallTypes, HoldsPos
    <3>4. CASE ReadOld(u) \/ Count(u)
      <4>1. HoldsPos(u)
        BY <1>2, <3>4 DEF ReadOld, ReadOldPosition, Count, HoldsPos, Goto, CallTypes
      <4>2. UNCHANGED <<fileVars, pos>>
        BY <3>4 DEF ReadOld, ReadOldPosition, Count
      <4> QED
        BY <4>1, <4>2 DEF KeptOK
    <3>5. ~(\/ Read(u) \/ Check(u) \/ Ensure(u) \/ Rotate(u) \/ CallError(u) \/ Index(u)
            \/ Unindex(u) \/ Trigger(u) \/ CompareExchange(u))
      BY <1>2 DEF Read, Check, Ensure, Rotate, CallError, Index, Unindex, Applied, Trigger,
        CompareExchange, Return, Goto, CallTypes, HoldsPos
    <3> QED
      BY <2>2, <2>5, <3>1, <3>2, <3>3, <3>4, <3>5 DEF Step
  <2> QED
    BY <2>1, <2>4, <2>5, FrameThread
<1> QED
  BY <1>1, <1>2 DEF KeptOK

\* Any number of threads may put and get, and one of them delete: as long as no
\* merge runs the engine is a linearizable dictionary.
THEOREM UnmergedLinearizes ==
  ASSUME IoErrors = FALSE, MaxCrashes = 0, SingleRemover
  PROVE  Spec /\ []NoMerging => Linearizable
<1>1. Init => KeptOK
  BY DEF Init, KeptOK, IndexOpen, HoldsPos, NoIndex
<1>2. IInv /\ KeptOK /\ NoMerging /\ [Next]_vars => KeptOK'
  <2>1. ASSUME KeptOK, UNCHANGED vars PROVE KeptOK'
    BY <2>1 DEF KeptOK, IndexOpen, HoldsPos, vars
  <2> QED
    BY <2>1, KeptStep
<1>3. IInv /\ LInv /\ [Next]_vars => LInv'
  BY NextLinear
<1>4. IInv /\ KeptOK /\ LInv /\ NoMerging /\ [Next]_vars => [Store!Next]_(Store!vars)
  <2> SUFFICES ASSUME IInv, KeptOK, LInv, NoMerging, [Next]_vars
               PROVE  [Store!Next]_(Store!vars)
    OBVIOUS
  <2>1. ReadsFindFiles
    BY DEF KeptOK, HoldsPos, ReadsFindFiles
  <2>2. \A t \in Threads : ~MergeStep(t)
    BY DEF NoMerging, MergePCs, CommitPCs, MergeStep, Select, ScanOpen, ScanRecord, BeginCommit,
      Rename, SwapActive, Recheck, Relocate, BeginCleanup, RemoveCandidate, EndMerge, MergeError,
      RenameError, Release
  <2> QED
    BY <2>1, <2>2, StepMaps
<1> QED
  BY <1>1, <1>2, <1>3, <1>4, InitInv, NextInv, InitLinear, InitMaps, PTL
  DEF Spec, Linearizable, Store!Spec
===============================================================================
