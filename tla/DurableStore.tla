----------------------------- MODULE DurableStore -----------------------------
(***************************************************************************)
(* What a client of kvs-server may rely on: a linearizable dictionary that *)
(* a kill of the server does not take back.  A call takes effect in one    *)
(* step; it is answered only when its effect has been saved; a restart     *)
(* falls back to what was saved.  A client whose connection breaks does    *)
(* not learn whether its call took effect; one whose call or saving failed *)
(* is told "error" and may or may not find its effect.                     *)
(***************************************************************************)
CONSTANTS Clients, Keys, Values, Absent, None

VARIABLES
  db,      \* the dictionary
  saved,   \* what a restart restores
  unsaved, \* the clients whose applied call may not be saved yet
  phase,   \* per client: "idle", "issued", "applied" or "lost"
  call,    \* per client: its call while it is issued, or None
  answer,  \* per client: the answer while its call is applied, or None
  got      \* per client: the answer it received last, None or "broken"

vars == <<db, saved, unsaved, phase, call, answer, got>>

Calls == [op : {"set"}, key : Keys, val : Values] \cup [op : {"get", "remove"}, key : Keys]

Init ==
  /\ db = [k \in Keys |-> Absent]
  /\ saved = db
  /\ unsaved = {}
  /\ phase = [c \in Clients |-> "idle"]
  /\ call = [c \in Clients |-> None]
  /\ answer = [c \in Clients |-> None]
  /\ got = [c \in Clients |-> None]

Issue(c) ==
  /\ phase[c] = "idle"
  /\ phase' = [phase EXCEPT ![c] = "issued"]
  /\ \E r \in Calls : call' = [call EXCEPT ![c] = r]
  /\ UNCHANGED <<db, saved, unsaved, answer, got>>

Result(r, d) ==
  IF r.op = "get" THEN d[r.key]
  ELSE IF r.op = "remove" /\ d[r.key] = Absent THEN "not_found"
  ELSE "ok"

After(r, d) ==
  IF r.op = "get" THEN d
  ELSE [d EXCEPT ![r.key] = IF r.op = "set" THEN r.val ELSE Absent]

\* The call takes effect; a change is saved later.
Apply(c) ==
  /\ phase[c] = "issued"
  /\ phase' = [phase EXCEPT ![c] = "applied"]
  /\ db' = After(call[c], db)
  /\ call' = [call EXCEPT ![c] = None]
  /\ answer' = [answer EXCEPT ![c] = Result(call[c], db)]
  /\ unsaved' = unsaved \cup {c} \/ (db' = db /\ UNCHANGED unsaved)
  /\ UNCHANGED <<saved, got>>

\* The call fails, with or without its effect.
Fail(c) ==
  /\ phase[c] = "issued"
  /\ phase' = [phase EXCEPT ![c] = "applied"]
  /\ db' \in {db, After(call[c], db)}
  /\ call' = [call EXCEPT ![c] = None]
  /\ answer' = [answer EXCEPT ![c] = "error"]
  /\ UNCHANGED <<saved, unsaved, got>>

\* Everything applied so far is saved.
Save ==
  /\ saved' = db
  /\ unsaved' \in SUBSET unsaved
  /\ UNCHANGED <<db, phase, call, answer, got>>

SaveFails(c) ==
  /\ c \in unsaved
  /\ unsaved' = unsaved \ {c}
  /\ answer' = [answer EXCEPT ![c] = "error"]
  /\ UNCHANGED <<db, saved, phase, call, got>>

\* The answer reaches the client, whose effect is saved.
Return(c) ==
  /\ phase[c] = "applied"
  /\ c \notin unsaved
  /\ phase' = [phase EXCEPT ![c] = "idle"]
  /\ got' = [got EXCEPT ![c] = answer[c]]
  /\ answer' = [answer EXCEPT ![c] = None]
  /\ UNCHANGED <<db, saved, unsaved, call>>

\* What the service knows of c's call is forgotten.
Forget(c) ==
  /\ c \notin unsaved
  /\ phase' = [phase EXCEPT ![c] = "idle"]
  /\ call' = [call EXCEPT ![c] = None]
  /\ answer' = [answer EXCEPT ![c] = None]

\* The connection breaks, or the client goes away: its call may still be
\* waiting to take effect.
Break(c) ==
  /\ got' = [got EXCEPT ![c] = "broken"]
  /\ Forget(c) \/ UNCHANGED <<phase, call, answer>>
  /\ UNCHANGED <<db, saved, unsaved>>

\* A call whose client is gone has been dealt with.
Drop(c) ==
  /\ got[c] = "broken"
  /\ Forget(c)
  /\ UNCHANGED <<db, saved, unsaved, got>>

\* Calls that were not answered may be lost, those not saved are.
Restart ==
  /\ db' = saved
  /\ unsaved' = {}
  /\ \E lost \in SUBSET Clients :
       /\ unsaved \subseteq lost
       /\ phase' = [c \in Clients |->
                      IF c \notin lost \/ phase[c] = "idle" THEN phase[c]
                      ELSE IF got[c] = "broken" THEN "idle" ELSE "lost"]
       /\ call' = [c \in Clients |-> IF c \in lost THEN None ELSE call[c]]
       /\ answer' = [c \in Clients |-> IF c \in lost THEN None ELSE answer[c]]
  /\ UNCHANGED <<saved, got>>

Next ==
  \/ \E c \in Clients : \/ Issue(c) \/ Apply(c) \/ Fail(c) \/ SaveFails(c)
                        \/ Return(c) \/ Break(c) \/ Drop(c)
  \/ Save
  \/ Restart

Spec == Init /\ [][Next]_vars
===============================================================================
