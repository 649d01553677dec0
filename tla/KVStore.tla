-------------------------------- MODULE KVStore --------------------------------
(***************************************************************************)
(* What the trait KvsEngine (src/engines/mod.rs) promises to concurrent    *)
(* callers: a linearizable dictionary.  A client issues a call, the call   *)
(* takes effect in one step, and the effect fixes the answer: set succeeds,*)
(* get answers the value of the key or none, remove succeeds on a key that *)
(* is there and reports not_found on one that is not.                      *)
(***************************************************************************)
CONSTANTS Clients, Keys, Values, Absent, NoCall

VARIABLES
  db,  \* the value of each key, or Absent
  req, \* per client: the call that has not taken effect, or NoCall
  res  \* per client: the answer of its last call, "pending" before the effect

vars == <<db, req, res>>

Init ==
  /\ db = [k \in Keys |-> Absent]
  /\ req = [c \in Clients |-> NoCall]
  /\ res = [c \in Clients |-> "none"]

Issue(c) ==
  /\ req[c] = NoCall
  /\ \E op \in {"put", "delete", "get"}, k \in Keys, v \in Values \cup {Absent} :
       /\ op = "put" <=> v # Absent
       /\ req' = [req EXCEPT ![c] = [op |-> op, key |-> k, val |-> v]]
  /\ res' = [res EXCEPT ![c] = "pending"]
  /\ UNCHANGED db

Answer(c, r) ==
  /\ req' = [req EXCEPT ![c] = NoCall]
  /\ res' = [res EXCEPT ![c] = r]

Set(c) ==
  /\ req[c] # NoCall /\ req[c].op = "put"
  /\ db' = [db EXCEPT ![req[c].key] = req[c].val]
  /\ Answer(c, "ok")

Remove(c) ==
  /\ req[c] # NoCall /\ req[c].op = "delete"
  /\ db' = [db EXCEPT ![req[c].key] = Absent]
  /\ Answer(c, IF db[req[c].key] = Absent THEN "not_found" ELSE "ok")

Get(c) ==
  /\ req[c] # NoCall /\ req[c].op = "get"
  /\ Answer(c, IF db[req[c].key] = Absent THEN "none" ELSE db[req[c].key])
  /\ UNCHANGED db

Next == \E c \in Clients : Issue(c) \/ Set(c) \/ Remove(c) \/ Get(c)

Spec == Init /\ [][Next]_vars
===============================================================================
