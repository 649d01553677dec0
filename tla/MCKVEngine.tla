------------------------------ MODULE MCKVEngine ------------------------------
(***************************************************************************)
(* Values of the constants for the runs of the engine.                     *)
(***************************************************************************)
EXTENDS KVEngineInv, TLC

\* A put record takes two units, a tombstone (no value) one.
MCSize == [v \in Values \cup {Deleted} |-> IF v = Deleted THEN 1 ELSE 2]

\* One value whose record fills a file of size 3, the others of size 1.
BigValue == CHOOSE v \in Values : TRUE
MixedSize == [v \in Values \cup {Deleted} |-> IF v = BigValue THEN 3 ELSE 1]

\* Two threads in a fixed order; with one thread both are the same.
First == CHOOSE t \in Threads : TRUE
OpsOf(mine, others) == [t \in Threads |-> IF t = First THEN mine ELSE others]

AllOps == OpsOf({"put", "delete", "get"}, {"put", "delete", "get"})
PutOnly == OpsOf({"put"}, {"put"})
PutDelete == OpsOf({"put", "delete"}, {"put", "delete"})
PutOrGet == OpsOf({"put", "get"}, {"put", "get"})
PutAndGet == OpsOf({"put"}, {"get"})
OneRemover == OpsOf({"put", "delete", "get"}, {"put", "get"})

Symmetry == Permutations(Keys) \cup Permutations(Values) \cup Permutations(Threads)
DataSymmetry == Permutations(Keys) \cup Permutations(Values)
KeySymmetry == Permutations(Keys)

\* The behaviours of Spec in which the kill comes when all calls have begun: for a
\* run that looks for one of them.
KilledLate == Init /\ [][Next /\ (crashes' # crashes => calls = MaxCalls)]_vars
===============================================================================
