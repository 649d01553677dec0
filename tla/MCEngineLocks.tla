----------------------------- MODULE MCEngineLocks -----------------------------
(***************************************************************************)
(* Values of the constants for the runs of the lock protocol.              *)
(***************************************************************************)
EXTENDS EngineLocks, TLC

First == CHOOSE t \in Threads : TRUE

\* Any mix of calls, but no file is ever worth merging.
NoMerges == [t \in Threads |-> {"get", "put", "delete"}]

\* One thread writes and merges, the others read.
OneMerger ==
  [t \in Threads |-> IF t = First THEN {"put", "delete", "merge"} ELSE {"get"}]

MergesAlone == {NoMerges, OneMerger}

\* Every thread writes and merges.
Mergers == {[t \in Threads |-> {"put", "merge"}]}
===============================================================================
