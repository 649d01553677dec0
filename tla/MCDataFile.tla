------------------------------ MODULE MCDataFile ------------------------------
(***************************************************************************)
(* Values of the constants for the runs of the data file.                  *)
(***************************************************************************)
EXTENDS DataFile, TLC

\* One record is a cell longer than the others.
Long == CHOOSE r \in Records : TRUE
MCSize == [r \in Records |-> IF r = Long THEN 4 ELSE 3]
===============================================================================
