-------------------------- MODULE MCNaiveThreadPool --------------------------
(***************************************************************************)
(* Values of the constants for the runs of the naive thread pool.          *)
(***************************************************************************)
EXTENDS NaiveThreadPool

AllFates == [Jobs -> {"return", "panic", "block"}]
Panics == [Jobs -> {"return", "panic"}]
===============================================================================
