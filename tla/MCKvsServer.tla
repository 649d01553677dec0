----------------------------- MODULE MCKvsServer -----------------------------
(***************************************************************************)
(* KvsServer for TLC; server.cfg gives every constant its value, each of   *)
(* them a model value, a small set of them, a Boolean or a bound.          *)
(***************************************************************************)
EXTENDS KvsServer
===============================================================================
