----------------------------- MODULE MCExecutors -----------------------------
(* Small instances of Executors. *)
EXTENDS Executors, TLC
=============================================================================
