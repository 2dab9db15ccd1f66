---------------------------- MODULE MC_FodWatcher ----------------------------
(* Model-checking instance of FodWatcher. *)
EXTENDS FodWatcher
=============================================================================
