------------------------------ MODULE MCTimers ------------------------------
(* Timers for TLC: two processes that sleep with a time limit again and again. *)
EXTENDS Timers, TLC
==============================================================================
