----------------------------- MODULE MCCpu0Sched -----------------------------
(* Cpu0Sched for TLC. *)
EXTENDS Cpu0Sched, TLC
==============================================================================
