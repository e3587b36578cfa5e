---------------------------- MODULE MCKprocSched -----------------------------
(* KprocSched for TLC: kprocs that come, sleep, yield and go for ever. *)
EXTENDS KprocSched, TLC
==============================================================================
