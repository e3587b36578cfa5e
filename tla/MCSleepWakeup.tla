---------------------------- MODULE MCSleepWakeup ----------------------------
(* SleepWakeup for TLC. *)
EXTENDS SleepWakeup, TLC
==============================================================================
