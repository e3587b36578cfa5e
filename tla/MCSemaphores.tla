----------------------------- MODULE MCSemaphores -----------------------------
(* Semaphores for TLC: two acquirers and a releaser that go on for ever. *)
EXTENDS Semaphores, TLC
==============================================================================
