------------------------------ MODULE MCRWLock -------------------------------
(* RWLock for TLC: a few processes that come and go for ever. *)
EXTENDS RWLock
==============================================================================
