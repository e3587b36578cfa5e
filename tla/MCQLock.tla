------------------------------- MODULE MCQLock -------------------------------
(* QLock for TLC: a few processes that come and go for ever. *)
EXTENDS QLock, TLC
==============================================================================
