----------------------------- MODULE MCKprocDev ------------------------------
(* KprocDev for TLC. *)
EXTENDS KprocDev
==============================================================================
