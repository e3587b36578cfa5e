------------------------------- MODULE MCDevmnt -------------------------------
(* Devmnt for TLC. *)
EXTENDS Devmnt
===============================================================================
