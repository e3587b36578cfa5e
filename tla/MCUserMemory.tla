---------------------------- MODULE MCUserMemory ----------------------------
(* UserMemory for TLC: everything a process can tell apart is interchangeable. *)
EXTENDS UserMemory, TLC

Symmetry == Permutations(Proc) \cup Permutations(Seg)
            \cup Permutations(Page) \cup Permutations(Space)
==============================================================================
