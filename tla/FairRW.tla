------------------------------- MODULE FairRW --------------------------------
(***************************************************************************)
(* What the kernel's reader-writer lock promises its callers: readers      *)
(* share it, a writer has it alone, and those who wait are let in in the   *)
(* order they came: the oldest writer alone, or all the readers that       *)
(* stand in front of the oldest writer.  Nobody who arrives later goes in  *)
(* first, a reader no more than a writer.  RWLock implements this.         *)
(***************************************************************************)
EXTENDS Naturals, Sequences

CONSTANTS Proc      \* processes that use the lock

VARIABLES inside,   \* the processes that have the lock
          wishes,   \* wishes[p]: "R" or "W", what p last asked for
          line      \* those who wait, oldest first

absVars == <<inside, wishes, line>>

AbsInit ==
    /\ inside = {}
    /\ wishes \in [Proc -> {"R", "W"}]
    /\ line = <<>>

(* May p, wanting w, share the lock with those who are inside? *)
Compatible(w) == \A q \in inside : w = "R" /\ wishes[q] = "R"

Enter(p, w) ==
    /\ line = <<>>
    /\ Compatible(w)
    /\ inside' = inside \cup {p}
    /\ wishes' = [wishes EXCEPT ![p] = w]
    /\ UNCHANGED line

StandInLine(p, w) ==
    /\ line # <<>> \/ ~Compatible(w)
    /\ wishes' = [wishes EXCEPT ![p] = w]
    /\ line' = Append(line, p)
    /\ UNCHANGED inside

(* Let the first k in, all that the order of arrival allows. *)
LetIn(k) ==
    /\ inside' = {line[i] : i \in 1..k}
    /\ line' = SubSeq(line, k + 1, Len(line))
    /\ \/ k = 1 /\ wishes[line[1]] = "W"
       \/ /\ \A i \in 1..k : wishes[line[i]] = "R"
          /\ k < Len(line) => wishes[line[k + 1]] = "W"

Leave(p) ==
    /\ p \in inside
    /\ UNCHANGED wishes
    /\ IF inside = {p}
       THEN \E k \in 0..Len(line) : (line # <<>> => k > 0) /\ LetIn(k)
       ELSE inside' = inside \ {p} /\ UNCHANGED line

AbsNext == \E p \in Proc :
    \/ \E w \in {"R", "W"} : Enter(p, w) \/ StandInLine(p, w)
    \/ Leave(p)

AbsSpec == AbsInit /\ [][AbsNext]_absVars
==============================================================================
