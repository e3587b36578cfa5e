-------------------------------- MODULE Memory --------------------------------
(***************************************************************************)
(* What the address spaces promise user programs.  A process has a segment *)
(* of memory, its own or shared with others by rfork; a store changes that *)
(* segment and no other; a fork that does not share gets a copy; memory    *)
(* starts with the contents of the program's file, or with zeros.          *)
(* UserMemory implements this.                                             *)
(***************************************************************************)
EXTENDS Naturals

CONSTANTS Proc,    \* processes
          Seg,     \* segments
          Off,     \* page offsets in a segment
          None     \* nobody, no segment

VARIABLES seg,     \* seg[p]: the segment of process p, or None
          mem,     \* mem[s][o]: what is there, or "gone"
          cur      \* who runs

absVars == <<seg, mem, cur>>

Nothing == [o \in Off |-> "gone"]
Unused(s) == \A p \in Proc : seg[p] # s

(* The memory when p goes from its segment to t, which then holds f.        *)
Becomes(p, t, f) ==
    /\ seg' = [seg EXCEPT ![p] = t]
    /\ mem' = [s \in Seg |-> IF s = t THEN f
                             ELSE IF \A q \in Proc \ {p} : seg[q] # s THEN Nothing
                             ELSE mem[s]]

(* The first process has a segment of zeros.                                *)
AbsInit == cur = None /\ \E p \in Proc, s \in Seg :
    /\ seg = [q \in Proc |-> IF q = p THEN s ELSE None]
    /\ mem = [t \in Seg |-> IF t = s THEN [o \in Off |-> "zero"] ELSE Nothing]

Exec(p) == \E s \in Seg, v \in {"file", "zero"} :
    Unused(s) /\ Becomes(p, s, [o \in Off |-> v])

Exit(p) == seg[p] # None /\ Becomes(p, None, Nothing)

Share(p, q) ==
    /\ seg[p] # None /\ seg[q] = None
    /\ seg' = [seg EXCEPT ![q] = seg[p]]
    /\ UNCHANGED mem

Copy(p, q) ==
    /\ seg[p] # None /\ seg[q] = None
    /\ \E s \in Seg : Unused(s) /\ Becomes(q, s, mem[seg[p]])

Store(p, o) ==
    /\ seg[p] # None /\ mem[seg[p]][o] # "gone"
    /\ mem' = [mem EXCEPT ![seg[p]][o] = "new"]
    /\ UNCHANGED seg

(* What is given up is gone, and is zero when it comes back.                *)
Resize(p, n) ==
    /\ seg[p] # None
    /\ mem' = [mem EXCEPT ![seg[p]] = [o \in Off |->
            IF o > n THEN "gone" ELSE IF @[o] = "gone" THEN "zero" ELSE @[o]]]
    /\ UNCHANGED seg

Program(p) ==
    \/ Exec(p) \/ Exit(p)
    \/ \E o \in Off : Store(p, o)
    \/ \E n \in Off \cup {0} : Resize(p, n)
    \/ \E q \in Proc : Share(p, q) \/ Copy(p, q)

Run == cur' \in Proc \cup {None} /\ UNCHANGED <<seg, mem>>

AbsNext == Run \/ \E p \in Proc : cur = p /\ Program(p) /\ UNCHANGED cur

AbsSpec == AbsInit /\ [][AbsNext]_absVars
==============================================================================
