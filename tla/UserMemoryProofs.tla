-------------------------- MODULE UserMemoryProofs ---------------------------
EXTENDS UserMemory, QueueLemmas, FiniteSetTheorems

(***************************************************************************)
(* Proofs about UserMemory.  That pages are counted and that a process     *)
(* keeps its space needs the inductive invariant IInv, of one state, in    *)
(* which everything is where the places of the processes say (PlaceInv,    *)
(* SpaceInv) and a page has one offset (OffsetInv).  What a program sees   *)
(* is right (Coherent), the image cache clean (CacheClean), and the whole  *)
(* an implementation of Memory, as long as no fork races a store (NoRace): *)
(* the run memory_race shows that it is wrong otherwise.                   *)
(***************************************************************************)


(* What a list of a finite set is: the list of spaces has each space        *)
(* once, and its last is one of them.                                       *)
LEMMA Permuted ==
    ASSUME NEW S, IsFiniteSet(S), S # {}, NEW s \in SetToSeqs(S)
    PROVE  /\ s \in Seq(S) /\ Len(s) = Cardinality(S) /\ IsInjective(s)
           /\ \A x \in S : Contains(s, x)
           /\ Last(s) \in S
<1> DEFINE n == Cardinality(S)
<1>1. n \in Nat /\ n # 0
  BY FS_CardinalityType, FS_EmptySet
<1>2. s \in [1..n -> S] /\ \A i, j \in 1..n : i # j => s[i] # s[j]
  BY DEF SetToSeqs
<1>3. s \in Seq(S) /\ Len(s) = n /\ DOMAIN s = 1..n
  BY <1>1, <1>2
<1>4. IsInjective(s)
  BY <1>2, <1>3 DEF IsInjective
<1>5. s \in Injection(1..n, S)
  BY <1>2 DEF Injection, IsInjective
<1>6. IsFiniteSet(1..n) /\ Cardinality(1..n) = n
  <2>1. IsFiniteSet(1..n) /\ Cardinality(1..n) = IF 1 > n THEN 0 ELSE n - 1 + 1
    BY <1>1, FS_Interval
  <2> QED  BY <1>1, <2>1
<1>7. s \in Surjection(1..n, S)
  BY <1>5, <1>6, FS_Injection
<1>8. \A x \in S : \E i \in 1..n : s[i] = x
  BY <1>7 DEF Surjection
<1>9. Last(s) \in S
  BY <1>1, <1>2, <1>3 DEF Last
<1> QED  BY <1>3, <1>4, <1>8, <1>9 DEF Contains

(* usespace and putspace move a space to the front or the back: the list    *)
(* stays a list of all of them.                                             *)
LEMMA MovedToEnds ==
    ASSUME NEW S, IsFiniteSet(S), S # {}, NEW s \in SetToSeqs(S), NEW u \in S
    PROVE  /\ <<u>> \o RemoveFirst(s, u) \in SetToSeqs(S)
           /\ Append(RemoveFirst(s, u), u) \in SetToSeqs(S)
<1> DEFINE n == Cardinality(S)
           r == RemoveFirst(s, u)
<1>1. n \in Nat /\ n # 0
  BY FS_CardinalityType, FS_EmptySet
<1>2. /\ r \in Seq(S) /\ IsInjective(r) /\ ~Contains(r, u)
      /\ Len(r) = n - 1
  <2>1. s \in Seq(S) /\ Len(s) = n /\ IsInjective(s) /\ Contains(s, u)
    BY Permuted
  <2> QED  BY <2>1, RemoveOne
<1> HIDE DEF r, n
<1>3. /\ \A i \in 1..(n - 1) : r[i] \in S /\ r[i] # u
      /\ \A i, j \in 1..(n - 1) : i # j => r[i] # r[j]
  BY <1>1, <1>2 DEF Contains, IsInjective
<1>4. <<u>> \o r \in SetToSeqs(S)
  <2> DEFINE t == <<u>> \o r
  <2>1. /\ t \in Seq(S) /\ Len(t) = n /\ t[1] = u
        /\ \A i \in 2..n : t[i] = r[i - 1]
    BY <1>1, <1>2
  <2> HIDE DEF t
  <2>2. t \in [1..n -> S]
    BY <1>1, <2>1
  <2>3. ASSUME NEW i \in 1..n, NEW j \in 1..n, i # j PROVE t[i] # t[j]
    <3>1. \A k \in 1..n : k = 1 \/ (k \in 2..n /\ k - 1 \in 1..(n - 1))
      BY <1>1
    <3> QED  BY <1>1, <1>3, <2>1, <2>3, <3>1
  <2> QED  BY <2>2, <2>3 DEF SetToSeqs, n, t
<1>5. Append(r, u) \in SetToSeqs(S)
  <2> DEFINE t == Append(r, u)
  <2>1. /\ t \in Seq(S) /\ Len(t) = n /\ t[n] = u
        /\ \A i \in 1..(n - 1) : t[i] = r[i]
    BY <1>1, <1>2
  <2> HIDE DEF t
  <2>2. t \in [1..n -> S]
    BY <1>1, <2>1
  <2>3. ASSUME NEW i \in 1..n, NEW j \in 1..n, i # j PROVE t[i] # t[j]
    <3>1. \A k \in 1..n : k = n \/ k \in 1..(n - 1)
      BY <1>1
    <3> QED  BY <1>1, <1>3, <2>1, <2>3, <3>1
  <2> QED  BY <2>2, <2>3 DEF SetToSeqs, n, t
<1> QED  BY <1>4, <1>5 DEF r

----------------------------------------------------------------------------
(* The page tables of all segments; the slots where page g is, and the      *)
(* processes that have it as their new page.                                *)
Ptes == [Seg -> [Off -> Page \cup {None}]]
SlotsIn(f, g) == {x \in Seg \X Off : f[x[1]][x[2]] = g}
OwnersIn(w, g) == {p \in Proc : w[p] = g}

(* What the steps do to the tables and to the new pages: page h goes into   *)
(* a slot, is given to p, a table is cut at n, or copied.                   *)
Put(f, s, o, h) == [f EXCEPT ![s][o] = h]
Give(w, p, h) == [w EXCEPT ![p] = h]
CutAt(f, s, n) == [f EXCEPT ![s] = [o \in Off |-> IF o > n THEN None ELSE @[o]]]
CopyTo(f, s, t) == [f EXCEPT ![t] = f[s]]

(* A page is in finitely many slots.                                        *)
LEMMA FiniteSlots ==
    ASSUME NEW f, NEW g
    PROVE  IsFiniteSet(SlotsIn(f, g)) /\ Cardinality(SlotsIn(f, g)) \in Nat
<1>1. IsFiniteSet(Off)
  BY UserMemoryAssumption, FS_Interval DEF Off
<1>2. IsFiniteSet(Seg \X Off)
  BY <1>1, UserMemoryAssumption, FS_Product
<1>3. SlotsIn(f, g) \in SUBSET (Seg \X Off)
  BY DEF SlotsIn
<1> QED  BY <1>2, <1>3, FS_Subset, FS_CardinalityType

(* A page is in the hands of finitely many processes.                       *)
LEMMA FiniteOwners ==
    ASSUME NEW w, NEW g
    PROVE  IsFiniteSet(OwnersIn(w, g)) /\ Cardinality(OwnersIn(w, g)) \in Nat
<1>1. OwnersIn(w, g) \in SUBSET Proc
  BY DEF OwnersIn
<1> QED  BY <1>1, UserMemoryAssumption, FS_Subset, FS_CardinalityType

(* A slot that gets h: one slot more for h, one less for the page that      *)
(* was there, and no other page is counted differently.                     *)
LEMMA SlotsPut ==
    ASSUME NEW f \in Ptes, NEW s \in Seg, NEW o \in Off, NEW h \in Page \cup {None},
           h # f[s][o], NEW g
    PROVE  /\ Put(f, s, o, h) \in Ptes
           /\ Cardinality(SlotsIn(Put(f, s, o, h), g)) =
                IF g = h THEN Cardinality(SlotsIn(f, g)) + 1
                ELSE IF g = f[s][o] THEN Cardinality(SlotsIn(f, g)) - 1
                ELSE Cardinality(SlotsIn(f, g))
<1> DEFINE x == <<s, o>>
           e == Put(f, s, o, h)
<1>1. e \in Ptes
  BY DEF Ptes, Put
<1>2. \A t \in Seg, n \in Off : e[t][n] = IF t = s /\ n = o THEN h ELSE f[t][n]
  BY DEF Ptes, Put
<1> HIDE DEF e
<1>3. \A y \in Seg \X Off : e[y[1]][y[2]] = IF y = x THEN h ELSE f[y[1]][y[2]]
  BY <1>2
<1>4. x \in Seg \X Off /\ f[x[1]][x[2]] = f[s][o]
  OBVIOUS
<1>5. CASE g = h
  <2>1. SlotsIn(e, g) = SlotsIn(f, g) \cup {x} /\ x \notin SlotsIn(f, g)
    BY <1>3, <1>4, <1>5 DEF SlotsIn
  <2> QED  BY <1>1, <1>5, <2>1, FiniteSlots, FS_AddElement DEF e
<1>6. CASE g # h /\ g = f[s][o]
  <2>1. SlotsIn(e, g) = SlotsIn(f, g) \ {x} /\ x \in SlotsIn(f, g)
    BY <1>3, <1>4, <1>6 DEF SlotsIn
  <2>2. Cardinality(SlotsIn(f, g) \ {x}) = Cardinality(SlotsIn(f, g)) - 1
    BY <2>1, FiniteSlots, FS_RemoveElement
  <2>3. Cardinality(SlotsIn(e, g)) = Cardinality(SlotsIn(f, g)) - 1
    BY <2>1, <2>2
  <2> QED  BY <1>1, <1>6, <2>3 DEF e
<1>7. CASE g # h /\ g # f[s][o]
  <2>1. SlotsIn(e, g) = SlotsIn(f, g)
    BY <1>3, <1>4, <1>7 DEF SlotsIn
  <2> QED  BY <1>1, <1>7, <2>1 DEF e
<1> QED  BY <1>5, <1>6, <1>7

(* The same for a process that takes a new page or gives it up.             *)
LEMMA OwnersPut ==
    ASSUME NEW w \in [Proc -> Page \cup {None}], NEW p \in Proc,
           NEW h \in Page \cup {None}, h # w[p], NEW g
    PROVE  Cardinality(OwnersIn(Give(w, p, h), g)) =
                IF g = h THEN Cardinality(OwnersIn(w, g)) + 1
                ELSE IF g = w[p] THEN Cardinality(OwnersIn(w, g)) - 1
                ELSE Cardinality(OwnersIn(w, g))
<1> DEFINE e == Give(w, p, h)
<1>0. \A q \in Proc : e[q] = IF q = p THEN h ELSE w[q]
  BY DEF Give
<1> HIDE DEF e
<1>1. CASE g = h
  <2>1. OwnersIn(e, g) = OwnersIn(w, g) \cup {p} /\ p \notin OwnersIn(w, g)
    BY <1>0, <1>1 DEF OwnersIn
  <2> QED  BY <1>1, <2>1, FiniteOwners, FS_AddElement DEF e
<1>2. CASE g # h /\ g = w[p]
  <2>1. OwnersIn(e, g) = OwnersIn(w, g) \ {p} /\ p \in OwnersIn(w, g)
    BY <1>0, <1>2 DEF OwnersIn
  <2> QED  BY <1>2, <2>1, FiniteOwners, FS_RemoveElement DEF e
<1>3. CASE g # h /\ g # w[p]
  <2>1. OwnersIn(e, g) = OwnersIn(w, g)
    BY <1>0, <1>3 DEF OwnersIn
  <2> QED  BY <1>3, <2>1 DEF e
<1> QED  BY <1>1, <1>2, <1>3

(* The pages a segment has from offset n on; none of them twice. *)
Beyond(m, n) == {m[o] : o \in (n + 1)..NPages} \ {None}

(* A table that is cut at n loses one slot for each page beyond n, since    *)
(* a page is in one slot of a segment at most.                              *)
LEMMA SlotsCut ==
    ASSUME NEW f \in Ptes, NEW s \in Seg, NEW n \in 0..NPages,
           \A o, k \in Off : f[s][o] # None /\ f[s][o] = f[s][k] => o = k,
           NEW g \in Page
    PROVE  /\ CutAt(f, s, n) \in Ptes
           /\ Cardinality(SlotsIn(CutAt(f, s, n), g)) =
                IF g \in Beyond(f[s], n) THEN Cardinality(SlotsIn(f, g)) - 1
                ELSE Cardinality(SlotsIn(f, g))
<1> DEFINE m == [o \in Off |-> IF o > n THEN None ELSE f[s][o]]
           e == CutAt(f, s, n)
<1>1. m \in [Off -> Page \cup {None}] /\ e = [f EXCEPT ![s] = m]
  BY DEF Ptes, CutAt
<1>2. e \in Ptes
  BY <1>1 DEF Ptes
<1>3. \A t \in Seg, o \in Off : e[t][o] = IF t = s /\ o > n THEN None ELSE f[t][o]
  BY DEF Ptes, CutAt
<1> HIDE DEF e
<1>4. \A y \in Seg \X Off :
         e[y[1]][y[2]] = IF y[1] = s /\ y[2] > n THEN None ELSE f[y[1]][y[2]]
  BY <1>3
<1>5. g # None /\ NPages \in Nat /\ Off = 1..NPages
  BY UserMemoryAssumption DEF Off
<1>6. \A o : o \in (n + 1)..NPages <=> o \in Off /\ o > n
  BY <1>5
<1>7. CASE g \in Beyond(f[s], n)
  <2>1. PICK o \in Off : o > n /\ f[s][o] = g
    BY <1>5, <1>6, <1>7 DEF Beyond
  <2>2. SlotsIn(e, g) = SlotsIn(f, g) \ {<<s, o>>} /\ <<s, o>> \in SlotsIn(f, g)
    BY <1>4, <1>5, <2>1 DEF SlotsIn
  <2>3. Cardinality(SlotsIn(f, g) \ {<<s, o>>}) = Cardinality(SlotsIn(f, g)) - 1
    BY <2>2, FiniteSlots, FS_RemoveElement
  <2>4. Cardinality(SlotsIn(e, g)) = Cardinality(SlotsIn(f, g)) - 1
    BY <2>2, <2>3
  <2> QED  BY <1>2, <1>7, <2>4 DEF e
<1>8. CASE g \notin Beyond(f[s], n)
  <2>1. \A o \in Off : o > n => f[s][o] # g
    BY <1>5, <1>6, <1>8 DEF Beyond
  <2>2. SlotsIn(e, g) = SlotsIn(f, g)
    BY <1>4, <1>5, <2>1 DEF SlotsIn
  <2> QED  BY <1>2, <1>8, <2>2 DEF e
<1> QED  BY <1>7, <1>8

(* A table that is copied into an empty one counts once more for each       *)
(* page in it (dupseg).                                                     *)
LEMMA SlotsCopy ==
    ASSUME NEW f \in Ptes, NEW s \in Seg, NEW t \in Seg, f[t] = Empty,
           \A o, k \in Off : f[s][o] # None /\ f[s][o] = f[s][k] => o = k,
           NEW g \in Page
    PROVE  /\ CopyTo(f, s, t) \in Ptes
           /\ Cardinality(SlotsIn(CopyTo(f, s, t), g)) =
                IF \E o \in Off : f[s][o] = g THEN Cardinality(SlotsIn(f, g)) + 1
                ELSE Cardinality(SlotsIn(f, g))
<1> DEFINE e == CopyTo(f, s, t)
<1>1. e \in Ptes
  BY DEF Ptes, CopyTo
<1>2. \A r \in Seg, o \in Off : e[r][o] = IF r = t THEN f[s][o] ELSE f[r][o]
  BY DEF Ptes, CopyTo
<1> HIDE DEF e
<1>3. \A y \in Seg \X Off : e[y[1]][y[2]] = IF y[1] = t THEN f[s][y[2]] ELSE f[y[1]][y[2]]
  BY <1>2
<1>4. g # None /\ \A o \in Off : f[t][o] = None
  BY UserMemoryAssumption DEF Empty
<1>5. CASE \E o \in Off : f[s][o] = g
  <2>1. PICK o \in Off : f[s][o] = g
    BY <1>5
  <2>2. SlotsIn(e, g) = SlotsIn(f, g) \cup {<<t, o>>} /\ <<t, o>> \notin SlotsIn(f, g)
    BY <1>3, <1>4, <2>1 DEF SlotsIn
  <2> QED  BY <1>1, <1>5, <2>2, FiniteSlots, FS_AddElement DEF e
<1>6. CASE ~\E o \in Off : f[s][o] = g
  <2>1. SlotsIn(e, g) = SlotsIn(f, g)
    BY <1>3, <1>4, <1>6 DEF SlotsIn
  <2> QED  BY <1>1, <1>6, <2>1 DEF e
<1> QED  BY <1>5, <1>6

(* The users of a page: what ref is to be.                                  *)
Count(f, w, g) == Cardinality(SlotsIn(f, g)) + Cardinality(OwnersIn(w, g))

(* What the count of users says of them: a slot or a process that has the   *)
(* page is counted, and a count of one leaves no other slot.                *)
LEMMA Counting ==
    ASSUME NEW f \in Ptes, NEW w \in [Proc -> Page \cup {None}], NEW g \in Page
    PROVE  /\ Count(f, w, g) \in Nat
           /\ \A s \in Seg, o \in Off : f[s][o] = g =>
                /\ Count(f, w, g) >= 1
                /\ Count(f, w, g) = 1 => \A t \in Seg, k \in Off : f[t][k] = g => t = s /\ k = o
           /\ \A p \in Proc : w[p] = g => Count(f, w, g) >= 1
           /\ (\A s \in Seg, o \in Off : f[s][o] # g) =>
                Count(f, w, g) = Cardinality(OwnersIn(w, g))
           /\ (\A p \in Proc : w[p] # g) => Count(f, w, g) = Cardinality(SlotsIn(f, g))
           /\ \A p \in Proc : w[p] = g /\ (\A q \in Proc : w[q] = g => q = p)
                => Count(f, w, g) = Cardinality(SlotsIn(f, g)) + 1
<1>1. /\ IsFiniteSet(SlotsIn(f, g)) /\ Cardinality(SlotsIn(f, g)) \in Nat
      /\ IsFiniteSet(OwnersIn(w, g)) /\ Cardinality(OwnersIn(w, g)) \in Nat
  BY FiniteSlots, FiniteOwners
<1>2. ASSUME NEW s \in Seg, NEW o \in Off, f[s][o] = g
      PROVE  /\ Cardinality(SlotsIn(f, g)) >= 1
             /\ Cardinality(SlotsIn(f, g)) = 1 =>
                  \A t \in Seg, k \in Off : f[t][k] = g => t = s /\ k = o
  <2>1. <<s, o>> \in SlotsIn(f, g)
    BY <1>2 DEF SlotsIn
  <2>2. Cardinality(SlotsIn(f, g)) # 0
    BY <1>1, <2>1, FS_EmptySet
  <2>3. ASSUME Cardinality(SlotsIn(f, g)) = 1, NEW t \in Seg, NEW k \in Off, f[t][k] = g
        PROVE  t = s /\ k = o
    <3>1. PICK x : SlotsIn(f, g) = {x}
      BY <1>1, <2>3, FS_Singleton
    <3>2. <<t, k>> \in SlotsIn(f, g)
      BY <2>3 DEF SlotsIn
    <3> QED  BY <2>1, <3>1, <3>2
  <2> QED  BY <1>1, <2>2, <2>3
<1>3. ASSUME NEW p \in Proc, w[p] = g
      PROVE  Cardinality(OwnersIn(w, g)) >= 1
  <2>1. p \in OwnersIn(w, g)
    BY <1>3 DEF OwnersIn
  <2>2. Cardinality(OwnersIn(w, g)) # 0
    BY <1>1, <2>1, FS_EmptySet
  <2> QED  BY <1>1, <2>2
<1>4. ASSUME \A s \in Seg, o \in Off : f[s][o] # g
      PROVE  Cardinality(SlotsIn(f, g)) = 0
  <2>1. SlotsIn(f, g) = {}
    BY <1>4 DEF SlotsIn
  <2> QED  BY <2>1, FS_EmptySet
<1>5. ASSUME \A p \in Proc : w[p] # g
      PROVE  Cardinality(OwnersIn(w, g)) = 0
  <2>1. OwnersIn(w, g) = {}
    BY <1>5 DEF OwnersIn
  <2> QED  BY <2>1, FS_EmptySet
<1>6. ASSUME NEW p \in Proc, w[p] = g, \A q \in Proc : w[q] = g => q = p
      PROVE  Cardinality(OwnersIn(w, g)) = 1
  <2>1. OwnersIn(w, g) = {p}
    BY <1>6 DEF OwnersIn
  <2> QED  BY <2>1, FS_Singleton
<1>7. \A s \in Seg, o \in Off : f[s][o] = g =>
        /\ Cardinality(SlotsIn(f, g)) >= 1
        /\ Cardinality(SlotsIn(f, g)) = 1 => 
             \A t \in Seg, k \in Off : f[t][k] = g => t = s /\ k = o
  BY <1>2
<1>8. \A p \in Proc : w[p] = g => Cardinality(OwnersIn(w, g)) >= 1
  BY <1>3
<1>9. \A p \in Proc : w[p] = g /\ (\A q \in Proc : w[q] = g => q = p)
                => Cardinality(OwnersIn(w, g)) = 1
  BY <1>6
<1> DEFINE a == Cardinality(SlotsIn(f, g))
           b == Cardinality(OwnersIn(w, g))
<1> HIDE DEF a, b
<1>10. a \in Nat /\ b \in Nat /\ Count(f, w, g) = a + b
  BY <1>1 DEF a, b, Count
<1> QED  BY <1>4, <1>5, <1>7, <1>8, <1>9, <1>10 DEF a, b

(* The first process has a segment without pages, and everything else is    *)
(* empty.                                                                   *)
LEMMA InitIInv == Init => IInv
<1> SUFFICES ASSUME Init PROVE IInv
  OBVIOUS
<1>1. TypeOK
  <2>1. /\ seg \in [Proc -> Seg \cup {None}]
        /\ size \in [Seg -> 0..NPages]
        /\ pc \in [Proc -> {"none", "user"}]
    BY UserMemoryAssumption DEF Init
  <2>2. pc \in [Proc -> {"none", "user", "bare", "fault", "alloc", "io", "common", "dup"}]
    BY <2>1
  <2>3. pte \in [Seg -> [Off -> Page \cup {None}]] /\ ulist \in SetToSeqs(Space)
    BY DEF Init, Empty
  <2>4. map \in [Space -> [Off -> [page: Page, write: BOOLEAN] \cup {None}]]
    BY DEF Init, Empty
  <2> QED  BY <2>1, <2>2, <2>3, <2>4 DEF Init, TypeOK
<1>2. PlaceInv /\ SpaceInv /\ OffsetInv
  BY <1>1, UserMemoryAssumption
     DEF Init, TypeOK, PlaceInv, SpaceInv, OffsetInv, Empty, Users
<1>3. ASSUME NEW g \in Page
      PROVE  ref[g] = Cardinality(SlotsOf(g)) + Cardinality(Owners(g))
  <2>1. SlotsOf(g) = {} /\ Owners(g) = {}
    BY <1>3, UserMemoryAssumption DEF Init, SlotsOf, Owners, Empty
  <2> QED  BY <2>1, FS_EmptySet DEF Init
<1> QED  BY <1>1, <1>2, <1>3 DEF IInv, PagesCounted

----------------------------------------------------------------------------
(* Where a process has the lock of its segment.                             *)
Holds(place) == place \in {"common", "dup"}

(* What the steps of a fault have in common, of the process that runs: it   *)
(* goes to another place in the fault, its lock is taken or let go as       *)
(* that place says, and slots change in its own segment only.               *)
FaultStep(p, to) ==
    /\ cur = p /\ cur' = p /\ UNCHANGED <<segs, spaces>>
    /\ pc[p] \notin {"none", "bare"} /\ to \in {"user", "fault", "alloc", "io", "common", "dup"}
    /\ pc'[p] = to
    /\ \A q \in Proc \ {p} : pc'[q] = pc[q] /\ acc'[q] = acc[q] /\ own'[q] = own[q]
    /\ acc'[p] = None <=> to = "user"
    /\ own'[p] = None <=> to # "io"
    /\ to \in {"alloc", "io"} => kind[seg[p]] = "data"
    /\ \A s \in Seg : slk'[s] = IF s # seg[p] THEN slk[s] ELSE IF Holds(to) THEN p
                                ELSE IF Holds(pc[p]) THEN None ELSE slk[s]
    /\ Holds(to) => slk[seg[p]] \in {None, p} /\ At(p)' # None
    /\ \A s \in Seg, o \in Off : pte'[s][o] # pte[s][o] =>
         /\ s = seg[p] /\ o <= size[s]
         /\ Holds(pc[p]) \/ slk[s] = None
         /\ pte'[s][o] # None
    /\ \A u \in Space : owner[u] = None => map'[u] = map[u]

(* Such steps keep processes, segments and spaces in their places.          *)
LEMMA FaultKeeps ==
    ASSUME IInv, TypeOK', NEW p \in Proc, NEW to, FaultStep(p, to)
    PROVE  PlaceInv' /\ SpaceInv'
<1> USE DEF FaultStep
<1> USE UserMemoryAssumption
<1> DEFINE s == seg[p]
<1>1. /\ seg \in [Proc -> Seg \cup {None}] /\ slk \in [Seg -> Proc \cup {None}]
      /\ pc \in [Proc -> {"none", "user", "bare", "fault", "alloc", "io", "common", "dup"}]
      /\ seg' = seg /\ kind' = kind /\ size' = size
  BY DEF IInv, PagesCounted, TypeOK, segs
<1>2. s \in Seg
  BY <1>1 DEF IInv, PlaceInv
<1>3. /\ \A q \in Proc : pc'[q] = IF q = p THEN to ELSE pc[q]
      /\ \A t \in Seg : slk'[t] = IF t # s THEN slk[t] ELSE IF Holds(to) THEN p
                                  ELSE IF Holds(pc[p]) THEN None ELSE slk[s]
  BY <1>1, <1>2
<1>4. \A q \in Proc :
         /\ seg'[q] = None <=> pc'[q] \in {"none", "bare"}
         /\ acc'[q] = None <=> pc'[q] \in {"none", "user", "bare"}
         /\ own'[q] = None <=> pc'[q] # "io"
         /\ pc'[q] = "common" => cur' = q
         /\ pc'[q] \in {"alloc", "io"} => kind'[seg'[q]] = "data"
  BY <1>1, <1>3 DEF IInv, PlaceInv
<1>5. ASSUME NEW q \in Proc, Holds(pc'[q])
      PROVE  slk'[seg'[q]] = q /\ At(q)' # None
  <2>1. CASE q = p
    BY <1>1, <1>2, <1>3, <1>5, <2>1
  <2>2. CASE q # p
    <3>1. Holds(pc[q]) /\ slk[seg[q]] = q /\ At(q) # None /\ acc'[q] = acc[q]
      BY <1>3, <1>5, <2>2 DEF IInv, PlaceInv, Holds
    <3>2. seg[q] \in Seg /\ acc[q].off \in Off
      <4>1. seg[q] # None /\ acc[q] # None
        BY <3>1 DEF IInv, PlaceInv, Holds
      <4> QED  BY <1>1, <4>1 DEF IInv, PagesCounted, TypeOK
    <3>3. seg[q] = s => ~Holds(pc[p]) /\ ~Holds(to) /\ slk[s] # None
      BY <2>2, <3>1 DEF IInv, PlaceInv, Holds
    <3>4. At(q)' = At(q)
      <4>1. At(q)' = pte'[seg[q]][acc[q].off]
        BY <1>1, <3>1 DEF At
      <4>2. pte'[seg[q]][acc[q].off] = pte[seg[q]][acc[q].off]
        BY <3>2, <3>3
      <4> QED  BY <4>1, <4>2 DEF At
    <3> QED  BY <1>1, <1>3, <3>1, <3>2, <3>3, <3>4
  <2> QED  BY <2>1, <2>2
<1>6. ASSUME NEW t \in Seg PROVE slk'[t] # None => seg'[slk'[t]] = t /\ Holds(pc'[slk'[t]])
  BY <1>1, <1>2, <1>3 DEF IInv, PlaceInv, Holds
<1>7. ASSUME NEW t \in Seg, NEW o \in Off, o > size'[t] PROVE pte'[t][o] = None
  <2>1. o \in Nat /\ size[t] \in Nat /\ ~(o <= size[t])
    BY <1>1, <1>7 DEF IInv, PagesCounted, TypeOK, Off
  <2>2. pte'[t][o] = pte[t][o]
    BY <2>1
  <2> QED  BY <1>1, <1>7, <2>2 DEF IInv, PlaceInv
<1>8. ASSUME NEW t \in Seg, Users(t)' = {} PROVE pte'[t] = Empty
  <2>1. Users(t) = {} /\ t # s
    BY <1>1, <1>8 DEF Users
  <2>2. pte[t] = [o \in Off |-> None] /\ \A o \in Off : pte'[t][o] = pte[t][o]
    BY <2>1 DEF IInv, PlaceInv, Empty
  <2>3. pte'[t] \in [Off -> Page \cup {None}] /\ \A o \in Off : pte'[t][o] = None
    BY <2>2 DEF TypeOK
  <2> QED  BY <2>3 DEF Empty
<1>9. PlaceInv'
  BY <1>4, <1>5, <1>6, <1>7, <1>8 DEF PlaceInv, Holds
<1>10. SpaceInv'
  BY <1>1, <1>3 DEF IInv, SpaceInv, spaces
<1> QED  BY <1>9, <1>10

(* Steps that do not touch pages keep their counts and offsets.             *)
LEMMA SamePages ==
    ASSUME IInv, TypeOK', UNCHANGED <<pte, ref, cached, own>>
    PROVE  PagesCounted' /\ OffsetInv'
  BY DEF IInv, PagesCounted, OffsetInv, SlotsOf, Owners

(* What is known of the process that runs: its segment, its space, the      *)
(* page it wants, and its lock.                                             *)
LEMMA InFault ==
    ASSUME IInv, NEW p \in Proc, cur = p, pc[p] \notin {"none", "bare"}
    PROVE  /\ seg[p] \in Seg /\ us[p] \in Space /\ owner[us[p]] = p
           /\ pc[p] # "user" => acc[p] # None /\ acc[p].off \in Off /\ acc[p].write \in BOOLEAN
                                /\ At(p) \in Page \cup {None}
           /\ pc[p] # "io" => own[p] = None
           /\ pc[p] = "io" => own[p] \in Page
           /\ pc[p] \in {"alloc", "io"} => kind[seg[p]] = "data"
           /\ pc[p] \in {"common", "dup"} => slk[seg[p]] = p /\ At(p) # None
<1>1. seg[p] \in Seg /\ us[p] \in Space /\ owner[us[p]] = p
  BY UserMemoryAssumption DEF IInv, PagesCounted, TypeOK, PlaceInv, SpaceInv
<1>2. ASSUME pc[p] # "user" PROVE acc[p] # None /\ acc[p] \in [off: Off, write: BOOLEAN]
  BY <1>2, UserMemoryAssumption DEF IInv, PagesCounted, TypeOK, PlaceInv
<1>3. ASSUME pc[p] # "user" PROVE At(p) \in Page \cup {None}
  BY <1>1, <1>2, <1>3 DEF IInv, PagesCounted, TypeOK, At
<1> QED  BY <1>1, <1>2, <1>3 DEF IInv, PlaceInv, PagesCounted, TypeOK

(* Steps of a fault that find nothing to do, or wait.                       *)
LEMMA LookKeeps ==
    ASSUME IInv, NEW p \in Proc,
           FaultCall(p) \/ NoSegment(p) \/ HasPage(p) \/ LoadWaits(p) \/ NoMemory(p)
              \/ OwnWaits(p)
    PROVE  IInv'
<1> USE UserMemoryAssumption
<1>1. cur = p /\ UNCHANGED <<segs, pte, pages, spaces, map, flushes, cur, own>>
  BY DEF FaultCall, NoSegment, HasPage, LoadWaits, NoMemory, OwnWaits, Goto, Lock
<1>2. CASE FaultCall(p)
  <2>1. TypeOK'
    BY <1>2 DEF IInv, PagesCounted, TypeOK, PlaceInv, FaultCall, Goto, At, segs, pages, spaces, flushes
  <2>2. FaultStep(p, "fault")
    <3>1. pc[p] \notin {"none", "bare"}
      BY <1>2 DEF FaultCall, Goto
    <3>2. acc'[p] # None
      <4>1. PICK o \in Off, w \in BOOLEAN : acc' = [acc EXCEPT ![p] = [off |-> o, write |-> w]]
        BY <1>2 DEF FaultCall
      <4>2. acc'[p] = [off |-> o, write |-> w] /\ o \in Nat
        BY <4>1 DEF IInv, PagesCounted, TypeOK, Off
      <4> QED  BY <4>2
    <3> QED
      BY <1>1, <1>2, <3>1, <3>2, InFault DEF IInv, PagesCounted, TypeOK, FaultStep, FaultCall, Goto, Holds, At, segs
  <2> QED  BY <1>1, <2>1, <2>2, FaultKeeps, SamePages DEF IInv, pages
<1>3. CASE NoSegment(p)
  <2>1. TypeOK'
    BY <1>3 DEF IInv, PagesCounted, TypeOK, PlaceInv, NoSegment, Goto, At, segs, pages, spaces, flushes
  <2>2. FaultStep(p, "user")
    <3>1. pc[p] \notin {"none", "bare"}
      BY <1>3 DEF NoSegment, Goto
    <3> QED
      BY <1>1, <1>3, <3>1, InFault DEF IInv, PagesCounted, TypeOK, FaultStep, NoSegment, Goto, Holds, At, segs
  <2> QED  BY <1>1, <2>1, <2>2, FaultKeeps, SamePages DEF IInv, pages
<1>4. CASE HasPage(p)
  <2>1. TypeOK'
    BY <1>4 DEF IInv, PagesCounted, TypeOK, PlaceInv, HasPage, Lock, Goto, At, segs, pages, spaces, flushes
  <2>2. FaultStep(p, "common")
    <3>1. pc[p] \notin {"none", "bare"}
      BY <1>4 DEF HasPage, Lock, Goto
    <3> QED
      BY <1>1, <1>4, <3>1, InFault DEF IInv, PagesCounted, TypeOK, FaultStep, HasPage, Lock, Goto, Holds, At, segs
  <2> QED  BY <1>1, <2>1, <2>2, FaultKeeps, SamePages DEF IInv, pages
<1>5. CASE LoadWaits(p)
  <2>1. TypeOK'
    BY <1>5 DEF IInv, PagesCounted, TypeOK, PlaceInv, LoadWaits, Lock, Goto, At, segs, pages, spaces, flushes
  <2>2. FaultStep(p, "alloc")
    <3>1. pc[p] \notin {"none", "bare"}
      BY <1>5 DEF LoadWaits, Lock, Goto
    <3> QED
      BY <1>1, <1>5, <3>1, InFault DEF IInv, PagesCounted, TypeOK, FaultStep, LoadWaits, Lock, Goto, Holds, At, segs
  <2> QED  BY <1>1, <2>1, <2>2, FaultKeeps, SamePages DEF IInv, pages
<1>6. CASE NoMemory(p)
  <2>1. TypeOK'
    BY <1>6 DEF IInv, PagesCounted, TypeOK, PlaceInv, NoMemory, Goto, At, segs, pages, spaces, flushes
  <2>2. FaultStep(p, "fault")
    <3>1. pc[p] \notin {"none", "bare"}
      BY <1>6 DEF NoMemory, Goto
    <3> QED
      BY <1>1, <1>6, <3>1, InFault DEF IInv, PagesCounted, TypeOK, FaultStep, NoMemory, Goto, Holds, At, segs
  <2> QED  BY <1>1, <2>1, <2>2, FaultKeeps, SamePages DEF IInv, pages
<1>7. CASE OwnWaits(p)
  <2>1. TypeOK'
    BY <1>7 DEF IInv, PagesCounted, TypeOK, PlaceInv, OwnWaits, Alone, Common, Goto, At, segs, pages, spaces, flushes
  <2>2. FaultStep(p, "dup")
    <3>1. pc[p] \notin {"none", "bare"}
      BY <1>7 DEF OwnWaits, Alone, Common, Goto
    <3> QED
      BY <1>1, <1>7, <3>1, InFault DEF IInv, PagesCounted, TypeOK, FaultStep, OwnWaits, Alone, Common, Goto, Holds, At, segs
  <2> QED  BY <1>1, <2>1, <2>2, FaultKeeps, SamePages DEF IInv, pages
<1> QED  BY <1>2, <1>3, <1>4, <1>5, <1>6, <1>7

(* What the counts say: a page in a slot is in use, one that is counted     *)
(* once is in no other slot, and a page on the free list is nowhere.        *)
LEMMA PageFacts ==
    ASSUME PagesCounted
    PROVE  /\ pte \in Ptes /\ own \in [Proc -> Page \cup {None}] /\ ref \in [Page -> Nat]
           /\ \A g \in Page : ref[g] = Count(pte, own, g)
           /\ \A g \in Page, s \in Seg, o \in Off : pte[s][o] = g =>
                /\ ref[g] >= 1
                /\ ref[g] = 1 => \A t \in Seg, k \in Off : pte[t][k] = g => t = s /\ k = o
           /\ \A g \in Page, p \in Proc : own[p] = g => ref[g] >= 1
           /\ \A g \in Free : /\ g \in Page /\ ref[g] = 0
                              /\ \A s \in Seg, o \in Off : pte[s][o] # g
                              /\ \A p \in Proc : own[p] # g
<1>1. pte \in Ptes /\ own \in [Proc -> Page \cup {None}] /\ ref \in [Page -> Nat]
  BY DEF PagesCounted, TypeOK, Ptes
<1>2. \A g \in Page : ref[g] = Count(pte, own, g)
  BY DEF PagesCounted, Count, SlotsOf, SlotsIn, Owners, OwnersIn
<1>3. ASSUME NEW g \in Page
      PROVE  /\ \A s \in Seg, o \in Off : pte[s][o] = g =>
                /\ ref[g] >= 1
                /\ ref[g] = 1 => \A t \in Seg, k \in Off : pte[t][k] = g => t = s /\ k = o
             /\ \A p \in Proc : own[p] = g => ref[g] >= 1
  BY <1>1, <1>2, Counting
<1>4. \A g \in Free : g \in Page /\ ref[g] = 0
  BY DEF Free
<1> QED  BY <1>1, <1>2, <1>3, <1>4

(* A step keeps PagesCounted if the new counts are those of the new         *)
(* users.                                                                   *)
LEMMA Recount ==
    ASSUME TypeOK', \A g \in Page : ref'[g] = Count(pte', own', g)
    PROVE  PagesCounted'
  BY DEF PagesCounted, Count, SlotsOf, SlotsIn, Owners, OwnersIn

(* A page is put into a slot, perhaps a process's new page, and the         *)
(* counts follow.                                                           *)
LEMMA PutPage ==
    ASSUME PagesCounted, TypeOK', NEW s \in Seg, NEW o \in Off, NEW h \in Page,
           h # pte[s][o], pte' = Put(pte, s, o, h),
           \A x \in Page :
             ref'[x] + Cardinality(OwnersIn(own, x)) =
                       Cardinality(OwnersIn(own', x)) +
                       IF x = h THEN ref[x] + 1
                       ELSE IF x = pte[s][o] THEN ref[x] - 1 ELSE ref[x]
    PROVE  PagesCounted'
<1>1. ASSUME NEW x \in Page PROVE ref'[x] = Count(pte', own', x)
  <2>1. pte \in Ptes /\ h \in Page \cup {None}
    BY PageFacts
  <2>2. Cardinality(SlotsIn(pte', x)) =
          IF x = h THEN Cardinality(SlotsIn(pte, x)) + 1
          ELSE IF x = pte[s][o] THEN Cardinality(SlotsIn(pte, x)) - 1
          ELSE Cardinality(SlotsIn(pte, x))
    BY <2>1, SlotsPut
  <2>3. /\ Cardinality(SlotsIn(pte, x)) \in Nat /\ Cardinality(OwnersIn(own, x)) \in Nat
        /\ Cardinality(OwnersIn(own', x)) \in Nat
    BY FiniteSlots, FiniteOwners
  <2>4. ref[x] = Cardinality(SlotsIn(pte, x)) + Cardinality(OwnersIn(own, x))
    BY PageFacts DEF Count
  <2>5. ref'[x] \in Nat
    BY DEF TypeOK
  <2> QED  BY <2>2, <2>3, <2>4, <2>5 DEF Count
<1> QED  BY <1>1, Recount

(* A page of zeros for bss.                                                 *)
LEMMA ZeroFillKeeps ==
    ASSUME IInv, NEW p \in Proc, ZeroFill(p)
    PROVE  IInv'
<1> USE UserMemoryAssumption
<1> DEFINE s == seg[p]
           o == acc[p].off
<1>1. cur = p /\ pc[p] = "fault" /\ slk[s] = None /\ o <= size[s] /\ pte[s][o] = None
  BY DEF ZeroFill, Lock, Goto, At
<1>2. /\ s \in Seg /\ o \in Off /\ own[p] = None /\ acc[p] # None
      /\ pte \in Ptes /\ own \in [Proc -> Page \cup {None}] /\ ref \in [Page -> Nat]
  BY <1>1, InFault, PageFacts DEF IInv
<1>3. PICK g \in Free :
        /\ ref' = [ref EXCEPT ![g] = 1] /\ cached' = [cached EXCEPT ![g] = None]
        /\ content' = [content EXCEPT ![g] = "zero"]
        /\ pte' = [pte EXCEPT ![s][o] = g] /\ slk' = [slk EXCEPT ![s] = p]
  BY DEF ZeroFill, Install
<1>4. /\ g \in Page /\ ref[g] = 0 /\ g # None
      /\ \A t \in Seg, k \in Off : pte[t][k] # g
      /\ \A q \in Proc : own[q] # g
  BY <1>3, PageFacts DEF IInv
<1>5. UNCHANGED <<segs, spaces, map, flushes, cur, acc, own>> /\ pc' = [pc EXCEPT ![p] = "common"]
  BY DEF ZeroFill, Lock, Goto
<1>6. \A t \in Seg, k \in Off : pte'[t][k] = IF t = s /\ k = o THEN g ELSE pte[t][k]
  BY <1>2, <1>3 DEF Ptes
<1>7. TypeOK'
  BY <1>2, <1>3, <1>4, <1>5 DEF IInv, PagesCounted, TypeOK, segs, spaces, flushes
<1>8. FaultStep(p, "common")
  <2>1. At(p)' # None
    BY <1>2, <1>4, <1>5, <1>6 DEF At, segs
  <2> QED
    BY <1>1, <1>2, <1>3, <1>4, <1>5, <1>6, <2>1
       DEF IInv, PagesCounted, TypeOK, FaultStep, Holds
<1>9. PagesCounted'
  <2>1. \A x \in Page : ref'[x] = IF x = g THEN ref[x] + 1 ELSE ref[x]
    BY <1>2, <1>3, <1>4
  <2>2. \A x \in Page : x # pte[s][o] /\ Cardinality(OwnersIn(own, x)) \in Nat
    BY <1>1, FiniteOwners
  <2>3. pte' = Put(pte, s, o, g)
    BY <1>3 DEF Put
  <2> HIDE DEF s, o
  <2> QED  BY <1>2, <1>4, <1>5, <1>7, <2>1, <2>2, <2>3, PutPage DEF IInv
<1>10. OffsetInv'
  BY <1>2, <1>3, <1>4, <1>5, <1>6 DEF IInv, OffsetInv, PagesCounted, TypeOK
<1> QED  BY <1>7, <1>8, <1>9, <1>10, FaultKeeps DEF IInv

(* A process takes a new page, or gives it up, and the counts follow.       *)
LEMMA GivePage ==
    ASSUME PagesCounted, TypeOK', NEW p \in Proc, NEW h \in Page \cup {None},
           h # own[p], own' = Give(own, p, h), pte' = pte,
           \A x \in Page : ref'[x] = IF x = h THEN ref[x] + 1
                                    ELSE IF x = own[p] THEN ref[x] - 1 ELSE ref[x]
    PROVE  PagesCounted'
<1>1. ASSUME NEW x \in Page PROVE ref'[x] = Count(pte', own', x)
  <2>1. own \in [Proc -> Page \cup {None}]
    BY PageFacts
  <2>2. Cardinality(OwnersIn(own', x)) =
          IF x = h THEN Cardinality(OwnersIn(own, x)) + 1
          ELSE IF x = own[p] THEN Cardinality(OwnersIn(own, x)) - 1
          ELSE Cardinality(OwnersIn(own, x))
    BY <2>1, OwnersPut
  <2>3. /\ Cardinality(SlotsIn(pte, x)) \in Nat /\ Cardinality(OwnersIn(own, x)) \in Nat
        /\ Cardinality(OwnersIn(own', x)) \in Nat
    BY FiniteSlots, FiniteOwners
  <2>4. ref[x] = Cardinality(SlotsIn(pte, x)) + Cardinality(OwnersIn(own, x))
    BY PageFacts DEF Count
  <2>5. ref'[x] \in Nat
    BY DEF TypeOK
  <2> QED  BY <2>2, <2>3, <2>4, <2>5 DEF Count
<1> QED  BY <1>1, Recount

(* The page is found in the image cache.                                    *)
LEMMA LookPageKeeps ==
    ASSUME IInv, NEW p \in Proc, LookPage(p)
    PROVE  IInv'
<1> USE UserMemoryAssumption
<1> DEFINE s == seg[p]
           o == acc[p].off
<1>1. cur = p /\ pc[p] = "fault" /\ slk[s] = None /\ o <= size[s] /\ pte[s][o] = None
  BY DEF LookPage, Lock, Goto, At
<1>2. /\ s \in Seg /\ o \in Off /\ own[p] = None /\ acc[p] # None
      /\ pte \in Ptes /\ own \in [Proc -> Page \cup {None}] /\ ref \in [Page -> Nat]
  BY <1>1, InFault, PageFacts DEF IInv
<1>3. PICK g \in Page :
        /\ cached[g] = o /\ ref' = [ref EXCEPT ![g] = @ + 1]
        /\ pte' = [pte EXCEPT ![s][o] = g] /\ slk' = [slk EXCEPT ![s] = p]
  BY DEF LookPage, Install, Found
<1>4. g # None /\ o # None
  BY <1>2 DEF Off
<1>5. /\ UNCHANGED <<segs, cached, content, spaces, map, flushes, cur, acc, own>>
      /\ pc' = [pc EXCEPT ![p] = "common"]
  BY DEF LookPage, Lock, Goto
<1>6. \A t \in Seg, k \in Off : pte'[t][k] = IF t = s /\ k = o THEN g ELSE pte[t][k]
  BY <1>2, <1>3 DEF Ptes
<1>7. TypeOK'
  BY <1>2, <1>3, <1>4, <1>5 DEF IInv, PagesCounted, TypeOK, segs, spaces, flushes
<1>8. FaultStep(p, "common")
  <2>1. At(p)' # None
    BY <1>2, <1>4, <1>5, <1>6 DEF At, segs
  <2> QED
    BY <1>1, <1>2, <1>3, <1>4, <1>5, <1>6, <2>1
       DEF IInv, PagesCounted, TypeOK, FaultStep, Holds
<1>9. PagesCounted'
  <2>1. \A x \in Page : ref'[x] = IF x = g THEN ref[x] + 1 ELSE ref[x]
    BY <1>2, <1>3
  <2>2. \A x \in Page : x # pte[s][o] /\ Cardinality(OwnersIn(own, x)) \in Nat
    BY <1>1, FiniteOwners
  <2>3. pte' = Put(pte, s, o, g)
    BY <1>3 DEF Put
  <2> HIDE DEF s, o
  <2> QED  BY <1>2, <1>4, <1>5, <1>7, <2>1, <2>2, <2>3, PutPage DEF IInv
<1>10. OffsetInv'
  BY <1>2, <1>3, <1>4, <1>5, <1>6 DEF IInv, OffsetInv, PagesCounted, TypeOK
<1> QED  BY <1>7, <1>8, <1>9, <1>10, FaultKeeps DEF IInv

(* A new page to read the file into.                                        *)
LEMMA LoadKeeps ==
    ASSUME IInv, NEW p \in Proc, Load(p)
    PROVE  IInv'
<1> USE UserMemoryAssumption
<1>1. cur = p /\ pc[p] \in {"alloc", "fault"} /\ (pc[p] = "fault" => kind[seg[p]] = "data")
  BY DEF Load, Lock, Goto
<1>2. /\ seg[p] \in Seg /\ own[p] = None /\ acc[p] # None /\ kind[seg[p]] = "data"
      /\ pte \in Ptes /\ own \in [Proc -> Page \cup {None}] /\ ref \in [Page -> Nat]
  BY <1>1, InFault, PageFacts DEF IInv
<1>3. PICK g \in Free :
        /\ ref' = [ref EXCEPT ![g] = 1] /\ cached' = [cached EXCEPT ![g] = None]
        /\ own' = [own EXCEPT ![p] = g] /\ content' = [content EXCEPT ![g] = "file"]
  BY DEF Load
<1>4. /\ g \in Page /\ ref[g] = 0 /\ g # None
      /\ \A t \in Seg, k \in Off : pte[t][k] # g
      /\ \A q \in Proc : own[q] # g
  BY <1>3, PageFacts DEF IInv
<1>5. UNCHANGED <<segs, pte, slk, spaces, map, flushes, cur, acc>> /\ pc' = [pc EXCEPT ![p] = "io"]
  BY DEF Load, Lock, Goto
<1>6. TypeOK'
  BY <1>2, <1>3, <1>4, <1>5 DEF IInv, PagesCounted, TypeOK, segs, spaces, flushes
<1>7. FaultStep(p, "io")
  BY <1>1, <1>2, <1>3, <1>4, <1>5 DEF IInv, PagesCounted, TypeOK, FaultStep, Holds
<1>8. PagesCounted'
  <2>1. \A x \in Page : ref'[x] = IF x = g THEN ref[x] + 1 ELSE ref[x]
    BY <1>2, <1>3, <1>4
  <2>2. own' = Give(own, p, g)
    BY <1>3 DEF Give
  <2> QED  BY <1>2, <1>4, <1>5, <1>6, <2>1, <2>2, GivePage DEF IInv
<1>9. OffsetInv'
  BY <1>2, <1>3, <1>4, <1>5 DEF IInv, OffsetInv, PagesCounted, TypeOK
<1> QED  BY <1>6, <1>7, <1>8, <1>9, FaultKeeps DEF IInv

(* The read fails: the new page is given up.                                *)
LEMMA LoadFailsKeeps ==
    ASSUME IInv, NEW p \in Proc, LoadFails(p)
    PROVE  IInv'
<1> USE UserMemoryAssumption
<1> DEFINE g == own[p]
<1>1. cur = p /\ pc[p] = "io"
  BY DEF LoadFails, Goto
<1>2. /\ seg[p] \in Seg /\ g \in Page /\ g # None /\ acc[p] # None /\ ref[g] >= 1
      /\ pte \in Ptes /\ own \in [Proc -> Page \cup {None}] /\ ref \in [Page -> Nat]
  BY <1>1, InFault, PageFacts DEF IInv
<1>3. /\ \A x \in Page : ref'[x] = IF x = g THEN ref[x] - 1 ELSE ref[x]
      /\ ref' \in [Page -> Nat] /\ content' \in [Page -> {"file", "zero", "new"}]
  BY <1>2 DEF LoadFails, Putpages, IInv, PagesCounted, TypeOK
<1>4. /\ own' = [own EXCEPT ![p] = None] /\ acc' = [acc EXCEPT ![p] = None]
      /\ UNCHANGED <<segs, pte, slk, cached, spaces, map, flushes, cur>>
      /\ pc' = [pc EXCEPT ![p] = "user"]
  BY DEF LoadFails, Goto
<1>5. TypeOK'
  BY <1>2, <1>3, <1>4 DEF IInv, PagesCounted, TypeOK, segs, spaces, flushes
<1>6. FaultStep(p, "user")
  BY <1>1, <1>2, <1>4 DEF IInv, PagesCounted, TypeOK, FaultStep, Holds
<1>7. PagesCounted'
  <2>1. own' = Give(own, p, None)
    BY <1>4 DEF Give
  <2>2. \A x \in Page : x # None
    OBVIOUS
  <2> QED  BY <1>2, <1>3, <1>4, <1>5, <2>1, <2>2, GivePage DEF IInv
<1>8. OffsetInv'
  BY <1>2, <1>4 DEF IInv, OffsetInv, PagesCounted, TypeOK
<1> QED  BY <1>5, <1>6, <1>7, <1>8, FaultKeeps DEF IInv

(* The page is read: it goes into the slot and the cache, or is given up    *)
(* if another process was faster.                                           *)
LEMMA LoadedKeeps ==
    ASSUME IInv, NEW p \in Proc, Loaded(p)
    PROVE  IInv'
<1> USE UserMemoryAssumption
<1> DEFINE s == seg[p]
           o == acc[p].off
           g == own[p]
<1>1. cur = p /\ pc[p] = "io" /\ slk[s] = None /\ o <= size[s]
  BY DEF Loaded, Lock, Goto
<1>2. /\ s \in Seg /\ o \in Off /\ o # None /\ g \in Page /\ g # None /\ ref[g] >= 1
      /\ acc[p] # None /\ pte[s][o] # g
      /\ \A q \in Proc : own[q] = g => q = p
      /\ pte \in Ptes /\ own \in [Proc -> Page \cup {None}] /\ ref \in [Page -> Nat]
  <2>1. g \in Page /\ s \in Seg /\ o \in Off /\ acc[p] # None
    BY <1>1, InFault
  <2>2. o # None /\ g # None
    BY <2>1 DEF Off
  <2>3. pte[s][o] # g /\ \A q \in Proc : own[q] = g => q = p
    BY <2>1, <2>2 DEF IInv, OffsetInv
  <2> QED  BY <2>1, <2>2, <2>3, PageFacts DEF IInv
<1>3. /\ own' = [own EXCEPT ![p] = None] /\ slk' = [slk EXCEPT ![s] = p]
      /\ UNCHANGED <<segs, spaces, map, flushes, cur, acc>>
      /\ pc' = [pc EXCEPT ![p] = "common"]
  BY DEF Loaded, Lock, Goto, Install
<1>4. CASE At(p) = None
  <2>1. /\ pte' = [pte EXCEPT ![s][o] = g] /\ cached' = [cached EXCEPT ![g] = o]
        /\ UNCHANGED <<ref, content>>
    BY <1>4 DEF Loaded, Install
  <2>2. \A t \in Seg, k \in Off : pte'[t][k] = IF t = s /\ k = o THEN g ELSE pte[t][k]
    BY <1>2, <2>1 DEF Ptes
  <2>3. TypeOK'
    BY <1>2, <1>3, <2>1 DEF IInv, PagesCounted, TypeOK, segs, spaces, flushes
  <2>4. FaultStep(p, "common")
    <3>1. At(p)' # None
      BY <1>2, <1>3, <2>2 DEF At, segs
    <3> QED
      BY <1>1, <1>2, <1>3, <1>4, <2>2, <3>1
         DEF IInv, PagesCounted, TypeOK, FaultStep, Holds, At
  <2>5. PagesCounted'
    <3>1. ASSUME NEW x \in Page
          PROVE  ref'[x] + Cardinality(OwnersIn(own, x)) =
                   Cardinality(OwnersIn(own', x)) +
                     IF x = g THEN ref[x] + 1 ELSE IF x = pte[s][o] THEN ref[x] - 1 ELSE ref[x]
      <4>1. own' = Give(own, p, None) /\ x # None /\ pte[s][o] = None
        BY <1>3, <1>4 DEF Give, At
      <4>2. Cardinality(OwnersIn(own', x)) =
              IF x = g THEN Cardinality(OwnersIn(own, x)) - 1 ELSE Cardinality(OwnersIn(own, x))
        BY <1>2, <4>1, OwnersPut
      <4>3. /\ Cardinality(OwnersIn(own', x)) \in Nat /\ Cardinality(OwnersIn(own, x)) \in Nat
            /\ ref'[x] = ref[x] /\ ref[x] \in Nat
        BY <1>2, <2>1, FiniteOwners
      <4> QED  BY <4>1, <4>2, <4>3
    <3>2. pte' = Put(pte, s, o, g)
      BY <2>1 DEF Put
    <3> HIDE DEF s, o, g
    <3> QED  BY <1>2, <2>3, <3>1, <3>2, PutPage DEF IInv
  <2>6. OffsetInv'
    BY <1>2, <1>3, <2>1, <2>2 DEF IInv, OffsetInv, PagesCounted, TypeOK
  <2> QED  BY <2>3, <2>4, <2>5, <2>6, FaultKeeps DEF IInv
<1>5. CASE At(p) # None
  <2>1. pte' = [pte EXCEPT ![s][o] = At(p)] /\ UNCHANGED cached /\ Putpages({g})
    BY <1>5 DEF Loaded, Install
  <2>2. pte' = pte
    BY <1>2, <2>1 DEF Ptes, At
  <2>3. /\ \A x \in Page : ref'[x] = IF x = g THEN ref[x] - 1 ELSE ref[x]
        /\ ref' \in [Page -> Nat] /\ content' \in [Page -> {"file", "zero", "new"}]
    BY <1>2, <2>1 DEF Putpages, IInv, PagesCounted, TypeOK
  <2>4. TypeOK'
    BY <1>2, <1>3, <2>1, <2>2, <2>3 DEF IInv, PagesCounted, TypeOK, segs, spaces, flushes
  <2>5. FaultStep(p, "common")
    BY <1>1, <1>2, <1>3, <1>5, <2>2 DEF IInv, PagesCounted, TypeOK, FaultStep, Holds, At, segs
  <2>6. PagesCounted'
    <3>1. own' = Give(own, p, None) /\ \A x \in Page : x # None
      BY <1>3 DEF Give
    <3> QED  BY <1>2, <2>2, <2>3, <2>4, <3>1, GivePage DEF IInv
  <2>7. OffsetInv'
    BY <1>2, <1>3, <2>1, <2>2 DEF IInv, OffsetInv, PagesCounted, TypeOK
  <2> QED  BY <2>4, <2>5, <2>6, <2>7, FaultKeeps DEF IInv
<1> QED  BY <1>4, <1>5

(* The page is mapped to be read.                                           *)
LEMMA ReadOnlyKeeps ==
    ASSUME IInv, NEW p \in Proc, ReadOnly(p)
    PROVE  IInv'
<1>1. cur = p /\ pc[p] = "common"
  BY DEF ReadOnly, Common
<1>2. /\ seg[p] \in Seg /\ us[p] \in Space /\ owner[us[p]] = p /\ own[p] = None
      /\ acc[p].off \in Off /\ At(p) \in Page
  BY <1>1, InFault
<1>3. /\ map' = [map EXCEPT ![us[p]][acc[p].off] = [page |-> At(p), write |-> FALSE]]
      /\ slk' = [slk EXCEPT ![seg[p]] = None] /\ acc' = [acc EXCEPT ![p] = None]
      /\ UNCHANGED <<segs, pte, pages, spaces, flushes, cur, own>>
      /\ pc' = [pc EXCEPT ![p] = "user"]
  BY DEF ReadOnly, Putmmu, Goto
<1>4. TypeOK'
  BY <1>2, <1>3 DEF IInv, PagesCounted, TypeOK, segs, spaces, flushes, pages
<1>5. FaultStep(p, "user")
  BY <1>1, <1>2, <1>3, UserMemoryAssumption DEF IInv, PagesCounted, TypeOK, FaultStep, Holds
<1> QED  BY <1>3, <1>4, <1>5, FaultKeeps, SamePages DEF IInv, pages

(* The program stores to a page that it may write.                          *)
LEMMA StoreKeeps ==
    ASSUME IInv, NEW p \in Proc, Store(p)
    PROVE  IInv'
<1>1. cur = p /\ pc[p] = "user"
  BY DEF Store, Goto
<1>2. /\ UNCHANGED <<segs, pte, slk, ref, cached, spaces, map, flushes, cur, acc, own>>
      /\ pc' = [pc EXCEPT ![p] = "user"]
  BY DEF Store, Goto
<1>3. content' \in [Page -> {"file", "zero", "new"}]
  BY DEF Store, IInv, PagesCounted, TypeOK
<1>4. TypeOK'
  BY <1>2, <1>3 DEF IInv, PagesCounted, TypeOK, segs, spaces, flushes
<1>5. FaultStep(p, "user")
  BY <1>1, <1>2, InFault DEF IInv, PagesCounted, TypeOK, FaultStep, Holds, PlaceInv
<1> QED  BY <1>2, <1>4, <1>5, FaultKeeps, SamePages DEF IInv

(* A page that others have too is copied.                                   *)
LEMMA CopyOnWriteKeeps ==
    ASSUME IInv, NEW p \in Proc, CopyOnWrite(p)
    PROVE  IInv'
<1> USE UserMemoryAssumption
<1> DEFINE s == seg[p]
           o == acc[p].off
           h == At(p)
<1>1. cur = p /\ pc[p] = "common" /\ ref[h] > 1
  BY DEF CopyOnWrite, Common
<1>2. /\ s \in Seg /\ o \in Off /\ own[p] = None /\ acc[p] # None /\ h \in Page
      /\ us[p] \in Space /\ owner[us[p]] = p /\ slk[s] = p
      /\ pte \in Ptes /\ own \in [Proc -> Page \cup {None}] /\ ref \in [Page -> Nat]
  BY <1>1, InFault, PageFacts DEF IInv
<1>3. PICK g \in Free :
        /\ pte' = [pte EXCEPT ![s][o] = g] /\ ref' = [ref EXCEPT ![h] = @ - 1, ![g] = 1]
        /\ cached' = [cached EXCEPT ![g] = None] /\ Copypage(h, g)
        /\ Putmmu(p, "common", g, TRUE)
  BY DEF CopyOnWrite
<1>4. /\ g \in Page /\ ref[g] = 0 /\ g # None
      /\ \A t \in Seg, k \in Off : pte[t][k] # g
      /\ \A q \in Proc : own[q] # g
  BY <1>3, PageFacts DEF IInv
<1>5. /\ map' = [map EXCEPT ![us[p]][o] = [page |-> g, write |-> TRUE]]
      /\ slk' = [slk EXCEPT ![s] = None] /\ acc' = [acc EXCEPT ![p] = None]
      /\ UNCHANGED <<segs, spaces, flushes, cur, own>>
      /\ pc' = [pc EXCEPT ![p] = "user"]
  BY <1>3 DEF Putmmu, Goto
<1>6. \A t \in Seg, k \in Off : pte'[t][k] = IF t = s /\ k = o THEN g ELSE pte[t][k]
  BY <1>2, <1>3 DEF Ptes
<1>7. \A x \in Page : ref'[x] = IF x = g THEN ref[x] + 1 ELSE IF x = h THEN ref[x] - 1 ELSE ref[x]
  BY <1>1, <1>2, <1>3, <1>4
<1>8. TypeOK'
  <2>1. content' \in [Page -> {"file", "zero", "new"}]
    BY <1>2, <1>3 DEF Copypage, IInv, PagesCounted, TypeOK
  <2>2. ref' \in [Page -> Nat] /\ pte' \in [Seg -> [Off -> Page \cup {None}]]
    BY <1>1, <1>2, <1>3, <1>4 DEF Ptes
  <2>3. map' \in [Space -> [Off -> [page: Page, write: BOOLEAN] \cup {None}]]
    BY <1>2, <1>4, <1>5 DEF IInv, PagesCounted, TypeOK
  <2> QED
    BY <1>2, <1>3, <1>4, <1>5, <2>1, <2>2, <2>3 DEF IInv, PagesCounted, TypeOK, segs, spaces, flushes
<1>9. FaultStep(p, "user")
  <2>1. o <= size[s]
    BY <1>1, <1>2 DEF IInv, PlaceInv, PagesCounted, TypeOK, At, Off
  <2> QED
    BY <1>1, <1>2, <1>4, <1>5, <1>6, <2>1 DEF IInv, PagesCounted, TypeOK, FaultStep, Holds
<1>10. PagesCounted'
  <2>1. pte' = Put(pte, s, o, g) /\ h = pte[s][o]
    BY <1>3 DEF Put, At
  <2>2. \A x \in Page : Cardinality(OwnersIn(own, x)) \in Nat
    BY FiniteOwners
  <2>3. own' = own
    BY <1>5
  <2> HIDE DEF s, o, h
  <2> QED  BY <1>2, <1>4, <1>7, <1>8, <2>1, <2>2, <2>3, PutPage DEF IInv
<1>11. OffsetInv'
  BY <1>2, <1>3, <1>4, <1>5, <1>6 DEF IInv, OffsetInv, PagesCounted, TypeOK
<1> QED  BY <1>8, <1>9, <1>10, <1>11, FaultKeeps DEF IInv

(* A page of one's own is taken out of the image cache and mapped to be     *)
(* written.                                                                 *)
LEMMA OwnKeeps ==
    ASSUME IInv, NEW p \in Proc, Own(p) \/ OwnAgain(p)
    PROVE  IInv'
<1> USE UserMemoryAssumption
<1> DEFINE s == seg[p]
           o == acc[p].off
           g == At(p)
<1>1. cur = p /\ pc[p] \in {"common", "dup"}
  BY DEF Own, OwnAgain, Putmmu, Goto
<1>2. /\ s \in Seg /\ o \in Off /\ own[p] = None /\ acc[p] # None /\ g \in Page
      /\ us[p] \in Space /\ owner[us[p]] = p /\ slk[s] = p
  BY <1>1, InFault
<1>3. /\ map' = [map EXCEPT ![us[p]][o] = [page |-> g, write |-> TRUE]]
      /\ slk' = [slk EXCEPT ![s] = None] /\ acc' = [acc EXCEPT ![p] = None]
      /\ UNCHANGED <<segs, pte, ref, spaces, flushes, cur, own>>
      /\ pc' = [pc EXCEPT ![p] = "user"] /\ Duppage(g)
  BY DEF Own, OwnAgain, Putmmu, Duppage, Goto
<1>4. /\ content' \in [Page -> {"file", "zero", "new"}]
      /\ cached' \in [Page -> Off \cup {None}]
      /\ \A x \in Page : cached'[x] \in {cached[x], None} \/ x \in Free
  <2>1. content \in [Page -> {"file", "zero", "new"}] /\ cached \in [Page -> Off \cup {None}]
    BY DEF IInv, PagesCounted, TypeOK
  <2>2. CASE cached' = cached /\ content' = content
    BY <2>1, <2>2
  <2>3. CASE \E h \in Free : /\ Copypage(g, h)
                             /\ cached' = [cached EXCEPT ![g] = None, ![h] = cached[g]]
    BY <1>2, <2>1, <2>3 DEF Copypage, Free
  <2>4. CASE cached' = [cached EXCEPT ![g] = None] /\ content' = content
    BY <1>2, <2>1, <2>4
  <2> QED  BY <1>3, <2>2, <2>3, <2>4 DEF Duppage
<1>5. TypeOK'
  BY <1>2, <1>3, <1>4 DEF IInv, PagesCounted, TypeOK, segs, spaces, flushes
<1>6. FaultStep(p, "user")
  BY <1>1, <1>2, <1>3 DEF IInv, PagesCounted, TypeOK, FaultStep, Holds
<1>7. PagesCounted'
  BY <1>3, <1>5 DEF IInv, PagesCounted, SlotsOf, Owners
<1>8. OffsetInv'
  <2>1. \A x \in Free : (\A t \in Seg, k \in Off : pte[t][k] # x) /\ \A q \in Proc : own[q] # x
    BY PageFacts DEF IInv
  <2>2. \A t \in Seg, k \in Off : pte[t][k] # None =>
           pte[t][k] \in Page /\ cached'[pte[t][k]] \in {cached[pte[t][k]], None}
    BY <1>4, <2>1 DEF IInv, PagesCounted, TypeOK
  <2>3. \A q \in Proc : own[q] # None => cached'[own[q]] \in {cached[own[q]], None}
    BY <1>4, <2>1 DEF IInv, PagesCounted, TypeOK
  <2> QED  BY <1>3, <2>2, <2>3 DEF IInv, OffsetInv
<1> QED  BY <1>5, <1>6, <1>7, <1>8, FaultKeeps DEF IInv

----------------------------------------------------------------------------
(* What the steps of mmuswitch have in common: the process gets a space,    *)
(* which is its own or empty, and other processes' spaces stay as they      *)
(* are.                                                                     *)
SpaceStep(p) ==
    /\ us'[p] \in Space /\ owner'[us'[p]] = p
    /\ \A q \in Proc \ {p} : us'[q] = us[q] /\ newtlb'[q] = newtlb[q]
    /\ \A u \in Space \ {us'[p]} : owner'[u] = owner[u] /\ map'[u] = map[u]
    /\ \/ map'[us'[p]] = Empty
       \/ map' = map /\ us'[p] = us[p] /\ owner[us[p]] = p /\ ~newtlb[p]
    /\ us[p] # None => us'[p] = us[p]
    /\ \A u \in Space : /\ owner'[u] # None => us'[owner'[u]] = u
                        /\ owner'[u] = None => map'[u] = Empty

(* mmuswitch does such a step, whether the space is kept, taken from the    *)
(* back of the list or from another process.                                *)
LEMMA SpaceSteps ==
    ASSUME IInv, NEW p \in Proc, Mmuswitch(p)
    PROVE  /\ us' \in [Proc -> Space \cup {None}] /\ owner' \in [Space -> Proc \cup {None}]
           /\ ulist' \in SetToSeqs(Space)
           /\ map' \in [Space -> [Off -> [page: Page, write: BOOLEAN] \cup {None}]]
           /\ newtlb' \in [Proc -> BOOLEAN] /\ flushm' \in BOOLEAN
           /\ SpaceStep(p)
<1> DEFINE Entries == [Off -> [page: Page, write: BOOLEAN] \cup {None}]
<1>1. /\ us \in [Proc -> Space \cup {None}] /\ owner \in [Space -> Proc \cup {None}]
      /\ newtlb \in [Proc -> BOOLEAN] /\ flushm \in BOOLEAN
      /\ None \notin Proc \cup Space
  BY UserMemoryAssumption DEF IInv, PagesCounted, TypeOK
<1>2. map \in [Space -> Entries] /\ Empty \in Entries
  BY DEF IInv, PagesCounted, TypeOK, Empty
<1> HIDE DEF Entries
<1>3. \A u \in Space : /\ owner[u] # None => us[owner[u]] = u
                       /\ owner[u] = None => map[u] = Empty
  BY DEF IInv, SpaceInv
<1>4. ulist \in SetToSeqs(Space) /\ Last(ulist) \in Space
  BY UserMemoryAssumption, Permuted DEF IInv, PagesCounted, TypeOK
<1>5. \A u \in Space : <<u>> \o RemoveFirst(ulist, u) \in SetToSeqs(Space)
  BY <1>4, UserMemoryAssumption, MovedToEnds
<1>6. \A u \in Space : Usespace(u) => ulist' \in SetToSeqs(Space)
  BY <1>5 DEF Usespace
<1>7. ASSUME NEW u \in Space, Mmapflush(u)
      PROVE  /\ map' \in [Space -> Entries] /\ flushm' \in BOOLEAN /\ map'[u] = Empty
             /\ \A v \in Space : v # u => map'[v] = map[v]
  BY <1>2, <1>7 DEF Mmapflush
<1>8. CASE us[p] # None /\ owner[us[p]] = p /\ Keepspace(p)
  <2>1. us[p] \in Space /\ us' = us /\ owner' = owner /\ Usespace(us[p])
    BY <1>1, <1>8 DEF Keepspace
  <2>2. \/ Mmapflush(us[p]) /\ newtlb' = [newtlb EXCEPT ![p] = FALSE]
        \/ map' = map /\ newtlb' = newtlb /\ flushm' = flushm
    BY <1>8 DEF Keepspace, flushes
  <2>3. /\ map' \in [Space -> Entries] /\ newtlb' \in [Proc -> BOOLEAN] /\ flushm' \in BOOLEAN
        /\ \A v \in Space : owner[v] = None => map'[v] = Empty
    BY <1>1, <1>2, <1>3, <1>7, <2>1, <2>2
  <2>4. /\ \A q \in Proc \ {p} : newtlb'[q] = newtlb[q]
        /\ \A v \in Space \ {us[p]} : map'[v] = map[v]
        /\ map'[us[p]] = Empty \/ (map' = map /\ ~newtlb[p])
    <3>1. CASE Mmapflush(us[p]) /\ newtlb' = [newtlb EXCEPT ![p] = FALSE]
      BY <1>1, <1>7, <2>1, <3>1
    <3>2. CASE UNCHANGED <<map, flushes>> /\ ~newtlb[p]
      BY <3>2 DEF flushes
    <3> QED  BY <1>8, <3>1, <3>2 DEF Keepspace
  <2> QED  BY <1>1, <1>3, <1>6, <1>8, <2>1, <2>3, <2>4 DEF Entries, SpaceStep
<1>9. CASE us[p] = None /\ Getspace(p)
  <2> DEFINE u == Last(ulist)
  <2>1. /\ u \in Space
        /\ \/ Mmapflush(u)
           \/ owner[u] = None /\ map' = map /\ flushm' = flushm
        /\ owner' = [owner EXCEPT ![u] = p] /\ us' = [us EXCEPT ![p] = u]
        /\ Usespace(u) /\ newtlb' = newtlb
    BY <1>4, <1>9 DEF Getspace
  <2> HIDE DEF u
  <2>2. /\ map' \in [Space -> Entries] /\ flushm' \in BOOLEAN
        /\ \A v \in Space : owner[v] = None => map'[v] = Empty
    BY <1>1, <1>2, <1>3, <1>7, <2>1
  <2>3. /\ us' \in [Proc -> Space \cup {None}] /\ owner' \in [Space -> Proc \cup {None}]
        /\ us'[p] = u /\ owner'[u] = p
        /\ \A q \in Proc \ {p} : us'[q] = us[q]
        /\ \A v \in Space \ {u} : owner'[v] = owner[v]
    BY <1>1, <2>1
  <2>4. \A v \in Space : owner[v] # p
    BY <1>1, <1>3, <1>9
  <2>5. \A v \in Space : /\ owner'[v] # None => us'[owner'[v]] = v
                         /\ owner'[v] = None => owner[v] = None
    BY <1>1, <1>3, <2>3, <2>4
  <2>6. map'[u] = Empty /\ \A v \in Space \ {u} : map'[v] = map[v]
    BY <1>3, <1>7, <2>1
  <2> QED  BY <1>1, <1>6, <1>9, <2>1, <2>2, <2>3, <2>5, <2>6 DEF Entries, SpaceStep
<1>10. CASE us[p] # None /\ owner[us[p]] # p /\ Takespace(p)
  <2>1. /\ us[p] \in Space /\ us' = us /\ newtlb' = newtlb /\ Mmapflush(us[p])
        /\ owner' = [owner EXCEPT ![us[p]] = p] /\ Usespace(us[p])
    BY <1>1, <1>10 DEF Takespace
  <2>2. /\ map' \in [Space -> Entries] /\ flushm' \in BOOLEAN
        /\ \A v \in Space : owner[v] = None => map'[v] = Empty
    BY <1>3, <1>7, <2>1
  <2>3. \A v \in Space : /\ owner'[v] # None => us'[owner'[v]] = v
                         /\ owner'[v] = None => owner[v] = None
    BY <1>1, <1>3, <2>1
  <2>4. /\ owner'[us[p]] = p /\ map'[us[p]] = Empty
        /\ \A v \in Space \ {us[p]} : owner'[v] = owner[v] /\ map'[v] = map[v]
    BY <1>1, <1>7, <2>1
  <2> QED  BY <1>1, <1>6, <1>10, <2>1, <2>2, <2>3, <2>4 DEF Entries, SpaceStep
<1> QED  BY <1>8, <1>9, <1>10 DEF Mmuswitch

(* Another process runs.                                                    *)
LEMMA SwitchKeeps ==
    ASSUME IInv, NEW p \in Proc, Switch(p)
    PROVE  IInv'
<1>1. /\ pc[p] # "none" /\ (cur # None => pc[cur] # "common")
      /\ cur' = p /\ UNCHANGED <<segs, pte, slk, pages, acc, own, pc>>
      /\ Mmuswitch(p)
  BY DEF Switch, Waits
<1>2. TypeOK'
  BY <1>1, SpaceSteps DEF IInv, PagesCounted, TypeOK, segs, pages
<1>3. PlaceInv'
  <2>1. \A q \in Proc : pc[q] # "common"
    BY <1>1, UserMemoryAssumption DEF IInv, PlaceInv
  <2> QED  BY <1>1, <2>1 DEF IInv, PlaceInv, Users, At, segs
<1>4. SpaceInv'
  <2>1. SpaceStep(p)
    BY <1>1, SpaceSteps
  <2>2. us'[p] # None /\ \A q \in Proc : pc'[q] = "none" => us'[q] = None
    BY <1>1, <2>1, UserMemoryAssumption DEF IInv, SpaceInv, SpaceStep
  <2> QED  BY <1>1, <2>1, <2>2 DEF SpaceInv, SpaceStep
<1>5. UNCHANGED <<pte, ref, cached, own>>
  BY <1>1 DEF pages
<1> QED  BY <1>2, <1>3, <1>4, <1>5, SamePages DEF IInv

(* A table that is cut, as the counts of its pages are.                     *)
LEMMA CutPages ==
    ASSUME PagesCounted, OffsetInv, TypeOK', NEW s \in Seg, NEW n \in 0..NPages,
           pte' = CutAt(pte, s, n), own' = own, UNCHANGED cached,
           \A x \in Page : ref'[x] = IF x \in Beyond(pte[s], n) THEN ref[x] - 1 ELSE ref[x]
    PROVE  PagesCounted' /\ OffsetInv'
<1>1. pte \in Ptes /\ \A o, k \in Off : pte[s][o] # None /\ pte[s][o] = pte[s][k] => o = k
  BY PageFacts DEF OffsetInv
<1>2. ASSUME NEW x \in Page PROVE ref'[x] = Count(pte', own', x)
  <2>1. Cardinality(SlotsIn(pte', x)) =
          IF x \in Beyond(pte[s], n) THEN Cardinality(SlotsIn(pte, x)) - 1
          ELSE Cardinality(SlotsIn(pte, x))
    BY <1>1, SlotsCut
  <2>2. /\ Cardinality(SlotsIn(pte, x)) \in Nat /\ Cardinality(OwnersIn(own, x)) \in Nat
        /\ Cardinality(SlotsIn(pte', x)) \in Nat
    BY FiniteSlots, FiniteOwners
  <2>3. ref[x] = Cardinality(SlotsIn(pte, x)) + Cardinality(OwnersIn(own, x))
    BY PageFacts DEF Count
  <2>4. own' = own
    OBVIOUS
  <2> QED  BY <2>1, <2>2, <2>3, <2>4 DEF Count
<1>3. \A t \in Seg, o \in Off : pte'[t][o] = pte[t][o] \/ pte'[t][o] = None
  BY <1>1 DEF Ptes, CutAt
<1>4. OffsetInv'
  BY <1>3, UserMemoryAssumption DEF OffsetInv, PagesCounted, TypeOK
<1> QED  BY <1>2, <1>4, Recount

(* putpage of what is beyond n counts each of these pages once less, and    *)
(* none of them below zero.                                                 *)
LEMMA CutRefs ==
    ASSUME PagesCounted, NEW s \in Seg, NEW n \in 0..NPages, Putpages(Beyond(pte[s], n))
    PROVE  /\ ref' \in [Page -> Nat] /\ content' \in [Page -> {"file", "zero", "new"}]
           /\ \A x \in Page : ref'[x] = IF x \in Beyond(pte[s], n) THEN ref[x] - 1 ELSE ref[x]
<1>1. \A x \in Beyond(pte[s], n) : x \in Page => ref[x] >= 1
  <2>1. \A o : o \in (n + 1)..NPages => o \in Off
    BY UserMemoryAssumption DEF Off
  <2> QED  BY <2>1, PageFacts DEF Beyond
<1>2. ref \in [Page -> Nat] /\ content \in [Page -> {"file", "zero", "new"}]
  BY DEF PagesCounted, TypeOK
<1> HIDE DEF Beyond
<1> QED  BY <1>1, <1>2 DEF Putpages

(* A process gives up its segment; the last one gives up the pages.         *)
LEMMA PutsegsKeeps ==
    ASSUME IInv, NEW p \in Proc, Putsegs(p)
    PROVE  IInv'
<1> USE UserMemoryAssumption
<1> DEFINE s == seg[p]
<1>1. /\ cur = p /\ pc[p] = "user" /\ pc' = [pc EXCEPT ![p] = "bare"]
      /\ seg' = [seg EXCEPT ![p] = None]
      /\ UNCHANGED <<slk, cached, spaces, map, flushes, cur, acc, own>>
  BY DEF Putsegs, Putseg, Goto
<1>2. s \in Seg /\ own[p] = None /\ acc[p] = None /\ pte \in Ptes /\ slk[s] # p
  BY <1>1, InFault, PageFacts DEF IInv, PlaceInv
<1>3. CASE Users(s) = {p}
  <2>1. /\ slk[s] = None /\ Putpages(PagesOf(s)) /\ pte' = [pte EXCEPT ![s] = Empty]
        /\ kind' = [kind EXCEPT ![s] = "bss"] /\ size' = [size EXCEPT ![s] = 0]
    BY <1>3 DEF Putsegs, Putseg
  <2>2. PagesOf(s) = Beyond(pte[s], 0) /\ 0 \in 0..NPages /\ pte' = CutAt(pte, s, 0)
    <3>1. 0 + 1 = 1 /\ 0 \in 0..NPages /\ Off = 1..NPages /\ \A o \in Off : o > 0
      BY DEF Off
    <3>2. [o \in Off |-> IF o > 0 THEN None ELSE pte[s][o]] = Empty
      BY <3>1 DEF Empty
    <3>3. pte' = CutAt(pte, s, 0)
      BY <1>2, <2>1, <3>2 DEF CutAt, Ptes
    <3> QED  BY <3>1, <3>3 DEF PagesOf, Beyond
  <2>3. /\ ref' \in [Page -> Nat] /\ content' \in [Page -> {"file", "zero", "new"}]
        /\ \A x \in Page : ref'[x] = IF x \in Beyond(pte[s], 0) THEN ref[x] - 1 ELSE ref[x]
    BY <1>2, <2>1, <2>2, CutRefs DEF IInv
  <2>4. TypeOK'
    BY <1>1, <1>2, <2>1, <2>3 DEF IInv, PagesCounted, TypeOK, spaces, flushes, Empty
  <2>5. PlaceInv'
    <3>1. \A t \in Seg : pte'[t] = IF t = s THEN Empty ELSE pte[t]
      BY <1>2, <2>1 DEF Ptes
    <3>2. \A q \in Proc : q # p => seg'[q] = seg[q] /\ seg[q] # s /\ pc'[q] = pc[q]
      BY <1>1, <1>3 DEF Users, IInv, PagesCounted, TypeOK
    <3>3. \A q \in Proc : pc'[q] \in {"common", "dup"} => slk'[seg'[q]] = q /\ At(q)' # None
      <4> SUFFICES ASSUME NEW q \in Proc, pc'[q] \in {"common", "dup"}
                   PROVE  slk'[seg'[q]] = q /\ At(q)' # None
        OBVIOUS
      <4>1. q # p /\ pc[q] \in {"common", "dup"}
        BY <1>1, <3>2 DEF IInv, PagesCounted, TypeOK
      <4>2. slk[seg[q]] = q /\ At(q) # None /\ seg[q] # None
        BY <4>1 DEF IInv, PlaceInv
      <4>3. seg[q] \in Seg
        BY <4>2 DEF IInv, PagesCounted, TypeOK
      <4> QED  BY <1>1, <3>1, <3>2, <4>1, <4>2, <4>3 DEF At
    <3>4. \A q \in Proc : /\ seg'[q] = None <=> pc'[q] \in {"none", "bare"}
                          /\ acc'[q] = None <=> pc'[q] \in {"none", "user", "bare"}
                          /\ own'[q] = None <=> pc'[q] # "io"
                          /\ pc'[q] = "common" => cur' = q
                          /\ pc'[q] \in {"alloc", "io"} => kind'[seg'[q]] = "data"
      BY <1>1, <1>2, <2>1, <3>2 DEF IInv, PlaceInv, PagesCounted, TypeOK
    <3>5. \A t \in Seg : Users(t)' = {} => pte'[t] = Empty
      BY <1>1, <1>2, <3>1, <3>2 DEF IInv, PlaceInv, Users
    <3>6. \A t \in Seg : slk'[t] # None => seg'[slk'[t]] = t /\ pc'[slk'[t]] \in {"common", "dup"}
      BY <1>1, <1>2, <2>1, <3>2 DEF IInv, PlaceInv, PagesCounted, TypeOK
    <3>7. \A t \in Seg : \A o \in Off : o > size'[t] => pte'[t][o] = None
      BY <1>2, <2>1, <3>1 DEF IInv, PlaceInv, PagesCounted, TypeOK, Empty
    <3> QED  BY <3>3, <3>4, <3>5, <3>6, <3>7 DEF PlaceInv
  <2>6. SpaceInv'
    BY <1>1 DEF IInv, SpaceInv, spaces, PagesCounted, TypeOK
  <2>7. own' = own /\ UNCHANGED cached
    BY <1>1
  <2> HIDE DEF s
  <2> QED  BY <1>2, <2>2, <2>3, <2>4, <2>5, <2>6, <2>7, CutPages DEF IInv
<1>4. CASE Users(s) # {p}
  <2>1. UNCHANGED <<ref, content, pte, kind, size>>
    BY <1>4 DEF Putsegs, Putseg
  <2>2. PICK r \in Proc : r # p /\ seg[r] = s
    BY <1>2, <1>4 DEF Users
  <2>3. TypeOK'
    BY <1>1, <1>2, <2>1 DEF IInv, PagesCounted, TypeOK, spaces, flushes
  <2>4. \A q \in Proc : q # p => seg'[q] = seg[q] /\ pc'[q] = pc[q]
    BY <1>1 DEF IInv, PagesCounted, TypeOK
  <2>5. \A t \in Seg : Users(t)' = {} => Users(t) = {}
    BY <1>1, <1>2, <2>2, <2>4 DEF Users
  <2>6. PlaceInv'
    <3>1. \A q \in Proc : pc'[q] \in {"common", "dup"} => slk'[seg'[q]] = q /\ At(q)' # None
      BY <1>1, <1>2, <2>1, <2>4 DEF IInv, PlaceInv, PagesCounted, TypeOK, At
    <3>2. \A q \in Proc : /\ seg'[q] = None <=> pc'[q] \in {"none", "bare"}
                          /\ acc'[q] = None <=> pc'[q] \in {"none", "user", "bare"}
                          /\ own'[q] = None <=> pc'[q] # "io"
                          /\ pc'[q] = "common" => cur' = q
                          /\ pc'[q] \in {"alloc", "io"} => kind'[seg'[q]] = "data"
      BY <1>1, <1>2, <2>1, <2>4 DEF IInv, PlaceInv, PagesCounted, TypeOK
    <3>3. \A t \in Seg : Users(t)' = {} => pte'[t] = Empty
      BY <2>1, <2>5 DEF IInv, PlaceInv
    <3>4. \A t \in Seg : slk'[t] # None => seg'[slk'[t]] = t /\ pc'[slk'[t]] \in {"common", "dup"}
      BY <1>1, <2>4 DEF IInv, PlaceInv, PagesCounted, TypeOK
    <3>5. \A t \in Seg : \A o \in Off : o > size'[t] => pte'[t][o] = None
      BY <2>1 DEF IInv, PlaceInv
    <3> QED  BY <3>1, <3>2, <3>3, <3>4, <3>5 DEF PlaceInv
  <2>7. SpaceInv'
    BY <1>1 DEF IInv, SpaceInv, spaces, PagesCounted, TypeOK
  <2>8. UNCHANGED <<pte, ref, cached, own>>
    BY <1>1, <2>1
  <2> QED  BY <2>3, <2>6, <2>7, <2>8, SamePages DEF IInv
<1> QED  BY <1>3, <1>4

(* exec: a new segment.                                                     *)
LEMMA ExecKeeps ==
    ASSUME IInv, NEW p \in Proc, Exec(p)
    PROVE  IInv'
<1> USE UserMemoryAssumption
<1>1. /\ cur = p /\ pc[p] = "bare" /\ pc' = [pc EXCEPT ![p] = "user"]
      /\ UNCHANGED <<pte, slk, pages, spaces, newtlb, cur, acc, own>>
      /\ map' = [map EXCEPT ![us[p]] = Empty] /\ flushm' = FALSE
  BY DEF Exec, Goto, Flushmmu, Mmapflush
<1>2. PICK s \in Seg, k \in {"data", "bss"} :
        /\ Users(s) = {} /\ seg' = [seg EXCEPT ![p] = s]
        /\ kind' = [kind EXCEPT ![s] = k] /\ size' = [size EXCEPT ![s] = NPages]
  BY DEF Exec
<1>3. /\ acc[p] = None /\ own[p] = None /\ us[p] \in Space /\ slk[s] = None /\ seg[p] = None
      /\ pte[s] = Empty /\ \A q \in Proc : seg[q] # s
  BY <1>1, <1>2 DEF IInv, PagesCounted, TypeOK, PlaceInv, SpaceInv, Users
<1>4. \A q \in Proc : /\ seg'[q] = IF q = p THEN s ELSE seg[q]
                      /\ pc'[q] = IF q = p THEN "user" ELSE pc[q]
                      /\ seg[q] # None => kind'[seg[q]] = kind[seg[q]]
  BY <1>1, <1>2, <1>3 DEF IInv, PagesCounted, TypeOK
<1>5. TypeOK'
  <2>1. map' \in [Space -> [Off -> [page: Page, write: BOOLEAN] \cup {None}]] /\ flushm' \in BOOLEAN
    BY <1>1, <1>3 DEF IInv, PagesCounted, TypeOK, Empty
  <2>2. /\ seg' \in [Proc -> Seg \cup {None}] /\ kind' \in [Seg -> {"data", "bss"}]
        /\ size' \in [Seg -> 0..NPages]
    BY <1>2 DEF IInv, PagesCounted, TypeOK
  <2> QED
    BY <1>1, <2>1, <2>2 DEF IInv, PagesCounted, TypeOK, spaces, pages
<1>6. PlaceInv'
  <2>1. \A q \in Proc : /\ seg'[q] = None <=> pc'[q] \in {"none", "bare"}
                        /\ acc'[q] = None <=> pc'[q] \in {"none", "user", "bare"}
                        /\ own'[q] = None <=> pc'[q] # "io"
                        /\ pc'[q] = "common" => cur' = q
                        /\ pc'[q] \in {"alloc", "io"} => kind'[seg'[q]] = "data"
                        /\ pc'[q] \in {"common", "dup"} => slk'[seg'[q]] = q /\ At(q)' # None
    BY <1>1, <1>3, <1>4 DEF IInv, PlaceInv, At
  <2>2. \A t \in Seg : Users(t)' = {} => pte'[t] = Empty
    BY <1>1, <1>3, <1>4 DEF IInv, PlaceInv, Users
  <2>3. \A t \in Seg : slk'[t] # None => seg'[slk'[t]] = t /\ pc'[slk'[t]] \in {"common", "dup"}
    BY <1>1, <1>3, <1>4 DEF IInv, PlaceInv, PagesCounted, TypeOK
  <2>4. \A t \in Seg : \A o \in Off : o > size'[t] => pte'[t][o] = None
    BY <1>1, <1>2, <1>3 DEF IInv, PlaceInv, PagesCounted, TypeOK, Off, Empty
  <2> QED  BY <2>1, <2>2, <2>3, <2>4 DEF PlaceInv
<1>7. SpaceInv'
  BY <1>1, <1>3 DEF IInv, SpaceInv, spaces, PagesCounted, TypeOK
<1>8. UNCHANGED <<pte, ref, cached, own>>
  BY <1>1 DEF pages
<1> QED  BY <1>5, <1>6, <1>7, <1>8, SamePages DEF IInv

(* rfork(RFMEM): the child shares the segment.                              *)
LEMMA ShareKeeps ==
    ASSUME IInv, NEW p \in Proc, NEW q \in Proc, Share(p, q)
    PROVE  IInv'
<1> USE UserMemoryAssumption
<1>1. /\ cur = p /\ pc[p] = "user" /\ pc[q] = "none" /\ pc' = [pc EXCEPT ![q] = "user"]
      /\ UNCHANGED <<kind, size, pte, slk, pages, spaces, newtlb, cur, acc, own>>
      /\ seg' = [seg EXCEPT ![q] = seg[p]]
      /\ map' = [map EXCEPT ![us[p]] = Empty] /\ flushm' = FALSE
  BY DEF Share, Child, Flushmmu, Mmapflush
<1>2. /\ seg[p] \in Seg /\ us[p] \in Space /\ acc[q] = None /\ own[q] = None /\ seg[q] = None
  BY <1>1, InFault DEF IInv, PlaceInv
<1>3. \A r \in Proc : /\ seg'[r] = IF r = q THEN seg[p] ELSE seg[r]
                      /\ pc'[r] = IF r = q THEN "user" ELSE pc[r]
  BY <1>1 DEF IInv, PagesCounted, TypeOK
<1>4. TypeOK'
  BY <1>1, <1>2 DEF IInv, PagesCounted, TypeOK, spaces, pages, Empty
<1>5. PlaceInv'
  <2>1. \A r \in Proc : /\ seg'[r] = None <=> pc'[r] \in {"none", "bare"}
                        /\ acc'[r] = None <=> pc'[r] \in {"none", "user", "bare"}
                        /\ own'[r] = None <=> pc'[r] # "io"
                        /\ pc'[r] = "common" => cur' = r
                        /\ pc'[r] \in {"alloc", "io"} => kind'[seg'[r]] = "data"
                        /\ pc'[r] \in {"common", "dup"} => slk'[seg'[r]] = r /\ At(r)' # None
    BY <1>1, <1>2, <1>3 DEF IInv, PlaceInv, At
  <2>2. \A t \in Seg : Users(t)' = {} => pte'[t] = Empty
    BY <1>1, <1>2, <1>3 DEF IInv, PlaceInv, Users
  <2>3. \A t \in Seg : slk'[t] # None => seg'[slk'[t]] = t /\ pc'[slk'[t]] \in {"common", "dup"}
    BY <1>1, <1>2, <1>3 DEF IInv, PlaceInv, PagesCounted, TypeOK
  <2>4. \A t \in Seg : \A o \in Off : o > size'[t] => pte'[t][o] = None
    BY <1>1 DEF IInv, PlaceInv
  <2> QED  BY <2>1, <2>2, <2>3, <2>4 DEF PlaceInv
<1>6. SpaceInv'
  BY <1>1, <1>2, <1>3 DEF IInv, SpaceInv, spaces, PagesCounted, TypeOK
<1>7. UNCHANGED <<pte, ref, cached, own>>
  BY <1>1 DEF pages
<1> QED  BY <1>4, <1>5, <1>6, <1>7, SamePages DEF IInv

(* fork: the child has a copy of the table, and the pages are shared.       *)
LEMMA CopyKeeps ==
    ASSUME IInv, NEW p \in Proc, NEW q \in Proc, Copy(p, q)
    PROVE  IInv'
<1> USE UserMemoryAssumption
<1> DEFINE t == seg[p]
<1>1. /\ cur = p /\ pc[p] = "user" /\ pc[q] = "none" /\ pc' = [pc EXCEPT ![q] = "user"]
      /\ UNCHANGED <<slk, cached, content, spaces, cur, acc, own>>
      /\ ref' = [g \in Page |-> IF g \in PagesOf(t) THEN ref[g] + 1 ELSE ref[g]]
      /\ Procflushseg(t)
      /\ map' = [map EXCEPT ![us[p]] = Empty] /\ flushm' = FALSE
  BY DEF Copy, Child, Flushmmu, Mmapflush
<1>2. PICK s \in Seg :
        /\ Users(s) = {} /\ seg' = [seg EXCEPT ![q] = s]
        /\ kind' = [kind EXCEPT ![s] = kind[t]] /\ size' = [size EXCEPT ![s] = size[t]]
        /\ pte' = [pte EXCEPT ![s] = pte[t]]
  BY DEF Copy
<1>3. /\ t \in Seg /\ us[p] \in Space /\ acc[q] = None /\ own[q] = None /\ seg[q] = None
      /\ slk[s] = None /\ pte[s] = Empty /\ \A r \in Proc : seg[r] # s
      /\ pte \in Ptes /\ ref \in [Page -> Nat]
  <2>1. t \in Seg /\ us[p] \in Space
    BY <1>1, InFault
  <2>2. \A r \in Proc : seg[r] # s
    BY <1>2 DEF Users
  <2> QED  BY <1>1, <1>2, <2>1, <2>2, PageFacts DEF IInv, PagesCounted, TypeOK, PlaceInv
<1>4. \A r \in Proc : /\ seg'[r] = IF r = q THEN s ELSE seg[r]
                      /\ pc'[r] = IF r = q THEN "user" ELSE pc[r]
                      /\ seg[r] # None => /\ kind'[seg[r]] = kind[seg[r]]
                                          /\ pte'[seg[r]] = pte[seg[r]]
  BY <1>1, <1>2, <1>3 DEF IInv, PagesCounted, TypeOK, Ptes
<1>5. \A r \in Seg : pte'[r] = IF r = s THEN pte[t] ELSE pte[r]
  BY <1>2, <1>3 DEF Ptes
<1>6. TypeOK'
  <2>1. newtlb' \in [Proc -> BOOLEAN]
    BY <1>1 DEF Procflushseg, IInv, PagesCounted, TypeOK
  <2>2. map' \in [Space -> [Off -> [page: Page, write: BOOLEAN] \cup {None}]]
    BY <1>1, <1>3 DEF IInv, PagesCounted, TypeOK, Empty
  <2>3. /\ seg' \in [Proc -> Seg \cup {None}] /\ kind' \in [Seg -> {"data", "bss"}]
        /\ size' \in [Seg -> 0..NPages] /\ pte' \in [Seg -> [Off -> Page \cup {None}]]
    BY <1>2, <1>3 DEF IInv, PagesCounted, TypeOK, Ptes
  <2>4. ref' \in [Page -> Nat]
    BY <1>1, <1>3
  <2>5. flushm' \in BOOLEAN /\ pc' \in [Proc -> {"none", "user", "bare", "fault", "alloc", "io", "common", "dup"}]
    BY <1>1 DEF IInv, PagesCounted, TypeOK
  <2> QED
    BY <1>1, <2>1, <2>2, <2>3, <2>4, <2>5 DEF IInv, PagesCounted, TypeOK, spaces
<1>7. PlaceInv'
  <2>1. \A r \in Proc : /\ seg'[r] = None <=> pc'[r] \in {"none", "bare"}
                        /\ acc'[r] = None <=> pc'[r] \in {"none", "user", "bare"}
                        /\ own'[r] = None <=> pc'[r] # "io"
                        /\ pc'[r] = "common" => cur' = r
                        /\ pc'[r] \in {"alloc", "io"} => kind'[seg'[r]] = "data"
                        /\ pc'[r] \in {"common", "dup"} => slk'[seg'[r]] = r /\ At(r)' # None
    BY <1>1, <1>3, <1>4 DEF IInv, PlaceInv, At
  <2>2. \A r \in Seg : Users(r)' = {} => pte'[r] = Empty
    BY <1>1, <1>3, <1>4, <1>5 DEF IInv, PlaceInv, Users
  <2>3. \A r \in Seg : slk'[r] # None => seg'[slk'[r]] = r /\ pc'[slk'[r]] \in {"common", "dup"}
    BY <1>1, <1>3, <1>4 DEF IInv, PlaceInv, PagesCounted, TypeOK
  <2>4. \A r \in Seg : \A o \in Off : o > size'[r] => pte'[r][o] = None
    BY <1>2, <1>3, <1>5 DEF IInv, PlaceInv, PagesCounted, TypeOK
  <2> QED  BY <2>1, <2>2, <2>3, <2>4 DEF PlaceInv
<1>8. SpaceInv'
  BY <1>1, <1>3, <1>4 DEF IInv, SpaceInv, spaces, PagesCounted, TypeOK
<1>9. PagesCounted'
  <2>1. ASSUME NEW x \in Page PROVE ref'[x] = Count(pte', own', x)
    <3>1. /\ pte' = CopyTo(pte, t, s)
          /\ \A o, k \in Off : pte[t][o] # None /\ pte[t][o] = pte[t][k] => o = k
      BY <1>2, <1>3 DEF CopyTo, IInv, OffsetInv
    <3>2. Cardinality(SlotsIn(pte', x)) =
            IF \E o \in Off : pte[t][o] = x THEN Cardinality(SlotsIn(pte, x)) + 1
            ELSE Cardinality(SlotsIn(pte, x))
      <4> HIDE DEF t
      <4> QED  BY <1>3, <3>1, SlotsCopy
    <3>3. ref'[x] = IF \E o \in Off : pte[t][o] = x THEN ref[x] + 1 ELSE ref[x]
      BY <1>1 DEF PagesOf
    <3>4. /\ Cardinality(SlotsIn(pte, x)) \in Nat /\ Cardinality(OwnersIn(own, x)) \in Nat
      BY FiniteSlots, FiniteOwners
    <3>5. ref[x] = Cardinality(SlotsIn(pte, x)) + Cardinality(OwnersIn(own, x))
      BY PageFacts DEF IInv, Count
    <3> QED  BY <1>1, <3>2, <3>3, <3>4, <3>5 DEF Count
  <2> QED  BY <1>6, <2>1, Recount
<1>10. OffsetInv'
  <2>1. \A r \in Seg : \E z \in Seg : \A o \in Off : pte'[r][o] = pte[z][o]
    BY <1>3, <1>5
  <2> QED  BY <1>1, <2>1 DEF IInv, OffsetInv
<1> QED  BY <1>6, <1>7, <1>8, <1>9, <1>10 DEF IInv

(* brk: the segment grows or is cut.                                        *)
LEMMA BrkKeeps ==
    ASSUME IInv, NEW p \in Proc, Brk(p)
    PROVE  IInv'
<1> USE UserMemoryAssumption
<1> DEFINE s == seg[p]
<1>1. /\ cur = p /\ pc[p] = "user" /\ pc' = [pc EXCEPT ![p] = "user"] /\ slk[s] = None
      /\ UNCHANGED <<seg, kind, slk, cached, spaces, cur, acc, own>>
  BY DEF Brk, Goto
<1>2. PICK n \in 0..NPages :
        /\ size' = [size EXCEPT ![s] = n] /\ Putpages(Beyond(pte[s], n))
        /\ pte' = CutAt(pte, s, n)
        /\ IF n < size[s] THEN Procflushseg(s) /\ Flushmmu(p) ELSE UNCHANGED <<newtlb, map, flushm>>
  BY DEF Brk, Beyond, CutAt
<1>3. s \in Seg /\ us[p] \in Space /\ owner[us[p]] = p /\ pte \in Ptes
  BY <1>1, InFault, PageFacts DEF IInv
<1>4. /\ ref' \in [Page -> Nat] /\ content' \in [Page -> {"file", "zero", "new"}]
      /\ \A x \in Page : ref'[x] = IF x \in Beyond(pte[s], n) THEN ref[x] - 1 ELSE ref[x]
  BY <1>2, <1>3, CutRefs DEF IInv
<1>5. /\ pte' \in Ptes /\ pc' = pc
      /\ \A t \in Seg : t # s => pte'[t] = pte[t]
      /\ \A o \in Off : o > n => pte'[s][o] = None
  BY <1>1, <1>2, <1>3 DEF Ptes, CutAt, IInv, PagesCounted, TypeOK
<1>6. /\ newtlb' \in [Proc -> BOOLEAN] /\ flushm' \in BOOLEAN
      /\ map' \in [Space -> [Off -> [page: Page, write: BOOLEAN] \cup {None}]]
      /\ \A u \in Space : owner[u] = None => map'[u] = map[u]
  <2>1. /\ newtlb \in [Proc -> BOOLEAN] /\ flushm \in BOOLEAN
        /\ map \in [Space -> [Off -> [page: Page, write: BOOLEAN] \cup {None}]]
    BY DEF IInv, PagesCounted, TypeOK
  <2>2. CASE n < size[s]
    <3>1. newtlb' \in [Proc -> BOOLEAN]
      BY <1>2, <2>2 DEF Procflushseg
    <3>2. map' = [map EXCEPT ![us[p]] = Empty] /\ flushm' = FALSE
      BY <1>2, <2>2 DEF Flushmmu, Mmapflush
    <3> QED  BY <1>1, <1>3, <2>1, <3>1, <3>2 DEF Empty
  <2>3. CASE ~(n < size[s])
    BY <1>2, <2>1, <2>3
  <2> QED  BY <2>2, <2>3
<1>7. TypeOK'
  <2>1. size' \in [Seg -> 0..NPages]
    BY <1>1, <1>2, <1>3 DEF IInv, PagesCounted, TypeOK
  <2>2. UNCHANGED <<seg, kind, slk, cached, us, owner, ulist, cur, acc, own, pc>>
    BY <1>1, <1>5 DEF spaces
  <2> QED
    BY <1>4, <1>5, <1>6, <2>1, <2>2 DEF IInv, PagesCounted, TypeOK, Ptes
<1>8. PlaceInv'
  <2>1. \A r \in Proc : pc[r] \in {"common", "dup"} => slk[seg[r]] = r /\ At(r)' = At(r)
    <3> SUFFICES ASSUME NEW r \in Proc, pc[r] \in {"common", "dup"}
                 PROVE  slk[seg[r]] = r /\ At(r)' = At(r)
      OBVIOUS
    <3>1. slk[seg[r]] = r /\ seg[r] # None
      BY DEF IInv, PlaceInv
    <3>2. seg[r] \in Seg /\ seg[r] # s
      BY <1>1, <3>1 DEF IInv, PagesCounted, TypeOK
    <3> QED  BY <1>1, <1>5, <3>1, <3>2 DEF At
  <2>2. \A r \in Seg : Users(r)' = {} => pte'[r] = Empty
    BY <1>1, <1>3, <1>5 DEF IInv, PlaceInv, Users
  <2>3. \A r \in Seg : \A o \in Off : o > size'[r] => pte'[r][o] = None
    BY <1>2, <1>3, <1>5 DEF IInv, PlaceInv, PagesCounted, TypeOK
  <2> QED  BY <1>1, <1>5, <2>1, <2>2, <2>3 DEF IInv, PlaceInv
<1>9. SpaceInv'
  BY <1>1, <1>5, <1>6 DEF IInv, SpaceInv, spaces
<1>10. PagesCounted' /\ OffsetInv'
  <2>1. own' = own /\ UNCHANGED cached
    BY <1>1
  <2> HIDE DEF s
  <2> QED  BY <1>2, <1>3, <1>4, <1>7, <2>1, CutPages DEF IInv
<1> QED  BY <1>8, <1>9, <1>10 DEF IInv

(* The process is gone and its space is free.                               *)
LEMMA MmureleaseKeeps ==
    ASSUME IInv, NEW p \in Proc, Mmurelease(p)
    PROVE  IInv'
<1> USE UserMemoryAssumption
<1> DEFINE u == us[p]
<1>1. /\ cur = p /\ pc[p] = "bare" /\ pc' = [pc EXCEPT ![p] = "none"] /\ cur' = None
      /\ UNCHANGED <<segs, pte, slk, pages, newtlb, acc, own>>
      /\ us' = [us EXCEPT ![owner[u]] = None] /\ owner' = [owner EXCEPT ![u] = None]
      /\ map' = [map EXCEPT ![u] = Empty] /\ flushm' = FALSE
      /\ ulist' = Append(RemoveFirst(ulist, u), u)
  BY DEF Mmurelease, Goto, Putspace, Mmapflush
<1>2. u \in Space /\ owner[u] = p
  BY <1>1 DEF IInv, SpaceInv, PagesCounted, TypeOK
<1>3. ulist' \in SetToSeqs(Space)
  BY <1>1, <1>2, MovedToEnds DEF IInv, PagesCounted, TypeOK
<1>4. TypeOK'
  BY <1>1, <1>2, <1>3 DEF IInv, PagesCounted, TypeOK, segs, pages, Empty
<1>5. PlaceInv'
  BY <1>1 DEF IInv, PlaceInv, PagesCounted, TypeOK, Users, At, segs
<1>6. SpaceInv'
  BY <1>1, <1>2 DEF IInv, SpaceInv, PagesCounted, TypeOK
<1>7. UNCHANGED <<pte, ref, cached, own>>
  BY <1>1 DEF pages
<1> QED  BY <1>4, <1>5, <1>6, <1>7, SamePages DEF IInv

(* Every step keeps the inductive invariant.                                *)
LEMMA NextKeeps ==
    ASSUME IInv, [Next]_vars
    PROVE  IInv'
<1>1. CASE UNCHANGED vars
  <2> USE <1>1 DEF vars, segs, pages, spaces, flushes
  <2>1. TypeOK'
    BY DEF IInv, PagesCounted, TypeOK
  <2>2. PlaceInv'
    BY DEF IInv, PlaceInv, Users, At
  <2>3. SpaceInv'
    BY DEF IInv, SpaceInv
  <2> QED  BY <2>1, <2>2, <2>3, SamePages DEF IInv
<1>2. ASSUME NEW p \in Proc, Switch(p) \/ Fault(p) \/ Store(p) \/ Putsegs(p) \/ Exec(p)
                                \/ Mmurelease(p) \/ Brk(p)
      PROVE  IInv'
  <2>1. CASE Fault(p)
    BY <2>1, LookKeeps, ZeroFillKeeps, LookPageKeeps, LoadKeeps, LoadFailsKeeps, LoadedKeeps,
       ReadOnlyKeeps, CopyOnWriteKeeps, OwnKeeps DEF Fault
  <2> QED
    BY <1>2, <2>1, SwitchKeeps, StoreKeeps, PutsegsKeeps, ExecKeeps, MmureleaseKeeps, BrkKeeps
<1>3. ASSUME NEW p \in Proc, NEW q \in Proc, Share(p, q) \/ Copy(p, q)
      PROVE  IInv'
  BY <1>3, ShareKeeps, CopyKeeps
<1> QED  BY <1>1, <1>2, <1>3 DEF Next

(* It holds always.                                                         *)
LEMMA AlwaysIInv == Spec => []IInv
<1>1. Init => IInv
  BY InitIInv
<1>2. IInv /\ [Next]_vars => IInv'
  BY NextKeeps
<1> QED  BY <1>1, <1>2, PTL DEF Spec

(* No page is freed in use or lost: the count of users is what has it. *)
THEOREM UserMemoryPagesCounted == Spec => []PagesCounted
<1>1. IInv => PagesCounted
  BY DEF IInv
<1> QED  BY <1>1, AlwaysIInv, PTL

(* A process keeps its space until it dies, and runs in its own. *)
THEOREM UserMemorySpaceKept == Spec => SpaceKept
<1> DEFINE Kept == \A p \in Proc :
             /\ us[p] # None /\ us'[p] # us[p] => pc'[p] = "none"
             /\ cur' = p => us'[p] # None /\ owner'[us'[p]] = p
<1>1. ASSUME IInv, [Next]_vars PROVE Kept
  <2>1. SpaceInv'
    BY <1>1, NextKeeps DEF IInv
  <2>2. \A p \in Proc : cur' = p => us'[p] # None /\ owner'[us'[p]] = p
    BY <2>1, UserMemoryAssumption DEF SpaceInv
  <2>3. \A p \in Proc : us[p] # None /\ us'[p] # us[p] => pc'[p] = "none"
    <3>1. CASE us' = us
      BY <3>1
    <3>2. ASSUME NEW p \in Proc, Switch(p)
          PROVE  \A q \in Proc : us[q] # None => us'[q] = us[q]
      BY <1>1, <3>2, SpaceSteps DEF Switch, SpaceStep
    <3>3. ASSUME NEW p \in Proc, Mmurelease(p)
          PROVE  \A q \in Proc : us'[q] # us[q] => pc'[q] = "none"
      <4>1. cur = p /\ pc' = [pc EXCEPT ![p] = "none"] /\ us' = [us EXCEPT ![owner[us[p]]] = None]
        BY <3>3 DEF Mmurelease, Goto, Putspace
      <4>2. owner[us[p]] = p
        BY <1>1, <4>1, UserMemoryAssumption DEF IInv, SpaceInv
      <4> QED  BY <1>1, <4>1, <4>2 DEF IInv, PagesCounted, TypeOK
    <3>4. ASSUME NEW p \in Proc,
                 Fault(p) \/ Store(p) \/ Putsegs(p) \/ Exec(p) \/ Brk(p)
          PROVE  us' = us
      BY <3>4 DEF Fault, FaultCall, NoSegment, HasPage, ZeroFill, LookPage, Load, LoadWaits,
                  LoadFails, Loaded, ReadOnly, CopyOnWrite, NoMemory, Own, OwnWaits, OwnAgain,
                  Putmmu, Store, Putsegs, Exec, Brk, spaces
    <3>5. ASSUME NEW p \in Proc, NEW q \in Proc, Share(p, q) \/ Copy(p, q)
          PROVE  us' = us
      BY <3>5 DEF Share, Copy, spaces
    <3>6. CASE UNCHANGED vars
      BY <3>6 DEF vars, spaces
    <3> QED  BY <1>1, <3>1, <3>2, <3>3, <3>4, <3>5, <3>6 DEF Next
  <2> QED  BY <2>2, <2>3
<1>2. IInv /\ [Next]_vars => [Kept]_vars
  BY <1>1
<1> QED  BY <1>2, AlwaysIInv, PTL DEF Spec, SpaceKept

----------------------------------------------------------------------------
(* The entry that p has just made in its space is right: it shows the       *)
(* slot's page, to be written only if no one else has it, to be read only   *)
(* if the segment is not shared.                                            *)
NewEntry(p) ==
    LET e == map'[us[p]][acc[p].off] IN
    /\ e # None /\ pte'[seg[p]][acc[p].off] = e.page
    /\ e.write => ref'[e.page] = 1 /\ cached'[e.page] = None
    /\ ~e.write => Users(seg[p]) = {p}

(* What the steps of a fault do to what processes see: only the entry and   *)
(* the slot that p asked for change, and the entry is right afterwards; a   *)
(* page that is somebody's alone stays his.                                 *)
MapStep(p) ==
    /\ UNCHANGED <<segs, spaces, newtlb, cur>>
    /\ \A u \in Space, o \in Off : map'[u][o] # map[u][o] =>
         u = us[p] /\ o = acc[p].off /\ NewEntry(p)
    /\ \A s \in Seg, o \in Off : pte[s][o] # None /\ pte'[s][o] # pte[s][o] =>
         s = seg[p] /\ o = acc[p].off /\ NewEntry(p)
    /\ \A s \in Seg, o \in Off : LET g == pte[s][o] IN
         g # None /\ ref[g] = 1 /\ cached[g] = None =>
           pte'[s][o] = g /\ ref'[g] = 1 /\ cached'[g] = None

(* An entry of a space.                                                     *)
Entry(g, w) == [page |-> g, write |-> w]

(* What is in it; it is none of the empty ones.                             *)
LEMMA EntryIs ==
    ASSUME NEW g \in Page, NEW w \in BOOLEAN
    PROVE  Entry(g, w) # None /\ Entry(g, w).page = g /\ Entry(g, w).write = w
<1>1. Entry(g, w) \in [page: Page, write: BOOLEAN]
  BY DEF Entry
<1>2. Entry(g, w).page = g /\ Entry(g, w).write = w
  BY DEF Entry
<1> QED  BY <1>1, <1>2, UserMemoryAssumption

(* Steps of that kind keep what processes see right: a page that the        *)
(* segment shares is mapped to one only if it is to be written, and then    *)
(* no step of another takes it away.                                        *)
LEMMA MapStepKeeps ==
    ASSUME IInv, MapInv, NEW p \in Proc, cur = p, pc[p] \notin {"none", "bare"}, MapStep(p)
    PROVE  MapInv'
<1> SUFFICES ASSUME NEW q \in Proc, us[q] # None, owner[us[q]] = q, seg[q] # None,
                    q = cur \/ ~newtlb[q], NEW o \in Off, map'[us[q]][o] # None
             PROVE  LET e == map'[us[q]][o] IN
                    /\ pte'[seg[q]][o] = e.page
                    /\ e.write => ref'[e.page] = 1 /\ cached'[e.page] = None
                    /\ ~e.write => Users(seg[q]) = {q}
  BY DEF MapInv, MapStep, segs, spaces, Users
<1> DEFINE e == map'[us[q]][o]
<1>1. seg[q] \in Seg /\ us[q] \in Space /\ us[p] \in Space /\ owner[us[p]] = p
  BY InFault DEF IInv, PagesCounted, TypeOK
<1>2. CASE e # map[us[q]][o]
  <2>1. us[q] = us[p] /\ o = acc[p].off /\ NewEntry(p)
    BY <1>1, <1>2 DEF MapStep
  <2>2. q = p
    BY <1>1, <2>1
  <2> QED  BY <2>1, <2>2 DEF NewEntry
<1>3. CASE e = map[us[q]][o]
  <2>1. /\ pte[seg[q]][o] = e.page
        /\ e.write => ref[e.page] = 1 /\ cached[e.page] = None
        /\ ~e.write => Users(seg[q]) = {q}
    BY <1>3 DEF MapInv
  <2>2. pte[seg[q]][o] # None /\ e.write \in BOOLEAN
    <3>1. map[us[q]][o] \in [page: Page, write: BOOLEAN]
      BY <1>1, <1>3 DEF IInv, PagesCounted, TypeOK
    <3> QED  BY <1>3, <2>1, <3>1, UserMemoryAssumption
  <2>3. CASE e.write
    BY <1>1, <2>1, <2>2, <2>3 DEF MapStep
  <2>4. CASE ~e.write
    <3>1. seg[q] = seg[p] => q = p
      BY <2>1, <2>4 DEF Users
    <3>2. pte'[seg[q]][o] # pte[seg[q]][o] => q = p /\ o = acc[p].off /\ NewEntry(p)
      BY <1>1, <2>2, <3>1 DEF MapStep
    <3> QED  BY <2>1, <2>4, <3>2 DEF NewEntry
  <2> QED  BY <2>2, <2>3, <2>4
<1> QED  BY <1>2, <1>3

(* Every step of a fault is one, and a store keeps the map.                 *)
LEMMA FillMaps ==
    ASSUME IInv, MapInv, NoRace, NEW p \in Proc, Fault(p) \/ Store(p)
    PROVE  MapInv'
<1> USE UserMemoryAssumption
<1> DEFINE s == seg[p]
           o == acc[p].off
<1>1. /\ pte \in Ptes /\ own \in [Proc -> Page \cup {None}] /\ ref \in [Page -> Nat]
      /\ cached \in [Page -> Off \cup {None}] /\ None \notin Off
      /\ map \in [Space -> [Off -> [page: Page, write: BOOLEAN] \cup {None}]]
      /\ \A t \in Seg, k \in Off : pte[t][k] # None => pte[t][k] \in Page
  BY PageFacts DEF IInv, PagesCounted, TypeOK, Off, Ptes
<1>2. ASSUME UNCHANGED <<segs, spaces, newtlb, cur, pte, ref, cached, map>>
      PROVE  MapInv'
  BY <1>2 DEF MapInv, segs, spaces, Users
<1>3. CASE FaultCall(p) \/ NoSegment(p) \/ HasPage(p) \/ LoadWaits(p) \/ NoMemory(p)
             \/ OwnWaits(p) \/ Store(p)
  BY <1>2, <1>3 DEF FaultCall, NoSegment, HasPage, LoadWaits, NoMemory, OwnWaits, Store, pages, flushes
<1>4. ASSUME cur = p, pc[p] \in {"fault", "io"}, s \in Seg, o \in Off,
             UNCHANGED <<segs, spaces, newtlb, cur, map>>,
             \A t \in Seg, k \in Off : pte[t][k] # None => pte'[t][k] = pte[t][k],
             \A g \in Page : ref[g] = 1 /\ cached[g] = None
                /\ (\E t \in Seg, k \in Off : pte[t][k] = g) => ref'[g] = 1 /\ cached'[g] = None
      PROVE  MapInv'
  <2>1. MapStep(p)
    BY <1>1, <1>4 DEF MapStep
  <2> QED  BY <1>4, <2>1, MapStepKeeps
<1>5. CASE ZeroFill(p)
  <2>1. cur = p /\ pc[p] = "fault" /\ pte[s][o] = None
    BY <1>5 DEF ZeroFill, Lock, Goto, At
  <2>2. PICK g \in Free : /\ ref' = [ref EXCEPT ![g] = 1] /\ cached' = [cached EXCEPT ![g] = None]
                          /\ pte' = [pte EXCEPT ![s][o] = g]
    BY <1>5 DEF ZeroFill, Install
  <2>3. g \in Page /\ ref[g] = 0
    BY <2>2 DEF Free
  <2>4. s \in Seg /\ o \in Off /\ UNCHANGED <<segs, spaces, newtlb, cur, map>>
    BY <1>5, <2>1, InFault DEF ZeroFill, flushes
  <2>5. \A t \in Seg, k \in Off : pte[t][k] # None => pte'[t][k] = pte[t][k]
    BY <1>1, <2>1, <2>2, <2>4 DEF Ptes
  <2> QED  BY <1>1, <1>4, <2>1, <2>2, <2>3, <2>4, <2>5
<1>6. CASE LookPage(p)
  <2>1. cur = p /\ pc[p] = "fault" /\ pte[s][o] = None
    BY <1>6 DEF LookPage, Lock, Goto, At
  <2>2. PICK g \in Page : /\ cached[g] = o /\ ref' = [ref EXCEPT ![g] = @ + 1]
                          /\ pte' = [pte EXCEPT ![s][o] = g] /\ cached' = cached
    BY <1>6 DEF LookPage, Install, Found
  <2>3. s \in Seg /\ o \in Off /\ UNCHANGED <<segs, spaces, newtlb, cur, map>>
    BY <1>6, <2>1, InFault DEF LookPage, flushes
  <2>4. \A x \in Page : cached[x] = None => ref'[x] = ref[x]
    BY <1>1, <2>2, <2>3
  <2>5. \A t \in Seg, k \in Off : pte[t][k] # None => pte'[t][k] = pte[t][k]
    BY <1>1, <2>1, <2>2, <2>3 DEF Ptes
  <2> QED  BY <1>1, <1>4, <2>1, <2>2, <2>3, <2>4, <2>5
<1>7. CASE Load(p)
  <2>1. cur = p
    BY <1>7 DEF Load, Lock, Goto
  <2>2. PICK g \in Free : ref' = [ref EXCEPT ![g] = 1] /\ cached' = [cached EXCEPT ![g] = None]
    BY <1>7 DEF Load
  <2>3. g \in Page /\ ref[g] = 0
    BY <2>2 DEF Free
  <2>4. UNCHANGED <<segs, spaces, newtlb, cur, map, pte>> /\ pc[p] \notin {"none", "bare"}
    BY <1>7 DEF Load, Lock, Goto, flushes
  <2>5. MapStep(p)
    BY <1>1, <2>2, <2>3, <2>4 DEF MapStep
  <2> QED  BY <2>1, <2>4, <2>5, MapStepKeeps
<1>8. CASE LoadFails(p) \/ Loaded(p)
  <2>1. /\ cur = p /\ pc[p] = "io" /\ UNCHANGED <<segs, spaces, newtlb, cur, map>>
        /\ s \in Seg /\ o \in Off /\ own[p] \in Page
    <3>1. cur = p /\ pc[p] = "io" /\ UNCHANGED <<segs, spaces, newtlb, cur, map>>
      BY <1>8 DEF LoadFails, Loaded, Lock, Goto, flushes
    <3> QED  BY <3>1, InFault
  <2>2. \A t \in Seg, k \in Off : pte[t][k] # own[p]
    BY <2>1 DEF IInv, OffsetInv
  <2>3. \A g \in Page : g # own[p] => ref'[g] = ref[g] /\ cached'[g] = cached[g]
    BY <1>1, <1>8, <2>1 DEF LoadFails, Loaded, Putpages
  <2>4. \A t \in Seg, k \in Off : pte[t][k] # None => pte'[t][k] = pte[t][k]
    <3>1. CASE LoadFails(p)
      BY <3>1 DEF LoadFails
    <3>2. CASE Loaded(p)
      <4>1. \/ pte' = [pte EXCEPT ![s][o] = own[p]] /\ pte[s][o] = None
            \/ pte' = [pte EXCEPT ![s][o] = pte[s][o]]
        BY <3>2 DEF Loaded, Install, At
      <4> QED  BY <1>1, <2>1, <4>1 DEF Ptes
    <3> QED  BY <1>8, <3>1, <3>2
  <2> QED  BY <1>4, <2>1, <2>2, <2>3, <2>4
<1>9. CASE ReadOnly(p)
  <2>1. /\ cur = p /\ pc[p] = "common" /\ MayShow(p)
        /\ UNCHANGED <<segs, spaces, newtlb, cur, pte, ref, cached>>
        /\ map' = [map EXCEPT ![us[p]][o] = [page |-> At(p), write |-> FALSE]]
    BY <1>9 DEF ReadOnly, Common, Putmmu, flushes, pages
  <2>2. us[p] \in Space /\ o \in Off /\ At(p) \in Page
    BY <2>1, InFault
  <2>3. NewEntry(p)
    <3>1. map'[us[p]][o] = Entry(At(p), FALSE)
      BY <1>1, <2>1, <2>2 DEF Entry
    <3> QED  BY <2>1, <2>2, <3>1, EntryIs DEF NewEntry, At, MayShow
  <2>4. MapStep(p)
    BY <1>1, <2>1, <2>2, <2>3 DEF MapStep
  <2> QED  BY <2>1, <2>4, MapStepKeeps
<1>10. CASE CopyOnWrite(p)
  <2>1. /\ cur = p /\ pc[p] = "common" /\ ref[At(p)] > 1
        /\ UNCHANGED <<segs, spaces, newtlb, cur>>
    BY <1>10 DEF CopyOnWrite, Common, Putmmu, flushes
  <2>2. us[p] \in Space /\ s \in Seg /\ o \in Off /\ At(p) \in Page
    BY <2>1, InFault
  <2>3. PICK g \in Free :
          /\ pte' = [pte EXCEPT ![s][o] = g] /\ ref' = [ref EXCEPT ![At(p)] = @ - 1, ![g] = 1]
          /\ cached' = [cached EXCEPT ![g] = None]
          /\ map' = [map EXCEPT ![us[p]][o] = [page |-> g, write |-> TRUE]]
    BY <1>10 DEF CopyOnWrite, Putmmu
  <2>4. g \in Page /\ ref[g] = 0
    BY <2>3 DEF Free
  <2>5. NewEntry(p)
    <3>1. map'[us[p]][o] = Entry(g, TRUE)
      BY <1>1, <2>2, <2>3 DEF Entry
    <3>2. pte'[s][o] = g /\ ref'[g] = 1 /\ cached'[g] = None
      BY <1>1, <2>2, <2>3, <2>4 DEF Ptes
    <3> QED  BY <2>4, <3>1, <3>2, EntryIs DEF NewEntry
  <2>6. \A t \in Seg, k \in Off : pte'[t][k] = IF t = s /\ k = o THEN g ELSE pte[t][k]
    BY <1>1, <2>2, <2>3 DEF Ptes
  <2>7. \A x \in Page : ref[x] = 1 /\ cached[x] = None => ref'[x] = 1 /\ cached'[x] = None
    BY <1>1, <2>1, <2>2, <2>3, <2>4
  <2>8. \A u \in Space, k \in Off : map'[u][k] # map[u][k] => u = us[p] /\ k = o
    BY <1>1, <2>2, <2>3
  <2>9. MapStep(p)
    BY <1>1, <2>1, <2>2, <2>5, <2>6, <2>7, <2>8 DEF MapStep, At
  <2> QED  BY <2>1, <2>9, MapStepKeeps
<1>11. CASE Own(p) \/ OwnAgain(p)
  <2>1. /\ cur = p /\ pc[p] \in {"common", "dup"} /\ Duppage(At(p))
        /\ UNCHANGED <<segs, spaces, newtlb, cur, pte, ref>>
        /\ map' = [map EXCEPT ![us[p]][o] = [page |-> At(p), write |-> TRUE]]
        /\ Alone(p) \/ pc[p] = "dup"
    BY <1>11 DEF Own, OwnAgain, Alone, Common, Putmmu, Goto, Duppage, flushes
  <2>2. us[p] \in Space /\ s \in Seg /\ o \in Off /\ At(p) \in Page
    BY <2>1, InFault
  <2>3. ref[At(p)] = 1
    <3>1. ref[At(p)] >= 1 /\ ref[At(p)] \in Nat
      BY <1>1, <2>2, PageFacts DEF IInv, At
    <3>2. ref[At(p)] <= 1 \/ ref[At(p)] = 1
      BY <2>1 DEF NoRace, Alone
    <3> QED  BY <3>1, <3>2
  <2>4. /\ cached'[At(p)] = None
        /\ \A x \in Page : ref[x] = 1 /\ cached[x] = None => cached'[x] = None
    BY <1>1, <2>1, <2>2, <2>3 DEF Duppage, Free
  <2>5. NewEntry(p)
    <3>1. map'[us[p]][o] = Entry(At(p), TRUE)
      BY <1>1, <2>1, <2>2 DEF Entry
    <3>2. pte'[s][o] = At(p) /\ ref'[At(p)] = 1 /\ cached'[At(p)] = None
      BY <2>1, <2>3, <2>4 DEF At
    <3>3. /\ Entry(At(p), TRUE) # None /\ Entry(At(p), TRUE).page = At(p)
          /\ Entry(At(p), TRUE).write
      BY <2>2, EntryIs
    <3> QED  BY <3>1, <3>2, <3>3 DEF NewEntry
  <2>6. MapStep(p)
    BY <1>1, <2>1, <2>2, <2>4, <2>5 DEF MapStep
  <2> QED  BY <2>1, <2>6, MapStepKeeps
<1> QED  BY <1>3, <1>5, <1>6, <1>7, <1>8, <1>9, <1>10, <1>11 DEF Fault

(* MapInv taken apart: a process whose space is as it left it, and what     *)
(* it sees there.                                                           *)
Seen(p) == us[p] # None /\ owner[us[p]] = p /\ seg[p] # None /\ (p = cur \/ ~newtlb[p])

(* What such a process sees is right.                                       *)
Shown(p) == \A o \in Off : LET e == map[us[p]][o] IN e # None =>
    /\ pte[seg[p]][o] = e.page
    /\ e.write => ref[e.page] = 1 /\ cached[e.page] = None
    /\ ~e.write => Users(seg[p]) = {p}

(* MapInv is that these see what is right.                                  *)
LEMMA MapInvSplit == MapInv <=> \A p \in Proc : Seen(p) => Shown(p)
  BY DEF MapInv, Seen, Shown

(* What a process sees stays right while its space, its table and the       *)
(* pages in it are the same.                                                *)
LEMMA ShownKept ==
    ASSUME IInv, MapInv, NEW q \in Proc, Seen(q), us'[q] = us[q], seg'[q] = seg[q],
           \A o \in Off : map'[us[q]][o] = map[us[q]][o],
           \A o \in Off : LET g == pte[seg[q]][o] IN
             /\ pte'[seg[q]][o] = g
             /\ g \in Page /\ ref[g] = 1 => ref'[g] = 1 /\ cached'[g] = cached[g],
           Users(seg[q]) = {q} => Users(seg[q])' = {q}
    PROVE  Shown(q)'
<1>1. Shown(q) /\ us[q] \in Space /\ seg[q] \in Seg
  BY MapInvSplit DEF Seen, IInv, PagesCounted, TypeOK
<1> SUFFICES ASSUME NEW o \in Off, map[us[q]][o] # None
             PROVE  LET e == map[us[q]][o] IN
                    /\ pte'[seg[q]][o] = e.page
                    /\ e.write => ref'[e.page] = 1 /\ cached'[e.page] = None
                    /\ ~e.write => Users(seg[q])' = {q}
  BY DEF Shown, Users
<1>2. map[us[q]][o].page \in Page
  BY <1>1 DEF IInv, PagesCounted, TypeOK
<1> QED  BY <1>1, <1>2 DEF Shown

(* A process that is switched to sees nothing, or what it saw before,       *)
(* unless it had been told to flush.                                        *)
LEMMA SwitchMaps ==
    ASSUME IInv, MapInv, NEW p \in Proc, Switch(p)
    PROVE  MapInv'
<1> USE UserMemoryAssumption
<1>1. /\ cur' = p /\ UNCHANGED <<segs, pte, slk, pages, acc, own, pc>> /\ SpaceStep(p)
  BY SpaceSteps DEF Switch
<1>2. /\ us \in [Proc -> Space \cup {None}] /\ owner \in [Space -> Proc \cup {None}]
      /\ map \in [Space -> [Off -> [page: Page, write: BOOLEAN] \cup {None}]]
  BY DEF IInv, PagesCounted, TypeOK
<1>3. ASSUME NEW q \in Proc, Seen(q)'
      PROVE  Shown(q)'
  <2>1. \/ \A o \in Off : map'[us'[q]][o] = None
        \/ Seen(q) /\ us'[q] = us[q] /\ \A o \in Off : map'[us[q]][o] = map[us[q]][o]
    <3>1. CASE q = p
      BY <1>1, <3>1, <1>3 DEF Seen, SpaceStep, Empty, segs
    <3>2. CASE q # p
      <4>1. us'[q] = us[q] /\ newtlb'[q] = newtlb[q] /\ owner'[us'[p]] = p
        BY <1>1, <3>2 DEF SpaceStep
      <4>2. us[q] \in Space /\ us[q] # us'[p] /\ ~newtlb[q] /\ owner'[us[q]] = q /\ seg[q] # None
        BY <1>1, <1>2, <1>3, <3>2, <4>1 DEF Seen, segs
      <4>3. owner'[us[q]] = owner[us[q]] /\ map'[us[q]] = map[us[q]]
        BY <1>1, <4>2 DEF SpaceStep
      <4> QED  BY <4>1, <4>2, <4>3 DEF Seen
    <3> QED  BY <3>1, <3>2
  <2>2. seg' = seg /\ pte' = pte /\ ref' = ref /\ cached' = cached
    BY <1>1 DEF segs, pages
  <2>3. CASE \A o \in Off : map'[us'[q]][o] = None
    BY <2>3 DEF Shown
  <2>4. CASE Seen(q) /\ us'[q] = us[q] /\ \A o \in Off : map'[us[q]][o] = map[us[q]][o]
    <3>1. Users(seg[q]) = {q} => Users(seg[q])' = {q}
      BY <2>2 DEF Users
    <3> QED  BY <2>2, <2>4, <3>1, ShownKept
  <2> QED  BY <2>1, <2>3, <2>4
<1> QED  BY <1>3, MapInvSplit DEF MapInv, Seen, Shown

(* A page that is counted once is in no other segment at all.               *)
LEMMA InOnePlace ==
    ASSUME IInv, NEW s \in Seg, NEW t \in Seg, s # t, NEW o \in Off,
           pte[s][o] \in Page, ref[pte[s][o]] = 1
    PROVE  \A k \in Off : pte[t][k] # pte[s][o]
  BY PageFacts DEF IInv

(* A segment that is given up is nobody's, or shared by one process less.   *)
LEMMA PutsegsMaps ==
    ASSUME IInv, MapInv, NEW p \in Proc, Putsegs(p)
    PROVE  MapInv'
<1> USE UserMemoryAssumption
<1> DEFINE s == seg[p]
<1>1. /\ cur = p /\ pc[p] = "user" /\ seg' = [seg EXCEPT ![p] = None]
      /\ UNCHANGED <<cached, spaces, map, flushes, cur>>
      /\ \/ /\ Users(s) = {p} /\ Putpages(PagesOf(s)) /\ pte' = [pte EXCEPT ![s] = Empty]
         \/ UNCHANGED <<ref, pte>>
  BY DEF Putsegs, Putseg, Goto
<1>2. s \in Seg /\ seg \in [Proc -> Seg \cup {None}] /\ pte \in Ptes
  BY <1>1, InFault, PageFacts DEF IInv, PagesCounted, TypeOK
<1>3. ASSUME NEW q \in Proc, Seen(q)'
      PROVE  Shown(q)'
  <2>1. q # p /\ seg'[q] = seg[q] /\ seg[q] \in Seg /\ us' = us /\ map' = map
    BY <1>1, <1>2, <1>3 DEF Seen, spaces
  <2>2. Seen(q)
    BY <1>1, <1>3, <2>1 DEF Seen, spaces, flushes
  <2>3. Users(seg[q]) = {q} => Users(seg[q])' = {q}
    BY <1>1, <1>2, <2>1 DEF Users
  <2>4. \A o \in Off : LET g == pte[seg[q]][o] IN
             /\ pte'[seg[q]][o] = g
             /\ g \in Page /\ ref[g] = 1 => ref'[g] = 1 /\ cached'[g] = cached[g]
    <3>1. CASE UNCHANGED <<ref, pte>>
      BY <1>1, <3>1
    <3>2. CASE Users(s) = {p} /\ Putpages(PagesOf(s)) /\ pte' = [pte EXCEPT ![s] = Empty]
      <4>1. seg[q] # s
        BY <2>1, <3>2 DEF Users
      <4>2. \A o \in Off : pte[seg[q]][o] \in Page /\ ref[pte[seg[q]][o]] = 1
                              => pte[seg[q]][o] \notin PagesOf(s)
        BY <1>2, <2>1, <4>1, InOnePlace DEF PagesOf
      <4>3. \A g \in Page : g \notin PagesOf(s) => ref'[g] = ref[g] /\ cached'[g] = cached[g]
        BY <1>1, <3>2 DEF Putpages
      <4>4. \A o \in Off : pte'[seg[q]][o] = pte[seg[q]][o]
        BY <1>2, <3>2, <4>1 DEF Ptes
      <4> QED  BY <4>2, <4>3, <4>4
    <3> QED  BY <1>1, <3>1, <3>2
  <2> QED  BY <2>1, <2>2, <2>3, <2>4, ShownKept
<1> QED  BY <1>3, MapInvSplit DEF MapInv, Seen, Shown

(* A process that flushes its space, and changes only its segment, sees     *)
(* nothing that could be wrong; others that share the segment are told to   *)
(* flush.                                                                   *)
LEMMA FlushedMaps ==
    ASSUME IInv, MapInv, NEW p \in Proc, cur = p, cur' = cur, us' = us, owner' = owner,
           us[p] \in Space, owner[us[p]] = p,
           \A o \in Off : map'[us[p]][o] = None,
           \A u \in Space \ {us[p]} : map'[u] = map[u],
           \A q \in Proc \ {p} : Seen(q)' => ~newtlb[q] /\ seg'[q] = seg[q],
           \A q \in Proc \ {p} : Seen(q)' /\ seg[q] # None =>
             /\ Users(seg[q]) = {q} => Users(seg[q])' = {q}
             /\ \A o \in Off : LET g == pte[seg[q]][o] IN
                  /\ pte'[seg[q]][o] = g
                  /\ g \in Page /\ ref[g] = 1 => ref'[g] = 1 /\ cached'[g] = cached[g]
    PROVE  MapInv'
<1>1. ASSUME NEW q \in Proc, Seen(q)'
      PROVE  Shown(q)'
  <2>1. CASE q = p
    BY <2>1 DEF Shown
  <2>2. CASE q # p
    <3>1. Seen(q) /\ seg'[q] = seg[q] /\ us'[q] = us[q] /\ us[q] # us[p] /\ us[q] \in Space
      BY <1>1, <2>2 DEF Seen, IInv, PagesCounted, TypeOK
    <3>2. seg[q] # None /\ \A o \in Off : map'[us[q]][o] = map[us[q]][o]
      BY <3>1 DEF Seen
    <3> QED  BY <1>1, <2>2, <3>1, <3>2, ShownKept
  <2> QED  BY <2>1, <2>2
<1> QED  BY <1>1, MapInvSplit DEF MapInv, Seen, Shown

(* What flushmmu does.                                                      *)
LEMMA Flushed ==
    ASSUME IInv, NEW p \in Proc, cur = p, pc[p] # "none", Flushmmu(p), UNCHANGED spaces
    PROVE  /\ us' = us /\ owner' = owner /\ us[p] \in Space /\ owner[us[p]] = p
           /\ \A o \in Off : map'[us[p]][o] = None
           /\ \A u \in Space \ {us[p]} : map'[u] = map[u]
<1>1. us[p] \in Space /\ owner[us[p]] = p
  BY UserMemoryAssumption DEF IInv, SpaceInv, PagesCounted, TypeOK
<1> QED  BY <1>1 DEF Flushmmu, Mmapflush, spaces, Empty, IInv, PagesCounted, TypeOK

(* procflushseg tells everybody else who shares the segment to flush.       *)
LEMMA Marked ==
    ASSUME IInv, NEW p \in Proc, NEW q \in Proc, q # p, seg[p] = seg[q],
           Procflushseg(seg[p])
    PROVE  newtlb'[q]
<1> DEFINE U == Users(seg[p])
<1>1. IsFiniteSet(U) /\ Cardinality(U) \in Nat
  <2>1. U \subseteq Proc
    BY DEF Users
  <2> QED  BY <2>1, UserMemoryAssumption, FS_Subset, FS_CardinalityType
<1>2. p \in U /\ q \in U
  BY DEF Users
<1>3. Cardinality(U) # 0
  BY <1>1, <1>2, FS_EmptySet
<1>4. Cardinality(U) # 1
  <2>1. ASSUME Cardinality(U) = 1 PROVE FALSE
    <3>1. PICK x : U = {x}
      BY <1>1, <2>1, FS_Singleton
    <3> QED  BY <1>2, <3>1
  <2> QED  BY <2>1
<1>5. Cardinality(U) > 1
  BY <1>1, <1>3, <1>4
<1> QED  BY <1>5 DEF Procflushseg

(* exec has given up the old segment, and the new one has no pages.         *)
LEMMA ExecMaps ==
    ASSUME IInv, MapInv, NEW p \in Proc, Exec(p)
    PROVE  MapInv'
<1>1. /\ cur = p /\ cur' = cur /\ pc[p] = "bare" /\ Flushmmu(p) /\ UNCHANGED spaces
      /\ UNCHANGED <<pte, ref, cached, newtlb>>
  BY DEF Exec, Goto, pages
<1>2. PICK s \in Seg : Users(s) = {} /\ seg' = [seg EXCEPT ![p] = s]
  BY DEF Exec
<1>3. seg \in [Proc -> Seg \cup {None}] /\ seg[p] = None
  BY <1>1 DEF IInv, PagesCounted, TypeOK, PlaceInv
<1>4. \A q \in Proc \ {p} : seg'[q] = seg[q] /\ seg[q] # s
  BY <1>2, <1>3 DEF Users
<1>5. ASSUME NEW q \in Proc \ {p}, Seen(q)'
      PROVE  ~newtlb[q] /\ (seg[q] # None /\ Users(seg[q]) = {q} => Users(seg[q])' = {q})
  <2>1. ~newtlb[q]
    BY <1>1, <1>5 DEF Seen
  <2>2. seg[q] # None => Users(seg[q])' = Users(seg[q])
    BY <1>2, <1>3, <1>4 DEF Users
  <2> QED  BY <2>1, <2>2
<1> QED  BY <1>1, <1>4, <1>5, Flushed, FlushedMaps

(* The segment is shared from now on: pages that may only be read were      *)
(* mapped to its only user, whose space is flushed.                         *)
LEMMA ShareMaps ==
    ASSUME IInv, MapInv, NEW p \in Proc, NEW q \in Proc, Share(p, q)
    PROVE  MapInv'
<1> USE UserMemoryAssumption
<1>1. /\ cur = p /\ cur' = cur /\ pc[p] = "user" /\ pc[q] = "none"
      /\ Flushmmu(p) /\ UNCHANGED spaces
      /\ UNCHANGED <<pte, ref, cached, newtlb>> /\ seg' = [seg EXCEPT ![q] = seg[p]]
  BY DEF Share, Child, pages
<1>2. /\ seg \in [Proc -> Seg \cup {None}] /\ seg[p] \in Seg /\ us[q] = None
      /\ p # q /\ seg[q] = None
  BY <1>1, InFault DEF IInv, PagesCounted, TypeOK, PlaceInv, SpaceInv
<1>3. ASSUME NEW r \in Proc \ {p}, Seen(r)'
      PROVE  /\ ~newtlb[r] /\ seg'[r] = seg[r]
             /\ seg[r] # None /\ Users(seg[r]) = {r} => Users(seg[r])' = {r}
  <2>1. r # q /\ ~newtlb[r]
    BY <1>1, <1>2, <1>3 DEF Seen, spaces
  <2>2. seg'[r] = seg[r]
    BY <1>1, <1>2, <2>1
  <2>3. seg[r] # None /\ Users(seg[r]) = {r} => Users(seg[r])' = {r}
    BY <1>1, <1>2, <2>1 DEF Users
  <2> QED  BY <2>1, <2>2, <2>3
<1> QED  BY <1>1, <1>3, Flushed, FlushedMaps

(* Pages that could be written are now shared: fork flushes the parent's    *)
(* space, and its sharers are told to.                                      *)
LEMMA CopyMaps ==
    ASSUME IInv, MapInv, NEW p \in Proc, NEW q \in Proc, Copy(p, q)
    PROVE  MapInv'
<1> USE UserMemoryAssumption
<1> DEFINE t == seg[p]
<1>1. /\ cur = p /\ cur' = cur /\ pc[p] = "user" /\ pc[q] = "none"
      /\ Flushmmu(p) /\ UNCHANGED spaces /\ cached' = cached /\ Procflushseg(seg[p])
      /\ ref' = [g \in Page |-> IF g \in PagesOf(t) THEN ref[g] + 1 ELSE ref[g]]
  BY DEF Copy, Child
<1>2. PICK s \in Seg :
        Users(s) = {} /\ seg' = [seg EXCEPT ![q] = s] /\ pte' = [pte EXCEPT ![s] = pte[t]]
  BY DEF Copy
<1>3. /\ seg \in [Proc -> Seg \cup {None}] /\ t \in Seg /\ us[q] = None
      /\ newtlb \in [Proc -> BOOLEAN] /\ p # q /\ seg[q] = None /\ pte \in Ptes
  BY <1>1, InFault, PageFacts DEF IInv, PagesCounted, TypeOK, PlaceInv, SpaceInv
<1>4. ASSUME NEW r \in Proc \ {p}, Seen(r)'
      PROVE  /\ ~newtlb[r] /\ seg'[r] = seg[r]
             /\ seg[r] # None =>
                  /\ Users(seg[r]) = {r} => Users(seg[r])' = {r}
                  /\ \A o \in Off : LET g == pte[seg[r]][o] IN
                       /\ pte'[seg[r]][o] = g
                       /\ g \in Page /\ ref[g] = 1 => ref'[g] = 1 /\ cached'[g] = cached[g]
  <2>1. r # q /\ ~newtlb'[r]
    BY <1>1, <1>3, <1>4 DEF Seen, spaces
  <2>2. seg'[r] = seg[r] /\ ~newtlb[r] /\ seg[r] # s /\ seg[r] # t
    BY <1>1, <1>2, <1>3, <2>1, Marked DEF Procflushseg, Users
  <2>3. seg[r] # None => Users(seg[r])' = Users(seg[r])
    BY <1>2, <1>3, <2>2 DEF Users
  <2>4. ASSUME seg[r] # None, NEW o \in Off
        PROVE  LET g == pte[seg[r]][o] IN
               /\ pte'[seg[r]][o] = g
               /\ g \in Page /\ ref[g] = 1 => ref'[g] = 1 /\ cached'[g] = cached[g]
    <3> DEFINE g == pte[seg[r]][o]
    <3>1. seg[r] \in Seg /\ pte'[seg[r]][o] = g
      BY <1>2, <1>3, <2>2, <2>4 DEF Ptes
    <3>2. g \in Page /\ ref[g] = 1 => g \notin PagesOf(t)
      BY <1>3, <2>2, <3>1, InOnePlace DEF PagesOf
    <3> QED  BY <1>1, <3>1, <3>2
  <2> QED  BY <2>2, <2>3, <2>4
<1> QED  BY <1>1, <1>4, Flushed, FlushedMaps

(* Pages that are cut are in nobody's space afterwards, or he is told to    *)
(* flush.                                                                   *)
LEMMA BrkMaps ==
    ASSUME IInv, MapInv, NEW p \in Proc, Brk(p)
    PROVE  MapInv'
<1> USE UserMemoryAssumption
<1> DEFINE s == seg[p]
<1>1. /\ cur = p /\ cur' = cur /\ pc[p] = "user"
      /\ UNCHANGED spaces /\ cached' = cached /\ seg' = seg
  BY DEF Brk, Goto
<1>2. PICK n \in 0..NPages :
        /\ Putpages(Beyond(pte[s], n)) /\ pte' = CutAt(pte, s, n)
        /\ IF n < size[s] THEN Procflushseg(s) /\ Flushmmu(p) ELSE UNCHANGED <<newtlb, map, flushm>>
  BY DEF Brk, Beyond, CutAt
<1>3. /\ seg \in [Proc -> Seg \cup {None}] /\ s \in Seg /\ newtlb \in [Proc -> BOOLEAN]
      /\ pte \in Ptes /\ size[s] \in Nat /\ ref \in [Page -> Nat]
  BY <1>1, InFault, PageFacts DEF IInv, PagesCounted, TypeOK
<1>4. \A x \in Page : ref'[x] = IF x \in Beyond(pte[s], n) THEN ref[x] - 1 ELSE ref[x]
  BY <1>2, <1>3, CutRefs DEF IInv
<1>5. \A x \in Beyond(pte[s], n) : \E o \in Off : o > n /\ x = pte[s][o] /\ x # None
  BY DEF Beyond, Off
<1>6. CASE n < size[s]
  <2>1. ASSUME NEW r \in Proc \ {p}, Seen(r)'
        PROVE  /\ ~newtlb[r]
               /\ seg[r] # None =>
                    \A o \in Off : LET g == pte[seg[r]][o] IN
                         /\ pte'[seg[r]][o] = g
                         /\ g \in Page /\ ref[g] = 1 => ref'[g] = 1 /\ cached'[g] = cached[g]
    <3>1. ~newtlb'[r]
      BY <1>1, <2>1 DEF Seen
    <3>2. ~newtlb[r] /\ seg[r] # s
      BY <1>1, <1>2, <1>3, <1>6, <2>1, <3>1, Marked DEF Procflushseg
    <3>3. ASSUME seg[r] # None, NEW o \in Off
          PROVE  LET g == pte[seg[r]][o] IN
                 /\ pte'[seg[r]][o] = g
                 /\ g \in Page /\ ref[g] = 1 => ref'[g] = 1 /\ cached'[g] = cached[g]
      <4> DEFINE g == pte[seg[r]][o]
      <4>1. seg[r] \in Seg /\ pte'[seg[r]][o] = g
        BY <1>2, <1>3, <3>2, <3>3 DEF Ptes, CutAt
      <4>2. g \in Page /\ ref[g] = 1 => g \notin Beyond(pte[s], n)
        BY <1>3, <1>5, <3>2, <4>1, InOnePlace
      <4> QED  BY <1>1, <1>4, <4>1, <4>2
    <3> QED  BY <3>2, <3>3
  <2>2. \A r : Users(r)' = Users(r)
    BY <1>1 DEF Users
  <2>3. Flushmmu(p)
    BY <1>2, <1>6
  <2> QED  BY <1>1, <2>1, <2>2, <2>3, Flushed, FlushedMaps
<1>7. CASE ~(n < size[s])
  <2>1. \A o \in Off : o > n => pte[s][o] = None
    BY <1>3, <1>7 DEF IInv, PlaceInv, Off
  <2>2. \A t \in Seg, o \in Off : pte'[t][o] = pte[t][o]
    BY <1>2, <1>3, <2>1 DEF CutAt, Ptes
  <2>3. \A x \in Page : ref'[x] = ref[x]
    BY <1>4, <1>5, <2>1
  <2>4. ASSUME NEW r \in Proc, Seen(r)'
        PROVE  Shown(r)'
    <3>1. Seen(r) /\ seg[r] \in Seg
      BY <1>1, <1>2, <1>3, <1>7, <2>4 DEF Seen, spaces
    <3>2. Users(seg[r])' = Users(seg[r])
      BY <1>1 DEF Users
    <3>3. us' = us /\ map' = map
      BY <1>1, <1>2, <1>7 DEF spaces
    <3> QED  BY <1>1, <2>2, <2>3, <3>1, <3>2, <3>3, ShownKept
  <2> QED  BY <2>4, MapInvSplit DEF MapInv, Seen, Shown
<1> QED  BY <1>6, <1>7

(* The space of a process that is gone is empty.                            *)
LEMMA MmureleaseMaps ==
    ASSUME IInv, MapInv, NEW p \in Proc, Mmurelease(p)
    PROVE  MapInv'
<1> DEFINE u == us[p]
<1>1. /\ cur = p /\ cur' = None /\ UNCHANGED <<segs, pte, pages, newtlb>>
      /\ us' = [us EXCEPT ![owner[u]] = None] /\ owner' = [owner EXCEPT ![u] = None]
      /\ map' = [map EXCEPT ![u] = Empty]
  BY DEF Mmurelease, Goto, Putspace, Mmapflush
<1>2. /\ u \in Space /\ owner[u] = p /\ us \in [Proc -> Space \cup {None}]
      /\ owner \in [Space -> Proc \cup {None}]
      /\ map \in [Space -> [Off -> [page: Page, write: BOOLEAN] \cup {None}]]
  BY <1>1, UserMemoryAssumption DEF IInv, SpaceInv, PagesCounted, TypeOK
<1>3. ASSUME NEW q \in Proc, Seen(q)'
      PROVE  Shown(q)'
  <2>1. q # p /\ us'[q] = us[q]
    BY <1>1, <1>2, <1>3 DEF Seen
  <2>2. us[q] \in Space /\ us[q] # u /\ owner[us[q]] = q
    BY <1>1, <1>2, <1>3, <2>1, UserMemoryAssumption DEF Seen
  <2>3. Seen(q) /\ map'[us[q]] = map[us[q]]
    BY <1>1, <1>2, <1>3, <2>1, <2>2, UserMemoryAssumption DEF Seen, segs
  <2>4. seg' = seg /\ pte' = pte /\ ref' = ref /\ cached' = cached
    BY <1>1 DEF segs, pages
  <2>5. Users(seg[q])' = Users(seg[q])
    BY <2>4 DEF Users
  <2> QED  BY <2>1, <2>3, <2>4, <2>5, ShownKept
<1> QED  BY <1>3, MapInvSplit DEF MapInv, Seen, Shown

----------------------------------------------------------------------------
(* Pages that are given up keep the image cache clean: what is cached is    *)
(* not forgotten.                                                           *)
LEMMA GivenUp ==
    ASSUME IInv, CleanInv, NEW G, Putpages(G), cached' = cached,
           \A q \in Proc : own'[q] = own[q] \/ own'[q] = None,
           \A q \in Proc : own'[q] # None => own[q] \notin G
    PROVE  CleanInv'
<1>1. content' = [g \in Page |-> IF ref'[g] = 0 /\ cached[g] = None THEN "zero" ELSE content[g]]
  BY DEF Putpages
<1>2. \A g \in Page : cached[g] # None => content'[g] = content[g]
  BY <1>1
<1>3. ASSUME NEW q \in Proc, own'[q] # None
      PROVE  content'[own'[q]] = "file"
  <2>1. own'[q] = own[q] /\ own[q] \in Page /\ own[q] \notin G /\ content[own[q]] = "file"
    BY <1>3 DEF CleanInv, IInv, PagesCounted, TypeOK
  <2>2. ref'[own[q]] = ref[own[q]] /\ ref[own[q]] >= 1 /\ ref[own[q]] \in Nat
    BY <2>1, PageFacts DEF Putpages, IInv
  <2> QED  BY <1>1, <2>1, <2>2
<1> QED  BY <1>2, <1>3 DEF CleanInv, CacheClean

(* The image cache stays clean: what a program may store to is not in the   *)
(* cache (MapInv), and what is put there has just been read.                *)
LEMMA CleanKeeps ==
    ASSUME IInv, MapInv, CleanInv, [Next]_vars
    PROVE  CleanInv'
<1> USE UserMemoryAssumption
<1>1. /\ own \in [Proc -> Page \cup {None}] /\ ref \in [Page -> Nat]
      /\ cached \in [Page -> Off \cup {None}] /\ content \in [Page -> {"file", "zero", "new"}]
      /\ pte \in Ptes /\ \A g \in Free : g \in Page /\ \A q \in Proc : own[q] # g
  BY PageFacts DEF IInv, PagesCounted, TypeOK
<1>2. ASSUME UNCHANGED <<cached, content, own>>
      PROVE  CleanInv'
  BY <1>2 DEF CleanInv, CacheClean
<1>3. CASE UNCHANGED vars
  BY <1>2, <1>3 DEF vars, pages
<1>4. ASSUME NEW p \in Proc,
             \/ Switch(p) \/ FaultCall(p) \/ NoSegment(p) \/ HasPage(p) \/ LookPage(p)
             \/ LoadWaits(p) \/ ReadOnly(p) \/ NoMemory(p) \/ OwnWaits(p)
             \/ Exec(p) \/ Mmurelease(p)
      PROVE  CleanInv'
  BY <1>2, <1>4 DEF Switch, FaultCall, NoSegment, HasPage, LookPage, LoadWaits, ReadOnly, Putmmu,
                    NoMemory, OwnWaits, Exec, Mmurelease, pages
<1>5. ASSUME NEW p \in Proc, NEW q \in Proc, Share(p, q) \/ Copy(p, q)
      PROVE  CleanInv'
  BY <1>2, <1>5 DEF Share, Copy, pages
<1>6. ASSUME NEW p \in Proc, ZeroFill(p) PROVE CleanInv'
  <2>1. PICK g \in Free : cached' = [cached EXCEPT ![g] = None] /\ content' = [content EXCEPT ![g] = "zero"]
    BY <1>6 DEF ZeroFill
  <2>2. own' = own
    BY <1>6 DEF ZeroFill
  <2> QED  BY <1>1, <2>1, <2>2 DEF CleanInv, CacheClean
<1>7. ASSUME NEW p \in Proc, Load(p) PROVE CleanInv'
  <2>1. PICK g \in Free : /\ cached' = [cached EXCEPT ![g] = None]
                          /\ content' = [content EXCEPT ![g] = "file"] /\ own' = [own EXCEPT ![p] = g]
    BY <1>7 DEF Load
  <2> QED  BY <1>1, <2>1 DEF CleanInv, CacheClean
<1>8. ASSUME NEW p \in Proc, LoadFails(p) \/ Loaded(p) PROVE CleanInv'
  <2>1. cur = p /\ pc[p] = "io" /\ own' = [own EXCEPT ![p] = None]
    BY <1>8 DEF LoadFails, Loaded, Lock, Goto
  <2>2. own[p] \in Page /\ \A q \in Proc : own[q] = own[p] => q = p
    BY <2>1, InFault DEF IInv, OffsetInv
  <2>3. CASE Putpages({own[p]}) /\ cached' = cached
    <3>1. \A q \in Proc : /\ own'[q] = own[q] \/ own'[q] = None
                          /\ own'[q] # None => own[q] \notin {own[p]}
      BY <1>1, <2>1, <2>2
    <3> QED  BY <2>3, <3>1, GivenUp
  <2>4. CASE cached' = [cached EXCEPT ![own[p]] = acc[p].off] /\ content' = content
    BY <1>1, <2>1, <2>2, <2>4 DEF CleanInv, CacheClean
  <2> QED  BY <1>8, <2>3, <2>4 DEF LoadFails, Loaded
<1>9. ASSUME NEW p \in Proc, CopyOnWrite(p) PROVE CleanInv'
  <2>1. PICK g \in Free : cached' = [cached EXCEPT ![g] = None] /\ Copypage(At(p), g)
    BY <1>9 DEF CopyOnWrite
  <2>2. own' = own
    BY <1>9 DEF CopyOnWrite, Putmmu
  <2> QED  BY <1>1, <2>1, <2>2 DEF CleanInv, CacheClean, Copypage
<1>10. ASSUME NEW p \in Proc, Own(p) \/ OwnAgain(p) PROVE CleanInv'
  <2>1. Duppage(At(p)) /\ own' = own /\ cur = p /\ pc[p] \in {"common", "dup"}
    BY <1>10 DEF Own, OwnAgain, Putmmu, Goto
  <2>2. At(p) \in Page
    BY <2>1, InFault
  <2>3. CASE UNCHANGED <<cached, content>>
    BY <1>2, <2>1, <2>3
  <2>4. CASE \E h \in Free : /\ Copypage(At(p), h)
                             /\ cached' = [cached EXCEPT ![At(p)] = None, ![h] = cached[At(p)]]
                             /\ cached[At(p)] # None
    <3>1. PICK h \in Free : /\ Copypage(At(p), h)
                            /\ cached' = [cached EXCEPT ![At(p)] = None, ![h] = cached[At(p)]]
                            /\ cached[At(p)] # None
      BY <2>4
    <3>2. content[At(p)] = "file" /\ content' = [content EXCEPT ![h] = "file"]
      BY <2>2, <3>1 DEF CleanInv, CacheClean, Copypage
    <3> QED  BY <1>1, <2>1, <2>2, <3>1, <3>2 DEF CleanInv, CacheClean
  <2>5. CASE cached' = [cached EXCEPT ![At(p)] = None] /\ content' = content
    BY <1>1, <2>1, <2>2, <2>5 DEF CleanInv, CacheClean
  <2> QED  BY <2>1, <2>3, <2>4, <2>5 DEF Duppage
<1>11. ASSUME NEW p \in Proc, Store(p) PROVE CleanInv'
  <2>1. /\ cur = p /\ pc[p] = "user" /\ UNCHANGED <<cached, own>>
    BY <1>11 DEF Store, Goto
  <2>2. PICK o \in Off : /\ map[us[p]][o] # None /\ map[us[p]][o].write
                         /\ content' = [content EXCEPT ![map[us[p]][o].page] = "new"]
    BY <1>11 DEF Store, Mapped
  <2> DEFINE x == map[us[p]][o].page
  <2>3. /\ us[p] \in Space /\ owner[us[p]] = p /\ seg[p] \in Seg /\ us[p] # None /\ seg[p] # None
    BY <2>1, InFault
  <2>4. x = pte[seg[p]][o] /\ cached[x] = None
    BY <2>1, <2>2, <2>3 DEF MapInv
  <2>5. x \in Page
    BY <2>2, <2>3 DEF IInv, PagesCounted, TypeOK
  <2>6. \A q \in Proc : own[q] # x
    BY <2>3, <2>4, <2>5 DEF IInv, OffsetInv
  <2> HIDE DEF x
  <2>7. content' = [content EXCEPT ![x] = "new"]
    BY <2>2 DEF x
  <2> QED  BY <1>1, <2>1, <2>4, <2>5, <2>6, <2>7 DEF CleanInv, CacheClean
<1>12. ASSUME NEW p \in Proc, Putsegs(p) PROVE CleanInv'
  <2>1. /\ cur = p /\ pc[p] = "user" /\ UNCHANGED <<cached, own>>
        /\ Putpages(PagesOf(seg[p])) \/ UNCHANGED content
    BY <1>12 DEF Putsegs, Putseg, Goto
  <2>2. seg[p] \in Seg
    BY <2>1, InFault
  <2>3. \A q \in Proc : own[q] # None => own[q] \notin PagesOf(seg[p])
    BY <2>2 DEF IInv, OffsetInv, PagesOf
  <2> QED  BY <1>2, <2>1, <2>3, GivenUp
<1>13. ASSUME NEW p \in Proc, Brk(p) PROVE CleanInv'
  <2>1. /\ cur = p /\ pc[p] = "user" /\ UNCHANGED <<cached, own>>
    BY <1>13 DEF Brk, Goto
  <2>2. PICK n \in 0..NPages : Putpages(Beyond(pte[seg[p]], n))
    BY <1>13 DEF Brk, Beyond
  <2>3. seg[p] \in Seg
    BY <2>1, InFault
  <2>4. \A q \in Proc : own[q] # None => own[q] \notin Beyond(pte[seg[p]], n)
    BY <2>3 DEF IInv, OffsetInv, Beyond, Off
  <2> QED  BY <2>1, <2>2, <2>4, GivenUp
<1> QED  BY <1>3, <1>4, <1>5, <1>6, <1>7, <1>8, <1>9, <1>10, <1>11, <1>12, <1>13 DEF Next, Fault

(* Every step keeps what processes see right, as long as no fork has        *)
(* raced a store.                                                           *)
LEMMA MapKeeps ==
    ASSUME IInv, MapInv, NoRace, [Next]_vars
    PROVE  MapInv'
<1>1. CASE UNCHANGED vars
  BY <1>1 DEF MapInv, Users, vars, segs, pages, spaces, flushes
<1>2. ASSUME NEW p \in Proc, Switch(p) \/ Fault(p) \/ Store(p) \/ Putsegs(p) \/ Exec(p)
                                \/ Mmurelease(p) \/ Brk(p)
      PROVE  MapInv'
  BY <1>2, SwitchMaps, FillMaps, PutsegsMaps, ExecMaps, MmureleaseMaps, BrkMaps
<1>3. ASSUME NEW p \in Proc, NEW q \in Proc, Share(p, q) \/ Copy(p, q)
      PROVE  MapInv'
  BY <1>3, ShareMaps, CopyMaps
<1> QED  BY <1>1, <1>2, <1>3 DEF Next

(* All three hold always, as long as no fork has raced a store.             *)
LEMMA AlwaysMaps == Spec /\ []NoRace => [](IInv /\ MapInv /\ CleanInv)
<1>1. Init => IInv /\ MapInv /\ CleanInv
  <2>1. Init => MapInv /\ CleanInv
    BY UserMemoryAssumption DEF Init, MapInv, CleanInv, CacheClean
  <2> QED  BY <2>1, InitIInv
<1>2. (IInv /\ MapInv /\ CleanInv) /\ NoRace /\ [Next]_vars => (IInv /\ MapInv /\ CleanInv)'
  BY NextKeeps, MapKeeps, CleanKeeps
<1> QED  BY <1>1, <1>2, PTL DEF Spec

(* Unless the race of duppage happens, a program that runs sees its own     *)
(* segment's pages, and may store only to one it shares with nobody.        *)
THEOREM UserMemoryCoherent == Spec /\ []NoRace => []Coherent
<1>1. ASSUME IInv, MapInv PROVE Coherent
  BY <1>1, UserMemoryAssumption DEF IInv, PlaceInv, SpaceInv, MapInv, Coherent, PagesCounted, TypeOK
<1> QED  BY <1>1, AlwaysMaps, PTL

(* Nor does the image cache then give out anything but what is in the file. *)
THEOREM UserMemoryCacheClean == Spec /\ []NoRace => []CacheClean
<1>1. CleanInv => CacheClean
  BY DEF CleanInv
<1> QED  BY <1>1, AlwaysMaps, PTL

----------------------------------------------------------------------------
(* What the page tables mean: the byte of a segment at o.                   *)
LEMMA ContentsAt ==
    ASSUME NEW s \in Seg, NEW o \in Off
    PROVE  Contents[s][o] = IF Users(s) = {} \/ o > size[s] THEN "gone" ELSE View(s, o)
  BY DEF Contents

(* A step that changes no segment and nothing to be seen in one stutters    *)
(* in Memory.                                                               *)
LEMMA Invisible ==
    ASSUME TypeOK, cur' \in Proc \cup {None}, UNCHANGED segs,
           \A s \in Seg, o \in Off : View(s, o)' = View(s, o)
    PROVE  Memory!AbsNext
<1>1. \A s : Users(s)' = Users(s)
  BY DEF Users, segs
<1>2. Contents' = Contents
  BY <1>1 DEF Contents, segs
<1> QED  BY <1>2 DEF Memory!AbsNext, Memory!Run, segs

(* A slot that is the same, with a page of the same content, looks the      *)
(* same.                                                                    *)
LEMMA ViewKept ==
    ASSUME NEW s \in Seg, NEW o \in Off, kind'[s] = kind[s], pte'[s][o] = pte[s][o],
           pte[s][o] # None => content'[pte[s][o]] = content[pte[s][o]]
    PROVE  View(s, o)' = View(s, o)
  BY DEF View, Fresh

(* putpage forgets what is in a page only if no slot has it.                *)
LEMMA StillCounted ==
    ASSUME IInv', NEW G, Putpages(G)
    PROVE  \A s \in Seg, o \in Off :
             pte'[s][o] # None => content'[pte'[s][o]] = content[pte'[s][o]]
<1>1. /\ pte' \in Ptes /\ own' \in [Proc -> Page \cup {None}]
      /\ \A g \in Page : ref'[g] = Count(pte', own', g)
  BY DEF IInv, PagesCounted, TypeOK, Ptes, Count, SlotsOf, SlotsIn, Owners, OwnersIn
<1>2. \A s \in Seg, o \in Off : pte'[s][o] # None => pte'[s][o] \in Page
  BY <1>1 DEF Ptes
<1>3. \A g \in Page, s \in Seg, o \in Off : pte'[s][o] = g => ref'[g] >= 1
  BY <1>1, Counting
<1>4. \A g \in Page : ref'[g] >= 1 => content'[g] = content[g]
  BY DEF Putpages
<1> QED  BY <1>2, <1>3, <1>4

(* Programs cannot tell that a page is loaded, shared, copied or taken      *)
(* out of the cache.                                                        *)
LEMMA FaultUnseen ==
    ASSUME IInv, CleanInv, IInv', NEW p \in Proc, Fault(p)
    PROVE  Memory!AbsNext
<1> USE UserMemoryAssumption
<1> DEFINE s == seg[p]
           o == acc[p].off
<1>1. /\ pte \in Ptes /\ own \in [Proc -> Page \cup {None}] /\ ref \in [Page -> Nat]
      /\ content \in [Page -> {"file", "zero", "new"}]
      /\ \A g \in Free : g \in Page /\ ref[g] = 0 /\ \A t \in Seg, k \in Off : pte[t][k] # g
      /\ \A t \in Seg, k \in Off : pte[t][k] # None => pte[t][k] \in Page
  BY PageFacts DEF IInv, PagesCounted, TypeOK, Ptes
<1>2. cur = p /\ cur' = cur /\ UNCHANGED segs /\ pc[p] \notin {"none", "bare"}
  BY DEF Fault, FaultCall, NoSegment, HasPage, ZeroFill, LookPage, Load, LoadWaits, LoadFails, Loaded,
         ReadOnly, CopyOnWrite, NoMemory, Own, OwnWaits, OwnAgain, Putmmu, Lock, Goto
<1>3. SUFFICES ASSUME NEW t \in Seg, NEW k \in Off
               PROVE  View(t, k)' = View(t, k)
  BY <1>2, Invisible DEF IInv, PagesCounted
<1>4. ASSUME pte'[t][k] = pte[t][k],
             pte[t][k] # None => content'[pte[t][k]] = content[pte[t][k]]
      PROVE  View(t, k)' = View(t, k)
  BY <1>2, <1>4, ViewKept DEF segs
<1>5. CASE FaultCall(p) \/ NoSegment(p) \/ HasPage(p) \/ LoadWaits(p) \/ NoMemory(p)
             \/ OwnWaits(p) \/ ReadOnly(p)
  BY <1>4, <1>5 DEF FaultCall, NoSegment, HasPage, LoadWaits, NoMemory, OwnWaits, ReadOnly, pages
<1>6. ASSUME s \in Seg, o \in Off, pte[s][o] = None, NEW g \in Page,
             pte' = [pte EXCEPT ![s][o] = g], content'[g] = Fresh(s),
             \A x \in Page : (\E n \in Seg, m \in Off : pte[n][m] = x) => content'[x] = content[x]
      PROVE  View(t, k)' = View(t, k)
  <2>1. CASE t = s /\ k = o
    BY <1>1, <1>6, <2>1 DEF View, Ptes
  <2>2. CASE ~(t = s /\ k = o)
    <3>1. pte'[t][k] = pte[t][k]
      BY <1>1, <1>6, <2>2 DEF Ptes
    <3> QED  BY <1>1, <1>4, <1>6, <3>1
  <2> QED  BY <2>1, <2>2
<1>7. CASE ZeroFill(p)
  <2>1. /\ pc[p] = "fault" /\ pte[s][o] = None /\ kind[s] = "bss"
    BY <1>7 DEF ZeroFill, Lock, Goto, At
  <2>2. PICK g \in Free : content' = [content EXCEPT ![g] = "zero"] /\ pte' = [pte EXCEPT ![s][o] = g]
    BY <1>7 DEF ZeroFill, Install
  <2>3. s \in Seg /\ o \in Off /\ g \in Page /\ content'[g] = Fresh(s)
    BY <1>1, <1>2, <2>1, <2>2, InFault DEF Fresh
  <2>4. \A x \in Page : (\E n \in Seg, m \in Off : pte[n][m] = x) => content'[x] = content[x]
    BY <1>1, <2>2
  <2> QED  BY <1>6, <2>1, <2>2, <2>3, <2>4
<1>8. CASE LookPage(p)
  <2>1. /\ pc[p] = "fault" /\ pte[s][o] = None /\ kind[s] = "data" /\ content' = content
    BY <1>8 DEF LookPage, Lock, Goto, At
  <2>2. PICK g \in Page : cached[g] = o /\ pte' = [pte EXCEPT ![s][o] = g]
    BY <1>8 DEF LookPage, Install, Found
  <2>3. s \in Seg /\ o \in Off /\ o # None
    BY <1>2, <2>1, InFault DEF Off
  <2>4. content'[g] = Fresh(s)
    BY <2>1, <2>2, <2>3 DEF CleanInv, CacheClean, Fresh
  <2> QED  BY <1>6, <2>1, <2>2, <2>3, <2>4
<1>9. CASE Load(p)
  <2>1. PICK g \in Free : content' = [content EXCEPT ![g] = "file"] /\ pte' = pte
    BY <1>9 DEF Load
  <2> QED  BY <1>1, <1>4, <2>1
<1>10. CASE LoadFails(p)
  <2>1. pte' = pte /\ Putpages({own[p]})
    BY <1>10 DEF LoadFails
  <2> QED  BY <1>4, <2>1, StillCounted
<1>11. CASE Loaded(p)
  <2>1. pc[p] = "io"
    BY <1>11 DEF Loaded, Lock, Goto
  <2>2. s \in Seg /\ o \in Off /\ own[p] \in Page /\ kind[s] = "data"
    BY <1>2, <2>1, InFault
  <2>3. CASE At(p) = None
    <3>1. pte' = [pte EXCEPT ![s][o] = own[p]] /\ pte[s][o] = None /\ content' = content
      BY <1>11, <2>3 DEF Loaded, Install, At
    <3>2. content'[own[p]] = Fresh(s)
      BY <2>2, <3>1 DEF CleanInv, Fresh
    <3> QED  BY <1>6, <2>2, <3>1, <3>2
  <2>4. CASE At(p) # None
    <3>1. pte' = [pte EXCEPT ![s][o] = pte[s][o]] /\ Putpages({own[p]})
      BY <1>11, <2>4 DEF Loaded, Install, At
    <3>2. pte'[t][k] = pte[t][k]
      BY <1>1, <2>2, <3>1 DEF Ptes
    <3> QED  BY <1>4, <3>1, <3>2, StillCounted
  <2> QED  BY <2>3, <2>4
<1>12. CASE CopyOnWrite(p)
  <2>1. pc[p] = "common"
    BY <1>12 DEF CopyOnWrite, Common
  <2>2. s \in Seg /\ o \in Off /\ At(p) \in Page /\ At(p) = pte[s][o]
    BY <1>2, <2>1, InFault DEF At
  <2>3. PICK g \in Free : pte' = [pte EXCEPT ![s][o] = g] /\ content' = [content EXCEPT ![g] = content[At(p)]]
    BY <1>12 DEF CopyOnWrite, Copypage
  <2>4. CASE t = s /\ k = o
    <3>1. pte'[t][k] = g /\ content'[g] = content[pte[t][k]] /\ g # None /\ pte[t][k] # None
      BY <1>1, <2>2, <2>3, <2>4 DEF Ptes
    <3> QED  BY <3>1 DEF View
  <2>5. CASE ~(t = s /\ k = o)
    <3>1. pte'[t][k] = pte[t][k]
      BY <1>1, <2>2, <2>3, <2>5 DEF Ptes
    <3> QED  BY <1>1, <1>4, <2>3, <3>1
  <2> QED  BY <2>4, <2>5
<1>13. CASE Own(p) \/ OwnAgain(p)
  <2>1. pte' = pte /\ Duppage(At(p))
    BY <1>13 DEF Own, OwnAgain
  <2>2. \/ content' = content
        \/ \E h \in Free : content' = [content EXCEPT ![h] = content[At(p)]]
    BY <2>1 DEF Duppage, Copypage
  <2>3. \A x \in Page : x \notin Free => content'[x] = content[x]
    BY <1>1, <2>2
  <2> QED  BY <1>1, <1>4, <2>1, <2>3
<1> QED  BY <1>5, <1>7, <1>8, <1>9, <1>10, <1>11, <1>12, <1>13 DEF Fault

(* Nor can they tell which of them runs, and in what space.                 *)
LEMMA SwitchUnseen ==
    ASSUME IInv, NEW p \in Proc, Switch(p) \/ Mmurelease(p)
    PROVE  Memory!AbsNext
<1>1. cur' \in Proc \cup {None} /\ UNCHANGED <<segs, pte, content>>
  BY DEF Switch, Mmurelease, pages
<1>2. \A s \in Seg, o \in Off : View(s, o)' = View(s, o)
  BY <1>1 DEF View, Fresh, segs
<1> QED  BY <1>1, <1>2, Invisible DEF IInv, PagesCounted

(* A store changes the byte it is to change, and no other in any segment.   *)
LEMMA StoreSeen ==
    ASSUME IInv, MapInv, NEW p \in Proc, Store(p)
    PROVE  Memory!AbsNext
<1> USE UserMemoryAssumption
<1> DEFINE s == seg[p]
<1>1. /\ cur = p /\ pc[p] = "user" /\ UNCHANGED <<segs, pte, cur>>
  BY DEF Store, Goto
<1>2. PICK o \in Off : /\ map[us[p]][o] # None /\ map[us[p]][o].write
                       /\ content' = [content EXCEPT ![map[us[p]][o].page] = "new"]
  BY DEF Store, Mapped
<1>3. s \in Seg /\ us[p] \in Space /\ owner[us[p]] = p
  BY <1>1, InFault
<1> DEFINE x == pte[s][o]
<1>4. x \in Page /\ ref[x] = 1 /\ content' = [content EXCEPT ![x] = "new"]
  <2>1. pte[s][o] = map[us[p]][o].page /\ ref[map[us[p]][o].page] = 1
    BY <1>1, <1>2, <1>3 DEF MapInv
  <2>2. map[us[p]][o].page \in Page
    BY <1>2, <1>3 DEF IInv, PagesCounted, TypeOK
  <2> QED  BY <1>2, <2>1, <2>2
<1>5. /\ \A t \in Seg, k \in Off : pte[t][k] = x => t = s /\ k = o
      /\ content \in [Page -> {"file", "zero", "new"}]
      /\ \A t \in Seg, k \in Off : pte[t][k] # None => pte[t][k] \in Page
  BY <1>3, <1>4, PageFacts DEF IInv, PagesCounted, TypeOK, Ptes
<1>6. o <= size[s] /\ Users(s) # {}
  <2>1. ~(o > size[s]) /\ size[s] \in Nat /\ o \in Nat
    BY <1>3, <1>4 DEF IInv, PlaceInv, PagesCounted, TypeOK, Off
  <2>2. p \in Users(s)
    BY DEF Users
  <2> QED  BY <2>1, <2>2
<1>7. \A t \in Seg, k \in Off : View(t, k)' = IF t = s /\ k = o THEN "new" ELSE View(t, k)
  BY <1>1, <1>4, <1>5 DEF View, Fresh, segs
<1>8. View(s, o) # "gone"
  BY <1>4, <1>5 DEF View
<1>9. \A t : Users(t)' = Users(t)
  BY <1>1 DEF Users, segs
<1>10. size[s] \in Nat /\ o \in Nat
  BY <1>3 DEF IInv, PagesCounted, TypeOK, Off
<1>11. \A t \in Seg, k \in Off :
         Contents'[t][k] = IF t = s /\ k = o THEN "new" ELSE Contents[t][k]
  BY <1>1, <1>6, <1>7, <1>9, <1>10 DEF Contents, segs
<1>12. Contents' = [Contents EXCEPT ![s][o] = "new"]
  <2>1. /\ Contents = [t \in Seg |-> [k \in Off |-> Contents[t][k]]]
        /\ Contents' = [t \in Seg |-> [k \in Off |-> Contents'[t][k]]]
    BY DEF Contents
  <2>2. \A t \in Seg : t # s => Contents'[t] = Contents[t]
    BY <1>11, <2>1
  <2>3. Contents'[s] = [Contents[s] EXCEPT ![o] = "new"]
    BY <1>3, <1>11, <2>1
  <2> QED  BY <1>3, <2>1, <2>2, <2>3
<1>13. Contents[s][o] # "gone"
  BY <1>3, <1>6, <1>8, <1>10 DEF Contents
<1>14. s # None /\ seg' = seg
  BY <1>1, <1>3 DEF segs
<1> HIDE DEF s
<1>15. Memory!Store(p, o)
  BY <1>12, <1>13, <1>14 DEF Memory!Store, s
<1> QED  BY <1>1, <1>15 DEF Memory!AbsNext, Memory!Program

(* A segment that is given up is gone if it has no other user, and others   *)
(* do not change.                                                           *)
LEMMA PutsegsSeen ==
    ASSUME IInv, IInv', NEW p \in Proc, Putsegs(p)
    PROVE  Memory!AbsNext
<1> USE UserMemoryAssumption
<1> DEFINE s == seg[p]
<1>1. /\ cur = p /\ cur' = cur /\ pc[p] = "user" /\ seg' = [seg EXCEPT ![p] = None]
      /\ \/ /\ Users(s) = {p} /\ Putpages(PagesOf(s)) /\ pte' = [pte EXCEPT ![s] = Empty]
            /\ kind' = [kind EXCEPT ![s] = "bss"] /\ size' = [size EXCEPT ![s] = 0]
         \/ UNCHANGED <<content, pte, kind, size>> /\ Users(s) # {p}
  BY DEF Putsegs, Putseg, Goto
<1>2. s \in Seg /\ s # None /\ seg \in [Proc -> Seg \cup {None}] /\ pte \in Ptes
  BY <1>1, InFault, PageFacts DEF IInv, PagesCounted, TypeOK
<1>3. ASSUME NEW t \in Seg, NEW q \in Proc, q # p, seg[q] = t, NEW o \in Off
      PROVE  size'[t] = size[t] /\ View(t, o)' = View(t, o)
  <2>1. CASE UNCHANGED <<content, pte, kind, size>>
    BY <2>1 DEF View, Fresh
  <2>2. CASE /\ Users(s) = {p} /\ Putpages(PagesOf(s)) /\ pte' = [pte EXCEPT ![s] = Empty]
             /\ kind' = [kind EXCEPT ![s] = "bss"] /\ size' = [size EXCEPT ![s] = 0]
    <3>1. t # s
      BY <1>3, <2>2 DEF Users
    <3>2. size'[t] = size[t] /\ kind'[t] = kind[t] /\ pte'[t][o] = pte[t][o]
      BY <1>2, <2>2, <3>1 DEF IInv, PagesCounted, TypeOK, Ptes
    <3>3. pte[t][o] # None => content'[pte[t][o]] = content[pte[t][o]]
      BY <2>2, <3>2, StillCounted
    <3> QED  BY <3>2, <3>3, ViewKept
  <2> QED  BY <1>1, <2>1, <2>2
<1>4. ASSUME NEW t \in Seg, NEW o \in Off
      PROVE  Contents'[t][o] = IF \A q \in Proc \ {p} : seg[q] # t THEN "gone" ELSE Contents[t][o]
  <2>1. \A q \in Proc : seg'[q] = IF q = p THEN None ELSE seg[q]
    BY <1>1, <1>2
  <2>2. CASE \A q \in Proc \ {p} : seg[q] # t
    <3>1. Users(t)' = {}
      BY <2>1, <2>2 DEF Users
    <3> QED  BY <2>2, <3>1 DEF Contents
  <2>3. CASE ~\A q \in Proc \ {p} : seg[q] # t
    <3>1. PICK q \in Proc : q # p /\ seg[q] = t
      BY <2>3
    <3>2. Users(t) # {} /\ Users(t)' # {}
      BY <2>1, <3>1 DEF Users
    <3>3. size'[t] = size[t] /\ View(t, o)' = View(t, o)
      BY <1>3, <3>1
    <3> QED  BY <2>3, <3>2, <3>3 DEF Contents
  <2> QED  BY <2>2, <2>3
<1>5. Contents' = [t \in Seg |-> IF t = None THEN Memory!Nothing
                     ELSE IF \A q \in Proc \ {p} : seg[q] # t THEN Memory!Nothing ELSE Contents[t]]
  BY <1>4 DEF Contents, Memory!Nothing
<1>6. Memory!Exit(p)
  BY <1>1, <1>2, <1>5 DEF Memory!Exit, Memory!Becomes
<1> QED  BY <1>1, <1>6 DEF Memory!AbsNext, Memory!Program

(* A new segment begins with what is in the file, or with zeros.            *)
LEMMA ExecSeen ==
    ASSUME IInv, NEW p \in Proc, Exec(p)
    PROVE  Memory!AbsNext
<1> USE UserMemoryAssumption
<1>1. /\ cur = p /\ cur' = cur /\ pc[p] = "bare" /\ UNCHANGED <<pte, content>>
  BY DEF Exec, Goto, pages
<1>2. PICK s \in Seg, k \in {"data", "bss"} :
        /\ Users(s) = {} /\ seg' = [seg EXCEPT ![p] = s]
        /\ kind' = [kind EXCEPT ![s] = k] /\ size' = [size EXCEPT ![s] = NPages]
  BY DEF Exec
<1>3. /\ seg \in [Proc -> Seg \cup {None}] /\ kind \in [Seg -> {"data", "bss"}]
      /\ size \in [Seg -> 0..NPages] /\ seg[p] = None /\ pte[s] = Empty
      /\ \A q \in Proc : seg[q] # s
  BY <1>1, <1>2 DEF IInv, PagesCounted, TypeOK, PlaceInv, Users
<1> DEFINE v == IF k = "data" THEN "file" ELSE "zero"
<1>4. \A q \in Proc : seg'[q] = IF q = p THEN s ELSE seg[q]
  BY <1>2, <1>3
<1>5. ASSUME NEW t \in Seg, NEW o \in Off
      PROVE  Contents'[t][o] = IF t = s THEN v
                               ELSE IF \A q \in Proc \ {p} : seg[q] # t THEN "gone"
                               ELSE Contents[t][o]
  <2>1. CASE t = s
    <3>1. Users(t)' # {} /\ ~(o > size'[t]) /\ kind'[t] = k /\ pte'[t][o] = None
      BY <1>1, <1>2, <1>3, <1>4, <2>1 DEF Users, Off, Empty
    <3> QED  BY <2>1, <3>1 DEF Contents, View, Fresh
  <2>2. CASE t # s
    <3>1. Users(t)' = Users(t) /\ (Users(t) = {} <=> \A q \in Proc \ {p} : seg[q] # t)
      BY <1>3, <1>4, <2>2 DEF Users
    <3>2. size'[t] = size[t] /\ View(t, o)' = View(t, o)
      BY <1>1, <1>2, <1>3, <2>2 DEF View, Fresh
    <3> QED  BY <2>2, <3>1, <3>2 DEF Contents
  <2> QED  BY <2>1, <2>2
<1>6. Contents' = [t \in Seg |-> IF t = s THEN [o \in Off |-> v]
                     ELSE IF \A q \in Proc \ {p} : seg[q] # t THEN Memory!Nothing ELSE Contents[t]]
  BY <1>5 DEF Contents, Memory!Nothing
<1>7. Memory!Unused(s) /\ v \in {"file", "zero"}
  BY <1>3 DEF Memory!Unused
<1> HIDE DEF v
<1>8. Memory!Becomes(p, s, [o \in Off |-> v])
  BY <1>2, <1>6 DEF Memory!Becomes
<1>9. Memory!Exec(p)
  BY <1>7, <1>8 DEF Memory!Exec
<1> QED  BY <1>1, <1>9 DEF Memory!AbsNext, Memory!Program

(* The child has the parent's segment.                                      *)
LEMMA ShareSeen ==
    ASSUME IInv, NEW p \in Proc, NEW q \in Proc, Share(p, q)
    PROVE  Memory!AbsNext
<1> USE UserMemoryAssumption
<1>1. /\ cur = p /\ cur' = cur /\ pc[p] = "user" /\ pc[q] = "none"
      /\ UNCHANGED <<kind, size, pte, content>> /\ seg' = [seg EXCEPT ![q] = seg[p]]
  BY DEF Share, Child, pages
<1>2. seg \in [Proc -> Seg \cup {None}] /\ seg[p] \in Seg /\ seg[p] # None /\ seg[q] = None
  BY <1>1, InFault DEF IInv, PagesCounted, TypeOK, PlaceInv
<1>3. ASSUME NEW t \in Seg PROVE Users(t)' = {} <=> Users(t) = {}
  BY <1>1, <1>2 DEF Users
<1>4. Contents' = Contents
  BY <1>1, <1>3 DEF Contents, View, Fresh
<1>5. Memory!Share(p, q)
  BY <1>1, <1>2, <1>4 DEF Memory!Share
<1> QED  BY <1>1, <1>5 DEF Memory!AbsNext, Memory!Program

(* The child's segment begins as the parent's is.                           *)
LEMMA CopySeen ==
    ASSUME IInv, NEW p \in Proc, NEW q \in Proc, Copy(p, q)
    PROVE  Memory!AbsNext
<1> USE UserMemoryAssumption
<1> DEFINE r == seg[p]
<1>1. /\ cur = p /\ cur' = cur /\ pc[p] = "user" /\ pc[q] = "none" /\ content' = content
  BY DEF Copy, Child
<1>2. PICK s \in Seg :
        /\ Users(s) = {} /\ seg' = [seg EXCEPT ![q] = s]
        /\ kind' = [kind EXCEPT ![s] = kind[r]] /\ size' = [size EXCEPT ![s] = size[r]]
        /\ pte' = [pte EXCEPT ![s] = pte[r]]
  BY DEF Copy
<1>3. /\ seg \in [Proc -> Seg \cup {None}] /\ kind \in [Seg -> {"data", "bss"}]
      /\ size \in [Seg -> 0..NPages] /\ seg[q] = None /\ r \in Seg /\ r # None /\ pte \in Ptes
      /\ \A z \in Proc : seg[z] # s
  BY <1>1, <1>2, InFault, PageFacts DEF IInv, PagesCounted, TypeOK, PlaceInv, Users
<1>4. \A z \in Proc : seg'[z] = IF z = q THEN s ELSE seg[z]
  BY <1>2, <1>3
<1>5. ASSUME NEW t \in Seg, NEW o \in Off
      PROVE  Contents'[t][o] = IF t = s THEN Contents[r][o]
                               ELSE IF \A z \in Proc \ {q} : seg[z] # t THEN "gone"
                               ELSE Contents[t][o]
  <2>1. CASE t = s
    <3>1. Users(t)' # {} /\ Users(r) # {}
      BY <1>4, <2>1 DEF Users
    <3>2. size'[t] = size[r] /\ View(t, o)' = View(r, o)
      BY <1>1, <1>2, <1>3, <2>1 DEF View, Fresh, Ptes
    <3> QED  BY <1>3, <2>1, <3>1, <3>2 DEF Contents
  <2>2. CASE t # s
    <3>1. Users(t)' = Users(t) /\ (Users(t) = {} <=> \A z \in Proc \ {q} : seg[z] # t)
      BY <1>3, <1>4, <2>2 DEF Users
    <3>2. size'[t] = size[t] /\ View(t, o)' = View(t, o)
      BY <1>1, <1>2, <1>3, <2>2 DEF View, Fresh, Ptes
    <3> QED  BY <2>2, <3>1, <3>2 DEF Contents
  <2> QED  BY <2>1, <2>2
<1>6. Contents' = [t \in Seg |-> IF t = s THEN Contents[r]
                     ELSE IF \A z \in Proc \ {q} : seg[z] # t THEN Memory!Nothing ELSE Contents[t]]
  BY <1>3, <1>5 DEF Contents, Memory!Nothing
<1>7. Memory!Unused(s)
  BY <1>3 DEF Memory!Unused
<1>8. Memory!Becomes(q, s, Contents[seg[p]])
  BY <1>2, <1>6 DEF Memory!Becomes
<1>9. Memory!Copy(p, q)
  BY <1>3, <1>7, <1>8 DEF Memory!Copy
<1> QED  BY <1>1, <1>9 DEF Memory!AbsNext, Memory!Program

(* What is cut is gone, what is left is as it was, and what is new is       *)
(* zero.                                                                    *)
LEMMA BrkSeen ==
    ASSUME IInv, IInv', NEW p \in Proc, Brk(p)
    PROVE  Memory!AbsNext
<1> USE UserMemoryAssumption
<1> DEFINE s == seg[p]
<1>1. /\ cur = p /\ cur' = cur /\ pc[p] = "user" /\ UNCHANGED <<seg, kind>> /\ kind[s] = "bss"
  BY DEF Brk, Goto
<1>2. PICK n \in 0..NPages :
        /\ size' = [size EXCEPT ![s] = n] /\ Putpages(Beyond(pte[s], n)) /\ pte' = CutAt(pte, s, n)
  BY DEF Brk, Beyond, CutAt
<1>3. /\ s \in Seg /\ s # None /\ pte \in Ptes /\ size \in [Seg -> 0..NPages]
      /\ content \in [Page -> {"file", "zero", "new"}]
  BY <1>1, InFault, PageFacts DEF IInv, PagesCounted, TypeOK
<1>4. \A t \in Seg, o \in Off : pte'[t][o] = IF t = s /\ o > n THEN None ELSE pte[t][o]
  BY <1>2, <1>3 DEF Ptes, CutAt
<1>5. \A t \in Seg, o \in Off : t # s \/ ~(o > n) => View(t, o)' = View(t, o)
  <2> SUFFICES ASSUME NEW t \in Seg, NEW o \in Off, t # s \/ ~(o > n)
               PROVE  View(t, o)' = View(t, o)
    OBVIOUS
  <2>1. pte'[t][o] = pte[t][o]
    BY <1>4
  <2>2. pte[t][o] # None => content'[pte[t][o]] = content[pte[t][o]]
    BY <1>2, <2>1, StillCounted
  <2> QED  BY <1>1, <2>1, <2>2, ViewKept
<1>6. \A t \in Seg : Users(t)' = Users(t)
  BY <1>1 DEF Users
<1>7. Users(s) # {}
  BY DEF Users
<1>8. \A o \in Off : /\ View(s, o) # "gone"
                     /\ o > size[s] => View(s, o) = "zero"
  <2>1. \A o \in Off : pte[s][o] # None => pte[s][o] \in Page
    BY <1>3 DEF Ptes
  <2>2. \A o \in Off : o > size[s] => pte[s][o] = None
    BY <1>3 DEF IInv, PlaceInv
  <2> QED  BY <1>1, <1>3, <2>1, <2>2 DEF View, Fresh
<1>9. \A o \in Off : Contents'[s][o] =
         IF o > n THEN "gone" ELSE IF Contents[s][o] = "gone" THEN "zero" ELSE Contents[s][o]
  <2>1. \A t \in Seg, o \in Off : t = s =>
          Contents'[t][o] = IF o > n THEN "gone" ELSE View(t, o)'
    BY <1>2, <1>3, <1>6, <1>7 DEF Contents
  <2>2. \A t \in Seg, o \in Off : t = s /\ ~(o > n) => View(t, o)' = View(t, o)
    BY <1>5
  <2>3. \A o \in Off : Contents[s][o] = IF o > size[s] THEN "gone" ELSE View(s, o)
    BY <1>3, <1>7 DEF Contents
  <2> QED  BY <1>3, <1>8, <2>1, <2>2, <2>3
<1>10. \A t \in Seg : t # s => Contents'[t] = Contents[t]
  <2>1. \A t \in Seg : t # s => size'[t] = size[t]
    BY <1>2, <1>3
  <2> QED  BY <1>3, <1>5, <1>6, <2>1 DEF Contents
<1>11. Contents' = [Contents EXCEPT ![s] = [o \in Off |->
            IF o > n THEN "gone" ELSE IF @[o] = "gone" THEN "zero" ELSE @[o]]]
  <2>1. /\ Contents = [t \in Seg |-> [o \in Off |-> Contents[t][o]]]
        /\ Contents' = [t \in Seg |-> [o \in Off |-> Contents'[t][o]]]
    BY DEF Contents
  <2>2. Contents'[s] = [o \in Off |-> IF o > n THEN "gone"
                          ELSE IF Contents[s][o] = "gone" THEN "zero" ELSE Contents[s][o]]
    BY <1>3, <1>9, <2>1
  <2> QED  BY <1>3, <1>10, <2>1, <2>2
<1>12. Memory!Resize(p, n) /\ n \in Off \cup {0}
  BY <1>1, <1>3, <1>11 DEF Memory!Resize, Off
<1> QED  BY <1>1, <1>12 DEF Memory!AbsNext, Memory!Program

(* The first states are those of Memory.                                    *)
LEMMA InitSeen == Init => Memory!AbsInit
<1> USE UserMemoryAssumption
<1> SUFFICES ASSUME Init PROVE Memory!AbsInit
  OBVIOUS
<1>1. PICK p \in Proc, s \in Seg :
        /\ seg = [q \in Proc |-> IF q = p THEN s ELSE None]
        /\ size = [t \in Seg |-> IF t = s THEN NPages ELSE 0]
  BY DEF Init
<1>2. \A t \in Seg, o \in Off : View(t, o) = "zero"
  BY DEF Init, View, Fresh, Empty
<1>3. \A t \in Seg : Users(t) = {} <=> t # s
  BY <1>1 DEF Users
<1>4. \A o \in Off : ~(o > size[s])
  BY <1>1 DEF Off
<1>5. Contents = [t \in Seg |-> IF t = s THEN [o \in Off |-> "zero"] ELSE Memory!Nothing]
  BY <1>2, <1>3, <1>4 DEF Contents, Memory!Nothing
<1> QED  BY <1>1, <1>5 DEF Init, Memory!AbsInit

(* Every step of the kernel is a step of Memory, or changes nothing there.  *)
LEMMA StepSeen ==
    ASSUME IInv, MapInv, CleanInv, IInv', [Next]_vars
    PROVE  [Memory!AbsNext]_<<seg, Contents, cur>>
<1>1. CASE UNCHANGED vars
  BY <1>1 DEF vars, segs, pages, Contents, View, Fresh, Users
<1>2. ASSUME NEW p \in Proc, Switch(p) \/ Fault(p) \/ Store(p) \/ Putsegs(p) \/ Exec(p)
                                \/ Mmurelease(p) \/ Brk(p)
      PROVE  Memory!AbsNext
  BY <1>2, SwitchUnseen, FaultUnseen, StoreSeen, PutsegsSeen, ExecSeen, BrkSeen
<1>3. ASSUME NEW p \in Proc, NEW q \in Proc, Share(p, q) \/ Copy(p, q)
      PROVE  Memory!AbsNext
  BY <1>3, ShareSeen, CopySeen
<1> QED  BY <1>1, <1>2, <1>3 DEF Next

(* Unless the race of duppage happens, what programs see of the segments,   *)
(* the page tables, the image cache and the few address spaces is memory.   *)
THEOREM UserMemoryImplementsMemory == Spec /\ []NoRace => ImplementsMemory
<1>1. Init => Memory!AbsInit
  BY InitSeen
<1>2. (IInv /\ MapInv /\ CleanInv) /\ IInv' /\ [Next]_vars
        => [Memory!AbsNext]_<<seg, Contents, cur>>
  BY StepSeen
<1> QED  BY <1>1, <1>2, AlwaysMaps, PTL DEF Spec, ImplementsMemory, Memory!AbsSpec, Memory!absVars
==============================================================================
