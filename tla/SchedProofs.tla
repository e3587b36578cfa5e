----------------------------- MODULE SchedProofs ------------------------------
(***************************************************************************)
(* KprocSched for any number of kprocs and processors: no two threads run  *)
(* on one kernel stack, p->mach is 0 only when p's state has been saved, a *)
(* kproc is on the run queue at most once, and nrunproc never promises a   *)
(* processor that is not there.  IInv is inductive as long as newproc does *)
(* not reuse a slot whose processor has not let go of it (~PromptReuse).   *)
(* Cpu0Sched, the other scheduler, follows below, and after it Timers: its *)
(* list is in order, and its kproc does not sleep past the first timer.    *)
(*                                                                         *)
(* ReadyKeeps is about ready(), which several actions call; the others     *)
(* change one process or one processor each.                               *)
(***************************************************************************)
EXTENDS KprocSched, Cpu0Sched, Timers, QueueLemmas, FiniteSetTheorems

(* The empty run queue and the processors not yet made satisfy IInv.        *)
LEMMA InitIInv == Init => IInv
<1> SUFFICES ASSUME Init PROVE IInv
  OBVIOUS
<1>1. <<>> \in Seq(Kproc) /\ <<>> \in Seq(Mach) /\ Len(<<>>) = 0
  OBVIOUS
<1>2. TypeOK
  BY <1>1 DEF Init, TypeOK, ProcStates, MachPlaces
<1>3. \A x : ~Contains(kprocq, x) /\ ~Contains(waiter, x)
  BY <1>1 DEF Init, Contains
<1>4. WaiterInv /\ HoldInv /\ QueuedOnce
  BY <1>3 DEF Init, WaiterInv, HoldInv, QueuedOnce, IsInjective
<1>5. Awake = {} /\ Counted = {}
  BY DEF Init, Awake, Counted
<1>6. EnoughAwake
  BY <1>1, <1>5, FS_EmptySet DEF Init, EnoughAwake
<1> QED
  BY <1>2, <1>4, <1>6 DEF IInv

(* The sets of processors by which EnoughAwake counts are finite. *)
LEMMA FiniteCounts ==
    /\ IsFiniteSet(Awake) /\ Cardinality(Awake) \in Nat
    /\ IsFiniteSet(Counted) /\ Cardinality(Counted) \in Nat
<1>1. Awake \in SUBSET Mach /\ Counted \in SUBSET Mach
  BY DEF Awake, Counted
<1> QED
  BY <1>1, KprocSchedAssumption, FS_Subset, FS_CardinalityType

(* pwakeup(&run) on a list with somebody on it: its head, which slept, is   *)
(* woken, and the others stay on it.                                        *)
LEMMA KickWakes ==
    ASSUME IInv, waiter # <<>>, waiter' = Tail(waiter), NEW h, h = Head(waiter),
           at'[h] = "woken",
           \A m \in Mach \ {h} : at'[m] = "sleeping" <=> at[m] = "sleeping"
    PROVE  /\ h \in Mach /\ at[h] = "sleeping"
           /\ waiter' \in Seq(Mach) /\ WaiterInv'
<1>1. /\ waiter \in Seq(Mach) /\ h \in Mach /\ waiter' \in Seq(Mach)
      /\ Contains(waiter, h) /\ IsInjective(waiter)
  BY ContainsHead DEF IInv, TypeOK, WaiterInv
<1>2. \A x : Contains(waiter', x) <=> Contains(waiter, x) /\ x # h
  BY <1>1, ContainsTail
<1>3. IsInjective(waiter')
  BY <1>1, InjectiveTail
<1> QED
  BY <1>1, <1>2, <1>3 DEF IInv, WaiterInv

(* ready(p) of a process that is neither Ready nor running keeps IInv: p    *)
(* joins the queue once, and for it one more processor is awake.            *)
LEMMA ReadyKeeps ==
    ASSUME IInv,
           NEW p \in Kproc, state[p] # "Ready",
           \A m \in Mach : at[m] = "running" => up[m] # p,
           NEW places \in [Mach -> MachPlaces],
           \A m \in Mach : \/ places[m] = at[m]
                           \/ at[m] = "leaving" /\ places[m] = "clearing",
           Ready(p, places),
           UNCHANGED <<mach, up, panicked>>
    PROVE  IInv'
<1> USE DEF IInv
<1>1. /\ kprocq \in Seq(Kproc) /\ Len(kprocq) \in Nat /\ nrunproc \in Nat
      /\ waiter \in Seq(Mach) /\ at \in [Mach -> MachPlaces]
      /\ state' = [state EXCEPT ![p] = "Ready"]
      /\ kprocq' = Append(kprocq, p)
  BY DEF TypeOK, Ready, Put
<1>2. ~Contains(kprocq, p)
  BY DEF QueuedOnce
<1>3. /\ kprocq' \in Seq(Kproc) /\ Len(kprocq') = Len(kprocq) + 1
      /\ IsInjective(kprocq')
      /\ \A q \in Kproc : Contains(kprocq', q) <=> Contains(kprocq, q) \/ q = p
  BY <1>1, <1>2, ContainsAppend, InjectiveAppend DEF QueuedOnce
(* What becomes of the processors, with and without one to make or wake.    *)
<1>4. /\ nrunproc' \in Nat /\ waiter' \in Seq(Mach) /\ at' \in [Mach -> MachPlaces]
      /\ \A m \in Mach : \/ at'[m] = places[m]
                         \/ /\ at[m] \in {"absent", "sleeping"}
                            /\ at'[m] \in {"starting", "woken"}
      /\ WaiterInv' /\ EnoughAwake'
  <2> DEFINE h == Head(waiter)
  <2>1. /\ nrunproc = Cardinality(Counted) /\ Len(kprocq) <= Cardinality(Awake)
        /\ IsFiniteSet(Awake) /\ IsFiniteSet(Counted)
        /\ Cardinality(Awake) \in Nat /\ Cardinality(Counted) \in Nat
    BY FiniteCounts DEF EnoughAwake
  <2>2. CASE ~MustSpawn /\ waiter = <<>>
    <3>1. at' = places /\ waiter' = waiter /\ nrunproc' = nrunproc
      BY <2>2 DEF Ready, Kick
    <3>2. \A m \in Mach : ~Contains(waiter, m)
      BY <2>2 DEF Contains
    <3>3. Awake' = Awake /\ Counted' = Counted /\ Counted = Awake
      BY <3>1, <3>2 DEF Awake, Counted, WaiterInv
    <3>4. EnoughAwake'
      BY <1>1, <1>3, <2>1, <2>2, <3>1, <3>3 DEF EnoughAwake, MustSpawn
    <3>5. WaiterInv'
      BY <3>1 DEF WaiterInv
    <3> QED
      BY <1>1, <3>1, <3>4, <3>5
  <2>3. CASE ~MustSpawn /\ waiter # <<>>
    <3>1. at' = [places EXCEPT ![h] = "woken"] /\ waiter' = Tail(waiter)
          /\ nrunproc' = nrunproc /\ h \in Mach
      BY <1>1, <2>3, ContainsHead DEF Ready, Kick
    <3>2. /\ at'[h] = "woken" /\ at' \in [Mach -> MachPlaces]
          /\ \A m \in Mach \ {h} : at'[m] = places[m]
      BY <3>1 DEF MachPlaces
    <3>3. at[h] = "sleeping" /\ waiter' \in Seq(Mach) /\ WaiterInv'
      BY <2>3, <3>1, <3>2, KickWakes
    <3>4. Awake' = Awake \cup {h} /\ h \notin Awake /\ Counted' = Counted
      BY <3>1, <3>2, <3>3 DEF Awake, Counted
    <3>5. Cardinality(Awake') = Cardinality(Awake) + 1
      BY <2>1, <3>4, FS_AddElement
    <3>6. EnoughAwake'
      BY <1>1, <1>3, <2>1, <3>1, <3>4, <3>5 DEF EnoughAwake
    <3> QED
      BY <1>1, <3>1, <3>2, <3>3, <3>6
  <2>4. CASE MustSpawn
    <3>1. PICK n \in Mach : /\ at[n] = "absent" /\ nrunproc' = nrunproc + 1
                            /\ Kick([places EXCEPT ![n] = "starting"])
      BY <2>4 DEF Ready
    <3>2. n \notin Counted /\ n \notin Awake /\ places[n] = "absent"
      BY <3>1 DEF Counted, Awake
    <3>3. /\ IsFiniteSet(Awake \cup {n})
          /\ Cardinality(Awake \cup {n}) = Cardinality(Awake) + 1
          /\ Cardinality(Counted \cup {n}) = Cardinality(Counted) + 1
      BY <2>1, <3>2, FS_AddElement
    <3>4. CASE waiter = <<>>
      <4>1. at' = [places EXCEPT ![n] = "starting"] /\ waiter' = waiter
        BY <3>1, <3>4 DEF Kick
      <4>2. /\ at'[n] = "starting" /\ at' \in [Mach -> MachPlaces]
            /\ \A m \in Mach \ {n} : at'[m] = places[m]
        BY <4>1 DEF MachPlaces
      <4>3. Awake' = Awake \cup {n} /\ Counted' = Counted \cup {n}
        BY <4>2 DEF Awake, Counted
      <4>4. EnoughAwake'
        BY <1>1, <1>3, <2>1, <3>1, <3>3, <4>3 DEF EnoughAwake
      <4>5. WaiterInv'
        BY <3>1, <4>1, <4>2 DEF WaiterInv
      <4> QED
        BY <1>1, <3>1, <4>1, <4>2, <4>4, <4>5
    <3>5. CASE waiter # <<>>
      <4>1. /\ at' = [[places EXCEPT ![n] = "starting"] EXCEPT ![h] = "woken"]
            /\ waiter' = Tail(waiter) /\ h \in Mach /\ at[h] = "sleeping"
        BY <1>1, <3>1, <3>5, ContainsHead DEF Kick, WaiterInv
      <4>2. /\ n # h /\ at'[n] = "starting" /\ at'[h] = "woken"
            /\ at' \in [Mach -> MachPlaces]
            /\ \A m \in Mach \ {n, h} : at'[m] = places[m]
        BY <3>1, <4>1 DEF MachPlaces
      <4>3. waiter' \in Seq(Mach) /\ WaiterInv'
        BY <3>1, <3>5, <4>1, <4>2, KickWakes
      <4>4. /\ Awake' = (Awake \cup {n}) \cup {h} /\ h \notin Awake \cup {n}
            /\ Counted' = Counted \cup {n}
        BY <4>1, <4>2 DEF Awake, Counted
      <4>5. Cardinality(Awake') = Cardinality(Awake) + 2
        <5> DEFINE A == Awake \cup {n}
        <5>1. IsFiniteSet(A) /\ h \notin A
          BY <3>3, <4>4
        <5> HIDE DEF A
        <5>2. Cardinality(A \cup {h}) = Cardinality(A) + 1
          BY <5>1, FS_AddElement
        <5> QED
          BY <2>1, <3>3, <4>4, <5>2 DEF A
      <4>6. EnoughAwake'
        BY <1>1, <1>3, <2>1, <3>1, <3>3, <4>4, <4>5 DEF EnoughAwake
      <4>7. ASSUME NEW m \in Mach
            PROVE  \/ at'[m] = places[m]
                   \/ /\ at[m] \in {"absent", "sleeping"}
                      /\ at'[m] \in {"starting", "woken"}
        BY <3>1, <4>1, <4>2
      <4> QED
        BY <1>1, <3>1, <4>2, <4>3, <4>6, <4>7
    <3> QED
      BY <3>4, <3>5
  <2> QED
    BY <2>2, <2>3, <2>4
<1>5. TypeOK'
  BY <1>1, <1>3, <1>4 DEF TypeOK, ProcStates
<1>6. \A q \in Kproc : state'[q] = IF q = p THEN "Ready" ELSE state[q]
  BY <1>1 DEF TypeOK
<1>7. \A m \in Mach : /\ at'[m] \in {"running", "spinning"} <=> at[m] \in {"running", "spinning"}
                      /\ at'[m] \in {"running", "spinning"} => at'[m] = at[m]
                      /\ at'[m] \in {"leaving", "clearing"} => at[m] \in {"leaving", "clearing"}
  BY <1>4
<1>8. HoldInv'
  BY <1>6, <1>7 DEF HoldInv
<1>9. QueuedOnce'
  BY <1>2, <1>3, <1>6, <1>7 DEF QueuedOnce, HoldInv
<1> QED
  BY <1>4, <1>5, <1>8, <1>9

(* A step in which neither run.waiter nor the processors that nrunproc      *)
(* counts change keeps what is said of them.                                *)
LEMMA CountsKept ==
    ASSUME IInv, waiter' = waiter, nrunproc' = nrunproc, kprocq' = kprocq,
           \A m \in Mach : \/ at'[m] = at[m]
                           \/ /\ at[m] \notin {"starting", "sleeping", "woken"}
                              /\ at'[m] \notin {"starting", "sleeping", "woken"}
    PROVE  WaiterInv' /\ EnoughAwake'
<1>1. Awake' = Awake /\ Counted' = Counted
  BY DEF Awake, Counted
<1> QED
  BY <1>1 DEF IInv, WaiterInv, EnoughAwake

(* Every step of a kproc, of ready, schedinit, sched and runproc preserves  *)
(* IInv.                                                                    *)
LEMMA StepIInv == ~PromptReuse /\ IInv /\ [Next]_vars => IInv'
<1> SUFFICES ASSUME ~PromptReuse, IInv, [Next]_vars PROVE IInv'
  OBVIOUS
<1> USE DEF IInv
<1>0. /\ kprocq \in Seq(Kproc) /\ nrunproc \in Nat /\ waiter \in Seq(Mach)
      /\ at \in [Mach -> MachPlaces] /\ state \in [Kproc -> ProcStates]
      /\ mach \in [Kproc -> Mach \cup {None}] /\ up \in [Mach -> Kproc \cup {None}]
  BY DEF TypeOK
<1>1. ASSUME NEW p \in Kproc, Wake(p) PROVE IInv'
  <2>1. \A m \in Mach : at[m] = "running" => up[m] # p
    BY <1>1 DEF Wake, HoldInv
  <2> QED
    BY <1>0, <1>1, <2>1, ReadyKeeps DEF Wake
<1>2. ASSUME NEW p \in Kproc, Create(p) PROVE IInv'
  <2>1. \A m \in Mach : at[m] = "running" => up[m] # p
    BY <1>2 DEF Create, HoldInv
  <2>2. UNCHANGED mach
    BY <1>0, <1>2 DEF Create
  <2> QED
    BY <1>0, <1>2, <2>1, <2>2, ReadyKeeps DEF Create
<1>3. ASSUME NEW m \in Mach, Sleep(m) \/ Yield(m) \/ Exit(m) PROVE IInv'
  <2>1. PICK s \in {"Wakeme", "Running", "Moribund"} : Leave(m, s)
    BY <1>3 DEF Sleep, Yield, Exit
  <2>2. PICK p \in Kproc : /\ at[m] = "running" /\ up[m] = p
                           /\ mach[p] = m /\ state[p] = "Running"
    BY <2>1 DEF Leave, HoldInv
  <2>3. /\ \A q \in Kproc : state'[q] = IF q = p THEN s ELSE state[q]
        /\ \A n \in Mach : at'[n] = IF n = m THEN "leaving" ELSE at[n]
    BY <1>0, <2>1, <2>2 DEF Leave
  <2>4. TypeOK'
    BY <1>0, <2>1, <2>2 DEF Leave, TypeOK, ProcStates, MachPlaces
  <2>5. WaiterInv' /\ EnoughAwake'
    BY <2>1, <2>2, <2>3, CountsKept DEF Leave
  <2>6. HoldInv'
    BY <2>1, <2>2, <2>3 DEF Leave, HoldInv
  <2>7. QueuedOnce'
    BY <2>1, <2>2, <2>3 DEF Leave, QueuedOnce
  <2> QED
    BY <2>4, <2>5, <2>6, <2>7
<1>4. ASSUME NEW m \in Mach, SchedinitRunning(m) PROVE IInv'
  <2>1. PICK p \in Kproc : /\ at[m] = "leaving" /\ up[m] = p
                           /\ mach[p] = m /\ state[p] = "Running"
    BY <1>4 DEF SchedinitRunning, HoldInv
  <2> DEFINE places == [at EXCEPT ![m] = "clearing"]
  <2>2. \A n \in Mach : at[n] = "running" => up[n] # p
    BY <2>1 DEF HoldInv
  <2>3. /\ places \in [Mach -> MachPlaces]
        /\ \A n \in Mach : \/ places[n] = at[n]
                           \/ at[n] = "leaving" /\ places[n] = "clearing"
    BY <1>0, <2>1 DEF MachPlaces
  <2>4. Ready(p, places) /\ UNCHANGED <<mach, up, panicked>>
    BY <1>4, <2>1 DEF SchedinitRunning
  <2> HIDE DEF places
  <2> QED
    BY <2>1, <2>2, <2>3, <2>4, ReadyKeeps
<1>5. ASSUME NEW m \in Mach, SchedinitMoribund(m) \/ SchedinitOther(m) PROVE IInv'
  <2>0. PICK p \in Kproc : up[m] = p /\ mach[p] = m
    BY <1>5 DEF SchedinitMoribund, SchedinitOther, HoldInv
  <2>1. /\ at[m] = "leaving"
        /\ mach' = mach /\ kprocq' = kprocq /\ nrunproc' = nrunproc
        /\ waiter' = waiter /\ up' = up
        /\ \A n \in Mach : at'[n] = IF n = m THEN "clearing" ELSE at[n]
    BY <1>0, <1>5 DEF SchedinitMoribund, SchedinitOther
  <2>2. \/ state' = state
        \/ /\ state[p] = "Moribund"
           /\ \A q \in Kproc : state'[q] = IF q = p THEN "Dead" ELSE state[q]
    BY <1>0, <1>5, <2>0 DEF SchedinitMoribund, SchedinitOther
  <2>3. TypeOK'
    BY <1>0, <1>5 DEF SchedinitMoribund, SchedinitOther, TypeOK, ProcStates, MachPlaces
  <2>4. WaiterInv' /\ EnoughAwake'
    BY <2>1, CountsKept
  <2>5. HoldInv'
    BY <2>0, <2>1, <2>2 DEF HoldInv
  <2>6. QueuedOnce'
    BY <2>0, <2>1, <2>2 DEF QueuedOnce
  <2> QED
    BY <2>3, <2>4, <2>5, <2>6
<1>6. ASSUME NEW m \in Mach, SchedinitClear(m) PROVE IInv'
  <2>0. PICK p \in Kproc : up[m] = p /\ mach[p] = m
    BY <1>6 DEF SchedinitClear, HoldInv
  <2>1. /\ at[m] = "clearing" /\ state' = state /\ kprocq' = kprocq
        /\ nrunproc' = nrunproc /\ waiter' = waiter
        /\ \A n \in Mach : /\ at'[n] = IF n = m THEN "looking" ELSE at[n]
                           /\ up'[n] = IF n = m THEN None ELSE up[n]
        /\ \A q \in Kproc : mach'[q] = IF q = p THEN None ELSE mach[q]
    BY <1>0, <1>6, <2>0 DEF SchedinitClear
  <2>2. TypeOK'
    BY <1>0, <1>6 DEF SchedinitClear, TypeOK, MachPlaces
  <2>3. WaiterInv' /\ EnoughAwake'
    BY <2>1, CountsKept
  <2>4. HoldInv'
    BY <2>0, <2>1 DEF HoldInv
  <2>5. QueuedOnce'
    BY <2>1 DEF QueuedOnce
  <2> QED
    BY <2>2, <2>3, <2>4, <2>5
<1>7. ASSUME NEW m \in Mach, RunprocTake(m) PROVE IInv'
  <2>0. PICK p \in Kproc : p = Head(kprocq)
    BY <1>0, <1>7, ContainsHead DEF RunprocTake
  <2>1. /\ Contains(kprocq, p) /\ state[p] = "Ready"
        /\ kprocq' = Tail(kprocq) /\ kprocq' \in Seq(Kproc)
        /\ Len(kprocq) \in Nat \ {0} /\ Len(kprocq') = Len(kprocq) - 1
        /\ \A n \in Mach : ~(at[n] = "spinning" /\ up[n] = p)
    BY <1>0, <1>7, <2>0, ContainsHead DEF RunprocTake, QueuedOnce
  <2>2. /\ IsInjective(kprocq')
        /\ \A q \in Kproc : Contains(kprocq', q) <=> Contains(kprocq, q) /\ q # p
    BY <1>0, <1>7, <2>0, ContainsTail, InjectiveTail DEF RunprocTake, QueuedOnce
  <2>3. /\ at[m] \in Entering /\ state' = state /\ mach' = mach /\ waiter' = waiter
        /\ nrunproc' = nrunproc - Uncount(m)
        /\ \A n \in Mach : /\ at'[n] = IF n = m THEN "spinning" ELSE at[n]
                           /\ up'[n] = IF n = m THEN p ELSE up[n]
    BY <1>0, <1>7, <2>0 DEF RunprocTake
  <2>4. nrunproc' \in Nat /\ EnoughAwake'
    <3>1. /\ nrunproc = Cardinality(Counted) /\ Len(kprocq) <= Cardinality(Awake)
          /\ IsFiniteSet(Awake) /\ IsFiniteSet(Counted)
          /\ Cardinality(Awake) \in Nat /\ Cardinality(Counted) \in Nat
      BY FiniteCounts DEF EnoughAwake
    <3>2. CASE at[m] = "looking"
      <4>1. Awake' = Awake /\ Counted' = Counted
        BY <2>3, <3>2 DEF Awake, Counted
      <4> QED
        BY <2>1, <2>3, <3>1, <3>2, <4>1 DEF EnoughAwake, Uncount
    <3>3. CASE at[m] # "looking"
      <4>1. /\ Awake' = Awake \ {m} /\ m \in Awake
            /\ Counted' = Counted \ {m} /\ m \in Counted
        BY <2>3, <3>3 DEF Awake, Counted, Entering
      <4>2. /\ Cardinality(Awake') = Cardinality(Awake) - 1
            /\ Cardinality(Counted') = Cardinality(Counted) - 1
            /\ Cardinality(Counted') \in Nat
        BY <3>1, <4>1, FS_RemoveElement, FS_CardinalityType
      <4> QED
        BY <2>1, <2>3, <3>1, <3>3, <4>2 DEF EnoughAwake, Uncount
    <3> QED
      BY <3>2, <3>3
  <2>5. TypeOK'
    BY <1>0, <1>7, <2>1, <2>4 DEF RunprocTake, TypeOK, MachPlaces
  <2>6. WaiterInv'
    BY <2>3 DEF WaiterInv, Entering
  <2>7. HoldInv'
    BY <2>1, <2>3 DEF HoldInv, Entering
  <2>8. QueuedOnce'
    <3>1. \A q \in Kproc : Contains(kprocq', q) =>
              state'[q] = "Ready" /\ \A n \in Mach : ~(at'[n] = "spinning" /\ up'[n] = q)
      BY <2>2, <2>3 DEF QueuedOnce
    <3>2. ASSUME NEW q \in Kproc, state'[q] = "Ready"
          PROVE  Contains(kprocq', q) \/ \E n \in Mach : at'[n] = "spinning" /\ up'[n] = q
      <4>1. CASE q = p
        BY <2>3, <4>1
      <4>2. CASE q # p
        BY <2>2, <2>3, <3>2, <4>2 DEF QueuedOnce, Entering
      <4> QED
        BY <4>1, <4>2
    <3> QED
      BY <2>2, <3>1, <3>2 DEF QueuedOnce
  <2> QED
    BY <2>4, <2>5, <2>6, <2>7, <2>8
<1>8. ASSUME NEW m \in Mach, RunprocSleep(m) PROVE IInv'
  <2>1. /\ at[m] \in Entering /\ state' = state /\ mach' = mach
        /\ kprocq' = kprocq /\ up' = up
        /\ kprocq = <<>> /\ nrunproc' = nrunproc - Uncount(m) + 1
        /\ waiter' = <<m>> \o waiter
        /\ \A n \in Mach : at'[n] = IF n = m THEN "sleeping" ELSE at[n]
    BY <1>0, <1>8 DEF RunprocSleep
  <2>2. ~Contains(waiter, m)
    BY <2>1 DEF WaiterInv, Entering
  <2>3. waiter' \in Seq(Mach) /\ WaiterInv'
    <3>1. /\ waiter' \in Seq(Mach) /\ IsInjective(waiter')
          /\ \A n \in Mach : Contains(waiter', n) <=> Contains(waiter, n) \/ n = m
      BY <1>0, <2>1, <2>2, PushHead DEF WaiterInv
    <3> QED
      BY <2>1, <3>1 DEF WaiterInv
  <2>4. nrunproc' \in Nat /\ EnoughAwake'
    <3>1. /\ nrunproc = Cardinality(Counted) /\ Len(kprocq) = 0
          /\ IsFiniteSet(Counted) /\ Cardinality(Counted) \in Nat
          /\ IsFiniteSet(Awake) /\ IsFiniteSet(Awake \ {m})
          /\ Cardinality(Awake \ {m}) \in Nat
      BY <2>1, FiniteCounts, FS_RemoveElement, FS_CardinalityType DEF EnoughAwake
    <3>2. Awake' = Awake \ {m} /\ Counted' = Counted \cup {m}
      BY <2>1 DEF Awake, Counted
    <3>3. /\ m \in Counted <=> at[m] # "looking"
          /\ Cardinality(Counted \cup {m}) =
                 IF m \in Counted THEN Cardinality(Counted) ELSE Cardinality(Counted) + 1
      BY <2>1, <3>1, FS_AddElement DEF Counted, Entering
    <3> QED
      BY <2>1, <3>1, <3>2, <3>3 DEF EnoughAwake, Uncount
  <2>5. TypeOK'
    BY <1>0, <1>8, <2>3, <2>4 DEF RunprocSleep, TypeOK, MachPlaces
  <2>6. HoldInv' /\ QueuedOnce'
    BY <2>1 DEF HoldInv, QueuedOnce, Entering
  <2> QED
    BY <2>3, <2>4, <2>5, <2>6
<1>9. ASSUME NEW m \in Mach, Dispatch(m) PROVE IInv'
  <2>0. PICK p \in Kproc : up[m] = p /\ mach[p] = None /\ state[p] = "Ready"
    BY <1>9 DEF Dispatch, HoldInv
  <2>1. /\ at[m] = "spinning" /\ kprocq' = kprocq /\ nrunproc' = nrunproc
        /\ waiter' = waiter /\ up' = up
        /\ \A n \in Mach : at'[n] = IF n = m THEN "running" ELSE at[n]
        /\ \A q \in Kproc : /\ state'[q] = IF q = p THEN "Running" ELSE state[q]
                            /\ mach'[q] = IF q = p THEN m ELSE mach[q]
    BY <1>0, <1>9, <2>0 DEF Dispatch
  <2>2. TypeOK'
    BY <1>0, <1>9 DEF Dispatch, TypeOK, ProcStates, MachPlaces
  <2>3. WaiterInv' /\ EnoughAwake'
    BY <2>1, CountsKept
  <2>4. /\ None \notin Mach
        /\ \A n \in Mach : at[n] = "spinning" /\ up[n] = p => n = m
    BY <2>0, <2>1, KprocSchedAssumption DEF HoldInv
  <2>5. HoldInv'
    BY <2>0, <2>1, <2>4 DEF HoldInv
  <2>6. QueuedOnce'
    BY <2>0, <2>1, <2>4 DEF QueuedOnce
  <2> QED
    BY <2>2, <2>3, <2>5, <2>6
<1>10. CASE OutOfProcessors \/ UNCHANGED vars
  <2>1. UNCHANGED <<state, mach, kprocq, nrunproc, waiter, at, up>> /\ panicked' \in BOOLEAN
    BY <1>10 DEF OutOfProcessors, vars, TypeOK
  <2> QED
    BY <2>1 DEF TypeOK, WaiterInv, HoldInv, QueuedOnce, EnoughAwake, Awake, Counted
<1> QED
  BY <1>1, <1>2, <1>3, <1>4, <1>5, <1>6, <1>7, <1>8, <1>9, <1>10
  DEF Next, Schedule, Halted

(* Without prompt reuse of a slot the invariant holds in every state.       *)
LEMMA SpecIInv ==
    ASSUME ~PromptReuse
    PROVE  Spec => []IInv
<1>1. IInv /\ [Next]_vars => IInv'
  BY StepIInv
<1> QED
  BY InitIInv, <1>1, PTL DEF Spec

(* No two host threads run on one kernel stack, provided that newproc does  *)
(* not reuse a slot before its processor has let go of it.                  *)
THEOREM KprocStacksSafe ==
    ASSUME ~PromptReuse
    PROVE  Spec => []NoTwoStacks
<1>1. IInv => NoTwoStacks
  BY KprocSchedAssumption DEF IInv, HoldInv, NoTwoStacks, OnStackOf
<1>2. Spec => []IInv
  BY SpecIInv
<1> QED
  BY <1>1, <1>2, PTL

(* p->mach is 0 only when no processor is on p's stack any more, which      *)
(* runproc relies on when it takes p from the queue.                        *)
THEOREM KprocMachSaved ==
    ASSUME ~PromptReuse
    PROVE  Spec => []MachZeroOnlyWhenSaved
<1>1. IInv => MachZeroOnlyWhenSaved
  BY KprocSchedAssumption DEF IInv, HoldInv, MachZeroOnlyWhenSaved, OnStackOf
<1>2. Spec => []IInv
  BY SpecIInv
<1> QED
  BY <1>1, <1>2, PTL

(* The run queue is right: nobody is on it twice, or off it while Ready and *)
(* taken by no processor.                                                   *)
THEOREM KprocQueueSafe ==
    ASSUME ~PromptReuse
    PROVE  Spec => []QueuedOnce
<1>1. IInv => QueuedOnce
  BY DEF IInv
<1>2. Spec => []IInv
  BY SpecIInv
<1> QED
  BY <1>1, <1>2, PTL

(* ready(), which starts no processor when nrunproc promises one, never     *)
(* relies on a processor that is not on its way to the queue.               *)
THEOREM KprocEnoughAwake ==
    ASSUME ~PromptReuse
    PROVE  Spec => []EnoughAwake
<1>1. IInv => EnoughAwake
  BY DEF IInv
<1>2. Spec => []IInv
  BY SpecIInv
<1> QED
  BY <1>1, <1>2, PTL

----------------------------------------------------------------------------
(* Cpu0Sched, for any number of user processes and threads: cpu0 does not   *)
(* sleep over work, and no ready process is dropped.  Each lemma takes the  *)
(* actions that disturb the same parts of Cpu0IInv.                         *)

(* The first process runs, nothing is queued or being readied.              *)
LEMMA Cpu0InitIInv == Cpu0Init => Cpu0IInv
<1> SUFFICES ASSUME Cpu0Init PROVE Cpu0IInv
  OBVIOUS
<1>1. Cpu0TypeOK
  BY Cpu0SchedAssumption DEF Cpu0Init, Cpu0TypeOK, Idle
<1>2. NoSleepOverWork /\ ReadyIsQueued /\ ScanInv /\ ReadyingInv
  BY <1>1 DEF Cpu0Init, Idle, NoSleepOverWork, ReadyIsQueued, ScanInv, ReadyingInv,
              Carries
<1> QED
  BY <1>1, <1>2 DEF Cpu0IInv

(* The steps of ready() in a thread.  Queueing a process behind cpu0's back *)
(* leaves a kick to come; a kick leaves word.                               *)
LEMMA Cpu0ThreadIInv ==
    ASSUME Cpu0IInv, NEW t \in Thread,
           ThreadStep(t) \/ \E p \in User : ThreadReady(t, p)
    PROVE  Cpu0IInv'
<1> USE Cpu0SchedAssumption
<1>1. ASSUME NEW p \in User, ThreadReady(t, p) PROVE Cpu0IInv'
  <2>1. Cpu0TypeOK'
    BY <1>1 DEF Cpu0IInv, Cpu0TypeOK, ThreadReady
  <2>2. \A s \in Thread, q \in User :
          Carries(s, q)' <=> Carries(s, q) \/ (s = t /\ q = p)
    BY <1>1 DEF Cpu0IInv, Cpu0TypeOK, ThreadReady, Carries, Idle
  <2>3. ~Carries(t, p) /\ p \notin runq /\ \A s \in Thread : ~Carries(s, p)
    BY <1>1 DEF Cpu0IInv, ReadyIsQueued, ThreadReady
  <2>4. ReadyIsQueued'
    BY <1>1, <2>2, <2>3 DEF Cpu0IInv, Cpu0TypeOK, ReadyIsQueued, ThreadReady
  <2>5. \A s \in Thread : readying'[s] = IF s = t THEN [proc |-> p, step |-> "lock"] ELSE readying[s]
    BY <1>1 DEF Cpu0IInv, Cpu0TypeOK, ThreadReady
  <2>6. ReadyingInv'
    BY <1>1, <2>2, <2>3, <2>5 DEF Cpu0IInv, ReadyingInv, ThreadReady, Idle
  <2>7. WordLeft => WordLeft'
    BY <1>1, <2>5 DEF ThreadReady, WordLeft, Idle
  <2>8. NoSleepOverWork' /\ ScanInv'
    BY <1>1, <2>7 DEF Cpu0IInv, Cpu0TypeOK, NoSleepOverWork, ScanInv, ThreadReady
  <2> QED
    BY <2>1, <2>4, <2>6, <2>8 DEF Cpu0IInv
<1>2. CASE ThreadLock(t)
  <2>1. Cpu0TypeOK'
    BY <1>2 DEF Cpu0IInv, Cpu0TypeOK, ThreadLock, Step
  <2>2. \A s \in Thread : readying'[s].proc = readying[s].proc
    BY <1>2 DEF Cpu0IInv, Cpu0TypeOK, ThreadLock, Step
  <2>3. \A s \in Thread : readying'[s].step = IF s = t THEN "queue" ELSE readying[s].step
    BY <1>2 DEF Cpu0IInv, Cpu0TypeOK, ThreadLock, Step
  <2>4. readying[t].step = "lock"
    BY <1>2 DEF ThreadLock, Step
  <2>5. \A s \in Thread, q \in User : Carries(s, q)' <=> Carries(s, q)
    BY <2>2, <2>3, <2>4 DEF Carries
  <2>6. WordLeft => WordLeft'
    BY <1>2, <2>3, <2>4 DEF ThreadLock, WordLeft
  <2>7. ReadyingInv' /\ ReadyIsQueued'
    BY <1>2, <2>2, <2>3, <2>4, <2>5 DEF Cpu0IInv, ReadyingInv, ReadyIsQueued, ThreadLock
  <2>8. NoSleepOverWork' /\ ScanInv'
    BY <1>2, <2>6 DEF Cpu0IInv, NoSleepOverWork, ScanInv, ThreadLock
  <2> QED
    BY <2>1, <2>7, <2>8 DEF Cpu0IInv
<1>3. CASE ThreadQueue(t)
  <2> DEFINE q == readying[t].proc
  <2>1. readying[t].step = "queue" /\ q \in User /\ Carries(t, q)
    BY <1>3 DEF Cpu0IInv, ReadyingInv, ThreadQueue, Step, Carries
  <2>2. Cpu0TypeOK'
    BY <1>3, <2>1 DEF Cpu0IInv, Cpu0TypeOK, ThreadQueue, Step
  <2>3. \A s \in Thread : readying'[s].proc = readying[s].proc
    BY <1>3 DEF Cpu0IInv, Cpu0TypeOK, ThreadQueue, Step
  <2>4. \A s \in Thread : readying'[s].step = IF s = t THEN "kick" ELSE readying[s].step
    BY <1>3 DEF Cpu0IInv, Cpu0TypeOK, ThreadQueue, Step
  <2>5. \A s \in Thread, r \in User : Carries(s, r)' <=> Carries(s, r) /\ s # t
    BY <2>3, <2>4 DEF Carries
  <2>6. WordLeft'
    BY <2>4 DEF WordLeft
  <2>7. \A s \in Thread : s # t => ~Carries(s, q)
    BY <2>1 DEF Cpu0IInv, ReadyingInv
  <2>8. ReadyingInv'
    BY <1>3, <2>1, <2>3, <2>4, <2>5, <2>7 DEF Cpu0IInv, ReadyingInv, ThreadQueue
  <2>9. \A r \in User : Carries(t, r) => r = q
    BY DEF Carries
  <2>10. ReadyIsQueued'
    BY <1>3, <2>1, <2>5, <2>9 DEF Cpu0IInv, ReadyIsQueued, ThreadQueue
  <2>11. NoSleepOverWork' /\ ScanInv'
    BY <1>3, <2>6 DEF Cpu0IInv, NoSleepOverWork, ScanInv, ThreadQueue
  <2> QED
    BY <2>2, <2>8, <2>10, <2>11 DEF Cpu0IInv
<1>4. CASE ThreadKick(t)
  <2>1. Cpu0TypeOK'
    BY <1>4 DEF Cpu0IInv, Cpu0TypeOK, ThreadKick, Kicked, Idle
  <2>2. \A s \in Thread : readying'[s] = IF s = t THEN Idle ELSE readying[s]
    BY <1>4 DEF Cpu0IInv, Cpu0TypeOK, ThreadKick
  <2>3. \A s \in Thread, r \in User : Carries(s, r)' <=> Carries(s, r)
    BY <1>4, <2>2 DEF Carries, ThreadKick, Idle
  <2>4. ReadyingInv' /\ ReadyIsQueued'
    BY <1>4, <2>2, <2>3 DEF Cpu0IInv, ReadyingInv, ReadyIsQueued, ThreadKick, Idle
  <2>5. WordLeft'
    BY <1>4 DEF ThreadKick, WordLeft
  <2>6. NoSleepOverWork' /\ ScanInv'
    BY <1>4, <2>5 DEF Cpu0IInv, NoSleepOverWork, ScanInv, ThreadKick, Kicked
  <2> QED
    BY <2>1, <2>4, <2>6 DEF Cpu0IInv
<1> QED
  BY <1>1, <1>2, <1>3, <1>4 DEF ThreadStep

(* What the process on cpu0 does.  The search that follows begins anew.     *)
LEMMA Cpu0ProcessIInv ==
    ASSUME Cpu0IInv, (\E p \in User : Cpu0Ready(p)) \/ Cpu0Block \/ Cpu0Yield
    PROVE  Cpu0IInv'
<1> USE Cpu0SchedAssumption
<1>1. place = "running" /\ uproc \in User /\ ustate[uproc] = "Running"
  BY DEF Cpu0IInv, Cpu0TypeOK, ScanInv, Cpu0Ready, Cpu0Block, Cpu0Yield
<1>2. \A s \in Thread, q \in User : Carries(s, q)' <=> Carries(s, q)
  BY DEF Cpu0Ready, Cpu0Block, Cpu0Yield, Carries
<1>3. \A s \in Thread : ~Carries(s, uproc)
  BY <1>1 DEF Cpu0IInv, ReadyIsQueued
<1>4. ASSUME NEW p \in User, Cpu0Ready(p) PROVE Cpu0IInv'
  <2>1. Cpu0TypeOK'
    BY <1>4 DEF Cpu0IInv, Cpu0TypeOK, Cpu0Ready
  <2>2. ReadyingInv' /\ ReadyIsQueued'
    BY <1>2, <1>4 DEF Cpu0IInv, Cpu0TypeOK, ReadyingInv, ReadyIsQueued, Cpu0Ready
  <2>3. NoSleepOverWork' /\ ScanInv'
    BY <1>1, <1>4 DEF Cpu0IInv, Cpu0TypeOK, NoSleepOverWork, ScanInv, Cpu0Ready
  <2> QED
    BY <2>1, <2>2, <2>3 DEF Cpu0IInv
<1>5. CASE Cpu0Block \/ Cpu0Yield
  <2>1. Cpu0TypeOK'
    BY <1>1, <1>5 DEF Cpu0IInv, Cpu0TypeOK, Cpu0Block, Cpu0Yield
  <2>2. ReadyingInv' /\ ReadyIsQueued'
    BY <1>1, <1>2, <1>3, <1>5
       DEF Cpu0IInv, Cpu0TypeOK, ReadyingInv, ReadyIsQueued, Cpu0Block, Cpu0Yield
  <2>3. NoSleepOverWork' /\ ScanInv'
    BY <1>5 DEF NoSleepOverWork, ScanInv, Cpu0Block, Cpu0Yield
  <2> QED
    BY <2>1, <2>2, <2>3 DEF Cpu0IInv
<1> QED
  BY <1>4, <1>5

(* The search for a process, and idlehands.  Only what has been queued      *)
(* since the search began can be on a queue when idlehands sleeps.          *)
LEMMA Cpu0ScheduleIInv == Cpu0IInv /\ Cpu0Schedule => Cpu0IInv'
<1> SUFFICES ASSUME Cpu0IInv, Cpu0Schedule PROVE Cpu0IInv'
  OBVIOUS
<1> USE Cpu0SchedAssumption
<1>1. ASSUME NEW p \in User, ScanFinds(p) \/ ScanReadied(p) PROVE Cpu0IInv'
  BY <1>1 DEF Cpu0IInv, Cpu0TypeOK, NoSleepOverWork, ReadyIsQueued, ScanInv,
              ReadyingInv, WordLeft, Carries, ScanFinds, ScanReadied
<1>2. CASE ScanEnds
  BY <1>2 DEF Cpu0IInv, Cpu0TypeOK, NoSleepOverWork, ReadyIsQueued, ScanInv,
              ReadyingInv, WordLeft, Carries, ScanEnds
<1>3. CASE DequeueFails
  BY <1>3 DEF Cpu0IInv, Cpu0TypeOK, NoSleepOverWork, ReadyIsQueued, ScanInv,
              ReadyingInv, WordLeft, Carries, DequeueFails
<1>4. CASE Dequeue
  <2>1. uproc \in User /\ uproc \in runq /\ \A s \in Thread : ~Carries(s, uproc)
    BY <1>4 DEF Cpu0IInv, Cpu0TypeOK, ReadyingInv, Dequeue
  <2>2. Cpu0TypeOK'
    BY <1>4, <2>1 DEF Cpu0IInv, Cpu0TypeOK, Dequeue
  <2>3. \A s \in Thread, q \in User : Carries(s, q)' <=> Carries(s, q)
    BY <1>4 DEF Dequeue, Carries
  <2>4. ReadyingInv' /\ ReadyIsQueued'
    BY <1>4, <2>1, <2>3 DEF Cpu0IInv, Cpu0TypeOK, ReadyingInv, ReadyIsQueued, Dequeue
  <2>5. NoSleepOverWork' /\ ScanInv'
    BY <1>4, <2>1 DEF Cpu0IInv, Cpu0TypeOK, NoSleepOverWork, ScanInv, Dequeue
  <2> QED
    BY <2>2, <2>4, <2>5 DEF Cpu0IInv
<1>5. CASE Idlehands
  <2>1. Cpu0TypeOK'
    BY <1>5 DEF Cpu0IInv, Cpu0TypeOK, Idlehands
  <2>2. ReadyingInv' /\ ReadyIsQueued'
    BY <1>5 DEF Cpu0IInv, ReadyingInv, ReadyIsQueued, Carries, Idlehands
  <2>3. runq # {} => WordLeft
    BY <1>5 DEF Cpu0IInv, Cpu0TypeOK, NoSleepOverWork, ScanInv, Idlehands
  <2>4. NoSleepOverWork' /\ ScanInv'
    BY <1>5, <2>3 DEF NoSleepOverWork, ScanInv, WordLeft, Idlehands
  <2> QED
    BY <2>1, <2>2, <2>4 DEF Cpu0IInv
<1> QED
  BY <1>1, <1>2, <1>3, <1>4, <1>5 DEF Cpu0Schedule

(* Every step keeps IInv. *)
LEMMA Cpu0NextIInv == Cpu0IInv /\ [Cpu0Next]_cpu0vars => Cpu0IInv'
<1> SUFFICES ASSUME Cpu0IInv, [Cpu0Next]_cpu0vars PROVE Cpu0IInv'
  OBVIOUS
<1>1. ASSUME NEW t \in Thread, ThreadStep(t) \/ \E p \in User : ThreadReady(t, p)
      PROVE  Cpu0IInv'
  BY <1>1, Cpu0ThreadIInv
<1>2. CASE (\E p \in User : Cpu0Ready(p)) \/ Cpu0Block \/ Cpu0Yield
  BY <1>2, Cpu0ProcessIInv
<1>3. CASE Cpu0Schedule
  BY <1>3, Cpu0ScheduleIInv
<1>4. CASE UNCHANGED cpu0vars
  BY <1>4 DEF cpu0vars, Cpu0IInv, Cpu0TypeOK, NoSleepOverWork, ReadyIsQueued, ScanInv,
              ReadyingInv, WordLeft, Carries
<1> QED
  BY <1>1, <1>2, <1>3, <1>4 DEF Cpu0Next

(* The invariant holds in every reachable state.                            *)
LEMMA Cpu0SpecIInv == Cpu0Spec => []Cpu0IInv
  BY Cpu0InitIInv, Cpu0NextIInv, PTL DEF Cpu0Spec

(* cpu0 does not sleep over work, whenever its threads ready processes.     *)
THEOREM Cpu0NoSleepOverWork == Cpu0Spec => []NoSleepOverWork
<1>1. Cpu0IInv => NoSleepOverWork
  BY DEF Cpu0IInv
<1> QED
  BY Cpu0SpecIInv, <1>1, PTL

(* No process that is ready is dropped between dequeueproc and the queues.  *)
THEOREM Cpu0ReadyIsQueued == Cpu0Spec => []ReadyIsQueued
<1>1. Cpu0IInv => ReadyIsQueued
  BY DEF Cpu0IInv
<1> QED
  BY Cpu0SpecIInv, <1>1, PTL
----------------------------------------------------------------------------
(* Timers: the list of timers, and the kproc that waits for the first.      *)

(* A list in the order in which its timers are due, each once.              *)
Ordered(l, f) ==
    \A i, j \in DOMAIN l : i < j => l[i] # l[j] /\ f[l[i]] <= f[l[j]]

(* What a step of the list is: it stays a list in order, the kproc is told  *)
(* of more and of nothing less, and whatever is at the front afterwards is  *)
(* due no earlier than what was there, or the kproc is told.                *)
ListStep ==
    /\ list' \in Seq(Timer) /\ left' \in [Timer -> 0..MaxDelay]
    /\ pend' \in [HostThread -> BOOLEAN]
    /\ Ordered(list', left')
    /\ \A h \in HostThread : pend[h] => pend'[h]
    /\ list' # <<>> =>
         \/ list # <<>> /\ left[Head(list)] <= left'[Head(list')]
         \/ \A h \in HostThread : h = timer_pid => pend'[h]

(* In an ordered list each timer is once.                                   *)
LEMMA OrderedOnce ==
    ASSUME list \in Seq(Timer), Ordered(list, left)
    PROVE  IsInjective(list)
<1>1. \A i, j \in DOMAIN list : i < j \/ j < i \/ i = j
  OBVIOUS
<1> QED  BY <1>1 DEF Ordered, IsInjective

(* timerdel takes a timer out, if it is there.                              *)
LEMMA TimerdelStep ==
    ASSUME TimersTypeOK, Ordered(list, left), NEW t \in Timer, Timerdel(t)
    PROVE  /\ ListStep
           /\ \A x : Contains(list', x) <=> Contains(list, x) /\ x # t
<1>1. /\ list \in Seq(Timer) /\ left \in [Timer -> 0..MaxDelay]
      /\ pend \in [HostThread -> BOOLEAN]
      /\ list' = RemoveFirst(list, t) /\ left' = [left EXCEPT ![t] = 0]
      /\ pend' = [h \in HostThread |-> pend[h] \/ (Uncovers(t) /\ Kicks(h))]
  BY DEF TimersTypeOK, Timerdel, KickIf
<1>2. IsInjective(list)
  BY <1>1, OrderedOnce
<1>3. /\ list' \in Seq(Timer) /\ IsInjective(list')
      /\ \A x : Contains(list', x) <=> Contains(list, x) /\ x # t
      /\ \A i, j \in DOMAIN list' : i < j =>
           \E k, l \in DOMAIN list : k < l /\ list'[i] = list[k] /\ list'[j] = list[l]
  BY <1>1, <1>2, RemoveOne
<1>4. left' \in [Timer -> 0..MaxDelay]
  BY <1>1, TimersAssumption
<1>5. pend' \in [HostThread -> BOOLEAN] /\ \A h \in HostThread : pend[h] => pend'[h]
  BY <1>1 DEF Kicks
<1>6. \A i \in DOMAIN list' : /\ list'[i] \in Timer /\ list'[i] # t
                              /\ \E k \in DOMAIN list : list'[i] = list[k]
  <2> SUFFICES ASSUME NEW i \in DOMAIN list'
               PROVE  /\ list'[i] \in Timer /\ list'[i] # t
                      /\ \E k \in DOMAIN list : list'[i] = list[k]
    OBVIOUS
  <2>1. Contains(list', list'[i]) /\ list'[i] \in Timer
    BY <1>3 DEF Contains
  <2>2. Contains(list, list'[i]) /\ list'[i] # t
    BY <1>3, <2>1
  <2> QED  BY <1>1, <2>1, <2>2 DEF Contains
<1>7. Ordered(list', left')
  <2> SUFFICES ASSUME NEW i \in DOMAIN list', NEW j \in DOMAIN list', i < j
               PROVE  list'[i] # list'[j] /\ left'[list'[i]] <= left'[list'[j]]
    BY DEF Ordered
  <2>1. PICK k \in DOMAIN list, l \in DOMAIN list :
          k < l /\ list'[i] = list[k] /\ list'[j] = list[l]
    BY <1>3
  <2>2. list[k] # list[l] /\ left[list[k]] <= left[list[l]]
    BY <2>1 DEF Ordered
  <2>3. left'[list'[i]] = left[list'[i]] /\ left'[list'[j]] = left[list'[j]]
    BY <1>1, <1>6
  <2> QED  BY <2>1, <2>2, <2>3
<1>8. ASSUME list' # <<>> PROVE list # <<>> /\ left[Head(list)] <= left'[Head(list')]
  <2>1. 1 \in DOMAIN list' /\ Head(list') = list'[1]
    BY <1>3, <1>8
  <2>2. PICK k \in DOMAIN list : list'[1] = list[k]
    BY <1>6, <2>1
  <2>3. list # <<>> /\ Head(list) = list[1] /\ 1 \in DOMAIN list /\ list[1] \in Timer
        /\ (k = 1 \/ 1 < k)
    BY <1>1, <2>2
  <2>4. left[list[1]] <= left[list[k]]
    BY <1>1, <2>2, <2>3 DEF Ordered
  <2>5. left'[list'[1]] = left[list'[1]]
    BY <1>1, <1>6, <2>1
  <2> QED  BY <2>1, <2>2, <2>3, <2>4, <2>5
<1> QED  BY <1>3, <1>4, <1>5, <1>7, <1>8 DEF ListStep

(* timeradd puts a timer in that is not there.                              *)
LEMMA TimeraddStep ==
    ASSUME TimersTypeOK, Ordered(list, left), NEW t \in Timer, ~Contains(list, t),
           NEW d \in Delay, Timeradd(t, d)
    PROVE  /\ ListStep
           /\ \A x : Contains(list', x) <=> Contains(list, x) \/ x = t
<1>1. PICK i \in 1..(Len(list) + 1) :
        /\ \A k \in 1..(i - 1) : left[list[k]] <= d
        /\ i <= Len(list) => left[list[i]] > d
        /\ list' = InsertAt(list, i, t)
        /\ KickIf(i = 1)
  BY DEF Timeradd
<1>2. /\ list \in Seq(Timer) /\ left \in [Timer -> 0..MaxDelay]
      /\ pend \in [HostThread -> BOOLEAN]
      /\ left' = [left EXCEPT ![t] = d] /\ d \in 0..MaxDelay /\ Len(list) \in Nat
      /\ pend' = [h \in HostThread |-> pend[h] \/ (i = 1 /\ Kicks(h))]
  BY <1>1, TimersAssumption DEF TimersTypeOK, Timeradd, KickIf, Delay
<1> DEFINE n == Len(list)
<1>3. /\ list' \in Seq(Timer) /\ Len(list') = n + 1
      /\ \A k \in 1..(n + 1) :
           list'[k] = IF k < i THEN list[k] ELSE IF k = i THEN t ELSE list[k - 1]
      /\ \A x : Contains(list', x) <=> Contains(list, x) \/ x = t
  <2>1. list \in Seq(Timer) /\ IsInjective(list)
    BY <1>2, OrderedOnce
  <2>2. /\ InsertAt(list, i, t) \in Seq(Timer) /\ Len(InsertAt(list, i, t)) = Len(list) + 1
        /\ \A k \in 1..(Len(list) + 1) : InsertAt(list, i, t)[k] =
             IF k < i THEN list[k] ELSE IF k = i THEN t ELSE list[k - 1]
        /\ \A x : Contains(InsertAt(list, i, t), x) <=> Contains(list, x) \/ x = t
    BY <2>1, PutBetween
  <2>3. list' = InsertAt(list, i, t)
    BY <1>1
  <2> QED  BY <2>2, <2>3
<1>4. left' \in [Timer -> 0..MaxDelay] /\ left'[t] = d
  BY <1>2
<1>5. pend' \in [HostThread -> BOOLEAN] /\ \A h \in HostThread : pend[h] => pend'[h]
  BY <1>2 DEF Kicks
<1>6. \A k \in 1..n : list[k] \in Timer /\ list[k] # t /\ left'[list[k]] = left[list[k]]
  BY <1>2 DEF Contains
<1>7. \A k, l \in 1..n : k < l => list[k] # list[l] /\ left[list[k]] <= left[list[l]]
  BY <1>2 DEF Ordered
<1>8. \A k \in 1..n : left[list[k]] \in Nat /\ (k < i => left[list[k]] <= d)
                      /\ (i <= k => d < left[list[k]])
  <2> SUFFICES ASSUME NEW k \in 1..n
               PROVE  left[list[k]] \in Nat /\ (k < i => left[list[k]] <= d)
                      /\ (i <= k => d < left[list[k]])
    OBVIOUS
  <2>1. left[list[k]] \in Nat /\ d \in Nat
    BY <1>2, <1>6
  <2>2. ASSUME k < i PROVE left[list[k]] <= d
    <3>1. k \in 1..(i - 1)
      BY <2>2
    <3> QED  BY <1>1, <3>1
  <2>3. ASSUME i <= k PROVE d < left[list[k]]
    <3>1. i \in 1..n /\ (i = k \/ i < k) /\ left[list[i]] \in Nat
      BY <1>2, <1>6, <2>3
    <3>2. d < left[list[i]]
      BY <1>1, <2>1, <3>1
    <3> QED  BY <1>7, <2>1, <3>1, <3>2
  <2> QED  BY <2>1, <2>2, <2>3
<1>9. Ordered(list', left')
  <2> SUFFICES ASSUME NEW k \in 1..(n + 1), NEW l \in 1..(n + 1), k < l
               PROVE  list'[k] # list'[l] /\ left'[list'[k]] <= left'[list'[l]]
    BY <1>3 DEF Ordered
  <2> DEFINE x == IF k < i THEN k ELSE k - 1
             y == IF l < i THEN l ELSE l - 1
  <2>1. CASE k # i /\ l # i
    <3>1. x \in 1..n /\ y \in 1..n /\ x < y
      BY <1>2, <2>1
    <3>2. list'[k] = list[x] /\ list'[l] = list[y]
      BY <1>3, <2>1
    <3> HIDE DEF x, y
    <3> QED  BY <1>6, <1>7, <3>1, <3>2
  <2>2. CASE k = i
    <3>1. l - 1 \in 1..n /\ i <= l - 1 /\ list'[k] = t /\ list'[l] = list[l - 1]
      BY <1>2, <1>3, <2>2
    <3>2. left'[list'[l]] = left[list[l - 1]] /\ list[l - 1] # t
      BY <1>6, <3>1
    <3>3. left[list[l - 1]] \in Nat /\ d < left[list[l - 1]]
      BY <1>8, <3>1
    <3> QED  BY <1>2, <1>4, <3>1, <3>2, <3>3
  <2>3. CASE l = i
    <3>1. k \in 1..n /\ k < i /\ list'[k] = list[k] /\ list'[l] = t
      BY <1>2, <1>3, <2>3
    <3> QED  BY <1>4, <1>6, <1>8, <3>1
  <2> QED  BY <2>1, <2>2, <2>3
<1>10. CASE i = 1
  BY <1>2, <1>3, <1>4, <1>5, <1>9, <1>10 DEF ListStep, Kicks
<1>11. CASE i # 1
  <2>1. list # <<>> /\ Head(list) = list[1] /\ Head(list') = list'[1] /\ 1 \in 1..n /\ 1 < i
    BY <1>2, <1>3, <1>11
  <2>2. list'[1] = list[1] /\ left'[list[1]] = left[list[1]] /\ left[list[1]] \in Nat
    BY <1>3, <1>6, <1>8, <2>1
  <2> QED  BY <1>3, <1>4, <1>5, <1>9, <2>1, <2>2 DEF ListStep
<1> QED  BY <1>3, <1>10, <1>11

(* A step of the list keeps HeadWatched, if the kproc goes on waiting.      *)
LEMMA WatchKept ==
    ASSUME TimersTypeOK, HeadWatched, ListStep, UNCHANGED <<timer_pid, thread, tp, until>>
    PROVE  HeadWatched'
<1> SUFFICES ASSUME tp \in {"sigwait", "pselect"}, timer_pid = thread, list' # <<>>,
                    ~pend'[thread]
             PROVE  tp = "pselect" /\ until <= left'[Head(list')]
  BY DEF HeadWatched, AtHome
<1>1. thread \in HostThread /\ ~pend[thread]
  BY DEF ListStep, TimersTypeOK
<1>2. list # <<>> /\ left[Head(list)] <= left'[Head(list')]
  BY <1>1 DEF ListStep
<1>3. tp = "pselect" /\ until <= left[Head(list)]
  BY <1>1, <1>2 DEF HeadWatched, AtHome
<1>4. Head(list) \in Timer /\ Head(list') \in Timer
  BY <1>2 DEF ListStep, TimersTypeOK
<1> QED  BY <1>2, <1>3, <1>4, TimersAssumption DEF ListStep, TimersTypeOK

(* The places in which a process may have its timer in the list.            *)
InTsleep == {"armed", "asleep", "awake"}

(* A step that leaves the list alone keeps ListSound, if nobody leaves a    *)
(* tsleep by it.                                                            *)
LEMMA SameList ==
    ASSUME TimersIInv, TimersTypeOK', UNCHANGED <<list, left>>,
           \A p \in Proc : pc[p] \in InTsleep => pc'[p] \in InTsleep
    PROVE  ListSound'
BY DEF TimersIInv, ListSound, InTsleep

(* The timer kproc at the list, and in what it calls without a look at it.  *)
LEMMA KprocQuietKeeps ==
    ASSUME TimersIInv,
           \/ Start \/ LookNone \/ LookLater \/ Signalled \/ TimeIsUp
           \/ TwakeupRead \/ TwakeupClear \/ TwakeupWake \/ SoundQlock
    PROVE  TimersIInv'
<1>1. TimersTypeOK /\ UNCHANGED <<list, left>>
  BY DEF TimersIInv, ListSound, Start, LookNone, LookLater, Signalled, TimeIsUp, TwakeupRead,
         TwakeupClear, TwakeupWake, SoundQlock, sys
<1>2. TimersTypeOK'
  <2>1. CASE Start
    BY <1>1, <2>1 DEF Start, KpGoto, TimersTypeOK, sys, users
  <2>2. CASE LookNone \/ TimeIsUp
    BY <1>1, <2>2 DEF LookNone, TimeIsUp, KpGoto, TimersTypeOK, sys, users
  <2>3. CASE LookLater
    <3>1. Head(list) \in Timer
      BY <1>1, <2>3 DEF LookLater, TimersTypeOK
    <3> QED  BY <1>1, <2>3, <3>1 DEF LookLater, KpGoto, TimersTypeOK, sys, users
  <2>4. CASE Signalled
    BY <1>1, <2>4, TimersAssumption DEF Signalled, TimersTypeOK, users
  <2>5. CASE TwakeupRead
    BY <1>1, <2>5 DEF TwakeupRead, KpGoto, TimersTypeOK, sys, users, TimersIInv, DueInv
  <2>6. CASE TwakeupClear
    BY <1>1, <2>6 DEF TwakeupClear, KpGoto, TimersTypeOK, sys
  <2>7. CASE TwakeupWake
    BY <1>1, <2>7 DEF TwakeupWake, KpGoto, TimersTypeOK, sys
  <2>8. CASE SoundQlock
    BY <1>1, <2>8 DEF SoundQlock, KpGoto, TimersTypeOK, sys, users
  <2> QED  BY <2>1, <2>2, <2>3, <2>4, <2>5, <2>6, <2>7, <2>8
<1>3. \A p \in Proc : /\ pc[p] \in InTsleep => pc'[p] \in InTsleep
                      /\ pc'[p] \in {"alarm", "alarmadd"} <=> pc[p] \in {"alarm", "alarmadd"}
                      /\ pc'[p] = "alarmadd" => pc[p] = "alarmadd"
  <2>1. pc' = pc \/ \E p \in Proc : pc[p] = "asleep" /\ pc' = [pc EXCEPT ![p] = "awake"]
    <3>1. CASE TwakeupWake
      BY <3>1 DEF TwakeupWake, KpGoto, Wakes, TimersIInv, DueInv
    <3>2. CASE ~TwakeupWake
      BY <3>2 DEF Start, LookNone, LookLater, Signalled, TimeIsUp, TwakeupRead, TwakeupClear,
                  SoundQlock, users
    <3> QED  BY <3>1, <3>2
  <2> QED  BY <1>1, <2>1 DEF TimersTypeOK, InTsleep
<1>4. HeadWatched'
  <2>1. CASE LookLater
    <3>1. Head(list) \in Timer
      BY <1>1, <2>1 DEF LookLater, TimersTypeOK
    <3> QED
      BY <1>1, <2>1, <3>1, TimersAssumption DEF LookLater, KpGoto, HeadWatched, TimersTypeOK
  <2>2. CASE ~LookLater
    BY <1>1, <2>2 DEF Start, LookNone, Signalled, TimeIsUp, TwakeupRead, TwakeupClear,
                TwakeupWake, SoundQlock, KpGoto, HeadWatched
  <2> QED  BY <2>1, <2>2
<1>5. AlarmInv'
  <2>1. CASE SoundQlock
    <3>1. /\ tp = "qlock" /\ list' = list
          /\ alk = Nobody => tp' = "sound" /\ alk' = alarmtimer
          /\ alk # Nobody => tp' = "queued" /\ alk' = alk
      BY <2>1 DEF SoundQlock, KpGoto, sys
    <3> QED
      BY <1>3, <3>1, TimersAssumption DEF TimersIInv, AlarmInv
  <2>2. CASE ~SoundQlock
    <3>1. alk' = alk /\ list' = list
      BY <2>2 DEF Start, LookNone, LookLater, Signalled, TimeIsUp, TwakeupRead, TwakeupClear,
                  TwakeupWake, sys
    <3>2. tp \notin {"sound", "soundadd"} /\ tp' \notin {"sound", "soundadd"}
      BY <2>2 DEF Start, LookNone, LookLater, Signalled, TimeIsUp, TwakeupRead, TwakeupClear,
                  TwakeupWake, KpGoto
    <3> QED  BY <1>3, <3>1, <3>2 DEF TimersIInv, AlarmInv
  <2> QED  BY <2>1, <2>2
<1>6. DueInv'
  BY DEF TimersIInv, DueInv, Start, LookNone, LookLater, Signalled, TimeIsUp, TwakeupRead,
         TwakeupClear, TwakeupWake, SoundQlock, KpGoto
<1>7. ListSound'
  BY <1>1, <1>2, <1>3, SameList
<1> QED  BY <1>4, <1>5, <1>6, <1>7 DEF TimersIInv

(* Time that goes by keeps the order, and takes from the sleep of the kproc *)
(* what it takes from the first timer.                                      *)
LEMMA TickKeeps ==
    ASSUME TimersIInv, Tick
    PROVE  TimersIInv'
<1>1. /\ TimersTypeOK /\ left' = [t \in Timer |-> Less(left[t])] /\ until' = Less(until)
      /\ UNCHANGED <<list, pend, timer_pid, thread, tp, due, seen, trend, on, cond, pc, alk>>
  BY DEF TimersIInv, ListSound, Tick, users
<1>2. \A m, n \in Nat : Less(m) \in Nat /\ Less(m) <= m /\ (m <= n => Less(m) <= Less(n))
  BY DEF Less
<1>3. MaxDelay \in Nat /\ \A n \in 0..MaxDelay : Less(n) \in 0..MaxDelay
  BY TimersAssumption DEF Less
<1>4. TimersTypeOK'
  BY <1>1, <1>3 DEF TimersTypeOK
<1>5. \A t \in Timer : left[t] \in Nat /\ left'[t] = Less(left[t])
  BY <1>1, <1>3 DEF TimersTypeOK
<1>6. ListSound'
  <2>1. ASSUME NEW i \in DOMAIN list, NEW j \in DOMAIN list, i < j
        PROVE  list[i] # list[j] /\ left'[list[i]] <= left'[list[j]]
    <3>1. list[i] \in Timer /\ list[j] \in Timer
      BY <1>1 DEF TimersTypeOK
    <3>2. list[i] # list[j] /\ left[list[i]] <= left[list[j]]
      BY <2>1 DEF TimersIInv, ListSound
    <3> QED  BY <1>2, <1>5, <3>1, <3>2
  <2> QED  BY <1>1, <1>4, <2>1 DEF TimersIInv, ListSound
<1>7. HeadWatched'
  <2>1. ASSUME list # <<>>, until <= left[Head(list)] PROVE until' <= left'[Head(list)]
    <3>1. Head(list) \in Timer /\ until \in Nat
      BY <1>1, <1>3, <2>1 DEF TimersTypeOK
    <3> QED  BY <1>1, <1>2, <1>5, <2>1, <3>1
  <2> QED  BY <1>1, <2>1 DEF TimersIInv, HeadWatched, AtHome
<1>8. AlarmInv' /\ DueInv'
  BY <1>1 DEF TimersIInv, AlarmInv, DueInv
<1> QED  BY <1>6, <1>7, <1>8 DEF TimersIInv

(* The kproc takes the first timer off the list: it waits for nothing now.  *)
LEMMA LookDueKeeps ==
    ASSUME TimersIInv, LookDue
    PROVE  TimersIInv'
<1>1. /\ TimersTypeOK /\ Ordered(list, left) /\ list # <<>> /\ tp = "look"
      /\ due' = Head(list) /\ list' = Tail(list)
      /\ tp' = IF due' = alarmtimer THEN "qlock" ELSE "fire"
      /\ UNCHANGED <<left, pend, timer_pid, thread, until, seen, trend, on, cond, pc, alk>>
  BY DEF TimersIInv, ListSound, Ordered, LookDue, KpGoto, users
<1>2. list \in Seq(Timer)
  BY <1>1 DEF TimersTypeOK
<1>3. /\ list' \in Seq(Timer) /\ due' \in Timer
      /\ DOMAIN list = 1..Len(list) /\ Len(list) \in Nat
      /\ DOMAIN list' = 1..(Len(list) - 1) /\ \A i \in DOMAIN list' : list'[i] = list[i + 1]
  BY <1>1, <1>2
<1>4. \A x : Contains(list', x) => Contains(list, x)
  BY <1>1, <1>2, OrderedOnce, ContainsTail
<1>5. TimersTypeOK'
  BY <1>1, <1>3 DEF TimersTypeOK
<1>6. ListSound'
  <2>1. ASSUME NEW i \in DOMAIN list', NEW j \in DOMAIN list', i < j
        PROVE  list'[i] # list'[j] /\ left'[list'[i]] <= left'[list'[j]]
    <3>1. i + 1 \in DOMAIN list /\ j + 1 \in DOMAIN list /\ i + 1 < j + 1
      BY <1>3, <2>1
    <3> QED  BY <1>1, <1>3, <2>1, <3>1 DEF Ordered
  <2> QED  BY <1>1, <1>4, <1>5, <2>1 DEF TimersIInv, ListSound
<1>7. HeadWatched'
  BY <1>1 DEF HeadWatched
<1>8. AlarmInv'
  BY <1>1, <1>4 DEF TimersIInv, AlarmInv
<1>9. DueInv'
  BY <1>1, <1>3 DEF DueInv, Timer
<1> QED  BY <1>6, <1>7, <1>8, <1>9 DEF TimersIInv

(* A step of the list keeps ListSound, if every process on it is in tsleep. *)
LEMMA ListStepSound ==
    ASSUME TimersTypeOK', ListStep, \A p \in Proc : Contains(list', p) => pc'[p] \in InTsleep
    PROVE  ListSound'
BY DEF ListStep, ListSound, Ordered, InTsleep

(* The kproc sets the timer of the alarms again, in two steps.              *)
LEMMA SoundKeeps ==
    ASSUME TimersIInv, SoundDel \/ SoundAdd
    PROVE  TimersIInv'
<1>1. TimersTypeOK /\ Ordered(list, left) /\ alarmtimer \in Timer
  BY DEF TimersIInv, ListSound, Ordered, Timer
<1>2. CASE SoundDel
  <2>1. /\ tp = "sound" /\ tp' = "soundadd" /\ Timerdel(alarmtimer)
        /\ UNCHANGED <<timer_pid, thread, until, due, seen, trend, on, cond, pc, alk>>
    BY <1>2 DEF SoundDel, KpGoto, users
  <2>2. ListStep /\ \A x : Contains(list', x) <=> Contains(list, x) /\ x # alarmtimer
    BY <1>1, <2>1, TimerdelStep
  <2>3. TimersTypeOK'
    BY <1>1, <2>1, <2>2 DEF TimersTypeOK, ListStep
  <2>4. ListSound'
    BY <2>1, <2>2, <2>3, ListStepSound DEF TimersIInv, ListSound, InTsleep
  <2>5. HeadWatched' /\ AlarmInv' /\ DueInv'
    BY <2>1, <2>2 DEF HeadWatched, TimersIInv, AlarmInv, DueInv
  <2> QED  BY <2>4, <2>5 DEF TimersIInv
<1>3. CASE SoundAdd
  <2>1. /\ tp = "soundadd" /\ tp' = "look" /\ alk' = Nobody /\ due' = Nobody
        /\ UNCHANGED sys \/ \E d \in Delay : Timeradd(alarmtimer, d)
        /\ UNCHANGED <<timer_pid, thread, until, seen, trend, on, cond, pc>>
    BY <1>3 DEF SoundAdd, KpGoto, users
  <2>2. alk = alarmtimer /\ alk # Nobody /\ ~Contains(list, alarmtimer)
    BY <2>1, TimersAssumption DEF TimersIInv, AlarmInv
  <2>3. HeadWatched' /\ AlarmInv' /\ DueInv'
    BY <2>1, <2>2, TimersAssumption DEF HeadWatched, TimersIInv, AlarmInv, DueInv
  <2>4. CASE UNCHANGED sys
    <3>1. TimersTypeOK'
      BY <1>1, <2>1, <2>4 DEF TimersTypeOK, sys
    <3>2. ListSound'
      BY <2>1, <2>4, <3>1, SameList DEF sys
    <3> QED  BY <2>3, <3>2 DEF TimersIInv
  <2>5. CASE \E d \in Delay : Timeradd(alarmtimer, d)
    <3>1. ListStep /\ \A x : Contains(list', x) <=> Contains(list, x) \/ x = alarmtimer
      BY <1>1, <2>2, <2>5, TimeraddStep
    <3>2. TimersTypeOK'
      BY <1>1, <2>1, <3>1 DEF TimersTypeOK, ListStep
    <3>3. ListSound'
      BY <2>1, <3>1, <3>2, ListStepSound, TimersAssumption DEF TimersIInv, ListSound, InTsleep
    <3> QED  BY <2>3, <3>3 DEF TimersIInv
  <2> QED  BY <2>1, <2>4, <2>5
<1> QED  BY <1>2, <1>3

(* A process that begins a tsleep was not on the list.                      *)
LEMMA TsleepKeeps ==
    ASSUME TimersIInv, NEW p \in Proc, Tsleep(p)
    PROVE  TimersIInv'
<1>1. /\ TimersTypeOK /\ Ordered(list, left) /\ p \in Timer /\ p # alarmtimer
      /\ pc[p] = "run" /\ pc' = [pc EXCEPT ![p] = "armed"]
      /\ UNCHANGED <<timer_pid, thread, tp, until, due, seen, cond, alk>>
  BY TimersAssumption DEF TimersIInv, ListSound, Ordered, Timer, Tsleep, Goto, kp
<1>2. PICK d \in Delay, r \in Rendez : /\ Timeradd(p, d)
                                       /\ trend' = [trend EXCEPT ![p] = r]
                                       /\ on' = [on EXCEPT ![p] = r]
  BY DEF Tsleep
<1>3. ~Contains(list, p)
  BY <1>1 DEF TimersIInv, ListSound
<1>4. ListStep /\ \A x : Contains(list', x) <=> Contains(list, x) \/ x = p
  BY <1>1, <1>2, <1>3, TimeraddStep
<1>5. \A q \in Proc : pc'[q] = IF q = p THEN "armed" ELSE pc[q]
  BY <1>1 DEF TimersTypeOK
<1>6. TimersTypeOK'
  <2>1. /\ trend' \in [Proc -> Rendez \cup {Nobody}] /\ on' \in [Proc -> Rendez \cup {Nobody}]
        /\ pc' \in [Proc -> {"run", "armed", "asleep", "awake", "alarm", "alarmadd"}]
    BY <1>1, <1>2 DEF TimersTypeOK
  <2> QED  BY <1>1, <1>4, <2>1 DEF TimersTypeOK, ListStep
<1>7. ListSound'
  BY <1>4, <1>5, <1>6, ListStepSound DEF TimersIInv, ListSound, InTsleep
<1>8. HeadWatched'
  BY <1>1, <1>4, WatchKept DEF TimersIInv
<1>9. AlarmInv'
  BY <1>1, <1>4, <1>5 DEF TimersIInv, AlarmInv
<1>10. DueInv'
  BY <1>1 DEF TimersIInv, DueInv
<1> QED  BY <1>7, <1>8, <1>9, <1>10 DEF TimersIInv

(* What goes on in a tsleep before it ends does not concern the list.       *)
LEMMA InTsleepKeeps ==
    ASSUME TimersIInv, NEW p \in Proc, SleepTfn(p) \/ Rouse(p)
    PROVE  TimersIInv'
<1>1. /\ TimersTypeOK
      /\ UNCHANGED <<list, left, pend, timer_pid, thread, tp, until, due, seen, trend, on, alk>>
      /\ pc[p] \in InTsleep /\ \E a \in InTsleep : pc' = [pc EXCEPT ![p] = a]
      /\ cond' = cond \/ cond' = [cond EXCEPT ![p] = TRUE]
  BY DEF TimersIInv, ListSound, SleepTfn, Rouse, Goto, InTsleep, sys, kp
<1>2. \A q \in Proc : IF q = p THEN pc'[q] \in InTsleep ELSE pc'[q] = pc[q]
  BY <1>1 DEF TimersTypeOK
<1>3. TimersTypeOK'
  <2>1. /\ pc' \in [Proc -> {"run", "armed", "asleep", "awake", "alarm", "alarmadd"}]
        /\ cond' \in [Proc -> BOOLEAN]
    BY <1>1 DEF TimersTypeOK, InTsleep
  <2> QED  BY <1>1, <2>1 DEF TimersTypeOK
<1>4. ListSound'
  BY <1>1, <1>2, <1>3, SameList
<1>5. HeadWatched' /\ DueInv'
  BY <1>1 DEF TimersIInv, HeadWatched, AtHome, DueInv
<1>6. AlarmInv'
  BY <1>1, <1>2 DEF TimersIInv, AlarmInv, InTsleep
<1> QED  BY <1>4, <1>5, <1>6 DEF TimersIInv

(* A process whose tsleep ends is off the list.                             *)
LEMMA TsleepEndsKeeps ==
    ASSUME TimersIInv, NEW p \in Proc, TsleepEnds(p)
    PROVE  TimersIInv'
<1>1. /\ TimersTypeOK /\ Ordered(list, left) /\ p \in Timer /\ p # alarmtimer
      /\ pc[p] = "awake" /\ pc' = [pc EXCEPT ![p] = "run"] /\ Timerdel(p)
      /\ on' = [on EXCEPT ![p] = Nobody] /\ cond' = [cond EXCEPT ![p] = FALSE]
      /\ UNCHANGED <<timer_pid, thread, tp, until, due, seen, trend, alk>>
  BY TimersAssumption DEF TimersIInv, ListSound, Ordered, Timer, TsleepEnds, Goto, kp
<1>2. ListStep /\ \A x : Contains(list', x) <=> Contains(list, x) /\ x # p
  BY <1>1, TimerdelStep
<1>3. \A q \in Proc : pc'[q] = IF q = p THEN "run" ELSE pc[q]
  BY <1>1 DEF TimersTypeOK
<1>4. TimersTypeOK'
  BY <1>1, <1>2 DEF TimersTypeOK, ListStep
<1>5. ListSound'
  BY <1>2, <1>3, <1>4, ListStepSound DEF TimersIInv, ListSound, InTsleep
<1>6. HeadWatched'
  BY <1>1, <1>2, WatchKept DEF TimersIInv
<1>7. AlarmInv'
  BY <1>1, <1>2, <1>3 DEF TimersIInv, AlarmInv
<1>8. DueInv'
  BY <1>1 DEF TimersIInv, DueInv
<1> QED  BY <1>5, <1>6, <1>7, <1>8 DEF TimersIInv

(* procalarm takes alarms.lk: nobody else is in setalarm.                   *)
LEMMA AlarmQlockKeeps ==
    ASSUME TimersIInv, NEW p \in Proc, AlarmQlock(p)
    PROVE  TimersIInv'
<1>1. /\ TimersTypeOK /\ pc[p] = "run" /\ pc' = [pc EXCEPT ![p] = "alarm"]
      /\ alk = Nobody /\ alk' = p /\ p # Nobody /\ p # alarmtimer
      /\ UNCHANGED <<list, left, pend, timer_pid, thread, tp, until, due, seen>>
      /\ UNCHANGED <<trend, on, cond>>
  BY TimersAssumption DEF TimersIInv, ListSound, AlarmQlock, Goto, sys, kp
<1>2. \A q \in Proc : pc'[q] = IF q = p THEN "alarm" ELSE pc[q]
  BY <1>1 DEF TimersTypeOK
<1>3. TimersTypeOK'
  BY <1>1 DEF TimersTypeOK
<1>4. ListSound'
  BY <1>1, <1>2, <1>3, SameList DEF InTsleep
<1>5. HeadWatched' /\ DueInv'
  BY <1>1 DEF TimersIInv, HeadWatched, AtHome, DueInv
<1>6. tp \notin {"sound", "soundadd"} /\ \A q \in Proc : pc[q] \notin {"alarm", "alarmadd"}
  BY <1>1, TimersAssumption DEF TimersIInv, AlarmInv
<1>7. AlarmInv'
  BY <1>1, <1>2, <1>6 DEF AlarmInv
<1> QED  BY <1>4, <1>5, <1>7 DEF TimersIInv

(* The first half of setalarm takes the timer of the alarms off the list.   *)
LEMMA AlarmDelKeeps ==
    ASSUME TimersIInv, NEW p \in Proc, AlarmDel(p)
    PROVE  TimersIInv'
<1>1. /\ TimersTypeOK /\ Ordered(list, left) /\ alarmtimer \in Timer
      /\ pc[p] = "alarm" /\ pc' = [pc EXCEPT ![p] = "alarmadd"] /\ Timerdel(alarmtimer)
      /\ UNCHANGED <<timer_pid, thread, tp, until, due, seen, trend, on, cond, alk>>
  BY DEF TimersIInv, ListSound, Ordered, Timer, AlarmDel, Goto, kp
<1>2. ListStep /\ \A x : Contains(list', x) <=> Contains(list, x) /\ x # alarmtimer
  BY <1>1, TimerdelStep
<1>3. \A q \in Proc : pc'[q] = IF q = p THEN "alarmadd" ELSE pc[q]
  BY <1>1 DEF TimersTypeOK
<1>4. TimersTypeOK'
  BY <1>1, <1>2 DEF TimersTypeOK, ListStep
<1>5. ListSound'
  BY <1>1, <1>2, <1>3, <1>4, ListStepSound DEF TimersIInv, ListSound, InTsleep
<1>6. HeadWatched'
  BY <1>1, <1>2, WatchKept DEF TimersIInv
<1>7. AlarmInv'
  BY <1>1, <1>2, <1>3 DEF TimersIInv, AlarmInv
<1>8. DueInv'
  BY <1>1 DEF TimersIInv, DueInv
<1> QED  BY <1>5, <1>6, <1>7, <1>8 DEF TimersIInv

(* The second half puts it in, where it is not; qunlock may let the kproc   *)
(* go on, which then waits for nothing.                                     *)
LEMMA AlarmAddKeeps ==
    ASSUME TimersIInv, NEW p \in Proc, AlarmAdd(p)
    PROVE  TimersIInv'
<1>1. /\ TimersTypeOK /\ Ordered(list, left) /\ alarmtimer \in Timer
      /\ pc[p] = "alarmadd" /\ pc' = [pc EXCEPT ![p] = "run"]
      /\ \/ tp = "queued" /\ alk' = alarmtimer /\ tp' = "sound" /\ thread' \in HostThread
         \/ tp # "queued" /\ alk' = Nobody /\ UNCHANGED <<tp, thread>>
      /\ UNCHANGED <<timer_pid, until, due, seen, trend, on, cond>>
  BY DEF TimersIInv, ListSound, Ordered, Timer, AlarmAdd, Goto
<1>2. alk = p /\ p # Nobody /\ p # alarmtimer /\ alarmtimer # Nobody
      /\ ~Contains(list, alarmtimer) /\ tp \notin {"sound", "soundadd"}
  BY <1>1, TimersAssumption DEF TimersIInv, AlarmInv
<1>3. ListStep /\ \A x : Contains(list', x) <=> Contains(list, x) \/ x = alarmtimer
  <2>1. PICK d \in Delay : Timeradd(alarmtimer, d)
    BY DEF AlarmAdd
  <2> QED  BY <1>1, <1>2, <2>1, TimeraddStep
<1>4. \A q \in Proc : pc'[q] = IF q = p THEN "run" ELSE pc[q]
  BY <1>1 DEF TimersTypeOK
<1>5. TimersTypeOK'
  BY <1>1, <1>3 DEF TimersTypeOK, ListStep
<1>6. ListSound'
  <2>1. \A q \in Proc : Contains(list', q) => Contains(list, q) /\ q # p
    BY <1>1, <1>3, TimersAssumption DEF TimersIInv, ListSound
  <2> QED  BY <1>3, <1>4, <1>5, <2>1, ListStepSound DEF TimersIInv, ListSound, InTsleep
<1>7. HeadWatched'
  <2>1. CASE tp = "queued"
    BY <1>1, <2>1 DEF HeadWatched
  <2>2. CASE tp # "queued"
    BY <1>1, <1>3, <2>2, WatchKept DEF TimersIInv
  <2> QED  BY <2>1, <2>2
<1>8. \A q \in Proc : pc'[q] \notin {"alarm", "alarmadd"} /\ q # alarmtimer /\ q # Nobody
  BY <1>1, <1>2, <1>4, TimersAssumption DEF TimersIInv, AlarmInv
<1>9. AlarmInv'
  BY <1>1, <1>2, <1>8 DEF AlarmInv
<1>10. DueInv'
  BY <1>1 DEF TimersIInv, DueInv
<1> QED  BY <1>6, <1>7, <1>9, <1>10 DEF TimersIInv

(* Nothing is set at first.                                                 *)
LEMMA TimersInitOK ==
    ASSUME TimersInit
    PROVE  TimersIInv
<1>1. /\ list = <<>> /\ left = [t \in Timer |-> 0] /\ pend = [h \in HostThread |-> FALSE]
      /\ timer_pid = Nobody /\ thread \in HostThread /\ tp = "start"
      /\ until = 0 /\ due = Nobody /\ seen = Nobody /\ alk = Nobody
      /\ trend = [p \in Proc |-> Nobody] /\ on = [p \in Proc |-> Nobody]
      /\ cond = [p \in Proc |-> FALSE] /\ pc = [p \in Proc |-> "run"]
  BY TimersAssumption DEF TimersInit
<1>2. TimersTypeOK
  BY <1>1, TimersAssumption DEF TimersTypeOK
<1>3. \A x : ~Contains(list, x)
  BY <1>1 DEF Contains
<1>4. ListSound
  BY <1>1, <1>2, <1>3 DEF ListSound
<1>5. HeadWatched /\ AlarmInv /\ DueInv
  BY <1>1, TimersAssumption DEF HeadWatched, AlarmInv, DueInv
<1> QED  BY <1>4, <1>5 DEF TimersIInv

(* Every step keeps the inductive invariant.                                *)
LEMMA TimersStepKeeps ==
    ASSUME TimersIInv, [TimersNext]_timervars
    PROVE  TimersIInv'
<1>1. CASE TimerKproc
  BY <1>1, KprocQuietKeeps, LookDueKeeps, SoundKeeps DEF TimerKproc
<1>2. CASE \E p \in Proc : \/ Tsleep(p) \/ SleepTfn(p) \/ Rouse(p) \/ TsleepEnds(p)
                           \/ AlarmQlock(p) \/ AlarmDel(p) \/ AlarmAdd(p)
  BY <1>2, TsleepKeeps, InTsleepKeeps, TsleepEndsKeeps, AlarmQlockKeeps, AlarmDelKeeps,
     AlarmAddKeeps
<1>3. CASE UNCHANGED timervars
  <2>1. UNCHANGED <<list, left, pend, timer_pid, thread, tp, until, due, seen, trend, on, cond,
                    pc, alk>>
    BY <1>3 DEF timervars, sys, kp, users
  <2> QED
    BY <2>1 DEF TimersIInv, ListSound, TimersTypeOK, HeadWatched, AtHome, AlarmInv, DueInv
<1> QED  BY <1>1, <1>2, <1>3, TickKeeps DEF TimersNext

(* The list of timers is in the order in which they are due, has each once, *)
(* and a process's timer only while its tsleep is going on.                 *)
THEOREM TimersListSound == TimersSpec => []ListSound
<1>1. TimersInit => TimersIInv
  BY TimersInitOK
<1>2. TimersIInv /\ [TimersNext]_timervars => TimersIInv'
  BY TimersStepKeeps
<1>3. TimersIInv => ListSound
  BY DEF TimersIInv
<1> QED  BY <1>1, <1>2, <1>3, PTL DEF TimersSpec

(* As long as it is in the thread it began in, the timer kproc does not     *)
(* sleep past the first timer, whoever changes the list.                    *)
THEOREM TimersHeadWatched == TimersSpec => []HeadWatched
<1>1. TimersInit => TimersIInv
  BY TimersInitOK
<1>2. TimersIInv /\ [TimersNext]_timervars => TimersIInv'
  BY TimersStepKeeps
<1>3. TimersIInv => HeadWatched
  BY DEF TimersIInv
<1> QED  BY <1>1, <1>2, <1>3, PTL DEF TimersSpec
===============================================================================
