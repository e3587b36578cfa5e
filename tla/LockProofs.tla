----------------------------- MODULE LockProofs ------------------------------
(***************************************************************************)
(* The queueing locks of qlock.c.  First QLock, for any set of processes:  *)
(* the handoff keeps the lock exclusive and loses no waiter.  QLockIInv is *)
(* inductive; its parts are needed together: OneOwner survives Handoff     *)
(* only because a list of waiters implies locked (ListInv with             *)
(* LockedIffOwned), and NoLostWaiter survives ReadyHead only because each  *)
(* waiter off the list is in the hands of one process.                     *)
(*                                                                         *)
(* RWLock follows, for any finite set of processes: writers exclude        *)
(* everybody, the count and the flag say who is inside, the panics of      *)
(* runlock and wunlock are unreachable, and the lock implements FairRW.    *)
(* IInv is inductive.  One lemma for each way a call may end says that it  *)
(* keeps IInv and what it is to FairRW, since both follow from who owns    *)
(* the lock after it.                                                      *)
(***************************************************************************)
EXTENDS QLock, RWLock, QueueLemmas, FiniteSetTheorems

(* A free lock that nobody wants satisfies IInv.                            *)
LEMMA QLockInitIInv == QLockInit => QLockIInv
<1> SUFFICES ASSUME QLockInit PROVE QLockIInv
  OBVIOUS
<1>1. QLockTypeOK
  <2>1. <<>> \in Seq(Locker)
    OBVIOUS
  <2> QED
    BY <2>1 DEF QLockInit, QLockTypeOK, States, Places
<1>2. \A p \in Locker : ~Contains(waitlist, p)
  BY DEF QLockInit, Contains
<1>3. ListInv
  BY <1>2 DEF QLockInit, ListInv, IsInjective, OnList
<1>4. QED
  BY <1>1, <1>2, <1>3 DEF QLockInit, QLockIInv, WaiterInv, OneOwner, LockedIffOwned,
     NoLostWaiter, Has, Waits, OnList

(* Every step of qlock, canqlock, sched and qunlock preserves IInv. *)
LEMMA QLockStepIInv == QLockIInv /\ [QLockNext]_qlockvars => QLockIInv'
<1> SUFFICES ASSUME QLockIInv, [QLockNext]_qlockvars PROVE QLockIInv'
  OBVIOUS
<1> USE QLockAssumption DEF QLockIInv, OnList, Waits, Has
<1>1. ASSUME NEW p \in Locker, Take(p) PROVE QLockIInv'
  <2>1. QLockTypeOK'
    BY <1>1 DEF Take, QLockTypeOK, Places
  <2>2. (\A q \in Locker : ~Has(q)) /\ waitlist = <<>>
    BY <1>1 DEF Take, LockedIffOwned, ListInv
  <2>3. \A q \in Locker : ~Contains(waitlist, q)
    BY <2>2 DEF Contains
  <2>4. \A q \in Locker : place'[q] = IF q = p THEN "held" ELSE place[q]
    BY <1>1 DEF Take, QLockTypeOK
  <2>5. ListInv' /\ WaiterInv'
    BY <1>1, <2>2, <2>3, <2>4 DEF Take, ListInv, WaiterInv
  <2>6. OneOwner' /\ LockedIffOwned'
    BY <1>1, <2>2, <2>3, <2>4 DEF Take, OneOwner, LockedIffOwned
  <2>7. NoLostWaiter'
    BY <1>1, <2>3, <2>4 DEF Take, NoLostWaiter
  <2> QED
    BY <2>1, <2>5, <2>6, <2>7
<1>2. ASSUME NEW p \in Locker, Enqueue(p) PROVE QLockIInv'
  <2>1. QLockTypeOK'
    BY <1>2 DEF Enqueue, QLockTypeOK, States, Places
  <2>2. waitlist \in Seq(Locker) /\ ~Contains(waitlist, p)
    BY <1>2 DEF Enqueue, QLockTypeOK, ListInv
  <2>3. \A q \in Locker : Contains(waitlist', q) <=> Contains(waitlist, q) \/ q = p
    BY <1>2, <2>2, ContainsAppend DEF Enqueue
  <2>4. IsInjective(waitlist')
    BY <1>2, <2>2, InjectiveAppend DEF Enqueue, ListInv
  <2>5. \A q \in Locker : /\ place'[q] = IF q = p THEN "leaving" ELSE place[q]
                          /\ runstate'[q] = IF q = p THEN "Queueing" ELSE runstate[q]
    BY <1>2 DEF Enqueue, QLockTypeOK
  <2>6. \A q \in Locker : passing[q] # p
    BY <1>2 DEF Enqueue, WaiterInv
  <2>7. ListInv' /\ WaiterInv'
    BY <1>2, <2>3, <2>4, <2>5 DEF Enqueue, ListInv, WaiterInv
  <2>8. OneOwner' /\ LockedIffOwned'
    BY <1>2, <2>3, <2>5 DEF Enqueue, OneOwner, LockedIffOwned
  <2>9. NoLostWaiter'
    BY <1>2, <2>3, <2>5, <2>6 DEF Enqueue, NoLostWaiter
  <2> QED
    BY <2>1, <2>7, <2>8, <2>9
<1>3. ASSUME NEW p \in Locker, Sched(p) PROVE QLockIInv'
  <2>1. QLockTypeOK'
    BY <1>3 DEF Sched, QLockTypeOK, Places
  <2>2. \A q \in Locker : place'[q] = IF q = p THEN "asleep" ELSE place[q]
    BY <1>3 DEF Sched, QLockTypeOK
  <2>3. ListInv' /\ WaiterInv'
    BY <1>3, <2>2 DEF Sched, ListInv, WaiterInv
  <2>4. OneOwner' /\ LockedIffOwned' /\ NoLostWaiter'
    BY <1>3, <2>2 DEF Sched, OneOwner, LockedIffOwned, NoLostWaiter
  <2> QED
    BY <2>1, <2>3, <2>4
<1>4. ASSUME NEW p \in Locker, Resume(p) PROVE QLockIInv'
  <2>1. QLockTypeOK'
    BY <1>4 DEF Resume, QLockTypeOK, States, Places
  <2>2. \A q \in Locker : /\ place'[q] = IF q = p THEN "held" ELSE place[q]
                          /\ runstate'[q] = IF q = p THEN "Running" ELSE runstate[q]
    BY <1>4 DEF Resume, QLockTypeOK
  <2>3. ~Contains(waitlist, p) /\ \A q \in Locker : passing[q] # p
    BY <1>4 DEF Resume, NoLostWaiter
  <2>4. ListInv' /\ WaiterInv'
    BY <1>4, <2>2, <2>3 DEF Resume, ListInv, WaiterInv
  <2>5. OneOwner' /\ LockedIffOwned'
    BY <1>4, <2>2, <2>3 DEF Resume, OneOwner, LockedIffOwned
  <2>6. NoLostWaiter'
    BY <1>4, <2>2 DEF Resume, NoLostWaiter
  <2> QED
    BY <2>1, <2>4, <2>5, <2>6
<1>5. ASSUME NEW p \in Locker, Free(p) PROVE QLockIInv'
  <2>1. QLockTypeOK'
    BY <1>5 DEF Free, QLockTypeOK, Places
  <2>2. \A q \in Locker : place'[q] = IF q = p THEN "idle" ELSE place[q]
    BY <1>5 DEF Free, QLockTypeOK
  <2>3. \A q \in Locker : Has(q) => q = p
    BY <1>5 DEF Free, OneOwner
  <2>4. ListInv' /\ WaiterInv'
    BY <1>5, <2>2 DEF Free, ListInv, WaiterInv
  <2>5. OneOwner' /\ LockedIffOwned'
    BY <1>5, <2>2, <2>3 DEF Free, OneOwner, LockedIffOwned
  <2>6. NoLostWaiter'
    BY <1>5, <2>2 DEF Free, NoLostWaiter
  <2> QED
    BY <2>1, <2>4, <2>5, <2>6
<1>6. ASSUME NEW p \in Locker, Handoff(p) PROVE QLockIInv'
  <2> DEFINE next == Head(waitlist)
  <2>1. /\ waitlist \in Seq(Locker) /\ waitlist # <<>> /\ waitlist' = Tail(waitlist)
        /\ next \in Locker /\ waitlist' \in Seq(Locker)
        /\ Contains(waitlist, next)
    BY <1>6, ContainsHead DEF Handoff, HandTo, QLockTypeOK
  <2>2. \A q \in Locker : Contains(waitlist', q) <=> Contains(waitlist, q) /\ q # next
    BY <2>1, ContainsTail DEF ListInv
  <2>3. IsInjective(waitlist')
    BY <2>1, InjectiveTail DEF ListInv
  <2>4. /\ place[p] = "held" /\ runstate' = runstate /\ locked' = locked
        /\ \A q \in Locker : /\ place'[q] = IF q = p THEN "readying" ELSE place[q]
                             /\ passing'[q] = IF q = p THEN next ELSE passing[q]
    BY <1>6 DEF Handoff, HandTo, QLockTypeOK
  <2>5. QLockTypeOK'
    BY <1>6, <2>1 DEF Handoff, HandTo, QLockTypeOK, Places
  <2>6. Waits(next) /\ next # p /\ runstate[next] = "Queueing"
        /\ \A q \in Locker : passing[q] # next
    BY <2>1, <2>4 DEF ListInv, NoLostWaiter
  <2>7. locked /\ \A q \in Locker : Has(q) => q = p
    BY <2>4 DEF LockedIffOwned, OneOwner
  <2>8. \A q \in Locker : Has(q)' <=> q = next
    BY <2>1, <2>2, <2>4, <2>6, <2>7
  <2>9. ListInv'
    BY <2>2, <2>3, <2>4, <2>7 DEF ListInv
  <2>10. WaiterInv'
    <3>1. \A q \in Locker : Waits(q)' <=> Waits(q)
      BY <2>4
    <3>2. \A q \in Locker : passing[q] # NoLocker => passing[q] \in Locker
      BY DEF QLockTypeOK
    <3> QED
      BY <2>1, <2>4, <2>6, <3>1, <3>2 DEF WaiterInv
  <2>11. OneOwner' /\ LockedIffOwned'
    BY <2>1, <2>4, <2>7, <2>8 DEF OneOwner, LockedIffOwned
  <2>12. NoLostWaiter'
    <3> SUFFICES ASSUME NEW q \in Locker, Waits(q)'
                 PROVE (NoLostWaiter!(q))'
      BY DEF NoLostWaiter
    <3>1. Waits(q) /\ q # p
      BY <2>4
    <3>2. CASE q = next
      BY <2>2, <2>4, <2>6, <3>2
    <3>3. CASE q # next
      BY <2>2, <2>4, <3>1, <3>3 DEF NoLostWaiter, WaiterInv
    <3> QED
      BY <3>2, <3>3
  <2> QED
    BY <2>5, <2>9, <2>10, <2>11, <2>12
<1>7. ASSUME NEW p \in Locker, ReadyHead(p) PROVE QLockIInv'
  <2> DEFINE next == passing[p]
  <2>1. next \in Locker /\ Waits(next) /\ next # p
    BY <1>7 DEF ReadyHead, WaiterInv, QLockTypeOK
  <2>2. ~Contains(waitlist, next) /\ \A q \in Locker : passing[q] = next => q = p
    BY <2>1 DEF NoLostWaiter
  <2>3. \A q \in Locker : /\ place'[q] = IF q = p THEN "idle" ELSE place[q]
                          /\ runstate'[q] = IF q = next THEN "Ready" ELSE runstate[q]
                          /\ passing'[q] = IF q = p THEN NoLocker ELSE passing[q]
    BY <1>7, <2>1 DEF ReadyHead, QLockTypeOK
  <2>4. QLockTypeOK'
    BY <1>7, <2>1 DEF ReadyHead, QLockTypeOK, States, Places
  <2>5. ListInv' /\ WaiterInv'
    BY <1>7, <2>1, <2>2, <2>3 DEF ReadyHead, ListInv, WaiterInv
  <2>6. OneOwner' /\ LockedIffOwned'
    BY <1>7, <2>3 DEF ReadyHead, OneOwner, LockedIffOwned
  <2>7. NoLostWaiter'
    BY <1>7, <2>1, <2>2, <2>3 DEF ReadyHead, NoLostWaiter
  <2> QED
    BY <2>4, <2>5, <2>6, <2>7
<1>8. CASE UNCHANGED qlockvars
  BY <1>8 DEF qlockvars, QLockTypeOK, ListInv, WaiterInv, OneOwner, LockedIffOwned, NoLostWaiter
<1> QED
  BY <1>1, <1>2, <1>3, <1>4, <1>5, <1>6, <1>7, <1>8 DEF QLockNext

(* The lock is held by at most one process, its flag tells whether it is,   *)
(* and every process that waits for it will be, or is being, handed it.     *)
THEOREM QLockSafe == QLockSpec => [](QLockTypeOK /\ OneOwner /\ LockedIffOwned /\ NoLostWaiter)
<1>1. QLockIInv => QLockTypeOK /\ OneOwner /\ LockedIffOwned /\ NoLostWaiter
  BY DEF QLockIInv
<1> QED
  BY QLockInitIInv, QLockStepIInv, <1>1, PTL DEF QLockSpec

----------------------------------------------------------------------------
(* Every step of QLock is a step of the FIFO mutex or a stutter: being      *)
(* switched out, made ready and dispatched change neither owner nor queue.  *)
LEMMA QLockStepRefines ==
    QLockIInv /\ QLockIInv' /\ [QLockNext]_qlockvars => [Fifo!AbsNext]_(Fifo!absVars)
<1> SUFFICES ASSUME QLockIInv, QLockIInv', [QLockNext]_qlockvars
             PROVE  [Fifo!AbsNext]_(Fifo!absVars)
  OBVIOUS
<1> USE QLockAssumption DEF QLockIInv, OnList, Waits, Has
<1>1. \A p \in Locker : Has(p) => Owner = p
  BY DEF OneOwner, Owner
<1>2. \A p \in Locker : Has(p)' => Owner' = p
  BY DEF OneOwner, Owner
<1>3. ~locked => Owner = NoLocker
  BY DEF LockedIffOwned, Owner
<1>4. ~locked' => Owner' = NoLocker
  BY DEF LockedIffOwned, Owner
<1>5. (\A p \in Locker : Has(p)' <=> Has(p)) => Owner' = Owner
  <2>1. CASE \E p \in Locker : Has(p)
    BY <2>1, <1>1, <1>2
  <2>2. CASE ~\E p \in Locker : Has(p)
    BY <2>2 DEF Owner
  <2> QED
    BY <2>1, <2>2
<1>6. ASSUME NEW p \in Locker, Take(p) PROVE Fifo!Acquire(p)
  <2>1. Has(p)'
    BY <1>6 DEF Take, QLockTypeOK
  <2> QED
    BY <1>6, <2>1, <1>2, <1>3 DEF Take, ListInv, Fifo!Acquire
<1>7. ASSUME NEW p \in Locker, Enqueue(p) PROVE Fifo!Wait(p)
  <2>1. PICK o \in Locker : Has(o)
    BY <1>7 DEF Enqueue, LockedIffOwned
  <2>2. ~Contains(waitlist, p) /\ waitlist \in Seq(Locker)
    BY <1>7 DEF Enqueue, ListInv, QLockTypeOK
  <2>3. \A q \in Locker : Contains(waitlist', q) <=> Contains(waitlist, q) \/ q = p
    BY <1>7, <2>2, ContainsAppend DEF Enqueue
  <2>4. o # p /\ Has(o)'
    BY <1>7, <2>1, <2>3 DEF Enqueue, QLockTypeOK
  <2> QED
    BY <1>7, <2>1, <2>4, <1>1, <1>2 DEF Enqueue, Fifo!Wait
<1>8. ASSUME NEW p \in Locker, Free(p) PROVE Fifo!Release(p)
  BY <1>8, <1>1, <1>4 DEF Free, Fifo!Release
<1>9. ASSUME NEW p \in Locker, Handoff(p) PROVE Fifo!Release(p)
  <2>1. /\ waitlist \in Seq(Locker) /\ waitlist # <<>> /\ waitlist' = Tail(waitlist)
        /\ Head(waitlist) \in Locker /\ Contains(waitlist, Head(waitlist))
    BY <1>9, ContainsHead DEF Handoff, HandTo, QLockTypeOK
  <2>2. ~Contains(waitlist', Head(waitlist))
    BY <2>1, ContainsTail DEF ListInv
  <2>3. PICK next \in Locker : next = Head(waitlist)
    BY <2>1
  <2>4. /\ place[p] = "held" /\ Waits(next) /\ ~Contains(waitlist', next)
        /\ \A q \in Locker : place'[q] = IF q = p THEN "readying" ELSE place[q]
    BY <1>9, <2>1, <2>2, <2>3 DEF Handoff, HandTo, QLockTypeOK, ListInv
  <2>5. Owner = p /\ Owner' = next
    BY <2>4, <1>1, <1>2
  <2> QED
    BY <2>1, <2>3, <2>5 DEF Fifo!Release
<1>10. ASSUME NEW p \in Locker, Sched(p) \/ Resume(p) \/ ReadyHead(p)
       PROVE  Owner' = Owner /\ waitlist' = waitlist
  <2>1. \A q \in Locker : passing[q] # NoLocker => ~Contains(waitlist, passing[q])
    BY DEF WaiterInv, NoLostWaiter, QLockTypeOK
  <2>2. place[p] = "asleep" /\ runstate[p] = "Ready" => ~Contains(waitlist, p)
    BY DEF NoLostWaiter
  <2>3. waitlist' = waitlist /\ \A q \in Locker : Has(q)' <=> Has(q)
    BY <1>10, <2>1, <2>2 DEF Sched, Resume, ReadyHead, QLockTypeOK
  <2> QED
    BY <2>3, <1>5
<1>11. ASSUME UNCHANGED qlockvars PROVE Owner' = Owner /\ waitlist' = waitlist
  BY <1>11, <1>5 DEF qlockvars
<1> QED
  BY <1>6, <1>7, <1>8, <1>9, <1>10, <1>11 DEF QLockNext, Fifo!AbsNext, Fifo!absVars

(* The lock is a first-come first-served mutex: QLock implements FifoMutex. *)
THEOREM QLockIsFifo == QLockSpec => ImplementsFifoMutex
<1>1. QLockInit => Fifo!AbsInit
  BY QLockInitIInv DEF QLockInit, QLockIInv, LockedIffOwned, Owner, Fifo!AbsInit
<1> QED
  BY <1>1, QLockInitIInv, QLockStepIInv, QLockStepRefines, PTL
  DEF QLockSpec, ImplementsFifoMutex, Fifo!AbsSpec

----------------------------------------------------------------------------
(* RWLock. *)

Readers == {q \in Proc : Owns(q, "R")}

(* A lock nobody has asked for satisfies IInv.                              *)
LEMMA InitIInv == Init => IInv
<1> SUFFICES ASSUME Init PROVE IInv
  OBVIOUS
<1>1. TypeOK
  <2>1. <<>> \in Seq(Proc)
    OBVIOUS
  <2> QED
    BY <2>1 DEF Init, TypeOK
<1>2. \A p \in Proc : ~Contains(queue, p)
  BY DEF Init, Contains
<1>3. \A p \in Proc, w \in {"R", "W"} : ~Owns(p, w)
  BY DEF Init, Owns, Waiting
<1>4. QueueInv /\ PlaceInv
  BY <1>2 DEF Init, QueueInv, PlaceInv, IsInjective, Queued, Waiting
<1>5. {p \in Proc : Owns(p, "R")} = {}
  BY <1>3
<1>6. Exclusive /\ CountsOwners /\ HeadIsWriterUnderReaders
  BY <1>2, <1>3, <1>5, FS_EmptySet
     DEF Init, Exclusive, CountsOwners, HeadIsWriterUnderReaders, Queued
<1> QED
  BY <1>1, <1>4, <1>6 DEF IInv

(* What CountsOwners says of q->readers when one reader comes or goes.      *)
LEMMA ReadersCount ==
    ASSUME IInv
    PROVE  /\ IsFiniteSet(Readers) /\ readers \in Nat
           /\ readers = Cardinality(Readers)
           /\ readers = 0 <=> Readers = {}
           /\ \A p : p \notin Readers => Cardinality(Readers \cup {p}) = readers + 1
           /\ \A p \in Readers : readers > 0 /\ Cardinality(Readers \ {p}) = readers - 1
<1>1. IsFiniteSet(Readers)
  BY RWLockAssumption, FS_Subset DEF Readers
<1>2. readers = Cardinality(Readers) /\ readers \in Nat
  BY DEF IInv, CountsOwners, TypeOK, Readers
<1>3. readers = 0 <=> Readers = {}
  BY <1>1, <1>2, FS_EmptySet
<1> QED
  BY <1>1, <1>2, <1>3, FS_AddElement, FS_RemoveElement

(* The first k of a list without repetitions are k processes.               *)
LEMMA CountFirst ==
    ASSUME NEW S, NEW s \in Seq(S), IsInjective(s), NEW k \in 1..Len(s)
    PROVE  Cardinality({s[i] : i \in 1..k}) = k
<1> DEFINE first == {s[i] : i \in 1..k}
           f == [i \in 1..k |-> s[i]]
<1>1. k \in Nat /\ \A i \in 1..k : i \in DOMAIN s
  OBVIOUS
<1>2. \A i, j \in 1..k : s[i] = s[j] => i = j
  BY <1>1 DEF IsInjective
<1>3. f \in Bijection(1..k, first)
  BY <1>2 DEF Bijection, Injection, Surjection, IsInjective
<1>4. ExistsBijection(1..k, first)
  BY <1>3 DEF ExistsBijection
<1> QED
  BY <1>1, <1>4, FS_CountingElements

(* rlock, canrlock and wlock that get the lock at once.                     *)
LEMMA EnterSteps ==
    ASSUME IInv, NEW p \in Proc, RLock(p) \/ WLock(p)
    PROVE  IInv' /\ \E w \in {"R", "W"} : Abs!Enter(p, w)
<1> USE RWLockAssumption
<1> PICK w \in {"R", "W"} : Enter(p, w) /\ (w = "R" <=> RLock(p))
  BY DEF RLock, WLock, Enter
<1>1. /\ pc[p] = "idle" /\ ~writer /\ queue' = queue /\ state' = state /\ handing' = handing
      /\ \A q \in Proc : /\ pc'[q] = IF q = p THEN "held" ELSE pc[q]
                         /\ mode'[q] = IF q = p THEN w ELSE mode[q]
                         /\ handing[q] # NoProc => handing[q] \in Proc
  BY DEF IInv, TypeOK, RLock, WLock, Enter
<1>2. TypeOK'
  <2>1. CASE RLock(p)
    BY <2>1 DEF IInv, TypeOK, RLock, Enter
  <2>2. CASE WLock(p)
    BY <2>2 DEF IInv, TypeOK, WLock, Enter
  <2> QED
    BY <2>1, <2>2
<1>3. queue = <<>>
  BY DEF IInv, QueueInv, RLock, WLock
<1>4. \A q \in Proc : ~Contains(queue, q)
  BY <1>3 DEF Contains
<1>5. /\ \A q \in Proc, v \in {"R", "W"} : Owns(q, v)' <=> Owns(q, v) \/ (q = p /\ v = w)
      /\ ~Owns(p, "R") /\ ~Owns(p, "W")
  BY <1>1, <1>4 DEF Owns, Waiting, Queued
<1>6. PlaceInv' /\ HeadIsWriterUnderReaders'
  BY <1>1, <1>3, <1>4
     DEF IInv, PlaceInv, HeadIsWriterUnderReaders, Waiting, Queued, QueueingFor
<1>7. Abs!Enter(p, w)
  <2>1. Inside' = Inside \cup {p}
    BY <1>5 DEF Inside
  <2>2. ASSUME NEW q \in Inside PROVE w = "R" /\ mode[q] = "R"
    <3>1. Owns(q, "R") /\ q \in Readers
      BY <1>1, <2>2 DEF Inside, Readers, IInv, CountsOwners
    <3>2. readers # 0
      BY <3>1, ReadersCount
    <3> QED
      BY <3>1, <3>2 DEF Owns, WLock, RLock
  <2>3. mode' = [mode EXCEPT ![p] = w]
    BY DEF Enter
  <2> QED
    BY <1>1, <1>3, <2>1, <2>2, <2>3 DEF Abs!Enter, Abs!Compatible
<1>8. ASSUME RLock(p) PROVE IInv'
  <2>1. readers' = readers + 1 /\ writer' = writer
    BY <1>8 DEF RLock
  <2>2. {q \in Proc : Owns(q, "R")'} = Readers \cup {p}
    BY <1>5, <1>8 DEF Readers
  <2>3. p \notin Readers
    BY <1>5 DEF Readers
  <2>4. CountsOwners'
    BY <1>1, <1>5, <1>8, <2>1, <2>2, <2>3, ReadersCount DEF IInv, CountsOwners
  <2>5. Exclusive' /\ QueueInv'
    BY <1>1, <1>3, <1>4, <1>5, <1>8, <2>1
       DEF IInv, Exclusive, CountsOwners, QueueInv, Queued
  <2> QED
    BY <1>2, <1>6, <2>4, <2>5 DEF IInv
<1>9. ASSUME WLock(p), ~RLock(p) PROVE IInv'
  <2>1. readers' = readers /\ readers = 0 /\ writer'
    BY <1>9 DEF WLock
  <2>2. {q \in Proc : Owns(q, "R")'} = Readers /\ Readers = {}
    BY <1>5, <1>9, <2>1, ReadersCount DEF Readers
  <2>3. CountsOwners'
    BY <1>5, <1>9, <2>1, <2>2, ReadersCount DEF CountsOwners
  <2>4. \A q \in Proc : ~Owns(q, "W") /\ ~Owns(q, "R")
    BY <1>1, <2>2 DEF IInv, CountsOwners, Readers
  <2>5. Exclusive' /\ QueueInv'
    BY <1>1, <1>3, <1>4, <1>5, <1>9, <2>1, <2>4 DEF IInv, Exclusive, QueueInv, Queued
  <2> QED
    BY <1>2, <1>6, <2>3, <2>5 DEF IInv
<1> QED
  BY <1>7, <1>8, <1>9

(* rlock and wlock that queue: the newcomer waits, and nothing else changes.*)
LEMMA JoinSteps ==
    ASSUME IInv, NEW p \in Proc, NEW w \in {"R", "W"}, JoinQueue(p, w),
           IF w = "R" THEN writer \/ queue # <<>> ELSE readers # 0 \/ writer
    PROVE  IInv' /\ Abs!StandInLine(p, w)
<1> USE RWLockAssumption
<1>1. /\ pc[p] = "idle" /\ queue \in Seq(Proc) /\ queue' = Append(queue, p)
      /\ readers' = readers /\ writer' = writer /\ handing' = handing /\ readers \in Nat
      /\ \A q \in Proc : /\ pc'[q] = IF q = p THEN "leaving" ELSE pc[q]
                         /\ mode'[q] = IF q = p THEN w ELSE mode[q]
                         /\ state'[q] = IF q = p THEN QueueingFor(w) ELSE state[q]
                         /\ handing[q] # NoProc => handing[q] \in Proc
  BY DEF IInv, TypeOK, JoinQueue
<1>2. TypeOK'
  <2>1. QueueingFor(w) \in {"QueueingR", "QueueingW"}
    BY DEF QueueingFor
  <2> QED
    BY <1>1, <2>1 DEF IInv, TypeOK, JoinQueue
<1>3. ~Contains(queue, p) /\ \A q \in Proc : handing[q] # p
  BY <1>1 DEF IInv, QueueInv, PlaceInv, Queued, Waiting
<1>4. (\A q : Contains(queue', q) <=> Contains(queue, q) \/ q = p) /\ IsInjective(queue')
  BY <1>1, <1>3, ContainsAppend, InjectiveAppend DEF IInv, QueueInv
<1>5. \A q \in Proc, v \in {"R", "W"} : Owns(q, v)' <=> Owns(q, v)
  BY <1>1, <1>4 DEF Owns, Waiting, Queued
<1>6. QueueInv'
  BY <1>1, <1>4 DEF IInv, QueueInv, Queued, Waiting
<1>7. PlaceInv'
  BY <1>1, <1>3, <1>4 DEF IInv, PlaceInv, Queued, Waiting, QueueingFor
<1>8. {q \in Proc : Owns(q, "R")'} = Readers
  BY <1>5 DEF Readers
<1>9. Exclusive' /\ CountsOwners'
  BY <1>1, <1>5, <1>8 DEF IInv, Exclusive, CountsOwners, Readers
<1>10. HeadIsWriterUnderReaders'
  <2>1. queue' # <<>> /\ Head(queue') = IF queue = <<>> THEN p ELSE Head(queue)
    BY <1>1
  <2>2. queue # <<>> => Head(queue) \in Proc /\ Contains(queue, Head(queue))
    BY <1>1, ContainsHead
  <2>3. ASSUME readers > 0 PROVE state'[Head(queue')] = "QueueingW"
    <3>1. CASE queue = <<>>
      <4>1. w = "W"
        BY <1>1, <2>3, <3>1 DEF IInv, QueueInv
      <4> QED
        BY <1>1, <2>1, <3>1, <4>1 DEF QueueingFor
    <3>2. CASE queue # <<>>
      BY <1>1, <1>3, <2>1, <2>2, <2>3, <3>2 DEF IInv, HeadIsWriterUnderReaders
    <3> QED
      BY <3>1, <3>2
  <2> QED
    BY <1>1, <1>4, <2>3 DEF IInv, HeadIsWriterUnderReaders, Queued
<1>11. Abs!StandInLine(p, w)
  <2>1. Inside' = Inside
    BY <1>5 DEF Inside
  <2>2. ASSUME queue = <<>> PROVE ~Abs!Compatible(w)
    <3>1. CASE writer
      <4>1. PICK q \in Proc : Owns(q, "W")
        BY <3>1 DEF IInv, CountsOwners
      <4>2. q \in Inside /\ mode[q] # "R"
        BY <4>1 DEF Inside, Owns
      <4> QED
        BY <4>2 DEF Abs!Compatible
    <3>2. CASE ~writer
      <4>1. w = "W" /\ readers # 0
        BY <2>2, <3>2
      <4>2. PICK q \in Readers : TRUE
        BY <4>1, ReadersCount
      <4>3. q \in Inside
        BY <4>2 DEF Inside, Readers
      <4> QED
        BY <4>1, <4>3 DEF Abs!Compatible
    <3> QED
      BY <3>1, <3>2
  <2>3. mode' = [mode EXCEPT ![p] = w]
    BY DEF JoinQueue
  <2> QED
    BY <1>1, <2>1, <2>2, <2>3 DEF Abs!StandInLine
<1> QED
  BY <1>2, <1>6, <1>7, <1>9, <1>10, <1>11 DEF IInv

(* runlock that leaves readers inside or nobody queued, wunlock with nobody *)
(* queued.                                                                  *)
LEMMA LeaveSteps ==
    ASSUME IInv, NEW p \in Proc, RUnlock(p) \/ WUnlock(p)
    PROVE  IInv' /\ Abs!Leave(p)
<1> USE RWLockAssumption
<1> PICK w \in {"R", "W"} : Leave(p, w) /\ (w = "R" => RUnlock(p)) /\ (w = "W" => WUnlock(p))
  BY DEF RUnlock, WUnlock, Leave
<1>1. /\ pc[p] = "held" /\ mode[p] = w /\ Owns(p, w)
      /\ queue' = queue /\ state' = state /\ handing' = handing /\ mode' = mode
      /\ \A q \in Proc : /\ pc'[q] = IF q = p THEN "idle" ELSE pc[q]
                         /\ handing[q] # NoProc => handing[q] \in Proc
  BY DEF IInv, TypeOK, Leave, Owns
<1>2. \A q \in Proc, v \in {"R", "W"} : Owns(q, v)' <=> Owns(q, v) /\ q # p
  BY <1>1 DEF Owns, Waiting, Queued, IInv, QueueInv
<1>3. PlaceInv'
  BY <1>1 DEF IInv, PlaceInv, Waiting, Queued
<1>4. {q \in Proc : Owns(q, "R")'} = Readers \ {p}
  BY <1>2 DEF Readers
<1>5. \A q \in Proc : Waiting(q)' <=> Waiting(q)
  BY <1>1 DEF Waiting
<1>6. ASSUME w = "R" PROVE IInv'
  <2>1. readers' = readers - 1 /\ writer' = writer /\ (readers > 1 \/ queue = <<>>)
    BY <1>6 DEF RUnlock
  <2>2. readers > 0 /\ readers \in Nat /\ readers' = Cardinality(Readers \ {p})
    BY <1>1, <1>6, <2>1, ReadersCount DEF Readers
  <2>3. ~writer
    BY <2>2 DEF IInv, QueueInv
  <2>4. TypeOK'
    BY <1>1, <2>1, <2>2 DEF IInv, TypeOK, Leave
  <2>5. \A q \in Proc : ~Owns(q, "W")
    BY <2>3 DEF IInv, CountsOwners
  <2>6. CountsOwners' /\ Exclusive'
    BY <1>2, <1>4, <2>1, <2>2, <2>3, <2>5 DEF CountsOwners, Exclusive
  <2>7. QueueInv'
    BY <1>1, <1>5, <2>1, <2>2, <2>3 DEF IInv, QueueInv, Queued
  <2>8. HeadIsWriterUnderReaders'
    BY <1>1, <2>1, <2>2 DEF IInv, HeadIsWriterUnderReaders, Queued
  <2> QED
    BY <1>3, <2>4, <2>6, <2>7, <2>8 DEF IInv
<1>7. ASSUME w = "W" PROVE IInv'
  <2>1. readers' = readers /\ writer' = FALSE /\ queue = <<>>
    BY <1>7 DEF WUnlock
  <2>2. TypeOK'
    <3>1. readers' \in Nat /\ writer' \in BOOLEAN
      BY <2>1 DEF IInv, TypeOK
    <3>2. pc' \in [Proc -> {"idle", "leaving", "asleep", "held", "readying"}]
      BY DEF IInv, TypeOK, Leave
    <3> QED
      BY <1>1, <3>1, <3>2 DEF IInv, TypeOK
  <2>3. \A q \in Proc, v \in {"R", "W"} : ~Owns(q, v)'
    BY <1>1, <1>2, <1>7 DEF IInv, Exclusive
  <2>4. readers = 0
    BY <1>1, <1>7 DEF IInv, CountsOwners, QueueInv
  <2>5. {q \in Proc : Owns(q, "R")'} = {}
    BY <2>3
  <2>6. CountsOwners' /\ Exclusive'
    BY <2>1, <2>3, <2>4, <2>5, FS_EmptySet DEF CountsOwners, Exclusive
  <2>7. QueueInv' /\ HeadIsWriterUnderReaders'
    BY <1>1, <1>5, <2>1, <2>4 DEF IInv, QueueInv, HeadIsWriterUnderReaders, Queued
  <2> QED
    BY <1>3, <2>2, <2>6, <2>7 DEF IInv
<1>8. Abs!Leave(p)
  <2>1. p \in Inside /\ Inside' = Inside \ {p}
    BY <1>1, <1>2 DEF Inside
  <2>2. ASSUME Inside = {p} PROVE queue = <<>>
    <3>1. CASE w = "R"
      <4>1. Readers = {p}
        BY <1>1, <2>2, <3>1 DEF Inside, Readers
      <4>2. readers = 1
        BY <4>1, ReadersCount, FS_Singleton
      <4> QED
        BY <3>1, <4>2 DEF RUnlock
    <3>2. CASE w = "W"
      BY <3>2 DEF WUnlock
    <3> QED
      BY <3>1, <3>2
  <2>3. ASSUME Inside = {p} PROVE Abs!LetIn(0)
    <3>1. Inside' = {queue[i] : i \in 1..0}
      BY <2>1, <2>3
    <3>2. queue' = SubSeq(queue, 0 + 1, Len(queue)) /\ ~(0 < Len(queue))
      BY <1>1, <2>2, <2>3
    <3> QED
      BY <3>1, <3>2 DEF Abs!LetIn
  <2>4. ASSUME Inside = {p} PROVE 0 \in 0..Len(queue)
    BY <2>2, <2>4
  <2> QED
    BY <1>1, <2>1, <2>2, <2>3, <2>4 DEF Abs!Leave
<1> QED
  BY <1>6, <1>7, <1>8

(* runlock by the last reader and wunlock that hand over to the writer at   *)
(* the head: it becomes the only owner, and p alone is to ready it.         *)
LEMMA HandoffSteps ==
    ASSUME IInv, NEW p \in Proc, RUnlockHandoff(p) \/ WUnlockHandoff(p)
    PROVE  IInv' /\ Abs!Leave(p)
<1> USE RWLockAssumption
<1> DEFINE next == Head(queue)
<1>1. /\ pc[p] = "held" /\ queue \in Seq(Proc) /\ queue # <<>> /\ queue' = Tail(queue)
      /\ state[next] = "QueueingW" /\ state' = state /\ mode' = mode
      /\ \A q \in Proc : /\ pc'[q] = IF q = p THEN "readying" ELSE pc[q]
                         /\ handing'[q] = IF q = p THEN next ELSE handing[q]
                         /\ handing[q] # NoProc => handing[q] \in Proc
  BY DEF IInv, TypeOK, RUnlockHandoff, WUnlockHandoff, HandToHead
<1>2. next \in Proc /\ queue' \in Seq(Proc) /\ Contains(queue, next)
  BY <1>1, ContainsHead
<1>3. IsInjective(queue') /\ \A q : Contains(queue', q) <=> Contains(queue, q) /\ q # next
  BY <1>1, ContainsTail, InjectiveTail DEF IInv, QueueInv
<1>4. Waiting(next) /\ next # p /\ mode[next] = "W" /\ \A q \in Proc : handing[q] # next
  <2>1. Waiting(next) /\ next # p
    BY <1>1, <1>2 DEF IInv, QueueInv, Queued, Waiting
  <2>2. mode[next] = "W"
    <3>1. mode[next] \in {"R", "W"} /\ state[next] = QueueingFor(mode[next])
      BY <1>2 DEF IInv, TypeOK, HeadIsWriterUnderReaders, Queued
    <3> QED
      BY <1>1, <3>1 DEF QueueingFor
  <2>3. \A q \in Proc : handing[q] # next
    BY <1>2 DEF IInv, PlaceInv, Queued
  <2> QED
    BY <2>1, <2>2, <2>3
<1>5. \A q \in Proc, v \in {"R", "W"} : Owns(q, v) => q = p
  <2>1. CASE RUnlockHandoff(p)
    <3>1. readers = 1 /\ p \in Readers /\ ~writer
      BY <1>1, <2>1 DEF RUnlockHandoff, HandToHead, Owns, Readers, IInv, QueueInv
    <3>2. Cardinality(Readers \ {p}) = 0 /\ IsFiniteSet(Readers \ {p})
      BY <3>1, ReadersCount, FS_RemoveElement
    <3>3. Readers \ {p} = {}
      BY <3>2, FS_EmptySet
    <3> QED
      BY <3>1, <3>3 DEF Readers, IInv, CountsOwners
  <2>2. CASE WUnlockHandoff(p)
    <3>1. Owns(p, "W")
      BY <1>1, <2>2 DEF WUnlockHandoff, HandToHead, Owns
    <3> QED
      BY <3>1 DEF IInv, Exclusive
  <2> QED
    BY <2>1, <2>2
<1>6. \A q \in Proc, v \in {"R", "W"} : Owns(q, v)' <=> q = next /\ v = "W"
  <2> SUFFICES ASSUME NEW q \in Proc, NEW v \in {"R", "W"}
               PROVE  Owns(q, v)' <=> q = next /\ v = "W"
    OBVIOUS
  <2>1. CASE q = next
    BY <1>1, <1>3, <1>4, <2>1 DEF Owns, Waiting, Queued
  <2>2. CASE q = p
    BY <1>1, <1>4, <2>2 DEF Owns, Waiting
  <2>3. CASE q # next /\ q # p
    BY <1>1, <1>3, <1>5, <2>3 DEF Owns, Waiting, Queued
  <2> QED
    BY <2>1, <2>2, <2>3
<1>7. readers' = 0 /\ writer' /\ writer' \in BOOLEAN
  <2>1. CASE RUnlockHandoff(p)
    BY <2>1 DEF RUnlockHandoff
  <2>2. CASE WUnlockHandoff(p)
    <3>1. Owns(p, "W")
      BY <1>1, <2>2 DEF WUnlockHandoff, HandToHead, Owns
    <3> QED
      BY <3>1, <2>2 DEF WUnlockHandoff, IInv, TypeOK, CountsOwners, QueueInv
  <2> QED
    BY <2>1, <2>2
<1>8. TypeOK'
  <2>1. pc' = [pc EXCEPT ![p] = "readying"] /\ handing' = [handing EXCEPT ![p] = next]
    BY DEF RUnlockHandoff, WUnlockHandoff, HandToHead
  <2>2. /\ pc' \in [Proc -> {"idle", "leaving", "asleep", "held", "readying"}]
        /\ handing' \in [Proc -> Proc \cup {NoProc}]
    BY <1>2, <2>1 DEF IInv, TypeOK
  <2> QED
    BY <1>1, <1>2, <1>7, <2>2 DEF IInv, TypeOK
<1>9. \A q \in Proc : Waiting(q)' <=> Waiting(q)
  BY <1>1 DEF Waiting
<1>10. QueueInv' /\ HeadIsWriterUnderReaders'
  BY <1>1, <1>3, <1>7, <1>9 DEF IInv, QueueInv, HeadIsWriterUnderReaders, Queued
<1>11. PlaceInv'
  BY <1>1, <1>2, <1>3, <1>4, <1>9 DEF IInv, PlaceInv, Queued
<1>12. {q \in Proc : Owns(q, "R")'} = {}
  BY <1>6
<1>13. Exclusive' /\ CountsOwners'
  BY <1>2, <1>6, <1>7, <1>12, FS_EmptySet DEF Exclusive, CountsOwners
<1>14. Abs!Leave(p)
  <2>1. Owns(p, "R") \/ Owns(p, "W")
    BY <1>1 DEF RUnlockHandoff, WUnlockHandoff, HandToHead, Owns
  <2>2. Inside = {p} /\ Inside' = {next}
    BY <1>2, <1>5, <1>6, <2>1 DEF Inside
  <2>3. 1 \in 0..Len(queue) /\ next = queue[1] /\ queue' = SubSeq(queue, 1 + 1, Len(queue))
    BY <1>1
  <2>4. {queue[i] : i \in 1..1} = {queue[1]}
    OBVIOUS
  <2>5. Abs!LetIn(1)
    BY <1>4, <2>2, <2>3, <2>4 DEF Abs!LetIn
  <2> QED
    BY <1>1, <2>2, <2>3, <2>5 DEF Abs!Leave
<1> QED
  BY <1>8, <1>10, <1>11, <1>13, <1>14 DEF IInv

(* wunlock that lets in the k readers at the head: they become the owners,  *)
(* all Ready, and a writer is first of the rest.                            *)
LEMMA LetReadersInSteps ==
    ASSUME IInv, NEW p \in Proc, NEW k \in 1..Len(queue),
           Leading(k), LetReadersIn(p, k), readers' = readers + k
    PROVE  IInv' /\ Abs!Leave(p)
<1> USE RWLockAssumption
<1> DEFINE first == {queue[i] : i \in 1..k}
<1>1. /\ pc[p] = "held" /\ mode[p] = "W" /\ queue \in Seq(Proc) /\ IsInjective(queue)
      /\ queue' = SubSeq(queue, k + 1, Len(queue))
      /\ writer' = FALSE /\ mode' = mode /\ handing' = handing
      /\ \A q \in Proc : /\ pc'[q] = IF q = p THEN "idle" ELSE pc[q]
                         /\ state'[q] = IF q \in first THEN "Ready" ELSE state[q]
                         /\ handing[q] # NoProc => handing[q] \in Proc
                         /\ mode[q] \in {"R", "W"}
  BY DEF IInv, TypeOK, QueueInv, LetReadersIn
<1>2. k \in Nat /\ k > 0 /\ \A i \in 1..k : i \in 1..Len(queue) /\ queue[i] \in Proc
  BY <1>1
<1>3. first \subseteq Proc /\ \A q \in first : Contains(queue, q) /\ state[q] = "QueueingR"
  BY <1>2 DEF Contains, Leading
<1>4. \A q \in first : Waiting(q) /\ mode[q] = "R" /\ q # p
                       /\ \A r \in Proc : handing[r] # q
  <2> TAKE q \in first
  <2>1. q \in Proc /\ Waiting(q) /\ q # p
    BY <1>1, <1>3 DEF IInv, QueueInv, Queued, Waiting
  <2>2. mode[q] = "R"
    <3>1. state[q] = QueueingFor(mode[q])
      BY <1>3, <2>1 DEF IInv, HeadIsWriterUnderReaders, Queued
    <3> QED
      BY <1>1, <1>3, <2>1, <3>1 DEF QueueingFor
  <2>3. \A r \in Proc : handing[r] # q
    BY <1>3, <2>1 DEF IInv, PlaceInv, Queued
  <2> QED
    BY <2>1, <2>2, <2>3
<1>5. /\ queue' \in Seq(Proc) /\ IsInjective(queue')
      /\ \A q : Contains(queue', q) <=> Contains(queue, q) /\ q \notin first
      /\ queue' # <<>> => k < Len(queue) /\ Head(queue') = queue[k + 1]
  <2> DEFINE rest == SubSeq(queue, k + 1, Len(queue))
  <2>1. /\ rest \in Seq(Proc) /\ IsInjective(rest)
        /\ \A q : Contains(rest, q) <=> Contains(queue, q) /\ ~\E i \in 1..k : queue[i] = q
        /\ rest # <<>> => k < Len(queue) /\ Head(rest) = queue[k + 1]
    <3>1. queue \in Seq(Proc) /\ IsInjective(queue) /\ k \in 1..Len(queue)
      BY <1>1
    <3> QED
      BY <3>1, DropFirst
  <2>2. \A q : q \in first <=> \E i \in 1..k : queue[i] = q
    OBVIOUS
  <2>3. queue' = rest
    BY <1>1
  <2> HIDE DEF rest, first
  <2> QED
    BY <2>1, <2>2, <2>3
<1>6. Owns(p, "W") /\ readers = 0
  BY <1>1 DEF Owns, IInv, CountsOwners, QueueInv
<1>7. \A q \in Proc, v \in {"R", "W"} : Owns(q, v) => q = p
  BY <1>6 DEF IInv, Exclusive
<1>8. \A q \in Proc : Waiting(q)' <=> Waiting(q)
  BY <1>1 DEF Waiting
<1>9. \A q \in Proc, v \in {"R", "W"} : Owns(q, v)' <=> q \in first /\ v = "R"
  <2> SUFFICES ASSUME NEW q \in Proc, NEW v \in {"R", "W"}
               PROVE  Owns(q, v)' <=> q \in first /\ v = "R"
    OBVIOUS
  <2>1. CASE q \in first
    BY <1>1, <1>4, <1>5, <2>1 DEF Owns, Waiting, Queued
  <2>2. CASE q = p
    BY <1>1, <1>4, <2>2 DEF Owns, Waiting
  <2>3. CASE q \notin first /\ q # p
    BY <1>1, <1>5, <1>7, <2>3 DEF Owns, Waiting, Queued
  <2> QED
    BY <2>1, <2>2, <2>3
<1>10. Exclusive' /\ CountsOwners'
  <2>1. {q \in Proc : Owns(q, "R")'} = first
    BY <1>3, <1>9
  <2>2. readers' = k /\ Cardinality(first) = k
    BY <1>1, <1>2, <1>6, CountFirst
  <2>3. \A q \in Proc : ~Owns(q, "W")'
    BY <1>9
  <2> HIDE DEF first
  <2> QED
    BY <1>1, <2>1, <2>2, <2>3 DEF Exclusive, CountsOwners
<1>11. QueueInv'
  <2>1. readers' > 0 /\ readers' \in Nat
    BY <1>2, <1>6
  <2> QED
    BY <1>1, <1>5, <1>8, <2>1 DEF IInv, QueueInv, Queued
<1>12. PlaceInv'
  <2> SUFFICES ASSUME NEW q \in Proc
               PROVE  /\ ~Waiting(q)' <=> state'[q] = "Running"
                      /\ Waiting(q)' => state'[q] \in {"Ready", QueueingFor(mode[q])}
                      /\ handing[q] # NoProc <=> pc'[q] = "readying"
                      /\ handing[q] # NoProc =>
                            /\ Waiting(handing[q])' /\ ~Queued(handing[q])'
                            /\ state'[handing[q]] # "Ready"
                            /\ \A r \in Proc : handing[r] = handing[q] => r = q
    BY <1>1 DEF PlaceInv, QueueingFor
  <2> HIDE DEF first
  <2>1. /\ ~Waiting(q)' <=> state'[q] = "Running"
        /\ Waiting(q)' => state'[q] \in {"Ready", QueueingFor(mode[q])}
    BY <1>1, <1>4, <1>8 DEF IInv, PlaceInv
  <2>2. handing[q] # NoProc <=> pc'[q] = "readying"
    BY <1>1 DEF IInv, PlaceInv
  <2>3. ASSUME handing[q] # NoProc
        PROVE  /\ Waiting(handing[q])' /\ ~Queued(handing[q])'
               /\ state'[handing[q]] # "Ready"
               /\ \A r \in Proc : handing[r] = handing[q] => r = q
    <3>1. /\ handing[q] \in Proc /\ handing[q] \notin first
          /\ Waiting(handing[q]) /\ ~Queued(handing[q]) /\ state[handing[q]] # "Ready"
          /\ \A r \in Proc : handing[r] = handing[q] => r = q
      BY <1>1, <1>4, <2>3 DEF IInv, PlaceInv
    <3>2. Waiting(handing[q])'
      BY <1>1, <1>8, <3>1 DEF Waiting
    <3>3. ~Queued(handing[q])'
      BY <1>1, <1>5, <3>1 DEF Queued
    <3> QED
      BY <1>1, <3>1, <3>2, <3>3
  <2> QED
    BY <2>1, <2>2, <2>3
<1>13. HeadIsWriterUnderReaders'
  <2>1. \A q \in Proc : Queued(q)' => state'[q] = QueueingFor(mode'[q])
    BY <1>1, <1>5 DEF IInv, HeadIsWriterUnderReaders, Queued
  <2>2. ASSUME queue' # <<>> PROVE state'[Head(queue')] = "QueueingW"
    <3>1. /\ Head(queue') \in Proc /\ Contains(queue', Head(queue'))
      BY <1>5, <2>2, ContainsHead
    <3>2. state[Head(queue')] # "QueueingR" /\ Head(queue') \notin first
      BY <1>5, <2>2, <3>1 DEF Leading
    <3>3. state'[Head(queue')] = state[Head(queue')] /\ mode[Head(queue')] \in {"R", "W"}
      BY <1>1, <3>1, <3>2
    <3> QED
      BY <1>1, <2>1, <3>1, <3>2, <3>3 DEF Queued, QueueingFor
  <2> QED
    BY <2>1, <2>2 DEF HeadIsWriterUnderReaders
<1>14. TypeOK'
  <2>1. readers' \in Nat /\ writer' \in BOOLEAN
    <3>1. readers' \in Nat
      BY <1>2, <1>6
    <3>2. writer' \in BOOLEAN
      BY DEF LetReadersIn
    <3> QED
      BY <3>1, <3>2
  <2>2. pc' \in [Proc -> {"idle", "leaving", "asleep", "held", "readying"}]
    BY DEF IInv, TypeOK, LetReadersIn
  <2>3. state' \in [Proc -> {"Running", "QueueingR", "QueueingW", "Ready"}]
    BY DEF IInv, TypeOK, LetReadersIn
  <2> QED
    BY <1>1, <1>5, <2>1, <2>2, <2>3 DEF IInv, TypeOK
<1>15. Abs!Leave(p)
  <2>1. Inside = {p} /\ Inside' = first
    BY <1>3, <1>6, <1>7, <1>9 DEF Inside
  <2>2. \A i \in 1..k : mode[queue[i]] = "R"
    BY <1>4
  <2>3. ASSUME k < Len(queue) PROVE mode[queue[k + 1]] = "W"
    <3>1. k + 1 \in 1..Len(queue)
      BY <1>1, <1>2, <2>3
    <3>2. queue[k + 1] \in Proc /\ Contains(queue, queue[k + 1])
      BY <1>1, <3>1 DEF Contains
    <3>3. state[queue[k + 1]] = QueueingFor(mode[queue[k + 1]])
      BY <3>2 DEF IInv, HeadIsWriterUnderReaders, Queued
    <3>4. state[queue[k + 1]] # "QueueingR"
      BY <2>3 DEF Leading
    <3> QED
      BY <1>1, <3>2, <3>3, <3>4 DEF QueueingFor
  <2>4. Abs!LetIn(k)
    BY <1>1, <2>1, <2>2, <2>3 DEF Abs!LetIn
  <2>5. k \in 0..Len(queue) /\ k > 0
    BY <1>1, <1>2
  <2> QED
    BY <1>1, <2>1, <2>4, <2>5 DEF Abs!Leave
<1> QED
  BY <1>10, <1>11, <1>12, <1>13, <1>14, <1>15 DEF IInv

(* ready() on the new owner, the switch out of the processor and the        *)
(* dispatch move a waiter along, and nobody gets or loses the lock.         *)
LEMMA MoveAlongSteps ==
    ASSUME IInv, NEW p \in Proc, ReadyOwner(p) \/ SwitchOut(p) \/ Dispatch(p)
    PROVE  IInv' /\ UNCHANGED <<Inside, mode, queue>>
<1> USE RWLockAssumption
<1>1. /\ queue' = queue /\ mode' = mode /\ readers' = readers /\ writer' = writer
      /\ \A q \in Proc : handing[q] # NoProc => handing[q] \in Proc
  BY DEF IInv, TypeOK, ReadyOwner, SwitchOut, Dispatch
<1>2. TypeOK'
  <2>1. CASE ReadyOwner(p)
    BY <2>1 DEF IInv, TypeOK, ReadyOwner
  <2>2. CASE SwitchOut(p)
    BY <2>2 DEF IInv, TypeOK, SwitchOut
  <2>3. CASE Dispatch(p)
    BY <2>3 DEF IInv, TypeOK, Dispatch
  <2> QED
    BY <2>1, <2>2, <2>3
<1>3. PlaceInv' /\ (\A q \in Proc : Queued(q) => Waiting(q)' /\ state'[q] = state[q])
      /\ \A q \in Proc, v \in {"R", "W"} : Owns(q, v)' <=> Owns(q, v)
  <2>1. CASE ReadyOwner(p)
    <3> DEFINE r == handing[p]
    <3>1. /\ pc[p] = "readying" /\ r \in Proc /\ r # p
          /\ Waiting(r) /\ ~Queued(r)
          /\ \A q \in Proc : handing[q] = r => q = p
      BY <1>1, <2>1 DEF ReadyOwner, IInv, PlaceInv, Waiting
    <3>2. \A q \in Proc : /\ pc'[q] = IF q = p THEN "idle" ELSE pc[q]
                          /\ state'[q] = IF q = r THEN "Ready" ELSE state[q]
                          /\ handing'[q] = IF q = p THEN NoProc ELSE handing[q]
      BY <2>1, <3>1 DEF IInv, TypeOK, ReadyOwner
    <3>3. \A q \in Proc : Waiting(q)' <=> Waiting(q)
      BY <3>1, <3>2 DEF Waiting
    <3>4. \A q \in Proc : Queued(q)' <=> Queued(q)
      BY <1>1 DEF Queued
    <3> HIDE DEF r
    <3>5. PlaceInv'
      BY <1>1, <3>1, <3>2, <3>3, <3>4 DEF IInv, PlaceInv, QueueingFor
    <3>6. \A q \in Proc : Queued(q) => Waiting(q)' /\ state'[q] = state[q]
      BY <3>1, <3>2, <3>3 DEF IInv, QueueInv
    <3>7. \A q \in Proc, v \in {"R", "W"} : Owns(q, v)' <=> Owns(q, v)
      BY <1>1, <3>1, <3>2, <3>3, <3>4 DEF Owns
    <3> QED
      BY <3>5, <3>6, <3>7
  <2>2. CASE SwitchOut(p)
    <3>1. /\ pc[p] = "leaving" /\ state' = state /\ handing' = handing
          /\ \A q \in Proc : pc'[q] = IF q = p THEN "asleep" ELSE pc[q]
      BY <2>2 DEF IInv, TypeOK, SwitchOut
    <3>2. \A q \in Proc : Waiting(q)' <=> Waiting(q)
      BY <3>1 DEF Waiting
    <3>3. \A q \in Proc : Queued(q)' <=> Queued(q)
      BY <1>1 DEF Queued
    <3>4. PlaceInv'
      BY <1>1, <3>1, <3>2, <3>3 DEF IInv, PlaceInv, QueueingFor
    <3>5. \A q \in Proc : Queued(q) => Waiting(q)' /\ state'[q] = state[q]
      BY <3>1, <3>2 DEF IInv, QueueInv
    <3>6. \A q \in Proc, v \in {"R", "W"} : Owns(q, v)' <=> Owns(q, v)
      BY <1>1, <3>1, <3>2, <3>3 DEF Owns
    <3> QED
      BY <3>4, <3>5, <3>6
  <2>3. CASE Dispatch(p)
    <3>1. /\ pc[p] = "asleep" /\ state[p] = "Ready" /\ handing' = handing
          /\ \A q \in Proc : /\ pc'[q] = IF q = p THEN "held" ELSE pc[q]
                             /\ state'[q] = IF q = p THEN "Running" ELSE state[q]
      BY <2>3 DEF IInv, TypeOK, Dispatch
    <3>2. mode[p] \in {"R", "W"} /\ Waiting(p)
      BY <3>1 DEF IInv, TypeOK, Waiting
    <3>3. ~Queued(p) /\ \A q \in Proc : handing[q] # p
      BY <3>1, <3>2 DEF IInv, HeadIsWriterUnderReaders, PlaceInv, QueueingFor
    <3>4. \A q \in Proc : Waiting(q)' <=> Waiting(q) /\ q # p
      BY <3>1 DEF Waiting
    <3>5. \A q \in Proc : Queued(q)' <=> Queued(q)
      BY <1>1 DEF Queued
    <3>6. PlaceInv'
      BY <1>1, <3>1, <3>3, <3>4, <3>5 DEF IInv, PlaceInv, QueueingFor
    <3>7. \A q \in Proc : Queued(q) => Waiting(q)' /\ state'[q] = state[q]
      BY <3>1, <3>3, <3>4 DEF IInv, QueueInv
    <3>8. \A q \in Proc, v \in {"R", "W"} : Owns(q, v)' <=> Owns(q, v)
      BY <1>1, <3>1, <3>2, <3>3, <3>4, <3>5 DEF Owns
    <3> QED
      BY <3>6, <3>7, <3>8
  <2> QED
    BY <2>1, <2>2, <2>3
<1>4. \A q \in Proc : Queued(q)' <=> Queued(q)
  BY <1>1 DEF Queued
<1>5. QueueInv'
  BY <1>1, <1>3, <1>4 DEF IInv, QueueInv
<1>6. {q \in Proc : Owns(q, "R")'} = Readers
  BY <1>3 DEF Readers
<1>7. Exclusive' /\ CountsOwners'
  BY <1>1, <1>3, <1>6 DEF IInv, Exclusive, CountsOwners, Readers
<1>8. HeadIsWriterUnderReaders'
  <2>1. queue # <<>> => Head(queue) \in Proc /\ Queued(Head(queue))
    BY ContainsHead DEF IInv, TypeOK, Queued
  <2> QED
    BY <1>1, <1>3, <1>4, <2>1 DEF IInv, HeadIsWriterUnderReaders
<1>9. Inside' = Inside
  BY <1>3 DEF Inside
<1> QED
  BY <1>1, <1>2, <1>3, <1>5, <1>7, <1>8, <1>9 DEF IInv

(* Every step keeps IInv, and is a step of FairRW or changes nothing there. *)
LEMMA StepIInv == IInv /\ [Next]_vars => IInv' /\ [Abs!AbsNext]_<<Inside, mode, queue>>
<1> SUFFICES ASSUME IInv, [Next]_vars
             PROVE  IInv' /\ [Abs!AbsNext]_<<Inside, mode, queue>>
  OBVIOUS
<1>1. ASSUME NEW p \in Proc, RLock(p) \/ WLock(p) PROVE IInv' /\ Abs!AbsNext
  BY <1>1, EnterSteps DEF Abs!AbsNext
<1>2. ASSUME NEW p \in Proc, RLockQueue(p) PROVE IInv' /\ Abs!AbsNext
  <2>1. IInv' /\ Abs!StandInLine(p, "R")
    BY <1>2, JoinSteps DEF RLockQueue
  <2> QED
    BY <2>1 DEF Abs!AbsNext
<1>3. ASSUME NEW p \in Proc, WLockQueue(p) PROVE IInv' /\ Abs!AbsNext
  <2>1. IInv' /\ Abs!StandInLine(p, "W")
    BY <1>3, JoinSteps DEF WLockQueue
  <2> QED
    BY <2>1 DEF Abs!AbsNext
<1>4. ASSUME NEW p \in Proc, Unlock(p) PROVE IInv' /\ Abs!AbsNext
  <2>1. CASE RUnlock(p) \/ WUnlock(p)
    BY <2>1, LeaveSteps DEF Abs!AbsNext
  <2>2. CASE RUnlockHandoff(p) \/ WUnlockHandoff(p)
    BY <2>2, HandoffSteps DEF Abs!AbsNext
  <2>3. CASE WUnlockReaders(p)
    BY <2>3, LetReadersInSteps DEF WUnlockReaders, Abs!AbsNext
  <2> QED
    BY <1>4, <2>1, <2>2, <2>3 DEF Unlock
<1>5. ASSUME NEW p \in Proc, ReadyOwner(p) \/ SwitchOut(p) \/ Dispatch(p)
      PROVE  IInv' /\ UNCHANGED <<Inside, mode, queue>>
  BY <1>5, MoveAlongSteps
<1>6. CASE UNCHANGED vars
  BY <1>6 DEF vars, IInv, TypeOK, QueueInv, PlaceInv, Exclusive, CountsOwners,
              HeadIsWriterUnderReaders, Owns, Waiting, Queued, Inside
<1> QED
  BY <1>1, <1>2, <1>3, <1>4, <1>5, <1>6 DEF Next

(* The invariant holds in every reachable state.                             *)
LEMMA SpecIInv == Spec => []IInv
  BY InitIInv, StepIInv, PTL DEF Spec

(* A writer has the lock alone, and readers share it with no writer, through *)
(* every handoff of runlock and wunlock to whoever waits.                    *)
THEOREM RWLockExclusive == Spec => []Exclusive
<1>1. IInv => Exclusive
  BY DEF IInv
<1> QED
  BY SpecIInv, <1>1, PTL

(* q->readers and q->writer, changed by the one that hands over for those it *)
(* lets in, say at every moment who is inside.                               *)
THEOREM RWLockCounts == Spec => []CountsOwners
<1>1. IInv => CountsOwners
  BY DEF IInv
<1> QED
  BY SpecIInv, <1>1, PTL

(* Behind readers waits a writer first, and whoever is queued is queued as   *)
(* what it asked for: the panics of runlock and wunlock are unreachable.     *)
THEOREM RWLockNoPanic == Spec => []HeadIsWriterUnderReaders
<1>1. IInv => HeadIsWriterUnderReaders
  BY DEF IInv
<1> QED
  BY SpecIInv, <1>1, PTL

(* rlock, wlock and their unlocks let waiters in in the order of arrival:    *)
(* nobody who comes later, reader or writer, goes in before one who waits.   *)
THEOREM RWLockIsFair == Spec => ImplementsFairRW
<1>1. Init => Abs!AbsInit
  BY DEF Init, Abs!AbsInit, Inside, Owns, Waiting
<1> QED
  BY <1>1, InitIInv, StepIInv, PTL DEF Spec, ImplementsFairRW, Abs!AbsSpec, Abs!absVars
==============================================================================
