------------------------------- MODULE RWLock --------------------------------
(***************************************************************************)
(* The reader-writer lock of the Plan 9 kernel (9vx/a/qlock.c): rlock,     *)
(* runlock, wlock, wunlock and canrlock.                                   *)
(*                                                                         *)
(* As in QLock, what happens under q->use is one step.  runlock, and       *)
(* wunlock when a writer is first, call ready(p) after letting go of       *)
(* q->use; wunlock readies a batch of readers while it holds q->use.       *)
(***************************************************************************)
EXTENDS Naturals, SequencesExt

CONSTANTS Proc,     \* processes that use the lock
          NoProc    \* "nobody"

ASSUME RWLockAssumption == NoProc \notin Proc /\ IsFiniteSet(Proc)

VARIABLES
    readers,  \* q->readers
    writer,   \* q->writer
    queue,    \* the list q->head .. q->tail
    state,    \* p->state
    mode,     \* the lock call p is in, or was in last: "R" or "W"
    pc,       \* where p is in it
    handing   \* the process that p, unlocking, is about to call ready() on

vars == <<readers, writer, queue, state, mode, pc, handing>>

QueueingFor(w) == IF w = "R" THEN "QueueingR" ELSE "QueueingW"

TypeOK ==
    /\ readers \in Nat
    /\ writer \in BOOLEAN
    /\ queue \in Seq(Proc)
    /\ state \in [Proc -> {"Running", "QueueingR", "QueueingW", "Ready"}]
    /\ mode \in [Proc -> {"R", "W"}]
    /\ pc \in [Proc -> {"idle", "leaving", "asleep", "held", "readying"}]
    /\ handing \in [Proc -> Proc \cup {NoProc}]

Init ==
    /\ readers = 0
    /\ writer = FALSE
    /\ queue = <<>>
    /\ state = [p \in Proc |-> "Running"]
    /\ mode = [p \in Proc |-> "R"]
    /\ pc = [p \in Proc |-> "idle"]
    /\ handing = [p \in Proc |-> NoProc]

----------------------------------------------------------------------------
(* The common parts of the calls. *)
Enter(p, w) ==
    /\ pc[p] = "idle"
    /\ mode' = [mode EXCEPT ![p] = w]
    /\ pc' = [pc EXCEPT ![p] = "held"]
    /\ UNCHANGED <<queue, state, handing>>

JoinQueue(p, w) ==
    /\ pc[p] = "idle"
    /\ mode' = [mode EXCEPT ![p] = w]
    /\ queue' = Append(queue, p)
    /\ state' = [state EXCEPT ![p] = QueueingFor(w)]
    /\ pc' = [pc EXCEPT ![p] = "leaving"]
    /\ UNCHANGED <<readers, writer, handing>>

Leave(p, w) ==
    /\ pc[p] = "held"
    /\ mode[p] = w
    /\ pc' = [pc EXCEPT ![p] = "idle"]
    /\ UNCHANGED <<queue, state, mode, handing>>

(* The head of the queue is taken off it, q->use is let go, and ready(p)    *)
(* on the head is still to come.                                            *)
HandToHead(p, w) ==
    /\ pc[p] = "held"
    /\ mode[p] = w
    /\ handing' = [handing EXCEPT ![p] = Head(queue)]
    /\ queue' = Tail(queue)
    /\ pc' = [pc EXCEPT ![p] = "readying"]
    /\ UNCHANGED <<state, mode>>

(* rlock without a writer inside or anybody queued; canrlock likewise (it   *)
(* changes nothing otherwise).  The slip lets readers pass queued writers.  *)
RLockPassing(p) ==
    /\ ~writer
    /\ readers' = readers + 1
    /\ Enter(p, "R") /\ UNCHANGED writer

RLock(p) ==
    /\ ~writer
    /\ queue = <<>>
    /\ readers' = readers + 1
    /\ Enter(p, "R") /\ UNCHANGED writer

RLockQueue(p) == (writer \/ queue # <<>>) /\ JoinQueue(p, "R")

(* wlock looks at readers and writer, never at the queue. *)
WLockAmongReaders(p) ==
    /\ ~writer
    /\ writer' = TRUE
    /\ Enter(p, "W") /\ UNCHANGED readers

WLock(p) ==
    /\ readers = 0
    /\ ~writer
    /\ writer' = TRUE
    /\ Enter(p, "W") /\ UNCHANGED readers

WLockQueue(p) == (readers # 0 \/ writer) /\ JoinQueue(p, "W")

(* runlock by a reader that is not the last one, or with nobody queued. *)
RUnlock(p) ==
    /\ readers > 1 \/ queue = <<>>
    /\ readers' = readers - 1
    /\ Leave(p, "R") /\ UNCHANGED writer

(* runlock by the last reader lets in the writer at the head (it panics if  *)
(* the head is no writer).  The slip forgets q->writer = 1.                 *)
RUnlockQuietly(p) ==
    /\ readers = 1 /\ queue # <<>> /\ state[Head(queue)] = "QueueingW"
    /\ readers' = 0
    /\ HandToHead(p, "R") /\ UNCHANGED writer

RUnlockHandoff(p) ==
    /\ readers = 1
    /\ queue # <<>>
    /\ state[Head(queue)] = "QueueingW"
    /\ readers' = 0
    /\ writer' = TRUE
    /\ HandToHead(p, "R")

(* wunlock: nobody queued; ... *)
WUnlock(p) ==
    /\ queue = <<>>
    /\ writer' = FALSE
    /\ Leave(p, "W") /\ UNCHANGED readers

(* ... a writer at the head, for whom q->writer stays set; ... *)
WUnlockHandoff(p) ==
    /\ queue # <<>>
    /\ state[Head(queue)] = "QueueingW"
    /\ HandToHead(p, "W") /\ UNCHANGED <<readers, writer>>

(* ... readers at the head: all those in front of the first writer are      *)
(* counted and readied under q->use.  Leading(k): they are the first k.     *)
Leading(k) ==
    /\ \A i \in 1..k : state[queue[i]] = "QueueingR"
    /\ k < Len(queue) => state[queue[k + 1]] # "QueueingR"

LetReadersIn(p, k) ==
    /\ pc[p] = "held"
    /\ mode[p] = "W"
    /\ writer' = FALSE
    /\ queue' = SubSeq(queue, k + 1, Len(queue))
    /\ state' = [q \in Proc |->
                    IF \E i \in 1..k : queue[i] = q THEN "Ready" ELSE state[q]]
    /\ pc' = [pc EXCEPT ![p] = "idle"]
    /\ UNCHANGED <<mode, handing>>

(* Slip: only the first reader is let in.                                   *)
WUnlockOneReader(p) ==
    /\ queue # <<>> /\ state[Head(queue)] = "QueueingR"
    /\ LetReadersIn(p, 1) /\ readers' = readers + 1

WUnlockReaders(p) ==
    /\ queue # <<>>
    /\ state[Head(queue)] = "QueueingR"
    /\ \E k \in 1..Len(queue) :
          Leading(k) /\ LetReadersIn(p, k) /\ readers' = readers + k

(* ready(p) on the new owner, outside q->use. *)
ReadyOwner(p) ==
    /\ pc[p] = "readying"
    /\ state' = [state EXCEPT ![handing[p]] = "Ready"]
    /\ handing' = [handing EXCEPT ![p] = NoProc]
    /\ pc' = [pc EXCEPT ![p] = "idle"]
    /\ UNCHANGED <<readers, writer, queue, mode>>

(* sched() in rlock or wlock: switched out, and later picked by a processor *)
(* with the lock already counted or marked in its favour.                   *)
SwitchOut(p) ==
    /\ pc[p] = "leaving"
    /\ pc' = [pc EXCEPT ![p] = "asleep"]
    /\ UNCHANGED <<readers, writer, queue, state, mode, handing>>

Dispatch(p) ==
    /\ pc[p] = "asleep"
    /\ state[p] = "Ready"
    /\ state' = [state EXCEPT ![p] = "Running"]
    /\ pc' = [pc EXCEPT ![p] = "held"]
    /\ UNCHANGED <<readers, writer, queue, mode, handing>>

Unlock(p) ==
    \/ RUnlock(p) \/ RUnlockHandoff(p)
    \/ WUnlock(p) \/ WUnlockHandoff(p) \/ WUnlockReaders(p)

Next == \E p \in Proc :
    \/ RLock(p) \/ RLockQueue(p) \/ WLock(p) \/ WLockQueue(p)
    \/ Unlock(p) \/ ReadyOwner(p) \/ SwitchOut(p) \/ Dispatch(p)

Spec == Init /\ [][Next]_vars

(* A thread that runs goes on running, a ready process is dispatched, and   *)
(* whoever has the lock unlocks it; nobody is obliged to ask for it.        *)
Fairness == \A p \in Proc :
    WF_vars(Unlock(p) \/ ReadyOwner(p) \/ SwitchOut(p) \/ Dispatch(p))

FairSpec == Spec /\ Fairness

----------------------------------------------------------------------------
Queued(p) == Contains(queue, p)

Waiting(p) == pc[p] \in {"leaving", "asleep"}

(* p has the lock in mode w, or has been let in and has only to be run. *)
Owns(p, w) == mode[p] = w /\ (pc[p] = "held" \/ (Waiting(p) /\ ~Queued(p)))

(* A writer has the lock alone, through every handoff. *)
Exclusive == \A p, q \in Proc :
    Owns(p, "W") /\ (Owns(q, "R") \/ Owns(q, "W")) => p = q

(* The count and the flag say who is inside: neither a reader counted twice *)
(* (the lock never comes free) nor one forgotten (a writer gets in too).    *)
CountsOwners ==
    /\ readers = Cardinality({p \in Proc : Owns(p, "R")})
    /\ writer <=> \E p \in Proc : Owns(p, "W")

(* The panics of runlock and wunlock cannot happen: when the last reader    *)
(* leaves, the head of the queue is a writer, and whoever is queued is      *)
(* queued as what it asked for.                                             *)
HeadIsWriterUnderReaders ==
    /\ readers > 0 /\ queue # <<>> => state[Head(queue)] = "QueueingW"
    /\ \A p \in Proc : Queued(p) => state[p] = QueueingFor(mode[p])

(* Why they hold: the list has no process twice, only processes that wait,  *)
(* and is empty when the lock is free; a waiter is Ready or queueing for    *)
(* what it asked, and one that is about to be readied is off the list, not  *)
(* Ready yet, and in the hands of one process.                              *)
QueueInv ==
    /\ IsInjective(queue)
    /\ \A p \in Proc : Queued(p) => Waiting(p)
    /\ queue # <<>> => writer \/ readers > 0
    /\ writer => readers = 0

PlaceInv == \A p \in Proc :
    /\ ~Waiting(p) <=> state[p] = "Running"
    /\ Waiting(p) => state[p] \in {"Ready", QueueingFor(mode[p])}
    /\ handing[p] # NoProc <=> pc[p] = "readying"
    /\ handing[p] # NoProc =>
          /\ Waiting(handing[p]) /\ ~Queued(handing[p]) /\ state[handing[p]] # "Ready"
          /\ \A q \in Proc : handing[q] = handing[p] => q = p

IInv ==
    /\ TypeOK /\ QueueInv /\ PlaceInv
    /\ Exclusive /\ CountsOwners /\ HeadIsWriterUnderReaders

(* A writer gets in however many readers keep coming, and a reader however  *)
(* many writers.                                                            *)
EveryoneGetsIn == \A p \in Proc : Waiting(p) ~> pc[p] = "held"

Inside == {p \in Proc : Owns(p, "R") \/ Owns(p, "W")}
Abs == INSTANCE FairRW WITH inside <- Inside, wishes <- mode, line <- queue
ImplementsFairRW == Abs!AbsSpec
==============================================================================
