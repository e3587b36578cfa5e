-------------------------------- MODULE QLock --------------------------------
(***************************************************************************)
(* The queueing lock of the Plan 9 kernel (9vx/a/qlock.c), used by every   *)
(* process of 9vx, on cpu0 and on the kproc threads.                       *)
(*                                                                         *)
(* q->use is a spin lock: what qlock, canqlock and qunlock do between      *)
(* lock(&q->use) and unlock(&q->use) is one step.  The two places where    *)
(* other threads run in between are steps of their own: qunlock calls      *)
(* ready(p) after it has let go of q->use, and a process that queues       *)
(* itself gives up its processor (sched()) after it has let go of q->use.  *)
(***************************************************************************)
EXTENDS Naturals, SequencesExt

CONSTANTS Locker,     \* processes that use the lock
          NoLocker    \* "nobody"

ASSUME QLockAssumption == NoLocker \notin Locker

VARIABLES
    locked,     \* q->locked
    waitlist,   \* the list q->head .. q->tail, linked by qnext
    runstate,   \* p->state
    place,      \* where p is in qlock, its critical section, or qunlock
    passing     \* the process that p, in qunlock, is about to call ready() on

qlockvars == <<locked, waitlist, runstate, place, passing>>

States == {"Running", "Queueing", "Ready"}
(* "leaving": queued, q->use released, sched() not finished yet;            *)
(* "asleep": switched out;  "readying": in qunlock, between unlock and ready *)
Places == {"idle", "leaving", "asleep", "held", "readying"}

QLockTypeOK ==
    /\ locked \in BOOLEAN
    /\ waitlist \in Seq(Locker)
    /\ runstate \in [Locker -> States]
    /\ place \in [Locker -> Places]
    /\ passing \in [Locker -> Locker \cup {NoLocker}]
    /\ \A p \in Locker : place[p] = "readying" => passing[p] # NoLocker

QLockInit ==
    /\ locked = FALSE
    /\ waitlist = <<>>
    /\ runstate = [p \in Locker |-> "Running"]
    /\ place = [p \in Locker |-> "idle"]
    /\ passing = [p \in Locker |-> NoLocker]

----------------------------------------------------------------------------
(* qlock of a free lock, and a canqlock that succeeds.  A canqlock that     *)
(* fails, on q->locked or on a busy q->use, changes nothing.                *)
Take(p) ==
    /\ place[p] = "idle"
    /\ ~locked
    /\ locked' = TRUE
    /\ place' = [place EXCEPT ![p] = "held"]
    /\ UNCHANGED <<waitlist, runstate, passing>>

(* qlock of a held lock: the caller goes to the tail of the queue. *)
Enqueue(p) ==
    /\ place[p] = "idle"
    /\ locked
    /\ waitlist' = Append(waitlist, p)
    /\ runstate' = [runstate EXCEPT ![p] = "Queueing"]
    /\ place' = [place EXCEPT ![p] = "leaving"]
    /\ UNCHANGED <<locked, passing>>

(* The caller's sched(): its processor lets go of it (schedinit leaves the  *)
(* state alone: it re-queues only a process that is still Running).         *)
Sched(p) ==
    /\ place[p] = "leaving"
    /\ place' = [place EXCEPT ![p] = "asleep"]
    /\ UNCHANGED <<locked, waitlist, runstate, passing>>

(* A processor picks p from a run queue; sched() returns into qlock, which  *)
(* returns: the lock was left locked for p by whoever took p off the queue. *)
(* runproc and dequeueproc take only a process no processor still holds.    *)
Resume(p) ==
    /\ place[p] = "asleep"
    /\ runstate[p] = "Ready"
    /\ runstate' = [runstate EXCEPT ![p] = "Running"]
    /\ place' = [place EXCEPT ![p] = "held"]
    /\ UNCHANGED <<locked, waitlist, passing>>

(* Slip: the lock is freed although somebody waits.                         *)
FreeAnyway(p) ==
    /\ place[p] = "held"
    /\ locked' = FALSE
    /\ place' = [place EXCEPT ![p] = "idle"]
    /\ UNCHANGED <<waitlist, runstate, passing>>

(* qunlock with nobody queued. *)
Free(p) ==
    /\ place[p] = "held"
    /\ waitlist = <<>>
    /\ locked' = FALSE
    /\ place' = [place EXCEPT ![p] = "idle"]
    /\ UNCHANGED <<waitlist, runstate, passing>>

(* qunlock with a queue takes `next` off it and leaves `rest`; q->use is    *)
(* released before next is made ready.                                      *)
HandTo(p, next, rest) ==
    /\ place[p] = "held"
    /\ waitlist # <<>>
    /\ waitlist' = rest
    /\ passing' = [passing EXCEPT ![p] = next]
    /\ place' = [place EXCEPT ![p] = "readying"]
    /\ UNCHANGED runstate

(* Slips: q->locked is cleared although the lock is handed over; the tail   *)
(* of the list is served first.                                             *)
HandoffAndClear(p) == HandTo(p, Head(waitlist), Tail(waitlist)) /\ locked' = FALSE
HandoffTail(p) == HandTo(p, Last(waitlist), Front(waitlist)) /\ UNCHANGED locked

(* The head is served, and q->locked stays set for it. *)
Handoff(p) == HandTo(p, Head(waitlist), Tail(waitlist)) /\ UNCHANGED locked

(* ... and ready(p) on it, outside q->use. *)
ReadyHead(p) ==
    /\ place[p] = "readying"
    /\ runstate' = [runstate EXCEPT ![passing[p]] = "Ready"]
    /\ passing' = [passing EXCEPT ![p] = NoLocker]
    /\ place' = [place EXCEPT ![p] = "idle"]
    /\ UNCHANGED <<locked, waitlist>>

QLockNext == \E p \in Locker :
    \/ Take(p) \/ Enqueue(p) \/ Sched(p) \/ Resume(p)
    \/ Free(p) \/ Handoff(p) \/ ReadyHead(p)

QLockSpec == QLockInit /\ [][QLockNext]_qlockvars

(* A thread that runs goes on running, a ready process is dispatched, and   *)
(* a holder unlocks; nobody is obliged to call qlock.                       *)
QLockFairness == \A p \in Locker :
    WF_qlockvars(Sched(p) \/ Resume(p) \/ Free(p) \/ Handoff(p) \/ ReadyHead(p))

QLockFairSpec == QLockSpec /\ QLockFairness

----------------------------------------------------------------------------
OnList(p) == Contains(waitlist, p)

Waits(p) == place[p] \in {"leaving", "asleep"}

(* p owns the lock: it is in its critical section, or it has been taken off *)
(* the queue and has only to be run.                                        *)
Has(p) == place[p] = "held" \/ (Waits(p) /\ ~OnList(p))

(* Mutual exclusion through the handoff: at most one process is in the      *)
(* critical section or on its way into it, at every point of qunlock,       *)
(* although locked is never cleared between two owners.                     *)
OneOwner == \A p, q \in Locker : Has(p) /\ Has(q) => p = q

(* The flag and the owner agree: a lock nobody owns is not left locked for  *)
(* ever, and a lock that is owned cannot be taken (qlock, canqlock).        *)
LockedIffOwned == locked <=> \E p \in Locker : Has(p)

(* No waiter is lost between qunlock's unlock and its ready: a waiter that  *)
(* is off the queue is Ready, or exactly one process is about to ready it,  *)
(* and a waiter on the queue is about to be readied by nobody.              *)
NoLostWaiter == \A p \in Locker : Waits(p) =>
    \/ OnList(p) /\ runstate[p] = "Queueing" /\ \A q \in Locker : passing[q] # p
    \/ /\ ~OnList(p)
       /\ runstate[p] = "Ready" <=> \A q \in Locker : passing[q] # p
       /\ \A q, r \in Locker : passing[q] = p /\ passing[r] = p => q = r

(* A process that waits for the lock gets it, if holders let go of it. *)
EveryWaiterServed == \A p \in Locker : Waits(p) ~> place[p] = "held"

(* Why the three hold: what the list, the states, the places and the        *)
(* processes about to be readied have to do with one another.               *)
ListInv ==
    /\ IsInjective(waitlist)
    /\ \A p \in Locker : OnList(p) => Waits(p)
    /\ waitlist # <<>> => locked

WaiterInv == \A p \in Locker :
    /\ ~Waits(p) <=> runstate[p] = "Running"
    /\ passing[p] # NoLocker <=> place[p] = "readying"
    /\ passing[p] # NoLocker => Waits(passing[p])

QLockIInv == QLockTypeOK /\ ListInv /\ WaiterInv /\ OneOwner /\ LockedIffOwned /\ NoLostWaiter

(* The lock is handed over in the order of arrival, with nobody barging in: *)
(* QLock implements FifoMutex, whose holder is the owner.                   *)
Owner == IF \E p \in Locker : Has(p) THEN CHOOSE p \in Locker : Has(p) ELSE NoLocker
Fifo == INSTANCE FifoMutex WITH Proc <- Locker, NoProc <- NoLocker,
                                holder <- Owner, waiters <- waitlist
ImplementsFifoMutex == Fifo!AbsSpec
==============================================================================
