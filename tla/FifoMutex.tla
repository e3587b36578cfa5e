------------------------------ MODULE FifoMutex ------------------------------
(***************************************************************************)
(* What a kernel lock that hands itself over promises its callers: one     *)
(* holder at a time, those who wait are served in the order they arrived,  *)
(* and nobody slips in front of them.  QLock implements this.              *)
(***************************************************************************)
EXTENDS Sequences

CONSTANTS Proc,     \* processes that use the lock
          NoProc    \* "nobody"

VARIABLES holder,   \* the process that owns the lock, or NoProc
          waiters   \* processes waiting for it, oldest first

absVars == <<holder, waiters>>

AbsInit == holder = NoProc /\ waiters = <<>>

(* A free lock nobody waits for is taken at once. *)
Acquire(p) ==
    /\ holder = NoProc
    /\ waiters = <<>>
    /\ holder' = p
    /\ UNCHANGED waiters

(* A lock that is held is waited for at the end of the line. *)
Wait(p) ==
    /\ holder # NoProc
    /\ waiters' = Append(waiters, p)
    /\ UNCHANGED holder

(* A release passes the lock to the oldest waiter, if there is one. *)
Release(p) ==
    /\ holder = p
    /\ \/ waiters = <<>> /\ holder' = NoProc /\ UNCHANGED waiters
       \/ waiters # <<>> /\ holder' = Head(waiters) /\ waiters' = Tail(waiters)

AbsNext == \E p \in Proc : Acquire(p) \/ Wait(p) \/ Release(p)

AbsSpec == AbsInit /\ [][AbsNext]_absVars
==============================================================================
