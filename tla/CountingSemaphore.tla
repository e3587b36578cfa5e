-------------------------- MODULE CountingSemaphore --------------------------
(***************************************************************************)
(* What a semaphore in shared memory promises those who use it.  Whoever   *)
(* wants one takes one when there is one; nobody takes what is not there;  *)
(* only a call that does not wait, has a time limit or is noted goes away  *)
(* without; and while there are some left, somebody who waits gets one.    *)
(* Semaphores implements this.                                             *)
(***************************************************************************)
EXTENDS Naturals

CONSTANTS Proc,      \* processes that use semaphores
          Addr,      \* where semaphores are
          MaxValue,  \* bound: the largest value of a semaphore
          None       \* no process or address

VARIABLES value,     \* value[a]: the semaphore at a
          wants,     \* wants[p]: the semaphore p wants one of and how, or None
          note       \* note[p]: a note is pending for p

absVars == <<value, wants, note>>

Wish == [addr: Addr, kind: {"block", "poll", "timed"}]

AbsInit ==
    /\ value = [a \in Addr |-> 0]
    /\ wants = [p \in Proc |-> None]
    /\ note = [p \in Proc |-> FALSE]

Stop(p) == wants[p] # None /\ wants' = [wants EXCEPT ![p] = None]

Want(p) ==
    /\ wants[p] = None
    /\ \E w \in Wish : wants' = [wants EXCEPT ![p] = w]
    /\ UNCHANGED <<value, note>>

Get(p, a) ==
    /\ Stop(p) /\ wants[p].addr = a
    /\ value[a] > 0 /\ value' = [value EXCEPT ![a] = @ - 1]
    /\ UNCHANGED note

Refused(p) ==
    /\ Stop(p) /\ wants[p].kind = "poll"
    /\ value[wants[p].addr] = 0
    /\ UNCHANGED <<value, note>>

TimedOut(p) ==
    /\ Stop(p) /\ wants[p].kind = "timed"
    /\ UNCHANGED <<value, note>>

Interrupted(p) ==
    /\ Stop(p) /\ wants[p].kind # "poll"
    /\ note[p] /\ note' = [note EXCEPT ![p] = FALSE]
    /\ UNCHANGED value

Release(a) ==
    /\ \E n \in 1..(MaxValue - value[a]) : value' = [value EXCEPT ![a] = @ + n]
    /\ UNCHANGED <<wants, note>>

Note(p) ==
    /\ note' = [note EXCEPT ![p] = ~@]
    /\ UNCHANGED <<value, wants>>

AbsNext ==
    \/ \E p \in Proc :
         \/ Want(p) \/ Refused(p) \/ TimedOut(p) \/ Interrupted(p) \/ Note(p)
         \/ \E a \in Addr : Get(p, a)
    \/ \E a \in Addr : Release(a)

SomeoneGets(a) == \E p \in Proc : Get(p, a)

AbsSpec ==
    /\ AbsInit /\ [][AbsNext]_absVars
    /\ \A a \in Addr : WF_absVars(SomeoneGets(a))
==============================================================================
