----------------------------- MODULE Semaphores -----------------------------
(***************************************************************************)
(* semacquire, tsemacquire and semrelease of the Plan 9 kernel             *)
(* (9vx/a/sysproc.c).                                                      *)
(*                                                                         *)
(* A semaphore is a word of user memory, so it may fault and cannot be     *)
(* looked at with a spin lock held; the list of those who wait for it is   *)
(* guarded by a spin lock.  A waiter says so in its Sema, looks once more  *)
(* and sleeps until a releaser has cleared it; a releaser of n clears and  *)
(* wakes n of them, and one that does not need its wakeup hands it on.     *)
(*                                                                         *)
(* The steps are those the code is written for, on any number of           *)
(* processors; 9vx runs user processes on cpu0, which takes some of these  *)
(* interleavings away, while timeouts and notes come from other threads.   *)
(* A compare-and-swap loop is the one step in which it succeeds, and sleep *)
(* and wakeup, which SleepWakeup shows in detail, are a step each.         *)
(***************************************************************************)
EXTENDS Naturals, SequencesExt

CONSTANTS
    Proc,       \* processes that share the segment
    Addr,       \* addresses of the semaphores in it
    MaxValue,   \* bound: the largest value of a semaphore
    Nobody      \* no process, no address and no wish

Kinds == {"block", "poll", "timed"}

ASSUME SemaphoresAssumption ==
    /\ IsFiniteSet(Proc)
    /\ MaxValue \in Nat \ {0}
    /\ Nobody \notin Proc \cup Addr \cup [addr: Addr, kind: Kinds]

VARIABLES
    value,      \* value[a]: the word *a
    queue,      \* s->sema: the processes whose Semas are on the list
    lk,         \* who has s->sema.rendez.lk
    waiting,    \* waiting[p]: phore.waiting of p's Sema
    note,       \* p->notepending
    addr,       \* the address p's call is about
    kind,       \* its call: "none", "block", "poll" (block or ms is 0) or "timed"
    got,        \* it is settled: acquired, refused, timed out or noted
    calls,      \* n: the wakeups p has still to issue
    rest,       \* what semwakeup has not looked at of the list
    at

sema == <<queue, waiting>>
call == <<addr, kind>>
walk == <<calls, rest>>
semvars == <<value, sema, lk, note, call, got, walk, at>>

Waits == {"queue", "announce", "try-again", "sleep", "asleep", "awake"}
SemPlaces == Waits \cup
    {"idle", "try", "dequeue", "pass-on", "semwakeup", "scan", "wakeup"}

SemTypeOK ==
    /\ value \in [Addr -> 0..MaxValue]
    /\ queue \in Seq(Proc) /\ IsInjective(queue)
    /\ lk \in Proc \cup {Nobody}
    /\ waiting \in [Proc -> BOOLEAN] /\ note \in [Proc -> BOOLEAN]
    /\ addr \in [Proc -> Addr] /\ kind \in [Proc -> Kinds \cup {"none"}]
    /\ got \in [Proc -> BOOLEAN]
    /\ calls \in [Proc -> 0..MaxValue]
    /\ rest \in [Proc -> Seq(Proc)]
    /\ at \in [Proc -> SemPlaces]

SemInit ==
    /\ value = [a \in Addr |-> 0]
    /\ queue = <<>> /\ waiting = [p \in Proc |-> FALSE]
    /\ lk = Nobody
    /\ note = [p \in Proc |-> FALSE]
    /\ addr \in [Proc -> Addr] /\ kind = [p \in Proc |-> "none"]
    /\ got = [p \in Proc |-> TRUE]
    /\ calls = [p \in Proc |-> 0] /\ rest = [p \in Proc |-> <<>>]
    /\ at = [p \in Proc |-> "idle"]

SemGoto(p, from, to) == at[p] = from /\ at' = [at EXCEPT ![p] = to]

Set(f, p, v) == f' = [f EXCEPT ![p] = v]

Return(p, from) == SemGoto(p, from, "idle") /\ Set(kind, p, "none")

----------------------------------------------------------------------------
(* syssemacquire and systsemacquire.                                        *)
SemacquireCall(p) ==
    /\ SemGoto(p, "idle", "try")
    /\ \E a \in Addr, k \in Kinds : Set(addr, p, a) /\ Set(kind, p, k)
    /\ Set(got, p, FALSE)
    /\ UNCHANGED <<value, sema, lk, note, walk>>

(* canacquire: the semaphore is positive and one less, or not positive.     *)
Acquired(p) ==
    /\ value[addr[p]] > 0
    /\ value' = [value EXCEPT ![addr[p]] = @ - 1]
    /\ Set(got, p, TRUE)

NotAcquired(p) == value[addr[p]] = 0 /\ UNCHANGED <<value, got>>

Try(p) ==
    /\ \/ Return(p, "try") /\ Acquired(p)
       \/ SemGoto(p, "try", "queue") /\ NotAcquired(p) /\ kind[p] # "poll" /\ UNCHANGED kind
    /\ UNCHANGED <<sema, lk, note, addr, walk>>

Refuse(p) ==
    /\ Return(p, "try")
    /\ kind[p] = "poll" /\ value[addr[p]] = 0
    /\ Set(got, p, TRUE)
    /\ UNCHANGED <<value, sema, lk, note, addr, walk>>

(* semqueue: the Sema is zeroed and put at the end of the list.             *)
Semqueue(p) ==
    /\ SemGoto(p, "queue", "announce")
    /\ lk = Nobody
    /\ queue' = Append(queue, p)
    /\ Set(waiting, p, FALSE)
    /\ UNCHANGED <<value, lk, note, call, got, walk>>

Announce(p) ==
    /\ SemGoto(p, "announce", "try-again")
    /\ Set(waiting, p, TRUE)
    /\ UNCHANGED <<value, queue, lk, note, call, got, walk>>

TryAgain(p) ==
    /\ \/ SemGoto(p, "try-again", "dequeue") /\ Acquired(p)
       \/ SemGoto(p, "try-again", "sleep") /\ NotAcquired(p)
    /\ UNCHANGED <<sema, lk, note, call, walk>>

(* Slip: a wakeup that comes before sleep is not seen.                      *)
SleepUnaware(p) ==
    /\ \/ SemGoto(p, "sleep", "asleep") /\ ~note[p]
       \/ SemGoto(p, "sleep", "awake") /\ (note[p] \/ kind[p] = "timed")
    /\ UNCHANGED <<value, sema, lk, note, call, got, walk>>

(* sleep, with semawoke as its condition; tsleep's is also true once the    *)
(* timer has gone off.                                                      *)
Sleep(p) ==
    /\ \/ SemGoto(p, "sleep", "asleep") /\ waiting[p] /\ ~note[p]
       \/ SemGoto(p, "sleep", "awake") /\ (~waiting[p] \/ note[p] \/ kind[p] = "timed")
    /\ UNCHANGED <<value, sema, lk, note, call, got, walk>>

(* twakeup, from the timer's thread.                                        *)
Timeout(p) ==
    /\ SemGoto(p, "asleep", "awake")
    /\ kind[p] = "timed"
    /\ UNCHANGED <<value, sema, lk, note, call, got, walk>>

(* sleep takes a pending note and fails; the call leaves its loop.          *)
Interrupt(p) ==
    /\ SemGoto(p, "awake", "dequeue")
    /\ note[p]
    /\ Set(note, p, FALSE)
    /\ Set(got, p, TRUE)
    /\ UNCHANGED <<value, sema, lk, call, walk>>

Awake(p) ==
    /\ SemGoto(p, "awake", "announce")
    /\ ~note[p]
    /\ UNCHANGED <<value, sema, lk, note, call, got, walk>>

(* The time that passed, whoever ended the sleep, is all there was.         *)
Expire(p) ==
    /\ SemGoto(p, "awake", "dequeue")
    /\ ~note[p] /\ kind[p] = "timed"
    /\ Set(got, p, TRUE)
    /\ UNCHANGED <<value, sema, lk, note, call, walk>>

Semdequeue(p) ==
    /\ SemGoto(p, "dequeue", "pass-on")
    /\ lk = Nobody
    /\ queue' = RemoveFirst(queue, p)
    /\ UNCHANGED <<value, waiting, lk, note, call, got, walk>>

(* Slip: the wakeup that was not needed is kept.                            *)
PassNothingOn(p) ==
    /\ Return(p, "pass-on")
    /\ Set(waiting, p, FALSE)
    /\ UNCHANGED <<value, queue, lk, note, addr, got, walk>>

(* waiting is clear when a releaser has spent one of its calls on this      *)
(* Sema.  Nobody looks at the Sema after this.                              *)
PassOn(p) ==
    /\ \/ waiting[p] /\ Return(p, "pass-on") /\ UNCHANGED calls
       \/ ~waiting[p] /\ SemGoto(p, "pass-on", "semwakeup") /\ Set(calls, p, 1) /\ UNCHANGED kind
    /\ Set(waiting, p, FALSE)
    /\ UNCHANGED <<value, queue, lk, note, addr, got, rest>>

----------------------------------------------------------------------------
(* syssemrelease and semrelease: the value grows, then semwakeup.           *)
Semrelease(p) ==
    /\ SemGoto(p, "idle", "semwakeup")
    /\ \E a \in Addr : \E n \in 1..(MaxValue - value[a]) :
         /\ Set(addr, p, a)
         /\ value' = [value EXCEPT ![a] = @ + n]
         /\ Set(calls, p, n)
    /\ UNCHANGED <<sema, lk, note, kind, got, rest>>

Semwakeup(p) ==
    /\ SemGoto(p, "semwakeup", "scan")
    /\ lk = Nobody /\ lk' = p
    /\ Set(rest, p, queue)
    /\ UNCHANGED <<value, sema, note, call, got, calls>>

WantsCall(p, q) == addr[q] = addr[p] /\ waiting[q]

Pass(p) ==
    /\ SemGoto(p, "scan", "scan")
    /\ rest[p] # <<>> /\ calls[p] > 0
    /\ ~WantsCall(p, Head(rest[p]))
    /\ Set(rest, p, Tail(rest[p]))
    /\ UNCHANGED <<value, sema, lk, note, call, got, calls>>

(* p->waiting = 0                                                           *)
Clear(p) ==
    /\ SemGoto(p, "scan", "wakeup")
    /\ rest[p] # <<>> /\ calls[p] > 0
    /\ WantsCall(p, Head(rest[p]))
    /\ Set(waiting, Head(rest[p]), FALSE)
    /\ UNCHANGED <<value, queue, lk, note, call, got, walk>>

(* wakeup(&p->rendez), which finds it asleep or not                         *)
Wakeup(p) ==
    LET q == Head(rest[p]) IN
    /\ at[p] = "wakeup"
    /\ at' = [at EXCEPT ![p] = "scan", ![q] = IF @ = "asleep" THEN "awake" ELSE @]
    /\ Set(rest, p, Tail(rest[p]))
    /\ Set(calls, p, calls[p] - 1)
    /\ UNCHANGED <<value, sema, lk, note, call, got>>

SemwakeupEnd(p) ==
    /\ Return(p, "scan")
    /\ rest[p] = <<>> \/ calls[p] = 0
    /\ lk' = Nobody
    /\ Set(rest, p, <<>>) /\ Set(calls, p, 0)
    /\ UNCHANGED <<value, sema, note, addr, got>>

----------------------------------------------------------------------------
(* postnote, from any thread: it wakes a sleeper.  A note that came before  *)
(* sleep is the same as one that comes at its start, where it is first      *)
(* looked at; one that comes after it is left to the way out of the kernel. *)
Postnote(p) ==
    /\ at[p] \in {"sleep", "asleep", "awake"} /\ ~note[p]
    /\ Set(note, p, TRUE)
    /\ at' = [at EXCEPT ![p] = IF @ = "asleep" THEN "awake" ELSE @]
    /\ UNCHANGED <<value, sema, lk, call, got, walk>>

Step(p) ==
    \/ Try(p) \/ Refuse(p) \/ Semqueue(p) \/ Announce(p) \/ TryAgain(p)
    \/ Sleep(p) \/ Interrupt(p) \/ Awake(p) \/ Expire(p)
    \/ Semdequeue(p) \/ PassOn(p)
    \/ Semwakeup(p) \/ Pass(p) \/ Clear(p) \/ Wakeup(p) \/ SemwakeupEnd(p)

SemNext == \E p \in Proc :
    \/ Step(p) \/ SemacquireCall(p) \/ Semrelease(p)
    \/ Timeout(p) \/ Postnote(p)

SemSpec == SemInit /\ [][SemNext]_semvars

(* A process in the kernel goes on; a spin lock that is free again and      *)
(* again is got.  Nobody has to call, and no timer or note has to come.     *)
SemFairness == \A p \in Proc :
    WF_semvars(Step(p)) /\ SF_semvars(Semqueue(p) \/ Semdequeue(p) \/ Semwakeup(p))

SemFairSpec == SemSpec /\ SemFairness

----------------------------------------------------------------------------
(* Whose Sema is on the list.                                               *)
Listed == {"announce", "try-again", "sleep", "asleep", "awake", "dequeue"}

Unheard(a) == {p \in Proc : at[p] \in {"sleep", "asleep"} /\ waiting[p] /\ addr[p] = a}

(* The wakeups for a that are on their way: the calls a releaser (of P) has *)
(* still to issue, the looks at the semaphore that a wakeup has led or will *)
(* lead to, and the calls spent on one who may have to hand them on.        *)
Owed(p) == IF at[p] = "wakeup" THEN calls[p] - 1 ELSE calls[p]

Calls(a, P) == {c \in P \X (1..MaxValue) : addr[c[1]] = a /\ c[2] <= Owed(c[1])}

Looking(a) == {p \in Proc : at[p] = "try-again" /\ addr[p] = a}

Heard(a) == {p \in Proc : at[p] \in Listed \cup {"pass-on"} /\ ~waiting[p] /\ addr[p] = a}

Coming(a, P) == Cardinality(Calls(a, P)) + Cardinality(Looking(a)) + Cardinality(Heard(a))

(* Whatever the order of releases, sleeps, timeouts and notes, there is     *)
(* never more to acquire than wakeups on their way while somebody sleeps    *)
(* for it whom no releaser has cleared.                                     *)
(* ("A releaser of n must wake up n acquirers who have Sema.waiting set.")  *)
WakeupsSuffice ==
    SemTypeOK /\ \A a \in Addr : Unheard(a) # {} => Coming(a, Proc) >= value[a]

Wish(p) == IF got[p] THEN Nobody ELSE [addr |-> addr[p], kind |-> kind[p]]

Semaphore == INSTANCE CountingSemaphore
    WITH wants <- [p \in Proc |-> Wish(p)], None <- Nobody

(* semacquire, tsemacquire and semrelease are a counting semaphore: no      *)
(* acquisition without a release, no failure without a reason, and none     *)
(* left waiting at a positive semaphore.                                    *)
ImplementsSemaphore == Semaphore!AbsSpec

----------------------------------------------------------------------------
(* Why it holds: a releaser that comes to the end of the list with calls    *)
(* left has found everybody on it heard, or else they have looked since it  *)
(* passed them, and found nothing.                                          *)
SemLockInv == \A p \in Proc : lk = p <=> at[p] \in {"scan", "wakeup"}

SemListInv == \A p \in Proc : Contains(queue, p) <=> at[p] \in Listed

SemWalkInv == \A p \in Proc :
    /\ at[p] \notin {"semwakeup", "scan", "wakeup"} => calls[p] = 0
    /\ at[p] \in {"scan", "wakeup"} => \A q \in Proc : Contains(rest[p], q) => Contains(queue, q)
    /\ at[p] = "wakeup" => rest[p] # <<>> /\ calls[p] > 0

Ahead(p) == IF at[p] = "wakeup" THEN Tail(rest[p]) ELSE rest[p]

SemSpareInv == \A p \in Proc, a \in Addr : at[p] \in {"scan", "wakeup"} /\ addr[p] = a =>
    \/ Coming(a, Proc \ {p}) >= value[a]
    \/ \A q \in Unheard(a) : Contains(Ahead(p), q)

SemIInv == WakeupsSuffice /\ SemLockInv /\ SemListInv /\ SemWalkInv /\ SemSpareInv

(* A call is settled when it does not look or wait any more; one that does  *)
(* not wait has looked once.                                                *)
SemCallInv == \A p \in Proc :
    /\ got[p] <=> at[p] \notin Waits \cup {"try"}
    /\ at[p] = "try" => kind[p] \in Kinds
    /\ at[p] \in Waits => kind[p] \in {"block", "timed"}
==============================================================================
