----------------------------- MODULE KprocSched ------------------------------
(***************************************************************************)
(* The scheduler of kernel processes in 9vx (sched.c, and schedinit and    *)
(* sched of a/proc.c).  Each kproc runs on a "processor" that is a host    *)
(* thread; processors are made when there are more kprocs ready than       *)
(* processors about to look for one, and are never given up.               *)
(*                                                                         *)
(* The run queue is used under plock(&run): ready(), and runproc() between *)
(* two psleeps, are one step each.  The interesting interleavings are      *)
(* those of a process that gives up its processor: it can be made ready,   *)
(* and taken by a second processor, while the first one still runs on its  *)
(* kernel stack ("double sleep").                                          *)
(***************************************************************************)
EXTENDS Integers, FiniteSets, SequencesExt

CONSTANTS
    Kproc,        \* slots of the process table used for kprocs
    Mach,         \* processors other than cpu0 (MAXMACH - 1 of them)
    None,         \* nil
    PromptReuse   \* may newproc take a slot while its processor still has it?

ASSUME KprocSchedAssumption ==
    /\ None \notin Kproc \cup Mach
    /\ IsFiniteSet(Mach)
    /\ PromptReuse \in BOOLEAN

VARIABLES
    state,      \* p->state ("Dead": the slot is on procalloc.free)
    mach,       \* p->mach
    kprocq,     \* the queue kprocq, head first
    nrunproc,   \* processors about to look at kprocq, by the code's count
    waiter,     \* run.waiter: processors in psleep(&run), last in first out
    at,         \* where the processor's thread is
    up,         \* the process a processor runs, or has taken off kprocq
    panicked    \* newmach found no processor left

vars == <<state, mach, kprocq, nrunproc, waiter, at, up, panicked>>

ProcStates == {"Dead", "Ready", "Running", "Wakeme", "Moribund"}

(* "absent": not made yet;  "starting": made, m->new still 1;               *)
(* "running": runs up;  "leaving": up has unlocked all and is on its way to *)
(* schedinit, on its own kernel stack;  "clearing": in schedinit, up->mach  *)
(* still set;  "looking": about to call runproc;  "sleeping": in psleep;    *)
(* "woken": taken off run.waiter, psleep not returned yet;  "spinning": in  *)
(* the loop on p->mach at the end of runproc.                               *)
MachPlaces == {"absent", "starting", "running", "leaving", "clearing",
               "looking", "sleeping", "woken", "spinning"}

TypeOK ==
    /\ state \in [Kproc -> ProcStates]
    /\ mach \in [Kproc -> Mach \cup {None}]
    /\ kprocq \in Seq(Kproc)
    /\ nrunproc \in Nat
    /\ waiter \in Seq(Mach)
    /\ at \in [Mach -> MachPlaces]
    /\ up \in [Mach -> Kproc \cup {None}]
    /\ panicked \in BOOLEAN

Init ==
    /\ state = [p \in Kproc |-> "Dead"]
    /\ mach = [p \in Kproc |-> None]
    /\ kprocq = <<>>
    /\ nrunproc = 0
    /\ waiter = <<>>
    /\ at = [m \in Mach |-> "absent"]
    /\ up = [m \in Mach |-> None]
    /\ panicked = FALSE

----------------------------------------------------------------------------
(* pwakeup(&run): the processor that slept last is woken, if there is one.  *)
(* `places` says where the threads are when it is called.                   *)
Kick(places) ==
    /\ waiter' = IF waiter = <<>> THEN waiter ELSE Tail(waiter)
    /\ at' = IF waiter = <<>> THEN places
             ELSE [places EXCEPT ![Head(waiter)] = "woken"]

(* ready(p) of a kproc                                                      *)
MustSpawn == Len(kprocq) + 1 > nrunproc

Put(p) ==
    /\ state' = [state EXCEPT ![p] = "Ready"]
    /\ kprocq' = Append(kprocq, p)

ReadySlack(p, places) ==
    /\ Put(p)
    /\ \/ nrunproc > 0 /\ Kick(places) /\ UNCHANGED nrunproc
       \/ \E m \in Mach : /\ nrunproc = 0 /\ at[m] = "absent"
                          /\ nrunproc' = 1
                          /\ Kick([places EXCEPT ![m] = "starting"])

Ready(p, places) ==
    /\ Put(p)
    /\ \/ /\ ~MustSpawn
          /\ Kick(places)
          /\ UNCHANGED nrunproc
       \/ \E m \in Mach :
            /\ MustSpawn
            /\ at[m] = "absent"
            /\ nrunproc' = nrunproc + 1
            /\ Kick([places EXCEPT ![m] = "starting"])

(* Another thread (cpu0, another kproc) wakes a sleeping kproc. *)
Wake(p) ==
    /\ state[p] = "Wakeme"
    /\ Ready(p, at)
    /\ UNCHANGED <<mach, up, panicked>>

(* kproc(): newproc takes a slot off the free list and sets its mach to 0;  *)
(* kproc readies it.                                                        *)
Create(p) ==
    /\ state[p] = "Dead"
    /\ PromptReuse \/ mach[p] = None
    /\ mach' = [mach EXCEPT ![p] = None]
    /\ Ready(p, at)
    /\ UNCHANGED <<up, panicked>>

(* The running process stops running: sleep() has set Wakeme and let go of  *)
(* its locks; sched() is called with the state left Running; or pexit() has *)
(* set Moribund.  It is still on its own stack.                             *)
Leave(m, s) ==
    /\ at[m] = "running"
    /\ state' = [state EXCEPT ![up[m]] = s]
    /\ at' = [at EXCEPT ![m] = "leaving"]
    /\ UNCHANGED <<mach, kprocq, nrunproc, waiter, up, panicked>>

Sleep(m) == Leave(m, "Wakeme")
Yield(m) == Leave(m, "Running")
Exit(m) == Leave(m, "Moribund")

(* schedinit, up to the end of its switch: a process that is still Running  *)
(* is readied, a Moribund one goes on the free list, any other has its      *)
(* state from whoever put it to sleep or woke it meanwhile.                 *)
SchedinitRunning(m) ==
    /\ at[m] = "leaving"
    /\ state[up[m]] = "Running"
    /\ Ready(up[m], [at EXCEPT ![m] = "clearing"])
    /\ UNCHANGED <<mach, up, panicked>>

SchedinitMoribund(m) ==
    /\ at[m] = "leaving"
    /\ state[up[m]] = "Moribund"
    /\ state' = [state EXCEPT ![up[m]] = "Dead"]
    /\ at' = [at EXCEPT ![m] = "clearing"]
    /\ UNCHANGED <<mach, kprocq, nrunproc, waiter, up, panicked>>

SchedinitOther(m) ==
    /\ at[m] = "leaving"
    /\ state[up[m]] \notin {"Running", "Moribund"}
    /\ at' = [at EXCEPT ![m] = "clearing"]
    /\ UNCHANGED <<state, mach, kprocq, nrunproc, waiter, up, panicked>>

(* ... and its end: up->mach = nil, up = nil, and on to sched and runproc.  *)
SchedinitClear(m) ==
    /\ at[m] = "clearing"
    /\ mach' = [mach EXCEPT ![up[m]] = None]
    /\ up' = [up EXCEPT ![m] = None]
    /\ at' = [at EXCEPT ![m] = "looking"]
    /\ UNCHANGED <<state, kprocq, nrunproc, waiter, panicked>>

(* runproc: a processor that is new, or comes back from psleep, is no       *)
(* longer counted; ...                                                      *)
Entering == {"starting", "looking", "woken"}
Uncount(m) == IF at[m] = "looking" THEN 0 ELSE 1

(* ... it takes the head of the queue, ...                                  *)
RunprocTake(m) ==
    /\ at[m] \in Entering
    /\ kprocq # <<>>
    /\ up' = [up EXCEPT ![m] = Head(kprocq)]
    /\ kprocq' = Tail(kprocq)
    /\ nrunproc' = nrunproc - Uncount(m)
    /\ at' = [at EXCEPT ![m] = "spinning"]
    /\ UNCHANGED <<state, mach, waiter, panicked>>

(* ... or counts itself and sleeps.                                         *)
RunprocSleep(m) ==
    /\ at[m] \in Entering
    /\ kprocq = <<>>
    /\ nrunproc' = nrunproc - Uncount(m) + 1
    /\ waiter' = <<m>> \o waiter
    /\ at' = [at EXCEPT ![m] = "sleeping"]
    /\ UNCHANGED <<state, mach, kprocq, up, panicked>>

(* The end of runproc and of sched: no processor has the process any more,  *)
(* and it runs.  The slip is the "double sleep" bug: no loop on p->mach.    *)
DispatchAtOnce(m) ==
    /\ at[m] = "spinning"
    /\ state' = [state EXCEPT ![up[m]] = "Running"]
    /\ mach' = [mach EXCEPT ![up[m]] = m]
    /\ at' = [at EXCEPT ![m] = "running"]
    /\ UNCHANGED <<kprocq, nrunproc, waiter, up, panicked>>

Dispatch(m) ==
    /\ at[m] = "spinning"
    /\ mach[up[m]] = None
    /\ state' = [state EXCEPT ![up[m]] = "Running"]
    /\ mach' = [mach EXCEPT ![up[m]] = m]
    /\ at' = [at EXCEPT ![m] = "running"]
    /\ UNCHANGED <<kprocq, nrunproc, waiter, up, panicked>>

(* ready() needs a processor more than there are: panic. *)
OutOfProcessors ==
    /\ \/ \E p \in Kproc : state[p] \in {"Wakeme", "Dead"}
       \/ \E m \in Mach : at[m] = "leaving" /\ state[up[m]] = "Running"
    /\ MustSpawn
    /\ \A m \in Mach : at[m] # "absent"
    /\ panicked' = TRUE
    /\ UNCHANGED <<state, mach, kprocq, nrunproc, waiter, at, up>>

(* A thread's own progress, whatever its process does. *)
Schedule(m) ==
    \/ SchedinitRunning(m) \/ SchedinitMoribund(m) \/ SchedinitOther(m)
    \/ SchedinitClear(m) \/ RunprocTake(m) \/ RunprocSleep(m) \/ Dispatch(m)

Halted == panicked /\ UNCHANGED vars

Next ==
    \/ /\ ~panicked
       /\ \/ \E p \in Kproc : Wake(p) \/ Create(p)
          \/ \E m \in Mach : Sleep(m) \/ Yield(m) \/ Exit(m) \/ Schedule(m)
          \/ OutOfProcessors
    \/ Halted

Spec == Init /\ [][Next]_vars

(* The host runs every thread.  A kproc may run for ever. *)
Fairness == \A m \in Mach : WF_vars(~panicked /\ Schedule(m))

FairSpec == Spec /\ Fairness

----------------------------------------------------------------------------
(* The process on whose kernel stack the thread of m runs.                  *)
OnStackOf(m, p) == at[m] \in {"running", "leaving"} /\ up[m] = p

(* Two threads never run on one kernel stack.                               *)
NoTwoStacks == \A p \in Kproc, m1, m2 \in Mach :
    OnStackOf(m1, p) /\ OnStackOf(m2, p) => m1 = m2

(* What dequeueproc says of p->mach, and runproc relies on: it is 0 only    *)
(* when the state of the process has been saved.                            *)
MachZeroOnlyWhenSaved == \A p \in Kproc :
    mach[p] = None => \A m \in Mach : ~OnStackOf(m, p)

(* A kproc is on the run queue at most once, and exactly while it is Ready  *)
(* and no processor has picked it: nobody readies it twice, and none is     *)
(* dropped on the way from the queue to a processor.                        *)
QueuedOnce ==
    /\ IsInjective(kprocq)
    /\ \A p \in Kproc : Contains(kprocq, p) =>
          state[p] = "Ready" /\ \A m \in Mach : ~(at[m] = "spinning" /\ up[m] = p)
    /\ \A p \in Kproc : state[p] = "Ready" =>
          Contains(kprocq, p) \/ \E m \in Mach : at[m] = "spinning" /\ up[m] = p

Awake == {m \in Mach : at[m] \in {"starting", "woken"}}
Counted == {m \in Mach : at[m] \in {"starting", "sleeping", "woken"}}

(* nrunproc is the number of processors that will look at the queue before  *)
(* they can sleep again or for the first time, and at least as many as      *)
(* there are kprocs on the queue are awake and on their way to it: ready()  *)
(* never relies on one that nobody has woken, and never makes one too few.  *)
EnoughAwake ==
    /\ nrunproc = Cardinality(Counted)
    /\ Len(kprocq) <= Cardinality(Awake)

(* Why they hold: run.waiter has the processors in psleep, each once; ...   *)
WaiterInv ==
    /\ IsInjective(waiter)
    /\ \A m \in Mach : Contains(waiter, m) <=> at[m] = "sleeping"

(* ... p->mach names the processor that has p until that one clears it, and *)
(* one processor spins for a process that has been taken off the queue.     *)
HoldInv == \A m \in Mach :
    /\ at[m] \in {"running", "leaving", "clearing"} =>
           up[m] \in Kproc /\ mach[up[m]] = m
    /\ at[m] = "running" => state[up[m]] = "Running"
    /\ at[m] = "spinning" =>
           /\ up[m] \in Kproc /\ state[up[m]] = "Ready"
           /\ \A n \in Mach : at[n] = "spinning" /\ up[n] = up[m] => n = m

IInv == TypeOK /\ WaiterInv /\ HoldInv /\ QueuedOnce /\ EnoughAwake

(* Every kproc that is readied runs, even if all the others run for ever.   *)
EveryReadyRuns == \A p \in Kproc :
    state[p] = "Ready" ~> state[p] = "Running" \/ panicked
==============================================================================
