------------------------------ MODULE Cpu0Sched ------------------------------
(***************************************************************************)
(* The scheduler of user processes (9vx/a/proc.c, sched.c).  All of them   *)
(* run on cpu0, the main thread of 9vx; the threads of kprocs make them    *)
(* ready too.  cpu0 looks through the run queues without their lock, and   *)
(* when it finds nobody it sleeps on a host condition variable until a     *)
(* thread that readies a process kicks it.                                 *)
(*                                                                         *)
(* Priorities are left out: the run queues are the set of processes on     *)
(* them, from which cpu0 may pick any.  What KprocSched has too is named   *)
(* apart from it here, so that SchedProofs can extend both.                *)
(***************************************************************************)
EXTENDS FiniteSets

CONSTANTS
    User,     \* user processes
    Thread,   \* threads of kprocs
    NoUser    \* nil

ASSUME Cpu0SchedAssumption == NoUser \notin User

VARIABLES
    ustate,      \* p->state ("Blocked": asleep, queueing, in a rendezvous)
    runq,        \* processes on the run queues
    runqlk,      \* who has runq->lk
    late,        \* processes queued since cpu0 began to look through runq
    place,       \* where cpu0 is
    uproc,       \* the process cpu0 runs or has picked
    idlewakeup,  \* "kicked", under the mutex of `idling`
    readying     \* the process a thread readies, and how far it has got

cpu0vars == <<ustate, runq, runqlk, late, place, uproc, idlewakeup, readying>>

Idle == [proc |-> NoUser, step |-> "none"]

Cpu0TypeOK ==
    /\ ustate \in [User -> {"Blocked", "Ready", "Running"}]
    /\ runq \subseteq User
    /\ runqlk \in Thread \cup {NoUser}
    /\ late \subseteq runq
    /\ place \in {"running", "scan", "picked", "idlehands", "psleep", "woken"}
    /\ uproc \in User \cup {NoUser}
    /\ uproc = NoUser <=> place \notin {"running", "picked"}
    /\ idlewakeup \in BOOLEAN
    /\ readying \in [Thread ->
          [proc : User \cup {NoUser}, step : {"none", "lock", "queue", "kick"}]]

(* cpu0 has booted and runs the first process. *)
Cpu0Init ==
    /\ uproc \in User
    /\ ustate = [p \in User |-> IF p = uproc THEN "Running" ELSE "Blocked"]
    /\ runq = {}
    /\ runqlk = NoUser
    /\ late = {}
    /\ place = "running"
    /\ idlewakeup = FALSE
    /\ readying = [t \in Thread |-> Idle]

----------------------------------------------------------------------------
(* ready() in a thread: _ready sets the state, queueproc works under        *)
(* runq->lk, and noidlehands kicks cpu0.  A process is readied by one       *)
(* thread at a time.                                                        *)
Step(t, from, to) ==
    /\ readying[t].step = from
    /\ readying' = [readying EXCEPT ![t].step = to]

ThreadReady(t, p) ==
    /\ readying[t] = Idle
    /\ ustate[p] = "Blocked"
    /\ ustate' = [ustate EXCEPT ![p] = "Ready"]
    /\ readying' = [readying EXCEPT ![t] = [proc |-> p, step |-> "lock"]]
    /\ UNCHANGED <<runq, runqlk, late, place, uproc, idlewakeup>>

ThreadLock(t) ==
    /\ Step(t, "lock", "queue")
    /\ runqlk = NoUser
    /\ runqlk' = t
    /\ UNCHANGED <<ustate, runq, late, place, uproc, idlewakeup>>

ThreadQueue(t) ==
    /\ Step(t, "queue", "kick")
    /\ runq' = runq \cup {readying[t].proc}
    /\ late' = late \cup {readying[t].proc}
    /\ runqlk' = NoUser
    /\ UNCHANGED <<ustate, place, uproc, idlewakeup>>

(* noidlehands.  The slips wake cpu0 without leaving word, or leave word    *)
(* without waking it.                                                       *)
Kicked == IF place = "psleep" THEN "woken" ELSE place

ThreadWake(t) ==
    /\ readying[t].step = "kick"
    /\ readying' = [readying EXCEPT ![t] = Idle]
    /\ place' = Kicked
    /\ UNCHANGED <<ustate, runq, runqlk, late, uproc, idlewakeup>>

ThreadTell(t) ==
    /\ readying[t].step = "kick"
    /\ readying' = [readying EXCEPT ![t] = Idle]
    /\ idlewakeup' = TRUE
    /\ UNCHANGED <<ustate, runq, runqlk, late, place, uproc>>

ThreadKick(t) ==
    /\ readying[t].step = "kick"
    /\ readying' = [readying EXCEPT ![t] = Idle]
    /\ idlewakeup' = TRUE
    /\ place' = Kicked
    /\ UNCHANGED <<ustate, runq, runqlk, late, uproc>>

----------------------------------------------------------------------------
(* The process on cpu0 readies another one: noidlehands does nothing.       *)
Cpu0Ready(p) ==
    /\ place = "running"
    /\ ustate[p] = "Blocked"
    /\ runqlk = NoUser
    /\ ustate' = [ustate EXCEPT ![p] = "Ready"]
    /\ runq' = runq \cup {p}
    /\ late' = late \cup {p}
    /\ UNCHANGED <<runqlk, place, uproc, idlewakeup, readying>>

(* The process on cpu0 blocks.                                             *)
Cpu0Block ==
    /\ place = "running"
    /\ ustate' = [ustate EXCEPT ![uproc] = "Blocked"]
    /\ uproc' = NoUser
    /\ place' = "scan"
    /\ late' = {}
    /\ UNCHANGED <<runq, runqlk, idlewakeup, readying>>

Cpu0Yield ==
    /\ place = "running"
    /\ runqlk = NoUser
    /\ ustate' = [ustate EXCEPT ![uproc] = "Ready"]
    /\ runq' = runq \cup {uproc}
    /\ uproc' = NoUser
    /\ place' = "scan"
    /\ late' = {}
    /\ UNCHANGED <<runqlk, idlewakeup, readying>>

(* _runproc looks at one queue after the other: it finds some process, or   *)
(* reaches the end having missed those queued behind its back.              *)
ScanFinds(p) ==
    /\ place = "scan"
    /\ p \in runq
    /\ uproc' = p
    /\ place' = "picked"
    /\ UNCHANGED <<ustate, runq, runqlk, late, idlewakeup, readying>>

(* It first tries m->readied, the last process readied on cpu0, without     *)
(* looking for it: a process that is Ready, and may not be queued yet.      *)
ScanReadied(p) ==
    /\ place = "scan"
    /\ ustate[p] = "Ready"
    /\ uproc' = p
    /\ place' = "picked"
    /\ UNCHANGED <<ustate, runq, runqlk, late, idlewakeup, readying>>

ScanEnds ==
    /\ place = "scan"
    /\ runq \subseteq late
    /\ place' = "idlehands"
    /\ UNCHANGED <<ustate, runq, runqlk, late, uproc, idlewakeup, readying>>

(* dequeueproc: canlock fails, or the process is not on the queue, and the  *)
(* search starts again; or it is taken off its queue, and sched() runs it.  *)
(* The slip takes the process off all the same when canlock fails.          *)
DequeueDrops ==
    /\ place = "picked"
    /\ runqlk # NoUser \/ uproc \notin runq
    /\ runq' = runq \ {uproc}
    /\ uproc' = NoUser
    /\ place' = "scan"
    /\ late' = {}
    /\ UNCHANGED <<ustate, runqlk, idlewakeup, readying>>

DequeueFails ==
    /\ place = "picked"
    /\ runqlk # NoUser \/ uproc \notin runq
    /\ uproc' = NoUser
    /\ place' = "scan"
    /\ late' = {}
    /\ UNCHANGED <<ustate, runq, runqlk, idlewakeup, readying>>

Dequeue ==
    /\ place = "picked"
    /\ runqlk = NoUser
    /\ uproc \in runq
    /\ runq' = runq \ {uproc}
    /\ late' = late \ {uproc}
    /\ ustate' = [ustate EXCEPT ![uproc] = "Running"]
    /\ place' = "running"
    /\ UNCHANGED <<runqlk, uproc, idlewakeup, readying>>

(* idlehands, under the mutex except in psleep: it returns, and the search  *)
(* goes on, when idlewakeup is set, and clears it.  The slip clears it on   *)
(* the way in.                                                              *)
IdlehandsForgetful ==
    /\ place \in {"idlehands", "woken"}
    /\ \/ place = "woken" /\ idlewakeup /\ place' = "scan"
       \/ (place = "idlehands" \/ ~idlewakeup) /\ place' = "psleep"
    /\ idlewakeup' = FALSE
    /\ late' = {}
    /\ UNCHANGED <<ustate, runq, runqlk, uproc, readying>>

Idlehands ==
    /\ place \in {"idlehands", "woken"}
    /\ place' = IF idlewakeup THEN "scan" ELSE "psleep"
    /\ idlewakeup' = FALSE
    /\ late' = {}
    /\ UNCHANGED <<ustate, runq, runqlk, uproc, readying>>

----------------------------------------------------------------------------
ThreadStep(t) == ThreadLock(t) \/ ThreadQueue(t) \/ ThreadKick(t)

Cpu0Schedule ==
    \/ (\E p \in User : ScanFinds(p) \/ ScanReadied(p)) \/ ScanEnds
    \/ DequeueFails \/ Dequeue \/ Idlehands

Cpu0Next ==
    \/ \E t \in Thread : ThreadStep(t) \/ \E p \in User : ThreadReady(t, p)
    \/ \E p \in User : Cpu0Ready(p)
    \/ Cpu0Block \/ Cpu0Yield
    \/ Cpu0Schedule

Cpu0Spec == Cpu0Init /\ [][Cpu0Next]_cpu0vars

(* The host runs every thread; a spin lock that is free again and again is  *)
(* got.  A user process may run for ever.                                   *)
Cpu0Fairness ==
    /\ WF_cpu0vars(Cpu0Schedule)
    /\ \A t \in Thread : WF_cpu0vars(ThreadStep(t)) /\ SF_cpu0vars(ThreadLock(t))

Cpu0FairSpec == Cpu0Spec /\ Cpu0Fairness

----------------------------------------------------------------------------
(* Somebody has told cpu0 not to sleep, or is about to.                     *)
WordLeft == idlewakeup \/ \E t \in Thread : readying[t].step = "kick"

(* t has made p Ready and has not put it on a run queue yet.                *)
Carries(t, p) == readying[t].proc = p /\ readying[t].step \in {"lock", "queue"}

(* cpu0 does not sleep while a process is ready, or is about to fall asleep *)
(* then, unless it has been left word or some thread is about to kick it:   *)
(* the wakeup cannot fall between cpu0's last look at the queues and its    *)
(* psleep.                                                                  *)
NoSleepOverWork ==
    place \in {"psleep", "woken"} /\ runq # {} => WordLeft

(* A process that is Ready is on a run queue or is being put on it: a       *)
(* failing dequeueproc does not drop the process it was after.              *)
ReadyIsQueued == \A p \in User :
    ustate[p] = "Ready" <=> p \in runq \/ \E t \in Thread : Carries(t, p)

(* Why they hold: what has come behind the back of a search is a reason not *)
(* to sleep after it, the process on cpu0 is not Ready, and a process is    *)
(* readied by one thread, before it is on a run queue.                      *)
ScanInv ==
    /\ place \in {"scan", "idlehands"} /\ late # {} => WordLeft
    /\ place = "idlehands" => runq \subseteq late
    /\ place = "running" => ustate[uproc] = "Running"

ReadyingInv == \A t \in Thread :
    /\ readying[t].step # "none" => readying[t].proc \in User
    /\ \A p \in User : Carries(t, p) =>
          p \notin runq /\ \A s \in Thread : Carries(s, p) => s = t

Cpu0IInv == Cpu0TypeOK /\ NoSleepOverWork /\ ReadyIsQueued /\ ScanInv /\ ReadyingInv

(* As long as a process is ready, cpu0 gets round to running one.           *)
WorkGetsDone == runq # {} ~> place = "running"

==============================================================================
