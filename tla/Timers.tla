------------------------------- MODULE Timers -------------------------------
(***************************************************************************)
(* Timers of 9vx (9vx/time.c) and the sleep with a time limit that rests   *)
(* on them (tsleep in 9vx/a/proc.c).                                       *)
(*                                                                         *)
(* A kproc of its own sleeps in the host until the first timer of a list   *)
(* is due.  Whoever puts another in front of it sends SIGURG to the host   *)
(* thread on which that kproc began.  The kproc may have to wait in        *)
(* soundalarms, and then goes on in whichever thread takes it.             *)
(*                                                                         *)
(* What is done under the lock of the list is a step.  Of the alarms only  *)
(* their timer and their lock are here: when it sounds is left open.       *)
(***************************************************************************)
EXTENDS Naturals, SequencesExt

CONSTANTS
    Proc,       \* processes that call tsleep and alarm
    Rendez,     \* what a process sleeps on: each has these
    HostThread, \* host threads on which the timer kproc may run
    MaxDelay,   \* bound: the longest time a timer is set to, in ticks
    alarmtimer, \* the timer of the alarms
    Nobody      \* nobody, nothing

ASSUME TimersAssumption ==
    /\ MaxDelay \in Nat \ {0} /\ HostThread # {}
    /\ alarmtimer \notin Proc \cup {Nobody} /\ Nobody \notin Proc \cup Rendez \cup HostThread

VARIABLES
    list,       \* timers.head: the timers that are set
    left,       \* how long each has left, 0 when it is due
    pend,       \* SIGURG is pending for a thread
    timer_pid,  \* the thread that gets it
    thread,     \* the thread the timer kproc runs on
    tp,         \* where it is
    until,      \* what is left of its pselect
    due,        \* the timer it runs
    seen,       \* the Rendez twakeup has found
    trend,      \* p->trend
    on,         \* the Rendez p's tsleep is about
    cond,       \* the condition p waits for is true
    alk,        \* who has alarms.lk
    pc

sys == <<list, left, pend>>
kp == <<timer_pid, thread, tp, until, due, seen>>
users == <<trend, on, cond, pc>>
timervars == <<sys, kp, users, alk>>

Timer == Proc \cup {alarmtimer}
Delay == 1..MaxDelay

TimersTypeOK ==
    /\ list \in Seq(Timer) /\ left \in [Timer -> 0..MaxDelay]
    /\ pend \in [HostThread -> BOOLEAN]
    /\ timer_pid \in HostThread \cup {Nobody} /\ thread \in HostThread
    /\ tp \in {"start", "look", "sigwait", "pselect", "fire", "clear", "wake",
               "qlock", "queued", "sound", "soundadd"}
    /\ until \in 0..MaxDelay /\ due \in Timer \cup {Nobody} /\ seen \in Rendez \cup {Nobody}
    /\ trend \in [Proc -> Rendez \cup {Nobody}] /\ on \in [Proc -> Rendez \cup {Nobody}]
    /\ cond \in [Proc -> BOOLEAN]
    /\ alk \in Proc \cup {alarmtimer, Nobody}
    /\ pc \in [Proc -> {"run", "armed", "asleep", "awake", "alarm", "alarmadd"}]

TimersInit ==
    /\ list = <<>> /\ left = [t \in Timer |-> 0]
    /\ pend = [h \in HostThread |-> FALSE]
    /\ timer_pid = Nobody /\ tp = "start"
    /\ thread = CHOOSE h \in HostThread : TRUE     \* they are all alike
    /\ until = 0 /\ due = Nobody /\ seen = Nobody
    /\ trend = [p \in Proc |-> Nobody] /\ on = [p \in Proc |-> Nobody]
    /\ cond = [p \in Proc |-> FALSE]
    /\ alk = Nobody
    /\ pc = [p \in Proc |-> "run"]

Goto(p, from, to) == pc[p] = from /\ pc' = [pc EXCEPT ![p] = to]
KpGoto(from, to) == tp = from /\ tp' = to

----------------------------------------------------------------------------
(* The list.                                                                *)

(* Slip: in pselect the kproc will wake up anyway.                          *)
KicksLess(h) == h = timer_pid /\ tp = "sigwait"

(* kicktimerproc, which does nothing before the kproc has begun             *)
Kicks(h) == h = timer_pid

KickIf(b) == pend' = [h \in HostThread |-> pend[h] \/ (b /\ Kicks(h))]

(* timerdel tells the kproc when another timer comes to the front.          *)
Uncovers(t) == list # <<>> /\ Head(list) = t /\ Len(list) > 1

Timerdel(t) ==
    /\ list' = RemoveFirst(list, t)
    /\ left' = [left EXCEPT ![t] = 0]
    /\ KickIf(Uncovers(t))

(* timeradd and tadd: in front of the first that is due later; the kproc is *)
(* told when that is the front of the list.                                 *)
Timeradd(t, d) ==
    /\ \E i \in 1..(Len(list) + 1) :
         /\ \A k \in 1..(i - 1) : left[list[k]] <= d
         /\ i <= Len(list) => left[list[i]] > d
         /\ list' = InsertAt(list, i, t)
         /\ KickIf(i = 1)
    /\ left' = [left EXCEPT ![t] = d]

Less(n) == IF n = 0 THEN 0 ELSE n - 1

Tick ==
    /\ left' = [t \in Timer |-> Less(left[t])]
    /\ until' = Less(until)
    /\ UNCHANGED <<list, pend, timer_pid, thread, tp, due, seen, users, alk>>

----------------------------------------------------------------------------
(* timerkproc                                                               *)

Start ==
    /\ KpGoto("start", "look")
    /\ timer_pid' = thread
    /\ UNCHANGED <<sys, thread, until, due, seen, users, alk>>

LookNone ==
    /\ KpGoto("look", "sigwait")
    /\ list = <<>>
    /\ UNCHANGED <<sys, timer_pid, thread, until, due, seen, users, alk>>

LookLater ==
    /\ KpGoto("look", "pselect")
    /\ list # <<>> /\ left[Head(list)] > 0
    /\ until' = left[Head(list)]
    /\ UNCHANGED <<sys, timer_pid, thread, due, seen, users, alk>>

LookDue ==
    /\ list # <<>> /\ left[Head(list)] = 0
    /\ due' = Head(list) /\ list' = Tail(list)
    /\ KpGoto("look", IF due' = alarmtimer THEN "qlock" ELSE "fire")
    /\ UNCHANGED <<left, pend, timer_pid, thread, until, seen, users, alk>>

Signalled ==
    /\ tp \in {"sigwait", "pselect"} /\ tp' = "look"
    /\ pend[thread] /\ pend' = [pend EXCEPT ![thread] = FALSE]
    /\ until' = 0
    /\ UNCHANGED <<list, left, timer_pid, thread, due, seen, users, alk>>

TimeIsUp ==
    /\ KpGoto("pselect", "look")
    /\ until = 0
    /\ UNCHANGED <<sys, timer_pid, thread, until, due, seen, users, alk>>

(* twakeup: "trend = p->trend; p->trend = 0; if(trend) wakeup(trend)"       *)
TwakeupRead ==
    /\ KpGoto("fire", "clear")
    /\ seen' = trend[due]
    /\ UNCHANGED <<sys, timer_pid, thread, until, due, users, alk>>

TwakeupClear ==
    /\ KpGoto("clear", "wake")
    /\ trend' = [trend EXCEPT ![due] = Nobody]
    /\ UNCHANGED <<sys, timer_pid, thread, until, due, seen, on, cond, pc, alk>>

(* Slip: one who sleeps is not woken, only told not to sleep.               *)
WakesNobody(p) == FALSE

Wakes(p) == seen # Nobody /\ on[p] = seen /\ pc[p] = "asleep"

TwakeupWake ==
    /\ KpGoto("wake", "look")
    /\ pc' = IF Wakes(due) THEN [pc EXCEPT ![due] = "awake"] ELSE pc
    /\ due' = Nobody /\ seen' = Nobody
    /\ UNCHANGED <<sys, timer_pid, thread, until, trend, on, cond, alk>>

(* soundalarms: alarms.lk, at once or when it is passed on                  *)
SoundQlock ==
    /\ KpGoto("qlock", IF alk = Nobody THEN "sound" ELSE "queued")
    /\ alk' = IF alk = Nobody THEN alarmtimer ELSE alk
    /\ UNCHANGED <<sys, timer_pid, thread, until, due, seen, users>>

(* setalarm, with the list let go of in between: somebody may be left to    *)
(* sound for.  Then qunlock.                                                *)
SoundDel ==
    /\ KpGoto("sound", "soundadd")
    /\ Timerdel(alarmtimer)
    /\ UNCHANGED <<timer_pid, thread, until, due, seen, users, alk>>

SoundAdd ==
    /\ KpGoto("soundadd", "look")
    /\ alk' = Nobody /\ due' = Nobody
    /\ UNCHANGED sys \/ \E d \in Delay : Timeradd(alarmtimer, d)
    /\ UNCHANGED <<timer_pid, thread, until, seen, users>>

----------------------------------------------------------------------------
(* Processes                                                                *)

Tsleep(p) ==
    /\ Goto(p, "run", "armed")
    /\ \E r \in Rendez : trend' = [trend EXCEPT ![p] = r] /\ on' = [on EXCEPT ![p] = r]
    /\ \E d \in Delay : Timeradd(p, d)
    /\ UNCHANGED <<kp, cond, alk>>

(* sleep, with tfn for its condition                                        *)
SleepTfn(p) ==
    /\ Goto(p, "armed", IF trend[p] = Nobody \/ cond[p] THEN "awake" ELSE "asleep")
    /\ UNCHANGED <<sys, kp, trend, on, cond, alk>>

(* Somebody makes the condition true and wakes p up, or posts a note.       *)
Rouse(p) ==
    /\ pc[p] \in {"armed", "asleep"} /\ ~cond[p]
    /\ cond' = [cond EXCEPT ![p] = TRUE]
    /\ pc' = [pc EXCEPT ![p] = IF @ = "asleep" THEN "awake" ELSE @]
    /\ UNCHANGED <<sys, kp, trend, on, alk>>

(* Slip: the timer is left to go off.                                       *)
TsleepEndsOnly(p) ==
    /\ Goto(p, "awake", "run")
    /\ on' = [on EXCEPT ![p] = Nobody] /\ cond' = [cond EXCEPT ![p] = FALSE]
    /\ UNCHANGED <<sys, kp, trend, alk>>

(* trend is left as it is.                                                  *)
TsleepEnds(p) ==
    /\ Goto(p, "awake", "run")
    /\ Timerdel(p)
    /\ on' = [on EXCEPT ![p] = Nobody] /\ cond' = [cond EXCEPT ![p] = FALSE]
    /\ UNCHANGED <<kp, trend, alk>>

(* procalarm, with alarms.lk                                                *)
AlarmQlock(p) ==
    /\ Goto(p, "run", "alarm")
    /\ alk = Nobody /\ alk' = p
    /\ UNCHANGED <<sys, kp, trend, on, cond>>

AlarmDel(p) ==
    /\ Goto(p, "alarm", "alarmadd")
    /\ Timerdel(alarmtimer)
    /\ UNCHANGED <<kp, trend, on, cond, alk>>

(* The second half of setalarm, and qunlock, which passes alarms.lk on to   *)
(* the timer kproc if it is queued; ready then lets any thread have it.     *)
AlarmAdd(p) ==
    /\ Goto(p, "alarmadd", "run")
    /\ \E d \in Delay : Timeradd(alarmtimer, d)
    /\ IF tp = "queued"
       THEN alk' = alarmtimer /\ tp' = "sound" /\ thread' \in HostThread
       ELSE alk' = Nobody /\ UNCHANGED <<tp, thread>>
    /\ UNCHANGED <<timer_pid, until, due, seen, trend, on, cond>>

TimerKproc ==
    \/ Start \/ LookNone \/ LookLater \/ LookDue \/ Signalled \/ TimeIsUp
    \/ TwakeupRead \/ TwakeupClear \/ TwakeupWake \/ SoundQlock \/ SoundDel \/ SoundAdd

TimersNext == Tick \/ TimerKproc \/ \E p \in Proc :
    \/ Tsleep(p) \/ SleepTfn(p) \/ Rouse(p) \/ TsleepEnds(p)
    \/ AlarmQlock(p) \/ AlarmDel(p) \/ AlarmAdd(p)

TimersSpec == TimersInit /\ [][TimersNext]_timervars

(* Time goes on, and so do the timer kproc and whoever has alarms.lk.       *)
TimersFairSpec == TimersSpec /\ WF_timervars(Tick) /\ WF_timervars(TimerKproc)
                 /\ \A p \in Proc : WF_timervars(AlarmDel(p) \/ AlarmAdd(p))

----------------------------------------------------------------------------
AtHome == timer_pid = thread

(* "SIGURG is blocked in all procs by default, so the timer is guaranteed   *)
(* to get the signal": as long as it is still in the thread it began in,    *)
(* the kproc does not sleep past the first timer, whoever puts a timer in   *)
(* front or takes the first away at whatever moment.                        *)
HeadWatched ==
    tp \in {"sigwait", "pselect"} /\ AtHome /\ list # <<>> =>
        pend[thread] \/ (tp = "pselect" /\ until <= left[Head(list)])

(* The list is in the order in which its timers are due, has each once, and *)
(* has a process's timer only while its tsleep is going on.                 *)
ListSound ==
    /\ TimersTypeOK
    /\ \A i, j \in DOMAIN list : i < j => list[i] # list[j] /\ left[list[i]] <= left[list[j]]
    /\ \A p \in Proc : Contains(list, p) => pc[p] \in {"armed", "asleep", "awake"}

(* twakeup of an earlier tsleep has come between, and cleared the new trend *)
(* while its timer is still running.                                        *)
Overtaken(p) == trend[p] = Nobody /\ Contains(list, p)

(* A tsleep ends, if only by its time limit, unless the timer kproc has     *)
(* changed threads or the twakeup of an earlier tsleep comes between.       *)
TsleepReturns == \A p \in Proc :
    pc[p] = "asleep" /\ trend[p] # Nobody ~> pc[p] # "asleep" \/ ~AtHome \/ Overtaken(p)

----------------------------------------------------------------------------
(* Why they hold: who has alarms.lk says where he is; between the two       *)
(* halves of setalarm the timer is out of the list, and what the kproc runs *)
(* is what its place is for.                                                *)
AlarmInv ==
    /\ \A p \in Proc : alk = p <=> pc[p] \in {"alarm", "alarmadd"}
    /\ alk = alarmtimer <=> tp \in {"sound", "soundadd"}
    /\ alk # Nobody /\ (tp = "soundadd" \/ \E p \in Proc : pc[p] = "alarmadd") =>
         ~Contains(list, alarmtimer)

DueInv ==
    /\ tp \in {"fire", "clear", "wake"} => due \in Proc
    /\ tp \in {"qlock", "queued", "sound", "soundadd"} => due = alarmtimer

TimersIInv == ListSound /\ HeadWatched /\ AlarmInv /\ DueInv
==============================================================================
