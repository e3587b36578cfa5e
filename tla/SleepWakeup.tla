----------------------------- MODULE SleepWakeup -----------------------------
(***************************************************************************)
(* sleep, wakeup and postnote of the Plan 9 kernel (9vx/a/proc.c).         *)
(*                                                                         *)
(* A sleeper and those who wake it agree through r->p and p->r, which are  *)
(* changed under two spin locks, r->lk and p->rlock.  sleep and wakeup     *)
(* take r->lk first; postnote starts from the process, takes p->rlock      *)
(* first, and so may only try r->lk, and starts again if it is taken.      *)
(* Every lock, unlock, test and assignment that another thread can see is  *)
(* a step.  Being switched out and dispatched is left to KprocSched.       *)
(***************************************************************************)
EXTENDS FiniteSets

CONSTANTS
    Sleeper,   \* processes that sleep
    Thread,    \* threads that wake and note them
    Rendez,    \* what they sleep on; each is one sleeper's at a time
    None       \* nil

ASSUME SleepWakeupAssumption ==
    /\ None \notin Sleeper \cup Thread \cup Rendez
    /\ Sleeper \cap Thread = {}

VARIABLES
    cond,      \* cond[r]: what f(arg) of a sleep on r would say
    pending,   \* p->notepending
    rp,        \* r->p
    pr,        \* p->r
    state,     \* p->state
    rlk,       \* who has r->lk
    plk,       \* who has p->rlock
    pc,        \* where a sleeper or a thread is
    on,        \* the Rendez it is called with, or has found
    whom,      \* the process a thread is called with, or has found
    panicked   \* "wakeup: state" or "postnote: state"

requests == <<cond, pending>>
links == <<rp, pr, state>>
locks == <<rlk, plk>>
args == <<on, whom>>
vars == <<requests, links, locks, args, pc, panicked>>

Actor == Sleeper \cup Thread

Places == {"idle",
    "sleep-lock-r", "sleep-lock-p", "sleep-cond", "sleep-note",
    "sleep-unlock-p", "sleep-unlock-r", "asleep", "sleep-end",
    "wakeup-lock-r", "wakeup-lock-p", "wakeup-ready", "wakeup-unlock-r",
    "note-lock-p", "note-try-r", "note-unlock-r", "note-unlock-p"}

TypeOK ==
    /\ cond \in [Rendez -> BOOLEAN]
    /\ pending \in [Sleeper -> BOOLEAN]
    /\ rp \in [Rendez -> Sleeper \cup {None}]
    /\ pr \in [Sleeper -> Rendez \cup {None}]
    /\ state \in [Sleeper -> {"Running", "Wakeme", "Ready"}]
    /\ rlk \in [Rendez -> Actor \cup {None}]
    /\ plk \in [Sleeper -> Actor \cup {None}]
    /\ pc \in [Actor -> Places]
    /\ on \in [Actor -> Rendez \cup {None}]
    /\ whom \in [Thread -> Sleeper \cup {None}]
    /\ panicked \in BOOLEAN

Init ==
    /\ cond = [r \in Rendez |-> FALSE]
    /\ pending = [p \in Sleeper |-> FALSE]
    /\ rp = [r \in Rendez |-> None]
    /\ pr = [p \in Sleeper |-> None]
    /\ state = [p \in Sleeper |-> "Running"]
    /\ rlk = [r \in Rendez |-> None]
    /\ plk = [p \in Sleeper |-> None]
    /\ pc = [a \in Actor |-> "idle"]
    /\ on = [a \in Actor |-> None]
    /\ whom = [t \in Thread |-> None]
    /\ panicked = FALSE

Goto(a, from, to) == pc[a] = from /\ pc' = [pc EXCEPT ![a] = to]

LockR(a, r) == rlk[r] = None /\ rlk' = [rlk EXCEPT ![r] = a]
UnlockR(r) == rlk' = [rlk EXCEPT ![r] = None]
LockP(a, p) == plk[p] = None /\ plk' = [plk EXCEPT ![p] = a]
UnlockP(p) == plk' = [plk EXCEPT ![p] = None]

----------------------------------------------------------------------------
(* sleep(r, f, arg), called by p: nobody else sleeps on r meanwhile.        *)
SleepCall(p, r) ==
    /\ Goto(p, "idle", "sleep-lock-r")
    /\ \A q \in Sleeper : pc[q] = "idle" \/ on[q] # r
    /\ on' = [on EXCEPT ![p] = r]
    /\ UNCHANGED <<requests, links, locks, whom, panicked>>

SleepLockR(p) ==
    /\ Goto(p, "sleep-lock-r", "sleep-lock-p")
    /\ LockR(p, on[p])
    /\ UNCHANGED <<requests, links, plk, args, panicked>>

SleepLockP(p) ==
    /\ Goto(p, "sleep-lock-p", "sleep-cond")
    /\ LockP(p, p)
    /\ rp' = [rp EXCEPT ![on[p]] = p]
    /\ UNCHANGED <<requests, pr, state, rlk, args, panicked>>

(* "Never mind": the condition holds, or a note is pending.                 *)
NeverMind(p) == rp' = [rp EXCEPT ![on[p]] = None] /\ UNCHANGED <<pr, state>>

SleepCond(p) ==
    /\ Goto(p, "sleep-cond",
            IF cond[on[p]] THEN "sleep-unlock-p" ELSE "sleep-note")
    /\ IF cond[on[p]] THEN NeverMind(p) ELSE UNCHANGED links
    /\ UNCHANGED <<requests, locks, args, panicked>>

Commit(p) ==
    /\ state' = [state EXCEPT ![p] = "Wakeme"]
    /\ pr' = [pr EXCEPT ![p] = on[p]]
    /\ UNCHANGED rp

(* Slip: the pending note is not looked at.                                 *)
SleepUnheeding(p) ==
    /\ Goto(p, "sleep-note", "sleep-unlock-p")
    /\ Commit(p)
    /\ UNCHANGED <<requests, locks, args, panicked>>

SleepNote(p) ==
    /\ Goto(p, "sleep-note", "sleep-unlock-p")
    /\ IF pending[p] THEN NeverMind(p) ELSE Commit(p)
    /\ UNCHANGED <<requests, locks, args, panicked>>

SleepUnlockP(p) ==
    /\ Goto(p, "sleep-unlock-p", "sleep-unlock-r")
    /\ UnlockP(p)
    /\ UNCHANGED <<requests, links, rlk, args, panicked>>

SleepUnlockR(p) ==
    /\ Goto(p, "sleep-unlock-r",
            IF state[p] = "Running" THEN "sleep-end" ELSE "asleep")
    /\ UnlockR(on[p])
    /\ UNCHANGED <<requests, links, plk, args, panicked>>

(* Some processor runs p again.                                             *)
SleepAwake(p) ==
    /\ Goto(p, "asleep", "sleep-end")
    /\ state[p] = "Ready"
    /\ state' = [state EXCEPT ![p] = "Running"]
    /\ UNCHANGED <<requests, rp, pr, locks, args, panicked>>

(* A pending note is taken and sleep fails with Eintr; otherwise the caller *)
(* looks at what it waited for, and may use it up.                          *)
SleepEnd(p) ==
    /\ Goto(p, "sleep-end", "idle")
    /\ on' = [on EXCEPT ![p] = None]
    /\ pending' = [pending EXCEPT ![p] = FALSE]
    /\ \E c \in IF pending[p] THEN {cond[on[p]]} ELSE {cond[on[p]], FALSE} :
          cond' = [cond EXCEPT ![on[p]] = c]
    /\ UNCHANGED <<links, locks, whom, panicked>>

----------------------------------------------------------------------------
(* A thread makes a condition true and calls wakeup(r).                     *)
WakeupCall(t, r) ==
    /\ Goto(t, "idle", "wakeup-lock-r")
    /\ cond' = [cond EXCEPT ![r] = TRUE]
    /\ on' = [on EXCEPT ![t] = r]
    /\ UNCHANGED <<pending, links, locks, whom, panicked>>

WakeupLockR(t) ==
    /\ Goto(t, "wakeup-lock-r",
            IF rp[on[t]] = None THEN "wakeup-unlock-r" ELSE "wakeup-lock-p")
    /\ LockR(t, on[t])
    /\ whom' = [whom EXCEPT ![t] = rp[on[t]]]
    /\ UNCHANGED <<requests, links, plk, on, panicked>>

WakeupLockP(t) ==
    /\ Goto(t, "wakeup-lock-p", "wakeup-ready")
    /\ LockP(t, whom[t])
    /\ UNCHANGED <<requests, links, rlk, args, panicked>>

(* Both ways of waking a sleeper come to this: check, unlink, ready.  Slip: *)
(* the process keeps its p->r.                                              *)
RouseLinked(p, r) ==
    /\ state' = [state EXCEPT ![p] = "Ready"]
    /\ rp' = [rp EXCEPT ![r] = None]
    /\ UNCHANGED <<pr, panicked>>

Rouse(p, r) ==
    IF state[p] = "Wakeme" /\ pr[p] = r /\ rp[r] = p
    THEN /\ rp' = [rp EXCEPT ![r] = None]
         /\ pr' = [pr EXCEPT ![p] = None]
         /\ state' = [state EXCEPT ![p] = "Ready"]
         /\ UNCHANGED panicked
    ELSE panicked' = TRUE /\ UNCHANGED links

WakeupReady(t) ==
    /\ Goto(t, "wakeup-ready", "wakeup-unlock-r")
    /\ Rouse(whom[t], on[t])
    /\ UnlockP(whom[t])
    /\ UNCHANGED <<requests, rlk, args>>

WakeupUnlockR(t) ==
    /\ Goto(t, "wakeup-unlock-r", "idle")
    /\ UnlockR(on[t])
    /\ on' = [on EXCEPT ![t] = None]
    /\ whom' = [whom EXCEPT ![t] = None]
    /\ UNCHANGED <<requests, links, plk, panicked>>

----------------------------------------------------------------------------
(* postnote(p): the note is queued and p->notepending set.                  *)
PostnoteCall(t, p) ==
    /\ Goto(t, "idle", "note-lock-p")
    /\ pending' = [pending EXCEPT ![p] = TRUE]
    /\ whom' = [whom EXCEPT ![t] = p]
    /\ UNCHANGED <<cond, links, locks, on, panicked>>

(* p->r, read under p->rlock, says whether p sleeps, and where.            *)
PostnoteLockP(t) ==
    /\ Goto(t, "note-lock-p",
            IF pr[whom[t]] = None THEN "note-unlock-p" ELSE "note-try-r")
    /\ LockP(t, whom[t])
    /\ UNCHANGED <<requests, links, rlk, args, panicked>>

(* Slips: r->lk is not taken at all; p->rlock is kept while r->lk is waited *)
(* for.                                                                     *)
PostnoteNoTry(t) ==
    /\ Goto(t, "note-try-r", "note-unlock-p")
    /\ Rouse(whom[t], pr[whom[t]])
    /\ UNCHANGED <<requests, locks, args>>

PostnoteInsist(t) ==
    /\ Goto(t, "note-try-r", "note-try-r")
    /\ rlk[pr[whom[t]]] # None
    /\ UNCHANGED <<requests, links, locks, args, panicked>>

(* canlock(&r->lk): if it fails, p->rlock is given up and all starts again. *)
PostnoteTryR(t) ==
    /\ Goto(t, "note-try-r", "note-unlock-r")
    /\ LockR(t, pr[whom[t]])
    /\ on' = [on EXCEPT ![t] = pr[whom[t]]]
    /\ Rouse(whom[t], pr[whom[t]])
    /\ UNCHANGED <<requests, plk, whom>>

PostnoteAgain(t) ==
    /\ Goto(t, "note-try-r", "note-lock-p")
    /\ rlk[pr[whom[t]]] # None
    /\ UnlockP(whom[t])
    /\ UNCHANGED <<requests, links, rlk, args, panicked>>

PostnoteUnlockR(t) ==
    /\ Goto(t, "note-unlock-r", "note-unlock-p")
    /\ UnlockR(on[t])
    /\ on' = [on EXCEPT ![t] = None]
    /\ UNCHANGED <<requests, links, plk, whom, panicked>>

PostnoteUnlockP(t) ==
    /\ Goto(t, "note-unlock-p", "idle")
    /\ UnlockP(whom[t])
    /\ whom' = [whom EXCEPT ![t] = None]
    /\ UNCHANGED <<requests, links, rlk, on, panicked>>

----------------------------------------------------------------------------
SleepStep(p) ==
    \/ SleepLockR(p) \/ SleepLockP(p) \/ SleepCond(p) \/ SleepNote(p)
    \/ SleepUnlockP(p) \/ SleepUnlockR(p) \/ SleepAwake(p) \/ SleepEnd(p)

ThreadStep(t) ==
    \/ WakeupLockR(t) \/ WakeupLockP(t) \/ WakeupReady(t) \/ WakeupUnlockR(t)
    \/ PostnoteLockP(t) \/ PostnoteTryR(t) \/ PostnoteAgain(t)
    \/ PostnoteUnlockR(t) \/ PostnoteUnlockP(t)

Next ==
    /\ ~panicked
    /\ \/ \E p \in Sleeper : SleepStep(p) \/ \E r \in Rendez : SleepCall(p, r)
       \/ \E t \in Thread :
            \/ ThreadStep(t)
            \/ \E r \in Rendez : WakeupCall(t, r)
            \/ \E p \in Sleeper : PostnoteCall(t, p)

Spec == Init /\ [][Next]_vars

(* Every thread goes on, and a spin lock that is free again and again is    *)
(* got in the end by each thread that spins on it.                          *)
Fairness ==
    /\ \A p \in Sleeper :
         WF_vars(SleepStep(p)) /\ SF_vars(SleepLockR(p) \/ SleepLockP(p))
    /\ \A t \in Thread :
         WF_vars(ThreadStep(t))
         /\ SF_vars(WakeupLockR(t) \/ WakeupLockP(t) \/ PostnoteLockP(t))

FairSpec == Spec /\ Fairness

----------------------------------------------------------------------------
(* Who is where has or has found what it needs there.                       *)
SleeperAt(p) ==
    /\ pc[p] \in {"idle", "sleep-lock-r", "sleep-lock-p", "sleep-cond", "sleep-note",
                  "sleep-unlock-p", "sleep-unlock-r", "asleep", "sleep-end"}
    /\ on[p] = None <=> pc[p] = "idle"

SleeperInv == \A p \in Sleeper : SleeperAt(p)

OneSleeperEach == \A p, q \in Sleeper : on[p] = on[q] /\ on[p] # None => p = q

ThreadAt(t) ==
    /\ pc[t] \in {"idle", "wakeup-lock-r", "wakeup-lock-p", "wakeup-ready",
                  "wakeup-unlock-r", "note-lock-p", "note-try-r", "note-unlock-r",
                  "note-unlock-p"}
    /\ pc[t] \in {"wakeup-lock-r", "wakeup-lock-p", "wakeup-ready", "wakeup-unlock-r",
                  "note-unlock-r"} => on[t] # None
    /\ pc[t] \in {"wakeup-lock-p", "wakeup-ready", "note-lock-p", "note-try-r",
                  "note-unlock-r", "note-unlock-p"} => whom[t] # None

ThreadInv == \A t \in Thread : ThreadAt(t)

(* Who has a spin lock follows from where everybody is.                     *)
WithR == {"sleep-lock-p", "sleep-cond", "sleep-note", "sleep-unlock-p",
          "sleep-unlock-r", "wakeup-lock-p", "wakeup-ready", "wakeup-unlock-r",
          "note-unlock-r"}

WithP == {"sleep-cond", "sleep-note", "sleep-unlock-p",
          "wakeup-ready", "note-try-r", "note-unlock-r", "note-unlock-p"}

RLockInv == \A a \in Actor, r \in Rendez : rlk[r] = a <=> pc[a] \in WithR /\ on[a] = r

Process(a) == IF a \in Sleeper THEN a ELSE whom[a]

PLockInv == \A a \in Actor, p \in Sleeper :
    plk[p] = a <=> pc[a] \in WithP /\ Process(a) = p

(* p->state, r->p and p->r follow from where the sleeper is; and a waker    *)
(* that has r->lk has found who is there.                                   *)
StateAt(p) ==
    /\ state[p] = "Wakeme" => pc[p] \in {"sleep-unlock-p", "sleep-unlock-r", "asleep"}
    /\ state[p] = "Ready" => pc[p] = "asleep"
    /\ pc[p] = "asleep" => state[p] # "Running"

StateInv == \A p \in Sleeper : StateAt(p)

Linking(p) == pc[p] \in {"sleep-cond", "sleep-note"} \/ state[p] = "Wakeme"

LinkAt(p, r) ==
    /\ rp[r] = p <=> on[p] = r /\ Linking(p)
    /\ pr[p] = r <=> on[p] = r /\ state[p] = "Wakeme"

LinkInv == \A p \in Sleeper, r \in Rendez : LinkAt(p, r)

WakerAt(t) ==
    /\ pc[t] \in {"wakeup-lock-p", "wakeup-ready"} => rp[on[t]] = whom[t]
    /\ pc[t] = "note-try-r" => pr[whom[t]] # None

WakerInv == \A t \in Thread : WakerAt(t)

(* r->p and p->r agree whenever nobody has the locks that guard them: a     *)
(* process is linked to a Rendez both ways, or not at all.                  *)
LinksAgree ==
    /\ TypeOK
    /\ \A p \in Sleeper, r \in Rendez :
          rlk[r] = None /\ plk[p] = None => (rp[r] = p <=> pr[p] = r)

(* The panics "wakeup: state" and "postnote: state" cannot happen: whoever  *)
(* gets both locks finds the process still asleep on that Rendez, although  *)
(* a wakeup and a postnote, coming from both sides, may be after it at once.*)
NoPanic == ~panicked

IInv ==
    /\ TypeOK /\ SleeperInv /\ OneSleeperEach /\ ThreadInv
    /\ RLockInv /\ PLockInv /\ StateInv /\ LinkInv /\ WakerInv
    /\ NoPanic

(* A thread that will wake p if p is asleep when it comes to it: wakeup at  *)
(* the Rendez of p before its look at r->p, or after it with p found; or    *)
(* postnote to p that has not looked at p->r, or has found it set.          *)
AtRendez(t, p) == pc[t] = "wakeup-lock-r" /\ on[t] = on[p]

Reaching(t, p) ==
    \/ AtRendez(t, p)
    \/ pc[t] \in {"wakeup-lock-p", "wakeup-ready"} /\ on[t] = on[p]
    \/ pc[t] \in {"note-lock-p", "note-try-r"} /\ whom[t] = p

Due(p) == state[p] = "Wakeme" /\ (cond[on[p]] \/ pending[p])
DueSoon(p) == pc[p] = "sleep-note" /\ cond[on[p]]

(* No wakeup and no note is lost: a process that sleeps although its        *)
(* condition holds or a note is pending has a thread on its way that will   *)
(* wake it.                                                                 *)
NoLostWakeup == \A p \in Sleeper : Due(p) => \E t \in Thread : Reaching(t, p)

(* A condition that came true between sleep's look at it and the moment it  *)
(* commits itself has its wakeup still waiting for r->lk.                   *)
LateWakeupWaits ==
    \A p \in Sleeper : DueSoon(p) => \E t \in Thread : AtRendez(t, p)

(* A wakeup gets its two locks in the end, whatever postnotes hold them the *)
(* other way round.  (A postnote may start again for ever, if others keep   *)
(* waking its process at the wrong moments.)                                *)
WakersReturn == \A t \in Thread :
    pc[t] \in {"wakeup-lock-r", "wakeup-lock-p"} ~> pc[t] = "idle"

(* A sleep returns once its condition holds or a note is pending.           *)
SleepersReturn == \A p \in Sleeper :
    (\E r \in Rendez : on[p] = r /\ cond[r]) \/ (on[p] # None /\ pending[p])
        ~> pc[p] = "idle"
==============================================================================
