------------------------------ MODULE KprocDev -------------------------------
(***************************************************************************)
(* Device calls deferred to kernel processes (9vx/kprocdev.c).  cpu0 must  *)
(* not block in the host, so a user process hands the call over to a       *)
(* server kproc, which blocks on its own host thread, and sleeps.          *)
(*                                                                         *)
(* The request (Kcall) is in the caller's stack frame; the servers look at *)
(* it without a lock.  Each access to what caller and server share is a    *)
(* step; sleep and wakeup are whole (SleepWakeup has their inside).        *)
(***************************************************************************)
EXTENDS Naturals, FiniteSets, SequencesExt

CONSTANTS
    Caller,     \* user processes
    Server,     \* the "*io*" kprocs that can be made
    Thread,     \* host threads of kprocs
    None        \* nil

ASSUME KprocDevAssumption == None \notin Caller \cup Server \cup Thread

VARIABLES
    pc,        \* where the caller is
    srv,       \* kcall's s: the server of the caller's call
    done,      \* kc->done
    pthread,   \* kc->pthread
    noted,     \* a note is pending for the caller
    target,    \* kcall's p: what it has read of kc->pthread
    free,      \* kstate.servers
    kc,        \* s->kc: the request handed to a server
    work,      \* kserver's kc: the request a server works on
    at,        \* where the server is
    thread,    \* the host thread a server runs on
    overtaken, \* history: the call has been done since kcall tested kc->done
    crashed    \* a server has followed a pointer out of a dead stack frame

caller == <<pc, srv, noted, target>>
request == <<done, pthread>>
server == <<kc, work, at, thread>>
vars == <<caller, request, server, free, overtaken, crashed>>

TypeOK ==
    /\ pc \in [Caller -> {"idle", "testing", "sleep", "asleep", "killing", "signalling"}]
    /\ srv \in [Caller -> Server \cup {None}]
    /\ done \in [Caller -> BOOLEAN]
    /\ pthread \in [Caller -> Thread \cup {None}]
    /\ noted \in [Caller -> BOOLEAN]
    /\ target \in [Caller -> Thread \cup {None}]
    /\ free \in Seq(Server)
    /\ kc \in [Server -> Caller \cup {None}]
    /\ work \in [Server -> Caller \cup {None}]
    /\ at \in [Server -> {"absent", "waiting", "taken", "host", "blocked",
                          "interrupted", "answering", "done"}]
    /\ thread \in [Server -> Thread \cup {None}]
    /\ \A s \in Server : work[s] = None <=> at[s] \in {"absent", "waiting"}
    /\ overtaken \in [Caller -> BOOLEAN]
    /\ crashed \in BOOLEAN

Init ==
    /\ pc = [c \in Caller |-> "idle"]
    /\ srv = [c \in Caller |-> None]
    /\ done = [c \in Caller |-> FALSE]
    /\ pthread = [c \in Caller |-> None]
    /\ noted = [c \in Caller |-> FALSE]
    /\ target = [c \in Caller |-> None]
    /\ free = <<>>
    /\ kc = [s \in Server |-> None]
    /\ work = [s \in Server |-> None]
    /\ at = [s \in Server |-> "absent"]
    /\ thread = [s \in Server |-> None]
    /\ overtaken = [c \in Caller |-> FALSE]
    /\ crashed = FALSE

----------------------------------------------------------------------------
(* kcall: a zeroed request goes to the server freed last, ...                *)
Submit(c, s) ==
    /\ pc[c] = "idle"
    /\ pc' = [pc EXCEPT ![c] = "testing"]
    /\ srv' = [srv EXCEPT ![c] = s]
    /\ kc' = [kc EXCEPT ![s] = c]
    /\ UNCHANGED <<noted, target, request, work, thread, overtaken, crashed>>

CallServer(c) ==
    /\ free # <<>>
    /\ Submit(c, Head(free))
    /\ free' = Tail(free)
    /\ UNCHANGED at

(* ... or to a new one.                                                     *)
CallNewServer(c) ==
    /\ free = <<>>
    /\ \E s \in Server :
         /\ at[s] = "absent"
         /\ Submit(c, s)
         /\ at' = [at EXCEPT ![s] = "waiting"]
    /\ UNCHANGED free

(* while(!kc->done) sleep(...): the call is over, and the server goes back  *)
(* on the list; a note that is still pending is the next call's.  The slip  *)
(* forgets the server.                                                      *)
LeaveFrame(c) ==
    /\ pc' = [pc EXCEPT ![c] = "idle"]
    /\ srv' = [srv EXCEPT ![c] = None]
    /\ done' = [done EXCEPT ![c] = FALSE]
    /\ pthread' = [pthread EXCEPT ![c] = None]
    /\ noted' = [noted EXCEPT ![c] = FALSE]
    /\ overtaken' = [overtaken EXCEPT ![c] = FALSE]
    /\ UNCHANGED <<target, server, crashed>>

ReturnLosing(c) ==
    /\ pc[c] = "testing"
    /\ done[c]
    /\ LeaveFrame(c) /\ UNCHANGED free

Return(c) ==
    /\ pc[c] = "testing"
    /\ done[c]
    /\ free' = <<srv[c]>> \o free
    /\ LeaveFrame(c)

NotDone(c) ==
    /\ pc[c] = "testing"
    /\ ~done[c]
    /\ pc' = [pc EXCEPT ![c] = "sleep"]
    /\ UNCHANGED <<srv, noted, target, request, server, free, overtaken, crashed>>

(* ... sleep fails with a note that is pending, and kc->pthread is read     *)
(* for the thread to interrupt; ...                                         *)
SleepNoted(c) ==
    /\ pc[c] = "sleep"
    /\ noted[c]
    /\ noted' = [noted EXCEPT ![c] = FALSE]
    /\ target' = [target EXCEPT ![c] = pthread[c]]
    /\ pc' = [pc EXCEPT ![c] = "killing"]
    /\ UNCHANGED <<srv, request, server, free, overtaken, crashed>>

SleepCall(c) ==
    /\ pc[c] = "sleep"
    /\ ~noted[c]
    /\ pc' = [pc EXCEPT ![c] = IF done[c] THEN "testing" ELSE "asleep"]
    /\ UNCHANGED <<srv, noted, target, request, server, free, overtaken, crashed>>

(* ... which is to get a SIGUSR1, if the call is not done.  The slip does   *)
(* not look at kc->done.                                                    *)
ToSignal(c, if) ==
    /\ pc[c] = "killing"
    /\ pc' = [pc EXCEPT ![c] = IF if THEN "signalling" ELSE "testing"]
    /\ target' = [target EXCEPT ![c] = IF if THEN @ ELSE None]
    /\ UNCHANGED <<srv, noted, request, server, free, overtaken, crashed>>

TestNothing(c) == ToSignal(c, target[c] # None)
TestDone(c) == ToSignal(c, ~done[c] /\ target[c] # None)

(* By the time of pthread_kill the server may have done the call and its    *)
(* thread be another's.  The thread notices if it is in the host.           *)
Hit(t) == [s \in Server |-> IF at[s] = "host" /\ thread[s] = t
                            THEN "interrupted" ELSE at[s]]

Kill(c) ==
    /\ pc[c] = "signalling"
    /\ at' = Hit(target[c])
    /\ pc' = [pc EXCEPT ![c] = "testing"]
    /\ target' = [target EXCEPT ![c] = None]
    /\ UNCHANGED <<srv, noted, request, kc, work, thread, free, overtaken, crashed>>

(* postnote by another process. *)
Awake(c) == IF pc[c] = "asleep" THEN [pc EXCEPT ![c] = "sleep"] ELSE pc

Note(c) ==
    /\ pc[c] # "idle"
    /\ ~noted[c]
    /\ noted' = [noted EXCEPT ![c] = TRUE]
    /\ pc' = Awake(c)
    /\ UNCHANGED <<srv, target, request, server, free, overtaken, crashed>>

----------------------------------------------------------------------------
(* kserver.  A kproc that sleeps may go on in another thread.               *)
RunsOn(s, t) ==
    /\ \A q \in Server : thread[q] # t
    /\ thread' = [thread EXCEPT ![s] = t]

Take(s) ==
    /\ at[s] = "waiting"
    /\ kc[s] # None
    /\ work' = [work EXCEPT ![s] = kc[s]]
    /\ kc' = [kc EXCEPT ![s] = None]
    /\ at' = [at EXCEPT ![s] = "taken"]
    /\ \E t \in Thread : RunsOn(s, t)
    /\ UNCHANGED <<caller, request, free, overtaken, crashed>>

Announce(s) ==
    /\ at[s] = "taken"
    /\ pthread' = [pthread EXCEPT ![work[s]] = thread[s]]
    /\ at' = [at EXCEPT ![s] = "host"]
    /\ UNCHANGED <<caller, done, kc, work, thread, free, overtaken, crashed>>

(* The driver sleeps, or queues for one of its own locks, and goes on.      *)
Block(s) ==
    /\ at[s] = "host"
    /\ at' = [at EXCEPT ![s] = "blocked"]
    /\ thread' = [thread EXCEPT ![s] = None]
    /\ UNCHANGED <<caller, request, kc, work, free, overtaken, crashed>>

Unblock(s) ==
    /\ at[s] = "blocked"
    /\ at' = [at EXCEPT ![s] = "host"]
    /\ \E t \in Thread : RunsOn(s, t)
    /\ UNCHANGED <<caller, request, kc, work, free, overtaken, crashed>>

(* The device call returns, or leaves by error(), past the assignment to    *)
(* kc->pthread.                                                             *)
HostReturns(s) ==
    /\ at[s] = "host"
    /\ pthread' = [pthread EXCEPT ![work[s]] = None]
    /\ at' = [at EXCEPT ![s] = "answering"]
    /\ UNCHANGED <<caller, done, kc, work, thread, free, overtaken, crashed>>

HostFails(s) ==
    /\ at[s] \in {"host", "interrupted"}
    /\ at' = [at EXCEPT ![s] = "answering"]
    /\ UNCHANGED <<caller, request, kc, work, thread, free, overtaken, crashed>>

(* kc->done = 1; and, separately, wakeup(&kc->p->sleep).  By then the       *)
(* caller may have seen kc->done and left the frame kc is in.               *)
Done(s) ==
    /\ at[s] = "answering"
    /\ done' = [done EXCEPT ![work[s]] = TRUE]
    /\ overtaken' = [overtaken EXCEPT ![work[s]] = pc[work[s]] = "signalling"]
    /\ at' = [at EXCEPT ![s] = "done"]
    /\ UNCHANGED <<caller, pthread, kc, work, thread, free, crashed>>

FrameAlive(s) == srv[work[s]] = s /\ kc[s] = None

(* Slip: the caller is not woken.                                           *)
WakeNobody(s) ==
    /\ at[s] = "done"
    /\ at' = [at EXCEPT ![s] = "waiting"]
    /\ work' = [work EXCEPT ![s] = None]
    /\ thread' = [thread EXCEPT ![s] = None]
    /\ UNCHANGED <<caller, request, kc, free, overtaken, crashed>>

WakeCaller(s) ==
    /\ at[s] = "done"
    /\ pc' = Awake(work[s])
    /\ crashed' \in IF FrameAlive(s) THEN {FALSE} ELSE BOOLEAN
    /\ at' = [at EXCEPT ![s] = "waiting"]
    /\ work' = [work EXCEPT ![s] = None]
    /\ thread' = [thread EXCEPT ![s] = None]
    /\ UNCHANGED <<srv, noted, target, request, kc, free, overtaken>>

----------------------------------------------------------------------------
CallerStep(c) ==
    Return(c) \/ NotDone(c) \/ SleepNoted(c) \/ SleepCall(c) \/ TestDone(c) \/ Kill(c)

ServerStep(s) ==
    \/ Take(s) \/ Announce(s) \/ Unblock(s) \/ HostReturns(s) \/ HostFails(s)
    \/ Done(s) \/ WakeCaller(s)

Next ==
    /\ ~crashed
    /\ \/ \E c \in Caller :
            CallServer(c) \/ CallNewServer(c) \/ CallerStep(c) \/ Note(c)
       \/ \E s \in Server : ServerStep(s) \/ Block(s)

Spec == Init /\ [][Next]_vars

(* Every thread runs (there are as many as servers), and a call of the host *)
(* comes to an end; a driver that blocks is unblocked, and does not block   *)
(* again and again for ever in one call.                                    *)
Fairness ==
    /\ \A c \in Caller : WF_vars(~crashed /\ CallerStep(c))
    /\ \A s \in Server :
         /\ WF_vars(~crashed /\ ServerStep(s))
         /\ SF_vars(~crashed /\ (HostReturns(s) \/ HostFails(s)))

FairSpec == Spec /\ Fairness

----------------------------------------------------------------------------
(* Until a server says done, the caller waits: the server that works on a   *)
(* request is the only one to, and its caller has not gone, whatever notes  *)
(* it gets.  What the call returns is what its server has put there.        *)
Working == {"taken", "host", "blocked", "interrupted", "answering"}

CallerWaits == \A s \in Server :
    at[s] \in Working => srv[work[s]] = s /\ ~done[work[s]]

(* A server that has been made is on the list once or has one call, never   *)
(* both and never neither (the servers would be used up), and is handed no  *)
(* call while another one waits in s->kc.                                   *)
OneCallPerServer ==
    /\ TypeOK /\ CallerWaits
    /\ \A s \in Server :
          LET calls == {c \in Caller : srv[c] = s}
              places == {i \in 1..Len(free) : free[i] = s}
          IN  /\ Cardinality(calls) + Cardinality(places)
                   = IF at[s] = "absent" THEN 0 ELSE 1
              /\ kc[s] # None => srv[kc[s]] = s

(* What makes the two inductive: a caller has a server while it is in       *)
(* kcall, and its own one; ...                                              *)
CallerInv ==
    /\ \A c \in Caller :
         (srv[c] = None <=> pc[c] = "idle") /\ (done[c] => pc[c] # "idle")
    /\ \A c, d \in Caller : srv[c] = srv[d] /\ srv[c] # None => c = d

(* ... a request that is handed over or worked on is its server's and not   *)
(* done, and only one; ...                                                  *)
ServerAt(s) ==
    /\ at[s] \in Working => srv[work[s]] = s /\ ~done[work[s]] /\ kc[s] = None
    /\ kc[s] # None => srv[kc[s]] = s /\ ~done[kc[s]]
    /\ at[s] = "absent" => kc[s] = None

ServerInv == \A s \in Server : ServerAt(s)

(* ... and a server that has been made is on the list or has a call.        *)
HasCall(s) == \E c \in Caller : srv[c] = s

FreeAt(s) ==
    /\ ~(Contains(free, s) /\ HasCall(s))
    /\ Contains(free, s) \/ HasCall(s) <=> at[s] # "absent"

FreeInv == IsInjective(free) /\ \A s \in Server : FreeAt(s)

IInv == TypeOK /\ CallerInv /\ ServerInv /\ FreeInv

(* A note interrupts the host call of the process that got it.  Another one *)
(* may be hit in two cases only: the server still works on the call, but    *)
(* in another thread than kcall has read (its driver slept), or it has done *)
(* the call since kcall looked at kc->done, on its way to pthread_kill.  A  *)
(* call that had been done by then causes no signal.                        *)
Moved(c) == \E q \in Server :
    /\ at[q] \in {"host", "blocked", "interrupted", "answering"}
    /\ work[q] = c
    /\ thread[q] # target[c]

OwnInterrupt == \A s \in Server : at[s] = "host" /\ at'[s] = "interrupted" =>
    \E c \in Caller :
       /\ pc[c] = "signalling" /\ pc'[c] # "signalling"
       /\ work[s] = c \/ Moved(c) \/ overtaken[c]

NoStrayInterrupt == [][OwnInterrupt]_vars

(* It rests on this: a thread runs one server; ...                          *)
Running == {"taken", "host", "interrupted", "answering", "done"}

ThreadsApart == \A s, q \in Server : thread[s] = thread[q] /\ thread[s] # None => s = q

(* ... a server has a thread unless it sleeps, and has told it before it    *)
(* enters the host; ...                                                     *)
HostAt(s) ==
    /\ at[s] \in Running => thread[s] # None
    /\ at[s] \in {"host", "blocked", "interrupted"} => pthread[work[s]] # None

(* ... and while the call is not done, a thread that has been told is that  *)
(* of a server that works on it, or was when the call began.                *)
Told(c) ==
    /\ srv[c] # None /\ work[srv[c]] = c
    /\ at[srv[c]] \in {"host", "blocked", "interrupted", "answering"}

TargetAt(c) ==
    /\ target[c] # None => /\ pc[c] \in {"killing", "signalling"}
                           /\ pthread[c] \in {None, target[c]}
    /\ (target[c] # None \/ pthread[c] # None) /\ ~done[c] => Told(c)
    /\ pc[c] = "signalling" => /\ target[c] # None
                               /\ done[c] => overtaken[c]

InterruptInv ==
    /\ ThreadsApart
    /\ \A s \in Server : HostAt(s)
    /\ \A c \in Caller : TargetAt(c)

(* Calls return, if the host's do.                                          *)
CallsReturn == \A c \in Caller : pc[c] # "idle" ~> pc[c] = "idle" \/ crashed
==============================================================================
