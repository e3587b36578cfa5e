---------------------------- MODULE KprocDevProofs ----------------------------
(***************************************************************************)
(* KprocDev for any number of callers, servers and threads: the server     *)
(* that works on a call is the one its caller waits for, a server that has *)
(* been made is on the list of free ones or has one call, and a note       *)
(* interrupts another's call only if the server has changed threads or has *)
(* been quicker than kcall.                                                *)
(*                                                                         *)
(* IInv is about who is whose.  Kept covers the steps that change nothing  *)
(* of that; handing over a call, taking it, its end and the return from it *)
(* have a lemma each.  InterruptInv, on top of it, is about threads and    *)
(* who has been told of them; the second half does the same for it.        *)
(***************************************************************************)
EXTENDS KprocDev, QueueLemmas, FiniteSetTheorems

(* No call, no server, nothing done.                                        *)
LEMMA InitIInv == Init => IInv
<1> SUFFICES ASSUME Init PROVE IInv
  OBVIOUS
<1>1. <<>> \in Seq(Server) /\ \A s : ~Contains(<<>>, s)
  BY DEF Contains
<1>2. TypeOK
  BY <1>1 DEF Init, TypeOK
<1>3. CallerInv /\ ServerInv
  BY DEF Init, CallerInv, ServerInv, ServerAt, Working
<1>4. FreeInv
  <2>1. IsInjective(<<>>)
    BY DEF IsInjective
  <2> QED  BY <1>1, <2>1, KprocDevAssumption DEF Init, FreeInv, FreeAt, HasCall
<1> QED
  BY <1>2, <1>3, <1>4 DEF IInv

(* A step that hands over, takes or ends no call keeps who is whose.        *)
LEMMA Kept ==
    ASSUME IInv, TypeOK', UNCHANGED <<srv, done, free, kc>>,
           \A c \in Caller : pc'[c] = "idle" <=> pc[c] = "idle",
           \A s \in Server :
              /\ at'[s] \in Working <=> at[s] \in Working
              /\ at'[s] = "absent" <=> at[s] = "absent"
              /\ at[s] \in Working => work'[s] = work[s]
    PROVE  IInv'
<1>1. CallerInv'
  BY DEF IInv, CallerInv
<1>2. ASSUME NEW s \in Server PROVE ServerAt(s)' /\ FreeAt(s)'
  <2>1. ServerAt(s) /\ FreeAt(s)
    BY DEF IInv, ServerInv, FreeInv
  <2>2. ServerAt(s)'
    BY <2>1 DEF ServerAt
  <2>3. FreeAt(s)'
    BY <2>1 DEF FreeAt, HasCall
  <2> QED  BY <2>2, <2>3
<1>3. FreeInv'
  BY <1>2 DEF IInv, FreeInv
<1> QED
  BY <1>1, <1>2, <1>3 DEF IInv, ServerInv

(* A server that gets a call is the caller's from then on.                  *)
LEMMA SubmitKeeps ==
    ASSUME IInv, TypeOK', NEW c \in Caller, NEW s \in Server, Submit(c, s),
           ~HasCall(s), IsInjective(free'),
           \A q \in Server : Contains(free', q) <=> Contains(free, q) /\ q # s,
           \A q \in Server \ {s} : at'[q] = at[q],
           at'[s] # "absent", at'[s] \in Working <=> at[s] \in Working
    PROVE  IInv'
<1> USE KprocDevAssumption
<1>1. /\ srv[c] = None /\ ~done[c]
      /\ \A d \in Caller : srv'[d] = IF d = c THEN s ELSE srv[d]
      /\ \A d \in Caller : pc'[d] = IF d = c THEN "testing" ELSE pc[d]
      /\ \A q \in Server : kc'[q] = IF q = s THEN c ELSE kc[q]
      /\ done' = done /\ work' = work
  BY DEF Submit, request, IInv, TypeOK, CallerInv
<1>2. \A d \in Caller : srv[d] # s
  BY DEF HasCall
<1>3. CallerInv'
  BY <1>1, <1>2 DEF IInv, CallerInv
<1>4. ASSUME NEW q \in Server PROVE ServerAt(q)'
  <2>1. ServerAt(q) /\ work[q] \in Caller \cup {None} /\ kc[q] \in Caller \cup {None}
        /\ (at[q] \in Working => work[q] \in Caller)
    <3>1. TypeOK /\ ServerAt(q)
      BY DEF IInv, ServerInv
    <3> QED  BY <3>1 DEF TypeOK, Working
  <2>2. CASE q = s
    BY <1>1, <1>2, <2>1, <2>2 DEF ServerAt
  <2>3. CASE q # s
    BY <1>1, <1>2, <2>1, <2>3 DEF ServerAt
  <2> QED  BY <2>2, <2>3
<1>5. ASSUME NEW q \in Server PROVE FreeAt(q)'
  <2>1. FreeAt(q)
    BY DEF IInv, FreeInv
  <2>2. HasCall(q)' <=> HasCall(q) \/ q = s
    BY <1>1 DEF HasCall
  <2> QED  BY <2>1, <2>2 DEF FreeAt
<1> QED
  BY <1>3, <1>4, <1>5 DEF IInv, ServerInv, FreeInv

(* The server freed last is handed the call, ...                            *)
LEMMA CallServerKeeps ==
    ASSUME IInv, NEW c \in Caller, CallServer(c)
    PROVE  IInv'
<1> DEFINE s == Head(free)
<1>1. /\ free \in Seq(Server) /\ free # <<>> /\ IsInjective(free)
      /\ free' = Tail(free) /\ Submit(c, s) /\ at' = at
  BY DEF CallServer, IInv, TypeOK, FreeInv
<1>2. s \in Server /\ Tail(free) \in Seq(Server) /\ Contains(free, s)
  BY <1>1, ContainsHead
<1>3. IsInjective(free') /\ \A q : Contains(free', q) <=> Contains(free, q) /\ q # s
  BY <1>1, ContainsTail, InjectiveTail
<1>4. ~HasCall(s) /\ at[s] # "absent"
  BY <1>2 DEF IInv, FreeInv, FreeAt
<1>5. TypeOK'
  BY <1>1, <1>2 DEF Submit, request, IInv, TypeOK
<1> HIDE DEF s
<1> QED
  BY <1>1, <1>2, <1>3, <1>4, <1>5, SubmitKeeps

(* ... or a new one.                                                        *)
LEMMA CallNewServerKeeps ==
    ASSUME IInv, NEW c \in Caller, CallNewServer(c)
    PROVE  IInv'
<1>1. PICK s \in Server : /\ at[s] = "absent" /\ Submit(c, s)
                          /\ at' = [at EXCEPT ![s] = "waiting"] /\ free' = free
  BY DEF CallNewServer
<1>2. ~HasCall(s) /\ ~Contains(free, s)
  BY <1>1 DEF IInv, FreeInv, FreeAt
<1>3. TypeOK'
  BY <1>1 DEF Submit, request, IInv, TypeOK
<1>4. /\ at'[s] = "waiting" /\ \A q \in Server \ {s} : at'[q] = at[q]
  BY <1>1 DEF IInv, TypeOK
<1>5. \A q \in Server : Contains(free', q) <=> Contains(free, q) /\ q # s
  BY <1>1, <1>2
<1>6. IsInjective(free')
  BY <1>1 DEF IInv, FreeInv
<1> QED
  BY <1>1, <1>2, <1>3, <1>4, <1>5, <1>6, SubmitKeeps DEF Working

(* kcall returns: nobody works on its request any more, so that the server  *)
(* it puts on the list is free.                                             *)
LEMMA ReturnKeeps ==
    ASSUME IInv, NEW c \in Caller, Return(c)
    PROVE  IInv'
<1> USE KprocDevAssumption
<1> DEFINE s == srv[c]
<1>1. /\ done[c] /\ s \in Server /\ free' = <<s>> \o free
      /\ \A d \in Caller : srv'[d] = IF d = c THEN None ELSE srv[d]
      /\ \A d \in Caller : pc'[d] = IF d = c THEN "idle" ELSE pc[d]
      /\ \A d \in Caller : done'[d] = IF d = c THEN FALSE ELSE done[d]
      /\ UNCHANGED <<kc, work, at>>
  BY DEF Return, LeaveFrame, server, IInv, TypeOK, CallerInv
<1>2. HasCall(s)
  BY DEF HasCall
<1>3. free \in Seq(Server) /\ IsInjective(free) /\ ~Contains(free, s)
  BY <1>1, <1>2 DEF IInv, TypeOK, FreeInv, FreeAt
<1>4. /\ <<s>> \o free \in Seq(Server) /\ IsInjective(<<s>> \o free)
      /\ \A x : Contains(<<s>> \o free, x) <=> Contains(free, x) \/ x = s
  BY <1>1, <1>3, PushHead
<1>5. TypeOK'
  BY <1>1, <1>4 DEF Return, LeaveFrame, server, IInv, TypeOK
<1>6. CallerInv'
  <2>1. ASSUME NEW d \in Caller
        PROVE  (srv'[d] = None <=> pc'[d] = "idle") /\ (done'[d] => pc'[d] # "idle")
    <3>1. (srv[d] = None <=> pc[d] = "idle") /\ (done[d] => pc[d] # "idle")
      BY DEF IInv, CallerInv
    <3>2. CASE d = c
      BY <1>1, <3>2
    <3>3. CASE d # c
      BY <1>1, <3>1, <3>3
    <3> QED  BY <3>2, <3>3
  <2>2. ASSUME NEW d \in Caller, NEW e \in Caller, srv'[d] = srv'[e], srv'[d] # None
        PROVE  d = e
    <3>1. srv'[d] = srv[d] /\ srv'[e] = srv[e]
      BY <1>1, <2>2
    <3> QED  BY <2>2, <3>1 DEF IInv, CallerInv
  <2> QED  BY <2>1, <2>2 DEF CallerInv
<1>7. \A d \in Caller : srv[d] = s => d = c
  BY <1>1 DEF IInv, CallerInv
<1>8. ASSUME NEW q \in Server PROVE ServerAt(q)'
  <2>1. ServerAt(q) /\ kc[q] \in Caller \cup {None}
        /\ (at[q] \in Working => work[q] \in Caller)
    BY DEF IInv, ServerInv, TypeOK, Working
  <2> QED  BY <1>1, <2>1 DEF ServerAt
<1>9. ASSUME NEW q \in Server PROVE FreeAt(q)'
  <2>1. FreeAt(q)
    BY DEF IInv, FreeInv
  <2>2. HasCall(q)' <=> HasCall(q) /\ q # s
    BY <1>1, <1>7 DEF HasCall
  <2>3. Contains(free', q) <=> Contains(free, q) \/ q = s
    BY <1>1, <1>4
  <2> QED  BY <1>1, <1>2, <2>1, <2>2, <2>3 DEF FreeAt
<1>10. IsInjective(free')
  BY <1>1, <1>4
<1> QED
  BY <1>5, <1>6, <1>8, <1>9, <1>10 DEF IInv, ServerInv, FreeInv

(* kserver takes the request it has been handed.                            *)
LEMMA TakeKeeps ==
    ASSUME IInv, NEW s \in Server, Take(s)
    PROVE  IInv'
<1> USE KprocDevAssumption
<1>1. /\ at[s] = "waiting" /\ kc[s] \in Caller
      /\ \A q \in Server : work'[q] = IF q = s THEN kc[s] ELSE work[q]
      /\ \A q \in Server : kc'[q] = IF q = s THEN None ELSE kc[q]
      /\ \A q \in Server : at'[q] = IF q = s THEN "taken" ELSE at[q]
      /\ UNCHANGED <<pc, srv, done, free>>
  BY DEF Take, caller, request, IInv, TypeOK
<1>2. TypeOK'
  BY <1>1 DEF Take, RunsOn, caller, request, IInv, TypeOK
<1>3. CallerInv'
  BY <1>1 DEF IInv, CallerInv
<1>4. ASSUME NEW q \in Server PROVE ServerAt(q)' /\ FreeAt(q)'
  <2>1. ServerAt(q) /\ FreeAt(q)
    BY DEF IInv, ServerInv, FreeInv
  <2>2. ServerAt(q)'
    BY <1>1, <2>1 DEF ServerAt
  <2>3. FreeAt(q)'
    BY <1>1, <2>1 DEF FreeAt, HasCall
  <2> QED  BY <2>2, <2>3
<1>5. FreeInv'
  BY <1>1, <1>4 DEF IInv, FreeInv
<1> QED
  BY <1>2, <1>3, <1>4, <1>5 DEF IInv, ServerInv

(* kc->done is set by the server that worked on the request, and nobody     *)
(* else has that request.                                                   *)
LEMMA DoneKeeps ==
    ASSUME IInv, NEW s \in Server, Done(s)
    PROVE  IInv'
<1> USE KprocDevAssumption
<1> DEFINE c == work[s]
<1>1. at[s] = "answering" /\ c \in Caller
  BY DEF Done, IInv, TypeOK
<1>2. srv[c] = s /\ kc[s] = None
  BY <1>1 DEF IInv, ServerInv, ServerAt, Working
<1>3. /\ \A d \in Caller : done'[d] = IF d = c THEN TRUE ELSE done[d]
      /\ \A q \in Server : at'[q] = IF q = s THEN "done" ELSE at[q]
      /\ UNCHANGED <<pc, srv, kc, work, free>>
  BY <1>1 DEF Done, caller, IInv, TypeOK
<1>4. TypeOK'
  BY <1>1 DEF Done, caller, IInv, TypeOK
<1>5. CallerInv'
  BY <1>1, <1>2, <1>3 DEF IInv, CallerInv
<1>6. ASSUME NEW q \in Server PROVE ServerAt(q)' /\ FreeAt(q)'
  <2>1. ServerAt(q) /\ FreeAt(q) /\ kc[q] \in Caller \cup {None}
        /\ (at[q] \in Working => work[q] \in Caller)
    BY DEF IInv, ServerInv, FreeInv, TypeOK, Working
  <2>2. ServerAt(q)'
    <3>1. CASE q = s
      BY <1>2, <1>3, <3>1 DEF ServerAt, Working
    <3>2. CASE q # s
      BY <1>2, <1>3, <2>1, <3>2 DEF ServerAt
    <3> QED  BY <3>1, <3>2
  <2>3. FreeAt(q)'
    BY <1>3, <1>1, <2>1 DEF FreeAt, HasCall
  <2> QED  BY <2>2, <2>3
<1>7. FreeInv'
  BY <1>3, <1>6 DEF IInv, FreeInv
<1> QED
  BY <1>4, <1>5, <1>6, <1>7 DEF IInv, ServerInv

(* What a caller does while it waits, and what a note does to it, leaves    *)
(* its request alone.                                                       *)
LEMMA CallerStepKeeps ==
    ASSUME IInv, NEW c \in Caller,
           NotDone(c) \/ SleepNoted(c) \/ SleepCall(c) \/ TestDone(c) \/ Kill(c) \/ Note(c)
    PROVE  IInv'
<1> DEFINE NewPlace(d) == pc'[d] = "idle" <=> pc[d] = "idle"
<1>1. UNCHANGED <<srv, done, free, kc, work>>
  BY DEF NotDone, SleepNoted, SleepCall, TestDone, ToSignal, Kill, Note, request, server
<1>2. \A d \in Caller : NewPlace(d)
  BY DEF NotDone, SleepNoted, SleepCall, TestDone, ToSignal, Kill, Note, Awake, IInv,
     TypeOK
<1>3. \A s \in Server : at'[s] = at[s] \/ (at[s] = "host" /\ at'[s] = "interrupted")
  BY DEF NotDone, SleepNoted, SleepCall, TestDone, ToSignal, Kill, Note, Hit, server,
     IInv, TypeOK
<1>4. TypeOK'
  <2>1. CASE Kill(c)
    BY <2>1, <1>3 DEF Kill, Hit, request, IInv, TypeOK
  <2>2. CASE NotDone(c)
    BY <2>2 DEF NotDone, request, server, IInv, TypeOK
  <2>3. CASE SleepNoted(c)
    BY <2>3 DEF SleepNoted, request, server, IInv, TypeOK
  <2>4. CASE SleepCall(c)
    BY <2>4 DEF SleepCall, request, server, IInv, TypeOK
  <2>5. CASE Note(c)
    BY <2>5 DEF Note, Awake, request, server, IInv, TypeOK
  <2>6. CASE TestDone(c)
    BY <2>6 DEF TestDone, ToSignal, request, server, IInv, TypeOK
  <2> QED  BY <2>1, <2>2, <2>3, <2>4, <2>5, <2>6
<1> QED
  BY <1>1, <1>2, <1>3, <1>4, Kept DEF Working

(* Nor does the way of a server through the host.                           *)
LEMMA HostKeeps ==
    ASSUME IInv, NEW s \in Server,
           Announce(s) \/ Block(s) \/ Unblock(s) \/ HostReturns(s) \/ HostFails(s)
    PROVE  IInv'
<1>1. UNCHANGED <<pc, srv, done, free, kc, work>>
  BY DEF Announce, Block, Unblock, HostReturns, HostFails, caller, request
<1>2. at[s] \in Working /\ \E w \in Working : at' = [at EXCEPT ![s] = w]
  BY DEF Announce, Block, Unblock, HostReturns, HostFails, Working
<1>3. TypeOK'
  <2>1. work[s] \in Caller
    BY <1>2 DEF IInv, TypeOK, Working
  <2>2. CASE Announce(s) \/ HostReturns(s) \/ HostFails(s)
    BY <2>1, <2>2 DEF Announce, HostReturns, HostFails, caller, request, IInv, TypeOK
  <2>3. CASE Block(s)
    BY <2>1, <2>3 DEF Block, caller, request, IInv, TypeOK
  <2>4. CASE Unblock(s)
    BY <2>1, <2>4 DEF Unblock, RunsOn, caller, request, IInv, TypeOK
  <2> QED  BY <2>2, <2>3, <2>4
<1>4. \A q \in Server : at'[q] = at[q] \/ (at[q] \in Working /\ at'[q] \in Working)
  BY <1>2 DEF IInv, TypeOK
<1> QED
  BY <1>1, <1>3, <1>4, Kept DEF Working

(* Nor the wakeup, which comes when the request may be gone.                *)
LEMMA WakeCallerKeeps ==
    ASSUME IInv, NEW s \in Server, WakeCaller(s)
    PROVE  IInv'
<1>1. at[s] = "done" /\ work[s] \in Caller /\ UNCHANGED <<srv, done, free, kc>>
  BY DEF WakeCaller, request, IInv, TypeOK
<1>2. \A d \in Caller : pc'[d] = "idle" <=> pc[d] = "idle"
  BY <1>1 DEF WakeCaller, Awake, IInv, TypeOK
<1>3. \A q \in Server : /\ at'[q] = IF q = s THEN "waiting" ELSE at[q]
                        /\ q # s => work'[q] = work[q]
  BY DEF WakeCaller, IInv, TypeOK
<1>4. TypeOK'
  BY <1>1 DEF WakeCaller, Awake, request, IInv, TypeOK
<1> QED
  BY <1>1, <1>2, <1>3, <1>4, Kept DEF Working

(* Every step, and doing nothing, preserves the invariant.                  *)
LEMMA StepIInv == IInv /\ [Next]_vars => IInv'
<1> SUFFICES ASSUME IInv, [Next]_vars PROVE IInv'
  OBVIOUS
<1>1. ASSUME NEW c \in Caller,
             CallServer(c) \/ CallNewServer(c) \/ CallerStep(c) \/ Note(c)
      PROVE  IInv'
  BY <1>1, CallServerKeeps, CallNewServerKeeps, ReturnKeeps, CallerStepKeeps
  DEF CallerStep
<1>2. ASSUME NEW s \in Server, ServerStep(s) \/ Block(s) PROVE IInv'
  BY <1>2, TakeKeeps, HostKeeps, DoneKeeps, WakeCallerKeeps DEF ServerStep
<1>3. CASE UNCHANGED vars
  <2>1. UNCHANGED <<pc, srv, noted, target, done, pthread, free, kc, work, at, thread,
                    overtaken, crashed>>
    BY <1>3 DEF vars, caller, request, server
  <2>2. TypeOK'
    BY <2>1 DEF IInv, TypeOK
  <2> QED  BY <2>1, <2>2, Kept
<1> QED
  BY <1>1, <1>2, <1>3 DEF Next

(* At most one, and never both: so that the two numbers make one.           *)
LEMMA OneOrNone ==
    ASSUME NEW S, NEW T, \A x, y \in S : x = y, \A x, y \in T : x = y,
           S = {} \/ T = {}
    PROVE  Cardinality(S) + Cardinality(T) = IF S = {} /\ T = {} THEN 0 ELSE 1
<1>1. ASSUME NEW U, \A x, y \in U : x = y
      PROVE  Cardinality(U) = IF U = {} THEN 0 ELSE 1
  <2>1. CASE U = {}
    BY <2>1, FS_EmptySet
  <2>2. CASE U # {}
    <3>1. PICK x \in U : TRUE
      BY <2>2
    <3>2. U = {x}
      BY <1>1, <3>1
    <3> QED  BY <2>2, <3>2, FS_Singleton
  <2> QED  BY <2>1, <2>2
<1> QED
  BY <1>1

(* The invariant counts: a server is somebody's, or on the list once.       *)
LEMMA IInvOneCall == IInv => OneCallPerServer
<1> SUFFICES ASSUME IInv PROVE OneCallPerServer
  OBVIOUS
<1>1. CallerWaits
  BY DEF IInv, ServerInv, ServerAt, CallerWaits
<1>2. ASSUME NEW s \in Server PROVE kc[s] # None => srv[kc[s]] = s
  BY DEF IInv, ServerInv, ServerAt
<1>3. ASSUME NEW s \in Server
      PROVE  LET calls == {c \in Caller : srv[c] = s}
                 places == {i \in 1..Len(free) : free[i] = s}
             IN  Cardinality(calls) + Cardinality(places)
                    = IF at[s] = "absent" THEN 0 ELSE 1
  <2> DEFINE calls == {c \in Caller : srv[c] = s}
             places == {i \in 1..Len(free) : free[i] = s}
  <2>1. \A c, d \in calls : c = d
    BY KprocDevAssumption DEF IInv, CallerInv, TypeOK
  <2>2. \A i, j \in places : i = j
    <3>1. DOMAIN free = 1..Len(free) /\ IsInjective(free)
      BY DEF IInv, TypeOK, FreeInv
    <3> QED  BY <3>1 DEF IsInjective
  <2>3. /\ calls = {} <=> ~HasCall(s)
        /\ places = {} <=> ~Contains(free, s)
    BY DEF HasCall, Contains
  <2>4. FreeAt(s)
    BY DEF IInv, FreeInv
  <2> HIDE DEF calls, places
  <2>5. Cardinality(calls) + Cardinality(places)
           = IF calls = {} /\ places = {} THEN 0 ELSE 1
    BY <2>1, <2>2, <2>3, <2>4, OneOrNone DEF FreeAt
  <2>6. calls = {} /\ places = {} <=> at[s] = "absent"
    BY <2>3, <2>4 DEF FreeAt
  <2> QED
    BY <2>5, <2>6 DEF calls, places
<1> QED
  BY <1>1, <1>2, <1>3 DEF IInv, OneCallPerServer

(* For any number of processes, servers and threads: until a server says    *)
(* done its caller waits for it and for no other; a server is on the list   *)
(* once or has one call, never both and never neither; and it is handed no  *)
(* call while it has one (kcall and kserver share all this without a lock). *)
THEOREM KprocDevSafe == Spec => []OneCallPerServer
  BY InitIInv, StepIInv, IInvOneCall, PTL DEF Spec

----------------------------------------------------------------------------
(* No thread has been told of, and none runs a server, at first.            *)
LEMMA InitInterruptInv == Init => InterruptInv
  BY DEF Init, InterruptInv, ThreadsApart, HostAt, TargetAt, Running

(* What a step that moves no server and no thread, and sets no kc->pthread, *)
(* has to show: that the callers it concerns still are right.               *)
LEMMA HostKept ==
    ASSUME InterruptInv, UNCHANGED <<thread, pthread>>,
           \A s \in Server : at[s] # "absent" /\ at[s] # "waiting" =>
              work'[s] = work[s],
           \A s \in Server : \/ at'[s] = at[s]
                             \/ at[s] = "host" /\ at'[s] = "interrupted"
                             \/ at'[s] = "waiting"
    PROVE  ThreadsApart' /\ \A s \in Server : HostAt(s)'
<1>1. ThreadsApart'
  BY DEF InterruptInv, ThreadsApart
<1>2. ASSUME NEW s \in Server PROVE HostAt(s)'
  <2>1. HostAt(s)
    BY DEF InterruptInv
  <2> QED  BY <2>1 DEF HostAt, Running
<1> QED
  BY <1>1, <1>2

(* A caller that is not concerned: its own variables are as they were, and  *)
(* its server goes on with its request, if it did.                          *)
SameSignal(c) == \A p \in {"killing", "signalling"} : pc'[c] = p <=> pc[c] = p

LEMMA TargetKept ==
    ASSUME NEW c \in Caller, TargetAt(c), SameSignal(c),
           target'[c] = target[c], pthread'[c] = pthread[c],
           done'[c] <=> done[c], overtaken'[c] <=> overtaken[c],
           Told(c) /\ ~done[c] => Told(c)'
    PROVE  TargetAt(c)'
BY DEF TargetAt, SameSignal

(* A new call has nothing to interrupt yet.                                 *)
LEMMA SubmitInterrupt ==
    ASSUME IInv, InterruptInv, NEW c \in Caller, NEW s \in Server, Submit(c, s),
           ~HasCall(s),
           \A q \in Server : at'[q] = at[q] \/ (at[q] = "absent" /\ at'[q] = "waiting")
    PROVE  InterruptInv'
<1> USE KprocDevAssumption
<1>1. /\ pc[c] = "idle" /\ srv[c] = None /\ ~done[c]
      /\ \A d \in Caller : srv'[d] = IF d = c THEN s ELSE srv[d]
      /\ \A d \in Caller : pc'[d] = IF d = c THEN "testing" ELSE pc[d]
      /\ UNCHANGED <<target, done, pthread, work, thread, overtaken>>
  BY DEF Submit, request, IInv, TypeOK, CallerInv
<1>2. ThreadsApart' /\ \A q \in Server : HostAt(q)'
  BY <1>1, HostKept
<1>3. ASSUME NEW d \in Caller PROVE TargetAt(d)'
  <2>1. TargetAt(d)
    BY DEF InterruptInv
  <2>2. CASE d = c
    BY <1>1, <2>1, <2>2 DEF TargetAt, Told
  <2>3. CASE d # c
    <3>1. Told(d) => Told(d)'
      BY <1>1, <2>3 DEF Told, IInv, TypeOK
    <3> QED  BY <1>1, <2>1, <2>3, <3>1, TargetKept DEF SameSignal
  <2> QED  BY <2>2, <2>3
<1> QED
  BY <1>2, <1>3 DEF InterruptInv

(* A call that returns has been done, and no server is in the host for it.  *)
LEMMA ReturnInterrupt ==
    ASSUME IInv, InterruptInv, NEW c \in Caller, Return(c)
    PROVE  InterruptInv'
<1> USE KprocDevAssumption
<1>1. /\ pc[c] = "testing" /\ done[c]
      /\ \A d \in Caller : srv'[d] = IF d = c THEN None ELSE srv[d]
      /\ \A d \in Caller : pc'[d] = IF d = c THEN "idle" ELSE pc[d]
      /\ \A d \in Caller : done'[d] = IF d = c THEN FALSE ELSE done[d]
      /\ \A d \in Caller : pthread'[d] = IF d = c THEN None ELSE pthread[d]
      /\ \A d \in Caller : d # c => (overtaken'[d] <=> overtaken[d])
      /\ UNCHANGED <<target, at, work, thread>>
  BY DEF Return, LeaveFrame, server, IInv, TypeOK
<1>2. ThreadsApart'
  BY <1>1 DEF InterruptInv, ThreadsApart
<1>3. ASSUME NEW s \in Server PROVE HostAt(s)'
  <2>1. HostAt(s)
    BY DEF InterruptInv
  <2>2. at[s] \in {"host", "blocked", "interrupted"} =>
           work[s] \in Caller /\ ~done[work[s]]
    BY DEF IInv, ServerInv, ServerAt, Working, TypeOK
  <2>3. at[s] \in {"host", "blocked", "interrupted"} =>
           pthread'[work[s]] = pthread[work[s]]
    BY <1>1, <2>2
  <2> QED  BY <1>1, <2>1, <2>3 DEF HostAt
<1>4. ASSUME NEW d \in Caller PROVE TargetAt(d)'
  <2>1. TargetAt(d)
    BY DEF InterruptInv
  <2>2. CASE d = c
    BY <1>1, <2>1, <2>2 DEF TargetAt
  <2>3. CASE d # c
    <3>1. Told(d) => Told(d)'
      BY <1>1, <2>3 DEF Told
    <3>2. /\ target'[d] = target[d] /\ pthread'[d] = pthread[d]
          /\ SameSignal(d)
      BY <1>1, <2>3 DEF SameSignal
    <3>3. (done'[d] <=> done[d]) /\ (overtaken'[d] <=> overtaken[d])
      BY <1>1, <2>3
    <3> QED  BY <2>1, <3>1, <3>2, <3>3, TargetKept
  <2> QED  BY <2>2, <2>3
<1> QED
  BY <1>2, <1>3, <1>4 DEF InterruptInv

(* What a caller does while it waits: only reading kc->pthread gives it a   *)
(* thread to interrupt, and interrupting leaves a server at its request.    *)
LEMMA CallerStepInterrupt ==
    ASSUME IInv, InterruptInv, NEW c \in Caller,
           NotDone(c) \/ SleepNoted(c) \/ SleepCall(c) \/ TestDone(c) \/ Kill(c) \/ Note(c)
    PROVE  InterruptInv'
<1> USE KprocDevAssumption
<1>1. UNCHANGED <<srv, done, pthread, work, thread, overtaken>>
  BY DEF NotDone, SleepNoted, SleepCall, TestDone, ToSignal, Kill, Note, request, server
<1>2. \A s \in Server : at'[s] = at[s] \/ (at[s] = "host" /\ at'[s] = "interrupted")
  BY DEF NotDone, SleepNoted, SleepCall, TestDone, ToSignal, Kill, Note, Hit, server,
     IInv, TypeOK
<1>3. ThreadsApart' /\ \A s \in Server : HostAt(s)'
  BY <1>1, <1>2, HostKept
<1>4. ASSUME NEW d \in Caller PROVE TargetAt(d)'
  <2>1. TargetAt(d)
    BY DEF InterruptInv
  <2>2. Told(d) => Told(d)'
    BY <1>1, <1>2 DEF Told, IInv, TypeOK
  <2>3. CASE SleepNoted(c) /\ d = c
    <3>1. pc'[d] = "killing" /\ target'[d] = pthread[d]
      BY <2>3 DEF SleepNoted, IInv, TypeOK
    <3> QED  BY <1>1, <2>1, <2>2, <3>1 DEF TargetAt
  <2>4. CASE Kill(c) /\ d = c
    <3>1. pc'[d] = "testing" /\ target'[d] = None
      BY <2>4 DEF Kill, IInv, TypeOK
    <3> QED  BY <1>1, <2>1, <2>2, <3>1 DEF TargetAt
  <2>5. CASE TestDone(c) /\ d = c
    <3>1. \/ pc'[d] = "signalling" /\ target'[d] = target[d] /\ target[d] # None /\ ~done[d]
          \/ pc'[d] = "testing" /\ target'[d] = None
      BY <2>5 DEF TestDone, ToSignal, IInv, TypeOK
    <3> QED  BY <1>1, <2>1, <2>2, <3>1 DEF TargetAt
  <2>6. CASE NotDone(c) \/ SleepCall(c) \/ Note(c) \/ d # c
    <3>1. target'[d] = target[d] /\ SameSignal(d)
      BY <2>6 DEF NotDone, SleepNoted, SleepCall, TestDone, ToSignal, Kill, Note, Awake,
         SameSignal, IInv, TypeOK
    <3> QED  BY <1>1, <2>1, <2>2, <3>1, TargetKept
  <2> QED  BY <2>3, <2>4, <2>5, <2>6
<1> QED
  BY <1>3, <1>4 DEF InterruptInv

(* The thread a server goes on in was nobody's.                             *)
LEMMA RunsOnApart ==
    ASSUME TypeOK, ThreadsApart, NEW s \in Server, NEW t \in Thread, RunsOn(s, t)
    PROVE  /\ ThreadsApart'
           /\ \A q \in Server : thread'[q] = IF q = s THEN t ELSE thread[q]
<1>1. \A q \in Server : thread'[q] = IF q = s THEN t ELSE thread[q]
  BY DEF RunsOn, TypeOK
<1> QED
  BY <1>1 DEF RunsOn, ThreadsApart

(* A server that sleeps has no thread.                                      *)
LEMMA NoThreadApart ==
    ASSUME TypeOK, ThreadsApart, NEW s \in Server, thread' = [thread EXCEPT ![s] = None]
    PROVE  /\ ThreadsApart'
           /\ \A q \in Server : thread'[q] = IF q = s THEN None ELSE thread[q]
<1>1. \A q \in Server : thread'[q] = IF q = s THEN None ELSE thread[q]
  BY DEF TypeOK
<1> QED
  BY <1>1 DEF ThreadsApart

(* What remains to be shown of a step of server s that changes no request:  *)
(* the host part for s, and that s leaves no request it has told of.        *)
LEMMA ServerStepInterrupt ==
    ASSUME IInv, InterruptInv, NEW s \in Server, ThreadsApart', HostAt(s)',
           UNCHANGED <<pc, srv, target, done, pthread, overtaken>>,
           \A q \in Server \ {s} :
              thread'[q] = thread[q] /\ at'[q] = at[q] /\ work'[q] = work[q],
           \A c \in Caller : srv[c] = s /\ Told(c) => Told(c)'
    PROVE  InterruptInv'
<1>1. ASSUME NEW q \in Server PROVE HostAt(q)'
  <2>1. HostAt(q)
    BY DEF InterruptInv
  <2>2. CASE q # s
    BY <2>1, <2>2 DEF HostAt
  <2> QED  BY <2>2
<1>2. ASSUME NEW c \in Caller PROVE TargetAt(c)'
  <2>1. TargetAt(c) /\ srv[c] \in Server \cup {None}
    BY DEF InterruptInv, IInv, TypeOK
  <2>2. Told(c) => Told(c)'
    BY <2>1 DEF Told
  <2> QED  BY <2>1, <2>2, TargetKept DEF SameSignal
<1> QED
  BY <1>1, <1>2 DEF InterruptInv

(* A server that takes a call has a thread that was nobody's, and tells of it*)
(* only later.                                                              *)
LEMMA TakeInterrupt ==
    ASSUME IInv, InterruptInv, NEW s \in Server, Take(s)
    PROVE  InterruptInv'
<1> USE KprocDevAssumption
<1>1. /\ at[s] = "waiting" /\ at'[s] = "taken"
      /\ \A q \in Server \ {s} : at'[q] = at[q] /\ work'[q] = work[q]
      /\ UNCHANGED <<pc, srv, target, done, pthread, overtaken>>
  BY DEF Take, caller, request, IInv, TypeOK
<1>2. PICK t \in Thread : RunsOn(s, t)
  BY DEF Take
<1>3. ThreadsApart' /\ \A q \in Server : thread'[q] = IF q = s THEN t ELSE thread[q]
  BY <1>2, RunsOnApart DEF IInv, InterruptInv
<1>4. HostAt(s)'
  BY <1>1, <1>3 DEF HostAt
<1>5. \A c \in Caller : srv[c] = s => ~Told(c)
  BY <1>1 DEF Told
<1> QED
  BY <1>1, <1>3, <1>4, <1>5, ServerStepInterrupt

(* A server whose driver sleeps still works on its request, ...             *)
LEMMA BlockInterrupt ==
    ASSUME IInv, InterruptInv, NEW s \in Server, Block(s)
    PROVE  InterruptInv'
<1> USE KprocDevAssumption
<1>1. /\ at[s] = "host" /\ at'[s] = "blocked" /\ work' = work
      /\ \A q \in Server \ {s} : at'[q] = at[q]
      /\ UNCHANGED <<pc, srv, target, done, pthread, overtaken>>
  BY DEF Block, caller, request, IInv, TypeOK
<1>2. ThreadsApart' /\ \A q \in Server : thread'[q] = IF q = s THEN None ELSE thread[q]
  BY NoThreadApart DEF Block, IInv, InterruptInv
<1>3. HostAt(s)'
  BY <1>1 DEF HostAt, InterruptInv, Running
<1>4. \A c \in Caller : srv[c] = s /\ Told(c) => Told(c)'
  BY <1>1 DEF Told
<1> QED
  BY <1>1, <1>2, <1>3, <1>4, ServerStepInterrupt

(* ... and goes on with it in some thread.                                  *)
LEMMA UnblockInterrupt ==
    ASSUME IInv, InterruptInv, NEW s \in Server, Unblock(s)
    PROVE  InterruptInv'
<1> USE KprocDevAssumption
<1>1. /\ at[s] = "blocked" /\ at'[s] = "host" /\ work' = work
      /\ \A q \in Server \ {s} : at'[q] = at[q]
      /\ UNCHANGED <<pc, srv, target, done, pthread, overtaken>>
  BY DEF Unblock, caller, request, IInv, TypeOK
<1>2. PICK t \in Thread : RunsOn(s, t)
  BY DEF Unblock
<1>3. ThreadsApart' /\ \A q \in Server : thread'[q] = IF q = s THEN t ELSE thread[q]
  BY <1>2, RunsOnApart DEF IInv, InterruptInv
<1>4. HostAt(s)'
  BY <1>1, <1>3 DEF HostAt, InterruptInv
<1>5. \A c \in Caller : srv[c] = s /\ Told(c) => Told(c)'
  BY <1>1 DEF Told
<1> QED
  BY <1>1, <1>3, <1>4, <1>5, ServerStepInterrupt

(* A call that is interrupted, or fails, leaves kc->pthread as it is.       *)
LEMMA HostFailsInterrupt ==
    ASSUME IInv, InterruptInv, NEW s \in Server, HostFails(s)
    PROVE  InterruptInv'
<1>1. /\ at[s] \in {"host", "interrupted"} /\ at'[s] = "answering" /\ work' = work
      /\ \A q \in Server \ {s} : at'[q] = at[q]
      /\ UNCHANGED <<pc, srv, target, done, pthread, thread, overtaken>>
  BY DEF HostFails, caller, request, IInv, TypeOK
<1>2. ThreadsApart'
  BY <1>1 DEF InterruptInv, ThreadsApart
<1>3. HostAt(s)'
  BY <1>1 DEF HostAt, InterruptInv, Running
<1>4. \A c \in Caller : srv[c] = s /\ Told(c) => Told(c)'
  BY <1>1 DEF Told
<1> QED
  BY <1>1, <1>2, <1>3, <1>4, ServerStepInterrupt

(* A server that has said done has told nobody else of its thread.          *)
LEMMA WakeCallerInterrupt ==
    ASSUME IInv, InterruptInv, NEW s \in Server, WakeCaller(s)
    PROVE  InterruptInv'
<1> USE KprocDevAssumption
<1>1. /\ at[s] = "done" /\ at'[s] = "waiting"
      /\ \A q \in Server \ {s} : at'[q] = at[q] /\ work'[q] = work[q]
      /\ UNCHANGED <<srv, target, done, pthread, overtaken>>
  BY DEF WakeCaller, request, IInv, TypeOK
<1>2. \A c \in Caller : SameSignal(c)
  BY DEF WakeCaller, Awake, SameSignal, IInv, TypeOK
<1>3. ThreadsApart' /\ \A q \in Server : thread'[q] = IF q = s THEN None ELSE thread[q]
  BY NoThreadApart DEF WakeCaller, IInv, InterruptInv
<1>4. ASSUME NEW q \in Server PROVE HostAt(q)'
  <2>1. HostAt(q)
    BY DEF InterruptInv
  <2> QED  BY <1>1, <1>3, <2>1 DEF HostAt, Running
<1>5. ASSUME NEW c \in Caller PROVE TargetAt(c)'
  <2>1. TargetAt(c) /\ srv[c] \in Server \cup {None}
    BY DEF InterruptInv, IInv, TypeOK
  <2>2. Told(c) => Told(c)'
    BY <1>1, <2>1 DEF Told
  <2> QED  BY <1>1, <1>2, <2>1, <2>2, TargetKept
<1> QED
  BY <1>3, <1>4, <1>5 DEF InterruptInv

(* The request a server tells of its thread is its own, and nobody has been *)
(* told before.                                                             *)
LEMMA AnnounceInterrupt ==
    ASSUME IInv, InterruptInv, NEW s \in Server, Announce(s)
    PROVE  InterruptInv'
<1> USE KprocDevAssumption
<1>1. at[s] = "taken" /\ work[s] \in Caller /\ at'[s] = "host"
  BY DEF Announce, IInv, TypeOK
<1>2. srv[work[s]] = s /\ ~done[work[s]]
  BY <1>1 DEF IInv, ServerInv, ServerAt, Working
<1>3. /\ \A c \in Caller : pthread'[c] = IF c = work[s] THEN thread[s] ELSE pthread[c]
      /\ \A q \in Server : at'[q] = IF q = s THEN "host" ELSE at[q]
      /\ UNCHANGED <<pc, srv, target, done, thread, work, overtaken>>
  BY DEF Announce, caller, IInv, TypeOK
<1>4. thread[s] # None
  BY <1>1 DEF InterruptInv, HostAt, Running
<1>5. ThreadsApart'
  BY <1>3 DEF InterruptInv, ThreadsApart
<1>6. ASSUME NEW q \in Server PROVE HostAt(q)'
  <2>1. HostAt(q)
    BY DEF InterruptInv
  <2>2. at[q] \in {"host", "blocked", "interrupted"} => work[q] \in Caller
    BY DEF IInv, TypeOK
  <2>3. CASE q = s
    BY <1>1, <1>3, <1>4, <2>3 DEF HostAt
  <2>4. CASE q # s
    BY <1>3, <1>4, <2>1, <2>2, <2>4 DEF HostAt
  <2> QED  BY <2>3, <2>4
<1>7. ASSUME NEW c \in Caller PROVE TargetAt(c)'
  <2>1. TargetAt(c) /\ srv[c] \in Server \cup {None}
    BY DEF InterruptInv, IInv, TypeOK
  <2>2. CASE c = work[s]
    <3>1. ~Told(c)
      BY <1>1, <1>2, <2>2 DEF Told
    <3>2. target[c] = None /\ pc[c] # "signalling"
      BY <1>2, <2>1, <2>2, <3>1 DEF TargetAt
    <3>3. Told(c)'
      BY <1>1, <1>2, <1>3, <2>2 DEF Told
    <3> QED  BY <1>3, <3>2, <3>3 DEF TargetAt
  <2>3. CASE c # work[s]
    <3>1. Told(c) => Told(c)'
      BY <1>1, <1>3, <2>1 DEF Told
    <3> QED  BY <1>3, <2>1, <2>3, <3>1, TargetKept DEF SameSignal
  <2> QED  BY <2>2, <2>3
<1> QED
  BY <1>5, <1>6, <1>7 DEF InterruptInv

(* It is taken back after the call.                                         *)
LEMMA HostReturnsInterrupt ==
    ASSUME IInv, InterruptInv, NEW s \in Server, HostReturns(s)
    PROVE  InterruptInv'
<1> USE KprocDevAssumption
<1>1. at[s] = "host" /\ work[s] \in Caller /\ at'[s] = "answering"
  BY DEF HostReturns, IInv, TypeOK
<1>2. srv[work[s]] = s /\ ~done[work[s]]
  BY <1>1 DEF IInv, ServerInv, ServerAt, Working
<1>3. /\ \A c \in Caller : pthread'[c] = IF c = work[s] THEN None ELSE pthread[c]
      /\ \A q \in Server : at'[q] = IF q = s THEN "answering" ELSE at[q]
      /\ UNCHANGED <<pc, srv, target, done, thread, work, overtaken>>
  BY DEF HostReturns, caller, IInv, TypeOK
<1>4. ThreadsApart'
  BY <1>3 DEF InterruptInv, ThreadsApart
<1>5. ASSUME NEW q \in Server PROVE HostAt(q)'
  <2>1. HostAt(q)
    BY DEF InterruptInv
  <2>2. at[q] \in {"host", "blocked", "interrupted"} =>
           work[q] \in Caller /\ srv[work[q]] = q
    BY DEF IInv, TypeOK, ServerInv, ServerAt, Working
  <2>3. CASE q = s
    BY <1>1, <1>3, <2>1, <2>3 DEF HostAt, Running
  <2>4. CASE q # s
    BY <1>2, <1>3, <2>1, <2>2, <2>4 DEF HostAt
  <2> QED  BY <2>3, <2>4
<1>6. ASSUME NEW c \in Caller PROVE TargetAt(c)'
  <2>1. TargetAt(c) /\ srv[c] \in Server \cup {None}
    BY DEF InterruptInv, IInv, TypeOK
  <2>2. Told(c) => Told(c)'
    BY <1>1, <1>3, <2>1 DEF Told
  <2> QED  BY <1>3, <2>1, <2>2 DEF TargetAt
<1> QED
  BY <1>4, <1>5, <1>6 DEF InterruptInv

(* After kc->done nothing is claimed of its caller, but that it has been    *)
(* overtaken if it is on its way to pthread_kill.                           *)
LEMMA DoneInterrupt ==
    ASSUME IInv, InterruptInv, NEW s \in Server, Done(s)
    PROVE  InterruptInv'
<1> USE KprocDevAssumption
<1>1. at[s] = "answering" /\ work[s] \in Caller /\ at'[s] = "done"
  BY DEF Done, IInv, TypeOK
<1>2. srv[work[s]] = s
  BY <1>1 DEF IInv, ServerInv, ServerAt, Working
<1>3. /\ \A c \in Caller : done'[c] = IF c = work[s] THEN TRUE ELSE done[c]
      /\ \A q \in Server : at'[q] = IF q = s THEN "done" ELSE at[q]
      /\ \A c \in Caller : c # work[s] => (overtaken'[c] <=> overtaken[c])
      /\ pc[work[s]] = "signalling" => overtaken'[work[s]]
      /\ UNCHANGED <<pc, srv, target, pthread, thread, work>>
  BY DEF Done, caller, IInv, TypeOK
<1>4. ThreadsApart'
  BY <1>3 DEF InterruptInv, ThreadsApart
<1>5. ASSUME NEW q \in Server PROVE HostAt(q)'
  <2>1. HostAt(q)
    BY DEF InterruptInv
  <2> QED  BY <1>1, <1>3, <2>1 DEF HostAt, Running
<1>6. ASSUME NEW c \in Caller PROVE TargetAt(c)'
  <2>1. TargetAt(c) /\ srv[c] \in Server \cup {None}
    BY DEF InterruptInv, IInv, TypeOK
  <2>2. CASE c = work[s]
    BY <1>3, <2>1, <2>2 DEF TargetAt
  <2>3. CASE c # work[s]
    <3>1. Told(c) => Told(c)'
      BY <1>3, <2>1, <2>3 DEF Told
    <3>2. (done'[c] <=> done[c]) /\ (overtaken'[c] <=> overtaken[c])
      BY <1>3, <2>3
    <3> QED  BY <1>3, <2>1, <3>1, <3>2, TargetKept DEF SameSignal
  <2> QED  BY <2>2, <2>3
<1> QED
  BY <1>4, <1>5, <1>6 DEF InterruptInv

(* Every step, and doing nothing, preserves what interrupts rest on.        *)
LEMMA StepInterruptInv == IInv /\ InterruptInv /\ [Next]_vars => InterruptInv'
<1> SUFFICES ASSUME IInv, InterruptInv, [Next]_vars PROVE InterruptInv'
  OBVIOUS
<1>1. ASSUME NEW c \in Caller, CallServer(c) PROVE InterruptInv'
  <2>1. free # <<>> /\ Submit(c, Head(free)) /\ at' = at
    BY <1>1 DEF CallServer
  <2>2. PICK s \in Server : s = Head(free) /\ Contains(free, s)
    BY <2>1, ContainsHead DEF IInv, TypeOK
  <2>3. ~HasCall(s)
    BY <2>2 DEF IInv, FreeInv, FreeAt
  <2>4. Submit(c, s)
    BY <2>1, <2>2
  <2> QED  BY <2>1, <2>3, <2>4, SubmitInterrupt
<1>2. ASSUME NEW c \in Caller, CallNewServer(c) PROVE InterruptInv'
  <2>1. PICK s \in Server : /\ at[s] = "absent" /\ Submit(c, s)
                            /\ at' = [at EXCEPT ![s] = "waiting"]
    BY <1>2 DEF CallNewServer
  <2>2. ~HasCall(s)
    BY <2>1 DEF IInv, FreeInv, FreeAt
  <2>3. \A q \in Server : at'[q] = at[q] \/ (at[q] = "absent" /\ at'[q] = "waiting")
    BY <2>1 DEF IInv, TypeOK
  <2> QED  BY <2>1, <2>2, <2>3, SubmitInterrupt
<1>3. ASSUME NEW c \in Caller, CallerStep(c) \/ Note(c) PROVE InterruptInv'
  BY <1>3, ReturnInterrupt, CallerStepInterrupt DEF CallerStep
<1>4. ASSUME NEW s \in Server, ServerStep(s) \/ Block(s) PROVE InterruptInv'
  BY <1>4, TakeInterrupt, AnnounceInterrupt, BlockInterrupt, UnblockInterrupt,
     HostReturnsInterrupt, HostFailsInterrupt, DoneInterrupt, WakeCallerInterrupt
  DEF ServerStep
<1>5. CASE UNCHANGED vars
  <2>1. UNCHANGED <<pc, srv, target, done, pthread, work, at, thread, overtaken>>
    BY <1>5 DEF vars, caller, request, server
  <2> QED
    BY <2>1 DEF InterruptInv, ThreadsApart, HostAt, TargetAt, Told
<1> QED
  BY <1>1, <1>2, <1>3, <1>4, <1>5 DEF Next

(* Only a caller's kill interrupts.                                         *)
LEMMA OnlyKillInterrupts ==
    ASSUME IInv, Next, NEW s \in Server, at[s] = "host", at'[s] = "interrupted"
    PROVE  \E c \in Caller : Kill(c)
<1>1. ASSUME NEW c \in Caller, CallServer(c) \/ CallNewServer(c) \/ Note(c) PROVE FALSE
  BY <1>1 DEF CallServer, CallNewServer, Note, server, IInv, TypeOK
<1>2. ASSUME NEW c \in Caller, CallerStep(c) PROVE Kill(c)
  BY <1>2 DEF CallerStep, Return, LeaveFrame, NotDone, SleepNoted, SleepCall, TestDone,
     ToSignal, server
<1>3. ASSUME NEW q \in Server, ServerStep(q) \/ Block(q) PROVE FALSE
  BY <1>3 DEF ServerStep, Take, Announce, Block, Unblock, HostReturns, HostFails, Done,
     WakeCaller, IInv, TypeOK
<1> QED
  BY <1>1, <1>2, <1>3 DEF Next

(* The server that is hit has the thread its killer was told of: unless the *)
(* killer has been overtaken, its own server is at its call, and is the one *)
(* that is hit or has gone on in another thread.                            *)
LEMMA StepOwnInterrupt == IInv /\ InterruptInv /\ [Next]_vars => [OwnInterrupt]_vars
<1> SUFFICES ASSUME IInv, InterruptInv, Next, NEW s \in Server,
                    at[s] = "host", at'[s] = "interrupted"
             PROVE  \E c \in Caller :
                       /\ pc[c] = "signalling" /\ pc'[c] # "signalling"
                       /\ work[s] = c \/ Moved(c) \/ overtaken[c]
  BY DEF OwnInterrupt
<1>1. PICK c \in Caller : Kill(c)
  BY OnlyKillInterrupts
<1>2. pc[c] = "signalling" /\ pc'[c] = "testing" /\ thread[s] = target[c]
  BY <1>1 DEF Kill, Hit, IInv, TypeOK
<1>3. TargetAt(c)
  BY DEF InterruptInv
<1>4. CASE done[c]
  BY <1>2, <1>3, <1>4 DEF TargetAt
<1>5. CASE ~done[c]
  <2> DEFINE q == srv[c]
  <2>1. /\ q \in Server /\ work[q] = c
        /\ at[q] \in {"host", "blocked", "interrupted", "answering"}
    BY <1>2, <1>3, <1>5 DEF TargetAt, Told, IInv, TypeOK
  <2>2. thread[s] # None
    BY <1>2, <1>3 DEF TargetAt
  <2>3. thread[s] = thread[q] => s = q
    BY <2>1, <2>2 DEF InterruptInv, ThreadsApart
  <2> HIDE DEF q
  <2>4. CASE q = s
    BY <1>2, <2>1, <2>4
  <2>5. CASE q # s
    <3>1. Moved(c)
      BY <1>2, <2>1, <2>3, <2>5 DEF Moved
    <3> QED  BY <1>2, <3>1
  <2> QED  BY <2>4, <2>5
<1> QED
  BY <1>4, <1>5

(* For any number of processes, servers and threads: a host call that is    *)
(* interrupted is that of a process kcall signals for, unless the server of *)
(* that process has gone on in another thread, or has done the call between *)
(* the test of kc->done and pthread_kill: then another's call may be hit.   *)
THEOREM KprocDevInterrupts == Spec => NoStrayInterrupt
  BY InitIInv, StepIInv, InitInterruptInv, StepInterruptInv, StepOwnInterrupt, PTL
  DEF Spec, NoStrayInterrupt
==============================================================================
