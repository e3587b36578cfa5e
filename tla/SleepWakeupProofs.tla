-------------------------- MODULE SleepWakeupProofs --------------------------
(***************************************************************************)
(* That the links between sleepers and Rendezes are right and the two      *)
(* panics unreachable, for any number of processes, threads and Rendezes;  *)
(* and that semaphores, which are built from a list and sleep and wakeup,  *)
(* count and lose no wakeup, for any finite number of processes.           *)
(*                                                                         *)
(* IInv says of every process and thread where it may be, that the places  *)
(* decide who has which lock (RLockInv, PLockInv) and what the links and   *)
(* the state of a sleeper are (LinkInv, StateInv), and what a waker may    *)
(* still rely on of what it has read (WakerInv).  A step moves one actor:  *)
(* the first lemmas say what that leaves as it was, the middle ones what   *)
(* the holder of both locks finds, and the rest go through the steps.      *)
(*                                                                         *)
(* SemIInv, of Semaphores, compares what there is to acquire with what is  *)
(* on its way.  SemStepKeeps says what a step must not do; the lemmas      *)
(* after it show this of one action after the other, by counting what      *)
(* enters and leaves the three sets that Coming counts.                    *)
(***************************************************************************)
EXTENDS SleepWakeup, Semaphores, QueueLemmas, FiniteSetTheorems, TLAPS

(* A step of b moves nobody else.                                           *)
OthersStay(b) == \A a \in Actor \ {b} :
    /\ pc'[a] = pc[a] /\ on'[a] = on[a]
    /\ a \in Thread => whom'[a] = whom[a]

(* What a step of b does to the holders of the Rendez locks: nothing, if it *)
(* neither takes nor gives up one.                                          *)
LEMMA RLockKept ==
    ASSUME RLockInv, NEW b \in Actor, OthersStay(b), rlk' = rlk,
           pc'[b] \in WithR <=> pc[b] \in WithR,
           pc[b] \in WithR => on'[b] = on[b]
    PROVE  RLockInv'
<1> SUFFICES ASSUME NEW a \in Actor, NEW r \in Rendez
             PROVE  rlk'[r] = a <=> pc'[a] \in WithR /\ on'[a] = r
  BY DEF RLockInv, WithR
<1>1. rlk[r] = a <=> pc[a] \in WithR /\ on[a] = r
  BY DEF RLockInv
<1> QED  BY <1>1 DEF OthersStay

(* A free r->lk taken by b, which had none.                                 *)
LEMMA RLockTaken ==
    ASSUME IInv, NEW b \in Actor, OthersStay(b), NEW r \in Rendez,
           rlk[r] = None, rlk' = [rlk EXCEPT ![r] = b],
           pc[b] \notin WithR, pc'[b] \in WithR, on'[b] = r
    PROVE  RLockInv'
<1> USE SleepWakeupAssumption DEF Actor
<1> SUFFICES ASSUME NEW a \in Actor, NEW s \in Rendez
             PROVE  rlk'[s] = a <=> pc'[a] \in WithR /\ on'[a] = s
  BY DEF RLockInv, WithR
<1>1. \A c \in {a, b} : rlk[s] = c <=> pc[c] \in WithR /\ on[c] = s
  BY DEF IInv, RLockInv
<1>2. rlk[r] = a <=> pc[a] \in WithR /\ on[a] = r
  BY DEF IInv, RLockInv
<1>3. rlk'[s] = IF s = r THEN b ELSE rlk[s]
  BY DEF IInv, TypeOK
<1> QED  BY <1>1, <1>2, <1>3 DEF OthersStay

(* The lock of the Rendez b is at, given up.                                *)
LEMMA RLockGiven ==
    ASSUME IInv, NEW b \in Actor, OthersStay(b),
           rlk' = [rlk EXCEPT ![on[b]] = None],
           on[b] \in Rendez, pc[b] \in WithR, pc'[b] \notin WithR
    PROVE  RLockInv'
<1> USE SleepWakeupAssumption DEF Actor
<1> SUFFICES ASSUME NEW a \in Actor, NEW s \in Rendez
             PROVE  rlk'[s] = a <=> pc'[a] \in WithR /\ on'[a] = s
  BY DEF RLockInv, WithR
<1>1. \A c \in {a, b} : rlk[s] = c <=> pc[c] \in WithR /\ on[c] = s
  BY DEF IInv, RLockInv
<1>3. rlk'[s] = IF s = on[b] THEN None ELSE rlk[s]
  BY DEF IInv, TypeOK
<1> QED  BY <1>1, <1>3 DEF OthersStay

(* The same three cases for p->rlock; Process(b) is the process b locks.    *)
LEMMA PLockKept ==
    ASSUME PLockInv, NEW b \in Actor, OthersStay(b), plk' = plk,
           pc'[b] \in WithP <=> pc[b] \in WithP,
           b \in Thread /\ pc[b] \in WithP => whom'[b] = whom[b]
    PROVE  PLockInv'
<1> USE SleepWakeupAssumption DEF Actor
<1> SUFFICES ASSUME NEW a \in Actor, NEW p \in Sleeper
             PROVE  plk'[p] = a <=> pc'[a] \in WithP /\ Process(a)' = p
  BY DEF PLockInv, WithP, Process
<1>1. plk[p] = a <=> pc[a] \in WithP /\ Process(a) = p
  BY DEF PLockInv
<1> QED  BY <1>1 DEF OthersStay, Process

(* A free p->rlock taken by b.                                              *)
LEMMA PLockTaken ==
    ASSUME IInv, NEW b \in Actor, OthersStay(b), NEW p \in Sleeper,
           plk[p] = None, plk' = [plk EXCEPT ![p] = b],
           pc[b] \notin WithP, pc'[b] \in WithP, Process(b)' = p
    PROVE  PLockInv'
<1> USE SleepWakeupAssumption DEF Actor
<1> SUFFICES ASSUME NEW a \in Actor, NEW q \in Sleeper
             PROVE  plk'[q] = a <=> pc'[a] \in WithP /\ Process(a)' = q
  BY DEF PLockInv, WithP, Process
<1>1. \A c \in {a, b} : plk[q] = c <=> pc[c] \in WithP /\ Process(c) = q
  BY DEF IInv, PLockInv
<1>2. plk[p] = a <=> pc[a] \in WithP /\ Process(a) = p
  BY DEF IInv, PLockInv
<1>3. plk'[q] = IF q = p THEN b ELSE plk[q]
  BY DEF IInv, TypeOK
<1>4. a # b => Process(a)' = Process(a)
  BY DEF OthersStay, Process
<1> QED  BY <1>1, <1>2, <1>3, <1>4 DEF OthersStay

(* The lock of b's process, given up.                                       *)
LEMMA PLockGiven ==
    ASSUME IInv, NEW b \in Actor, OthersStay(b),
           plk' = [plk EXCEPT ![Process(b)] = None],
           Process(b) \in Sleeper, pc[b] \in WithP, pc'[b] \notin WithP
    PROVE  PLockInv'
<1> USE SleepWakeupAssumption DEF Actor
<1> SUFFICES ASSUME NEW a \in Actor, NEW q \in Sleeper
             PROVE  plk'[q] = a <=> pc'[a] \in WithP /\ Process(a)' = q
  BY DEF PLockInv, WithP, Process
<1>1. /\ plk[q] = a <=> pc[a] \in WithP /\ Process(a) = q
      /\ plk[q] = b <=> pc[b] \in WithP /\ Process(b) = q
  BY DEF IInv, PLockInv
<1>3. plk'[q] = IF q = Process(b) THEN None ELSE plk[q]
  BY DEF IInv, TypeOK
<1>4. a # b => Process(a)' = Process(a)
  BY DEF OthersStay, Process
<1>5. CASE a = b
  BY <1>1, <1>3, <1>5
<1>6. CASE a # b
  BY <1>1, <1>3, <1>4, <1>6 DEF OthersStay
<1> QED  BY <1>5, <1>6

(* The parts of the invariant that speak of one process or thread at a time *)
(* need to be shown again for b alone.                                      *)
LEMMA PlacesKept ==
    ASSUME IInv, NEW b \in Actor, OthersStay(b),
           b \in Sleeper => SleeperAt(b)', b \in Thread => ThreadAt(b)'
    PROVE  SleeperInv' /\ ThreadInv'
<1> USE SleepWakeupAssumption DEF Actor
<1>1. ASSUME NEW p \in Sleeper PROVE SleeperAt(p)'
  <2>1. SleeperAt(p)
    BY DEF IInv, SleeperInv
  <2> QED  BY <2>1 DEF SleeperAt, OthersStay
<1>2. ASSUME NEW t \in Thread PROVE ThreadAt(t)'
  <2>1. ThreadAt(t)
    BY DEF IInv, ThreadInv
  <2> QED  BY <2>1 DEF ThreadAt, OthersStay
<1> QED  BY <1>1, <1>2 DEF SleeperInv, ThreadInv

(* Nobody comes to a Rendez by a step that puts nobody there.               *)
LEMMA OneSleeperKept ==
    ASSUME IInv, NEW b \in Actor, OthersStay(b),
           b \in Sleeper => on'[b] \in {on[b], None}
    PROVE  OneSleeperEach'
<1>1. \A p \in Sleeper : on'[p] \in {on[p], None}
  BY SleepWakeupAssumption DEF OthersStay, Actor
<1> QED  BY <1>1 DEF IInv, OneSleeperEach

(* The same for p->state.                                                   *)
LEMMA StatesKept ==
    ASSUME StateInv, NEW b \in Actor, OthersStay(b),
           b \in Sleeper => StateAt(b)',
           \A q \in Sleeper \ {b} : state'[q] = state[q]
    PROVE  StateInv'
<1> SUFFICES ASSUME NEW q \in Sleeper PROVE StateAt(q)'
  BY DEF StateInv
<1>1. StateAt(q)
  BY DEF StateInv
<1>2. CASE q = b
  BY <1>2
<1>3. CASE q # b
  BY <1>1, <1>3 DEF OthersStay, StateAt, Actor
<1> QED  BY <1>2, <1>3

(* The links stay right if they are not written and b goes neither into nor *)
(* out of the part of sleep in which it is linked.                          *)
LEMMA LinksKept ==
    ASSUME LinkInv, NEW b \in Actor, OthersStay(b), UNCHANGED <<rp, pr, state>>,
           b \in Sleeper => Linking(b)' <=> Linking(b),
           b \in Sleeper /\ Linking(b) => on'[b] = on[b]
    PROVE  LinkInv'
<1> SUFFICES ASSUME NEW q \in Sleeper, NEW r \in Rendez PROVE LinkAt(q, r)'
  BY DEF LinkInv
<1>1. LinkAt(q, r)
  BY DEF LinkInv
<1>2. CASE q = b
  BY <1>1, <1>2 DEF LinkAt, Linking
<1>3. CASE q # b
  BY <1>1, <1>3 DEF LinkAt, Linking, OthersStay, Actor
<1> QED  BY <1>2, <1>3

(* What the other wakers have found stays true if no link is written.       *)
LEMMA WakersKept ==
    ASSUME WakerInv, NEW b \in Actor, OthersStay(b), UNCHANGED <<rp, pr>>,
           b \in Thread => WakerAt(b)'
    PROVE  WakerInv'
<1> SUFFICES ASSUME NEW t \in Thread PROVE WakerAt(t)'
  BY DEF WakerInv
<1>1. WakerAt(t)
  BY DEF WakerInv
<1> QED  BY <1>1 DEF WakerAt, OthersStay, Actor

(* Two that have the lock of the same Rendez are one.                       *)
LEMMA OneHolderOfR ==
    ASSUME IInv, NEW a \in Actor, NEW b \in Actor, NEW r \in Rendez,
           pc[a] \in WithR, pc[b] \in WithR, on[a] = r, on[b] = r
    PROVE  a = b
<1>1. rlk[r] = a
  BY DEF IInv, RLockInv
<1>2. rlk[r] = b
  BY DEF IInv, RLockInv
<1> QED  BY <1>1, <1>2

(* Two that have the lock of the same process are one.                      *)
LEMMA OneHolderOfP ==
    ASSUME IInv, NEW a \in Actor, NEW b \in Actor, NEW p \in Sleeper,
           pc[a] \in WithP, pc[b] \in WithP, Process(a) = p, Process(b) = p
    PROVE  a = b
<1>1. plk[p] = a
  BY DEF IInv, PLockInv
<1>2. plk[p] = b
  BY DEF IInv, PLockInv
<1> QED  BY <1>1, <1>2

(* What a thread that is about to wake a process has in hand.               *)
LEMMA WakersHave ==
    ASSUME IInv, NEW t \in Thread
    PROVE  /\ pc[t] \in {"wakeup-lock-p", "wakeup-ready"} =>
                 on[t] \in Rendez /\ whom[t] \in Sleeper /\ pc[t] \in WithR
           /\ pc[t] = "note-try-r" => whom[t] \in Sleeper /\ pc[t] \in WithP
<1>1. ThreadAt(t) /\ whom[t] \in Sleeper \cup {None} /\ on[t] \in Rendez \cup {None}
  BY DEF IInv, ThreadInv, TypeOK, Actor
<1> QED  BY <1>1 DEF ThreadAt, WithR, WithP

(* wakeup with both locks finds its process asleep on that Rendez: r->p led *)
(* to it, and whoever is linked without having r->lk has committed itself.  *)
LEMMA WakeupFinds ==
    ASSUME IInv, NEW t \in Thread, pc[t] = "wakeup-ready"
    PROVE  /\ state[whom[t]] = "Wakeme" /\ pc[whom[t]] = "asleep"
           /\ pr[whom[t]] = on[t] /\ rp[on[t]] = whom[t] /\ on[whom[t]] = on[t]
<1> USE SleepWakeupAssumption DEF Actor
<1>1. on[t] \in Rendez /\ whom[t] \in Sleeper /\ rp[on[t]] = whom[t]
  BY WakersHave DEF IInv, WakerInv, WakerAt
<1>2. LinkAt(whom[t], on[t]) /\ StateAt(whom[t])
  BY <1>1 DEF IInv, LinkInv, StateInv
<1>3. on[whom[t]] = on[t]
  BY <1>1, <1>2 DEF LinkAt
<1>4. pc[whom[t]] \notin WithR
  BY <1>1, <1>3, OneHolderOfR DEF WithR
<1> QED  BY <1>1, <1>2, <1>3, <1>4 DEF LinkAt, StateAt, Linking, WithR

(* postnote with p->rlock and then r->lk finds the same, coming from p->r.  *)
LEMMA PostnoteFinds ==
    ASSUME IInv, NEW t \in Thread, pc[t] = "note-try-r", rlk[pr[whom[t]]] = None
    PROVE  /\ state[whom[t]] = "Wakeme" /\ pc[whom[t]] = "asleep"
           /\ rp[pr[whom[t]]] = whom[t] /\ on[whom[t]] = pr[whom[t]]
<1> USE SleepWakeupAssumption DEF Actor
<1>1. whom[t] \in Sleeper /\ pr[whom[t]] \in Rendez
  BY WakersHave DEF IInv, WakerInv, WakerAt, TypeOK
<1>2. LinkAt(whom[t], pr[whom[t]]) /\ StateAt(whom[t])
  BY <1>1 DEF IInv, LinkInv, StateInv
<1>3. pc[whom[t]] \notin WithR
  BY <1>1, <1>2 DEF IInv, RLockInv, LinkAt
<1>4. pc[whom[t]] \notin WithP
  BY <1>1, OneHolderOfP DEF WithP, Process
<1> QED  BY <1>1, <1>2, <1>3, <1>4 DEF LinkAt, StateAt, Linking, WithR, WithP

(* Unlinking and readying a process that sleeps, with both locks, leaves the*)
(* links and what the other wakers have found right, and does not panic.    *)
LEMMA Roused ==
    ASSUME IInv, NEW t \in Thread, OthersStay(t), WakerAt(t)',
           NEW p \in Sleeper, NEW r \in Rendez, Rouse(p, r),
           state[p] = "Wakeme", pc[p] = "asleep",
           pr[p] = r, rp[r] = p, on[p] = r,
           \A u \in Thread \ {t} :
              rlk[r] # u /\ plk[p] # u
    PROVE  StateInv' /\ LinkInv' /\ WakerInv' /\ NoPanic'
<1> USE SleepWakeupAssumption DEF Actor
<1>1. /\ rp' = [rp EXCEPT ![r] = None]
      /\ pr' = [pr EXCEPT ![p] = None]
      /\ state' = [state EXCEPT ![p] = "Ready"]
      /\ panicked' = panicked
  BY DEF Rouse
<1>2. /\ \A s \in Rendez : rp'[s] = IF s = r THEN None ELSE rp[s]
      /\ \A q \in Sleeper : pr'[q] = IF q = p THEN None ELSE pr[q]
      /\ \A q \in Sleeper : state'[q] = IF q = p THEN "Ready" ELSE state[q]
  BY <1>1 DEF IInv, TypeOK
<1>3. ASSUME NEW q \in Sleeper PROVE StateAt(q)'
  <2>1. StateAt(q)
    BY DEF IInv, StateInv
  <2> QED  BY <1>2, <2>1 DEF StateAt, OthersStay
<1>4. ASSUME NEW q \in Sleeper, NEW s \in Rendez PROVE LinkAt(q, s)'
  <2>1. LinkAt(q, s) /\ LinkAt(q, r)
    BY DEF IInv, LinkInv
  <2>2. on[q] = on[p] => q = p
    BY DEF IInv, OneSleeperEach
  <2>3. /\ rp'[s] = IF s = r THEN None ELSE rp[s]
        /\ pr'[q] = IF q = p THEN None ELSE pr[q]
        /\ state'[q] = IF q = p THEN "Ready" ELSE state[q]
    BY <1>2
  <2>4. pc'[q] = pc[q] /\ on'[q] = on[q]
    BY DEF OthersStay
  <2> QED  BY <2>1, <2>2, <2>3, <2>4 DEF LinkAt, Linking
<1>5. ASSUME NEW u \in Thread, u # t PROVE WakerAt(u)'
  <2>1. WakerAt(u)
    BY DEF IInv, WakerInv
  <2>2. pc[u] \in {"wakeup-lock-p", "wakeup-ready"} => on[u] \in Rendez /\ on[u] # r
    <3>1. rlk[r] = u <=> pc[u] \in WithR /\ on[u] = r
      BY DEF IInv, RLockInv
    <3> QED  BY <1>5, <3>1, WakersHave
  <2>3. pc[u] = "note-try-r" => whom[u] \in Sleeper /\ whom[u] # p
    <3>1. plk[p] = u <=> pc[u] \in WithP /\ Process(u) = p
      BY DEF IInv, PLockInv
    <3> QED  BY <1>5, <3>1, WakersHave DEF Process
  <2>4. pc'[u] = pc[u] /\ on'[u] = on[u] /\ whom'[u] = whom[u]
    BY <1>5 DEF OthersStay
  <2>5. rp'[on'[u]] = rp[on[u]] \/ ~pc[u] \in {"wakeup-lock-p", "wakeup-ready"}
    BY <1>2, <2>2, <2>4
  <2>6. pr'[whom'[u]] = pr[whom[u]] \/ pc[u] # "note-try-r"
    BY <1>2, <2>3, <2>4
  <2> QED  BY <2>1, <2>4, <2>5, <2>6 DEF WakerAt
<1> QED  BY <1>1, <1>3, <1>4, <1>5 DEF StateInv, LinkInv, WakerInv, IInv, NoPanic

(* Every step preserves the invariant, first those of a sleeper.            *)
LEMMA SleepCallKeeps ==
    ASSUME IInv, NEW p \in Sleeper, NEW r \in Rendez, SleepCall(p, r)
    PROVE  IInv'
<1> USE SleepWakeupAssumption DEF Actor
<1>1. /\ OthersStay(p)
      /\ pc[p] = "idle" /\ pc'[p] = "sleep-lock-r"
      /\ on[p] = None
      /\ on'[p] = r
  BY DEF SleepCall, Goto, requests, links, locks, args,
     IInv, TypeOK, SleeperInv, SleeperAt, OthersStay
<1>2. UNCHANGED <<rp, pr, state, rlk, plk, panicked>>
  BY DEF SleepCall, Goto, requests, links, locks, args
<1>3. TypeOK'
  BY <1>1 DEF SleepCall, Goto, requests, links, locks, args, IInv, TypeOK, Places
<1>4. SleeperInv' /\ ThreadInv'
  BY <1>1, PlacesKept DEF SleeperAt
<1>5. OneSleeperEach'
  <2>1. \A q \in Sleeper : q # p => on[q] # r
    BY DEF SleepCall, Goto, IInv, SleeperInv, SleeperAt
  <2> QED  BY <1>1, <2>1 DEF IInv, OneSleeperEach, OthersStay
<1>6. RLockInv'
  BY <1>1, <1>2, RLockKept DEF IInv, WithR
<1>7. PLockInv'
  BY <1>1, <1>2, PLockKept DEF IInv, WithP
<1>8. StateInv'
  BY <1>1, <1>2, StatesKept DEF IInv, StateInv, StateAt
<1>9. LinkInv'
  <2>1. ~Linking(p)
    BY <1>1 DEF IInv, StateInv, StateAt, Linking
  <2>2. ~Linking(p)'
    BY <1>1, <1>2, <2>1 DEF Linking
  <2> QED  BY <1>1, <1>2, <2>1, <2>2, LinksKept DEF IInv
<1>10. WakerInv'
  BY <1>1, <1>2, WakersKept DEF IInv, WakerInv, WakerAt
<1> QED
  BY <1>2, <1>3, <1>4, <1>5, <1>6, <1>7, <1>8, <1>9, <1>10 DEF IInv, NoPanic

(* sleep takes r->lk.                                                       *)
LEMMA SleepLockRKeeps ==
    ASSUME IInv, NEW p \in Sleeper, SleepLockR(p)
    PROVE  IInv'
<1> USE SleepWakeupAssumption DEF Actor
<1>1. /\ OthersStay(p)
      /\ pc[p] = "sleep-lock-r" /\ pc'[p] = "sleep-lock-p"
      /\ on[p] \in Rendez
      /\ on'[p] = on[p]
  <2>1. pc[p] = "sleep-lock-r"
    BY DEF SleepLockR, Goto
  <2>2. on[p] \in Rendez
    BY <2>1 DEF IInv, TypeOK, SleeperInv, SleeperAt
  <2> QED  BY <2>1, <2>2 DEF SleepLockR, Goto, LockR, requests, links, locks, args,
                IInv, TypeOK, OthersStay
<1>2. UNCHANGED <<rp, pr, state, plk, panicked>>
  BY DEF SleepLockR, Goto, LockR, requests, links, locks, args
<1>3. TypeOK'
  BY <1>1 DEF SleepLockR, Goto, LockR, requests, links, locks, args, IInv, TypeOK,
     Places
<1>4. SleeperInv' /\ ThreadInv'
  BY <1>1, PlacesKept DEF SleeperAt
<1>5. OneSleeperEach'
  BY <1>1, OneSleeperKept
<1>6. RLockInv'
  BY <1>1, <1>2, RLockTaken DEF IInv, WithR, SleepLockR, LockR
<1>7. PLockInv'
  BY <1>1, <1>2, PLockKept DEF IInv, WithP
<1>8. StateInv'
  BY <1>1, <1>2, StatesKept DEF IInv, StateInv, StateAt
<1>9. LinkInv'
  BY <1>1, <1>2, LinksKept DEF IInv, Linking
<1>10. WakerInv'
  BY <1>1, <1>2, WakersKept DEF IInv, WakerInv, WakerAt
<1> QED
  BY <1>2, <1>3, <1>4, <1>5, <1>6, <1>7, <1>8, <1>9, <1>10 DEF IInv, NoPanic

(* sleep takes p->rlock and writes r->p.                                    *)
LEMMA SleepLockPKeeps ==
    ASSUME IInv, NEW p \in Sleeper, SleepLockP(p)
    PROVE  IInv'
<1> USE SleepWakeupAssumption DEF Actor
<1>1. /\ OthersStay(p)
      /\ pc[p] = "sleep-lock-p" /\ pc'[p] = "sleep-cond"
      /\ on[p] \in Rendez
      /\ on'[p] = on[p]
  <2>1. pc[p] = "sleep-lock-p"
    BY DEF SleepLockP, Goto
  <2>2. on[p] \in Rendez
    BY <2>1 DEF IInv, TypeOK, SleeperInv, SleeperAt
  <2> QED  BY <2>1, <2>2 DEF SleepLockP, Goto, LockP, requests, links, locks, args,
                IInv, TypeOK, OthersStay
<1>2. UNCHANGED <<pr, state, rlk, panicked>>
  BY DEF SleepLockP, Goto, LockP, requests, links, locks, args
<1>3. TypeOK'
  BY <1>1 DEF SleepLockP, Goto, LockP, requests, links, locks, args, IInv, TypeOK,
     Places
<1>4. SleeperInv' /\ ThreadInv'
  BY <1>1, PlacesKept DEF SleeperAt
<1>5. OneSleeperEach'
  BY <1>1, OneSleeperKept
<1>6. RLockInv'
  BY <1>1, <1>2, RLockKept DEF IInv, WithR
<1>7. PLockInv'
  BY <1>1, <1>2, PLockTaken DEF IInv, WithP, SleepLockP, LockP, Process
<1>8. StateInv'
  BY <1>1, <1>2, StatesKept DEF IInv, StateInv, StateAt
<1>9. LinkInv'
  <2> SUFFICES ASSUME NEW q \in Sleeper, NEW r \in Rendez PROVE LinkAt(q, r)'
    BY DEF LinkInv
  <2>1. LinkAt(q, r) /\ LinkAt(q, on[p])
    BY <1>1 DEF IInv, LinkInv
  <2>2. on[q] = on[p] => q = p
    BY <1>1 DEF IInv, OneSleeperEach
  <2>3. rp'[r] = IF r = on[p] THEN p ELSE rp[r]
    BY DEF SleepLockP, IInv, TypeOK
  <2> QED  BY <1>1, <1>2, <2>1, <2>2, <2>3 DEF LinkAt, Linking, OthersStay
<1>10. WakerInv'
  <2> SUFFICES ASSUME NEW t \in Thread PROVE WakerAt(t)'
    BY DEF WakerInv
  <2>1. WakerAt(t)
    BY DEF IInv, WakerInv
  <2>2. pc[t] \in {"wakeup-lock-p", "wakeup-ready"} => on[t] # on[p] /\ on[t] \in Rendez
    BY <1>1, WakersHave, OneHolderOfR DEF WithR
  <2>3. \A r \in Rendez : r # on[p] => rp'[r] = rp[r]
    BY DEF SleepLockP, IInv, TypeOK
  <2> QED  BY <1>1, <1>2, <2>1, <2>2, <2>3 DEF WakerAt, OthersStay
<1> QED
  BY <1>2, <1>3, <1>4, <1>5, <1>6, <1>7, <1>8, <1>9, <1>10 DEF IInv, NoPanic

(* sleep looks at its condition.                                            *)
LEMMA SleepCondKeeps ==
    ASSUME IInv, NEW p \in Sleeper, SleepCond(p)
    PROVE  IInv'
<1> USE SleepWakeupAssumption DEF Actor
<1>1. /\ OthersStay(p)
      /\ pc[p] = "sleep-cond"
      /\ pc'[p] = IF cond[on[p]]
               THEN "sleep-unlock-p" ELSE "sleep-note"
      /\ on[p] \in Rendez
      /\ on'[p] = on[p]
  <2>1. pc[p] = "sleep-cond"
    BY DEF SleepCond, Goto
  <2>2. on[p] \in Rendez
    BY <2>1 DEF IInv, TypeOK, SleeperInv, SleeperAt
  <2> QED  BY <2>1, <2>2 DEF SleepCond, Goto, NeverMind, requests, links, locks, args,
                IInv, TypeOK, OthersStay
<1>2. UNCHANGED <<pr, state, rlk, plk, panicked>>
  BY DEF SleepCond, Goto, NeverMind, requests, links, locks, args
<1>3. TypeOK'
  BY <1>1 DEF SleepCond, Goto, NeverMind, requests, links, locks, args, IInv,
     TypeOK, Places
<1>4. SleeperInv' /\ ThreadInv'
  BY <1>1, PlacesKept DEF SleeperAt
<1>5. OneSleeperEach'
  BY <1>1, OneSleeperKept
<1>6. RLockInv'
  BY <1>1, <1>2, RLockKept DEF IInv, WithR
<1>7. PLockInv'
  BY <1>1, <1>2, PLockKept DEF IInv, WithP
<1>8. StateInv'
  BY <1>1, <1>2, StatesKept DEF IInv, StateInv, StateAt
<1>9. LinkInv'
  <2> SUFFICES ASSUME NEW q \in Sleeper, NEW r \in Rendez PROVE LinkAt(q, r)'
    BY DEF LinkInv
  <2>1. LinkAt(q, r) /\ LinkAt(p, on[p]) /\ StateAt(p)
    BY <1>1 DEF IInv, LinkInv, StateInv
  <2>2. on[q] = on[p] => q = p
    BY <1>1 DEF IInv, OneSleeperEach
  <2>3. rp' = IF cond[on[p]] THEN [rp EXCEPT ![on[p]] = None] ELSE rp
    BY DEF SleepCond, NeverMind, links
  <2>4. rp'[r] = IF cond[on[p]] /\ r = on[p] THEN None ELSE rp[r]
    BY <2>3 DEF IInv, TypeOK
  <2> QED  BY <1>1, <1>2, <2>1, <2>2, <2>4 DEF LinkAt, StateAt, Linking, OthersStay
<1>10. WakerInv'
  <2> SUFFICES ASSUME NEW t \in Thread PROVE WakerAt(t)'
    BY DEF WakerInv
  <2>1. WakerAt(t)
    BY DEF IInv, WakerInv
  <2>2. pc[t] \in {"wakeup-lock-p", "wakeup-ready"} => on[t] # on[p] /\ on[t] \in Rendez
    BY <1>1, WakersHave, OneHolderOfR DEF WithR
  <2>3. \A r \in Rendez : r # on[p] => rp'[r] = rp[r]
    BY DEF SleepCond, NeverMind, links, IInv, TypeOK
  <2> QED  BY <1>1, <1>2, <2>1, <2>2, <2>3 DEF WakerAt, OthersStay
<1> QED
  BY <1>2, <1>3, <1>4, <1>5, <1>6, <1>7, <1>8, <1>9, <1>10 DEF IInv, NoPanic

(* sleep looks for a note, then commits itself in p->r and p->state.        *)
LEMMA SleepNoteKeeps ==
    ASSUME IInv, NEW p \in Sleeper, SleepNote(p)
    PROVE  IInv'
<1> USE SleepWakeupAssumption DEF Actor
<1>1. /\ OthersStay(p)
      /\ pc[p] = "sleep-note" /\ pc'[p] = "sleep-unlock-p"
      /\ on[p] \in Rendez
      /\ on'[p] = on[p]
  <2>1. pc[p] = "sleep-note"
    BY DEF SleepNote, Goto
  <2>2. on[p] \in Rendez
    BY <2>1 DEF IInv, TypeOK, SleeperInv, SleeperAt
  <2> QED  BY <2>1, <2>2 DEF SleepNote, Goto, NeverMind, Commit, requests, links,
     locks, args,
                IInv, TypeOK, OthersStay
<1>2. UNCHANGED <<rlk, plk, panicked>>
  BY DEF SleepNote, Goto, NeverMind, Commit, requests, links, locks, args
<1>3. TypeOK'
  BY <1>1 DEF SleepNote, Goto, NeverMind, Commit, requests, links, locks, args,
     IInv, TypeOK, Places
<1>4. SleeperInv' /\ ThreadInv'
  BY <1>1, PlacesKept DEF SleeperAt
<1>5. OneSleeperEach'
  BY <1>1, OneSleeperKept
<1>6. RLockInv'
  BY <1>1, <1>2, RLockKept DEF IInv, WithR
<1>7. PLockInv'
  BY <1>1, <1>2, PLockKept DEF IInv, WithP
<1>8. StateInv'
  BY <1>1, StatesKept DEF SleepNote, NeverMind, Commit, IInv, TypeOK, StateInv,
     StateAt
<1>9. LinkInv'
  <2> SUFFICES ASSUME NEW q \in Sleeper, NEW r \in Rendez PROVE LinkAt(q, r)'
    BY DEF LinkInv
  <2>1. LinkAt(q, r) /\ LinkAt(p, on[p]) /\ StateAt(p)
    BY <1>1 DEF IInv, LinkInv, StateInv
  <2>2. on[q] = on[p] => q = p
    BY <1>1 DEF IInv, OneSleeperEach
  <2>3. CASE pending[p]
    <3>1. NeverMind(p)
      BY <2>3 DEF SleepNote
    <3>2. rp'[r] = IF r = on[p] THEN None ELSE rp[r]
      BY <3>1 DEF NeverMind, IInv, TypeOK
    <3>3. pr' = pr /\ state' = state
      BY <3>1 DEF NeverMind
    <3> QED  BY <1>1, <2>1, <2>2, <3>2, <3>3 DEF LinkAt, StateAt, Linking, OthersStay
  <2>4. CASE ~pending[p]
    <3>1. /\ pr'[q] = IF q = p THEN on[p] ELSE pr[q]
          /\ state'[q] = IF q = p THEN "Wakeme" ELSE state[q]
      BY <2>4 DEF SleepNote, Commit, IInv, TypeOK
    <3>2. rp' = rp
      BY <2>4 DEF SleepNote, Commit
    <3> QED  BY <1>1, <2>1, <2>2, <3>1, <3>2 DEF LinkAt, StateAt, Linking, OthersStay
  <2> QED  BY <2>3, <2>4
<1>10. WakerInv'
  <2> SUFFICES ASSUME NEW t \in Thread PROVE WakerAt(t)'
    BY DEF WakerInv
  <2>1. WakerAt(t)
    BY DEF IInv, WakerInv
  <2>2. pc[t] \in {"wakeup-lock-p", "wakeup-ready"} => on[t] # on[p] /\ on[t] \in Rendez
    BY <1>1, WakersHave, OneHolderOfR DEF WithR
  <2>3. pc[t] = "note-try-r" => whom[t] # p /\ whom[t] \in Sleeper
    BY <1>1, WakersHave, OneHolderOfP DEF WithP, Process
  <2>4. /\ \A r \in Rendez : r # on[p] => rp'[r] = rp[r]
        /\ \A q \in Sleeper : q # p => pr'[q] = pr[q]
    BY DEF SleepNote, NeverMind, Commit, IInv, TypeOK
  <2> QED  BY <1>1, <2>1, <2>2, <2>3, <2>4 DEF WakerAt, OthersStay
<1> QED
  BY <1>2, <1>3, <1>4, <1>5, <1>6, <1>7, <1>8, <1>9, <1>10 DEF IInv, NoPanic

(* sleep gives up p->rlock.                                                 *)
LEMMA SleepUnlockPKeeps ==
    ASSUME IInv, NEW p \in Sleeper, SleepUnlockP(p)
    PROVE  IInv'
<1> USE SleepWakeupAssumption DEF Actor
<1>1. /\ OthersStay(p)
      /\ pc[p] = "sleep-unlock-p" /\ pc'[p] = "sleep-unlock-r"
      /\ on[p] \in Rendez
      /\ on'[p] = on[p]
  <2>1. pc[p] = "sleep-unlock-p"
    BY DEF SleepUnlockP, Goto
  <2>2. on[p] \in Rendez
    BY <2>1 DEF IInv, TypeOK, SleeperInv, SleeperAt
  <2> QED  BY <2>1, <2>2 DEF SleepUnlockP, Goto, UnlockP, requests, links, locks,
     args,
                IInv, TypeOK, OthersStay
<1>2. UNCHANGED <<rp, pr, state, rlk, panicked>>
  BY DEF SleepUnlockP, Goto, UnlockP, requests, links, locks, args
<1>3. TypeOK'
  BY <1>1 DEF SleepUnlockP, Goto, UnlockP, requests, links, locks, args, IInv,
     TypeOK, Places
<1>4. SleeperInv' /\ ThreadInv'
  BY <1>1, PlacesKept DEF SleeperAt
<1>5. OneSleeperEach'
  BY <1>1, OneSleeperKept
<1>6. RLockInv'
  BY <1>1, <1>2, RLockKept DEF IInv, WithR
<1>7. PLockInv'
  BY <1>1, <1>2, PLockGiven DEF IInv, WithP, SleepUnlockP, UnlockP, Process
<1>8. StateInv'
  BY <1>1, <1>2, StatesKept DEF IInv, StateInv, StateAt
<1>9. LinkInv'
  BY <1>1, <1>2, LinksKept DEF IInv, Linking
<1>10. WakerInv'
  BY <1>1, <1>2, WakersKept DEF IInv, WakerInv, WakerAt
<1> QED
  BY <1>2, <1>3, <1>4, <1>5, <1>6, <1>7, <1>8, <1>9, <1>10 DEF IInv, NoPanic

(* sleep gives up r->lk and is switched out.                                *)
LEMMA SleepUnlockRKeeps ==
    ASSUME IInv, NEW p \in Sleeper, SleepUnlockR(p)
    PROVE  IInv'
<1> USE SleepWakeupAssumption DEF Actor
<1>1. /\ OthersStay(p)
      /\ pc[p] = "sleep-unlock-r"
      /\ pc'[p] = IF state[p] = "Running"
               THEN "sleep-end" ELSE "asleep"
      /\ on[p] \in Rendez
      /\ on'[p] = on[p]
  <2>1. pc[p] = "sleep-unlock-r"
    BY DEF SleepUnlockR, Goto
  <2>2. on[p] \in Rendez
    BY <2>1 DEF IInv, TypeOK, SleeperInv, SleeperAt
  <2> QED  BY <2>1, <2>2 DEF SleepUnlockR, Goto, UnlockR, requests, links, locks,
     args,
                IInv, TypeOK, OthersStay
<1>2. UNCHANGED <<rp, pr, state, plk, panicked>>
  BY DEF SleepUnlockR, Goto, UnlockR, requests, links, locks, args
<1>3. TypeOK'
  BY <1>1 DEF SleepUnlockR, Goto, UnlockR, requests, links, locks, args, IInv,
     TypeOK, Places
<1>4. SleeperInv' /\ ThreadInv'
  BY <1>1, PlacesKept DEF SleeperAt
<1>5. OneSleeperEach'
  BY <1>1, OneSleeperKept
<1>6. RLockInv'
  BY <1>1, <1>2, RLockGiven DEF IInv, WithR, SleepUnlockR, UnlockR
<1>7. PLockInv'
  BY <1>1, <1>2, PLockKept DEF IInv, WithP
<1>8. StateInv'
  BY <1>1, <1>2, StatesKept DEF IInv, StateInv, StateAt
<1>9. LinkInv'
  BY <1>1, <1>2, LinksKept DEF IInv, Linking
<1>10. WakerInv'
  BY <1>1, <1>2, WakersKept DEF IInv, WakerInv, WakerAt
<1> QED
  BY <1>2, <1>3, <1>4, <1>5, <1>6, <1>7, <1>8, <1>9, <1>10 DEF IInv, NoPanic

(* The process is run again.                                                *)
LEMMA SleepAwakeKeeps ==
    ASSUME IInv, NEW p \in Sleeper, SleepAwake(p)
    PROVE  IInv'
<1> USE SleepWakeupAssumption DEF Actor
<1>1. /\ OthersStay(p)
      /\ pc[p] = "asleep" /\ pc'[p] = "sleep-end"
      /\ on[p] \in Rendez
      /\ on'[p] = on[p]
  <2>1. pc[p] = "asleep"
    BY DEF SleepAwake, Goto
  <2>2. on[p] \in Rendez
    BY <2>1 DEF IInv, TypeOK, SleeperInv, SleeperAt
  <2> QED  BY <2>1, <2>2 DEF SleepAwake, Goto, requests, links, locks, args,
                IInv, TypeOK, OthersStay
<1>2. UNCHANGED <<rp, pr, rlk, plk, panicked>>
  BY DEF SleepAwake, Goto, requests, links, locks, args
<1>3. TypeOK'
  BY <1>1 DEF SleepAwake, Goto, requests, links, locks, args, IInv, TypeOK, Places
<1>4. SleeperInv' /\ ThreadInv'
  BY <1>1, PlacesKept DEF SleeperAt
<1>5. OneSleeperEach'
  BY <1>1, OneSleeperKept
<1>6. RLockInv'
  BY <1>1, <1>2, RLockKept DEF IInv, WithR
<1>7. PLockInv'
  BY <1>1, <1>2, PLockKept DEF IInv, WithP
<1>8. StateInv'
  BY <1>1, StatesKept DEF SleepAwake, IInv, TypeOK, StateAt
<1>9. LinkInv'
  <2> SUFFICES ASSUME NEW q \in Sleeper, NEW r \in Rendez PROVE LinkAt(q, r)'
    BY DEF LinkInv
  <2>1. LinkAt(q, r)
    BY DEF IInv, LinkInv
  <2>2. state[p] = "Ready" /\ state'[q] = IF q = p THEN "Running" ELSE state[q]
    BY DEF SleepAwake, IInv, TypeOK
  <2> QED  BY <1>1, <1>2, <2>1, <2>2 DEF LinkAt, Linking, OthersStay
<1>10. WakerInv'
  BY <1>1, <1>2, WakersKept DEF IInv, WakerInv, WakerAt
<1> QED
  BY <1>2, <1>3, <1>4, <1>5, <1>6, <1>7, <1>8, <1>9, <1>10 DEF IInv, NoPanic

(* sleep returns.                                                           *)
LEMMA SleepEndKeeps ==
    ASSUME IInv, NEW p \in Sleeper, SleepEnd(p)
    PROVE  IInv'
<1> USE SleepWakeupAssumption DEF Actor
<1>1. /\ OthersStay(p)
      /\ pc[p] = "sleep-end" /\ pc'[p] = "idle"
      /\ on[p] \in Rendez
      /\ on'[p] = None
  <2>1. pc[p] = "sleep-end"
    BY DEF SleepEnd, Goto
  <2>2. on[p] \in Rendez
    BY <2>1 DEF IInv, TypeOK, SleeperInv, SleeperAt
  <2> QED  BY <2>1, <2>2 DEF SleepEnd, Goto, requests, links, locks, args,
                IInv, TypeOK, OthersStay
<1>2. UNCHANGED <<rp, pr, state, rlk, plk, panicked>>
  BY DEF SleepEnd, Goto, requests, links, locks, args
<1>3. TypeOK'
  <2>1. cond' \in [Rendez -> BOOLEAN]
    <3>1. cond \in [Rendez -> BOOLEAN]
      BY DEF IInv, TypeOK
    <3>2. \E c \in BOOLEAN : cond' = [cond EXCEPT ![on[p]] = c]
      BY <1>1, <3>1 DEF SleepEnd
    <3> QED  BY <3>1, <3>2
  <2>2. pending' \in [Sleeper -> BOOLEAN]
    BY DEF SleepEnd, IInv, TypeOK
  <2>3. pc' \in [Actor -> Places]
    BY DEF SleepEnd, Goto, IInv, TypeOK, Places
  <2>4. on' \in [Actor -> Rendez \cup {None}] /\ whom' = whom
    BY DEF SleepEnd, IInv, TypeOK
  <2> QED  BY <1>2, <2>1, <2>2, <2>3, <2>4 DEF IInv, TypeOK
<1>4. SleeperInv' /\ ThreadInv'
  BY <1>1, PlacesKept DEF SleeperAt
<1>5. OneSleeperEach'
  BY <1>1, OneSleeperKept
<1>6. RLockInv'
  BY <1>1, <1>2, RLockKept DEF IInv, WithR
<1>7. PLockInv'
  BY <1>1, <1>2, PLockKept DEF IInv, WithP
<1>8. StateInv'
  BY <1>1, <1>2, StatesKept DEF IInv, StateInv, StateAt
<1>9. LinkInv'
  <2>1. ~Linking(p)
    BY <1>1 DEF IInv, StateInv, StateAt, Linking
  <2>2. ~Linking(p)'
    BY <1>1, <1>2, <2>1 DEF Linking
  <2> QED  BY <1>1, <1>2, <2>1, <2>2, LinksKept DEF IInv
<1>10. WakerInv'
  BY <1>1, <1>2, WakersKept DEF IInv, WakerInv, WakerAt
<1> QED
  BY <1>2, <1>3, <1>4, <1>5, <1>6, <1>7, <1>8, <1>9, <1>10 DEF IInv, NoPanic

(* The steps of a thread that wakes.                                        *)
LEMMA WakeupCallKeeps ==
    ASSUME IInv, NEW t \in Thread, NEW r \in Rendez, WakeupCall(t, r)
    PROVE  IInv'
<1> USE SleepWakeupAssumption DEF Actor
<1>1. /\ OthersStay(t)
      /\ pc[t] = "idle" /\ pc'[t] = "wakeup-lock-r"
      /\ on'[t] = r /\ whom'[t] = whom[t]
  BY DEF WakeupCall, Goto, requests, links, locks, args,
     IInv, TypeOK, OthersStay
<1>2. UNCHANGED <<rp, pr, state, rlk, plk, panicked>>
  BY DEF WakeupCall, Goto, requests, links, locks, args
<1>3. TypeOK'
  BY <1>1 DEF WakeupCall, Goto, requests, links, locks, args, IInv, TypeOK, Places
<1>4. SleeperInv' /\ ThreadInv'
  BY <1>1, PlacesKept DEF ThreadAt
<1>5. OneSleeperEach'
  BY <1>1, OneSleeperKept
<1>6. RLockInv'
  BY <1>1, <1>2, RLockKept DEF IInv, WithR
<1>7. PLockInv'
  BY <1>1, <1>2, PLockKept DEF IInv, WithP
<1>8. StateInv'
  BY <1>1, <1>2, StatesKept DEF IInv, StateInv, StateAt
<1>9. LinkInv'
  BY <1>1, <1>2, LinksKept DEF IInv
<1>10. WakerInv'
  BY <1>1, <1>2, WakersKept DEF IInv, WakerInv, WakerAt
<1> QED
  BY <1>2, <1>3, <1>4, <1>5, <1>6, <1>7, <1>8, <1>9, <1>10 DEF IInv, NoPanic

(* wakeup takes r->lk and reads r->p.                                       *)
LEMMA WakeupLockRKeeps ==
    ASSUME IInv, NEW t \in Thread, WakeupLockR(t)
    PROVE  IInv'
<1> USE SleepWakeupAssumption DEF Actor
<1>1. /\ OthersStay(t)
      /\ pc[t] = "wakeup-lock-r"
      /\ pc'[t] = IF rp[on[t]] = None
               THEN "wakeup-unlock-r" ELSE "wakeup-lock-p"
      /\ on[t] \in Rendez
      /\ on'[t] = on[t] /\ whom'[t] = rp[on[t]]
  <2>1. pc[t] = "wakeup-lock-r"
    BY DEF WakeupLockR, Goto
  <2>2. on[t] \in Rendez
    BY <2>1 DEF IInv, TypeOK, ThreadInv, ThreadAt
  <2> QED  BY <2>1, <2>2 DEF WakeupLockR, Goto, LockR, requests, links, locks, args,
                IInv, TypeOK, OthersStay
<1>2. UNCHANGED <<rp, pr, state, plk, panicked>>
  BY DEF WakeupLockR, Goto, LockR, requests, links, locks, args
<1>3. TypeOK'
  BY <1>1 DEF WakeupLockR, Goto, LockR, requests, links, locks, args, IInv, TypeOK,
     Places
<1>4. SleeperInv' /\ ThreadInv'
  BY <1>1, PlacesKept DEF ThreadAt
<1>5. OneSleeperEach'
  BY <1>1, OneSleeperKept
<1>6. RLockInv'
  BY <1>1, <1>2, RLockTaken DEF IInv, WithR, WakeupLockR, LockR
<1>7. PLockInv'
  BY <1>1, <1>2, PLockKept DEF IInv, WithP
<1>8. StateInv'
  BY <1>1, <1>2, StatesKept DEF IInv, StateInv, StateAt
<1>9. LinkInv'
  BY <1>1, <1>2, LinksKept DEF IInv
<1>10. WakerInv'
  BY <1>1, <1>2, WakersKept DEF IInv, WakerInv, WakerAt
<1> QED
  BY <1>2, <1>3, <1>4, <1>5, <1>6, <1>7, <1>8, <1>9, <1>10 DEF IInv, NoPanic

(* wakeup takes p->rlock.                                                   *)
LEMMA WakeupLockPKeeps ==
    ASSUME IInv, NEW t \in Thread, WakeupLockP(t)
    PROVE  IInv'
<1> USE SleepWakeupAssumption DEF Actor
<1>1. /\ OthersStay(t)
      /\ pc[t] = "wakeup-lock-p" /\ pc'[t] = "wakeup-ready"
      /\ on[t] \in Rendez /\ whom[t] \in Sleeper
      /\ on'[t] = on[t] /\ whom'[t] = whom[t]
  <2>1. pc[t] = "wakeup-lock-p"
    BY DEF WakeupLockP, Goto
  <2>2. on[t] \in Rendez /\ whom[t] \in Sleeper
    BY <2>1 DEF IInv, TypeOK, ThreadInv, ThreadAt
  <2> QED  BY <2>1, <2>2 DEF WakeupLockP, Goto, LockP, requests, links, locks, args,
                IInv, TypeOK, OthersStay
<1>2. UNCHANGED <<rp, pr, state, rlk, panicked>>
  BY DEF WakeupLockP, Goto, LockP, requests, links, locks, args
<1>3. TypeOK'
  BY <1>1 DEF WakeupLockP, Goto, LockP, requests, links, locks, args, IInv, TypeOK,
     Places
<1>4. SleeperInv' /\ ThreadInv'
  BY <1>1, PlacesKept DEF ThreadAt
<1>5. OneSleeperEach'
  BY <1>1, OneSleeperKept
<1>6. RLockInv'
  BY <1>1, <1>2, RLockKept DEF IInv, WithR
<1>7. PLockInv'
  BY <1>1, <1>2, PLockTaken DEF IInv, WithP, WakeupLockP, LockP, Process
<1>8. StateInv'
  BY <1>1, <1>2, StatesKept DEF IInv, StateInv, StateAt
<1>9. LinkInv'
  BY <1>1, <1>2, LinksKept DEF IInv
<1>10. WakerInv'
  BY <1>1, <1>2, WakersKept DEF IInv, WakerInv, WakerAt
<1> QED
  BY <1>2, <1>3, <1>4, <1>5, <1>6, <1>7, <1>8, <1>9, <1>10 DEF IInv, NoPanic

(* wakeup checks, unlinks and readies the process.                          *)
LEMMA WakeupReadyKeeps ==
    ASSUME IInv, NEW t \in Thread, WakeupReady(t)
    PROVE  IInv'
<1> USE SleepWakeupAssumption DEF Actor
<1>1. /\ OthersStay(t)
      /\ pc[t] = "wakeup-ready" /\ pc'[t] = "wakeup-unlock-r"
      /\ on[t] \in Rendez /\ whom[t] \in Sleeper
      /\ on'[t] = on[t] /\ whom'[t] = whom[t]
  <2>1. pc[t] = "wakeup-ready"
    BY DEF WakeupReady, Goto
  <2>2. on[t] \in Rendez /\ whom[t] \in Sleeper
    BY <2>1 DEF IInv, TypeOK, ThreadInv, ThreadAt
  <2> QED  BY <2>1, <2>2 DEF WakeupReady, Goto, UnlockP, Rouse, requests, links,
     locks, args,
                IInv, TypeOK, OthersStay
<1>2. UNCHANGED <<rlk>>
  BY DEF WakeupReady, Goto, UnlockP, Rouse, requests, links, locks, args
<1>3. TypeOK'
  BY <1>1 DEF WakeupReady, Goto, UnlockP, Rouse, requests, links, locks, args,
     IInv, TypeOK, Places
<1>4. SleeperInv' /\ ThreadInv'
  BY <1>1, PlacesKept DEF ThreadAt
<1>5. OneSleeperEach'
  BY <1>1, OneSleeperKept
<1>6. RLockInv'
  BY <1>1, <1>2, RLockKept DEF IInv, WithR
<1>7. PLockInv'
  BY <1>1, <1>2, PLockGiven DEF IInv, WithP, WakeupReady, UnlockP, Process
<1>8. StateInv' /\ LinkInv' /\ WakerInv' /\ NoPanic'
  <2>1. \A u \in Thread \ {t} : rlk[on[t]] # u /\ plk[whom[t]] # u
    <3>1. rlk[on[t]] = t
      BY <1>1 DEF IInv, RLockInv, WithR
    <3>2. plk[whom[t]] = t
      BY <1>1 DEF IInv, PLockInv, WithP, Process
    <3> QED  BY <3>1, <3>2
  <2>2. WakerAt(t)'
    BY <1>1 DEF WakerAt
  <2> QED  BY <1>1, <2>1, <2>2, WakeupFinds, Roused DEF WakeupReady
<1> QED
  BY <1>3, <1>4, <1>5, <1>6, <1>7, <1>8 DEF IInv

(* wakeup returns.                                                          *)
LEMMA WakeupUnlockRKeeps ==
    ASSUME IInv, NEW t \in Thread, WakeupUnlockR(t)
    PROVE  IInv'
<1> USE SleepWakeupAssumption DEF Actor
<1>1. /\ OthersStay(t)
      /\ pc[t] = "wakeup-unlock-r" /\ pc'[t] = "idle"
      /\ on[t] \in Rendez
      /\ on'[t] = None /\ whom'[t] = None
  <2>1. pc[t] = "wakeup-unlock-r"
    BY DEF WakeupUnlockR, Goto
  <2>2. on[t] \in Rendez
    BY <2>1 DEF IInv, TypeOK, ThreadInv, ThreadAt
  <2> QED  BY <2>1, <2>2 DEF WakeupUnlockR, Goto, UnlockR, requests, links, locks,
     args,
                IInv, TypeOK, OthersStay
<1>2. UNCHANGED <<rp, pr, state, plk, panicked>>
  BY DEF WakeupUnlockR, Goto, UnlockR, requests, links, locks, args
<1>3. TypeOK'
  BY <1>1 DEF WakeupUnlockR, Goto, UnlockR, requests, links, locks, args, IInv,
     TypeOK, Places
<1>4. SleeperInv' /\ ThreadInv'
  BY <1>1, PlacesKept DEF ThreadAt
<1>5. OneSleeperEach'
  BY <1>1, OneSleeperKept
<1>6. RLockInv'
  BY <1>1, <1>2, RLockGiven DEF IInv, WithR, WakeupUnlockR, UnlockR
<1>7. PLockInv'
  BY <1>1, <1>2, PLockKept DEF IInv, WithP
<1>8. StateInv'
  BY <1>1, <1>2, StatesKept DEF IInv, StateInv, StateAt
<1>9. LinkInv'
  BY <1>1, <1>2, LinksKept DEF IInv
<1>10. WakerInv'
  BY <1>1, <1>2, WakersKept DEF IInv, WakerInv, WakerAt
<1> QED
  BY <1>2, <1>3, <1>4, <1>5, <1>6, <1>7, <1>8, <1>9, <1>10 DEF IInv, NoPanic

(* The steps of a thread that notes.                                        *)
LEMMA PostnoteCallKeeps ==
    ASSUME IInv, NEW t \in Thread, NEW q \in Sleeper, PostnoteCall(t, q)
    PROVE  IInv'
<1> USE SleepWakeupAssumption DEF Actor
<1>1. /\ OthersStay(t)
      /\ pc[t] = "idle" /\ pc'[t] = "note-lock-p"
      /\ on'[t] = on[t] /\ whom'[t] = q
  BY DEF PostnoteCall, Goto, requests, links, locks, args,
     IInv, TypeOK, OthersStay
<1>2. UNCHANGED <<rp, pr, state, rlk, plk, panicked>>
  BY DEF PostnoteCall, Goto, requests, links, locks, args
<1>3. TypeOK'
  BY <1>1 DEF PostnoteCall, Goto, requests, links, locks, args, IInv, TypeOK, Places
<1>4. SleeperInv' /\ ThreadInv'
  BY <1>1, PlacesKept DEF ThreadAt
<1>5. OneSleeperEach'
  BY <1>1, OneSleeperKept
<1>6. RLockInv'
  BY <1>1, <1>2, RLockKept DEF IInv, WithR
<1>7. PLockInv'
  BY <1>1, <1>2, PLockKept DEF IInv, WithP
<1>8. StateInv'
  BY <1>1, <1>2, StatesKept DEF IInv, StateInv, StateAt
<1>9. LinkInv'
  BY <1>1, <1>2, LinksKept DEF IInv
<1>10. WakerInv'
  BY <1>1, <1>2, WakersKept DEF IInv, WakerInv, WakerAt
<1> QED
  BY <1>2, <1>3, <1>4, <1>5, <1>6, <1>7, <1>8, <1>9, <1>10 DEF IInv, NoPanic

(* postnote takes p->rlock and reads p->r.                                  *)
LEMMA PostnoteLockPKeeps ==
    ASSUME IInv, NEW t \in Thread, PostnoteLockP(t)
    PROVE  IInv'
<1> USE SleepWakeupAssumption DEF Actor
<1>1. /\ OthersStay(t)
      /\ pc[t] = "note-lock-p"
      /\ pc'[t] = IF pr[whom[t]] = None
               THEN "note-unlock-p" ELSE "note-try-r"
      /\ whom[t] \in Sleeper
      /\ on'[t] = on[t] /\ whom'[t] = whom[t]
  <2>1. pc[t] = "note-lock-p"
    BY DEF PostnoteLockP, Goto
  <2>2. whom[t] \in Sleeper
    BY <2>1 DEF IInv, TypeOK, ThreadInv, ThreadAt
  <2> QED  BY <2>1, <2>2 DEF PostnoteLockP, Goto, LockP, requests, links, locks, args,
                IInv, TypeOK, OthersStay
<1>2. UNCHANGED <<rp, pr, state, rlk, panicked>>
  BY DEF PostnoteLockP, Goto, LockP, requests, links, locks, args
<1>3. TypeOK'
  BY <1>1 DEF PostnoteLockP, Goto, LockP, requests, links, locks, args, IInv,
     TypeOK, Places
<1>4. SleeperInv' /\ ThreadInv'
  BY <1>1, PlacesKept DEF ThreadAt
<1>5. OneSleeperEach'
  BY <1>1, OneSleeperKept
<1>6. RLockInv'
  BY <1>1, <1>2, RLockKept DEF IInv, WithR
<1>7. PLockInv'
  BY <1>1, <1>2, PLockTaken DEF IInv, WithP, PostnoteLockP, LockP, Process
<1>8. StateInv'
  BY <1>1, <1>2, StatesKept DEF IInv, StateInv, StateAt
<1>9. LinkInv'
  BY <1>1, <1>2, LinksKept DEF IInv
<1>10. WakerInv'
  BY <1>1, <1>2, WakersKept DEF IInv, WakerInv, WakerAt
<1> QED
  BY <1>2, <1>3, <1>4, <1>5, <1>6, <1>7, <1>8, <1>9, <1>10 DEF IInv, NoPanic

(* postnote gets r->lk at once: it checks, unlinks and readies the process. *)
LEMMA PostnoteTryRKeeps ==
    ASSUME IInv, NEW t \in Thread, PostnoteTryR(t)
    PROVE  IInv'
<1> USE SleepWakeupAssumption DEF Actor
<1>1. /\ OthersStay(t)
      /\ pc[t] = "note-try-r" /\ pc'[t] = "note-unlock-r"
      /\ whom[t] \in Sleeper /\ pr[whom[t]] \in Rendez
      /\ on'[t] = pr[whom[t]] /\ whom'[t] = whom[t]
  <2>1. pc[t] = "note-try-r"
    BY DEF PostnoteTryR, Goto
  <2>2. whom[t] \in Sleeper /\ pr[whom[t]] \in Rendez
    BY <2>1 DEF IInv, TypeOK, ThreadInv, ThreadAt, WakerInv, WakerAt
  <2> QED  BY <2>1, <2>2 DEF PostnoteTryR, Goto, LockR, Rouse, requests, links,
     locks, args,
                IInv, TypeOK, OthersStay
<1>2. UNCHANGED <<plk>>
  BY DEF PostnoteTryR, Goto, LockR, Rouse, requests, links, locks, args
<1>3. TypeOK'
  <2>1. TypeOK /\ None \notin Actor
    BY DEF IInv
  <2>2. cond' = cond /\ pending' = pending /\ whom' = whom
    BY DEF PostnoteTryR, requests
  <2>3. /\ pc' = [pc EXCEPT ![t] = "note-unlock-r"]
        /\ rlk' = [rlk EXCEPT ![pr[whom[t]]] = t]
        /\ on' = [on EXCEPT ![t] = pr[whom[t]]]
    BY DEF PostnoteTryR, Goto, LockR
  <2>4. pc' \in [Actor -> Places] /\ rlk' \in [Rendez -> Actor \cup {None}]
    BY <2>1, <2>3 DEF TypeOK, Places
  <2>5. on' \in [Actor -> Rendez \cup {None}]
    BY <1>1, <2>1, <2>3 DEF TypeOK
  <2>6. /\ rp' \in [Rendez -> Sleeper \cup {None}]
        /\ pr' \in [Sleeper -> Rendez \cup {None}]
        /\ state' \in [Sleeper -> {"Running", "Wakeme", "Ready"}]
        /\ panicked' \in BOOLEAN
    BY <2>1 DEF PostnoteTryR, Rouse, links, TypeOK
  <2> QED  BY <1>2, <2>1, <2>2, <2>4, <2>5, <2>6 DEF TypeOK
<1>4. SleeperInv' /\ ThreadInv'
  BY <1>1, PlacesKept DEF ThreadAt
<1>5. OneSleeperEach'
  BY <1>1, OneSleeperKept
<1>6. RLockInv'
  BY <1>1, <1>2, RLockTaken DEF IInv, WithR, PostnoteTryR, LockR
<1>7. PLockInv'
  BY <1>1, <1>2, PLockKept DEF IInv, WithP
<1>8. StateInv' /\ LinkInv' /\ WakerInv' /\ NoPanic'
  <2>1. rlk[pr[whom[t]]] = None
    BY DEF PostnoteTryR, LockR
  <2>2. \A u \in Thread \ {t} : plk[whom[t]] # u
    BY <1>1 DEF IInv, PLockInv, WithP, Process
  <2>3. WakerAt(t)'
    BY <1>1 DEF WakerAt
  <2>4. Rouse(whom[t], pr[whom[t]])
    BY DEF PostnoteTryR
  <2>5. /\ state[whom[t]] = "Wakeme" /\ pc[whom[t]] = "asleep"
        /\ rp[pr[whom[t]]] = whom[t] /\ on[whom[t]] = pr[whom[t]]
    BY <1>1, <2>1, PostnoteFinds
  <2>6. \A u \in Thread \ {t} : rlk[pr[whom[t]]] # u /\ plk[whom[t]] # u
    BY <2>1, <2>2
  <2> QED  BY <1>1, <2>3, <2>4, <2>5, <2>6, Roused
<1> QED
  BY <1>3, <1>4, <1>5, <1>6, <1>7, <1>8 DEF IInv

(* postnote does not get r->lk, gives p->rlock up and starts again.         *)
LEMMA PostnoteAgainKeeps ==
    ASSUME IInv, NEW t \in Thread, PostnoteAgain(t)
    PROVE  IInv'
<1> USE SleepWakeupAssumption DEF Actor
<1>1. /\ OthersStay(t)
      /\ pc[t] = "note-try-r" /\ pc'[t] = "note-lock-p"
      /\ whom[t] \in Sleeper
      /\ on'[t] = on[t] /\ whom'[t] = whom[t]
  <2>1. pc[t] = "note-try-r"
    BY DEF PostnoteAgain, Goto
  <2>2. whom[t] \in Sleeper
    BY <2>1 DEF IInv, TypeOK, ThreadInv, ThreadAt
  <2> QED  BY <2>1, <2>2 DEF PostnoteAgain, Goto, UnlockP, requests, links, locks,
     args,
                IInv, TypeOK, OthersStay
<1>2. UNCHANGED <<rp, pr, state, rlk, panicked>>
  BY DEF PostnoteAgain, Goto, UnlockP, requests, links, locks, args
<1>3. TypeOK'
  BY <1>1 DEF PostnoteAgain, Goto, UnlockP, requests, links, locks, args, IInv,
     TypeOK, Places
<1>4. SleeperInv' /\ ThreadInv'
  BY <1>1, PlacesKept DEF ThreadAt
<1>5. OneSleeperEach'
  BY <1>1, OneSleeperKept
<1>6. RLockInv'
  BY <1>1, <1>2, RLockKept DEF IInv, WithR
<1>7. PLockInv'
  BY <1>1, <1>2, PLockGiven DEF IInv, WithP, PostnoteAgain, UnlockP, Process
<1>8. StateInv'
  BY <1>1, <1>2, StatesKept DEF IInv, StateInv, StateAt
<1>9. LinkInv'
  BY <1>1, <1>2, LinksKept DEF IInv
<1>10. WakerInv'
  BY <1>1, <1>2, WakersKept DEF IInv, WakerInv, WakerAt
<1> QED
  BY <1>2, <1>3, <1>4, <1>5, <1>6, <1>7, <1>8, <1>9, <1>10 DEF IInv, NoPanic

(* postnote gives r->lk up.                                                 *)
LEMMA PostnoteUnlockRKeeps ==
    ASSUME IInv, NEW t \in Thread, PostnoteUnlockR(t)
    PROVE  IInv'
<1> USE SleepWakeupAssumption DEF Actor
<1>1. /\ OthersStay(t)
      /\ pc[t] = "note-unlock-r" /\ pc'[t] = "note-unlock-p"
      /\ on[t] \in Rendez /\ whom[t] \in Sleeper
      /\ on'[t] = None /\ whom'[t] = whom[t]
  <2>1. pc[t] = "note-unlock-r"
    BY DEF PostnoteUnlockR, Goto
  <2>2. on[t] \in Rendez /\ whom[t] \in Sleeper
    BY <2>1 DEF IInv, TypeOK, ThreadInv, ThreadAt
  <2> QED  BY <2>1, <2>2 DEF PostnoteUnlockR, Goto, UnlockR, requests, links,
     locks, args,
                IInv, TypeOK, OthersStay
<1>2. UNCHANGED <<rp, pr, state, plk, panicked>>
  BY DEF PostnoteUnlockR, Goto, UnlockR, requests, links, locks, args
<1>3. TypeOK'
  BY <1>1 DEF PostnoteUnlockR, Goto, UnlockR, requests, links, locks, args, IInv,
     TypeOK, Places
<1>4. SleeperInv' /\ ThreadInv'
  BY <1>1, PlacesKept DEF ThreadAt
<1>5. OneSleeperEach'
  BY <1>1, OneSleeperKept
<1>6. RLockInv'
  BY <1>1, <1>2, RLockGiven DEF IInv, WithR, PostnoteUnlockR, UnlockR
<1>7. PLockInv'
  BY <1>1, <1>2, PLockKept DEF IInv, WithP
<1>8. StateInv'
  BY <1>1, <1>2, StatesKept DEF IInv, StateInv, StateAt
<1>9. LinkInv'
  BY <1>1, <1>2, LinksKept DEF IInv
<1>10. WakerInv'
  BY <1>1, <1>2, WakersKept DEF IInv, WakerInv, WakerAt
<1> QED
  BY <1>2, <1>3, <1>4, <1>5, <1>6, <1>7, <1>8, <1>9, <1>10 DEF IInv, NoPanic

(* postnote gives p->rlock up and returns.                                  *)
LEMMA PostnoteUnlockPKeeps ==
    ASSUME IInv, NEW t \in Thread, PostnoteUnlockP(t)
    PROVE  IInv'
<1> USE SleepWakeupAssumption DEF Actor
<1>1. /\ OthersStay(t)
      /\ pc[t] = "note-unlock-p" /\ pc'[t] = "idle"
      /\ whom[t] \in Sleeper
      /\ on'[t] = on[t] /\ whom'[t] = None
  <2>1. pc[t] = "note-unlock-p"
    BY DEF PostnoteUnlockP, Goto
  <2>2. whom[t] \in Sleeper
    BY <2>1 DEF IInv, TypeOK, ThreadInv, ThreadAt
  <2> QED  BY <2>1, <2>2 DEF PostnoteUnlockP, Goto, UnlockP, requests, links,
     locks, args,
                IInv, TypeOK, OthersStay
<1>2. UNCHANGED <<rp, pr, state, rlk, panicked>>
  BY DEF PostnoteUnlockP, Goto, UnlockP, requests, links, locks, args
<1>3. TypeOK'
  BY <1>1 DEF PostnoteUnlockP, Goto, UnlockP, requests, links, locks, args, IInv,
     TypeOK, Places
<1>4. SleeperInv' /\ ThreadInv'
  BY <1>1, PlacesKept DEF ThreadAt
<1>5. OneSleeperEach'
  BY <1>1, OneSleeperKept
<1>6. RLockInv'
  BY <1>1, <1>2, RLockKept DEF IInv, WithR
<1>7. PLockInv'
  BY <1>1, <1>2, PLockGiven DEF IInv, WithP, PostnoteUnlockP, UnlockP, Process
<1>8. StateInv'
  BY <1>1, <1>2, StatesKept DEF IInv, StateInv, StateAt
<1>9. LinkInv'
  BY <1>1, <1>2, LinksKept DEF IInv
<1>10. WakerInv'
  BY <1>1, <1>2, WakersKept DEF IInv, WakerInv, WakerAt
<1> QED
  BY <1>2, <1>3, <1>4, <1>5, <1>6, <1>7, <1>8, <1>9, <1>10 DEF IInv, NoPanic

(* The invariant holds at first.                                            *)
LEMMA InitIInv == Init => IInv
<1> SUFFICES ASSUME Init PROVE IInv
  OBVIOUS
<1> USE SleepWakeupAssumption DEF Init, Actor
<1>1. TypeOK
  BY DEF TypeOK, Places
<1>2. SleeperInv /\ OneSleeperEach /\ ThreadInv /\ StateInv /\ WakerInv
  BY DEF SleeperInv, SleeperAt, OneSleeperEach, ThreadInv, ThreadAt,
         StateInv, StateAt, WakerInv, WakerAt
<1>3. RLockInv /\ PLockInv
  BY DEF RLockInv, PLockInv, WithR, WithP
<1>4. LinkInv
  BY DEF LinkInv, LinkAt, Linking
<1> QED
  BY <1>1, <1>2, <1>3, <1>4 DEF IInv, NoPanic

(* Every step, and doing nothing, preserves the invariant.                  *)
LEMMA StepIInv == IInv /\ [Next]_vars => IInv'
<1> SUFFICES ASSUME IInv, [Next]_vars PROVE IInv'
  OBVIOUS
<1>1. ASSUME NEW p \in Sleeper, SleepStep(p) PROVE IInv'
  BY <1>1, SleepLockRKeeps, SleepLockPKeeps, SleepCondKeeps, SleepNoteKeeps,
     SleepUnlockPKeeps, SleepUnlockRKeeps, SleepAwakeKeeps, SleepEndKeeps
  DEF SleepStep
<1>2. ASSUME NEW t \in Thread, ThreadStep(t) PROVE IInv'
  BY <1>2, WakeupLockRKeeps, WakeupLockPKeeps, WakeupReadyKeeps,
     WakeupUnlockRKeeps, PostnoteLockPKeeps, PostnoteTryRKeeps,
     PostnoteAgainKeeps, PostnoteUnlockRKeeps, PostnoteUnlockPKeeps
  DEF ThreadStep
<1>3. ASSUME NEW p \in Sleeper, NEW r \in Rendez, SleepCall(p, r) PROVE IInv'
  BY <1>3, SleepCallKeeps
<1>4. ASSUME NEW t \in Thread, NEW r \in Rendez, WakeupCall(t, r) PROVE IInv'
  BY <1>4, WakeupCallKeeps
<1>5. ASSUME NEW t \in Thread, NEW p \in Sleeper, PostnoteCall(t, p) PROVE IInv'
  BY <1>5, PostnoteCallKeeps
<1>6. CASE Next
  BY ONLY <1>1, <1>2, <1>3, <1>4, <1>5, <1>6 DEF Next
<1>7. CASE UNCHANGED vars
  <2>1. /\ cond' = cond /\ pending' = pending /\ rp' = rp /\ pr' = pr
        /\ state' = state /\ rlk' = rlk /\ plk' = plk /\ pc' = pc
        /\ on' = on /\ whom' = whom /\ panicked' = panicked
    BY <1>7 DEF vars, requests, links, locks, args
  <2>2. /\ TypeOK /\ SleeperInv /\ OneSleeperEach /\ ThreadInv
        /\ RLockInv /\ PLockInv /\ StateInv /\ LinkInv /\ WakerInv
        /\ NoPanic
    BY DEF IInv
  <2>3. TypeOK'
    BY ONLY <2>1, <2>2 DEF TypeOK
  <2>4. SleeperInv' /\ ThreadInv'
    BY ONLY <2>1, <2>2 DEF SleeperInv, SleeperAt, ThreadInv, ThreadAt
  <2>5. OneSleeperEach' /\ NoPanic'
    BY ONLY <2>1, <2>2 DEF OneSleeperEach, NoPanic
  <2>6. RLockInv'
    <3>1. \A a \in Actor, r \in Rendez : rlk[r] = a <=> pc[a] \in WithR /\ on[a] = r
      BY ONLY <2>2 DEF RLockInv
    <3> QED  BY ONLY <2>1, <3>1 DEF RLockInv, WithR
  <2>7. PLockInv'
    BY ONLY <2>1, <2>2 DEF PLockInv, Process, WithP
  <2>8. StateInv'
    <3>1. ASSUME NEW p \in Sleeper PROVE StateAt(p)'
      <4>1. StateAt(p)
        BY <2>2 DEF StateInv
      <4> QED  BY ONLY <2>1, <4>1 DEF StateAt
    <3> QED  BY ONLY <3>1 DEF StateInv
  <2>9. LinkInv'
    BY ONLY <2>1, <2>2 DEF LinkInv, LinkAt, Linking
  <2>10. WakerInv'
    BY ONLY <2>1, <2>2 DEF WakerInv, WakerAt
  <2> QED
    BY ONLY <2>3, <2>4, <2>5, <2>6, <2>7, <2>8, <2>9, <2>10 DEF IInv
<1> QED
  BY <1>6, <1>7

(* With both locks free no sleeper is between its two assignments, so that  *)
(* the two links say the same.                                              *)
LEMMA IInvLinksAgree == IInv => LinksAgree
<1> SUFFICES ASSUME IInv, NEW p \in Sleeper, NEW r \in Rendez,
                    rlk[r] = None, plk[p] = None
             PROVE  rp[r] = p <=> pr[p] = r
  BY DEF IInv, LinksAgree
<1> USE SleepWakeupAssumption DEF Actor
<1>1. LinkAt(p, r)
  BY DEF IInv, LinkInv
<1>2. pc[p] \notin WithP
  BY DEF IInv, PLockInv, Process
<1> QED
  BY <1>1, <1>2 DEF LinkAt, Linking, WithP

(* The invariant holds in every reachable state.                            *)
LEMMA SpecIInv == Spec => []IInv
  BY InitIInv, StepIInv, PTL DEF Spec

(* r->p and p->r agree whenever both their locks are free, for any          *)
(* number of sleepers, threads and Rendezes: sleep writes them in two       *)
(* places, wakeup and postnote both at once, after locking in either order. *)
THEOREM SleepWakeupLinks == Spec => []LinksAgree
  BY SpecIInv, IInvLinksAgree, PTL

(* "wakeup: state" and "postnote: state" are unreachable: the two ways      *)
(* of waking a process never both claim it.                                 *)
THEOREM SleepWakeupNoPanic == Spec => []NoPanic
<1>1. IInv => NoPanic
  BY DEF IInv
<1> QED
  BY SpecIInv, <1>1, PTL

----------------------------------------------------------------------------
(* No wakeup and no note is lost.  NoLostWakeup alone is not inductive: the *)
(* step that commits a process to sleep after its condition came true needs *)
(* the wakeup to be still on its way, which LateWakeupWaits adds.           *)
WakeInv == NoLostWakeup /\ LateWakeupWaits

(* Whoever is due after a step of b either has somebody coming by that step *)
(* or was due before it, and then b still comes if it was b that came.      *)
LEMMA WakesKept ==
    ASSUME WakeInv, NEW b \in Actor, OthersStay(b),
           \A q \in Sleeper : Due(q)' =>
              (\E t \in Thread : Reaching(t, q)') \/ (Due(q) /\ on'[q] = on[q]),
           \A q \in Sleeper : DueSoon(q)' =>
              (\E t \in Thread : AtRendez(t, q)') \/ (DueSoon(q) /\ on'[q] = on[q]),
           b \in Thread => \A q \in Sleeper :
              /\ Due(q)' /\ Reaching(b, q) => Reaching(b, q)'
              /\ DueSoon(q)' /\ AtRendez(b, q) => AtRendez(b, q)'
    PROVE  WakeInv'
<1>1. ASSUME NEW q \in Sleeper, Due(q)' PROVE \E t \in Thread : Reaching(t, q)'
  <2>1. CASE Due(q) /\ on'[q] = on[q]
    <3>1. PICK t \in Thread : Reaching(t, q)
      BY <2>1 DEF WakeInv, NoLostWakeup
    <3>2. t # b => Reaching(t, q)'
      BY <2>1, <3>1 DEF OthersStay, Reaching, AtRendez, Actor
    <3> QED  BY <1>1, <3>1, <3>2
  <2> QED  BY <1>1, <2>1
<1>2. ASSUME NEW q \in Sleeper, DueSoon(q)' PROVE \E t \in Thread : AtRendez(t, q)'
  <2>1. CASE DueSoon(q) /\ on'[q] = on[q]
    <3>1. PICK t \in Thread : AtRendez(t, q)
      BY <2>1 DEF WakeInv, LateWakeupWaits
    <3>2. t # b => AtRendez(t, q)'
      BY <2>1, <3>1 DEF OthersStay, AtRendez, Actor
    <3> QED  BY <1>2, <3>1, <3>2
  <2> QED  BY <1>2, <2>1
<1> QED  BY <1>1, <1>2 DEF WakeInv, NoLostWakeup, LateWakeupWaits

(* A step of a sleeper that is not about to commit itself.                  *)
LEMMA SleeperQuietWakes ==
    ASSUME IInv, WakeInv, NEW p \in Sleeper,
           \/ SleepLockR(p) \/ SleepLockP(p) \/ SleepUnlockP(p) \/ SleepUnlockR(p)
           \/ \E r \in Rendez : SleepCall(p, r)
    PROVE  WakeInv'
<1> USE SleepWakeupAssumption DEF Actor
<1>1. OthersStay(p)
  BY DEF SleepLockR, SleepLockP, SleepUnlockP, SleepUnlockR, SleepCall, Goto,
         requests, links, locks, args, IInv, TypeOK, OthersStay
<1>2. cond' = cond /\ pending' = pending /\ state' = state
  BY DEF SleepLockR, SleepLockP, SleepUnlockP, SleepUnlockR, SleepCall,
         requests, links
<1>3. pc'[p] # "sleep-note"
  BY DEF SleepLockR, SleepLockP, SleepUnlockP, SleepUnlockR, SleepCall, Goto,
         IInv, TypeOK
<1>4. on' = on \/ pc[p] = "idle"
  BY DEF SleepLockR, SleepLockP, SleepUnlockP, SleepUnlockR, SleepCall, Goto, args
<1>5. state[p] = "Wakeme" => on'[p] = on[p]
  BY <1>4 DEF IInv, StateInv, StateAt
<1>6. \A q \in Sleeper : Due(q)' => Due(q) /\ on'[q] = on[q]
  BY <1>1, <1>2, <1>5 DEF Due, OthersStay
<1>7. \A q \in Sleeper : DueSoon(q)' => DueSoon(q) /\ on'[q] = on[q]
  BY <1>1, <1>2, <1>3 DEF DueSoon, OthersStay
<1> QED  BY <1>1, <1>6, <1>7, WakesKept

(* sleep looks at its condition: it goes on to commit itself only if that   *)
(* does not hold.                                                           *)
LEMMA SleepCondWakes ==
    ASSUME IInv, WakeInv, NEW p \in Sleeper, SleepCond(p)
    PROVE  WakeInv'
<1> USE SleepWakeupAssumption DEF Actor
<1>1. OthersStay(p) /\ on'[p] = on[p]
  BY DEF SleepCond, Goto, args, IInv, TypeOK, OthersStay
<1>2. cond' = cond /\ pending' = pending /\ state' = state
  BY DEF SleepCond, NeverMind, requests, links
<1>3. cond[on[p]] => pc'[p] # "sleep-note"
  BY DEF SleepCond, Goto, IInv, TypeOK
<1>4. \A q \in Sleeper : Due(q)' => Due(q) /\ on'[q] = on[q]
  BY <1>1, <1>2 DEF Due, OthersStay
<1>5. \A q \in Sleeper : DueSoon(q)' => DueSoon(q) /\ on'[q] = on[q]
  BY <1>1, <1>2, <1>3 DEF DueSoon, OthersStay
<1> QED  BY <1>1, <1>4, <1>5, WakesKept

(* sleep commits itself, with no note pending: if its condition has come    *)
(* true since it looked, the wakeup is still waiting for r->lk.             *)
LEMMA SleepNoteWakes ==
    ASSUME IInv, WakeInv, NEW p \in Sleeper, SleepNote(p)
    PROVE  WakeInv'
<1> USE SleepWakeupAssumption DEF Actor
<1>1. OthersStay(p) /\ on' = on /\ whom' = whom
  BY DEF SleepNote, Goto, args, IInv, TypeOK, OthersStay
<1>2. cond' = cond /\ pending' = pending
  BY DEF SleepNote, requests
<1>3. pc[p] = "sleep-note" /\ pc'[p] = "sleep-unlock-p"
  BY DEF SleepNote, Goto, IInv, TypeOK
<1>4. \A q \in Sleeper \ {p} : state'[q] = state[q]
  BY DEF SleepNote, NeverMind, Commit, IInv, TypeOK
<1>5. state'[p] = "Wakeme" => ~pending[p]
  <2>1. state[p] # "Wakeme"
    BY <1>3 DEF IInv, StateInv, StateAt
  <2> QED  BY <2>1 DEF SleepNote, NeverMind
<1>6. ASSUME Due(p)' PROVE \E t \in Thread : Reaching(t, p)'
  <2>1. DueSoon(p)
    BY <1>1, <1>2, <1>3, <1>5, <1>6 DEF Due, DueSoon
  <2>2. PICK t \in Thread : AtRendez(t, p)
    BY <2>1 DEF WakeInv, LateWakeupWaits
  <2> QED  BY <1>1, <2>2 DEF AtRendez, Reaching, OthersStay
<1>7. ASSUME NEW q \in Sleeper, q # p, Due(q)' PROVE Due(q)
  BY <1>1, <1>2, <1>4, <1>7 DEF Due
<1>8. \A q \in Sleeper : DueSoon(q)' => DueSoon(q)
  BY <1>1, <1>2, <1>3 DEF DueSoon, OthersStay
<1> QED  BY <1>1, <1>6, <1>7, <1>8, WakesKept

(* A sleeper that runs again is not due; nor is one whose sleep returns,    *)
(* and what it uses up there nobody else waits for.                         *)
LEMMA SleepOverWakes ==
    ASSUME IInv, WakeInv, NEW p \in Sleeper, SleepAwake(p) \/ SleepEnd(p)
    PROVE  WakeInv'
<1> USE SleepWakeupAssumption DEF Actor
<1>1. OthersStay(p)
  BY DEF SleepAwake, SleepEnd, Goto, args, IInv, TypeOK, OthersStay
<1>2. pc'[p] \in {"sleep-end", "idle"} /\ state'[p] # "Wakeme"
  BY DEF SleepAwake, SleepEnd, Goto, links, IInv, TypeOK, StateInv, StateAt
<1>3. ASSUME NEW q \in Sleeper, q # p
      PROVE  /\ state'[q] = state[q] /\ pending'[q] = pending[q]
             /\ on[q] \in Rendez => cond'[on[q]] = cond[on[q]]
  <2>1. CASE SleepAwake(p)
    BY <1>3, <2>1 DEF SleepAwake, requests, IInv, TypeOK
  <2>2. CASE SleepEnd(p)
    <3>1. state' = state /\ pending'[q] = pending[q]
      BY <1>3, <2>2 DEF SleepEnd, links, IInv, TypeOK
    <3>2. on[q] \in Rendez => on[q] # on[p]
      BY <1>3 DEF IInv, OneSleeperEach
    <3>3. \E c \in BOOLEAN : cond' = [cond EXCEPT ![on[p]] = c]
      <4>1. pc[p] = "sleep-end"
        BY <2>2 DEF SleepEnd, Goto
      <4>2. on[p] \in Rendez
        BY <4>1 DEF IInv, TypeOK, SleeperInv, SleeperAt
      <4> QED  BY <2>2, <4>2 DEF SleepEnd, IInv, TypeOK
    <3> QED  BY <3>1, <3>2, <3>3 DEF IInv, TypeOK
  <2> QED  BY <2>1, <2>2
<1>4. ASSUME NEW q \in Sleeper, Due(q)' PROVE Due(q) /\ on'[q] = on[q]
  <2>1. q # p /\ state[q] = "Wakeme" /\ on'[q] = on[q]
    BY <1>1, <1>2, <1>3, <1>4 DEF Due, OthersStay
  <2>2. on[q] \in Rendez
    BY <2>1 DEF IInv, TypeOK, StateInv, StateAt, SleeperInv, SleeperAt
  <2> QED  BY <1>3, <1>4, <2>1, <2>2 DEF Due
<1>5. ASSUME NEW q \in Sleeper, DueSoon(q)' PROVE DueSoon(q) /\ on'[q] = on[q]
  <2>1. q # p /\ pc[q] = "sleep-note" /\ on'[q] = on[q]
    BY <1>1, <1>2, <1>5 DEF DueSoon, OthersStay
  <2>2. on[q] \in Rendez
    BY <2>1 DEF IInv, TypeOK, SleeperInv, SleeperAt
  <2> QED  BY <1>3, <1>5, <2>1, <2>2 DEF DueSoon
<1> QED  BY <1>1, <1>4, <1>5, WakesKept

(* The step that makes somebody due is also the one that sets out to wake.  *)
LEMMA CallWakes ==
    ASSUME IInv, WakeInv, NEW t \in Thread,
           \/ \E r \in Rendez : WakeupCall(t, r)
           \/ \E p \in Sleeper : PostnoteCall(t, p)
    PROVE  WakeInv'
<1> USE SleepWakeupAssumption DEF Actor
<1>1. OthersStay(t) /\ pc[t] = "idle" /\ state' = state
  BY DEF WakeupCall, PostnoteCall, Goto, args, links, IInv, TypeOK, OthersStay
<1>2. \A q \in Sleeper : ~Reaching(t, q) /\ pc'[q] = pc[q] /\ on'[q] = on[q]
  BY <1>1 DEF Reaching, AtRendez, OthersStay
<1>3. CASE \E r \in Rendez : WakeupCall(t, r)
  <2>1. PICK r \in Rendez : WakeupCall(t, r)
    BY <1>3
  <2>2. /\ pc'[t] = "wakeup-lock-r" /\ on'[t] = r /\ pending' = pending
        /\ cond' = [cond EXCEPT ![r] = TRUE]
    BY <2>1 DEF WakeupCall, Goto, IInv, TypeOK
  <2>3. \A q \in Sleeper : on[q] = r => AtRendez(t, q)'
    BY <1>2, <2>2 DEF AtRendez
  <2>4. \A s \in Rendez : s # r => cond'[s] = cond[s]
    BY <2>2 DEF IInv, TypeOK
  <2>5. ASSUME NEW q \in Sleeper, Due(q)' PROVE Reaching(t, q)' \/ Due(q)
    <3>1. on[q] \in Rendez
      BY <1>1, <2>5 DEF Due, IInv, TypeOK, StateInv, StateAt, SleeperInv, SleeperAt
    <3> QED  BY <1>1, <1>2, <2>2, <2>3, <2>4, <2>5, <3>1 DEF Due, Reaching
  <2>6. ASSUME NEW q \in Sleeper, DueSoon(q)' PROVE AtRendez(t, q)' \/ DueSoon(q)
    <3>1. on[q] \in Rendez
      BY <1>2, <2>6 DEF DueSoon, IInv, TypeOK, SleeperInv, SleeperAt
    <3> QED  BY <1>2, <2>3, <2>4, <2>6, <3>1 DEF DueSoon
  <2> QED  BY <1>1, <1>2, <2>5, <2>6, WakesKept DEF Reaching
<1>4. CASE \E p \in Sleeper : PostnoteCall(t, p)
  <2>1. PICK p \in Sleeper : PostnoteCall(t, p)
    BY <1>4
  <2>2. /\ pc'[t] = "note-lock-p" /\ whom'[t] = p /\ cond' = cond
        /\ \A q \in Sleeper \ {p} : pending'[q] = pending[q]
    BY <2>1 DEF PostnoteCall, Goto, IInv, TypeOK
  <2>3. \A q \in Sleeper : Due(q)' => Reaching(t, q)' \/ Due(q)
    BY <1>1, <1>2, <2>2 DEF Due, Reaching
  <2>4. \A q \in Sleeper : DueSoon(q)' => DueSoon(q)
    BY <1>1, <1>2, <2>2 DEF DueSoon
  <2> QED  BY <1>1, <1>2, <2>3, <2>4, WakesKept DEF Reaching
<1> QED  BY <1>3, <1>4

(* A thread on its way that neither readies nor calls.  What it reads there *)
(* leads it to whoever is due: r->p and p->r are set for one that sleeps,   *)
(* and one about to commit itself has r->lk.                                *)
LEMMA ThreadQuietWakes ==
    ASSUME IInv, WakeInv, NEW t \in Thread,
           \/ WakeupLockR(t) \/ WakeupLockP(t) \/ WakeupUnlockR(t)
           \/ PostnoteLockP(t) \/ PostnoteAgain(t)
           \/ PostnoteUnlockR(t) \/ PostnoteUnlockP(t)
    PROVE  WakeInv'
<1> USE SleepWakeupAssumption DEF Actor
<1>1. OthersStay(t)
  BY DEF WakeupLockR, WakeupLockP, WakeupUnlockR, PostnoteLockP, PostnoteAgain,
         PostnoteUnlockR, PostnoteUnlockP, Goto, args, IInv, TypeOK, OthersStay
<1>2. cond' = cond /\ pending' = pending /\ state' = state
  BY DEF WakeupLockR, WakeupLockP, WakeupUnlockR, PostnoteLockP, PostnoteAgain,
         PostnoteUnlockR, PostnoteUnlockP, requests, links
<1>3. \A q \in Sleeper : Due(q)' => Due(q) /\ on'[q] = on[q]
  BY <1>1, <1>2 DEF Due, OthersStay
<1>4. \A q \in Sleeper : DueSoon(q)' => DueSoon(q) /\ on'[q] = on[q]
  BY <1>1, <1>2 DEF DueSoon, OthersStay
<1>5. ASSUME NEW q \in Sleeper, Due(q), Reaching(t, q) PROVE Reaching(t, q)'
  <2>1. on[q] \in Rendez /\ on'[q] = on[q]
    BY <1>1, <1>5 DEF Due, IInv, TypeOK, StateInv, StateAt, SleeperInv, SleeperAt,
                      OthersStay
  <2>2. rp[on[q]] = q /\ pr[q] = on[q]
    BY <1>5, <2>1 DEF Due, IInv, LinkInv, LinkAt, Linking
  <2>3. CASE WakeupLockR(t)
    BY <1>5, <2>1, <2>2, <2>3 DEF WakeupLockR, Goto, args, Reaching, AtRendez,
                                  IInv, TypeOK
  <2>4. CASE WakeupLockP(t)
    BY <1>5, <2>1, <2>4 DEF WakeupLockP, Goto, args, Reaching, AtRendez,
                            IInv, TypeOK
  <2>5. CASE PostnoteLockP(t)
    BY <1>5, <2>2, <2>1, <2>5 DEF PostnoteLockP, Goto, args, Reaching, AtRendez,
                            IInv, TypeOK
  <2>6. CASE PostnoteAgain(t)
    BY <1>5, <2>6 DEF PostnoteAgain, Goto, args, Reaching, AtRendez, IInv, TypeOK
  <2>7. CASE WakeupUnlockR(t) \/ PostnoteUnlockR(t) \/ PostnoteUnlockP(t)
    BY <1>5, <2>7 DEF WakeupUnlockR, PostnoteUnlockR, PostnoteUnlockP, Goto,
                      Reaching, AtRendez
  <2> QED  BY <2>3, <2>4, <2>5, <2>6, <2>7
<1>6. ASSUME NEW q \in Sleeper, DueSoon(q), AtRendez(t, q) PROVE AtRendez(t, q)'
  <2>1. on[q] \in Rendez /\ rlk[on[q]] = q
    BY <1>6 DEF DueSoon, IInv, TypeOK, SleeperInv, SleeperAt, RLockInv, WithR
  <2>2. ~WakeupLockR(t)
    BY <1>6, <2>1 DEF AtRendez, WakeupLockR, LockR
  <2> QED
    BY <1>6, <2>2 DEF AtRendez, WakeupLockP, WakeupUnlockR, PostnoteLockP,
       PostnoteAgain, PostnoteUnlockR, PostnoteUnlockP, Goto
<1> QED  BY <1>1, <1>3, <1>4, <1>5, <1>6, WakesKept

(* The steps that ready a process ready the only one they were coming to.   *)
LEMMA ReadyWakes ==
    ASSUME IInv, WakeInv, NEW t \in Thread, WakeupReady(t) \/ PostnoteTryR(t)
    PROVE  WakeInv'
<1> USE SleepWakeupAssumption DEF Actor
<1>1. OthersStay(t)
  BY DEF WakeupReady, PostnoteTryR, Goto, args, IInv, TypeOK, OthersStay
<1>2. cond' = cond /\ pending' = pending
  BY DEF WakeupReady, PostnoteTryR, requests
<1>3. whom[t] \in Sleeper /\ state' = [state EXCEPT ![whom[t]] = "Ready"]
  <2>1. CASE WakeupReady(t)
    <3>1. pc[t] = "wakeup-ready"
      BY <2>1 DEF WakeupReady, Goto
    <3>2. state[whom[t]] = "Wakeme" /\ pr[whom[t]] = on[t] /\ rp[on[t]] = whom[t]
      BY <3>1, WakeupFinds
    <3> QED  BY <2>1, <3>1, <3>2, WakersHave DEF WakeupReady, Rouse
  <2>2. CASE PostnoteTryR(t)
    <3>1. pc[t] = "note-try-r" /\ rlk[pr[whom[t]]] = None
      BY <2>2 DEF PostnoteTryR, Goto, LockR
    <3>2. state[whom[t]] = "Wakeme" /\ rp[pr[whom[t]]] = whom[t]
      BY <3>1, PostnoteFinds
    <3> QED  BY <2>2, <3>1, <3>2, WakersHave DEF PostnoteTryR, Rouse
  <2> QED  BY <2>1, <2>2
<1>4. \A q \in Sleeper : state'[q] = IF q = whom[t] THEN "Ready" ELSE state[q]
  BY <1>3 DEF IInv, TypeOK
<1>5. \A q \in Sleeper : Due(q)' => q # whom[t] /\ Due(q) /\ on'[q] = on[q]
  BY <1>1, <1>2, <1>4 DEF Due, OthersStay
<1>6. \A q \in Sleeper : DueSoon(q)' => DueSoon(q) /\ on'[q] = on[q]
  BY <1>1, <1>2 DEF DueSoon, OthersStay
<1>7. ASSUME NEW q \in Sleeper, Due(q), q # whom[t] PROVE ~Reaching(t, q)
  <2>1. pc[t] \in {"wakeup-ready", "note-try-r"}
    BY DEF WakeupReady, PostnoteTryR, Goto
  <2>2. pc[t] = "wakeup-ready" => on[t] # on[q]
    <3>1. CASE pc[t] = "wakeup-ready"
      <4>1. on[whom[t]] = on[t] /\ on[t] \in Rendez
        BY <3>1, WakeupFinds, WakersHave
      <4> QED  BY <1>3, <1>7, <4>1 DEF IInv, OneSleeperEach
    <3> QED  BY <3>1
  <2> QED  BY <1>7, <2>1, <2>2 DEF Reaching, AtRendez
<1>8. \A q \in Sleeper : ~AtRendez(t, q)
  BY DEF WakeupReady, PostnoteTryR, Goto, AtRendez
<1> QED  BY <1>1, <1>5, <1>6, <1>7, <1>8, WakesKept

LEMMA InitWakeInv == Init => WakeInv
  BY DEF Init, WakeInv, NoLostWakeup, LateWakeupWaits, Due, DueSoon, Actor

(* Every step preserves that nobody is forgotten.                           *)
LEMMA StepWakeInv == IInv /\ WakeInv /\ [Next]_vars => WakeInv'
<1> SUFFICES ASSUME IInv, WakeInv, [Next]_vars PROVE WakeInv'
  OBVIOUS
<1>1. ASSUME NEW p \in Sleeper, SleepStep(p) PROVE WakeInv'
  BY <1>1, SleeperQuietWakes, SleepCondWakes, SleepNoteWakes, SleepOverWakes
  DEF SleepStep
<1>2. ASSUME NEW p \in Sleeper, NEW r \in Rendez, SleepCall(p, r) PROVE WakeInv'
  BY <1>2, SleeperQuietWakes
<1>3. ASSUME NEW t \in Thread, ThreadStep(t) PROVE WakeInv'
  BY <1>3, ThreadQuietWakes, ReadyWakes DEF ThreadStep
<1>4. ASSUME NEW t \in Thread, NEW r \in Rendez, WakeupCall(t, r) PROVE WakeInv'
  BY <1>4, CallWakes
<1>5. ASSUME NEW t \in Thread, NEW p \in Sleeper, PostnoteCall(t, p) PROVE WakeInv'
  BY <1>5, CallWakes
<1>6. CASE Next
  BY ONLY <1>1, <1>2, <1>3, <1>4, <1>5, <1>6 DEF Next
<1>7. CASE UNCHANGED vars
  <2>1. /\ cond' = cond /\ pending' = pending /\ state' = state
        /\ pc' = pc /\ on' = on /\ whom' = whom
    BY <1>7 DEF vars, requests, links, args
  <2> QED  BY ONLY <2>1, WakeInv DEF WakeInv, NoLostWakeup, LateWakeupWaits,
              Due, DueSoon, Reaching, AtRendez
<1> QED
  BY <1>6, <1>7

(* Whatever the order in which sleep tests its condition and commits        *)
(* itself, wakeup makes it true and looks at r->p, and postnote sets        *)
(* p->notepending and looks at p->r: a process that sleeps with its         *)
(* condition true or a note pending has a thread on the way to wake it.     *)
THEOREM SleepWakeupNoLostWakeup == Spec => []NoLostWakeup
<1>1. WakeInv => NoLostWakeup
  BY DEF WakeInv
<1> QED
  BY SpecIInv, InitWakeInv, StepWakeInv, <1>1, PTL DEF Spec

----------------------------------------------------------------------------
(* Semaphores.                                                              *)

(* The wakeups that are on their way are a number.                          *)
LEMMA SemFinite ==
    ASSUME NEW a, NEW P \in SUBSET Proc
    PROVE  /\ IsFiniteSet(Calls(a, P)) /\ IsFiniteSet(Looking(a)) /\ IsFiniteSet(Heard(a))
           /\ Cardinality(Calls(a, P)) \in Nat /\ Cardinality(Looking(a)) \in Nat
           /\ Cardinality(Heard(a)) \in Nat /\ Coming(a, P) \in Nat
<1>1. IsFiniteSet(P)
  BY SemaphoresAssumption, FS_Subset
<1>2. IsFiniteSet(1..MaxValue)
  BY SemaphoresAssumption, FS_Interval
<1>3. IsFiniteSet(P \X (1..MaxValue))
  BY <1>1, <1>2, FS_Product
<1>4. Calls(a, P) \in SUBSET (P \X (1..MaxValue))
  BY DEF Calls
<1>5. Looking(a) \in SUBSET Proc /\ Heard(a) \in SUBSET Proc
  BY DEF Looking, Heard
<1>6. IsFiniteSet(Calls(a, P)) /\ IsFiniteSet(Looking(a)) /\ IsFiniteSet(Heard(a))
  BY <1>3, <1>4, <1>5, SemaphoresAssumption, FS_Subset
<1> QED  BY <1>6, FS_CardinalityType DEF Coming

(* The same after a step.                                                   *)
LEMMA SemFiniteNext ==
    ASSUME NEW a, NEW P \in SUBSET Proc
    PROVE  /\ IsFiniteSet(Calls(a, P)') /\ IsFiniteSet(Looking(a)') /\ IsFiniteSet(Heard(a)')
           /\ Cardinality(Calls(a, P)') \in Nat /\ Cardinality(Looking(a)') \in Nat
           /\ Cardinality(Heard(a)') \in Nat
           /\ Coming(a, P)' =
                Cardinality(Calls(a, P)') + Cardinality(Looking(a)') + Cardinality(Heard(a)')
<1>1. IsFiniteSet(P) /\ IsFiniteSet(1..MaxValue)
  BY SemaphoresAssumption, FS_Subset, FS_Interval
<1>2. IsFiniteSet(P \X (1..MaxValue))
  BY <1>1, FS_Product
<1>3. Calls(a, P)' \in SUBSET (P \X (1..MaxValue))
  BY DEF Calls
<1>4. Looking(a)' \in SUBSET Proc /\ Heard(a)' \in SUBSET Proc
  BY DEF Looking, Heard
<1>5. IsFiniteSet(Calls(a, P)') /\ IsFiniteSet(Looking(a)') /\ IsFiniteSet(Heard(a)')
  BY <1>2, <1>3, <1>4, SemaphoresAssumption, FS_Subset
<1> QED  BY <1>5, FS_CardinalityType DEF Coming

(* Calls for a set of releasers: whose calls and address stay, or who have  *)
(* none, are in it as they were.                                            *)
LEMMA SemCallsSame ==
    ASSUME NEW a, NEW P \in SUBSET Proc, SemTypeOK,
           \A q \in P : Owed(q)' = Owed(q) /\ (addr'[q] = addr[q] \/ Owed(q) = 0)
    PROVE  Calls(a, P)' = Calls(a, P)
<1>1. Calls(a, P)' = {c \in P \X (1..MaxValue) : addr'[c[1]] = a /\ c[2] <= Owed(c[1])'}
  BY DEF Calls
<1>2. \A c \in P \X (1..MaxValue) : c[1] \in P /\ c[2] \in 1..MaxValue /\ ~(c[2] <= 0)
  BY SemaphoresAssumption
<1>3. \A c \in P \X (1..MaxValue) :
        addr'[c[1]] = a /\ c[2] <= Owed(c[1])' <=> addr[c[1]] = a /\ c[2] <= Owed(c[1])
  BY <1>2
<1> QED  BY <1>1, <1>3 DEF Calls

(* What a step must not do.  It makes nobody sleep unheard; it does not     *)
(* take more from the wakeups than from the semaphore, whether those of a   *)
(* walk that is going on are counted or not; and it changes nothing in      *)
(* front of the walk that matters.                                          *)
SemGain(a, P) == Coming(a, P) >= value[a] => Coming(a, P)' >= value'[a]

SemAhead(p) ==
    /\ at[p] \in {"scan", "wakeup"} /\ addr'[p] = addr[p]
    /\ \A a \in Addr, q \in Proc :
         addr[p] = a /\ q \in Unheard(a)' /\ Contains(Ahead(p), q) => Contains(Ahead(p)', q)

Walks == {Proc \ {p} : p \in {q \in Proc : at[q] \in {"scan", "wakeup"}}}

LEMMA SemStepKeeps ==
    ASSUME SemIInv, SemTypeOK', SemLockInv', SemListInv', SemWalkInv',
           \A a \in Addr : Unheard(a)' \subseteq Unheard(a),
           \A a \in Addr, P \in Walks \cup {Proc} : SemGain(a, P),
           \A p \in Proc : at'[p] \in {"scan", "wakeup"} => SemAhead(p)
    PROVE  SemIInv'
<1>1. WakeupsSuffice'
  <2> SUFFICES ASSUME NEW a \in Addr, Unheard(a)' # {} PROVE Coming(a, Proc)' >= value'[a]
    BY DEF WakeupsSuffice
  <2>1. Unheard(a) # {}
    OBVIOUS
  <2>2. Coming(a, Proc) >= value[a]
    BY <2>1 DEF SemIInv, WakeupsSuffice
  <2> QED  BY <2>2 DEF SemGain
<1>2. SemSpareInv'
  <2> SUFFICES ASSUME NEW p \in Proc, NEW a \in Addr, at'[p] \in {"scan", "wakeup"}, addr'[p] = a
               PROVE  \/ Coming(a, Proc \ {p})' >= value'[a]
                      \/ \A q \in Unheard(a)' : Contains(Ahead(p)', q)
    BY DEF SemSpareInv
  <2>1. SemAhead(p)
    OBVIOUS
  <2>2. at[p] \in {"scan", "wakeup"} /\ addr[p] = a /\ Proc \ {p} \in Walks
        /\ \A q \in Unheard(a)' : q \in Proc
    BY <2>1 DEF SemAhead, Walks, Unheard
  <2>3. CASE Coming(a, Proc \ {p}) >= value[a]
    BY <2>2, <2>3 DEF SemGain
  <2>4. CASE \A q \in Unheard(a) : Contains(Ahead(p), q)
    BY <2>1, <2>2, <2>4 DEF SemAhead
  <2> QED  BY <2>2, <2>3, <2>4 DEF SemIInv, SemSpareInv
<1> QED  BY <1>1, <1>2 DEF SemIInv

(* A step of s changes nothing of the others.                               *)
SemFrame(s) == \A q \in Proc \ {s} :
    /\ at'[q] = at[q] /\ addr'[q] = addr[q] /\ calls'[q] = calls[q] /\ rest'[q] = rest[q]
    /\ waiting'[q] = waiting[q]

(* Who walks along the list has its lock.                                   *)
LEMMA SemWalker ==
    ASSUME SemIInv, NEW P \in Walks \cup {Proc}
    PROVE  /\ P \in SUBSET Proc
           /\ \A p \in Proc : p \in P \/ (lk = p /\ at[p] \in {"scan", "wakeup"} /\ P = Proc \ {p})
BY DEF Walks, SemIInv, SemLockInv

(* Steps before and after the look at the semaphore, and around the sleep:  *)
(* whoever has been heard stays so, and nobody goes to sleep who has not    *)
(* looked.                                                                  *)
LEMMA SemQuietKeeps ==
    ASSUME SemIInv, SemTypeOK', SemListInv', NEW s \in Proc, SemFrame(s),
           lk' = lk, calls'[s] = calls[s], queue' = queue \/ lk = Nobody,
           {at[s], at'[s]} \cap {"semwakeup", "scan", "wakeup", "try-again"} = {},
           at[s] \in Listed \cup {"pass-on"} /\ ~waiting[s] =>
             addr'[s] = addr[s] /\ at'[s] \in Listed \cup {"pass-on"} /\ ~waiting'[s],
           at'[s] \in {"sleep", "asleep"} /\ waiting'[s] =>
             addr'[s] = addr[s] /\ at[s] \in {"sleep", "asleep"} /\ waiting[s],
           \A a \in Addr : value'[a] <= value[a]
    PROVE  SemIInv'
<1>1. /\ SemTypeOK /\ SemLockInv /\ SemListInv /\ SemWalkInv
      /\ at[s] \notin {"semwakeup", "scan", "wakeup", "try-again"}
      /\ at'[s] \notin {"semwakeup", "scan", "wakeup", "try-again"}
  BY DEF SemIInv, WakeupsSuffice
<1>2. SemLockInv'
  BY <1>1 DEF SemLockInv, SemFrame
<1>3. \A p \in Proc : /\ at'[p] \in {"scan", "wakeup"} => p # s /\ lk = p /\ lk # Nobody
                      /\ p # s => at'[p] = at[p] /\ rest'[p] = rest[p] /\ calls'[p] = calls[p]
  BY <1>1, SemaphoresAssumption DEF SemLockInv, SemFrame
<1>4. SemWalkInv'
  BY <1>1, <1>3 DEF SemWalkInv
<1>5. \A q \in Proc : Owed(q)' = Owed(q) /\ (addr'[q] = addr[q] \/ Owed(q) = 0)
  BY <1>1 DEF Owed, SemFrame, SemWalkInv
<1>6. \A a \in Addr : Unheard(a)' \subseteq Unheard(a)
  BY DEF Unheard, SemFrame
<1>7. \A a \in Addr : Looking(a) \subseteq Looking(a)' /\ Heard(a) \subseteq Heard(a)'
  BY <1>1 DEF Looking, Heard, SemFrame
<1>8. ASSUME NEW a \in Addr, NEW P \in Walks \cup {Proc} PROVE SemGain(a, P)
  <2>1. P \in SUBSET Proc
    BY SemWalker
  <2>2. Calls(a, P)' = Calls(a, P)
    BY <1>1, <1>5, <2>1, SemCallsSame
  <2>3. /\ Cardinality(Looking(a)) <= Cardinality(Looking(a)')
        /\ Cardinality(Heard(a)) <= Cardinality(Heard(a)')
    BY <1>7, <2>1, SemFiniteNext, FS_Subset
  <2>4. value[a] \in Nat /\ value'[a] \in Nat /\ value'[a] <= value[a]
    BY <1>1, SemaphoresAssumption DEF SemTypeOK
  <2> QED  BY <2>1, <2>2, <2>3, <2>4, SemFinite, SemFiniteNext DEF SemGain, Coming
<1>9. ASSUME NEW p \in Proc, at'[p] \in {"scan", "wakeup"} PROVE SemAhead(p)
  BY <1>3, <1>9 DEF SemAhead, SemFrame, Ahead
<1> QED  BY <1>2, <1>4, <1>6, <1>8, <1>9, SemStepKeeps

(* What the steps have in common.                                           *)
LEMMA SemGotoFrame ==
    ASSUME SemTypeOK, NEW s \in Proc, NEW from, NEW to \in SemPlaces, SemGoto(s, from, to)
    PROVE  /\ at[s] = from /\ at'[s] = to /\ \A q \in Proc \ {s} : at'[q] = at[q]
           /\ at' \in [Proc -> SemPlaces]
BY DEF SemGoto, SemTypeOK

(* canacquire that finds the semaphore positive takes one from it.          *)
LEMMA SemAcquired ==
    ASSUME SemTypeOK, NEW s \in Proc, Acquired(s)
    PROVE  /\ value' \in [Addr -> 0..MaxValue] /\ got' \in [Proc -> BOOLEAN]
           /\ \A a \in Addr : /\ value[a] \in Nat
                              /\ value'[a] = IF a = addr[s] THEN value[a] - 1 ELSE value[a]
<1>1. /\ addr[s] \in Addr /\ value[addr[s]] > 0 /\ value[addr[s]] \in 0..MaxValue
      /\ value' = [value EXCEPT ![addr[s]] = value[addr[s]] - 1]
      /\ got' = [got EXCEPT ![s] = TRUE]
  BY DEF SemTypeOK, Acquired, Set
<1>2. value[addr[s]] - 1 \in 0..MaxValue
  BY <1>1, SemaphoresAssumption
<1>3. value' \in [Addr -> 0..MaxValue] /\ got' \in [Proc -> BOOLEAN]
  BY <1>1, <1>2 DEF SemTypeOK
<1>4. \A a \in Addr : value[a] \in Nat
  BY SemaphoresAssumption DEF SemTypeOK
<1> QED  BY <1>1, <1>3, <1>4 DEF SemTypeOK

(* A call begins, and looks for the first time.                             *)
LEMMA SemBeginKeeps ==
    ASSUME SemIInv, NEW s \in Proc, SemacquireCall(s) \/ Try(s) \/ Refuse(s)
    PROVE  SemIInv'
<1>1. SemTypeOK /\ SemListInv
  BY DEF SemIInv, WakeupsSuffice
<1>2. /\ queue' = queue /\ waiting' = waiting /\ lk' = lk /\ note' = note
      /\ calls' = calls /\ rest' = rest
  BY DEF SemacquireCall, Try, Refuse, sema, walk
<1>3. CASE SemacquireCall(s)
  <2>1. /\ at[s] = "idle" /\ at'[s] = "try" /\ \A q \in Proc \ {s} : at'[q] = at[q]
        /\ at' \in [Proc -> SemPlaces]
    BY <1>1, <1>3, SemGotoFrame DEF SemacquireCall, SemPlaces
  <2>2. PICK b \in Addr, k \in Kinds :
          addr' = [addr EXCEPT ![s] = b] /\ kind' = [kind EXCEPT ![s] = k]
    BY <1>3 DEF SemacquireCall, Set
  <2>3. value' = value /\ got' = [got EXCEPT ![s] = FALSE]
    BY <1>3 DEF SemacquireCall, Set
  <2>4. SemTypeOK'
    <3>1. /\ addr' \in [Proc -> Addr] /\ kind' \in [Proc -> Kinds \cup {"none"}]
          /\ got' \in [Proc -> BOOLEAN]
      BY <1>1, <2>2, <2>3 DEF SemTypeOK
    <3> QED  BY <1>1, <1>2, <2>1, <2>3, <3>1 DEF SemTypeOK
  <2>5. SemFrame(s)
    BY <1>1, <1>2, <2>1, <2>2 DEF SemFrame, SemTypeOK
  <2>6. SemListInv'
    BY <1>1, <1>2, <2>1 DEF SemListInv, Listed
  <2>7. \A a \in Addr : value'[a] <= value[a]
    BY <1>1, <2>3, SemaphoresAssumption DEF SemTypeOK
  <2> QED  BY <1>2, <2>1, <2>4, <2>5, <2>6, <2>7, SemQuietKeeps DEF Listed
<1>4. CASE Try(s) \/ Refuse(s)
  <2>1. /\ at[s] = "try" /\ at'[s] \in {"idle", "queue"} /\ \A q \in Proc \ {s} : at'[q] = at[q]
        /\ at' \in [Proc -> SemPlaces]
    <3>1. SemGoto(s, "try", "idle") \/ SemGoto(s, "try", "queue")
      BY <1>4 DEF Try, Refuse, Return
    <3> QED  BY <1>1, <3>1, SemGotoFrame DEF SemPlaces, Waits
  <2>2. addr' = addr /\ (kind' = kind \/ kind' = [kind EXCEPT ![s] = "none"])
    BY <1>4 DEF Try, Refuse, Return, Set
  <2>3. /\ value' \in [Addr -> 0..MaxValue] /\ got' \in [Proc -> BOOLEAN]
        /\ \A a \in Addr : value'[a] <= value[a]
    <3>1. CASE Acquired(s)
      BY <1>1, <3>1, SemAcquired
    <3>2. CASE ~Acquired(s)
      <4>1. value' = value /\ (got' = got \/ got' = [got EXCEPT ![s] = TRUE])
        BY <1>4, <3>2 DEF Try, Refuse, Set, NotAcquired
      <4>2. value' \in [Addr -> 0..MaxValue] /\ \A a \in Addr : value'[a] <= value[a]
        BY <1>1, <4>1, SemaphoresAssumption DEF SemTypeOK
      <4>3. got' \in [Proc -> BOOLEAN]
        BY <1>1, <4>1 DEF SemTypeOK
      <4> QED  BY <4>2, <4>3
    <3> QED  BY <3>1, <3>2
  <2>4. \A a \in Addr : value'[a] <= value[a]
    BY <2>3
  <2>5. SemTypeOK'
    <3>1. kind' \in [Proc -> Kinds \cup {"none"}]
      BY <1>1, <2>2 DEF SemTypeOK
    <3> QED  BY <1>1, <1>2, <2>1, <2>2, <2>3, <3>1 DEF SemTypeOK
  <2>6. SemFrame(s)
    BY <1>1, <1>2, <2>1, <2>2 DEF SemFrame, SemTypeOK
  <2>7. SemListInv'
    BY <1>1, <1>2, <2>1 DEF SemListInv, Listed
  <2> QED  BY <1>2, <2>1, <2>4, <2>5, <2>6, <2>7, SemQuietKeeps DEF Listed
<1> QED  BY <1>3, <1>4

(* semqueue and semdequeue, with the lock.                                  *)
LEMMA SemQueueKeeps ==
    ASSUME SemIInv, NEW s \in Proc, Semqueue(s) \/ Semdequeue(s)
    PROVE  SemIInv'
<1>1. SemTypeOK /\ SemListInv /\ queue \in Seq(Proc) /\ IsInjective(queue) /\ lk = Nobody
  BY DEF SemIInv, WakeupsSuffice, SemTypeOK, Semqueue, Semdequeue
<1>2. /\ value' = value /\ lk' = lk /\ note' = note /\ addr' = addr /\ kind' = kind
      /\ got' = got /\ calls' = calls /\ rest' = rest
      /\ waiting' = waiting \/ waiting' = [waiting EXCEPT ![s] = FALSE]
  BY DEF Semqueue, Semdequeue, call, walk, Set
<1>3. \A a \in Addr : value'[a] <= value[a]
  BY <1>1, <1>2, SemaphoresAssumption DEF SemTypeOK
<1>4. waiting' \in [Proc -> BOOLEAN]
  BY <1>1, <1>2 DEF SemTypeOK
<1>5. CASE Semqueue(s)
  <2>1. /\ at[s] = "queue" /\ at'[s] = "announce" /\ \A q \in Proc \ {s} : at'[q] = at[q]
        /\ at' \in [Proc -> SemPlaces]
    BY <1>1, <1>5, SemGotoFrame DEF Semqueue, SemPlaces, Waits
  <2>2. queue' = Append(queue, s) /\ waiting'[s] = FALSE /\ ~Contains(queue, s)
    BY <1>1, <1>5, <2>1 DEF Semqueue, Set, SemTypeOK, SemListInv, Listed
  <2>3. queue' \in Seq(Proc) /\ IsInjective(queue')
    BY <1>1, <2>2, InjectiveAppend
  <2>4. SemTypeOK'
    BY <1>1, <1>2, <1>4, <2>1, <2>3 DEF SemTypeOK
  <2>5. \A q \in Proc : Contains(queue', q) <=> Contains(queue, q) \/ q = s
    BY <1>1, <2>2, ContainsAppend
  <2>6. SemListInv'
    BY <1>1, <2>1, <2>5 DEF SemListInv, Listed
  <2>7. SemFrame(s)
    BY <1>1, <1>2, <2>1 DEF SemFrame, SemTypeOK
  <2> QED  BY <1>1, <1>2, <1>3, <2>1, <2>2, <2>4, <2>6, <2>7, SemQuietKeeps DEF Listed
<1>6. CASE Semdequeue(s)
  <2>1. /\ at[s] = "dequeue" /\ at'[s] = "pass-on" /\ \A q \in Proc \ {s} : at'[q] = at[q]
        /\ at' \in [Proc -> SemPlaces]
    BY <1>1, <1>6, SemGotoFrame DEF Semdequeue, SemPlaces
  <2>2. queue' = RemoveFirst(queue, s) /\ waiting' = waiting
    BY <1>6 DEF Semdequeue
  <2>3. queue' \in Seq(Proc) /\ IsInjective(queue')
        /\ \A q : Contains(queue', q) <=> Contains(queue, q) /\ q # s
    BY <1>1, <2>2, RemoveOne
  <2>4. SemTypeOK'
    BY <1>1, <1>2, <1>4, <2>1, <2>3 DEF SemTypeOK
  <2>5. SemListInv'
    BY <1>1, <2>1, <2>3 DEF SemListInv, Listed
  <2>6. SemFrame(s)
    BY <1>1, <1>2, <2>1 DEF SemFrame, SemTypeOK
  <2> QED  BY <1>1, <1>2, <1>3, <2>1, <2>2, <2>4, <2>5, <2>6, SemQuietKeeps DEF Listed
<1> QED  BY <1>5, <1>6

(* The sleep, and the ways out of it.                                       *)
LEMMA SemSleepKeeps ==
    ASSUME SemIInv, NEW s \in Proc,
           Sleep(s) \/ Timeout(s) \/ Interrupt(s) \/ Awake(s) \/ Expire(s) \/ Postnote(s)
    PROVE  SemIInv'
<1>1. SemTypeOK /\ SemListInv
  BY DEF SemIInv, WakeupsSuffice
<1>2. /\ value' = value /\ queue' = queue /\ waiting' = waiting /\ lk' = lk
      /\ addr' = addr /\ kind' = kind /\ calls' = calls /\ rest' = rest
      /\ note' = note \/ \E b \in BOOLEAN : note' = [note EXCEPT ![s] = b]
      /\ got' = got \/ got' = [got EXCEPT ![s] = TRUE]
  BY DEF Sleep, Timeout, Interrupt, Awake, Expire, Postnote, sema, call, walk, Set
<1>3. /\ at[s] \in {"sleep", "asleep", "awake"}
      /\ at'[s] \in {"sleep", "asleep", "awake", "announce", "dequeue"}
      /\ at'[s] \in {"sleep", "asleep"} => at[s] \in {"sleep", "asleep"}
      /\ \A q \in Proc \ {s} : at'[q] = at[q]
      /\ at' \in [Proc -> SemPlaces]
  BY <1>1 DEF Sleep, Timeout, Interrupt, Awake, Expire, Postnote, SemGoto, SemTypeOK, SemPlaces, Waits
<1>4. SemTypeOK'
  <2>1. note' \in [Proc -> BOOLEAN] /\ got' \in [Proc -> BOOLEAN]
    BY <1>1, <1>2 DEF SemTypeOK
  <2> QED  BY <1>1, <1>2, <1>3, <2>1 DEF SemTypeOK
<1>5. SemFrame(s)
  BY <1>2, <1>3 DEF SemFrame
<1>6. SemListInv'
  BY <1>1, <1>2, <1>3 DEF SemListInv, Listed
<1>7. \A a \in Addr : value'[a] <= value[a]
  BY <1>1, <1>2, SemaphoresAssumption DEF SemTypeOK
<1> QED  BY <1>2, <1>3, <1>4, <1>5, <1>6, <1>7, SemQuietKeeps DEF Listed

(* Leaving a set, one takes away one, or nothing.                           *)
LEMMA LeaveFinite ==
    ASSUME NEW S, IsFiniteSet(S), NEW x
    PROVE  /\ IsFiniteSet(S \ {x}) /\ Cardinality(S) \in Nat /\ Cardinality(S \ {x}) \in Nat
           /\ Cardinality(S) <= Cardinality(S \ {x}) + 1
<1>1. /\ IsFiniteSet(S \ {x})
      /\ Cardinality(S \ {x}) = IF x \in S THEN Cardinality(S) - 1 ELSE Cardinality(S)
  BY FS_RemoveElement
<1>2. Cardinality(S) \in Nat /\ Cardinality(S \ {x}) \in Nat
  BY <1>1, FS_CardinalityType
<1> QED  BY <1>1, <1>2

(* If the wakeups lose no more than the semaphore, they still suffice.      *)
LEMMA SemBalance ==
    ASSUME SemTypeOK, SemTypeOK', NEW a \in Addr, NEW P \in SUBSET Proc,
           Coming(a, P)' + value[a] >= Coming(a, P) + value'[a]
    PROVE  SemGain(a, P)
<1>1. value[a] \in Nat /\ value'[a] \in Nat
  BY SemaphoresAssumption DEF SemTypeOK
<1>2. Coming(a, P) \in Nat /\ Coming(a, P)' \in Nat
  BY SemFinite, SemFiniteNext
<1> QED  BY <1>1, <1>2 DEF SemGain

(* phore.waiting = 1: whoever has been heard looks at the semaphore now.    *)
LEMMA SemAnnounceKeeps ==
    ASSUME SemIInv, NEW s \in Proc, Announce(s)
    PROVE  SemIInv'
<1>1. SemTypeOK /\ SemLockInv /\ SemListInv /\ SemWalkInv
  BY DEF SemIInv, WakeupsSuffice
<1>2. /\ at[s] = "announce" /\ at'[s] = "try-again" /\ \A q \in Proc \ {s} : at'[q] = at[q]
      /\ at' \in [Proc -> SemPlaces]
  BY <1>1, SemGotoFrame DEF Announce, SemPlaces, Waits
<1>3. /\ value' = value /\ queue' = queue /\ lk' = lk /\ note' = note /\ addr' = addr
      /\ kind' = kind /\ got' = got /\ calls' = calls /\ rest' = rest
      /\ waiting' = [waiting EXCEPT ![s] = TRUE]
  BY DEF Announce, call, walk, Set
<1>4. SemTypeOK'
  <2>1. waiting' \in [Proc -> BOOLEAN]
    BY <1>1, <1>3 DEF SemTypeOK
  <2> QED  BY <1>1, <1>2, <1>3, <2>1 DEF SemTypeOK
<1>5. \A q \in Proc \ {s} : waiting'[q] = waiting[q]
  BY <1>1, <1>3 DEF SemTypeOK
<1>6. waiting'[s] = TRUE
  BY <1>1, <1>3 DEF SemTypeOK
<1>7. SemFrame(s)
  BY <1>2, <1>3, <1>5 DEF SemFrame
<1>8. SemLockInv' /\ SemListInv' /\ SemWalkInv'
  BY <1>1, <1>2, <1>3 DEF SemLockInv, SemListInv, SemWalkInv, Listed
<1>9. \A a \in Addr : Unheard(a)' \subseteq Unheard(a)
  BY <1>2, <1>3, <1>5 DEF Unheard
<1>10. ASSUME NEW a \in Addr, NEW P \in Walks \cup {Proc} PROVE SemGain(a, P)
  <2>1. P \in SUBSET Proc
    BY <1>1, SemWalker
  <2>2. Calls(a, P)' = Calls(a, P)
    <3>1. \A q \in P : Owed(q)' = Owed(q) /\ addr'[q] = addr[q]
      BY <1>2, <1>3, <2>1 DEF Owed
    <3> QED  BY <1>1, <2>1, <3>1, SemCallsSame
  <2>3. CASE addr[s] = a
    <3>1. s \notin Looking(a) /\ Looking(a)' = Looking(a) \cup {s}
      BY <1>2, <1>3, <2>3 DEF Looking
    <3>2. Heard(a) \ {s} \subseteq Heard(a)'
      BY <1>2, <1>3, <1>5 DEF Heard
    <3>3. Cardinality(Looking(a)') = Cardinality(Looking(a)) + 1
      <4>1. IsFiniteSet(Looking(a))
        BY <2>1, SemFinite
      <4> QED  BY <3>1, <4>1, FS_AddElement
    <3>4. /\ IsFiniteSet(Heard(a)) /\ Cardinality(Heard(a) \ {s}) \in Nat
          /\ Cardinality(Heard(a)) <= Cardinality(Heard(a) \ {s}) + 1
      BY <2>1, SemFinite, LeaveFinite
    <3>5. Cardinality(Heard(a) \ {s}) <= Cardinality(Heard(a)')
      BY <2>1, <3>2, SemFiniteNext, FS_Subset
    <3>6. Coming(a, P) <= Coming(a, P)'
      BY <2>1, <2>2, <3>3, <3>4, <3>5, SemFinite, SemFiniteNext DEF Coming
    <3>7. value[a] \in Nat /\ value'[a] = value[a]
      BY <1>1, <1>3, SemaphoresAssumption DEF SemTypeOK
    <3>8. Coming(a, P) \in Nat /\ Coming(a, P)' \in Nat
      BY <2>1, SemFinite, SemFiniteNext
    <3> QED  BY <1>1, <1>4, <2>1, <3>6, <3>7, <3>8, SemBalance
  <2>4. CASE addr[s] # a
    <3>1. Looking(a)' = Looking(a) /\ Heard(a)' = Heard(a)
      BY <1>2, <1>3, <1>5, <2>4 DEF Looking, Heard
    <3> QED  BY <1>3, <2>2, <3>1 DEF SemGain, Coming
  <2> QED  BY <2>3, <2>4
<1>11. ASSUME NEW p \in Proc, at'[p] \in {"scan", "wakeup"} PROVE SemAhead(p)
  BY <1>2, <1>3, <1>11 DEF SemAhead, Ahead
<1> QED  BY <1>4, <1>8, <1>9, <1>10, <1>11, SemStepKeeps

(* The look at the semaphore: one who gets it gives up his look; one who    *)
(* finds nothing has found nothing.                                         *)
LEMMA SemTryAgainKeeps ==
    ASSUME SemIInv, NEW s \in Proc, TryAgain(s)
    PROVE  SemIInv'
<1>1. SemTypeOK /\ SemLockInv /\ SemListInv /\ SemWalkInv
  BY DEF SemIInv, WakeupsSuffice
<1>2. /\ at[s] = "try-again" /\ at'[s] \in {"sleep", "dequeue"}
      /\ \A q \in Proc \ {s} : at'[q] = at[q]
      /\ at' \in [Proc -> SemPlaces]
  <2>1. SemGoto(s, "try-again", "dequeue") \/ SemGoto(s, "try-again", "sleep")
    BY DEF TryAgain
  <2> QED  BY <1>1, <2>1, SemGotoFrame DEF SemPlaces, Waits
<1>3. /\ queue' = queue /\ waiting' = waiting /\ lk' = lk /\ note' = note /\ addr' = addr
      /\ kind' = kind /\ calls' = calls /\ rest' = rest
  BY DEF TryAgain, sema, call, walk
<1>4. SemLockInv' /\ SemListInv' /\ SemWalkInv'
  BY <1>1, <1>2, <1>3 DEF SemLockInv, SemListInv, SemWalkInv, Listed
<1>5. \A a \in Addr : value[a] \in Nat
  BY <1>1, SemaphoresAssumption DEF SemTypeOK
<1>6. CASE at'[s] = "dequeue" /\ Acquired(s)
  <2>1. /\ value' \in [Addr -> 0..MaxValue] /\ got' \in [Proc -> BOOLEAN]
        /\ \A a \in Addr : value'[a] = IF a = addr[s] THEN value[a] - 1 ELSE value[a]
    BY <1>1, <1>6, SemAcquired
  <2>2. SemTypeOK'
    BY <1>1, <1>2, <1>3, <2>1 DEF SemTypeOK
  <2>3. \A a \in Addr : Unheard(a)' \subseteq Unheard(a)
    BY <1>2, <1>3, <1>6 DEF Unheard
  <2>4. ASSUME NEW a \in Addr, NEW P \in Walks \cup {Proc} PROVE SemGain(a, P)
    <3>1. P \in SUBSET Proc
      BY SemWalker
    <3>2. Calls(a, P)' = Calls(a, P)
      <4>1. \A q \in P : Owed(q)' = Owed(q) /\ addr'[q] = addr[q]
        BY <1>2, <1>3, <3>1 DEF Owed
      <4> QED  BY <1>1, <3>1, <4>1, SemCallsSame
    <3>3. Heard(a)' = Heard(a)
      BY <1>2, <1>3, <1>6 DEF Heard, Listed
    <3>4. Coming(a, P) \in Nat /\ Coming(a, P)' \in Nat
      BY <3>1, SemFinite, SemFiniteNext
    <3>5. CASE addr[s] = a
      <4>1. Looking(a)' = Looking(a) \ {s}
        BY <1>2, <1>3, <1>6 DEF Looking
      <4>2. Cardinality(Looking(a)) <= Cardinality(Looking(a)') + 1
        BY <3>1, <4>1, SemFinite, LeaveFinite
      <4>3. Coming(a, P) <= Coming(a, P)' + 1
        BY <3>1, <3>2, <3>3, <4>2, SemFinite, SemFiniteNext DEF Coming
      <4>4. value'[a] = value[a] - 1
        BY <2>1, <3>5
      <4> QED  BY <1>1, <1>5, <2>2, <3>1, <3>4, <4>3, <4>4, SemBalance
    <3>6. CASE addr[s] # a
      <4>1. Looking(a)' = Looking(a) /\ value'[a] = value[a]
        BY <1>2, <1>3, <2>1, <3>6 DEF Looking
      <4> QED  BY <3>2, <3>3, <4>1 DEF SemGain, Coming
    <3> QED  BY <3>5, <3>6
  <2>5. ASSUME NEW p \in Proc, at'[p] \in {"scan", "wakeup"} PROVE SemAhead(p)
    BY <1>2, <1>3, <2>5 DEF SemAhead, Ahead
  <2> QED  BY <1>4, <2>2, <2>3, <2>4, <2>5, SemStepKeeps
<1>7. CASE at'[s] = "sleep" /\ NotAcquired(s)
  <2>1. value' = value /\ got' = got /\ value[addr[s]] = 0
    BY <1>7 DEF NotAcquired
  <2>2. SemTypeOK'
    BY <1>1, <1>2, <1>3, <2>1 DEF SemTypeOK
  <2>3. ASSUME NEW a \in Addr, NEW P \in Walks \cup {Proc}
        PROVE  \/ value'[a] = 0 /\ Coming(a, P)' >= value'[a]
               \/ addr[s] # a /\ Unheard(a)' = Unheard(a) /\ Coming(a, P)' = Coming(a, P)
    <3>1. P \in SUBSET Proc
      BY SemWalker
    <3>2. CASE addr[s] = a
      <4>1. Coming(a, P)' \in Nat
        BY <3>1, SemFiniteNext
      <4> QED  BY <2>1, <3>2, <4>1
    <3>3. CASE addr[s] # a
      <4>1. Calls(a, P)' = Calls(a, P)
        <5>1. \A q \in P : Owed(q)' = Owed(q) /\ addr'[q] = addr[q]
          BY <1>2, <1>3, <3>1 DEF Owed
        <5> QED  BY <1>1, <3>1, <5>1, SemCallsSame
      <4>2. Heard(a)' = Heard(a) /\ Looking(a)' = Looking(a) /\ Unheard(a)' = Unheard(a)
        BY <1>2, <1>3, <3>3 DEF Heard, Looking, Unheard
      <4> QED  BY <3>3, <4>1, <4>2 DEF Coming
    <3> QED  BY <3>2, <3>3
  <2>4. WakeupsSuffice'
    <3> SUFFICES ASSUME NEW a \in Addr, Unheard(a)' # {} PROVE Coming(a, Proc)' >= value'[a]
      BY <2>2 DEF WakeupsSuffice
    <3> QED  BY <2>1, <2>3 DEF SemIInv, WakeupsSuffice
  <2>5. SemSpareInv'
    <3> SUFFICES ASSUME NEW p \in Proc, NEW a \in Addr, at'[p] \in {"scan", "wakeup"}, addr'[p] = a
                 PROVE  \/ Coming(a, Proc \ {p})' >= value'[a]
                        \/ \A q \in Unheard(a)' : Contains(Ahead(p)', q)
      BY DEF SemSpareInv
    <3>1. p # s /\ at[p] \in {"scan", "wakeup"} /\ addr[p] = a /\ Ahead(p)' = Ahead(p)
          /\ Proc \ {p} \in Walks
      BY <1>2, <1>3 DEF Ahead, Walks
    <3>2. \/ Coming(a, Proc \ {p}) >= value[a]
          \/ \A q \in Unheard(a) : Contains(Ahead(p), q)
      BY <3>1 DEF SemIInv, SemSpareInv
    <3> QED  BY <2>1, <2>3, <3>1, <3>2
  <2> QED  BY <1>4, <2>4, <2>5 DEF SemIInv
<1> QED  BY <1>2, <1>6, <1>7 DEF TryAgain, SemGoto, SemIInv, WakeupsSuffice, SemTypeOK

(* A wakeup that was not needed becomes a call of the process's own.        *)
LEMMA SemPassOnKeeps ==
    ASSUME SemIInv, NEW s \in Proc, PassOn(s)
    PROVE  SemIInv'
<1>1. SemTypeOK /\ SemLockInv /\ SemListInv /\ SemWalkInv
  BY DEF SemIInv, WakeupsSuffice
<1>2. /\ at[s] = "pass-on" /\ at'[s] = (IF waiting[s] THEN "idle" ELSE "semwakeup")
      /\ \A q \in Proc \ {s} : at'[q] = at[q]
      /\ at' \in [Proc -> SemPlaces]
  <2>1. \/ waiting[s] /\ SemGoto(s, "pass-on", "idle")
        \/ ~waiting[s] /\ SemGoto(s, "pass-on", "semwakeup")
    BY DEF PassOn, Return
  <2> QED  BY <1>1, <2>1, SemGotoFrame DEF SemPlaces
<1>3. /\ value' = value /\ queue' = queue /\ lk' = lk /\ note' = note /\ addr' = addr
      /\ got' = got /\ rest' = rest /\ waiting' = [waiting EXCEPT ![s] = FALSE]
      /\ kind' = kind \/ kind' = [kind EXCEPT ![s] = "none"]
      /\ calls' = IF waiting[s] THEN calls ELSE [calls EXCEPT ![s] = 1]
  BY DEF PassOn, Return, Set
<1>4. /\ waiting' \in [Proc -> BOOLEAN] /\ kind' \in [Proc -> Kinds \cup {"none"}]
      /\ \A q \in Proc \ {s} : waiting'[q] = waiting[q]
  BY <1>1, <1>3 DEF SemTypeOK
<1>5. /\ calls' \in [Proc -> 0..MaxValue] /\ calls[s] = 0
      /\ calls'[s] = (IF waiting[s] THEN 0 ELSE 1) /\ \A q \in Proc \ {s} : calls'[q] = calls[q]
  <2>1. calls \in [Proc -> 0..MaxValue] /\ calls[s] = 0 /\ 1 \in 0..MaxValue
    <3>1. calls \in [Proc -> 0..MaxValue]
      BY <1>1 DEF SemTypeOK
    <3>2. calls[s] = 0
      BY <1>1, <1>2 DEF SemWalkInv
    <3> QED  BY <3>1, <3>2, SemaphoresAssumption
  <2>2. CASE waiting[s]
    BY <1>3, <2>1, <2>2
  <2>3. CASE ~waiting[s]
    BY <1>3, <2>1, <2>3
  <2> QED  BY <2>2, <2>3
<1>6. SemTypeOK'
  BY <1>1, <1>2, <1>3, <1>4, <1>5 DEF SemTypeOK
<1>7. SemFrame(s)
  BY <1>2, <1>3, <1>4, <1>5 DEF SemFrame
<1>8. SemLockInv' /\ SemListInv' /\ SemWalkInv'
  BY <1>1, <1>2, <1>3, <1>5 DEF SemLockInv, SemListInv, SemWalkInv, Listed
<1>9. \A a \in Addr : Unheard(a)' \subseteq Unheard(a)
  BY <1>2, <1>3, <1>4 DEF Unheard
<1>10. ASSUME NEW a \in Addr, NEW P \in Walks \cup {Proc} PROVE SemGain(a, P)
  <2>1. P \in SUBSET Proc /\ s \in P
    BY <1>1, <1>2, SemWalker
  <2>2. Looking(a)' = Looking(a)
    BY <1>2, <1>3 DEF Looking
  <2>3. value'[a] = value[a] /\ value[a] \in Nat
    BY <1>1, <1>3, SemaphoresAssumption DEF SemTypeOK
  <2>4. CASE waiting[s] \/ addr[s] # a
    <3>1. Heard(a)' = Heard(a)
      BY <1>2, <1>3, <1>4, <2>4 DEF Heard, Listed
    <3>2. Calls(a, P) \subseteq Calls(a, P)'
      BY <1>2, <1>3, <1>5, <2>1, <2>4 DEF Calls, Owed
    <3>3. Cardinality(Calls(a, P)) <= Cardinality(Calls(a, P)')
      BY <2>1, <3>2, SemFiniteNext, FS_Subset
    <3>4. Coming(a, P) <= Coming(a, P)'
      BY <2>1, <2>2, <3>1, <3>3, SemFinite, SemFiniteNext DEF Coming
    <3>5. Coming(a, P) \in Nat /\ Coming(a, P)' \in Nat
      BY <2>1, SemFinite, SemFiniteNext
    <3> QED  BY <1>1, <1>6, <2>1, <2>3, <3>4, <3>5, SemBalance
  <2>5. CASE ~waiting[s] /\ addr[s] = a
    <3>1. Heard(a)' = Heard(a) \ {s}
      BY <1>2, <1>3, <1>4, <2>5 DEF Heard, Listed
    <3>2. <<s, 1>> \in Calls(a, P)' /\ <<s, 1>> \notin Calls(a, P)
      BY <1>2, <1>3, <1>5, <2>1, <2>5, SemaphoresAssumption DEF Calls, Owed
    <3>3. Calls(a, P) \subseteq Calls(a, P)'
      BY <1>2, <1>3, <1>5, <2>1, <2>5 DEF Calls, Owed
    <3>4. Cardinality(Calls(a, P)) + 1 <= Cardinality(Calls(a, P)')
      <4>1. IsFiniteSet(Calls(a, P)) /\ IsFiniteSet(Calls(a, P)')
        BY <2>1, SemFinite, SemFiniteNext
      <4>2. Calls(a, P) \cup {<<s, 1>>} \in SUBSET (Calls(a, P)')
        BY <3>2, <3>3
      <4>3. Cardinality(Calls(a, P) \cup {<<s, 1>>}) = Cardinality(Calls(a, P)) + 1
        BY <3>2, <4>1, FS_AddElement
      <4> QED  BY <4>1, <4>2, <4>3, FS_Subset
    <3>5. Cardinality(Heard(a)) <= Cardinality(Heard(a)') + 1
      BY <2>1, <3>1, SemFinite, LeaveFinite
    <3>6. Coming(a, P) <= Coming(a, P)'
      BY <2>1, <2>2, <3>4, <3>5, SemFinite, SemFiniteNext DEF Coming
    <3>7. Coming(a, P) \in Nat /\ Coming(a, P)' \in Nat
      BY <2>1, SemFinite, SemFiniteNext
    <3> QED  BY <1>1, <1>6, <2>1, <2>3, <3>6, <3>7, SemBalance
  <2> QED  BY <2>4, <2>5
<1>11. ASSUME NEW p \in Proc, at'[p] \in {"scan", "wakeup"} PROVE SemAhead(p)
  BY <1>2, <1>3, <1>11 DEF SemAhead, Ahead
<1> QED  BY <1>6, <1>8, <1>9, <1>10, <1>11, SemStepKeeps

(* A releaser adds n to the semaphore and n calls to those on their way.    *)
LEMMA SemReleaseKeeps ==
    ASSUME SemIInv, NEW s \in Proc, Semrelease(s)
    PROVE  SemIInv'
<1>1. SemTypeOK /\ SemLockInv /\ SemListInv /\ SemWalkInv
  BY DEF SemIInv, WakeupsSuffice
<1>2. /\ at[s] = "idle" /\ at'[s] = "semwakeup" /\ \A q \in Proc \ {s} : at'[q] = at[q]
      /\ at' \in [Proc -> SemPlaces]
  BY <1>1, SemGotoFrame DEF Semrelease, SemPlaces
<1>3. PICK b \in Addr : \E n \in 1..(MaxValue - value[b]) :
        /\ addr' = [addr EXCEPT ![s] = b] /\ value' = [value EXCEPT ![b] = value[b] + n]
        /\ calls' = [calls EXCEPT ![s] = n]
  BY DEF Semrelease, Set
<1>4. PICK n \in 1..(MaxValue - value[b]) :
        /\ addr' = [addr EXCEPT ![s] = b] /\ value' = [value EXCEPT ![b] = value[b] + n]
        /\ calls' = [calls EXCEPT ![s] = n]
  BY <1>3
<1>5. /\ queue' = queue /\ waiting' = waiting /\ lk' = lk /\ note' = note /\ kind' = kind
      /\ got' = got /\ rest' = rest
  BY DEF Semrelease, sema
<1>6. /\ \A a \in Addr : value[a] \in Nat
      /\ n \in Nat /\ n > 0 /\ n <= MaxValue /\ value[b] + n \in 0..MaxValue
  <2>1. value[b] \in 0..MaxValue /\ MaxValue \in Nat /\ \A a \in Addr : value[a] \in 0..MaxValue
    BY <1>1, SemaphoresAssumption DEF SemTypeOK
  <2> QED  BY <2>1
<1>7. /\ addr' \in [Proc -> Addr] /\ value' \in [Addr -> 0..MaxValue]
      /\ calls' \in [Proc -> 0..MaxValue] /\ addr'[s] = b /\ calls'[s] = n /\ calls[s] = 0
      /\ \A q \in Proc \ {s} : addr'[q] = addr[q] /\ calls'[q] = calls[q]
      /\ \A a \in Addr : value'[a] = IF a = b THEN value[a] + n ELSE value[a]
  <2>1. n \in 0..MaxValue
    BY <1>6, SemaphoresAssumption
  <2>2. /\ addr \in [Proc -> Addr] /\ value \in [Addr -> 0..MaxValue]
        /\ calls \in [Proc -> 0..MaxValue]
    BY <1>1 DEF SemTypeOK
  <2>3. calls[s] = 0
    BY <1>1, <1>2 DEF SemWalkInv
  <2>4. /\ addr' \in [Proc -> Addr] /\ addr'[s] = b
        /\ \A q \in Proc \ {s} : addr'[q] = addr[q]
    BY <1>4, <2>2
  <2>5. /\ calls' \in [Proc -> 0..MaxValue] /\ calls'[s] = n
        /\ \A q \in Proc \ {s} : calls'[q] = calls[q]
    BY <1>4, <2>1, <2>2
  <2>6. /\ value' \in [Addr -> 0..MaxValue]
        /\ \A a \in Addr : value'[a] = IF a = b THEN value[a] + n ELSE value[a]
    BY <1>4, <1>6, <2>2
  <2> QED  BY <2>3, <2>4, <2>5, <2>6
<1>8. SemTypeOK'
  BY <1>1, <1>2, <1>5, <1>7 DEF SemTypeOK
<1>9. SemLockInv' /\ SemListInv' /\ SemWalkInv'
  <2>1. SemLockInv' /\ SemListInv'
    BY <1>1, <1>2, <1>5 DEF SemLockInv, SemListInv, Listed
  <2>2. SemWalkInv'
    <3>1. \A q \in Proc \ {s} : at'[q] = at[q] /\ calls'[q] = calls[q]
      BY <1>2, <1>7
    <3> QED  BY <1>1, <1>2, <1>5, <3>1 DEF SemWalkInv
  <2> QED  BY <2>1, <2>2
<1>10. \A a \in Addr : Unheard(a)' \subseteq Unheard(a)
  BY <1>2, <1>5, <1>7 DEF Unheard
<1>11. ASSUME NEW a \in Addr, NEW P \in Walks \cup {Proc} PROVE SemGain(a, P)
  <2>1. P \in SUBSET Proc /\ s \in P
    BY <1>1, <1>2, SemWalker
  <2>2. Looking(a)' = Looking(a) /\ Heard(a)' = Heard(a)
    BY <1>2, <1>5, <1>7 DEF Looking, Heard, Listed
  <2>3. \A c \in Calls(a, P) : c[1] # s
    <3>1. Owed(s) = 0
      BY <1>2, <1>7 DEF Owed
    <3>2. \A c \in Calls(a, P) : c[2] \in 1..MaxValue /\ c[2] <= Owed(c[1])
      BY DEF Calls
    <3>3. \A i \in 1..MaxValue : ~(i <= 0)
      BY SemaphoresAssumption
    <3> QED  BY <3>1, <3>2, <3>3
  <2>4. Calls(a, P) \subseteq Calls(a, P)'
    <3>1. \A q \in Proc \ {s} : Owed(q)' = Owed(q) /\ addr'[q] = addr[q]
      BY <1>2, <1>7 DEF Owed
    <3> QED  BY <2>1, <2>3, <3>1 DEF Calls
  <2>5. IsFiniteSet(Calls(a, P)) /\ IsFiniteSet(Calls(a, P)')
    BY <2>1, SemFinite, SemFiniteNext
  <2>6. Coming(a, P) \in Nat /\ Coming(a, P)' \in Nat
    BY <2>1, SemFinite, SemFiniteNext
  <2>7. CASE a = b
    <3> DEFINE new == {s} \X (1..n)
    <3>1. IsFiniteSet({s}) /\ Cardinality({s}) = 1 /\ IsFiniteSet(1..n) /\ Cardinality(1..n) = n
      <4>1. 1 \in Int /\ n \in Int /\ ~(1 > n) /\ n - 1 + 1 = n
        BY <1>6
      <4> QED  BY <4>1, FS_Singleton, FS_Interval
    <3>2. IsFiniteSet(new) /\ Cardinality(new) = n
      BY <1>6, <3>1, FS_Product
    <3>3. new \subseteq Calls(a, P)'
      <4>1. \A i \in 1..n : i \in 1..MaxValue /\ i <= n
        BY <1>6, SemaphoresAssumption
      <4>2. Owed(s)' = n /\ addr'[s] = a
        BY <1>2, <1>7, <2>7 DEF Owed
      <4>3. \A c \in new : c \in P \X (1..MaxValue) /\ c[1] = s /\ c[2] <= n
        BY <2>1, <4>1
      <4> QED  BY <4>2, <4>3 DEF Calls
    <3>4. Calls(a, P) \cap new = {}
      BY <2>3
    <3> HIDE DEF new
    <3>5. Cardinality(Calls(a, P) \cup new) = Cardinality(Calls(a, P)) + n
      <4>1. Cardinality(Calls(a, P)) \in Nat
        BY <2>1, SemFinite
      <4> QED  BY <1>6, <2>5, <3>2, <3>4, <4>1, FS_Union, FS_EmptySet
    <3>6. Cardinality(Calls(a, P) \cup new) <= Cardinality(Calls(a, P)')
      BY <2>4, <2>5, <3>3, FS_Subset
    <3>7. Coming(a, P) + n <= Coming(a, P)'
      BY <1>6, <2>1, <2>2, <3>5, <3>6, SemFinite, SemFiniteNext DEF Coming
    <3>8. value'[a] = value[a] + n
      BY <1>7, <2>7
    <3> QED  BY <1>1, <1>6, <1>8, <2>1, <2>6, <3>7, <3>8, SemBalance
  <2>8. CASE a # b
    <3>1. Cardinality(Calls(a, P)) <= Cardinality(Calls(a, P)')
      BY <2>4, <2>5, FS_Subset
    <3>2. Coming(a, P) <= Coming(a, P)'
      BY <2>1, <2>2, <3>1, SemFinite, SemFiniteNext DEF Coming
    <3>3. value'[a] = value[a]
      BY <1>7, <2>8
    <3> QED  BY <1>1, <1>6, <1>8, <2>1, <2>6, <3>2, <3>3, SemBalance
  <2> QED  BY <2>7, <2>8
<1>12. ASSUME NEW p \in Proc, at'[p] \in {"scan", "wakeup"} PROVE SemAhead(p)
  BY <1>2, <1>5, <1>7, <1>12 DEF SemAhead, Ahead
<1> QED  BY <1>8, <1>9, <1>10, <1>11, <1>12, SemStepKeeps

(* semwakeup takes the lock: everybody on the list is still in front of it. *)
LEMMA SemWalkBegins ==
    ASSUME SemIInv, NEW s \in Proc, Semwakeup(s)
    PROVE  SemIInv'
<1>1. SemTypeOK /\ SemLockInv /\ SemListInv /\ SemWalkInv
  BY DEF SemIInv, WakeupsSuffice
<1>2. /\ at[s] = "semwakeup" /\ at'[s] = "scan" /\ \A q \in Proc \ {s} : at'[q] = at[q]
      /\ at' \in [Proc -> SemPlaces]
  BY <1>1, SemGotoFrame DEF Semwakeup, SemPlaces
<1>3. /\ lk = Nobody /\ lk' = s
      /\ value' = value /\ queue' = queue /\ waiting' = waiting /\ note' = note /\ addr' = addr
      /\ kind' = kind /\ got' = got /\ calls' = calls /\ rest' = [rest EXCEPT ![s] = queue]
  BY DEF Semwakeup, sema, call, Set
<1>4. rest' \in [Proc -> Seq(Proc)] /\ rest'[s] = queue /\ queue \in Seq(Proc)
  BY <1>1, <1>3 DEF SemTypeOK
<1>5. SemTypeOK'
  BY <1>1, <1>2, <1>3, <1>4 DEF SemTypeOK
<1>6. \A p \in Proc : at'[p] \in {"scan", "wakeup"} <=> p = s
  BY <1>1, <1>2, <1>3, SemaphoresAssumption DEF SemLockInv
<1>7. SemLockInv' /\ SemListInv' /\ SemWalkInv'
  <2>1. SemLockInv' /\ SemListInv'
    BY <1>1, <1>2, <1>3, <1>6 DEF SemLockInv, SemListInv, Listed
  <2>2. SemWalkInv'
    BY <1>1, <1>2, <1>3, <1>4, <1>6 DEF SemWalkInv
  <2> QED  BY <2>1, <2>2
<1>8. \A a \in Addr : Unheard(a)' = Unheard(a) /\ Looking(a)' = Looking(a) /\ Heard(a)' = Heard(a)
  BY <1>2, <1>3 DEF Unheard, Looking, Heard, Listed
<1>9. \A a \in Addr : Calls(a, Proc)' = Calls(a, Proc)
  <2>1. \A q \in Proc : Owed(q)' = Owed(q) /\ addr'[q] = addr[q]
    BY <1>2, <1>3 DEF Owed
  <2> QED  BY <1>1, <2>1, SemCallsSame
<1>10. WakeupsSuffice'
  BY <1>3, <1>5, <1>8, <1>9 DEF SemIInv, WakeupsSuffice, Coming
<1>11. SemSpareInv'
  <2>1. \A a \in Addr : \A q \in Unheard(a) : Contains(queue, q)
    BY <1>1 DEF Unheard, SemListInv, Listed
  <2> QED  BY <1>2, <1>4, <1>6, <1>8, <2>1 DEF SemSpareInv, Ahead
<1> QED  BY <1>7, <1>10, <1>11 DEF SemIInv

(* Whom the walk passes by is heard, or waits for another semaphore.        *)
LEMMA SemPassKeeps ==
    ASSUME SemIInv, NEW s \in Proc, Pass(s)
    PROVE  SemIInv'
<1>1. SemTypeOK /\ SemLockInv /\ SemListInv /\ SemWalkInv
  BY DEF SemIInv, WakeupsSuffice
<1>2. /\ at[s] = "scan" /\ at'[s] = "scan" /\ \A q \in Proc \ {s} : at'[q] = at[q]
      /\ at' \in [Proc -> SemPlaces] /\ \A q \in Proc : at'[q] = at[q]
  <2>1. SemGoto(s, "scan", "scan")
    BY DEF Pass
  <2> QED  BY <1>1, <2>1, SemGotoFrame DEF SemPlaces
<1>3. /\ value' = value /\ queue' = queue /\ waiting' = waiting /\ lk' = lk /\ note' = note
      /\ addr' = addr /\ kind' = kind /\ got' = got /\ calls' = calls
      /\ rest[s] # <<>> /\ ~WantsCall(s, Head(rest[s])) /\ rest' = [rest EXCEPT ![s] = Tail(rest[s])]
  BY DEF Pass, sema, call, Set
<1>4. /\ rest[s] \in Seq(Proc) /\ Tail(rest[s]) \in Seq(Proc) /\ rest' \in [Proc -> Seq(Proc)]
      /\ rest'[s] = Tail(rest[s]) /\ \A q \in Proc \ {s} : rest'[q] = rest[q]
      /\ \A q : Contains(rest[s], q) <=> q = Head(rest[s]) \/ Contains(rest'[s], q)
  <2>1. rest[s] \in Seq(Proc) /\ rest[s] # <<>>
    BY <1>1, <1>3 DEF SemTypeOK
  <2>2. Tail(rest[s]) \in Seq(Proc)
    BY <2>1
  <2>3. rest' \in [Proc -> Seq(Proc)] /\ rest'[s] = Tail(rest[s])
        /\ \A q \in Proc \ {s} : rest'[q] = rest[q]
    BY <1>1, <1>3, <2>2 DEF SemTypeOK
  <2> QED  BY <2>1, <2>2, <2>3, TailContains
<1>5. SemTypeOK'
  BY <1>1, <1>2, <1>3, <1>4 DEF SemTypeOK
<1>6. SemLockInv' /\ SemListInv'
  BY <1>1, <1>2, <1>3 DEF SemLockInv, SemListInv
<1>7. SemWalkInv'
  BY <1>1, <1>2, <1>3, <1>4 DEF SemWalkInv
<1>8. \A a \in Addr : Unheard(a)' = Unheard(a) /\ Looking(a)' = Looking(a) /\ Heard(a)' = Heard(a)
  BY <1>2, <1>3 DEF Unheard, Looking, Heard
<1>9. ASSUME NEW a \in Addr, NEW P \in Walks \cup {Proc} PROVE SemGain(a, P)
  <2>1. P \in SUBSET Proc
    BY SemWalker
  <2>2. \A q \in P : Owed(q)' = Owed(q) /\ addr'[q] = addr[q]
    BY <1>2, <1>3, <2>1 DEF Owed
  <2>3. Calls(a, P)' = Calls(a, P)
    BY <1>1, <2>1, <2>2, SemCallsSame
  <2> QED  BY <1>3, <1>8, <2>3 DEF SemGain, Coming
<1>10. ASSUME NEW p \in Proc, at'[p] \in {"scan", "wakeup"} PROVE SemAhead(p)
  <2>1. p = s
    BY <1>1, <1>2, <1>10, SemaphoresAssumption DEF SemLockInv
  <2>2. ~waiting[Head(rest[s])] \/ addr[Head(rest[s])] # addr[s]
    BY <1>3 DEF WantsCall
  <2> QED  BY <1>2, <1>3, <1>4, <1>8, <2>1, <2>2 DEF SemAhead, Ahead, Unheard
<1> QED  BY <1>5, <1>6, <1>7, <1>8, <1>9, <1>10, SemStepKeeps

(* What the walk that has the lock knows, and whose Sema it looks at.       *)
LEMMA SemWalking ==
    ASSUME SemIInv, NEW s \in Proc, at[s] \in {"scan", "wakeup"}
    PROVE  /\ lk = s /\ \A p \in Proc : at[p] \in {"scan", "wakeup"} => p = s
           /\ rest[s] \in Seq(Proc) /\ Owed(s) \in Int
           /\ rest[s] # <<>> =>
                /\ Head(rest[s]) \in Proc /\ at[Head(rest[s])] \in Listed /\ Head(rest[s]) # s
                /\ Tail(rest[s]) \in Seq(Proc)
                /\ \A x : Contains(rest[s], x) <=> x = Head(rest[s]) \/ Contains(Tail(rest[s]), x)
<1>1. SemTypeOK /\ SemLockInv /\ SemListInv /\ SemWalkInv
  BY DEF SemIInv, WakeupsSuffice
<1>2. lk = s /\ \A p \in Proc : at[p] \in {"scan", "wakeup"} => p = s
  BY <1>1 DEF SemLockInv
<1>3. rest[s] \in Seq(Proc) /\ calls[s] \in 0..MaxValue
  BY <1>1 DEF SemTypeOK
<1>4. Owed(s) \in Int
  BY <1>3, SemaphoresAssumption DEF Owed
<1>5. ASSUME rest[s] # <<>>
      PROVE  /\ Head(rest[s]) \in Proc /\ at[Head(rest[s])] \in Listed /\ Head(rest[s]) # s
             /\ Tail(rest[s]) \in Seq(Proc)
             /\ \A x : Contains(rest[s], x) <=> x = Head(rest[s]) \/ Contains(Tail(rest[s]), x)
  <2>1. Head(rest[s]) \in Proc /\ Tail(rest[s]) \in Seq(Proc)
    BY <1>3, <1>5
  <2>2. \A x : Contains(rest[s], x) <=> x = Head(rest[s]) \/ Contains(Tail(rest[s]), x)
    BY <1>3, <1>5, TailContains
  <2>3. Contains(queue, Head(rest[s]))
    BY <1>1, <2>1, <2>2 DEF SemWalkInv
  <2>4. at[Head(rest[s])] \in Listed
    BY <1>1, <2>1, <2>3 DEF SemListInv
  <2> QED  BY <2>1, <2>2, <2>4 DEF Listed
<1> QED  BY <1>2, <1>3, <1>4, <1>5

(* p->waiting = 0: the call is spent, and whom it was spent on is heard.    *)
LEMMA SemClearKeeps ==
    ASSUME SemIInv, NEW s \in Proc, Clear(s)
    PROVE  SemIInv'
<1> DEFINE q == Head(rest[s])
<1>1. SemTypeOK /\ SemLockInv /\ SemListInv /\ SemWalkInv
  BY DEF SemIInv, WakeupsSuffice
<1>2. /\ at[s] = "scan" /\ at'[s] = "wakeup" /\ \A p \in Proc \ {s} : at'[p] = at[p]
      /\ at' \in [Proc -> SemPlaces]
  BY <1>1, SemGotoFrame DEF Clear, SemPlaces
<1>3. /\ value' = value /\ queue' = queue /\ lk' = lk /\ note' = note /\ addr' = addr
      /\ kind' = kind /\ got' = got /\ calls' = calls /\ rest' = rest
      /\ rest[s] # <<>> /\ calls[s] > 0 /\ addr[q] = addr[s] /\ waiting[q]
      /\ waiting' = [waiting EXCEPT ![q] = FALSE]
  BY DEF Clear, call, walk, Set, WantsCall
<1>4. /\ lk = s /\ \A p \in Proc : at[p] \in {"scan", "wakeup"} => p = s
      /\ q \in Proc /\ at[q] \in Listed /\ q # s
      /\ \A x : Contains(rest[s], x) <=> x = q \/ Contains(Tail(rest[s]), x)
  BY <1>2, <1>3, SemWalking
<1> HIDE DEF q
<1>5. /\ waiting' \in [Proc -> BOOLEAN] /\ waiting'[q] = FALSE
      /\ \A p \in Proc \ {q} : waiting'[p] = waiting[p]
  BY <1>1, <1>3, <1>4 DEF SemTypeOK
<1>6. SemTypeOK'
  BY <1>1, <1>2, <1>3, <1>5 DEF SemTypeOK
<1>7. SemLockInv' /\ SemListInv'
  BY <1>1, <1>2, <1>3 DEF SemLockInv, SemListInv, Listed
<1>8. SemWalkInv'
  BY <1>1, <1>2, <1>3 DEF SemWalkInv
<1>9. \A a \in Addr : Unheard(a)' \subseteq Unheard(a)
  BY <1>2, <1>3, <1>5 DEF Unheard
<1>10. ASSUME NEW a \in Addr, NEW P \in Walks \cup {Proc} PROVE SemGain(a, P)
  <2>1. P \in SUBSET Proc
    BY SemWalker
  <2>2. Looking(a)' = Looking(a)
    BY <1>2, <1>3 DEF Looking
  <2>3. value'[a] = value[a] /\ value[a] \in Nat
    BY <1>1, <1>3, SemaphoresAssumption DEF SemTypeOK
  <2>4. \A p \in Proc \ {s} : Owed(p)' = Owed(p)
    BY <1>2, <1>3 DEF Owed
  <2>5. CASE addr[s] # a
    <3>1. Heard(a)' = Heard(a)
      <4>1. at'[s] \notin Listed \cup {"pass-on"} /\ at[s] \notin Listed \cup {"pass-on"}
        BY <1>2 DEF Listed
      <4> QED  BY <1>2, <1>3, <1>5, <2>5, <4>1 DEF Heard
    <3>2. Calls(a, P)' = Calls(a, P)
      BY <1>3, <2>1, <2>4, <2>5 DEF Calls
    <3> QED  BY <2>2, <2>3, <3>1, <3>2 DEF SemGain, Coming
  <2>6. CASE addr[s] = a
    <3>1. q \notin Heard(a) /\ Heard(a)' = Heard(a) \cup {q}
      <4>1. at'[s] \notin Listed \cup {"pass-on"} /\ at[s] \notin Listed \cup {"pass-on"}
        BY <1>2 DEF Listed
      <4> QED  BY <1>2, <1>3, <1>4, <1>5, <2>6, <4>1 DEF Heard
    <3>2. Cardinality(Heard(a)') = Cardinality(Heard(a)) + 1
      <4>1. IsFiniteSet(Heard(a))
        BY <2>1, SemFinite
      <4> QED  BY <3>1, <4>1, FS_AddElement
    <3>3. Calls(a, P) \ {<<s, calls[s]>>} \subseteq Calls(a, P)'
      <4>1. calls[s] \in Nat /\ Owed(s) = calls[s] /\ Owed(s)' = calls[s] - 1
        BY <1>1, <1>2, <1>3, SemaphoresAssumption DEF SemTypeOK, Owed
      <4>2. ASSUME NEW c \in Calls(a, P), c # <<s, calls[s]>> PROVE c \in Calls(a, P)'
        <5>1. c \in P \X (1..MaxValue) /\ addr[c[1]] = a /\ c[2] <= Owed(c[1])
          BY DEF Calls
        <5>2. c[1] = s => c[2] <= Owed(s)'
          <6>1. c[2] \in Int /\ c = <<c[1], c[2]>>
            BY <5>1, SemaphoresAssumption
          <6> QED  BY <4>1, <4>2, <5>1, <6>1
        <5>3. c[2] <= Owed(c[1])'
          BY <2>1, <2>4, <5>1, <5>2
        <5> QED  BY <1>3, <5>1, <5>3 DEF Calls
      <4> QED  BY <4>2
    <3>4. Cardinality(Calls(a, P)) <= Cardinality(Calls(a, P)') + 1
      <4>1. /\ Cardinality(Calls(a, P)) <= Cardinality(Calls(a, P) \ {<<s, calls[s]>>}) + 1
            /\ Cardinality(Calls(a, P) \ {<<s, calls[s]>>}) \in Nat
            /\ Cardinality(Calls(a, P)) \in Nat
        BY <2>1, SemFinite, LeaveFinite
      <4>2. Cardinality(Calls(a, P) \ {<<s, calls[s]>>}) <= Cardinality(Calls(a, P)')
        BY <2>1, <3>3, SemFiniteNext, FS_Subset
      <4>3. Cardinality(Calls(a, P)') \in Nat
        BY <2>1, SemFiniteNext
      <4> QED  BY <4>1, <4>2, <4>3
    <3>5. Coming(a, P) <= Coming(a, P)'
      BY <2>1, <2>2, <3>2, <3>4, SemFinite, SemFiniteNext DEF Coming
    <3>6. Coming(a, P) \in Nat /\ Coming(a, P)' \in Nat
      BY <2>1, SemFinite, SemFiniteNext
    <3> QED  BY <1>1, <1>6, <2>1, <2>3, <3>5, <3>6, SemBalance
  <2> QED  BY <2>5, <2>6
<1>11. ASSUME NEW p \in Proc, at'[p] \in {"scan", "wakeup"} PROVE SemAhead(p)
  <2>1. p = s
    BY <1>2, <1>4, <1>11
  <2>2. \A a \in Addr : q \notin Unheard(a)'
    BY <1>5 DEF Unheard
  <2> QED  BY <1>2, <1>3, <1>4, <2>1, <2>2 DEF SemAhead, Ahead
<1> QED  BY <1>6, <1>7, <1>8, <1>9, <1>10, <1>11, SemStepKeeps

(* wakeup(&p->rendez): who sleeps and is woken has not to be heard any more.*)
LEMMA SemWakeupKeeps ==
    ASSUME SemIInv, NEW s \in Proc, Wakeup(s)
    PROVE  SemIInv'
<1> DEFINE q == Head(rest[s])
<1>1. SemTypeOK /\ SemLockInv /\ SemListInv /\ SemWalkInv /\ at[s] = "wakeup"
  BY DEF SemIInv, WakeupsSuffice, Wakeup
<1>2. /\ value' = value /\ queue' = queue /\ waiting' = waiting /\ lk' = lk /\ note' = note
      /\ addr' = addr /\ kind' = kind /\ got' = got
      /\ rest' = [rest EXCEPT ![s] = Tail(rest[s])] /\ calls' = [calls EXCEPT ![s] = calls[s] - 1]
      /\ at' = [at EXCEPT ![s] = "scan", ![q] = IF @ = "asleep" THEN "awake" ELSE @]
  BY DEF Wakeup, sema, call, Set
<1>3. rest[s] # <<>> /\ calls[s] > 0
  BY <1>1 DEF SemWalkInv
<1>4. /\ lk = s /\ \A p \in Proc : at[p] \in {"scan", "wakeup"} => p = s
      /\ q \in Proc /\ at[q] \in Listed /\ q # s /\ Tail(rest[s]) \in Seq(Proc)
      /\ \A x : Contains(rest[s], x) <=> x = q \/ Contains(Tail(rest[s]), x)
  BY <1>1, <1>3, SemWalking
<1> HIDE DEF q
<1>5. /\ at' \in [Proc -> SemPlaces] /\ at'[s] = "scan"
      /\ at'[q] = (IF at[q] = "asleep" THEN "awake" ELSE at[q])
      /\ \A p \in Proc \ {s, q} : at'[p] = at[p]
  <2>1. at \in [Proc -> SemPlaces] /\ {"scan", "awake"} \subseteq SemPlaces
    BY <1>1 DEF SemTypeOK, SemPlaces, Waits
  <2> QED  BY <1>2, <1>4, <2>1
<1>6. /\ rest' \in [Proc -> Seq(Proc)] /\ rest'[s] = Tail(rest[s])
      /\ \A p \in Proc \ {s} : rest'[p] = rest[p]
  BY <1>1, <1>2, <1>4 DEF SemTypeOK
<1>7. /\ calls' \in [Proc -> 0..MaxValue] /\ calls'[s] = calls[s] - 1
      /\ \A p \in Proc \ {s} : calls'[p] = calls[p]
  <2>1. calls \in [Proc -> 0..MaxValue] /\ calls[s] - 1 \in 0..MaxValue
    <3>1. calls \in [Proc -> 0..MaxValue] /\ calls[s] \in 0..MaxValue
      BY <1>1 DEF SemTypeOK
    <3> QED  BY <1>3, <3>1, SemaphoresAssumption
  <2> QED  BY <1>2, <2>1
<1>8. SemTypeOK'
  BY <1>1, <1>2, <1>5, <1>6, <1>7 DEF SemTypeOK
<1>9. \A p \in Proc : /\ at'[p] \in {"scan", "wakeup"} <=> p = s
                      /\ at'[p] \in Listed <=> at[p] \in Listed
  BY <1>1, <1>4, <1>5 DEF Listed
<1>10. SemLockInv' /\ SemListInv'
  BY <1>1, <1>2, <1>4, <1>9, SemaphoresAssumption DEF SemLockInv, SemListInv
<1>11. SemWalkInv'
  <2>1. \A p \in Proc \ {s} : at'[p] \notin {"scan", "wakeup"} /\ calls'[p] = calls[p]
    BY <1>7, <1>9
  <2>2. \A p \in Proc \ {s} : at'[p] = "semwakeup" <=> at[p] = "semwakeup"
    BY <1>4, <1>5 DEF Listed
  <2>3. \A p \in Proc \ {s} : at[p] \notin {"scan", "wakeup"}
    BY <1>4
  <2>4. \A x \in Proc : Contains(rest'[s], x) => Contains(queue', x)
    BY <1>1, <1>2, <1>4, <1>6 DEF SemWalkInv
  <2> QED  BY <1>1, <1>5, <2>1, <2>2, <2>3, <2>4 DEF SemWalkInv
<1>12. \A a \in Addr : Unheard(a)' \subseteq Unheard(a)
  BY <1>2, <1>4, <1>5 DEF Unheard, Listed
<1>13. ASSUME NEW a \in Addr, NEW P \in Walks \cup {Proc} PROVE SemGain(a, P)
  <2>1. P \in SUBSET Proc
    BY SemWalker
  <2>2. Looking(a)' = Looking(a)
    BY <1>1, <1>2, <1>4, <1>5 DEF Looking, Listed
  <2>3. Heard(a)' = Heard(a)
    <3>1. \A p \in Proc : at'[p] \in Listed \cup {"pass-on"} <=> at[p] \in Listed \cup {"pass-on"}
      BY <1>1, <1>4, <1>5, <1>9
    <3> QED  BY <1>2, <3>1 DEF Heard
  <2>4. \A p \in P : Owed(p)' = Owed(p)
    <3>1. Owed(s)' = Owed(s)
      BY <1>1, <1>5, <1>7 DEF Owed
    <3>2. \A p \in Proc \ {s} : at[p] # "wakeup" /\ at'[p] # "wakeup" /\ calls'[p] = calls[p]
      BY <1>4, <1>7, <1>9
    <3> QED  BY <2>1, <3>1, <3>2 DEF Owed
  <2>5. Calls(a, P)' = Calls(a, P)
    BY <1>1, <1>2, <2>1, <2>4, SemCallsSame
  <2> QED  BY <1>2, <2>2, <2>3, <2>5 DEF SemGain, Coming
<1>14. ASSUME NEW p \in Proc, at'[p] \in {"scan", "wakeup"} PROVE SemAhead(p)
  <2>1. p = s
    BY <1>9, <1>14
  <2> QED  BY <1>1, <1>2, <1>5, <1>6, <2>1 DEF SemAhead, Ahead
<1> QED  BY <1>8, <1>10, <1>11, <1>12, <1>13, <1>14, SemStepKeeps

(* The end of semwakeup.  Calls that are left over come from a walk to the  *)
(* end of the list, and have not been needed.                               *)
LEMMA SemWalkEnds ==
    ASSUME SemIInv, NEW s \in Proc, SemwakeupEnd(s)
    PROVE  SemIInv'
<1>1. SemTypeOK /\ SemLockInv /\ SemListInv /\ SemWalkInv /\ SemSpareInv
  BY DEF SemIInv, WakeupsSuffice
<1>2. /\ at[s] = "scan" /\ at'[s] = "idle" /\ \A q \in Proc \ {s} : at'[q] = at[q]
      /\ at' \in [Proc -> SemPlaces]
  <2>1. SemGoto(s, "scan", "idle")
    BY DEF SemwakeupEnd, Return
  <2> QED  BY <1>1, <2>1, SemGotoFrame DEF SemPlaces
<1>3. /\ value' = value /\ queue' = queue /\ waiting' = waiting /\ note' = note /\ addr' = addr
      /\ got' = got /\ lk' = Nobody /\ kind' = [kind EXCEPT ![s] = "none"]
      /\ rest' = [rest EXCEPT ![s] = <<>>] /\ calls' = [calls EXCEPT ![s] = 0]
      /\ rest[s] = <<>> \/ calls[s] = 0
  BY DEF SemwakeupEnd, Return, sema, Set
<1>4. lk = s /\ \A p \in Proc : at[p] \in {"scan", "wakeup"} => p = s
  BY <1>2, SemWalking
<1>5. /\ calls' \in [Proc -> 0..MaxValue] /\ calls'[s] = 0
      /\ \A p \in Proc \ {s} : calls'[p] = calls[p]
  <2>1. calls \in [Proc -> 0..MaxValue] /\ 0 \in 0..MaxValue
    BY <1>1, SemaphoresAssumption DEF SemTypeOK
  <2> QED  BY <1>3, <2>1
<1>6. SemTypeOK'
  <2>1. kind' \in [Proc -> Kinds \cup {"none"}]
    BY <1>1, <1>3 DEF SemTypeOK
  <2>2. rest' \in [Proc -> Seq(Proc)]
    <3>1. <<>> \in Seq(Proc)
      OBVIOUS
    <3> QED  BY <1>1, <1>3, <3>1 DEF SemTypeOK
  <2> QED  BY <1>1, <1>2, <1>3, <1>5, <2>1, <2>2 DEF SemTypeOK
<1>7. \A p \in Proc : at'[p] \notin {"scan", "wakeup"}
  BY <1>2, <1>4
<1>8. SemLockInv' /\ SemListInv'
  BY <1>1, <1>2, <1>3, <1>7, SemaphoresAssumption DEF SemLockInv, SemListInv, Listed
<1>9. SemWalkInv'
  BY <1>1, <1>2, <1>5, <1>7 DEF SemWalkInv
<1>10. SemSpareInv'
  BY <1>7 DEF SemSpareInv
<1>11. ASSUME NEW a \in Addr, Unheard(a)' # {} PROVE Coming(a, Proc)' >= value'[a]
  <2>1. /\ Unheard(a) # {} /\ Looking(a)' = Looking(a) /\ Heard(a)' = Heard(a)
    BY <1>2, <1>3, <1>11 DEF Unheard, Looking, Heard, Listed
  <2>2. /\ Owed(s)' = 0 /\ Owed(s) = calls[s]
        /\ \A p \in Proc \ {s} : Owed(p)' = Owed(p)
    BY <1>2, <1>5 DEF Owed
  <2>3. \A c \in Proc \X (1..MaxValue) :
          /\ c[1] \in Proc /\ ~(c[2] <= 0) /\ c \in (Proc \ {s}) \X (1..MaxValue) <=> c[1] # s
    BY SemaphoresAssumption
  <2>4. Calls(a, Proc)' = Calls(a, Proc \ {s})
    <3>1. /\ Calls(a, Proc)' \in SUBSET (Proc \X (1..MaxValue))
          /\ Calls(a, Proc \ {s}) \in SUBSET (Proc \X (1..MaxValue))
      BY DEF Calls
    <3>2. \A c \in Proc \X (1..MaxValue) : c \in Calls(a, Proc)' <=> c \in Calls(a, Proc \ {s})
      BY <1>3, <2>2, <2>3 DEF Calls
    <3> QED  BY <3>1, <3>2
  <2>5. CASE calls[s] = 0 \/ addr[s] # a
    <3>1. Calls(a, Proc) = Calls(a, Proc \ {s})
      <4>1. /\ Calls(a, Proc) \in SUBSET (Proc \X (1..MaxValue))
            /\ Calls(a, Proc \ {s}) \in SUBSET (Proc \X (1..MaxValue))
        BY DEF Calls
      <4>2. \A c \in Proc \X (1..MaxValue) : c \in Calls(a, Proc) <=> c \in Calls(a, Proc \ {s})
        BY <2>2, <2>3, <2>5 DEF Calls
      <4> QED  BY <4>1, <4>2
    <3>2. Coming(a, Proc) >= value[a]
      BY <2>1 DEF SemIInv, WakeupsSuffice
    <3> QED  BY <1>3, <2>1, <2>4, <3>1, <3>2 DEF Coming
  <2>6. CASE calls[s] # 0 /\ addr[s] = a
    <3>1. rest[s] = <<>> /\ Ahead(s) = <<>>
      BY <1>2, <1>3, <2>6 DEF Ahead
    <3>2. \A q : ~Contains(<<>>, q)
      BY DEF Contains
    <3>3. Coming(a, Proc \ {s}) >= value[a]
      BY <1>1, <1>2, <2>1, <2>6, <3>1, <3>2 DEF SemSpareInv
    <3> QED  BY <1>3, <2>1, <2>4, <3>3 DEF Coming
  <2> QED  BY <2>5, <2>6
<1> QED  BY <1>6, <1>8, <1>9, <1>10, <1>11 DEF SemIInv, WakeupsSuffice

(* Nobody waits, and there is nothing to wait for.                          *)
LEMMA SemInitInv == SemInit => SemIInv
<1> SUFFICES ASSUME SemInit PROVE SemIInv
  OBVIOUS
<1>1. queue = <<>> /\ \A p \in Proc : at[p] = "idle" /\ calls[p] = 0 /\ lk # p
  BY SemaphoresAssumption DEF SemInit
<1>2. SemTypeOK
  <2>1. <<>> \in Seq(Proc) /\ IsInjective(<<>>) /\ 0 \in 0..MaxValue /\ "idle" \in SemPlaces
    BY SemaphoresAssumption DEF IsInjective, SemPlaces
  <2> QED  BY <2>1 DEF SemInit, SemTypeOK
<1>3. \A q : ~Contains(<<>>, q)
  BY DEF Contains
<1>4. \A a \in Addr : Unheard(a) = {}
  BY <1>1 DEF Unheard
<1> QED  BY <1>1, <1>2, <1>3, <1>4
         DEF SemIInv, WakeupsSuffice, SemLockInv, SemListInv, SemWalkInv, SemSpareInv, Listed

(* A step that changes nothing.                                             *)
LEMMA SemStutterKeeps ==
    ASSUME SemIInv, UNCHANGED semvars
    PROVE  SemIInv'
<1>1. /\ value' = value /\ queue' = queue /\ waiting' = waiting /\ lk' = lk /\ note' = note
      /\ addr' = addr /\ kind' = kind /\ got' = got /\ calls' = calls /\ rest' = rest /\ at' = at
  BY DEF semvars, sema, call, walk
<1>2. SemTypeOK' /\ SemLockInv' /\ SemListInv' /\ SemWalkInv'
  BY <1>1 DEF SemIInv, WakeupsSuffice, SemTypeOK, SemLockInv, SemListInv, SemWalkInv
<1>3. /\ \A a : Unheard(a)' = Unheard(a)
      /\ \A a, P : Coming(a, P)' = Coming(a, P)
      /\ \A p : Ahead(p)' = Ahead(p)
  BY <1>1 DEF Unheard, Coming, Calls, Owed, Looking, Heard, Ahead
<1> QED  BY <1>1, <1>2, <1>3 DEF SemIInv, WakeupsSuffice, SemSpareInv

(* No step breaks the invariant.                                            *)
LEMMA SemAlways == SemSpec => []SemIInv
<1>1. SemInit => SemIInv
  BY SemInitInv
<1>2. SemIInv /\ [SemNext]_semvars => SemIInv'
  <2> SUFFICES ASSUME SemIInv, [SemNext]_semvars PROVE SemIInv'
    OBVIOUS
  <2>1. CASE UNCHANGED semvars
    BY <2>1, SemStutterKeeps
  <2>2. ASSUME NEW s \in Proc,
               Step(s) \/ SemacquireCall(s) \/ Semrelease(s) \/ Timeout(s) \/ Postnote(s)
        PROVE  SemIInv'
    <3>1. CASE SemacquireCall(s) \/ Try(s) \/ Refuse(s)
      BY <3>1, SemBeginKeeps
    <3>2. CASE Semqueue(s) \/ Semdequeue(s)
      BY <3>2, SemQueueKeeps
    <3>3. CASE Sleep(s) \/ Timeout(s) \/ Interrupt(s) \/ Awake(s) \/ Expire(s) \/ Postnote(s)
      BY <3>3, SemSleepKeeps
    <3>4. CASE Announce(s)
      BY <3>4, SemAnnounceKeeps
    <3>5. CASE TryAgain(s)
      BY <3>5, SemTryAgainKeeps
    <3>6. CASE PassOn(s)
      BY <3>6, SemPassOnKeeps
    <3>7. CASE Semrelease(s)
      BY <3>7, SemReleaseKeeps
    <3>8. CASE Semwakeup(s)
      BY <3>8, SemWalkBegins
    <3>9. CASE Pass(s)
      BY <3>9, SemPassKeeps
    <3>10. CASE Clear(s)
      BY <3>10, SemClearKeeps
    <3>11. CASE Wakeup(s)
      BY <3>11, SemWakeupKeeps
    <3>12. CASE SemwakeupEnd(s)
      BY <3>12, SemWalkEnds
    <3> QED  BY <2>2, <3>1, <3>2, <3>3, <3>4, <3>5, <3>6, <3>7, <3>8, <3>9, <3>10, <3>11, <3>12
             DEF Step
  <2> QED  BY <2>1, <2>2 DEF SemNext
<1> QED  BY <1>1, <1>2, PTL DEF SemSpec

(* semacquire, tsemacquire and semrelease (sysproc.c): whatever the order   *)
(* of releases, sleeps, timeouts and notes, for any number of processes,    *)
(* nobody sleeps unheard while there is more to acquire than wakeups on     *)
(* their way.                                                               *)
THEOREM SemaphoresWakeupsSuffice == SemSpec => []WakeupsSuffice
<1>1. SemIInv => WakeupsSuffice
  BY DEF SemIInv
<1> QED  BY <1>1, SemAlways, PTL

(* A call is settled when it does not look or wait any more.                *)
LEMMA SemCallKept ==
    ASSUME SemIInv, SemCallInv, [SemNext]_semvars
    PROVE  SemCallInv'
<1>1. SemTypeOK
  BY DEF SemIInv, WakeupsSuffice
<1>2. CASE UNCHANGED semvars
  BY <1>2 DEF semvars, call, SemCallInv
<1>3. ASSUME NEW s \in Proc,
             Step(s) \/ SemacquireCall(s) \/ Semrelease(s) \/ Timeout(s) \/ Postnote(s)
      PROVE  SemCallInv'
  <2>1. CASE SemacquireCall(s) \/ Try(s) \/ Refuse(s)
    <3>1. got' \in [Proc -> BOOLEAN] /\ \A q \in Proc \ {s} : got'[q] = got[q] /\ kind'[q] = kind[q]
      BY <1>1, <2>1 DEF SemacquireCall, Try, Refuse, Return, Acquired, NotAcquired, Set, SemTypeOK
    <3>2. \/ at'[s] = "try" /\ got'[s] = FALSE /\ kind'[s] \in Kinds
          \/ at'[s] = "idle" /\ got'[s] = TRUE
          \/ /\ at'[s] = "queue" /\ got'[s] = got[s] /\ at[s] = "try"
             /\ kind[s] # "poll" /\ kind'[s] = kind[s]
      BY <1>1, <2>1 DEF SemacquireCall, Try, Refuse, Return, Acquired, NotAcquired, Set, SemTypeOK, SemGoto
    <3>3. \A q \in Proc \ {s} : at'[q] = at[q]
      BY <1>1, <2>1 DEF SemacquireCall, Try, Refuse, Return, SemTypeOK, SemGoto
    <3>4. /\ got'[s] <=> at'[s] \notin Waits \cup {"try"}
          /\ at'[s] = "try" => kind'[s] \in Kinds
          /\ at'[s] \in Waits => kind'[s] \in {"block", "timed"}
      BY <3>2 DEF SemCallInv, Waits, Kinds
    <3> QED  BY <3>1, <3>3, <3>4 DEF SemCallInv
  <2>2. CASE TryAgain(s) \/ Interrupt(s) \/ Expire(s)
    <3>1. kind' = kind /\ \A q \in Proc \ {s} : got'[q] = got[q] /\ at'[q] = at[q]
      BY <1>1, <2>2 DEF TryAgain, Interrupt, Expire, Acquired, NotAcquired, Set, SemTypeOK, SemGoto, call
    <3>2. /\ at[s] \in Waits
          /\ \/ at'[s] = "dequeue" /\ got'[s] = TRUE
             \/ at'[s] = "sleep" /\ got'[s] = got[s]
      BY <1>1, <2>2 DEF TryAgain, Interrupt, Expire, Acquired, NotAcquired, Set, SemTypeOK, SemGoto, Waits
    <3> QED  BY <3>1, <3>2 DEF SemCallInv, Waits
  <2>3. CASE \/ Semqueue(s) \/ Announce(s) \/ Sleep(s) \/ Timeout(s) \/ Awake(s) \/ Postnote(s)
             \/ Semdequeue(s) \/ Semwakeup(s) \/ Pass(s) \/ Clear(s)
    <3>1. kind' = kind /\ got' = got /\ \A q \in Proc \ {s} : at'[q] = at[q]
      BY <1>1, <2>3 DEF Semqueue, Announce, Sleep, Timeout, Awake, Postnote, Semdequeue, Semwakeup,
                        Pass, Clear, SemTypeOK, SemGoto, call
    <3>2. \/ at[s] \in Waits /\ at'[s] \in Waits
          \/ {at[s], at'[s]} \cap (Waits \cup {"try"}) = {}
      BY <1>1, <2>3 DEF Semqueue, Announce, Sleep, Timeout, Awake, Postnote, Semdequeue, Semwakeup,
                        Pass, Clear, SemTypeOK, SemGoto, Waits
    <3> QED  BY <3>1, <3>2 DEF SemCallInv, Waits
  <2>4. CASE PassOn(s) \/ SemwakeupEnd(s) \/ Semrelease(s)
    <3>1. got' = got /\ \A q \in Proc \ {s} : at'[q] = at[q] /\ kind'[q] = kind[q]
      BY <1>1, <2>4 DEF PassOn, SemwakeupEnd, Semrelease, Return, Set, SemTypeOK, SemGoto
    <3>2. {at[s], at'[s]} \cap (Waits \cup {"try"}) = {}
      BY <1>1, <2>4 DEF PassOn, SemwakeupEnd, Semrelease, Return, SemTypeOK, SemGoto, Waits
    <3> QED  BY <3>1, <3>2 DEF SemCallInv
  <2>5. CASE Wakeup(s)
    <3>1. at[s] = "wakeup" /\ kind' = kind /\ got' = got
          /\ at' = [at EXCEPT ![s] = "scan", ![Head(rest[s])] = IF @ = "asleep" THEN "awake" ELSE @]
      BY <2>5 DEF Wakeup, call
    <3>2. rest[s] # <<>>
      BY <3>1 DEF SemIInv, SemWalkInv
    <3>3. Head(rest[s]) \in Proc /\ Head(rest[s]) # s
      BY <3>1, <3>2, SemWalking
    <3>4. /\ at'[s] = "scan" /\ \A q \in Proc \ {s, Head(rest[s])} : at'[q] = at[q]
          /\ at'[Head(rest[s])] = IF at[Head(rest[s])] = "asleep" THEN "awake" ELSE at[Head(rest[s])]
      BY <1>1, <3>1, <3>3 DEF SemTypeOK
    <3>5. {at[s], at'[s]} \cap (Waits \cup {"try"}) = {}
      BY <3>1, <3>4 DEF Waits
    <3>6. \A q \in Proc \ {s} : at'[q] = at[q] \/ (at[q] = "asleep" /\ at'[q] = "awake")
      BY <3>4
    <3>7. {"asleep", "awake"} \subseteq Waits \ {"try"}
      BY DEF Waits
    <3>8. \A q \in Proc : /\ at'[q] \in Waits <=> at[q] \in Waits
                          /\ at'[q] = "try" <=> at[q] = "try"
      BY <3>5, <3>6, <3>7
    <3> QED  BY <3>1, <3>8 DEF SemCallInv
  <2> QED  BY <1>3, <2>1, <2>2, <2>3, <2>4, <2>5 DEF Step
<1> QED  BY <1>2, <1>3 DEF SemNext

(* What is wanted changes for s alone, when its call begins or is settled.  *)
LEMMA SemWishes ==
    ASSUME NEW s \in Proc,
           \A q \in Proc \ {s} : got'[q] = got[q] /\ (got[q] \/ (addr'[q] = addr[q] /\ kind'[q] = kind[q]))
    PROVE  [p \in Proc |-> Wish(p)]' = [[p \in Proc |-> Wish(p)] EXCEPT ![s] = Wish(s)']
<1>1. \A q \in Proc \ {s} : Wish(q)' = Wish(q)
  BY DEF Wish
<1> QED  BY <1>1

(* A wish is one as long as the call is not settled.                        *)
LEMMA SemWishIs ==
    ASSUME SemTypeOK, SemCallInv, NEW s \in Proc
    PROVE  /\ got[s] => Wish(s) = Nobody
           /\ ~got[s] => /\ Wish(s) # Nobody /\ Wish(s).addr = addr[s] /\ Wish(s).kind = kind[s]
<1>1. ASSUME ~got[s] PROVE Wish(s) = [addr |-> addr[s], kind |-> kind[s]] /\ Wish(s) # Nobody
  <2>1. addr[s] \in Addr /\ kind[s] \in Kinds
    BY <1>1 DEF SemTypeOK, SemCallInv, Kinds
  <2>2. [addr |-> addr[s], kind |-> kind[s]] \in [addr: Addr, kind: Kinds]
    BY <2>1
  <2> QED  BY <1>1, <2>2, SemaphoresAssumption DEF Wish
<1> QED  BY <1>1 DEF Wish

(* The refinement mapping of a step: what becomes of the wishes.            *)
LEMMA SemQuietRefines ==
    ASSUME \A q \in Proc : got'[q] = got[q] /\ (got[q] \/ (addr'[q] = addr[q] /\ kind'[q] = kind[q])),
           value' = value, note' = note
    PROVE  UNCHANGED Semaphore!absVars
<1>1. \A q \in Proc : Wish(q)' = Wish(q)
  BY DEF Wish
<1> QED  BY <1>1 DEF Semaphore!absVars

(* A call that is settled is no wish any more.                              *)
LEMMA SemSettled ==
    ASSUME SemTypeOK, SemCallInv, NEW s \in Proc, at[s] \in Waits \cup {"try"},
           got' = [got EXCEPT ![s] = TRUE], addr' = addr,
           \A q \in Proc \ {s} : kind'[q] = kind[q]
    PROVE  /\ Semaphore!Stop(s)
           /\ [p \in Proc |-> Wish(p)][s].addr = addr[s]
           /\ [p \in Proc |-> Wish(p)][s].kind = kind[s]
<1>1. ~got[s]
  BY DEF SemCallInv, Waits
<1>2. Wish(s) # Nobody /\ Wish(s).addr = addr[s] /\ Wish(s).kind = kind[s]
  BY <1>1, SemWishIs
<1>3. got'[s] = TRUE /\ \A q \in Proc \ {s} : got'[q] = got[q]
  BY DEF SemTypeOK
<1>4. Wish(s)' = Nobody
  BY <1>3 DEF Wish
<1>5. [p \in Proc |-> Wish(p)]' = [[p \in Proc |-> Wish(p)] EXCEPT ![s] = Wish(s)']
  BY <1>3, SemWishes
<1>6. Semaphore!Stop(s)
  BY <1>2, <1>4, <1>5 DEF Semaphore!Stop
<1> QED  BY <1>2, <1>6

(* canacquire that succeeds is an acquisition.                              *)
LEMMA SemGets ==
    ASSUME SemTypeOK, SemCallInv, NEW s \in Proc, at[s] \in Waits \cup {"try"}, Acquired(s),
           addr' = addr, note' = note, \A q \in Proc \ {s} : kind'[q] = kind[q]
    PROVE  Semaphore!AbsNext
<1>1. addr[s] \in Addr
  BY DEF SemTypeOK
<1>2. /\ value[addr[s]] > 0 /\ value' = [value EXCEPT ![addr[s]] = @ - 1]
      /\ got' = [got EXCEPT ![s] = TRUE]
  BY DEF Acquired, Set
<1>3. Semaphore!Stop(s) /\ [p \in Proc |-> Wish(p)][s].addr = addr[s]
  BY <1>2, SemSettled
<1>4. Semaphore!Get(s, addr[s])
  BY <1>2, <1>3 DEF Semaphore!Get
<1> QED  BY <1>1, <1>4 DEF Semaphore!AbsNext

(* A call begins, looks, and is refused.                                    *)
LEMMA SemBeginRefines ==
    ASSUME SemTypeOK, SemCallInv, NEW s \in Proc, SemacquireCall(s) \/ Try(s) \/ Refuse(s)
    PROVE  [Semaphore!AbsNext]_(Semaphore!absVars)
<1>1. CASE SemacquireCall(s)
  <2>1. PICK a \in Addr, k \in Kinds : addr' = [addr EXCEPT ![s] = a] /\ kind' = [kind EXCEPT ![s] = k]
    BY <1>1 DEF SemacquireCall, Set
  <2>2. /\ at[s] = "idle" /\ got' = [got EXCEPT ![s] = FALSE] /\ value' = value /\ note' = note
    BY <1>1 DEF SemacquireCall, SemGoto, Set
  <2>3. got[s] /\ Wish(s) = Nobody
    BY <2>2, SemWishIs DEF SemCallInv, Waits
  <2>4. /\ got'[s] = FALSE /\ addr'[s] = a /\ kind'[s] = k
        /\ \A q \in Proc \ {s} : got'[q] = got[q] /\ addr'[q] = addr[q] /\ kind'[q] = kind[q]
    BY <2>1, <2>2 DEF SemTypeOK
  <2>5. Wish(s)' = [addr |-> a, kind |-> k] /\ Wish(s)' \in Semaphore!Wish
    BY <2>4 DEF Wish, Semaphore!Wish, Kinds
  <2>6. [p \in Proc |-> Wish(p)]' = [[p \in Proc |-> Wish(p)] EXCEPT ![s] = Wish(s)']
    BY <2>4, SemWishes
  <2>7. Semaphore!Want(s)
    BY <2>2, <2>3, <2>5, <2>6 DEF Semaphore!Want
  <2> QED  BY <2>7 DEF Semaphore!AbsNext
<1>2. CASE Try(s)
  <2>1. at[s] = "try" /\ addr' = addr /\ note' = note
    BY <1>2 DEF Try, Return, SemGoto
  <2>2. CASE Acquired(s)
    <3>1. \A q \in Proc \ {s} : kind'[q] = kind[q]
      BY <1>2 DEF Try, Return, Set, SemTypeOK
    <3> QED  BY <2>1, <2>2, <3>1, SemGets
  <2>3. CASE ~Acquired(s)
    <3>1. value' = value /\ got' = got /\ kind' = kind
      BY <1>2, <2>3 DEF Try, NotAcquired
    <3> QED  BY <2>1, <3>1, SemQuietRefines
  <2> QED  BY <2>2, <2>3
<1>3. CASE Refuse(s)
  <2>1. /\ at[s] = "try" /\ got' = [got EXCEPT ![s] = TRUE] /\ addr' = addr /\ value' = value
        /\ note' = note /\ kind' = [kind EXCEPT ![s] = "none"] /\ kind[s] = "poll"
        /\ value[addr[s]] = 0
    BY <1>3 DEF Refuse, Return, SemGoto, Set
  <2>2. \A q \in Proc \ {s} : kind'[q] = kind[q]
    BY <2>1 DEF SemTypeOK
  <2>3. /\ Semaphore!Stop(s) /\ [p \in Proc |-> Wish(p)][s].addr = addr[s]
        /\ [p \in Proc |-> Wish(p)][s].kind = kind[s]
    BY <2>1, <2>2, SemSettled
  <2>4. Semaphore!Refused(s)
    BY <2>1, <2>3 DEF Semaphore!Refused
  <2> QED  BY <2>4 DEF Semaphore!AbsNext
<1> QED  BY <1>1, <1>2, <1>3

(* A call that waits looks again, is noted, or has waited long enough.      *)
LEMMA SemWaitRefines ==
    ASSUME SemTypeOK, SemCallInv, NEW s \in Proc,
           TryAgain(s) \/ Interrupt(s) \/ Expire(s) \/ Postnote(s)
    PROVE  [Semaphore!AbsNext]_(Semaphore!absVars)
<1>1. addr' = addr /\ kind' = kind
  BY DEF TryAgain, Interrupt, Expire, Postnote, call
<1>2. CASE TryAgain(s)
  <2>1. at[s] = "try-again" /\ note' = note
    BY <1>2 DEF TryAgain, SemGoto
  <2>2. CASE Acquired(s)
    BY <1>1, <2>1, <2>2, SemGets DEF Waits
  <2>3. CASE ~Acquired(s)
    <3>1. value' = value /\ got' = got
      BY <1>2, <2>3 DEF TryAgain, NotAcquired
    <3> QED  BY <1>1, <2>1, <3>1, SemQuietRefines
  <2> QED  BY <2>2, <2>3
<1>3. CASE Interrupt(s)
  <2>1. /\ at[s] = "awake" /\ got' = [got EXCEPT ![s] = TRUE] /\ value' = value /\ note[s]
        /\ note' = [note EXCEPT ![s] = FALSE]
    BY <1>3 DEF Interrupt, SemGoto, Set
  <2>2. Semaphore!Stop(s) /\ [p \in Proc |-> Wish(p)][s].kind = kind[s]
    BY <1>1, <2>1, SemSettled DEF Waits
  <2>3. kind[s] # "poll"
    BY <2>1 DEF SemCallInv, Waits
  <2>4. Semaphore!Interrupted(s)
    BY <2>1, <2>2, <2>3 DEF Semaphore!Interrupted
  <2> QED  BY <2>4 DEF Semaphore!AbsNext
<1>4. CASE Expire(s)
  <2>1. /\ at[s] = "awake" /\ got' = [got EXCEPT ![s] = TRUE] /\ value' = value /\ note' = note
        /\ kind[s] = "timed"
    BY <1>4 DEF Expire, SemGoto, Set
  <2>2. Semaphore!Stop(s) /\ [p \in Proc |-> Wish(p)][s].kind = kind[s]
    BY <1>1, <2>1, SemSettled DEF Waits
  <2>3. Semaphore!TimedOut(s)
    BY <2>1, <2>2 DEF Semaphore!TimedOut
  <2> QED  BY <2>3 DEF Semaphore!AbsNext
<1>5. CASE Postnote(s)
  <2>1. value' = value /\ got' = got /\ note' = [note EXCEPT ![s] = TRUE] /\ note[s] = FALSE
    BY <1>5 DEF Postnote, Set, SemTypeOK
  <2>2. [p \in Proc |-> Wish(p)]' = [p \in Proc |-> Wish(p)]
    BY <1>1, <2>1 DEF Wish
  <2>3. note' = [note EXCEPT ![s] = ~note[s]]
    BY <2>1
  <2>4. Semaphore!Note(s)
    BY <2>1, <2>2, <2>3 DEF Semaphore!Note
  <2> QED  BY <2>4 DEF Semaphore!AbsNext
<1> QED  BY <1>2, <1>3, <1>4, <1>5

(* A release, and the wakeups, which nobody who uses a semaphore sees.      *)
LEMMA SemRestRefines ==
    ASSUME SemTypeOK, SemCallInv, NEW s \in Proc,
           \/ Semrelease(s) \/ Semqueue(s) \/ Announce(s) \/ Sleep(s) \/ Timeout(s) \/ Awake(s)
           \/ Semdequeue(s) \/ PassOn(s) \/ Semwakeup(s) \/ Pass(s) \/ Clear(s) \/ Wakeup(s)
           \/ SemwakeupEnd(s)
    PROVE  [Semaphore!AbsNext]_(Semaphore!absVars)
<1>1. CASE Semrelease(s)
  <2>1. at[s] = "idle" /\ note' = note /\ kind' = kind /\ got' = got
    BY <1>1 DEF Semrelease, SemGoto
  <2>2. PICK a \in Addr : \E n \in 1..(MaxValue - value[a]) :
          addr' = [addr EXCEPT ![s] = a] /\ value' = [value EXCEPT ![a] = @ + n]
    BY <1>1 DEF Semrelease, Set
  <2>3. got[s] /\ \A q \in Proc \ {s} : addr'[q] = addr[q]
    BY <2>1, <2>2 DEF SemCallInv, Waits, SemTypeOK
  <2>4. \A q \in Proc : Wish(q)' = Wish(q)
    BY <2>1, <2>3 DEF Wish
  <2>5. [p \in Proc |-> Wish(p)]' = [p \in Proc |-> Wish(p)]
    BY <2>4
  <2>6. Semaphore!Release(a)
    BY <2>1, <2>2, <2>5 DEF Semaphore!Release
  <2> QED  BY <2>6 DEF Semaphore!AbsNext
<1>2. CASE PassOn(s) \/ SemwakeupEnd(s)
  <2>1. /\ at[s] \in {"pass-on", "scan"} /\ value' = value /\ note' = note /\ addr' = addr
        /\ got' = got /\ \A q \in Proc \ {s} : kind'[q] = kind[q]
    BY <1>2 DEF PassOn, SemwakeupEnd, Return, SemGoto, Set, SemTypeOK
  <2>2. got[s]
    BY <2>1 DEF SemCallInv, Waits
  <2> QED  BY <2>1, <2>2, SemQuietRefines
<1>3. CASE \/ Semqueue(s) \/ Announce(s) \/ Sleep(s) \/ Timeout(s) \/ Awake(s) \/ Semdequeue(s)
           \/ Semwakeup(s) \/ Pass(s) \/ Clear(s) \/ Wakeup(s)
  <2>1. value' = value /\ note' = note /\ addr' = addr /\ kind' = kind /\ got' = got
    BY <1>3 DEF Semqueue, Announce, Sleep, Timeout, Awake, Semdequeue, Semwakeup, Pass, Clear,
                Wakeup, call
  <2> QED  BY <2>1, SemQuietRefines
<1> QED  BY <1>1, <1>2, <1>3

(* Nobody wants anything at first.                                          *)
LEMMA SemInitRefines == SemInit => Semaphore!AbsInit /\ SemCallInv
<1> SUFFICES ASSUME SemInit PROVE Semaphore!AbsInit /\ SemCallInv
  OBVIOUS
<1>1. \A p \in Proc : Wish(p) = Nobody
  BY DEF SemInit, Wish
<1>2. Semaphore!AbsInit
  BY <1>1 DEF SemInit, Semaphore!AbsInit
<1>3. SemCallInv
  BY DEF SemInit, SemCallInv, Waits
<1> QED  BY <1>2, <1>3

(* semacquire, tsemacquire and semrelease (sysproc.c) are a counting        *)
(* semaphore, step by step: nobody takes what has not been released, and no *)
(* call fails without a reason.                                             *)
THEOREM SemaphoresCount ==
    SemSpec => Semaphore!AbsInit /\ [][Semaphore!AbsNext]_(Semaphore!absVars)
<1>1. SemInit => Semaphore!AbsInit /\ SemCallInv
  BY SemInitRefines
<1>2. SemIInv /\ SemCallInv /\ [SemNext]_semvars => SemCallInv'
  BY SemCallKept
<1>3. SemIInv /\ SemCallInv /\ [SemNext]_semvars => [Semaphore!AbsNext]_(Semaphore!absVars)
  <2> SUFFICES ASSUME SemIInv, SemCallInv, [SemNext]_semvars
               PROVE  [Semaphore!AbsNext]_(Semaphore!absVars)
    OBVIOUS
  <2>1. SemTypeOK
    BY DEF SemIInv, WakeupsSuffice
  <2>2. CASE UNCHANGED semvars
    <3>1. value' = value /\ note' = note /\ addr' = addr /\ kind' = kind /\ got' = got
      BY <2>2 DEF semvars, call
    <3> QED  BY <3>1, SemQuietRefines
  <2>3. ASSUME NEW s \in Proc,
               Step(s) \/ SemacquireCall(s) \/ Semrelease(s) \/ Timeout(s) \/ Postnote(s)
        PROVE  [Semaphore!AbsNext]_(Semaphore!absVars)
    <3>1. CASE SemacquireCall(s) \/ Try(s) \/ Refuse(s)
      BY <2>1, <3>1, SemBeginRefines
    <3>2. CASE TryAgain(s) \/ Interrupt(s) \/ Expire(s) \/ Postnote(s)
      BY <2>1, <3>2, SemWaitRefines
    <3>3. CASE \/ Semrelease(s) \/ Semqueue(s) \/ Announce(s) \/ Sleep(s) \/ Timeout(s) \/ Awake(s)
               \/ Semdequeue(s) \/ PassOn(s) \/ Semwakeup(s) \/ Pass(s) \/ Clear(s) \/ Wakeup(s)
               \/ SemwakeupEnd(s)
      BY <2>1, <3>3, SemRestRefines
    <3> QED  BY <2>3, <3>1, <3>2, <3>3 DEF Step
  <2> QED  BY <2>2, <2>3 DEF SemNext
<1>4. SemSpec => []SemIInv
  BY SemAlways
<1> QED  BY <1>1, <1>2, <1>3, <1>4, PTL DEF SemSpec
=============================================================================
