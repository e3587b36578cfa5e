----------------------------- MODULE DevmntProofs -----------------------------
(***************************************************************************)
(* Devmnt for any number of processes and Mntrpcs, interrupted any number  *)
(* of times: a call that succeeds has the server's answer to that call.    *)
(*                                                                         *)
(* The first lemmas are about one chain of messages and the wire: adding a *)
(* message to the chain, sending it, its answer, and the answer's arrival  *)
(* keep the order.  The others take that to the steps of the processes.    *)
(***************************************************************************)
EXTENDS Devmnt, QueueLemmas, WellFoundedInduction

(* A chain that grows by a message that has not been sent stays in order,   *)
LEMMA PushInOrder ==
    ASSUME NEW c \in Seq(Rpc), NEW r \in Rpc, NEW S, NEW R, NEW D,
           InOrder(c, S, R, D), ~D[r], ~OnWire(r, S, R)
    PROVE  InOrder(<<r>> \o c, S, R, D)
<1> DEFINE t == <<r>> \o c
<1>1. /\ DOMAIN t = 1..(Len(c) + 1) /\ DOMAIN c = 1..Len(c) /\ Len(c) \in Nat
      /\ t[1] = r /\ \A i \in 2..(Len(c) + 1) : t[i] = c[i - 1]
  OBVIOUS
<1> HIDE DEF t
<1>2. \A i \in 2..(Len(c) + 1) : i - 1 \in DOMAIN c
  BY <1>1
<1>3. \A i \in DOMAIN t : i = 1 \/ i \in 2..(Len(c) + 1)
  BY <1>1
<1> SUFFICES ASSUME NEW a \in DOMAIN t, NEW b \in DOMAIN t
             PROVE
    /\ \A m, n \in S : m.tag = t[a] /\ n.tag = t[b] =>
          /\ a < b => n.tag \in m.over
          /\ a = b => m = n
    /\ \A i \in DOMAIN R, m \in S : R[i].tag = t[a] /\ m.tag = t[b] => b < a
    /\ \A i, j \in DOMAIN R : i < j /\ R[i].tag = t[a] /\ R[j].tag = t[b] => b < a
    /\ D[t[a]] /\ OnWire(t[b], S, R) => b < a
  BY DEF InOrder, t
<1>4. CASE a = 1 \/ b = 1
  BY <1>1, <1>4 DEF OnWire
<1>5. CASE a \in 2..(Len(c) + 1) /\ b \in 2..(Len(c) + 1)
  <2>1. /\ a - 1 \in DOMAIN c /\ b - 1 \in DOMAIN c /\ t[a] = c[a - 1] /\ t[b] = c[b - 1]
        /\ (a < b => a - 1 < b - 1) /\ (a = b => a - 1 = b - 1) /\ (b - 1 < a - 1 => b < a)
    BY <1>1, <1>2, <1>5
  <2> QED  BY <2>1 DEF InOrder
<1> QED  BY <1>3, <1>4, <1>5

(* and about the same call.                                                 *)
LEMMA PushAbout ==
    ASSUME NEW c \in Seq(Rpc), c # <<>>, NEW r \in Rpc, NEW call,
           NEW S, NEW R, NEW D, NEW Y,
           About(c, call, S, R, D, Y), ~OnWire(r, S, R)
    PROVE  About(<<r>> \o c, call, S, R, D, Y)
<1> DEFINE t == <<r>> \o c
<1>1. /\ DOMAIN t = 1..(Len(c) + 1) /\ DOMAIN c = 1..Len(c) /\ Len(c) \in Nat \ {0}
      /\ Len(t) = Len(c) + 1
      /\ t[1] = r /\ \A i \in 2..(Len(c) + 1) : t[i] = c[i - 1]
  OBVIOUS
<1> HIDE DEF t
<1>2. t[Len(t)] = c[Len(c)]
  BY <1>1
<1>3. ASSUME NEW m \in S, NEW a \in DOMAIN t, m.tag = t[a]
      PROVE  m.call = call /\ m.old = IF a = Len(t) THEN None ELSE t[Len(t)]
  <2>1. a # 1
    BY <1>1, <1>3 DEF OnWire
  <2>2. a - 1 \in DOMAIN c /\ m.tag = c[a - 1] /\ (a = Len(t) <=> a - 1 = Len(c))
    BY <1>1, <1>3, <2>1
  <2> QED  BY <1>2, <2>2 DEF About
<1> QED  BY <1>2, <1>3 DEF About, t

(* A chain of one message that has not been sent.                           *)
LEMMA NewChain ==
    ASSUME NEW r \in Rpc, NEW call, NEW S, NEW R, NEW D, NEW Y,
           ~D[r], ~OnWire(r, S, R)
    PROVE  InOrder(<<r>> \o <<>>, S, R, D) /\ About(<<r>> \o <<>>, call, S, R, D, Y)
<1> DEFINE t == <<r>> \o <<>>
<1>1. DOMAIN t = {1} /\ t[1] = r /\ Len(t) = 1
  OBVIOUS
<1> HIDE DEF t
<1>2. InOrder(t, S, R, D)
  BY <1>1 DEF InOrder, OnWire
<1>3. About(t, call, S, R, D, Y)
  BY <1>1 DEF About, OnWire
<1> QED  BY <1>2, <1>3 DEF t

(* The newest message of a chain is sent, over the older ones, ...          *)
LEMMA SendNewest ==
    ASSUME NEW c \in Seq(Rpc), c # <<>>, IsInjective(c), NEW call,
           NEW S, NEW R \in Seq(Replies), NEW D, NEW Y, NEW m,
           InOrder(c, S, R, D), About(c, call, S, R, D, Y),
           m.tag = c[1], m.call = call, ~D[c[1]], ~OnWire(c[1], S, R),
           m.old = IF Len(c) = 1 THEN None ELSE c[Len(c)],
           \A n \in S : m.old # None /\ m.old \in {n.tag, n.old} => n.tag \in m.over,
           None \notin Rpc
    PROVE  InOrder(c, S \cup {m}, R, D) /\ About(c, call, S \cup {m}, R, D, Y)
<1> DEFINE T == S \cup {m}
<1>1. /\ DOMAIN c = 1..Len(c) /\ Len(c) \in Nat \ {0}
      /\ \A i, j \in DOMAIN c : c[i] = c[j] => i = j
      /\ \A i \in DOMAIN c : c[i] \in Rpc
  BY DEF IsInjective
<1>2. \A n \in T, a \in DOMAIN c : n.tag = c[a] => (a = 1 <=> n = m) /\ (a # 1 => n \in S)
  BY <1>1 DEF OnWire
<1>3. \A i \in DOMAIN R, a \in DOMAIN c : R[i].tag = c[a] => a # 1
  BY DEF OnWire
<1>4. ASSUME NEW n \in S, NEW a \in DOMAIN c, n.tag = c[a] PROVE n.tag \in m.over
  <2>1. a # 1 /\ Len(c) # 1 /\ m.old = c[Len(c)] /\ m.old # None
    BY <1>1, <1>2, <1>4 DEF OnWire
  <2>2. n.old = c[Len(c)] \/ n.tag = c[Len(c)]
    BY <1>4 DEF About
  <2> QED  BY <2>1, <2>2
<1>5. ASSUME NEW a \in DOMAIN c, NEW b \in DOMAIN c
      PROVE
    /\ \A k, n \in T : k.tag = c[a] /\ n.tag = c[b] =>
          /\ a < b => n.tag \in k.over
          /\ a = b => k = n
    /\ \A i \in DOMAIN R, k \in T : R[i].tag = c[a] /\ k.tag = c[b] => b < a
    /\ \A i, j \in DOMAIN R : i < j /\ R[i].tag = c[a] /\ R[j].tag = c[b] => b < a
    /\ D[c[a]] /\ OnWire(c[b], T, R) => b < a
  <2>1. ASSUME NEW k \in T, NEW n \in T, k.tag = c[a], n.tag = c[b]
        PROVE  (a < b => n.tag \in k.over) /\ (a = b => k = n)
    <3>1. CASE a = 1 /\ b = 1
      BY <1>2, <2>1, <3>1
    <3>2. CASE a = 1 /\ b # 1
      BY <1>1, <1>2, <1>4, <2>1, <3>2
    <3>3. CASE a # 1 /\ b = 1
      BY <1>1, <3>3
    <3>4. CASE a # 1 /\ b # 1
      <4>1. k \in S /\ n \in S
        BY <1>2, <2>1, <3>4
      <4> QED  BY <2>1, <4>1 DEF InOrder
    <3> QED  BY <3>1, <3>2, <3>3, <3>4
  <2>2. ASSUME NEW i \in DOMAIN R, NEW k \in T, R[i].tag = c[a], k.tag = c[b]
        PROVE  b < a
    <3>1. a # 1
      BY <1>3, <2>2
    <3>2. CASE b = 1
      BY <1>1, <3>1, <3>2
    <3>3. CASE b # 1
      <4>1. k \in S
        BY <1>2, <2>2, <3>3
      <4> QED  BY <2>2, <4>1 DEF InOrder
    <3> QED  BY <3>2, <3>3
  <2>3. ASSUME D[c[a]], OnWire(c[b], T, R) PROVE b < a
    <3>1. a # 1
      BY <2>3
    <3>2. CASE b = 1
      BY <1>1, <3>1, <3>2
    <3>3. CASE b # 1
      <4>1. OnWire(c[b], S, R)
        BY <1>2, <2>3, <3>3 DEF OnWire
      <4> QED  BY <2>3, <4>1 DEF InOrder
    <3> QED  BY <3>2, <3>3
  <2>4. \A i, j \in DOMAIN R : i < j /\ R[i].tag = c[a] /\ R[j].tag = c[b] => b < a
    BY DEF InOrder
  <2> QED  BY <2>1, <2>2, <2>3, <2>4
<1>6. ASSUME NEW n \in T, NEW a \in DOMAIN c, n.tag = c[a]
      PROVE  n.call = call /\ n.old = IF a = Len(c) THEN None ELSE c[Len(c)]
  <2>1. CASE n = m
    BY <1>1, <1>2, <1>6, <2>1
  <2>2. CASE n # m
    BY <1>6, <2>2 DEF About
  <2> QED  BY <2>1, <2>2
<1> HIDE DEF T
<1>7. InOrder(c, T, R, D)
  BY <1>5 DEF InOrder
<1>8. About(c, call, T, R, D, Y)
  BY <1>6 DEF About
<1> QED  BY <1>7, <1>8 DEF T

(* ... another's message changes nothing, ...                               *)
LEMMA SendOther ==
    ASSUME NEW c \in Seq(Rpc), NEW call, NEW S, NEW R, NEW D, NEW Y, NEW m,
           InOrder(c, S, R, D), About(c, call, S, R, D, Y),
           \A a \in DOMAIN c : m.tag # c[a]
    PROVE  InOrder(c, S \cup {m}, R, D) /\ About(c, call, S \cup {m}, R, D, Y)
<1> DEFINE T == S \cup {m}
<1>1. \A a \in DOMAIN c :
         /\ \A n \in T : n.tag = c[a] => n \in S
         /\ OnWire(c[a], T, R) <=> OnWire(c[a], S, R)
  BY DEF OnWire
<1> HIDE DEF T
<1>2. InOrder(c, T, R, D)
  BY <1>1 DEF InOrder
<1>3. About(c, call, T, R, D, Y)
  BY <1>1 DEF About
<1> QED  BY <1>2, <1>3 DEF T

(* a message is answered when the older ones have been forgotten, ...       *)
LEMMA AnswerInOrder ==
    ASSUME NEW c \in Seq(Rpc), c # <<>>, NEW call \in Answers,
           NEW S \in SUBSET Messages, NEW R \in Seq(Replies), NEW D, NEW Y,
           InOrder(c, S, R, D), About(c, call, S, R, D, Y),
           NEW m \in S, NEW x \in Answers, m.old = None => x = m.call,
           None \notin Rpc
    PROVE  LET T == {n \in S \ {m} : n.tag \notin m.over}
               Q == Append(R, [tag |-> m.tag, call |-> x])
           IN  InOrder(c, T, Q, D) /\ About(c, call, T, Q, D, Y)
<1> DEFINE T == {n \in S \ {m} : n.tag \notin m.over}
           e == [tag |-> m.tag, call |-> x]
           Q == Append(R, e)
<1>1. /\ DOMAIN c = 1..Len(c) /\ Len(c) \in Nat \ {0} /\ \A a \in DOMAIN c : c[a] \in Rpc
      /\ m.tag \in Rpc /\ e.tag = m.tag /\ e.call = x
  BY DEF Messages
<1>2. /\ DOMAIN R = 1..Len(R) /\ DOMAIN Q = 1..(Len(R) + 1) /\ Len(R) \in Nat
      /\ \A i \in DOMAIN R : Q[i] = R[i]
      /\ Q[Len(R) + 1] = e
  BY <1>1 DEF Replies
<1>3. \A n \in T : n \in S /\ n # m /\ n.tag \notin m.over
  OBVIOUS
<1> HIDE DEF T, e, Q
<1>4. \A a \in DOMAIN c : OnWire(c[a], T, Q) => OnWire(c[a], S, R)
  BY <1>1, <1>2, <1>3 DEF OnWire
<1>5. \A i \in DOMAIN Q : i \in DOMAIN R \/ i = Len(R) + 1
  BY <1>2
<1>6. ASSUME NEW a \in DOMAIN c, NEW b \in DOMAIN c
      PROVE
    /\ \A k, n \in T : k.tag = c[a] /\ n.tag = c[b] =>
          /\ a < b => n.tag \in k.over
          /\ a = b => k = n
    /\ \A i \in DOMAIN Q, n \in T : Q[i].tag = c[a] /\ n.tag = c[b] => b < a
    /\ \A i, j \in DOMAIN Q : i < j /\ Q[i].tag = c[a] /\ Q[j].tag = c[b] => b < a
    /\ D[c[a]] /\ OnWire(c[b], T, Q) => b < a
  <2>1. \A k, n \in T : k.tag = c[a] /\ n.tag = c[b] =>
          /\ a < b => n.tag \in k.over
          /\ a = b => k = n
    BY <1>3 DEF InOrder
  <2>2. ASSUME NEW i \in DOMAIN Q, NEW n \in T, Q[i].tag = c[a], n.tag = c[b]
        PROVE  b < a
    <3>1. CASE i \in DOMAIN R
      BY <1>2, <1>3, <2>2, <3>1 DEF InOrder
    <3>2. CASE i = Len(R) + 1
      <4>1. m.tag = c[a] /\ n \in S /\ n # m /\ n.tag \notin m.over
        BY <1>1, <1>2, <1>3, <2>2, <3>2
      <4>2. ~(a < b) /\ a # b
        BY <2>2, <4>1 DEF InOrder
      <4> QED  BY <1>1, <4>2
    <3> QED  BY <1>5, <3>1, <3>2
  <2>3. ASSUME NEW i \in DOMAIN Q, NEW j \in DOMAIN Q, i < j, Q[i].tag = c[a], Q[j].tag = c[b]
        PROVE  b < a
    <3>1. i \in DOMAIN R
      BY <1>2, <2>3
    <3>2. CASE j \in DOMAIN R
      BY <1>2, <2>3, <3>1, <3>2 DEF InOrder
    <3>3. CASE j = Len(R) + 1
      <4>1. R[i].tag = c[a] /\ m.tag = c[b]
        BY <1>1, <1>2, <2>3, <3>1, <3>3
      <4> QED  BY <3>1, <4>1 DEF InOrder
    <3> QED  BY <1>5, <3>2, <3>3
  <2>4. D[c[a]] /\ OnWire(c[b], T, Q) => b < a
    BY <1>4 DEF InOrder
  <2> QED  BY <2>1, <2>2, <2>3, <2>4
<1>7. InOrder(c, T, Q, D)
  BY <1>6 DEF InOrder
<1>8. ASSUME NEW i \in DOMAIN Q, Q[i].tag = c[Len(c)] PROVE Q[i].call = call
  <2>1. CASE i \in DOMAIN R
    BY <1>2, <1>8, <2>1 DEF About
  <2>2. CASE i = Len(R) + 1
    <3>1. Len(c) \in DOMAIN c /\ m.tag = c[Len(c)] /\ Q[i].call = x
      BY <1>1, <1>2, <1>8, <2>2
    <3>2. m.call = call /\ m.old = None
      BY <3>1 DEF About
    <3> QED  BY <3>1, <3>2
  <2> QED  BY <1>5, <2>1, <2>2
<1>9. About(c, call, T, Q, D, Y)
  BY <1>3, <1>8 DEF About
<1> QED  BY <1>7, <1>9 DEF T, Q, e

(* and the answer arrives, for a message of the chain or another.           *)
LEMMA ArriveInOrder ==
    ASSUME NEW c \in Seq(Rpc), c # <<>>, IsInjective(c), NEW call,
           NEW S, NEW R \in Seq(Replies), R # <<>>,
           NEW D \in [Rpc -> BOOLEAN], NEW Y \in [Rpc -> Answers],
           InOrder(c, S, R, D), About(c, call, S, R, D, Y),
           NEW E \in [Rpc -> BOOLEAN], NEW Z \in [Rpc -> Answers],
           \A r \in Rpc : r # Head(R).tag => E[r] = D[r] /\ Z[r] = Y[r],
           \/ E = D /\ Z = Y
           \/ E[Head(R).tag] /\ Z[Head(R).tag] = Head(R).call
    PROVE  InOrder(c, S, Tail(R), E) /\ About(c, call, S, Tail(R), E, Z)
<1> DEFINE Q == Tail(R)
           q == Head(R).tag
<1>1. /\ DOMAIN c = 1..Len(c) /\ Len(c) \in Nat \ {0} /\ \A a \in DOMAIN c : c[a] \in Rpc
      /\ \A i, j \in DOMAIN c : c[i] = c[j] => i = j
  BY DEF IsInjective
<1>2. /\ DOMAIN R = 1..Len(R) /\ Len(R) \in Nat \ {0} /\ DOMAIN Q = 1..(Len(R) - 1)
      /\ \A i \in DOMAIN Q : Q[i] = R[i + 1]
      /\ Head(R) = R[1] /\ 1 \in DOMAIN R
  OBVIOUS
<1>3. \A i \in DOMAIN Q : i + 1 \in DOMAIN R /\ 1 < i + 1
  BY <1>2
<1> HIDE DEF Q
<1>4. \A a \in DOMAIN c : OnWire(c[a], S, Q) => OnWire(c[a], S, R)
  BY <1>2, <1>3 DEF OnWire
<1>5. \A i, j \in DOMAIN Q : i < j => i + 1 < j + 1
  BY <1>2
<1>6. ASSUME NEW a \in DOMAIN c, NEW b \in DOMAIN c, E[c[a]], OnWire(c[b], S, Q)
      PROVE  b < a
  <2>1. CASE D[c[a]]
    BY <1>4, <1>6, <2>1 DEF InOrder
  <2>2. CASE ~D[c[a]]
    <3>1. c[a] = q /\ R[1].tag = c[a]
      BY <1>1, <1>2, <1>6, <2>2
    <3>2. CASE \E m \in S : m.tag = c[b]
      BY <1>2, <3>1, <3>2 DEF InOrder
    <3>3. CASE \E i \in DOMAIN Q : Q[i].tag = c[b]
      <4>1. PICK i \in DOMAIN Q : R[i + 1].tag = c[b] /\ i + 1 \in DOMAIN R /\ 1 < i + 1
        BY <1>2, <1>3, <3>3
      <4> QED  BY <1>2, <3>1, <4>1 DEF InOrder
    <3> QED  BY <1>6, <3>2, <3>3 DEF OnWire
  <2> QED  BY <2>1, <2>2
<1>7. InOrder(c, S, Q, E)
  <2> SUFFICES ASSUME NEW a \in DOMAIN c, NEW b \in DOMAIN c
               PROVE
    /\ \A m, n \in S : m.tag = c[a] /\ n.tag = c[b] =>
          /\ a < b => n.tag \in m.over
          /\ a = b => m = n
    /\ \A i \in DOMAIN Q, m \in S : Q[i].tag = c[a] /\ m.tag = c[b] => b < a
    /\ \A i, j \in DOMAIN Q : i < j /\ Q[i].tag = c[a] /\ Q[j].tag = c[b] => b < a
    /\ E[c[a]] /\ OnWire(c[b], S, Q) => b < a
    BY DEF InOrder
  <2>1. \A m, n \in S : m.tag = c[a] /\ n.tag = c[b] =>
          /\ a < b => n.tag \in m.over
          /\ a = b => m = n
    BY DEF InOrder
  <2>2. \A i \in DOMAIN Q, m \in S : Q[i].tag = c[a] /\ m.tag = c[b] => b < a
    BY <1>2, <1>3 DEF InOrder
  <2>3. \A i, j \in DOMAIN Q : i < j /\ Q[i].tag = c[a] /\ Q[j].tag = c[b] => b < a
    <3> TAKE i, j \in DOMAIN Q
    <3>1. Q[i] = R[i + 1] /\ Q[j] = R[j + 1] /\ i + 1 \in DOMAIN R /\ j + 1 \in DOMAIN R
          /\ (i < j => i + 1 < j + 1)
      BY <1>2, <1>3, <1>5
    <3> QED  BY <3>1 DEF InOrder
  <2> QED  BY <1>6, <2>1, <2>2, <2>3
<1>8. About(c, call, S, Q, E, Z)
  <2> DEFINE l == c[Len(c)]
  <2>1. \A i \in DOMAIN Q : Q[i].tag = l => Q[i].call = call
    BY <1>2, <1>3 DEF About
  <2>2. ASSUME E[l] PROVE Z[l] = call
    <3>1. l \in Rpc
      BY <1>1
    <3>2. CASE E = D /\ Z = Y
      BY <2>2, <3>2 DEF About
    <3>3. CASE l # q
      BY <2>2, <3>1, <3>3 DEF About
    <3>4. CASE l = q /\ Z[q] = Head(R).call
      BY <1>2, <3>4 DEF About
    <3> QED  BY <3>2, <3>3, <3>4
  <2>3. \A m \in S, a \in DOMAIN c : m.tag = c[a] =>
          m.call = call /\ m.old = IF a = Len(c) THEN None ELSE l
    BY DEF About
  <2> QED  BY <2>1, <2>2, <2>3 DEF About
<1> QED  BY <1>7, <1>8 DEF Q

(* What becomes of messages that are not the chain's does not matter to it. *)
LEMMA OthersInOrder ==
    ASSUME NEW c \in Seq(Rpc), c # <<>>, NEW call, NEW S, NEW R,
           NEW D, NEW Y, NEW E, NEW Z,
           InOrder(c, S, R, D), About(c, call, S, R, D, Y),
           \A a \in DOMAIN c : E[c[a]] = D[c[a]] /\ Z[c[a]] = Y[c[a]]
    PROVE  InOrder(c, S, R, E) /\ About(c, call, S, R, E, Z)
<1>1. Len(c) \in DOMAIN c
  OBVIOUS
<1>2. InOrder(c, S, R, E)
  BY DEF InOrder
<1>3. About(c, call, S, R, E, Z)
  BY <1>1 DEF About
<1> QED  BY <1>2, <1>3

(* A chain that loses its newest message stays in order,                    *)
LEMMA PopInOrder ==
    ASSUME NEW c \in Seq(Rpc), c # <<>>, NEW S, NEW R, NEW D, InOrder(c, S, R, D)
    PROVE  InOrder(Tail(c), S, R, D)
<1> DEFINE t == Tail(c)
<1>1. /\ DOMAIN t = 1..(Len(c) - 1) /\ DOMAIN c = 1..Len(c) /\ Len(c) \in Nat \ {0}
      /\ \A i \in 1..(Len(c) - 1) : t[i] = c[i + 1]
  OBVIOUS
<1> HIDE DEF t
<1> SUFFICES ASSUME NEW a \in DOMAIN t, NEW b \in DOMAIN t
             PROVE
    /\ \A m, n \in S : m.tag = t[a] /\ n.tag = t[b] =>
          /\ a < b => n.tag \in m.over
          /\ a = b => m = n
    /\ \A i \in DOMAIN R, m \in S : R[i].tag = t[a] /\ m.tag = t[b] => b < a
    /\ \A i, j \in DOMAIN R : i < j /\ R[i].tag = t[a] /\ R[j].tag = t[b] => b < a
    /\ D[t[a]] /\ OnWire(t[b], S, R) => b < a
  BY DEF InOrder, t
<1>2. /\ a + 1 \in DOMAIN c /\ b + 1 \in DOMAIN c /\ t[a] = c[a + 1] /\ t[b] = c[b + 1]
      /\ (a < b => a + 1 < b + 1) /\ (a = b => a + 1 = b + 1) /\ (b + 1 < a + 1 => b < a)
  BY <1>1
<1> QED  BY <1>2 DEF InOrder

(* and about the same call, unless that was the last.                       *)
LEMMA PopAbout ==
    ASSUME NEW c \in Seq(Rpc), c # <<>>, Len(c) # 1, NEW call,
           NEW S, NEW R, NEW D, NEW Y, About(c, call, S, R, D, Y)
    PROVE  About(Tail(c), call, S, R, D, Y)
<1> DEFINE t == Tail(c)
<1>1. /\ DOMAIN t = 1..(Len(c) - 1) /\ DOMAIN c = 1..Len(c) /\ Len(c) \in Nat \ {0}
      /\ Len(t) = Len(c) - 1 /\ \A i \in 1..(Len(c) - 1) : t[i] = c[i + 1]
  OBVIOUS
<1> HIDE DEF t
<1>2. Len(c) - 1 \in 1..(Len(c) - 1) /\ t[Len(t)] = c[Len(c)]
  <2>1. \A n \in Nat \ {0} : n # 1 => n - 1 \in 1..(n - 1) /\ (n - 1) + 1 = n
    OBVIOUS
  <2> QED  BY <1>1, <2>1
<1>3. ASSUME NEW m \in S, NEW a \in DOMAIN t, m.tag = t[a]
      PROVE  m.call = call /\ m.old = IF a = Len(t) THEN None ELSE t[Len(t)]
  <2>1. a + 1 \in DOMAIN c /\ m.tag = c[a + 1] /\ (a = Len(t) <=> a + 1 = Len(c))
    BY <1>1, <1>3
  <2> QED  BY <1>2, <2>1 DEF About
<1> QED  BY <1>2, <1>3 DEF About, t

----------------------------------------------------------------------------
(* What a process that is in a call has in hand.                            *)
LEMMA Chain ==
    ASSUME IInv, NEW p \in Proc, pc[p] # "idle"
    PROVE  /\ chain[p] \in Seq(Rpc) /\ chain[p] # <<>> /\ IsInjective(chain[p])
           /\ DOMAIN chain[p] = 1..Len(chain[p]) /\ Len(chain[p]) \in Nat \ {0}
           /\ Cur(p) = chain[p][1] /\ Request(p) = chain[p][Len(chain[p])]
           /\ Cur(p) \in Rpc /\ Cur(p) \in Held(p)
           /\ \A r : r \in Held(p) <=> \E a \in DOMAIN chain[p] : chain[p][a] = r
           /\ \A r : r \in Held(p) <=> Contains(chain[p], r)
           /\ Held(p) \subseteq Rpc \ rpcfree
           /\ Call(p) \in Answers
<1>1. chain[p] \in Seq(Rpc) /\ chain[p] # <<>> /\ IsInjective(chain[p]) /\ Held(p) \cap rpcfree = {}
  BY DEF IInv, Types, Chains
<1>2. /\ DOMAIN chain[p] = 1..Len(chain[p]) /\ Len(chain[p]) \in Nat \ {0}
      /\ Cur(p) = chain[p][1] /\ Request(p) = chain[p][Len(chain[p])]
      /\ \A a \in DOMAIN chain[p] : chain[p][a] \in Rpc
  BY <1>1 DEF Cur, Request, Last
<1>3. \A r : r \in Held(p) <=> \E a \in DOMAIN chain[p] : chain[p][a] = r
  BY DEF Held, ToSet
<1>4. \A r : r \in Held(p) <=> Contains(chain[p], r)
  BY <1>2, <1>3 DEF Contains
<1>5. Call(p) \in Answers
  BY DEF Call, Answers, IInv, Types
<1> QED  BY <1>1, <1>2, <1>3, <1>4, <1>5

(* Nothing is under way.                                                    *)
LEMMA InitIInv == Init => IInv
<1> SUFFICES ASSUME Init PROVE IInv
  OBVIOUS
<1>1. Types
  <2>1. Nothing \in Answers /\ <<>> \in Seq(Replies) /\ <<>> \in Seq(Rpc)
    BY DEF Nothing, Answers
  <2>2. pc \in [Proc -> {"idle", "write", "abandon", "flush"} \cup Past]
    BY DEF Init
  <2>3. serial \in [Proc -> 0 .. 1]
    BY DEF Init
  <2>4. server \subseteq Messages /\ replies \in Seq(Replies) /\ down \in BOOLEAN
    BY <2>1 DEF Init
  <2>5. done \in [Rpc -> BOOLEAN] /\ reply \in [Rpc -> Answers] /\ rpcfree \subseteq Rpc
    BY <2>1 DEF Init
  <2>6. chain \in [Proc -> Seq(Rpc)]
    BY <2>1 DEF Init
  <2> QED  BY <2>2, <2>3, <2>4, <2>5, <2>6 DEF Types
<1>2. \A p \in Proc : Held(p) = {} /\ IsInjective(chain[p])
  BY DEF Init, Held, ToSet, IsInjective
<1>3. Chains
  BY <1>2 DEF Init, Chains
<1>4. WaysOut /\ Calls
  BY DEF Init, WaysOut, Calls
<1>5. TagsClean
  BY DEF Init, TagsClean, Unused, OnWire
<1> QED  BY <1>1, <1>3, <1>4, <1>5 DEF IInv

(* Once a process has the reply to its newest message, none is under way.   *)
LEMMA AllClear ==
    ASSUME IInv, NEW p \in Proc, pc[p] \in Past, done[Cur(p)]
    PROVE  \A a \in DOMAIN chain[p] : ~OnWire(chain[p][a], server, replies)
<1>1. pc[p] # "idle"
  BY DEF Past
<1>2. InHand(p)
  BY <1>1 DEF IInv, Calls
<1>3. /\ done[chain[p][1]] /\ 1 \in DOMAIN chain[p]
      /\ \A a \in DOMAIN chain[p] : ~(a < 1)
  BY <1>1, Chain
<1> QED  BY <1>2, <1>3 DEF InHand, InOrder

(* A step that touches neither chains nor messages.                         *)
LEMMA PlacesOnly ==
    ASSUME IInv, Types', UNCHANGED <<chain, serial, rpcs, server, replies>>,
           down => down',
           \A p \in Proc :
              /\ pc'[p] = "idle" <=> pc[p] = "idle"
              /\ pc'[p] \in Past => pc[p] \in Past
              /\ pc'[p] \in {"write", "flush"} => pc[p] \in {"write", "flush"}
              /\ pc'[p] = "abandon" => pc[p] = "abandon" \/ down
              /\ pc'[p] = "return" => pc[p] = "return" \/ done[Cur(p)]
    PROVE  IInv'
<1>1. Chains'
  BY DEF IInv, Chains, Held, rpcs
<1>2. WaysOut'
  <2> SUFFICES ASSUME NEW p \in Proc
               PROVE  /\ pc'[p] = "abandon" => down'
                      /\ pc'[p] = "return" => \A a \in DOMAIN chain[p] :
                            ~OnWire(chain[p][a], server, replies)
    BY DEF WaysOut
  <2>1. pc'[p] = "return" => pc[p] \in Past
    BY DEF Past
  <2> QED  BY <2>1, AllClear DEF IInv, WaysOut
<1>3. TagsClean'
  BY DEF IInv, Types, TagsClean, Unused, rpcs
<1>4. ASSUME NEW p \in Proc, pc'[p] # "idle"
      PROVE  /\ ~down' \/ pc'[p] \in Past => InHand(p)'
             /\ ~down' /\ pc'[p] \in {"write", "flush"} => Unused(Cur(p))'
  <2>1. /\ ~down \/ pc[p] \in Past => InHand(p)
        /\ ~down /\ pc[p] \in {"write", "flush"} => Unused(Cur(p))
    BY <1>4 DEF IInv, Calls
  <2>2. (InHand(p)' <=> InHand(p)) /\ (Unused(Cur(p))' <=> Unused(Cur(p)))
    BY DEF InHand, Unused, Cur, Call, rpcs
  <2> QED  BY <2>1, <2>2 DEF IInv, Types
<1>5. Calls'
  BY <1>4 DEF Calls
<1> QED  BY <1>1, <1>2, <1>3, <1>5 DEF IInv

(* Sending the newest message keeps every chain in order.                   *)
LEMMA SendKeeps ==
    ASSUME IInv, NEW p \in Proc, pc[p] = "write", ~down, Send(p)
    PROVE  /\ server' \subseteq Messages
           /\ \A q \in Proc : pc[q] # "idle" =>
                 /\ InOrder(chain[q], server', replies, done)
                 /\ About(chain[q], Call(q), server', replies, done, reply)
           /\ \A r : r # Cur(p) /\ ~OnWire(r, server, replies) => ~OnWire(r, server', replies)
<1> DEFINE old == IF Len(chain[p]) > 1 THEN Request(p) ELSE None
           m == Message(p, old)
<1>1. server' = server \cup {m}
  BY DEF Send
<1>2. /\ m.tag = Cur(p) /\ m.call = Call(p) /\ m.old = old
      /\ m.over = {x.tag : x \in {n \in server : old # None /\ old \in {n.tag, n.old}}}
  BY DEF Message
<1>3. server \subseteq Messages /\ replies \in Seq(Replies)
  BY DEF IInv, Types
<1>4. m \in Messages
  <2>1. m.over \subseteq Rpc /\ Call(p) \in Answers /\ Cur(p) \in Rpc /\ old \in Rpc \cup {None}
    BY <1>2, <1>3, Chain DEF Messages
  <2> QED  BY <1>2, <2>1 DEF Message, Messages
<1>5. old = IF Len(chain[p]) = 1 THEN None ELSE chain[p][Len(chain[p])]
  <2>1. Len(chain[p]) \in Nat \ {0} /\ Request(p) = chain[p][Len(chain[p])]
    BY Chain
  <2>2. CASE Len(chain[p]) = 1
    BY <2>1, <2>2
  <2>3. CASE Len(chain[p]) # 1
    <3>1. \A n \in Nat \ {0} : n # 1 => n > 1
      OBVIOUS
    <3> QED  BY <2>1, <2>3, <3>1
  <2> QED  BY <2>2, <2>3
<1> HIDE DEF m, old
<1>6. ASSUME NEW q \in Proc, pc[q] # "idle"
      PROVE  /\ InOrder(chain[q], server \cup {m}, replies, done)
             /\ About(chain[q], Call(q), server \cup {m}, replies, done, reply)
  <2>1. /\ InOrder(chain[q], server, replies, done)
        /\ About(chain[q], Call(q), server, replies, done, reply)
    BY <1>6 DEF IInv, Calls, InHand
  <2>2. CASE q = p
    <3>1. ~done[chain[p][1]] /\ ~OnWire(chain[p][1], server, replies) /\ m.tag = chain[p][1]
      BY <1>2, Chain DEF IInv, Calls, Unused
    <3>2. \A n \in server : m.old # None /\ m.old \in {n.tag, n.old} => n.tag \in m.over
      BY <1>2
    <3>3. m.call = Call(p) /\ m.old = IF Len(chain[p]) = 1 THEN None ELSE chain[p][Len(chain[p])]
      BY <1>2, <1>5
    <3>4. chain[p] \in Seq(Rpc) /\ chain[p] # <<>> /\ IsInjective(chain[p]) /\ None \notin Rpc
      BY Chain, DevmntAssumption
    <3> QED  BY <1>3, <2>1, <2>2, <3>1, <3>2, <3>3, <3>4, SendNewest
  <2>3. CASE q # p
    <3>1. Cur(p) \notin Held(q)
      BY <2>3, Chain DEF IInv, Chains
    <3>2. chain[q] \in Seq(Rpc) /\ \A a \in DOMAIN chain[q] : m.tag # chain[q][a]
      BY <1>2, <1>6, <3>1, Chain
    <3> QED  BY <2>1, <3>2, SendOther
  <2> QED  BY <2>2, <2>3
<1>7. \A r : r # Cur(p) /\ ~OnWire(r, server, replies) => ~OnWire(r, server \cup {m}, replies)
  BY <1>2 DEF OnWire
<1> QED  BY <1>1, <1>3, <1>4, <1>6, <1>7

(* A free Mntrpc becomes the newest of p's.                                 *)
LEMMA AllocKeeps ==
    ASSUME IInv, NEW p \in Proc, NEW r \in Rpc, Alloc(p, r)
    PROVE  /\ chain' \in [Proc -> Seq(Rpc)] /\ rpcfree' \subseteq Rpc
           /\ \A q \in Proc \ {p} : chain'[q] = chain[q]
           /\ chain'[p] = <<r>> \o chain[p] /\ chain'[p] # <<>> /\ Cur(p)' = r
           /\ \A q \in Proc : IsInjective(chain'[q]) /\ Held(q)' \cap rpcfree' = {}
           /\ \A q, t \in Proc : q # t => Held(q)' \cap Held(t)' = {}
           /\ r \in rpcfree /\ rpcfree' = rpcfree \ {r}
           /\ \A q \in Proc : r \notin Held(q)
           /\ \A q \in Proc : Held(q)' = IF q = p THEN Held(p) \cup {r} ELSE Held(q)
<1>1. /\ chain \in [Proc -> Seq(Rpc)] /\ r \in rpcfree /\ rpcfree' = rpcfree \ {r}
      /\ chain' = [chain EXCEPT ![p] = <<r>> \o chain[p]] /\ rpcfree \subseteq Rpc
      /\ \A q \in Proc : IsInjective(chain[q]) /\ Held(q) \cap rpcfree = {}
      /\ \A q, t \in Proc : q # t => Held(q) \cap Held(t) = {}
  BY DEF IInv, Types, Chains, Alloc
<1>2. \A q \in Proc : \A x : Contains(chain[q], x) <=> x \in Held(q)
  BY <1>1 DEF Contains, Held, ToSet
<1>3. ~Contains(chain[p], r)
  BY <1>1, <1>2
<1>4. /\ <<r>> \o chain[p] \in Seq(Rpc) /\ IsInjective(<<r>> \o chain[p])
      /\ \A x : Contains(<<r>> \o chain[p], x) <=> Contains(chain[p], x) \/ x = r
  BY <1>1, <1>3, PushHead
<1>5. /\ chain' \in [Proc -> Seq(Rpc)] /\ chain'[p] = <<r>> \o chain[p]
      /\ \A q \in Proc \ {p} : chain'[q] = chain[q]
  BY <1>1, <1>4
<1>6. ASSUME NEW q \in Proc PROVE \A x : Contains(chain'[q], x) <=> x \in Held(q)'
  <2>1. DOMAIN chain'[q] = 1..Len(chain'[q])
    BY <1>5
  <2> QED  BY <2>1 DEF Contains, Held, ToSet
<1>7. Held(p)' = Held(p) \cup {r}
  BY <1>2, <1>4, <1>5, <1>6
<1>8. \A q \in Proc \ {p} : Held(q)' = Held(q)
  BY <1>5 DEF Held
<1>9. chain'[p] # <<>> /\ Cur(p)' = r
  <2>1. chain[p] \in Seq(Rpc)
    BY <1>1
  <2>2. <<r>> \o chain[p] # <<>> /\ Head(<<r>> \o chain[p]) = r
    BY <2>1
  <2> QED  BY <1>5, <2>2 DEF Cur
<1>10. ASSUME NEW q \in Proc PROVE IsInjective(chain'[q]) /\ Held(q)' \cap rpcfree' = {}
  BY <1>1, <1>4, <1>5, <1>7, <1>8
<1>11. \A q \in Proc : r \notin Held(q)
  BY <1>1
<1>12. ASSUME NEW q \in Proc, NEW t \in Proc, q # t PROVE Held(q)' \cap Held(t)' = {}
  BY <1>1, <1>7, <1>8, <1>11, <1>12
<1>13. rpcfree' \subseteq Rpc
  BY <1>1
<1>14. \A q \in Proc : Held(q)' = IF q = p THEN Held(p) \cup {r} ELSE Held(q)
  BY <1>7, <1>8
<1> QED
  BY <1>1, <1>5, <1>9, <1>10, <1>11, <1>12, <1>13, <1>14

----------------------------------------------------------------------------
(* A new call.                                                              *)
LEMMA MountrpcKeeps == ASSUME IInv, NEW p \in Proc, Mountrpc(p) PROVE IInv'
<1>1. PICK r \in Rpc : Alloc(p, r)
  BY DEF Mountrpc
<1>2. /\ pc[p] = "idle" /\ pc' = [pc EXCEPT ![p] = "write"]
      /\ serial' = [serial EXCEPT ![p] = 1 - serial[p]]
      /\ UNCHANGED <<done, reply, server, replies, down>>
  BY DEF Mountrpc, link
<1>3. /\ chain' \in [Proc -> Seq(Rpc)] /\ rpcfree' \subseteq Rpc
      /\ \A q \in Proc \ {p} : chain'[q] = chain[q]
      /\ chain'[p] = <<r>> \o chain[p] /\ chain'[p] # <<>> /\ Cur(p)' = r
      /\ \A q \in Proc : IsInjective(chain'[q]) /\ Held(q)' \cap rpcfree' = {}
      /\ \A q, t \in Proc : q # t => Held(q)' \cap Held(t)' = {}
      /\ r \in rpcfree /\ rpcfree' = rpcfree \ {r}
  BY <1>1, AllocKeeps
<1>4. chain[p] = <<>>
  BY <1>2 DEF IInv, Chains
<1>5. Types'
  <2>1. \A n \in 0 .. 1 : 1 - n \in 0 .. 1
    OBVIOUS
  <2>2. serial' \in [Proc -> 0 .. 1]
    BY <1>2, <2>1 DEF IInv, Types
  <2>3. pc' \in [Proc -> {"idle", "write", "abandon", "flush"} \cup Past]
    BY <1>2 DEF IInv, Types
  <2> QED  BY <1>2, <1>3, <2>2, <2>3 DEF IInv, Types
<1>6. \A q \in Proc : pc'[q] = IF q = p THEN "write" ELSE pc[q]
  BY <1>2 DEF IInv, Types
<1>7. Chains'
  <2>1. \A q \in Proc : pc'[q] = "idle" <=> chain'[q] = <<>>
    BY <1>3, <1>6 DEF IInv, Chains
  <2> QED  BY <1>3, <2>1 DEF Chains
<1>8. WaysOut'
  BY <1>2, <1>3, <1>6 DEF IInv, WaysOut
<1>9. TagsClean'
  BY <1>2, <1>3 DEF IInv, TagsClean, Unused
<1>10. ASSUME NEW q \in Proc, pc'[q] # "idle"
       PROVE  /\ ~down' \/ pc'[q] \in Past => InHand(q)'
              /\ ~down' /\ pc'[q] \in {"write", "flush"} => Unused(Cur(q))'
  <2>1. CASE q = p
    <3>1. SUFFICES ASSUME ~down PROVE InHand(p)' /\ Unused(r)'
      BY <1>2, <1>3, <1>6, <2>1 DEF Past
    <3>2. Unused(r)
      BY <1>3, <3>1 DEF IInv, TagsClean
    <3>3. Unused(r)'
      BY <1>2, <3>2 DEF Unused
    <3>4. InHand(p)'
      BY <1>2, <1>3, <1>4, <3>2, NewChain DEF InHand, Unused
    <3> QED  BY <3>3, <3>4
  <2>2. CASE q # p
    <3>1. chain'[q] = chain[q] /\ pc'[q] = pc[q] /\ serial'[q] = serial[q]
      BY <1>2, <1>3, <1>6, <2>2 DEF IInv, Types
    <3>2. (InHand(q)' <=> InHand(q)) /\ (Unused(Cur(q))' <=> Unused(Cur(q)))
      BY <1>2, <3>1 DEF InHand, Unused, Cur, Call
    <3> QED  BY <1>2, <1>10, <3>1, <3>2 DEF IInv, Calls
  <2> QED  BY <2>1, <2>2
<1>11. Calls'
  BY <1>10 DEF Calls
<1> QED  BY <1>5, <1>7, <1>8, <1>9, <1>11 DEF IInv

(* The message is sent, whole.                                              *)
LEMMA WriteKeeps == ASSUME IInv, NEW p \in Proc, Write(p) PROVE IInv'
<1>1. /\ pc[p] = "write" /\ ~down /\ Send(p) /\ pc' = [pc EXCEPT ![p] = "gate"]
      /\ UNCHANGED <<chain, serial, done, reply, rpcfree, replies, down>>
  BY DEF Write, rpcs
<1>2. /\ server' \subseteq Messages
      /\ \A q \in Proc : pc[q] # "idle" =>
            /\ InOrder(chain[q], server', replies, done)
            /\ About(chain[q], Call(q), server', replies, done, reply)
      /\ \A r : r # Cur(p) /\ ~OnWire(r, server, replies) => ~OnWire(r, server', replies)
  BY <1>1, SendKeeps
<1>3. \A q \in Proc : pc'[q] = IF q = p THEN "gate" ELSE pc[q]
  BY <1>1 DEF IInv, Types
<1>4. Types'
  <2>1. pc' \in [Proc -> {"idle", "write", "abandon", "flush"} \cup Past]
    BY <1>1 DEF IInv, Types, Past
  <2> QED  BY <1>1, <1>2, <2>1 DEF IInv, Types
<1>5. Chains' /\ WaysOut'
  <2>1. \A q \in Proc : pc'[q] = "idle" <=> pc[q] = "idle"
    BY <1>1, <1>3
  <2>2. Chains'
    BY <1>1, <2>1 DEF IInv, Chains, Held
  <2>3. ASSUME NEW q \in Proc, pc[q] = "return", NEW a \in DOMAIN chain[q]
        PROVE  ~OnWire(chain[q][a], server', replies)
    <3>1. q # p /\ chain[q][a] # Cur(p)
      BY <1>1, <2>3, Chain DEF IInv, Chains
    <3> QED  BY <1>2, <2>3, <3>1 DEF IInv, WaysOut
  <2>4. WaysOut'
    BY <1>1, <1>3, <2>3 DEF IInv, WaysOut
  <2> QED  BY <2>2, <2>4
<1>6. TagsClean'
  <2> SUFFICES ASSUME NEW r \in rpcfree PROVE Unused(r)'
    BY <1>1 DEF TagsClean
  <2>1. r # Cur(p) /\ Unused(r)
    BY <1>1, Chain DEF IInv, TagsClean
  <2> QED  BY <1>1, <1>2, <2>1 DEF Unused
<1>7. ASSUME NEW q \in Proc, pc'[q] # "idle"
      PROVE  InHand(q)' /\ (pc'[q] \in {"write", "flush"} => Unused(Cur(q))')
  <2>1. pc[q] # "idle"
    BY <1>1, <1>3, <1>7
  <2>2. InHand(q)'
    BY <1>1, <1>2, <2>1 DEF InHand, Call
  <2>3. ASSUME pc'[q] \in {"write", "flush"} PROVE Unused(Cur(q))'
    <3>1. q # p /\ pc[q] = pc'[q]
      BY <1>3, <2>3
    <3>2. Unused(Cur(q))
      BY <1>1, <2>3, <3>1 DEF IInv, Calls
    <3>3. Cur(q) # Cur(p)
      BY <1>1, <2>1, <3>1, Chain DEF IInv, Chains
    <3> QED  BY <1>1, <1>2, <3>2, <3>3 DEF Unused, Cur
  <2> QED  BY <2>2, <2>3
<1>8. Calls'
  BY <1>7 DEF Calls
<1> QED  BY <1>4, <1>5, <1>6, <1>8 DEF IInv

(* A note at p, which may have sent its message just before: p gets a flush.*)
LEMMA NotedKeeps ==
    ASSUME IInv, Types', NEW p \in Proc, pc[p] # "idle", Mntflushalloc(p),
           \/ server' = server
           \/ pc[p] = "write" /\ ~down /\ Send(p),
           pc'[p] = "flush",
           \A q \in Proc \ {p} : pc'[q] = pc[q] \/ (pc[q] = "asleep" /\ pc'[q] = "awake")
    PROVE  IInv'
<1>1. PICK r \in Rpc : Alloc(p, r)
  BY DEF Mntflushalloc
<1>2. UNCHANGED <<serial, done, reply, replies, down>>
  BY DEF Mntflushalloc
<1>3. /\ chain' \in [Proc -> Seq(Rpc)] /\ rpcfree' \subseteq Rpc
      /\ \A q \in Proc \ {p} : chain'[q] = chain[q]
      /\ chain'[p] = <<r>> \o chain[p] /\ chain'[p] # <<>> /\ Cur(p)' = r
      /\ \A q \in Proc : IsInjective(chain'[q]) /\ Held(q)' \cap rpcfree' = {}
      /\ \A q, t \in Proc : q # t => Held(q)' \cap Held(t)' = {}
      /\ r \in rpcfree /\ rpcfree' = rpcfree \ {r}
      /\ \A q \in Proc : r \notin Held(q)
  BY <1>1, AllocKeeps
<1>4. ASSUME NEW q \in Proc, pc[q] # "idle", InHand(q)
      PROVE  /\ InOrder(chain[q], server', replies, done)
             /\ About(chain[q], Call(q), server', replies, done, reply)
  BY <1>4, SendKeeps DEF InHand
<1>5. ASSUME NEW x, x # Cur(p), Unused(x) PROVE Unused(x)'
  <2>1. ~OnWire(x, server', replies)
    BY <1>5, SendKeeps DEF Unused
  <2> QED  BY <1>2, <1>5, <2>1 DEF Unused
<1>6. Chains'
  BY <1>3 DEF IInv, Chains
<1>7. WaysOut'
  <2>1. ASSUME NEW q \in Proc, pc'[q] = "return", NEW a \in DOMAIN chain'[q]
        PROVE  ~OnWire(chain'[q][a], server', replies')
    <3>1. q # p /\ pc[q] = "return" /\ chain'[q] = chain[q]
      BY <1>3, <2>1
    <3>2. chain[q][a] # Cur(p)
      BY <2>1, <3>1, Chain DEF IInv, Chains
    <3>3. ~OnWire(chain[q][a], server, replies)
      BY <2>1, <3>1 DEF IInv, WaysOut
    <3>4. ~OnWire(chain[q][a], server', replies)
      BY <3>2, <3>3, SendKeeps
    <3> QED  BY <1>2, <3>1, <3>4
  <2>2. \A q \in Proc : pc'[q] = "abandon" => pc[q] = "abandon"
    OBVIOUS
  <2> QED  BY <1>2, <2>1, <2>2 DEF IInv, WaysOut
<1>8. r # Cur(p)
  BY <1>3, Chain
<1>9. TagsClean'
  <2> SUFFICES ASSUME ~down, NEW x \in rpcfree PROVE Unused(x)'
    BY <1>2, <1>3 DEF TagsClean
  <2>1. x # Cur(p) /\ Unused(x)
    BY Chain DEF IInv, TagsClean
  <2> QED  BY <1>5, <2>1
<1>10. ASSUME NEW q \in Proc, pc'[q] # "idle"
       PROVE  /\ ~down' \/ pc'[q] \in Past => InHand(q)'
              /\ ~down' /\ pc'[q] \in {"write", "flush"} => Unused(Cur(q))'
  <2>1. CASE q = p
    <3>1. SUFFICES ASSUME ~down PROVE InHand(p)' /\ Unused(r)'
      BY <1>2, <1>3, <2>1 DEF Past
    <3>2. Unused(r)'
      BY <1>3, <1>5, <1>8, <3>1 DEF IInv, TagsClean
    <3>3. InHand(p)
      BY <3>1 DEF IInv, Calls
    <3>4. /\ InOrder(chain[p], server', replies, done)
          /\ About(chain[p], Call(p), server', replies, done, reply)
      BY <1>4, <3>3
    <3>5. ~done[r] /\ ~OnWire(r, server', replies)
      BY <1>2, <3>2 DEF Unused
    <3>6. chain[p] \in Seq(Rpc) /\ chain[p] # <<>>
      BY Chain
    <3>7. InOrder(chain'[p], server', replies, done)
      BY <1>3, <3>4, <3>5, <3>6, PushInOrder
    <3>8. About(chain'[p], Call(p), server', replies, done, reply)
      BY <1>3, <3>4, <3>5, <3>6, PushAbout
    <3>9. InHand(p)'
      BY <1>2, <3>7, <3>8 DEF InHand, Call
    <3> QED  BY <3>2, <3>9
  <2>2. CASE q # p
    <3>1. /\ chain'[q] = chain[q] /\ pc[q] # "idle"
          /\ pc'[q] \in Past => pc[q] \in Past
          /\ pc'[q] \in {"write", "flush"} => pc[q] = pc'[q]
      BY <1>3, <1>10, <2>2 DEF Past
    <3>2. Cur(q) # Cur(p)
      BY <2>2, <3>1, Chain DEF IInv, Chains
    <3>3. ASSUME ~down' \/ pc'[q] \in Past PROVE InHand(q)'
      <4>1. InHand(q)
        BY <1>2, <3>1, <3>3 DEF IInv, Calls
      <4>2. /\ InOrder(chain[q], server', replies, done)
            /\ About(chain[q], Call(q), server', replies, done, reply)
        BY <1>4, <3>1, <4>1
      <4> QED  BY <1>2, <3>1, <4>2 DEF InHand, Call
    <3>4. ASSUME ~down', pc'[q] \in {"write", "flush"} PROVE Unused(Cur(q))'
      <4>1. Unused(Cur(q)) /\ Cur(q)' = Cur(q)
        BY <1>2, <3>1, <3>4 DEF IInv, Calls, Cur
      <4> QED  BY <1>5, <3>2, <4>1
    <3> QED  BY <3>3, <3>4
  <2> QED  BY <2>1, <2>2
<1>11. Calls'
  BY <1>10 DEF Calls
<1> QED  BY <1>6, <1>7, <1>9, <1>11 DEF IInv

(* The newest message of a call that is over is freed.                      *)
LEMMA LeaveKeeps ==
    ASSUME IInv, NEW p \in Proc, pc[p] \in {"return", "abandon"}, Leave(p)
    PROVE  IInv'
<1> DEFINE r == Cur(p)
<1>1. /\ rpcfree' = rpcfree \cup {r}
      /\ done' = [done EXCEPT ![r] = FALSE]
      /\ reply' = [reply EXCEPT ![r] = Nothing]
      /\ chain' = [chain EXCEPT ![p] = Tail(chain[p])]
      /\ pc' = IF Len(chain[p]) = 1 THEN [pc EXCEPT ![p] = "idle"] ELSE pc
      /\ UNCHANGED <<serial, server, replies, down>>
  BY DEF Leave, link
<1>2. /\ chain[p] \in Seq(Rpc) /\ chain[p] # <<>> /\ IsInjective(chain[p])
      /\ r = Head(chain[p]) /\ r \in Rpc /\ r \in Held(p)
      /\ \A x : x \in Held(p) <=> Contains(chain[p], x)
      /\ Len(chain[p]) \in Nat \ {0}
  BY Chain DEF Cur
<1>3. Tail(chain[p]) \in Seq(Rpc) /\ IsInjective(Tail(chain[p]))
  BY <1>2, InjectiveTail
<1>4. \A x : Contains(Tail(chain[p]), x) <=> x \in Held(p) /\ x # r
  BY <1>2, ContainsTail
<1> HIDE DEF r
<1>5. /\ \A q \in Proc \ {p} : pc'[q] = pc[q] /\ chain'[q] = chain[q]
      /\ pc'[p] = IF Len(chain[p]) = 1 THEN "idle" ELSE pc[p]
      /\ chain'[p] = Tail(chain[p])
      /\ chain' \in [Proc -> Seq(Rpc)]
  BY <1>1, <1>3 DEF IInv, Types
<1>6. \A q \in Proc \ {p} : Held(q)' = Held(q)
  BY <1>5 DEF Held
<1>7. Held(p)' = Held(p) \ {r}
  <2>1. \A x : x \in Held(p)' <=> Contains(Tail(chain[p]), x)
    <3>1. DOMAIN Tail(chain[p]) = 1..Len(Tail(chain[p]))
      BY <1>3
    <3> QED  BY <1>5, <3>1 DEF Held, ToSet, Contains
  <2> QED  BY <1>4, <2>1
<1>8. \A x \in Rpc : x # r => done'[x] = done[x] /\ reply'[x] = reply[x]
  BY <1>1 DEF IInv, Types
<1>9. Types'
  <2>1. Nothing \in Answers
    BY DEF Nothing, Answers
  <2>2. done' \in [Rpc -> BOOLEAN] /\ rpcfree' \subseteq Rpc
    BY <1>1, <1>2 DEF IInv, Types
  <2>3. reply' \in [Rpc -> Answers]
    BY <1>1, <2>1 DEF IInv, Types
  <2>4. pc' \in [Proc -> {"idle", "write", "abandon", "flush"} \cup Past]
    BY <1>1 DEF IInv, Types
  <2> QED  BY <1>1, <1>5, <2>2, <2>3, <2>4 DEF IInv, Types
<1>10. Chains'
  <2>1. pc'[p] = "idle" <=> chain'[p] = <<>>
    <3>1. /\ Len(Tail(chain[p])) = Len(chain[p]) - 1
          /\ Tail(chain[p]) = <<>> <=> Len(Tail(chain[p])) = 0
      <4>1. \A s \in Seq(Rpc) : s # <<>> => Len(Tail(s)) = Len(s) - 1
        OBVIOUS
      <4>2. \A s \in Seq(Rpc) : s = <<>> <=> Len(s) = 0
        OBVIOUS
      <4> QED  BY <1>2, <1>3, <4>1, <4>2
    <3>2. Tail(chain[p]) = <<>> <=> Len(chain[p]) = 1
      <4>1. \A n \in Nat \ {0} : n - 1 = 0 <=> n = 1
        OBVIOUS
      <4> QED  BY <1>2, <3>1, <4>1
    <3>3. pc[p] # "idle"
      OBVIOUS
    <3> QED  BY <1>5, <3>2, <3>3
  <2>2. \A q \in Proc : /\ pc'[q] = "idle" <=> chain'[q] = <<>>
                       /\ IsInjective(chain'[q])
    BY <1>3, <1>5, <2>1 DEF IInv, Chains
  <2>3. ASSUME NEW q \in Proc PROVE Held(q)' \cap rpcfree' = {}
    <3>1. CASE q = p
      BY <1>1, <1>7, <3>1 DEF IInv, Chains
    <3>2. CASE q # p
      BY <1>1, <1>2, <1>6, <3>2 DEF IInv, Chains
    <3> QED  BY <3>1, <3>2
  <2>4. \A q \in Proc : Held(q)' \subseteq Held(q)
    BY <1>6, <1>7
  <2>5. \A q, t \in Proc : q # t => Held(q)' \cap Held(t)' = {}
    BY <2>4 DEF IInv, Chains
  <2> QED  BY <2>2, <2>3, <2>5 DEF Chains
<1>11. WaysOut'
  <2>1. ASSUME NEW q \in Proc, pc'[q] = "return", NEW a \in DOMAIN chain'[q]
        PROVE  ~OnWire(chain'[q][a], server, replies)
    <3>1. pc[q] = "return"
      BY <1>5, <2>1
    <3>2. chain'[q][a] \in Held(q)
      <4>1. chain'[q][a] \in Held(q)'
        BY <2>1 DEF Held, ToSet
      <4> QED  BY <1>6, <1>7, <4>1
    <3>3. PICK b \in DOMAIN chain[q] : chain'[q][a] = chain[q][b]
      BY <3>1, <3>2, Chain
    <3> QED  BY <3>1, <3>3 DEF IInv, WaysOut
  <2>2. \A q \in Proc : pc'[q] = "abandon" => pc[q] = "abandon"
    BY <1>5
  <2> QED  BY <1>1, <2>1, <2>2 DEF IInv, WaysOut
<1>12. TagsClean'
  <2> SUFFICES ASSUME ~down, NEW x \in rpcfree' PROVE Unused(x)'
    BY <1>1 DEF TagsClean
  <2>1. CASE x = r
    <3>1. pc[p] = "return"
      BY DEF IInv, WaysOut
    <3>2. ~OnWire(r, server, replies)
      BY <1>2, <3>1, Chain DEF IInv, WaysOut
    <3>3. ~done'[r]
      BY <1>1, <1>2 DEF IInv, Types
    <3> QED  BY <1>1, <2>1, <3>2, <3>3 DEF Unused
  <2>2. CASE x # r
    <3>1. Unused(x) /\ x \in Rpc
      BY <1>1, <2>2 DEF IInv, TagsClean, Types
    <3> QED  BY <1>1, <1>8, <2>2, <3>1 DEF Unused
  <2> QED  BY <2>1, <2>2
<1>13. ASSUME NEW q \in Proc, pc'[q] # "idle"
       PROVE  /\ ~down' \/ pc'[q] \in Past => InHand(q)'
              /\ ~down' /\ pc'[q] \in {"write", "flush"} => Unused(Cur(q))'
  <2>1. pc'[q] = pc[q] /\ pc[q] # "idle"
    BY <1>5, <1>13
  <2>2. /\ chain'[q] \in Seq(Rpc) /\ chain'[q] # <<>>
        /\ \A a \in DOMAIN chain'[q] : chain'[q][a] \in Rpc /\ chain'[q][a] # r
    <3>1. chain'[q] \in Seq(Rpc) /\ chain'[q] # <<>>
      BY <1>5, <1>10, <1>13 DEF Chains
    <3>2. r \notin Held(q)'
      BY <1>2, <1>6, <1>7 DEF IInv, Chains
    <3> QED  BY <3>1, <3>2 DEF Held, ToSet
  <2>3. \A a \in DOMAIN chain'[q] : /\ done'[chain'[q][a]] = done[chain'[q][a]]
                                   /\ reply'[chain'[q][a]] = reply[chain'[q][a]]
    BY <1>8, <2>2
  <2>4. ASSUME ~down' \/ pc'[q] \in Past PROVE InHand(q)'
    <3>1. InHand(q)
      BY <1>1, <2>1, <2>4 DEF IInv, Calls
    <3>2. /\ InOrder(chain'[q], server, replies, done)
          /\ About(chain'[q], Call(q), server, replies, done, reply)
      <4>1. CASE q = p
        <5>1. Len(chain[p]) # 1 /\ chain'[q] = Tail(chain[p])
          BY <1>5, <1>13, <4>1
        <5>2. InOrder(Tail(chain[p]), server, replies, done)
          BY <1>2, <3>1, <4>1, PopInOrder DEF InHand
        <5>3. About(Tail(chain[p]), Call(p), server, replies, done, reply)
          BY <1>2, <3>1, <4>1, <5>1, PopAbout DEF InHand
        <5> QED  BY <4>1, <5>1, <5>2, <5>3
      <4>2. CASE q # p
        BY <1>5, <3>1, <4>2 DEF InHand
      <4> QED  BY <4>1, <4>2
    <3>3. /\ InOrder(chain'[q], server, replies, done')
          /\ About(chain'[q], Call(q), server, replies, done', reply')
      BY <2>2, <2>3, <3>2, OthersInOrder
    <3> QED  BY <1>1, <3>3 DEF InHand, Call
  <2>5. ASSUME ~down', pc'[q] \in {"write", "flush"} PROVE Unused(Cur(q))'
    <3>1. q # p
      BY <2>1, <2>5
    <3>2. Unused(Cur(q)) /\ chain'[q] = chain[q] /\ Cur(q)' = Cur(q)
      BY <1>1, <1>5, <2>1, <2>5, <3>1 DEF IInv, Calls, Cur
    <3>3. Cur(q) = chain'[q][1] /\ 1 \in DOMAIN chain'[q]
      BY <2>1, <3>2, Chain
    <3> QED  BY <1>1, <2>3, <3>2, <3>3 DEF Unused
  <2> QED  BY <2>4, <2>5
<1>14. Calls'
  BY <1>13 DEF Calls
<1> QED  BY <1>9, <1>10, <1>11, <1>12, <1>14 DEF IInv

(* A reply is read.                                                         *)
LEMMA MountmuxKeeps == ASSUME IInv, NEW p \in Proc, Mountmux(p) PROVE IInv'
<1> DEFINE t == Head(replies).tag
<1>1. /\ pc[p] = "read" /\ ~done[Cur(p)] /\ replies # <<>>
      /\ replies' = Tail(replies)
      /\ UNCHANGED <<chain, serial, rpcfree, server, down>>
  BY DEF Mountmux, Reading
<1>2. /\ replies \in Seq(Replies) /\ Head(replies) \in Replies /\ Tail(replies) \in Seq(Replies)
      /\ Head(replies) = replies[1] /\ 1 \in DOMAIN replies
      /\ \A i \in DOMAIN replies' : i + 1 \in DOMAIN replies /\ replies'[i] = replies[i + 1]
  BY <1>1 DEF IInv, Types
<1>3. t \in Rpc /\ Head(replies).call \in Answers
  BY <1>2 DEF Replies
<1>4. \/ UNCHANGED <<done, reply, pc>>
      \/ /\ done' = [done EXCEPT ![t] = TRUE]
         /\ reply' = [reply EXCEPT ![t] = Head(replies).call]
         /\ pc' = pc \/ pc' = [pc EXCEPT ![p] = "wake"]
  BY DEF Mountmux, Complete
<1> HIDE DEF t
<1>5. /\ done' \in [Rpc -> BOOLEAN] /\ reply' \in [Rpc -> Answers]
      /\ \A r \in Rpc : r # t => done'[r] = done[r] /\ reply'[r] = reply[r]
      /\ \/ done' = done /\ reply' = reply
         \/ done'[t] /\ reply'[t] = Head(replies).call
      /\ \A r \in Rpc : done[r] => done'[r]
  BY <1>3, <1>4 DEF IInv, Types
<1>6. \A q \in Proc : pc'[q] = pc[q] \/ (q = p /\ pc'[q] = "wake")
  BY <1>4 DEF IInv, Types
<1>7. Types'
  <2>1. pc' \in [Proc -> {"idle", "write", "abandon", "flush"} \cup Past]
    BY <1>4 DEF IInv, Types, Past
  <2> QED  BY <1>1, <1>2, <1>5, <2>1 DEF IInv, Types
<1>8. Chains'
  BY <1>1, <1>6 DEF IInv, Chains, Held
<1>9. WaysOut'
  <2>1. \A r : ~OnWire(r, server, replies) => ~OnWire(r, server', replies')
    BY <1>1, <1>2 DEF OnWire
  <2> QED  BY <1>1, <1>6, <2>1 DEF IInv, WaysOut
<1>10. OnWire(t, server, replies)
  BY <1>2 DEF OnWire, t
<1>11. ASSUME NEW r \in Rpc, Unused(r) PROVE Unused(r)'
  <2>1. r # t
    BY <1>10, <1>11 DEF Unused
  <2>2. ~OnWire(r, server', replies')
    BY <1>1, <1>2, <1>11 DEF Unused, OnWire
  <2> QED  BY <1>5, <1>11, <2>1, <2>2 DEF Unused
<1>12. TagsClean'
  BY <1>1, <1>11 DEF IInv, TagsClean, Types
<1>13. ASSUME NEW q \in Proc, pc'[q] # "idle"
       PROVE  /\ ~down' \/ pc'[q] \in Past => InHand(q)'
              /\ ~down' /\ pc'[q] \in {"write", "flush"} => Unused(Cur(q))'
  <2>1. /\ pc[q] # "idle"
        /\ pc'[q] \in Past => pc[q] \in Past
        /\ pc'[q] \in {"write", "flush"} => pc[q] = pc'[q]
    BY <1>1, <1>6, <1>13 DEF Past
  <2>2. chain[q] \in Seq(Rpc) /\ chain[q] # <<>> /\ IsInjective(chain[q]) /\ Cur(q) \in Rpc
    BY <2>1, Chain
  <2>3. ASSUME ~down' \/ pc'[q] \in Past PROVE InHand(q)'
    <3>1. InHand(q)
      BY <1>1, <2>1, <2>3 DEF IInv, Calls
    <3>2. done \in [Rpc -> BOOLEAN] /\ reply \in [Rpc -> Answers]
      BY DEF IInv, Types
    <3>3. /\ InOrder(chain[q], server, Tail(replies), done')
          /\ About(chain[q], Call(q), server, Tail(replies), done', reply')
      BY <1>1, <1>2, <1>5, <2>2, <3>1, <3>2, ArriveInOrder DEF InHand, t
    <3> QED  BY <1>1, <3>3 DEF InHand, Call
  <2>4. ASSUME ~down', pc'[q] \in {"write", "flush"} PROVE Unused(Cur(q))'
    <3>1. Unused(Cur(q)) /\ Cur(q)' = Cur(q)
      BY <1>1, <2>1, <2>4 DEF IInv, Calls, Cur
    <3> QED  BY <1>11, <2>2, <3>1
  <2> QED  BY <2>3, <2>4
<1>14. Calls'
  BY <1>13 DEF Calls
<1> QED  BY <1>7, <1>8, <1>9, <1>12, <1>14 DEF IInv

(* The server answers a message.                                            *)
LEMMA AnswerKeeps == ASSUME IInv, NEW m \in server, Answer(m) PROVE IInv'
<1> DEFINE x == IF m.old = None THEN m.call ELSE Rflush
           e == [tag |-> m.tag, call |-> x]
<1>1. /\ ~down /\ replies' = Append(replies, e)
      /\ server' = {n \in server \ {m} : n.tag \notin m.over}
      /\ UNCHANGED <<pc, chain, serial, done, reply, rpcfree, down>>
  BY DEF Answer, process, rpcs
<1>2. server \in SUBSET Messages /\ replies \in Seq(Replies)
  BY DEF IInv, Types
<1>3. m.tag \in Rpc /\ x \in Answers /\ (m.old = None => x = m.call)
  BY <1>2 DEF Messages, Answers, Rflush
<1>4. e \in Replies
  BY <1>3 DEF Replies
<1> HIDE DEF x
<1>5. Types'
  <2>1. replies' \in Seq(Replies)
    BY <1>1, <1>2, <1>4
  <2> QED  BY <1>1, <2>1 DEF IInv, Types
<1>6. Chains'
  BY <1>1 DEF IInv, Chains, Held
<1>7. ASSUME NEW r, ~OnWire(r, server, replies) PROVE ~OnWire(r, server', replies')
  <2>1. /\ DOMAIN replies' = 1..(Len(replies) + 1) /\ DOMAIN replies = 1..Len(replies)
        /\ \A i \in 1..(Len(replies) + 1) :
              replies'[i] = IF i \in DOMAIN replies THEN replies[i] ELSE e
    BY <1>1, <1>2, <1>4
  <2>2. m.tag # r /\ e.tag # r
    BY <1>7 DEF OnWire
  <2> HIDE DEF e
  <2> QED  BY <1>1, <1>7, <2>1, <2>2 DEF OnWire
<1>8. WaysOut' /\ TagsClean'
  BY <1>1, <1>7 DEF IInv, WaysOut, TagsClean, Unused
<1>9. ASSUME NEW q \in Proc, pc[q] # "idle" PROVE InHand(q)'
  <2>1. InHand(q)
    BY <1>1, <1>9 DEF IInv, Calls
  <2>2. /\ chain[q] \in Seq(Rpc) /\ chain[q] # <<>> /\ Call(q) \in Answers
        /\ None \notin Rpc
    BY <1>9, Chain, DevmntAssumption
  <2>3. /\ InOrder(chain[q], server', replies', done)
        /\ About(chain[q], Call(q), server', replies', done, reply)
    BY <1>1, <1>2, <1>3, <2>1, <2>2, AnswerInOrder DEF InHand
  <2> QED  BY <1>1, <2>3 DEF InHand, Call
<1>10. Calls'
  BY <1>1, <1>7, <1>9 DEF IInv, Calls, Cur, Unused
<1> QED  BY <1>5, <1>6, <1>8, <1>10 DEF IInv

(* The server hangs up: what it has not answered is lost.                   *)
LEMMA HangupKeeps == ASSUME IInv, Hangup PROVE IInv'
<1>1. /\ ~down /\ down' /\ server' = {}
      /\ UNCHANGED <<pc, chain, serial, done, reply, rpcfree, replies>>
  BY DEF Hangup, process, rpcs
<1>2. Types' /\ Chains' /\ WaysOut' /\ TagsClean'
  BY <1>1 DEF IInv, Types, Chains, WaysOut, TagsClean, Held, OnWire, Hangup
<1>3. ASSUME NEW q \in Proc, pc[q] # "idle" PROVE InHand(q)'
  <2>1. InHand(q)
    BY <1>1, <1>3 DEF IInv, Calls
  <2>2. InOrder(chain[q], server', replies, done)
    BY <1>1, <2>1 DEF InHand, InOrder, OnWire
  <2>3. About(chain[q], Call(q), server', replies, done, reply)
    BY <1>1, <2>1 DEF InHand, About
  <2> QED  BY <1>1, <2>2, <2>3 DEF InHand, Call
<1>4. Calls'
  BY <1>1, <1>3 DEF Calls
<1> QED  BY <1>2, <1>4 DEF IInv

----------------------------------------------------------------------------
(* The reader that leaves moves nobody but one sleeper.                     *)
LEMMA GatePasses ==
    ASSUME IInv, NEW p \in Proc, NEW next \in {"flush", "abandon", "return"},
           Mntgate(p, next)
    PROVE  /\ pc' \in [Proc -> {"idle", "write", "abandon", "flush"} \cup Past]
           /\ pc'[p] = next
           /\ \A q \in Proc \ {p} : pc'[q] = pc[q] \/ (pc[q] = "asleep" /\ pc'[q] = "awake")
<1> DEFINE places == [pc EXCEPT ![p] = next]
<1>1. /\ places \in [Proc -> {"idle", "write", "abandon", "flush"} \cup Past]
      /\ places[p] = next /\ \A q \in Proc \ {p} : places[q] = pc[q]
  BY DEF IInv, Types, Past
<1>2. pc' = places \/ \E r : pc' = Wakeup(places, r)
  BY DEF Mntgate
<1> HIDE DEF places
<1>3. CASE pc' = places
  BY <1>1, <1>3
<1>4. ASSUME NEW r, pc' = Wakeup(places, r)
      PROVE  /\ pc' \in [Proc -> {"idle", "write", "abandon", "flush"} \cup Past]
             /\ \A q \in Proc : pc'[q] = places[q] \/ (places[q] = "asleep" /\ pc'[q] = "awake")
  BY <1>1, <1>4 DEF Wakeup, Past
<1> QED  BY <1>1, <1>2, <1>3, <1>4

(* The steps in which p only goes from place to place.                      *)
LEMMA MovesKeep ==
    ASSUME IInv, NEW p \in Proc,
           \/ Flush(p) \/ WriteFails(p) \/ Gate(p) \/ Sleep(p) \/ Awake(p)
           \/ MuxWake(p) \/ ReadFails(p) \/ ReadEnds(p)
    PROVE  IInv'
<1>1. UNCHANGED <<chain, serial, rpcs, server, replies, down>>
  BY DEF Flush, WriteFails, Gate, Sleep, Awake, MuxWake, ReadFails, ReadEnds, link
<1>2. /\ pc \in [Proc -> {"idle", "write", "abandon", "flush"} \cup Past]
      /\ \A q \in Proc : pc[q] = "asleep" => "asleep" \in Past
  BY DEF IInv, Types, Past
<1> DEFINE Moved(q) ==
              /\ pc'[q] = "idle" <=> pc[q] = "idle"
              /\ pc'[q] \in Past => pc[q] \in Past
              /\ pc'[q] \in {"write", "flush"} => pc[q] \in {"write", "flush"}
              /\ pc'[q] = "abandon" => pc[q] = "abandon" \/ down
              /\ pc'[q] = "return" => pc[q] = "return" \/ done[Cur(q)]
           Good == /\ pc' \in [Proc -> {"idle", "write", "abandon", "flush"} \cup Past]
                   /\ \A q \in Proc : Moved(q)
<1>3. ASSUME Flush(p) PROVE Good
  BY <1>2, <1>3 DEF Flush, Past
<1>4. ASSUME WriteFails(p) PROVE Good
  BY <1>2, <1>4 DEF WriteFails, Past
<1>5. ASSUME Gate(p) PROVE Good
  BY <1>2, <1>5 DEF Gate, Past
<1>6. ASSUME Sleep(p) PROVE Good
  BY <1>2, <1>6 DEF Sleep, Past
<1>7. ASSUME Awake(p) PROVE Good
  BY <1>2, <1>7 DEF Awake, Past
<1>8. ASSUME MuxWake(p) PROVE Good
  BY <1>2, <1>8 DEF MuxWake, Wakeup, Past
<1>9. ASSUME ReadFails(p) PROVE Good
  <2>1. pc[p] = "read" /\ down /\ Mntgate(p, "abandon")
    BY <1>9 DEF ReadFails, Reading
  <2> QED  BY <2>1, GatePasses DEF Past
<1>10. ASSUME ReadEnds(p) PROVE Good
  <2>1. pc[p] = "read" /\ done[Cur(p)] /\ Mntgate(p, "return")
    BY <1>10 DEF ReadEnds
  <2> QED  BY <2>1, GatePasses DEF Past
<1>11. Good
  BY <1>3, <1>4, <1>5, <1>6, <1>7, <1>8, <1>9, <1>10
<1>12. Types'
  BY <1>1, <1>11 DEF IInv, Types, rpcs
<1> QED  BY <1>1, <1>11, <1>12, PlacesOnly

(* Notes.                                                                   *)
LEMMA InterruptedKeeps == ASSUME IInv, NEW p \in Proc, Interrupted(p) PROVE IInv'
<1>1. /\ Mntflushalloc(p) /\ pc[p] # "idle"
      /\ \/ server' = server
         \/ pc[p] = "write" /\ ~down /\ Send(p)
  BY DEF Interrupted, WriteInterrupted, SleepInterrupted, ReadInterrupted, Reading
<1>2. /\ pc' \in [Proc -> {"idle", "write", "abandon", "flush"} \cup Past]
      /\ pc'[p] = "flush"
      /\ \A q \in Proc \ {p} : pc'[q] = pc[q] \/ (pc[q] = "asleep" /\ pc'[q] = "awake")
  <2>1. CASE pc' = [pc EXCEPT ![p] = "flush"]
    BY <2>1 DEF IInv, Types
  <2>2. CASE Mntgate(p, "flush")
    BY <2>2, GatePasses
  <2> QED
    BY <2>1, <2>2 DEF Interrupted, WriteInterrupted, SleepInterrupted, ReadInterrupted
<1>3. UNCHANGED <<serial, done, reply, replies, down>> /\ \E r \in Rpc : Alloc(p, r)
  BY <1>1 DEF Mntflushalloc
<1>4. chain' \in [Proc -> Seq(Rpc)] /\ rpcfree' \subseteq Rpc
  BY <1>3, AllocKeeps
<1>5. server' \subseteq Messages
  <2>1. CASE server' = server
    BY <2>1 DEF IInv, Types
  <2>2. CASE pc[p] = "write" /\ ~down /\ Send(p)
    BY <2>2, SendKeeps
  <2> QED  BY <1>1, <2>1, <2>2
<1>6. Types'
  BY <1>2, <1>3, <1>4, <1>5 DEF IInv, Types
<1> QED  BY <1>1, <1>2, <1>6, NotedKeeps

LEMMA NextKeeps == IInv /\ [Next]_vars => IInv'
<1> SUFFICES ASSUME IInv, [Next]_vars PROVE IInv'
  OBVIOUS
<1>1. ASSUME NEW p \in Proc, Step(p) PROVE IInv'
  <2>1. CASE Write(p)
    BY <2>1, WriteKeeps
  <2>2. CASE Mountmux(p)
    BY <2>2, MountmuxKeeps
  <2>3. CASE Return(p) \/ Abandon(p)
    BY <2>3, LeaveKeeps DEF Return, Abandon
  <2>4. CASE \/ Flush(p) \/ WriteFails(p) \/ Gate(p) \/ Sleep(p) \/ Awake(p)
             \/ MuxWake(p) \/ ReadFails(p) \/ ReadEnds(p)
    BY <2>4, MovesKeep
  <2> QED  BY <1>1, <2>1, <2>2, <2>3, <2>4 DEF Step
<1>2. CASE UNCHANGED vars
  <2>1. Types'
    BY <1>2 DEF IInv, Types, vars, process, rpcs, link
  <2> QED  BY <1>2, <2>1, PlacesOnly DEF vars, process, rpcs, link, IInv, WaysOut
<1> QED
  BY <1>1, <1>2, MountrpcKeeps, InterruptedKeeps, AnswerKeeps, HangupKeeps DEF Next

(* A call that succeeds has the server's answer to that very call, however  *)
(* often it and the others were interrupted: no tag is used again while a   *)
(* message with it, or an answer to one, is under way.                      *)
THEOREM DevmntRightReply == Spec => []RightReply
<1>1. IInv => RightReply
  <2> SUFFICES ASSUME IInv, NEW p \in Proc, pc[p] = "return", done[Request(p)]
               PROVE  reply[Request(p)] = Call(p)
    BY DEF RightReply
  <2>1. InHand(p)
    BY DEF IInv, Calls, Past
  <2>2. Request(p) = chain[p][Len(chain[p])]
    BY Chain
  <2> QED  BY <2>1, <2>2 DEF InHand, About
<1> QED  BY <1>1, InitIInv, NextKeeps, PTL DEF Spec

(* Until the server hangs up no message is under way whose tag is free, and *)
(* no Mntrpc is in two calls: what the next call gets is its own.           *)
THEOREM DevmntTags == Spec => [](Chains /\ TagsClean)
<1>1. IInv => Chains /\ TagsClean
  BY DEF IInv
<1> QED  BY <1>1, InitIInv, NextKeeps, PTL DEF Spec

----------------------------------------------------------------------------
(* The least of some numbers is one of them.                                *)
LEMMA LeastOne ==
    ASSUME NEW T, T \subseteq Nat, T # {}
    PROVE  Min(T) \in T
<1> DEFINE R == {xy \in Nat \X Nat : xy[1] < xy[2]}
<1>1. IsWellFoundedOn(R, Nat)
  BY NatLessThanWellFounded DEF OpToRel
<1>2. \A x, y \in Nat : x < y => <<x, y>> \in R
  OBVIOUS
<1> HIDE DEF R
<1>3. \E x \in T : \A y \in T : ~(<<y, x>> \in R)
  BY <1>1, WFMin
<1>4. PICK x \in T : \A y \in T : ~(<<y, x>> \in R)
  BY <1>3
<1>5. \A y \in T : x =< y
  <2> TAKE y \in T
  <2>1. ~(y < x) /\ x \in Nat /\ y \in Nat
    BY <1>2, <1>4
  <2> QED  BY <2>1
<1> QED  BY <1>5 DEF Min

(* Calls share no messages.                                                 *)
LEMMA Apart ==
    ASSUME IInv, NEW p \in Proc, NEW q \in Proc, p # q, pc[q] # "idle"
    PROVE  Cur(q) \notin Held(p) /\ (pc[p] # "idle" => Cur(q) # Cur(p))
<1>1. Cur(q) \notin Held(p)
  BY Chain DEF IInv, Chains
<1>2. pc[p] # "idle" => Cur(p) \in Held(p)
  BY Chain
<1> QED  BY <1>1, <1>2

LEMMA HeldTypes ==
    ASSUME IInv
    PROVE  rpcfree \subseteq Rpc /\ \A p \in Proc : Held(p) \subseteq Rpc
BY DEF IInv, Types, Held, ToSet

(* What is on m->queue.  Nothing changes there when nobody starts or ends a *)
(* call, is noted or answered.                                              *)
LEMMA SameQueue ==
    ASSUME OnQueue, UNCHANGED <<chain, queue, done, rpcfree>>,
           \A q \in Proc : pc'[q] = "flush" <=> pc[q] = "flush"
    PROVE  OnQueue'
BY DEF OnQueue, Held, Cur

(* A request goes on the queue, ...                                         *)
LEMMA MountrpcQueue ==
    ASSUME IInv, OnQueue, GateInv, queue \in Seq(Rpc), NEW p \in Proc, Mountrpc(p)
    PROVE  queue' \in Seq(Rpc) /\ OnQueue'
<1>1. PICK r \in Rpc : Alloc(p, r) /\ queue' = <<r>> \o queue
  BY DEF Mountrpc
<1>2. /\ pc[p] = "idle" /\ done' = done
      /\ \A q \in Proc : pc'[q] = IF q = p THEN "write" ELSE pc[q]
  BY DEF Mountrpc, IInv, Types
<1>3. /\ \A q \in Proc : Held(q)' = IF q = p THEN Held(p) \cup {r} ELSE Held(q)
      /\ \A q \in Proc \ {p} : chain'[q] = chain[q]
      /\ \A q \in Proc : Held(q)' \cap rpcfree' = {} /\ r \notin Held(q)
      /\ r \in rpcfree /\ rpcfree' = rpcfree \ {r}
  BY <1>1, AllocKeeps
<1>4. ~Contains(queue, r) /\ ~done[r]
  BY <1>3 DEF OnQueue, GateInv
<1>5. /\ queue' \in Seq(Rpc) /\ IsInjective(queue')
      /\ \A x : Contains(queue', x) <=> Contains(queue, x) \/ x = r
  BY <1>1, <1>4, PushHead DEF OnQueue
<1>6. Held(p) = {}
  BY <1>2 DEF IInv, Chains, Held, ToSet
<1>7. ASSUME NEW q \in Proc, NEW x \in Held(q)'
      PROVE  /\ x \notin rpcfree'
             /\ Contains(queue', x) <=> ~done'[x] /\ ~(x = Cur(q)' /\ pc'[q] = "flush")
  <2>1. CASE q = p
    BY <1>2, <1>3, <1>4, <1>5, <1>6, <1>7, <2>1
  <2>2. CASE q # p
    <3>1. x \in Held(q) /\ x # r /\ Cur(q)' = Cur(q)
      BY <1>3, <1>7, <2>2 DEF Cur
    <3> QED  BY <1>2, <1>3, <1>5, <1>7, <2>2, <3>1 DEF OnQueue
  <2> QED  BY <2>1, <2>2
<1>8. \A x \in rpcfree' : ~Contains(queue', x)
  BY <1>3, <1>5 DEF OnQueue
<1> QED  BY <1>5, <1>7, <1>8 DEF OnQueue

(* a flush does so in the step after the note, ...                          *)
LEMMA NotedQueue ==
    ASSUME IInv, OnQueue, GateInv, NEW p \in Proc, pc[p] \notin {"idle", "flush"},
           Mntflushalloc(p), pc'[p] = "flush",
           \A q \in Proc \ {p} : pc'[q] = "flush" <=> pc[q] = "flush"
    PROVE  OnQueue' /\ ~done[Cur(p)']
<1>1. PICK r \in Rpc : Alloc(p, r)
  BY DEF Mntflushalloc
<1>2. UNCHANGED <<queue, done>>
  BY DEF Mntflushalloc
<1>3. /\ \A q \in Proc : Held(q)' = IF q = p THEN Held(p) \cup {r} ELSE Held(q)
      /\ \A q \in Proc \ {p} : chain'[q] = chain[q]
      /\ \A q \in Proc : Held(q)' \cap rpcfree' = {} /\ r \notin Held(q)
      /\ r \in rpcfree /\ rpcfree' = rpcfree \ {r} /\ Cur(p)' = r
  BY <1>1, AllocKeeps
<1>4. ~Contains(queue, r) /\ ~done[r]
  BY <1>3 DEF OnQueue, GateInv
<1>5. ASSUME NEW q \in Proc, NEW x \in Held(q)'
      PROVE  /\ x \notin rpcfree'
             /\ Contains(queue, x) <=> ~done[x] /\ ~(x = Cur(q)' /\ pc'[q] = "flush")
  <2>1. CASE x = r
    BY <1>3, <1>4, <1>5, <2>1
  <2>2. CASE q = p /\ x # r
    <3>1. x \in Held(p)
      BY <1>3, <1>5, <2>2
    <3> QED  BY <1>3, <1>5, <2>2, <3>1 DEF OnQueue
  <2>3. CASE q # p
    <3>1. x \in Held(q) /\ Cur(q)' = Cur(q)
      BY <1>3, <1>5, <2>3 DEF Cur
    <3> QED  BY <1>3, <1>5, <2>3, <3>1 DEF OnQueue
  <2> QED  BY <1>3, <2>1, <2>2, <2>3
<1>6. \A x \in rpcfree' : ~Contains(queue, x)
  BY <1>3 DEF OnQueue
<1>7. OnQueue'
  BY <1>2, <1>5, <1>6 DEF OnQueue
<1> QED  BY <1>3, <1>4, <1>7

LEMMA FlushQueue ==
    ASSUME IInv, OnQueue, GateInv, queue \in Seq(Rpc), NEW p \in Proc, Flush(p)
    PROVE  queue' \in Seq(Rpc) /\ OnQueue'
<1> DEFINE r == Cur(p)
<1>1. /\ pc[p] = "flush" /\ queue' = <<r>> \o queue /\ UNCHANGED <<chain, done, rpcfree>>
      /\ \A q \in Proc : pc'[q] = IF q = p THEN "write" ELSE pc[q]
  BY DEF Flush, rpcs, IInv, Types
<1>2. r \in Rpc /\ r \in Held(p) /\ r \notin rpcfree
  BY <1>1, Chain
<1>3. ~Contains(queue, r) /\ ~done[r]
  BY <1>1, <1>2 DEF OnQueue, GateInv
<1>4. /\ queue' \in Seq(Rpc) /\ IsInjective(queue')
      /\ \A x : Contains(queue', x) <=> Contains(queue, x) \/ x = r
  BY <1>1, <1>2, <1>3, PushHead DEF OnQueue
<1>5. \A q \in Proc : Held(q)' = Held(q) /\ Cur(q)' = Cur(q)
  BY <1>1 DEF Held, Cur
<1>6. \A q \in Proc \ {p} : r \notin Held(q)
  BY <1>1, Apart
<1> HIDE DEF r
<1>7. ASSUME NEW q \in Proc, NEW x \in Held(q)
      PROVE  /\ x \notin rpcfree
             /\ Contains(queue', x) <=> ~done[x] /\ ~(x = Cur(q) /\ pc'[q] = "flush")
  <2>1. CASE q = p
    BY <1>1, <1>3, <1>4, <1>7, <2>1 DEF OnQueue, r
  <2>2. CASE q # p
    <3>1. x # r
      BY <1>6, <1>7, <2>2
    <3> QED  BY <1>1, <1>4, <1>7, <2>2, <3>1 DEF OnQueue
  <2> QED  BY <2>1, <2>2
<1>8. \A x \in rpcfree : ~Contains(queue', x)
  BY <1>2, <1>4 DEF OnQueue
<1> QED  BY <1>1, <1>4, <1>5, <1>7, <1>8 DEF OnQueue

(* it leaves the queue when its answer is read, ...                         *)
LEMMA MuxQueue ==
    ASSUME IInv, OnQueue, GateInv, queue \in Seq(Rpc), NEW p \in Proc, Mountmux(p)
    PROVE  /\ queue' \in Seq(Rpc) /\ OnQueue'
           /\ \A x \in rpcfree : ~done'[x]
           /\ \A q \in Proc : pc[q] = "flush" => ~done'[Cur(q)]
<1> DEFINE t == Head(replies).tag
<1>1. pc[p] = "read" /\ replies # <<>> /\ UNCHANGED <<chain, rpcfree>>
  BY DEF Mountmux, Reading
<1>2. t \in Rpc
  <2>1. Head(replies) \in Replies
    BY <1>1 DEF IInv, Types
  <2> QED  BY <2>1 DEF Replies
<1>3. \A q \in Proc : pc'[q] = "flush" <=> pc[q] = "flush"
  BY <1>1 DEF Mountmux, Complete, IInv, Types
<1>4. \A q \in Proc : Held(q)' = Held(q) /\ Cur(q)' = Cur(q)
  BY <1>1 DEF Held, Cur
<1> HIDE DEF t
<1>5. CASE ~Contains(queue, t)
  <2>1. UNCHANGED <<queue, done>>
    BY <1>5 DEF Mountmux, t
  <2> QED  BY <1>1, <1>3, <2>1, SameQueue DEF GateInv
<1>6. CASE Contains(queue, t)
  <2>1. queue' = RemoveFirst(queue, t) /\ done' = [done EXCEPT ![t] = TRUE]
    BY <1>6 DEF Mountmux, Complete, t
  <2>2. \A x \in Rpc : done'[x] = IF x = t THEN TRUE ELSE done[x]
    BY <1>2, <2>1 DEF IInv, Types
  <2>3. /\ queue' \in Seq(Rpc) /\ IsInjective(queue')
        /\ \A x : Contains(queue', x) <=> Contains(queue, x) /\ x # t
    BY <2>1, RemoveOne DEF OnQueue
  <2>4. ASSUME NEW q \in Proc, NEW x \in Held(q)
        PROVE  /\ x \notin rpcfree
               /\ Contains(queue', x) <=> ~done'[x] /\ ~(x = Cur(q) /\ pc'[q] = "flush")
    <3>1. x \in Rpc
      BY HeldTypes
    <3>2. /\ x \notin rpcfree
          /\ Contains(queue, x) <=> ~done[x] /\ ~(x = Cur(q) /\ pc[q] = "flush")
      BY DEF OnQueue
    <3>3. CASE x = t
      <4>1. done'[x] /\ ~Contains(queue', x)
        BY <2>2, <2>3, <3>1, <3>3
      <4> QED  BY <3>2, <4>1
    <3>4. CASE x # t
      <4>1. (done'[x] <=> done[x]) /\ (Contains(queue', x) <=> Contains(queue, x))
        BY <2>2, <2>3, <3>1, <3>4
      <4> QED  BY <1>3, <3>2, <4>1
    <3> QED  BY <3>3, <3>4
  <2>5. \A x \in rpcfree : ~Contains(queue', x) /\ ~done'[x]
    <3> TAKE x \in rpcfree
    <3>1. x \in Rpc /\ ~Contains(queue, x) /\ ~done[x]
      BY HeldTypes DEF OnQueue, GateInv
    <3>2. x # t
      BY <1>6, <3>1
    <3> QED  BY <2>2, <2>3, <3>1, <3>2
  <2>6. OnQueue'
    BY <1>1, <1>4, <2>3, <2>4, <2>5 DEF OnQueue
  <2>7. ASSUME NEW q \in Proc, pc[q] = "flush" PROVE ~done'[Cur(q)]
    <3>1. Cur(q) \in Held(q)
      BY <2>7, Chain
    <3>2. ~Contains(queue, Cur(q)) /\ ~done[Cur(q)]
      BY <2>7, <3>1 DEF OnQueue, GateInv
    <3> QED  BY <1>6, <2>2, <3>1, <3>2, HeldTypes
  <2> QED  BY <2>3, <2>5, <2>6, <2>7
<1> QED  BY <1>5, <1>6

(* and when the call is over.                                               *)
LEMMA LeaveQueue ==
    ASSUME IInv, OnQueue, GateInv, queue \in Seq(Rpc),
           NEW p \in Proc, pc[p] \in {"return", "abandon"}, Leave(p)
    PROVE  /\ queue' \in Seq(Rpc) /\ OnQueue'
           /\ \A x \in rpcfree' : ~done'[x]
           /\ \A q \in Proc \ {p} :
                 /\ pc'[q] = pc[q] /\ chain'[q] = chain[q]
                 /\ pc[q] # "idle" => done'[Cur(q)] = done[Cur(q)]
           /\ pc'[p] \in {"idle", "return", "abandon"}
<1> DEFINE r == Cur(p)
<1>1. /\ Mntqrm(p) /\ rpcfree' = rpcfree \cup {r}
      /\ done' = [done EXCEPT ![r] = FALSE]
      /\ chain' = [chain EXCEPT ![p] = Tail(chain[p])]
      /\ pc' = IF Len(chain[p]) = 1 THEN [pc EXCEPT ![p] = "idle"] ELSE pc
  BY DEF Leave
<1>2. /\ r \in Rpc /\ r \in Held(p) /\ r = Head(chain[p])
      /\ chain[p] \in Seq(Rpc) /\ chain[p] # <<>> /\ IsInjective(chain[p])
      /\ \A x : x \in Held(p) <=> Contains(chain[p], x)
  BY Chain DEF Cur
<1>3. Contains(queue, r) <=> ~done[r]
  BY <1>2 DEF OnQueue
<1>4. /\ queue' \in Seq(Rpc) /\ IsInjective(queue')
      /\ \A x : Contains(queue', x) <=> Contains(queue, x) /\ x # r
  <2>1. CASE done[r]
    BY <1>1, <1>3, <2>1 DEF Mntqrm, OnQueue
  <2>2. CASE ~done[r]
    <3>1. queue' = RemoveFirst(queue, r)
      BY <1>1, <2>2 DEF Mntqrm
    <3> QED  BY <3>1, RemoveOne DEF OnQueue
  <2> QED  BY <2>1, <2>2
<1> HIDE DEF r
<1>5. \A x \in Rpc : done'[x] = IF x = r THEN FALSE ELSE done[x]
  BY <1>1, <1>2 DEF IInv, Types
<1>6. /\ \A q \in Proc \ {p} : pc'[q] = pc[q] /\ chain'[q] = chain[q]
      /\ pc'[p] \in {"idle", "return", "abandon"}
      /\ chain'[p] = Tail(chain[p])
  BY <1>1 DEF IInv, Types
<1>7. \A q \in Proc \ {p} : Held(q)' = Held(q) /\ Cur(q)' = Cur(q)
  BY <1>6 DEF Held, Cur
<1>8. \A x \in Held(p)' : x \in Held(p) /\ x # r
  <2>1. Tail(chain[p]) \in Seq(Rpc)
    BY <1>2
  <2>2. DOMAIN Tail(chain[p]) = 1..Len(Tail(chain[p]))
    BY <2>1
  <2>3. \A x \in Held(p)' : Contains(Tail(chain[p]), x)
    BY <1>6, <2>2 DEF Held, ToSet, Contains
  <2> QED  BY <1>2, <2>3, ContainsTail
<1>9. \A q \in Proc \ {p} : r \notin Held(q)
  BY <1>2 DEF IInv, Chains
<1>10. ASSUME NEW q \in Proc, NEW x \in Held(q)'
       PROVE  /\ x \notin rpcfree'
              /\ Contains(queue', x) <=> ~done'[x] /\ ~(x = Cur(q)' /\ pc'[q] = "flush")
  <2>1. CASE q = p
    <3>1. x \in Held(p) /\ x # r
      BY <1>8, <1>10, <2>1
    <3>2. pc[p] # "flush" /\ pc'[p] # "flush"
      BY <1>6
    <3> QED  BY <1>1, <1>4, <1>5, <2>1, <3>1, <3>2, HeldTypes DEF OnQueue
  <2>2. CASE q # p
    <3>1. x \in Held(q) /\ x # r
      BY <1>7, <1>9, <1>10, <2>2
    <3> QED  BY <1>1, <1>4, <1>5, <1>6, <1>7, <2>2, <3>1, HeldTypes DEF OnQueue
  <2> QED  BY <2>1, <2>2
<1>11. \A x \in rpcfree' : ~Contains(queue', x) /\ ~done'[x]
  <2> TAKE x \in rpcfree'
  <2>1. CASE x = r
    BY <1>2, <1>4, <1>5, <2>1
  <2>2. CASE x # r
    <3>1. x \in rpcfree /\ x \in Rpc
      BY <1>1, <2>2, HeldTypes
    <3>2. ~Contains(queue, x) /\ ~done[x]
      BY <3>1 DEF OnQueue, GateInv
    <3> QED  BY <1>4, <1>5, <2>2, <3>1, <3>2
  <2> QED  BY <2>1, <2>2
<1>12. OnQueue'
  BY <1>4, <1>10, <1>11 DEF OnQueue
<1>13. ASSUME NEW q \in Proc \ {p}, pc[q] # "idle" PROVE done'[Cur(q)] = done[Cur(q)]
  <2>1. Cur(q) # r
    BY <1>2, <1>13, Apart
  <2> QED  BY <1>5, <1>13, <2>1, Chain
<1> QED  BY <1>4, <1>6, <1>11, <1>12, <1>13

----------------------------------------------------------------------------
(* The gate.  It stays open when somebody who is not the reader moves, ...  *)
LEMMA PlaceGate ==
    ASSUME IInv, GateInv, SomeoneReads, rip \in Proc \cup {None}, NEW p \in Proc,
           UNCHANGED <<target, rip, down>>,
           \A q \in Proc \ {p} :
              /\ pc'[q] = pc[q] /\ chain'[q] = chain[q]
              /\ pc[q] # "idle" => done'[Cur(q)] = done[Cur(q)],
           pc[p] \notin {"read", "wake"}, pc'[p] \notin {"read", "wake"},
           pc'[p] = "flush" => ~done'[Cur(p)'],
           pc'[p] = "asleep" => ~done'[Cur(p)'] /\ rip # None,
           ToTheGate(p) /\ rip = None /\ ~down => ToTheGate(p)',
           \A x \in rpcfree' : ~done'[x]
    PROVE  GateInv' /\ SomeoneReads'
<1>1. \A q \in Proc \ {p} : Cur(q)' = Cur(q)
  BY DEF Cur
<1>2. ASSUME NEW q \in Proc
      PROVE  /\ rip' = q <=> pc'[q] \in {"read", "wake"}
             /\ pc'[q] = "asleep" /\ done'[Cur(q)'] =>
                   \E w \in Proc : pc'[w] = "wake" /\ target'[w] = Cur(q)'
             /\ pc'[q] = "flush" => ~done'[Cur(q)']
  <2>1. CASE q = p
    BY <2>1 DEF GateInv
  <2>2. CASE q # p
    <3>1. ASSUME pc'[q] = "asleep", done'[Cur(q)']
          PROVE  \E w \in Proc : pc'[w] = "wake" /\ target'[w] = Cur(q)'
      <4>1. pc[q] = "asleep" /\ done[Cur(q)] /\ Cur(q)' = Cur(q)
        BY <1>1, <2>2, <3>1
      <4>2. PICK w \in Proc : pc[w] = "wake" /\ target[w] = Cur(q)
        BY <4>1 DEF GateInv
      <4> QED  BY <4>1, <4>2
    <3> QED  BY <1>1, <2>2, <3>1 DEF GateInv
  <2> QED  BY <2>1, <2>2
<1>3. GateInv'
  BY <1>2 DEF GateInv
<1>4. \A q \in Proc \ {p} : ToTheGate(q) => ToTheGate(q)'
  BY <1>1 DEF ToTheGate
<1>5. ASSUME ~down, rip = None, NEW s \in Proc, pc'[s] = "asleep"
      PROVE  \E q \in Proc : ToTheGate(q)'
  <2>1. s # p /\ pc[s] = "asleep"
    BY <1>5
  <2>2. PICK q \in Proc : ToTheGate(q)
    BY <1>5, <2>1 DEF SomeoneReads
  <2> QED  BY <1>4, <1>5, <2>2
<1>6. SomeoneReads'
  BY <1>5 DEF SomeoneReads
<1> QED  BY <1>3, <1>6

(* when somebody becomes the reader, ...                                    *)
LEMMA ReaderGate ==
    ASSUME IInv, GateInv, NEW p \in Proc, Gate(p), rip = None
    PROVE  GateInv' /\ SomeoneReads'
<1>1. /\ pc[p] = "gate" /\ rip' = p /\ UNCHANGED <<chain, target, done, rpcfree>>
      /\ \A q \in Proc : pc'[q] = IF q = p THEN "read" ELSE pc[q]
  BY DEF Gate, rpcs, IInv, Types
<1>2. \A q \in Proc : Cur(q)' = Cur(q)
  BY <1>1 DEF Cur
<1>3. p # None
  BY DevmntAssumption
<1>4. \A q \in Proc : pc[q] \notin {"read", "wake"}
  BY DevmntAssumption DEF GateInv
<1>5. GateInv'
  BY <1>1, <1>2, <1>4 DEF GateInv
<1> QED  BY <1>1, <1>3, <1>5 DEF SomeoneReads

(* while the reader works: whom it has read the reply of it will wake, ...  *)
LEMMA MuxGate ==
    ASSUME IInv, GateInv, OnQueue, queue \in Seq(Rpc),
           target \in [Proc -> Rpc \cup {None}], NEW p \in Proc, Mountmux(p)
    PROVE  GateInv' /\ SomeoneReads' /\ target' \in [Proc -> Rpc \cup {None}]
<1> DEFINE t == Head(replies).tag
<1>1. /\ pc[p] = "read" /\ ~done[Cur(p)] /\ UNCHANGED <<chain, rip, rpcfree>> /\ replies # <<>>
  BY DEF Mountmux, Reading
<1>2. t \in Rpc
  <2>1. Head(replies) \in Replies
    BY <1>1 DEF IInv, Types
  <2> QED  BY <2>1 DEF Replies
<1>3. \/ UNCHANGED <<done, pc, target>>
      \/ /\ done' = [done EXCEPT ![t] = TRUE]
         /\ t = Cur(p) /\ UNCHANGED <<pc, target>>
      \/ /\ done' = [done EXCEPT ![t] = TRUE]
         /\ t # Cur(p) /\ pc' = [pc EXCEPT ![p] = "wake"]
         /\ target' = [target EXCEPT ![p] = t]
  BY DEF Mountmux, Complete
<1>4. rip = p /\ p # None
  BY <1>1, DevmntAssumption DEF GateInv
<1>5. \A q \in Proc \ {p} : pc[q] \notin {"read", "wake"}
  BY <1>4 DEF GateInv
<1>6. \A q \in Proc : Cur(q)' = Cur(q)
  BY <1>1 DEF Cur
<1> HIDE DEF t
<1>7. target' \in [Proc -> Rpc \cup {None}]
  BY <1>2, <1>3
<1>8. \A q \in Proc : pc'[q] = pc[q] \/ (q = p /\ pc'[q] = "wake")
  BY <1>3 DEF IInv, Types
<1>9. ASSUME NEW q \in Proc, pc'[q] = "asleep", done'[Cur(q)]
      PROVE  \E w \in Proc : pc'[w] = "wake" /\ target'[w] = Cur(q)
  <2>1. pc[q] = "asleep" /\ q # p
    BY <1>1, <1>8, <1>9
  <2>2. ~done[Cur(q)]
    BY <1>1, <1>5, <2>1 DEF GateInv
  <2>3. Cur(q) \in Rpc /\ Cur(q) # Cur(p)
    BY <1>1, <2>1, Chain, Apart
  <2>4. Cur(q) = t /\ t # Cur(p)
    BY <1>2, <1>3, <1>9, <2>2, <2>3 DEF IInv, Types
  <2>5. pc'[p] = "wake" /\ target'[p] = t
    BY <1>3, <1>9, <2>2, <2>4 DEF IInv, Types
  <2> QED  BY <2>4, <2>5
<1>10. \A q \in Proc : rip' = q <=> pc'[q] \in {"read", "wake"}
  BY <1>1, <1>4, <1>5, <1>8
<1>11. /\ \A x \in rpcfree : ~done'[x]
       /\ \A q \in Proc : pc[q] = "flush" => ~done'[Cur(q)]
  BY MuxQueue
<1>12. \A q \in Proc : pc'[q] = "flush" => pc[q] = "flush"
  BY <1>8
<1>13. GateInv'
  BY <1>1, <1>6, <1>9, <1>10, <1>11, <1>12 DEF GateInv
<1> QED  BY <1>1, <1>4, <1>7, <1>13 DEF SomeoneReads

LEMMA MuxWakeGate ==
    ASSUME IInv, GateInv, target \in [Proc -> Rpc \cup {None}], NEW p \in Proc, MuxWake(p)
    PROVE  GateInv' /\ SomeoneReads' /\ target' \in [Proc -> Rpc \cup {None}]
<1> DEFINE places == [pc EXCEPT ![p] = "read"]
<1>1. /\ pc[p] = "wake" /\ pc' = Wakeup(places, target[p])
      /\ target' = [target EXCEPT ![p] = None]
      /\ UNCHANGED <<chain, rip, done, rpcfree>>
  BY DEF MuxWake, rpcs
<1>2. /\ places[p] = "read" /\ \A q \in Proc \ {p} : places[q] = pc[q]
  BY DEF IInv, Types
<1> HIDE DEF places
<1>3. \A q \in Proc : pc'[q] = IF places[q] = "asleep" /\ Cur(q) = target[p]
                              THEN "awake" ELSE places[q]
  BY <1>1 DEF Wakeup
<1>4. rip = p /\ p # None
  BY <1>1, DevmntAssumption DEF GateInv
<1>5. \A q \in Proc \ {p} : pc[q] \notin {"read", "wake"}
  BY <1>4 DEF GateInv
<1>6. \A q \in Proc : Cur(q)' = Cur(q)
  BY <1>1 DEF Cur
<1>7. pc'[p] = "read"
  BY <1>2, <1>3
<1>8. \A q \in Proc \ {p} : pc'[q] = pc[q] \/ (pc[q] = "asleep" /\ pc'[q] = "awake")
  BY <1>2, <1>3
<1>9. ASSUME NEW q \in Proc, pc'[q] = "asleep" PROVE ~done[Cur(q)]
  <2>1. q # p /\ pc[q] = "asleep" /\ Cur(q) # target[p]
    BY <1>2, <1>3, <1>7, <1>9
  <2> QED  BY <1>5, <2>1 DEF GateInv
<1>10. \A q \in Proc : rip = q <=> pc'[q] \in {"read", "wake"}
  BY <1>4, <1>5, <1>7, <1>8
<1>11. \A q \in Proc : pc'[q] = "flush" => pc[q] = "flush"
  BY <1>7, <1>8
<1>12. GateInv'
  BY <1>1, <1>6, <1>9, <1>10, <1>11 DEF GateInv
<1> QED  BY <1>1, <1>4, <1>12 DEF SomeoneReads

(* and when the reader leaves: the sleeper it wakes goes to the gate.       *)
LEMMA PassGate ==
    ASSUME IInv, GateInv, OnQueue, queue \in Seq(Rpc),
           NEW p \in Proc, NEW next \in {"flush", "abandon", "return"},
           pc[p] = "read", Mntgate(p, next), UNCHANGED <<target, done, down>>,
           \A q \in Proc \ {p} : chain'[q] = chain[q],
           next = "flush" => ~done[Cur(p)'],
           rpcfree' \subseteq rpcfree
    PROVE  GateInv' /\ SomeoneReads'
<1>1. /\ rip' = None /\ pc'[p] = next
      /\ \A q \in Proc \ {p} : pc'[q] = pc[q] \/ (pc[q] = "asleep" /\ pc'[q] = "awake")
  BY GatePasses DEF Mntgate
<1>2. rip = p /\ None \notin Proc
  BY DevmntAssumption DEF GateInv
<1>3. \A q \in Proc \ {p} : pc[q] \notin {"read", "wake"} /\ Cur(q)' = Cur(q)
  BY <1>2 DEF GateInv, Cur
<1>4. ASSUME NEW q \in Proc, pc[q] = "asleep" PROVE q # p /\ ~done[Cur(q)]
  BY <1>3, <1>4 DEF GateInv
<1>5. ASSUME NEW q \in Proc
      PROVE  /\ rip' = q <=> pc'[q] \in {"read", "wake"}
             /\ pc'[q] = "asleep" => ~done[Cur(q)']
             /\ pc'[q] = "flush" => ~done[Cur(q)']
  <2>1. CASE q = p
    BY <1>1, <1>2, <2>1
  <2>2. CASE q # p
    BY <1>1, <1>2, <1>3, <1>4, <2>2 DEF GateInv
  <2> QED  BY <2>1, <2>2
<1>6. GateInv'
  BY <1>5 DEF GateInv
<1>7. ASSUME NEW s \in Proc, pc'[s] = "asleep" PROVE \E q \in Proc : ToTheGate(q)'
  <2>1. s # p /\ pc[s] = "asleep" /\ ~done[Cur(s)]
    BY <1>1, <1>4, <1>7
  <2>2. Cur(s) \in Held(s)
    BY <2>1, Chain
  <2>3. Contains(queue, Cur(s))
    BY <2>1, <2>2 DEF OnQueue
  <2>4. DOMAIN queue = 1..Len(queue) /\ Len(queue) \in Nat
    OBVIOUS
  <2>5. PICK i \in DOMAIN queue : queue[i] = Cur(s)
    BY <2>3, <2>4 DEF Contains
  <2>6. Sleepers # {} /\ Sleepers \subseteq Nat
    BY <2>1, <2>4, <2>5 DEF Sleepers
  <2>7. Min(Sleepers) \in Sleepers
    BY <2>6, LeastOne
  <2>8. PICK q \in Proc : pc[q] = "asleep" /\ Cur(q) = queue[Min(Sleepers)]
    BY <2>7 DEF Sleepers
  <2>9. q # p /\ ~done[Cur(q)]
    BY <1>4, <2>8
  <2>10. pc'[q] = "awake"
    <3> DEFINE places == [pc EXCEPT ![p] = next]
    <3>1. places[q] = "asleep"
      BY <2>8, <2>9 DEF IInv, Types
    <3>2. pc' = Wakeup(places, queue[Min(Sleepers)])
      BY <2>6 DEF Mntgate
    <3> HIDE DEF places
    <3> QED  BY <2>8, <3>1, <3>2 DEF Wakeup
  <2> QED  BY <1>3, <2>9, <2>10 DEF ToTheGate
<1>8. SomeoneReads'
  BY <1>7 DEF SomeoneReads
<1> QED  BY <1>6, <1>8

----------------------------------------------------------------------------
(* The steps in which p only goes from place to place, and not as reader.   *)
LEMMA PlaceQInv ==
    ASSUME IInv, QInv, Types', NEW p \in Proc,
           \/ Flush(p) \/ Write(p) \/ WriteFails(p) \/ (Gate(p) /\ rip # None)
           \/ Sleep(p) \/ Awake(p)
    PROVE  QInv'
<1>1. /\ UNCHANGED <<chain, target, rip, rpcs, down>>
      /\ pc[p] \notin {"read", "wake", "idle"}
      /\ \A q \in Proc \ {p} : pc'[q] = pc[q]
      /\ Flush(p) \/ (queue' = queue /\ pc[p] # "flush")
  BY DEF Flush, Write, WriteFails, Gate, Sleep, Awake, link, IInv, Types
<1>2. queue \in Seq(Rpc) /\ OnQueue /\ GateInv /\ SomeoneReads /\ rip \in Proc \cup {None}
  BY DEF QInv, QueueOK, TypeOK
<1>3. pc'[p] \in {"write", "gate", "abandon", "sleep", "asleep", "awake", "return"}
  BY DEF Flush, Write, WriteFails, Gate, Sleep, Awake, IInv, Types
<1>4. queue' \in Seq(Rpc) /\ OnQueue'
  <2>1. CASE Flush(p)
    BY <1>2, <2>1, FlushQueue
  <2>2. CASE queue' = queue /\ pc[p] # "flush"
    <3>1. \A q \in Proc : pc'[q] = "flush" <=> pc[q] = "flush"
      BY <1>1, <1>3, <2>2
    <3> QED  BY <1>1, <1>2, <2>2, <3>1, SameQueue DEF rpcs
  <2> QED  BY <1>1, <2>1, <2>2
<1>5. Cur(p)' = Cur(p)
  BY <1>1 DEF Cur
<1>6. pc'[p] = "asleep" => ~done[Cur(p)] /\ rip # None
  BY <1>3 DEF Flush, Write, WriteFails, Gate, Sleep, Awake, Rpcattn, IInv, Types
<1>7. ASSUME ToTheGate(p), rip = None, ~down PROVE ToTheGate(p)'
  <2>1. CASE Flush(p) \/ Write(p)
    BY <2>1 DEF Flush, Write, IInv, Types, ToTheGate
  <2>2. CASE WriteFails(p) \/ (Gate(p) /\ rip # None)
    BY <1>7, <2>2 DEF WriteFails
  <2>3. CASE Sleep(p)
    <3>1. pc'[p] = "awake" /\ ~done[Cur(p)]
      BY <1>7, <2>3 DEF Sleep, Rpcattn, IInv, Types, ToTheGate
    <3> QED  BY <1>1, <1>5, <3>1 DEF ToTheGate, rpcs
  <2>4. CASE Awake(p)
    BY <1>7, <2>4 DEF Awake, IInv, Types, ToTheGate
  <2> QED  BY <2>1, <2>2, <2>3, <2>4
<1>8. \A x \in rpcfree' : ~done'[x]
  BY <1>1, <1>2 DEF rpcs, GateInv
<1>9. GateInv' /\ SomeoneReads'
  BY <1>1, <1>2, <1>3, <1>5, <1>6, <1>7, <1>8, PlaceGate DEF rpcs
<1>10. TypeOK'
  BY <1>1, <1>4 DEF QInv, QueueOK, TypeOK, Types, Past
<1> QED  BY <1>4, <1>9, <1>10 DEF QInv, QueueOK

(* Calls begin and end.                                                     *)
LEMMA MountrpcQInv ==
    ASSUME IInv, QInv, Types', NEW p \in Proc, Mountrpc(p)
    PROVE  QInv'
<1>1. queue \in Seq(Rpc) /\ OnQueue /\ GateInv /\ SomeoneReads /\ rip \in Proc \cup {None}
  BY DEF QInv, QueueOK, TypeOK
<1>2. PICK r \in Rpc : Alloc(p, r)
  BY DEF Mountrpc
<1>3. /\ pc[p] = "idle" /\ UNCHANGED <<target, rip, done, down>>
      /\ \A q \in Proc : pc'[q] = IF q = p THEN "write" ELSE pc[q]
  BY DEF Mountrpc, link, IInv, Types
<1>4. (\A q \in Proc \ {p} : chain'[q] = chain[q]) /\ rpcfree' \subseteq rpcfree
  BY <1>2, AllocKeeps
<1>5. queue' \in Seq(Rpc) /\ OnQueue'
  BY <1>1, MountrpcQueue
<1>6. ToTheGate(p)'
  BY <1>3 DEF ToTheGate
<1>7. \A x \in rpcfree' : ~done'[x]
  BY <1>1, <1>3, <1>4 DEF GateInv
<1>8. GateInv' /\ SomeoneReads'
  BY <1>1, <1>3, <1>4, <1>6, <1>7, PlaceGate
<1>9. TypeOK'
  BY <1>3, <1>5 DEF QInv, QueueOK, TypeOK, Types, Past
<1> QED  BY <1>5, <1>8, <1>9 DEF QInv, QueueOK

LEMMA LeaveQInv ==
    ASSUME IInv, QInv, Types', NEW p \in Proc, pc[p] \in {"return", "abandon"}, Leave(p)
    PROVE  QInv'
<1>1. queue \in Seq(Rpc) /\ OnQueue /\ GateInv /\ SomeoneReads /\ rip \in Proc \cup {None}
  BY DEF QInv, QueueOK, TypeOK
<1>2. UNCHANGED <<target, rip, down>> /\ ~ToTheGate(p)
  BY DEF Leave, link, ToTheGate
<1>3. /\ queue' \in Seq(Rpc) /\ OnQueue'
      /\ \A x \in rpcfree' : ~done'[x]
      /\ \A q \in Proc \ {p} :
            /\ pc'[q] = pc[q] /\ chain'[q] = chain[q]
            /\ pc[q] # "idle" => done'[Cur(q)] = done[Cur(q)]
      /\ pc'[p] \in {"idle", "return", "abandon"}
  BY <1>1, LeaveQueue
<1>4. GateInv' /\ SomeoneReads'
  BY <1>1, <1>2, <1>3, PlaceGate
<1>5. TypeOK'
  BY <1>2, <1>3 DEF QInv, QueueOK, TypeOK, Types, Past
<1> QED  BY <1>3, <1>4, <1>5 DEF QInv, QueueOK

(* The reader's steps.                                                      *)
LEMMA ReaderQInv ==
    ASSUME IInv, QInv, Types', NEW p \in Proc,
           \/ (Gate(p) /\ rip = None) \/ Mountmux(p) \/ MuxWake(p) \/ ReadFails(p) \/ ReadEnds(p)
    PROVE  QInv'
<1>1. /\ queue \in Seq(Rpc) /\ OnQueue /\ GateInv /\ SomeoneReads
      /\ rip \in Proc \cup {None} /\ target \in [Proc -> Rpc \cup {None}]
  BY DEF QInv, QueueOK, TypeOK
<1> DEFINE Good == /\ queue' \in Seq(Rpc) /\ OnQueue' /\ GateInv' /\ SomeoneReads'
                   /\ rip' \in Proc \cup {None} /\ target' \in [Proc -> Rpc \cup {None}]
<1>2. ASSUME Gate(p), rip = None PROVE Good
  <2>1. /\ UNCHANGED <<chain, queue, done, rpcfree, target>> /\ rip' = p
        /\ \A q \in Proc : pc'[q] = "flush" <=> pc[q] = "flush"
    BY <1>2 DEF Gate, rpcs, IInv, Types
  <2> QED  BY <1>1, <1>2, <2>1, SameQueue, ReaderGate
<1>3. ASSUME Mountmux(p) PROVE Good
  <2>1. rip' = rip
    BY <1>3 DEF Mountmux
  <2> QED  BY <1>1, <1>3, <2>1, MuxQueue, MuxGate
<1>4. ASSUME MuxWake(p) PROVE Good
  <2>1. /\ UNCHANGED <<chain, queue, done, rpcfree, rip>>
        /\ \A q \in Proc : pc'[q] = "flush" <=> pc[q] = "flush"
    BY <1>4 DEF MuxWake, Wakeup, rpcs, IInv, Types
  <2> QED  BY <1>1, <1>4, <2>1, SameQueue, MuxWakeGate
<1>5. ASSUME NEW next \in {"abandon", "return"}, pc[p] = "read", Mntgate(p, next),
             UNCHANGED <<chain, target, queue, rpcs, link>>
      PROVE  Good
  <2>1. rip' = None
    BY <1>5 DEF Mntgate
  <2>2. \A q \in Proc : pc'[q] = "flush" <=> pc[q] = "flush"
    BY <1>5, GatePasses
  <2>3. OnQueue'
    BY <1>1, <1>5, <2>2, SameQueue DEF rpcs
  <2>4. GateInv' /\ SomeoneReads'
    BY <1>1, <1>5, PassGate DEF rpcs, link
  <2> QED  BY <1>1, <1>5, <2>1, <2>3, <2>4
<1>6. ReadFails(p) => Good
  BY <1>5 DEF ReadFails, Reading
<1>7. ReadEnds(p) => Good
  BY <1>5 DEF ReadEnds
<1>8. Good
  BY <1>2, <1>3, <1>4, <1>6, <1>7
<1>9. TypeOK'
  BY <1>8 DEF TypeOK, Types, Past
<1> QED  BY <1>8, <1>9 DEF QInv, QueueOK

(* Notes.                                                                   *)
LEMMA InterruptedQInv ==
    ASSUME IInv, QInv, Types', NEW p \in Proc, Interrupted(p)
    PROVE  QInv'
<1>1. /\ queue \in Seq(Rpc) /\ OnQueue /\ GateInv /\ SomeoneReads
      /\ rip \in Proc \cup {None} /\ target \in [Proc -> Rpc \cup {None}]
  BY DEF QInv, QueueOK, TypeOK
<1>2. /\ Mntflushalloc(p) /\ pc[p] \in {"write", "sleep", "asleep", "awake", "read"}
      /\ UNCHANGED <<target, queue, done, down>>
  BY DEF Interrupted, WriteInterrupted, SleepInterrupted, ReadInterrupted, Reading, Mntflushalloc
<1>3. (\A q \in Proc \ {p} : chain'[q] = chain[q]) /\ rpcfree' \subseteq rpcfree
  BY <1>2, AllocKeeps DEF Mntflushalloc
<1>4. CASE Mntgate(p, "flush") /\ pc[p] = "read"
  <2>1. /\ rip' = None /\ pc'[p] = "flush"
        /\ \A q \in Proc \ {p} : pc'[q] = "flush" <=> pc[q] = "flush"
    BY <1>4, GatePasses DEF Mntgate
  <2>2. OnQueue' /\ ~done[Cur(p)']
    BY <1>1, <1>2, <2>1, NotedQueue
  <2>3. GateInv' /\ SomeoneReads'
    BY <1>1, <1>2, <1>3, <1>4, <2>2, PassGate
  <2>4. TypeOK'
    BY <1>1, <1>2, <2>1 DEF TypeOK, Types, Past
  <2> QED  BY <2>2, <2>3, <2>4 DEF QInv, QueueOK
<1>5. CASE pc' = [pc EXCEPT ![p] = "flush"] /\ pc[p] # "read" /\ rip' = rip
  <2>1. pc'[p] = "flush" /\ \A q \in Proc \ {p} : pc'[q] = pc[q]
    BY <1>5 DEF IInv, Types
  <2>2. OnQueue' /\ ~done[Cur(p)']
    BY <1>1, <1>2, <2>1, NotedQueue
  <2>3. ToTheGate(p)' /\ pc[p] # "wake"
    BY <1>2, <2>1 DEF ToTheGate
  <2>4. \A x \in rpcfree' : ~done'[x]
    BY <1>1, <1>2, <1>3 DEF GateInv
  <2>5. GateInv' /\ SomeoneReads'
    BY <1>1, <1>2, <1>3, <1>5, <2>1, <2>2, <2>3, <2>4, PlaceGate
  <2>6. TypeOK'
    BY <1>1, <1>2, <1>5 DEF TypeOK, Types, Past
  <2> QED  BY <2>2, <2>5, <2>6 DEF QInv, QueueOK
<1> QED
  BY <1>4, <1>5 DEF Interrupted, WriteInterrupted, SleepInterrupted, ReadInterrupted, Reading

LEMMA InitQInv == Init => QInv
<1> SUFFICES ASSUME Init PROVE QInv
  OBVIOUS
<1>1. TypeOK
  BY InitIInv DEF IInv, Init, TypeOK, Types, Past
<1>2. \A p \in Proc : Held(p) = {}
  BY DEF Init, Held, ToSet
<1>3. \A x : ~Contains(queue, x)
  BY DEF Init, Contains
<1>4. IsInjective(queue)
  BY DEF Init, IsInjective
<1>5. OnQueue
  BY <1>2, <1>3, <1>4 DEF OnQueue
<1>6. GateInv /\ SomeoneReads
  BY DevmntAssumption DEF Init, GateInv, SomeoneReads
<1> QED  BY <1>1, <1>5, <1>6 DEF QInv, QueueOK

LEMMA NextQInv == IInv /\ QInv /\ [Next]_vars => QInv'
<1> SUFFICES ASSUME IInv, QInv, [Next]_vars PROVE QInv'
  OBVIOUS
<1>1. Types'
  BY NextKeeps DEF IInv
<1>2. ASSUME NEW p \in Proc, Step(p) PROVE QInv'
  <2>1. CASE Return(p) \/ Abandon(p)
    BY <1>1, <2>1, LeaveQInv DEF Return, Abandon
  <2>2. CASE \/ Flush(p) \/ Write(p) \/ WriteFails(p) \/ (Gate(p) /\ rip # None)
             \/ Sleep(p) \/ Awake(p)
    BY <1>1, <2>2, PlaceQInv
  <2>3. CASE \/ (Gate(p) /\ rip = None) \/ Mountmux(p) \/ MuxWake(p)
             \/ ReadFails(p) \/ ReadEnds(p)
    BY <1>1, <2>3, ReaderQInv
  <2> QED  BY <1>2, <2>1, <2>2, <2>3 DEF Step
<1>3. CASE (\E m \in server : Answer(m)) \/ Hangup \/ UNCHANGED vars
  <2>1. UNCHANGED <<pc, chain, target, queue, rip, done, rpcfree>> /\ (down => down')
    <3>1. ASSUME NEW m \in server, Answer(m)
          PROVE  UNCHANGED <<pc, chain, target, queue, rip, done, rpcfree, down>>
      BY <3>1 DEF Answer, process, rpcs
    <3>2. CASE Hangup
      BY <3>2 DEF Hangup, process, rpcs
    <3>3. CASE UNCHANGED vars
      BY <3>3 DEF vars, process, rpcs, link
    <3> QED  BY <1>3, <3>1, <3>2, <3>3
  <2>2. OnQueue'
    BY <2>1, SameQueue DEF QInv, QueueOK
  <2>3. GateInv'
    BY <2>1 DEF QInv, GateInv, Cur
  <2>4. \A q \in Proc : ToTheGate(q)' <=> ToTheGate(q)
    BY <2>1 DEF ToTheGate, Cur
  <2>5. down \in BOOLEAN /\ down' \in BOOLEAN
    BY <1>1 DEF IInv, Types
  <2>6. SomeoneReads'
    BY <2>1, <2>4, <2>5 DEF QInv, QueueOK, SomeoneReads
  <2>7. TypeOK'
    BY <1>1, <2>1 DEF QInv, QueueOK, TypeOK, Types
  <2> QED  BY <2>2, <2>3, <2>6, <2>7 DEF QInv, QueueOK
<1> QED
  BY <1>1, <1>2, <1>3, MountrpcQInv, InterruptedQInv DEF Next

(* m->queue has each message that is under way and not answered, once, and  *)
(* no Mntrpc that is free; and as long as the server is up, whoever sleeps  *)
(* for a reply has a reader, or somebody on the way to become one.          *)
THEOREM DevmntQueueOK == Spec => []QueueOK
<1>1. IInv /\ QInv => QueueOK
  BY DEF QInv
<1> QED  BY <1>1, InitIInv, NextKeeps, InitQInv, NextQInv, PTL DEF Spec
===============================================================================
