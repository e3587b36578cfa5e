----------------------------- MODULE QueueLemmas -----------------------------
(***************************************************************************)
(* Facts about the kernel's linked lists of processes, written as          *)
(* sequences: what joining at the tail and leaving from the head do to who *)
(* is on the list, and that nobody gets on it twice.                       *)
(***************************************************************************)
EXTENDS Naturals, SequencesExt, TLAPS

(* Whoever joins at the tail is on the list; the others are where they were. *)
LEMMA ContainsAppend ==
    ASSUME NEW S, NEW s \in Seq(S), NEW e \in S, NEW x
    PROVE  Contains(Append(s, e), x) <=> Contains(s, x) \/ x = e
<1>1. /\ Len(Append(s, e)) = Len(s) + 1
      /\ Len(s) \in Nat
      /\ \A i \in 1..Len(s) : Append(s, e)[i] = s[i]
      /\ Append(s, e)[Len(s) + 1] = e
  OBVIOUS
<1>2. ASSUME Contains(Append(s, e), x), x # e PROVE Contains(s, x)
  BY <1>1, <1>2 DEF Contains
<1>3. ASSUME Contains(s, x) PROVE Contains(Append(s, e), x)
  BY <1>1, <1>3 DEF Contains
<1>4. Contains(Append(s, e), e)
  BY <1>1 DEF Contains
<1>5. QED
  BY <1>2, <1>3, <1>4

(* A newcomer does not appear twice. *)
LEMMA InjectiveAppend ==
    ASSUME NEW S, NEW s \in Seq(S), NEW e \in S, IsInjective(s), ~Contains(s, e)
    PROVE  IsInjective(Append(s, e))
<1>1. /\ DOMAIN Append(s, e) = 1..(Len(s) + 1)
      /\ DOMAIN s = 1..Len(s)
      /\ Len(s) \in Nat
      /\ \A i \in 1..Len(s) : Append(s, e)[i] = s[i]
      /\ Append(s, e)[Len(s) + 1] = e
  OBVIOUS
<1>2. QED
  BY <1>1 DEF IsInjective, Contains

(* The head that leaves is on the list. *)
LEMMA ContainsHead ==
    ASSUME NEW S, NEW s \in Seq(S), s # <<>>
    PROVE  Head(s) \in S /\ Tail(s) \in Seq(S) /\ Contains(s, Head(s))
<1>1. Len(s) \in Nat \ {0} /\ Head(s) = s[1] /\ s[1] \in S
  OBVIOUS
<1>2. Contains(s, Head(s))
  BY <1>1 DEF Contains
<1>3. QED
  BY <1>1, <1>2

(* After the head has left, it is off the list and nobody else is. *)
LEMMA ContainsTail ==
    ASSUME NEW S, NEW s \in Seq(S), s # <<>>, IsInjective(s), NEW x
    PROVE  Contains(Tail(s), x) <=> Contains(s, x) /\ x # Head(s)
<1>1. /\ Len(Tail(s)) = Len(s) - 1
      /\ Len(s) \in Nat \ {0}
      /\ DOMAIN s = 1..Len(s)
      /\ \A i \in 1..(Len(s) - 1) : Tail(s)[i] = s[i + 1]
      /\ Head(s) = s[1]
  OBVIOUS
<1>2. ASSUME Contains(Tail(s), x) PROVE Contains(s, x) /\ x # Head(s)
  BY <1>1, <1>2 DEF Contains, IsInjective
<1>3. ASSUME Contains(s, x), x # Head(s) PROVE Contains(Tail(s), x)
  <2>1. PICK i \in 1..Len(s) : s[i] = x
    BY <1>3 DEF Contains
  <2>2. i - 1 \in 1..(Len(s) - 1) /\ Tail(s)[i - 1] = x
    BY <1>1, <1>3, <2>1
  <2>3. QED
    BY <1>1, <2>2 DEF Contains
<1>4. QED
  BY <1>2, <1>3

(* Whoever is on a list is its head or behind it.                           *)
LEMMA TailContains ==
    ASSUME NEW S, NEW s \in Seq(S), s # <<>>, NEW x
    PROVE  Contains(s, x) <=> x = Head(s) \/ Contains(Tail(s), x)
<1>1. /\ Len(Tail(s)) = Len(s) - 1 /\ Len(s) \in Nat \ {0} /\ Head(s) = s[1]
      /\ \A i \in 1..(Len(s) - 1) : Tail(s)[i] = s[i + 1]
  OBVIOUS
<1>2. ASSUME Contains(Tail(s), x) PROVE Contains(s, x)
  <2>1. PICK i \in 1..(Len(s) - 1) : Tail(s)[i] = x
    BY <1>1, <1>2 DEF Contains
  <2>2. i + 1 \in 1..Len(s) /\ s[i + 1] = x
    BY <1>1, <2>1
  <2> QED
    BY <2>2 DEF Contains
<1>3. ASSUME Contains(s, x), x # Head(s) PROVE Contains(Tail(s), x)
  <2>1. PICK i \in 1..Len(s) : s[i] = x
    BY <1>3 DEF Contains
  <2>2. i - 1 \in 1..(Len(s) - 1) /\ Tail(s)[i - 1] = x
    BY <1>1, <1>3, <2>1
  <2> QED
    BY <1>1, <2>2 DEF Contains
<1>4. Contains(s, Head(s))
  BY <1>1 DEF Contains
<1> QED
  BY <1>2, <1>3, <1>4

(* Taking the head off leaves nobody on the list twice. *)
LEMMA InjectiveTail ==
    ASSUME NEW S, NEW s \in Seq(S), s # <<>>, IsInjective(s)
    PROVE  IsInjective(Tail(s))
<1>1. /\ Len(s) \in Nat \ {0}
      /\ DOMAIN s = 1..Len(s)
      /\ DOMAIN Tail(s) = 1..(Len(s) - 1)
      /\ \A i \in 1..(Len(s) - 1) : Tail(s)[i] = s[i + 1]
  OBVIOUS
<1>2. QED
  BY <1>1 DEF IsInjective

(* Whoever goes on at the head is on the list, and on it once.              *)
LEMMA PushHead ==
    ASSUME NEW S, NEW s \in Seq(S), NEW e \in S, IsInjective(s), ~Contains(s, e)
    PROVE  /\ <<e>> \o s \in Seq(S) /\ IsInjective(<<e>> \o s)
           /\ \A x : Contains(<<e>> \o s, x) <=> Contains(s, x) \/ x = e
<1> DEFINE t == <<e>> \o s
<1>1. /\ t \in Seq(S) /\ Len(t) = Len(s) + 1 /\ Len(s) \in Nat
      /\ DOMAIN t = 1..(Len(s) + 1) /\ DOMAIN s = 1..Len(s)
      /\ t[1] = e /\ \A i \in 1..Len(s) : t[i + 1] = s[i]
  OBVIOUS
<1> HIDE DEF t
<1>2. \A i \in 2..(Len(s) + 1) : i - 1 \in 1..Len(s) /\ t[i] = s[i - 1]
  <2> TAKE i \in 2..(Len(s) + 1)
  <2>1. i - 1 \in 1..Len(s) /\ (i - 1) + 1 = i
    BY <1>1
  <2> QED
    BY <1>1, <2>1
<1>3. IsInjective(t)
  <2> SUFFICES ASSUME NEW i \in 1..(Len(s) + 1), NEW j \in 1..(Len(s) + 1), t[i] = t[j]
               PROVE  i = j
    BY <1>1 DEF IsInjective
  <2>1. CASE i = 1 \/ j = 1
    BY <1>1, <1>2, <2>1 DEF Contains
  <2>2. CASE i \in 2..(Len(s) + 1) /\ j \in 2..(Len(s) + 1)
    <3>1. s[i - 1] = s[j - 1] /\ i - 1 \in DOMAIN s /\ j - 1 \in DOMAIN s
      BY <1>1, <1>2, <2>2
    <3>2. i - 1 = j - 1
      BY <3>1 DEF IsInjective
    <3> QED
      BY <2>2, <3>2
  <2> QED
    BY <1>1, <2>1, <2>2
<1>4. ASSUME NEW x PROVE Contains(t, x) <=> Contains(s, x) \/ x = e
  <2>1. ASSUME Contains(t, x), x # e PROVE Contains(s, x)
    <3>1. PICK i \in 1..Len(t) : t[i] = x
      BY <2>1 DEF Contains
    <3>2. i \in 2..(Len(s) + 1)
      BY <1>1, <2>1, <3>1
    <3> QED
      BY <1>2, <3>1, <3>2 DEF Contains
  <2>2. ASSUME Contains(s, x) PROVE Contains(t, x)
    <3>1. PICK i \in 1..Len(s) : s[i] = x
      BY <2>2 DEF Contains
    <3>2. i + 1 \in 1..Len(t) /\ t[i + 1] = x
      BY <1>1, <3>1
    <3> QED
      BY <3>2 DEF Contains
  <2>3. Contains(t, e)
    BY <1>1 DEF Contains
  <2> QED
    BY <2>1, <2>2, <2>3
<1> QED
  BY <1>1, <1>3, <1>4 DEF t

(* The first k leave together: the others are where they were, and the next *)
(* one is the head.                                                         *)
LEMMA DropFirst ==
    ASSUME NEW S, NEW s \in Seq(S), IsInjective(s), NEW k \in 1..Len(s)
    PROVE  LET t == SubSeq(s, k + 1, Len(s))
           IN  /\ t \in Seq(S) /\ IsInjective(t)
               /\ \A x : Contains(t, x) <=> Contains(s, x) /\ ~\E i \in 1..k : s[i] = x
               /\ k = Len(s) => t = <<>>
               /\ t # <<>> => k < Len(s) /\ Head(t) = s[k + 1]
<1> DEFINE t == SubSeq(s, k + 1, Len(s))
           n == Len(s)
<1>1. n \in Nat /\ k \in Nat /\ 1 <= k /\ k <= n
  OBVIOUS
<1>2. /\ DOMAIN s = 1..n /\ t \in Seq(S) /\ DOMAIN t = 1..(n - k) /\ Len(t) = n - k
      /\ \A i \in 1..(n - k) : t[i] = s[i + k]
  OBVIOUS
<1>3. (k = n => t = <<>>) /\ (t # <<>> => k < n /\ Head(t) = s[k + 1])
  OBVIOUS
<1>4. (\A x : Contains(s, x) <=> \E i \in 1..n : s[i] = x)
      /\ \A x : Contains(t, x) <=> \E i \in 1..(n - k) : t[i] = x
  BY <1>2 DEF Contains
<1> HIDE DEF n, t
<1>5. \A i \in 1..(n - k) : i + k \in 1..n /\ i + k \notin 1..k
  BY <1>1
<1>6. \A i \in 1..n : i \notin 1..k => i - k \in 1..(n - k) /\ (i - k) + k = i
  BY <1>1
<1>7. \A i, j \in 1..n : s[i] = s[j] => i = j
  BY <1>2 DEF IsInjective
<1>8. IsInjective(t)
  <2> SUFFICES ASSUME NEW i \in 1..(n - k), NEW j \in 1..(n - k), t[i] = t[j]
               PROVE  i = j
    BY <1>2 DEF IsInjective
  <2>1. i + k = j + k
    BY <1>2, <1>5, <1>7
  <2> QED
    BY <1>1, <2>1
<1>9. ASSUME NEW x PROVE Contains(t, x) <=> Contains(s, x) /\ ~\E i \in 1..k : s[i] = x
  <2>1. ASSUME NEW i \in 1..(n - k), t[i] = x
        PROVE  Contains(s, x) /\ ~\E j \in 1..k : s[j] = x
    <3>1. i + k \in 1..n /\ i + k \notin 1..k /\ s[i + k] = x
      BY <1>2, <1>5, <2>1
    <3>2. \A j \in 1..k : j \in 1..n
      BY <1>1
    <3> QED
      BY <1>4, <1>7, <3>1, <3>2
  <2>2. ASSUME NEW i \in 1..n, s[i] = x, i \notin 1..k PROVE Contains(t, x)
    BY <1>2, <1>4, <1>6, <2>2
  <2> QED
    BY <1>4, <2>1, <2>2
<1> QED
  BY <1>2, <1>3, <1>8, <1>9 DEF n, t

(* Whoever is taken out of the middle of a list is off it; the others stay,  *)
(* in their order.                                                           *)
LEMMA RemoveOne ==
    ASSUME NEW S, NEW s \in Seq(S), IsInjective(s), NEW e
    PROVE  /\ RemoveFirst(s, e) \in Seq(S) /\ IsInjective(RemoveFirst(s, e))
           /\ \A x : Contains(RemoveFirst(s, e), x) <=> Contains(s, x) /\ x # e
           /\ Contains(s, e) => Len(RemoveFirst(s, e)) = Len(s) - 1
           /\ \A i, j \in DOMAIN RemoveFirst(s, e) : i < j =>
                \E k, l \in DOMAIN s : /\ k < l /\ RemoveFirst(s, e)[i] = s[k]
                                       /\ RemoveFirst(s, e)[j] = s[l]
<1> DEFINE n == Len(s)
<1>1. n \in Nat /\ DOMAIN s = 1..n
  OBVIOUS
<1>2. \A i, j \in 1..n : s[i] = s[j] => i = j
  BY <1>1 DEF IsInjective
<1>3. \A x : Contains(s, x) <=> \E i \in 1..n : s[i] = x
  BY DEF Contains
<1>4. CASE ~\E i \in 1..n : s[i] = e
  <2>1. RemoveFirst(s, e) = s
    BY <1>4 DEF RemoveFirst
  <2> QED  BY <1>3, <1>4, <2>1
<1>5. CASE \E i \in 1..n : s[i] = e
  <2>1. PICK k \in 1..n : s[k] = e
    BY <1>5
  <2>2. {i \in 1..n : s[i] = e} = {k}
    BY <1>2, <2>1
  <2>3. Min({k}) = k
    BY <2>1 DEF Min
  <2>4. RemoveFirst(s, e) = RemoveAt(s, k)
    BY <1>5, <2>2, <2>3 DEF RemoveFirst, SelectInSeq
  <2> DEFINE a == SubSeq(s, 1, k - 1)
             b == SubSeq(s, k + 1, n)
             t == a \o b
  <2>5. k \in Nat /\ 1 <= k /\ k <= n
    BY <1>1, <2>1
  <2>6. /\ a \in Seq(S) /\ Len(a) = k - 1 /\ \A i \in 1..(k - 1) : a[i] = s[i]
        /\ b \in Seq(S) /\ Len(b) = n - k /\ \A i \in 1..(n - k) : b[i] = s[i + k]
    BY <2>5
  <2> HIDE DEF a, b
  <2>7. /\ t \in Seq(S) /\ Len(t) = (k - 1) + (n - k) /\ DOMAIN t = 1..((k - 1) + (n - k))
        /\ \A i \in 1..((k - 1) + (n - k)) :
              t[i] = IF i <= k - 1 THEN a[i] ELSE b[i - (k - 1)]
    <3>1. t \in Seq(S) /\ Len(t) = Len(a) + Len(b) /\ DOMAIN t = 1..Len(t)
      <4>1. \A c, d \in Seq(S) : c \o d \in Seq(S) /\ Len(c \o d) = Len(c) + Len(d)
        OBVIOUS
      <4>2. \A c \in Seq(S) : DOMAIN c = 1..Len(c)
        OBVIOUS
      <4> QED  BY <2>6, <4>1, <4>2
    <3>2. \A i \in 1..(Len(a) + Len(b)) :
             t[i] = IF i <= Len(a) THEN a[i] ELSE b[i - Len(a)]
      BY <2>6
    <3> QED  BY <2>6, <3>1, <3>2
  <2> HIDE DEF n, t
  <2>8. (k - 1) + (n - k) = n - 1
    BY <1>1, <2>5
  <2>9. \A i \in 1..(n - 1) : t[i] = IF i < k THEN s[i] ELSE s[i + 1]
    <3> SUFFICES ASSUME NEW i \in 1..(n - 1) PROVE t[i] = IF i < k THEN s[i] ELSE s[i + 1]
      OBVIOUS
    <3>1. CASE i < k
      <4>1. i <= k - 1 /\ i \in 1..(k - 1)
        BY <2>5, <3>1
      <4> QED  BY <2>6, <2>7, <2>8, <3>1, <4>1
    <3>2. CASE ~(i < k)
      <4>1. ~(i <= k - 1) /\ i - (k - 1) \in 1..(n - k) /\ (i - (k - 1)) + k = i + 1
        BY <1>1, <2>5, <3>2
      <4> QED  BY <2>6, <2>7, <2>8, <3>2, <4>1
    <3> QED  BY <3>1, <3>2
  <2>10. \A x : Contains(t, x) <=> \E i \in 1..(n - 1) : t[i] = x
    BY <2>7, <2>8 DEF Contains
  <2>11. ASSUME NEW i \in 1..(n - 1)
         PROVE  i \in 1..n /\ i + 1 \in 1..n /\ (i < k => i # k) /\ (~(i < k) => i + 1 # k)
    BY <1>1, <2>5
  <2>12. IsInjective(t)
    <3> SUFFICES ASSUME NEW i \in 1..(n - 1), NEW j \in 1..(n - 1), t[i] = t[j]
                 PROVE  i = j
      BY <2>7, <2>8 DEF IsInjective
    <3>1. i \in 1..n /\ i + 1 \in 1..n /\ j \in 1..n /\ j + 1 \in 1..n
      BY <2>11
    <3>2. (IF i < k THEN i ELSE i + 1) = (IF j < k THEN j ELSE j + 1)
      BY <1>2, <2>9, <3>1
    <3> QED  BY <1>1, <2>5, <3>2
  <2>13. ASSUME NEW x, Contains(t, x) PROVE Contains(s, x) /\ x # e
    <3>1. PICK i \in 1..(n - 1) : t[i] = x
      BY <2>10, <2>13
    <3>2. PICK j \in 1..n : s[j] = x /\ j # k
      BY <2>9, <2>11, <3>1
    <3> QED  BY <1>2, <1>3, <2>1, <3>2
  <2>14. ASSUME NEW x, Contains(s, x), x # e PROVE Contains(t, x)
    <3>1. PICK j \in 1..n : s[j] = x /\ j # k
      BY <1>3, <2>1, <2>14
    <3>2. CASE j < k
      <4>1. j \in 1..(n - 1)
        BY <1>1, <2>5, <3>2
      <4> QED  BY <2>9, <2>10, <3>1, <3>2, <4>1
    <3>3. CASE ~(j < k)
      <4>1. j - 1 \in 1..(n - 1) /\ (j - 1) + 1 = j /\ ~(j - 1 < k)
        BY <1>1, <2>5, <3>1, <3>3
      <4> QED  BY <2>9, <2>10, <3>1, <4>1
    <3> QED  BY <3>2, <3>3
  <2>15. RemoveAt(s, k) = t
    BY DEF RemoveAt, t, a, b, n
  <2>16. Len(t) = Len(s) - 1
    BY <2>7, <2>8 DEF n
  <2>17. ASSUME NEW i \in DOMAIN t, NEW j \in DOMAIN t, i < j
         PROVE  \E x, y \in DOMAIN s : x < y /\ t[i] = s[x] /\ t[j] = s[y]
    <3>1. i \in 1..(n - 1) /\ j \in 1..(n - 1)
      BY <2>7, <2>8
    <3>2. CASE j < k
      <4>1. i < k
        BY <1>1, <2>5, <2>17, <3>1, <3>2
      <4> QED  BY <1>1, <2>9, <2>11, <2>17, <3>1, <3>2, <4>1
    <3>3. CASE ~(j < k)
      <4>1. /\ t[j] = s[j + 1] /\ j + 1 \in DOMAIN s /\ i < j + 1 /\ i + 1 < j + 1
            /\ i \in DOMAIN s /\ i + 1 \in DOMAIN s
        BY <1>1, <2>9, <2>11, <2>17, <3>1, <3>3
      <4>2. t[i] = s[i] \/ t[i] = s[i + 1]
        BY <2>9, <3>1
      <4> QED  BY <4>1, <4>2
    <3> QED  BY <3>2, <3>3
  <2> QED  BY <2>4, <2>7, <2>12, <2>13, <2>14, <2>15, <2>16, <2>17
<1> QED  BY <1>4, <1>5

(* Somebody is put into a list; the others keep their order.                 *)
LEMMA PutBetween ==
    ASSUME NEW S, NEW s \in Seq(S), IsInjective(s), NEW e \in S, ~Contains(s, e),
           NEW i \in 1..(Len(s) + 1)
    PROVE  LET t == InsertAt(s, i, e) IN
           /\ t \in Seq(S) /\ Len(t) = Len(s) + 1 /\ IsInjective(t)
           /\ \A k \in 1..(Len(s) + 1) :
                t[k] = IF k < i THEN s[k] ELSE IF k = i THEN e ELSE s[k - 1]
           /\ \A x : Contains(t, x) <=> Contains(s, x) \/ x = e
<1> DEFINE n == Len(s)
           a == SubSeq(s, 1, i - 1)
           b == SubSeq(s, i, n)
           t == a \o <<e>> \o b
<1>1. n \in Nat /\ DOMAIN s = 1..n /\ i \in Nat /\ 1 <= i /\ i <= n + 1
  OBVIOUS
<1>2. /\ a \in Seq(S) /\ Len(a) = i - 1 /\ \A k \in 1..(i - 1) : a[k] = s[k]
      /\ b \in Seq(S) /\ Len(b) = n - i + 1 /\ \A k \in 1..(n - i + 1) : b[k] = s[k + i - 1]
  BY <1>1
<1> HIDE DEF a, b
<1>3. /\ a \o <<e>> \in Seq(S) /\ Len(a \o <<e>>) = i
      /\ (a \o <<e>>)[i] = e /\ \A k \in 1..(i - 1) : (a \o <<e>>)[k] = s[k]
  <2>1. /\ <<e>> \in Seq(S) /\ Len(<<e>>) = 1 /\ <<e>>[1] = e
        /\ (i - 1) + 1 = i /\ i - (i - 1) = 1 /\ \A k \in 1..(i - 1) : k <= i - 1 /\ k \in 1..i
        /\ i \in 1..i /\ ~(i <= i - 1)
    BY <1>1
  <2>2. \A d, f \in Seq(S) : d \o f \in Seq(S) /\ Len(d \o f) = Len(d) + Len(f)
    OBVIOUS
  <2>3. \A k \in 1..(Len(a) + Len(<<e>>)) :
           (a \o <<e>>)[k] = IF k <= Len(a) THEN a[k] ELSE <<e>>[k - Len(a)]
    BY <1>2, <2>1
  <2>4. Len(a) + Len(<<e>>) = i /\ Len(a) = i - 1
    BY <1>2, <2>1
  <2>5. \A k \in 1..i :
           (a \o <<e>>)[k] = IF k <= i - 1 THEN a[k] ELSE <<e>>[k - (i - 1)]
    BY <2>3, <2>4
  <2>6. a \o <<e>> \in Seq(S) /\ Len(a \o <<e>>) = i
    BY <1>2, <2>1, <2>2, <2>4
  <2>7. (a \o <<e>>)[i] = e
    BY <2>1, <2>5
  <2> QED  BY <1>2, <2>1, <2>5, <2>6, <2>7
<1>4. /\ t \in Seq(S) /\ Len(t) = n + 1
      /\ \A k \in 1..i : t[k] = (a \o <<e>>)[k]
      /\ \A k \in (i + 1)..(n + 1) : t[k] = b[k - i]
  <2> DEFINE c == a \o <<e>>
  <2>1. c \in Seq(S) /\ Len(c) = i
    BY <1>3
  <2> HIDE DEF c
  <2>2. /\ c \o b \in Seq(S) /\ Len(c \o b) = i + (n - i + 1)
        /\ \A k \in 1..(i + (n - i + 1)) : (c \o b)[k] = IF k <= i THEN c[k] ELSE b[k - i]
    <3>1. \A d, f \in Seq(S) : d \o f \in Seq(S) /\ Len(d \o f) = Len(d) + Len(f)
      OBVIOUS
    <3>2. \A k \in 1..(Len(c) + Len(b)) :
             (c \o b)[k] = IF k <= Len(c) THEN c[k] ELSE b[k - Len(c)]
      BY <1>2, <2>1
    <3> QED  BY <1>2, <2>1, <3>1, <3>2
  <2>3. i + (n - i + 1) = n + 1
    BY <1>1
  <2>4. t = c \o b
    BY DEF c
  <2>5. /\ \A k \in 1..i : k \in 1..(n + 1) /\ k <= i
        /\ \A k \in (i + 1)..(n + 1) : k \in 1..(n + 1) /\ ~(k <= i)
    BY <1>1
  <2> QED  BY <2>2, <2>3, <2>4, <2>5 DEF c
<1> HIDE DEF t, n
<1>5. \A k \in 1..(n + 1) : t[k] = IF k < i THEN s[k] ELSE IF k = i THEN e ELSE s[k - 1]
  <2> SUFFICES ASSUME NEW k \in 1..(n + 1)
               PROVE  t[k] = IF k < i THEN s[k] ELSE IF k = i THEN e ELSE s[k - 1]
    OBVIOUS
  <2>1. CASE k < i
    <3>1. k \in 1..(i - 1) /\ k \in 1..i
      BY <1>1, <2>1
    <3> QED  BY <1>3, <1>4, <2>1, <3>1
  <2>2. CASE k = i
    <3>1. k \in 1..i /\ ~(k < i) /\ (a \o <<e>>)[k] = e
      BY <1>1, <1>3, <2>2
    <3> QED  BY <1>4, <2>2, <3>1
  <2>3. CASE k > i
    <3>1. k \in (i + 1)..(n + 1) /\ k - i \in 1..(n - i + 1) /\ (k - i) + i - 1 = k - 1
      BY <1>1, <2>3
    <3>2. ~(k < i) /\ k # i
      BY <1>1, <2>3
    <3> QED  BY <1>2, <1>4, <3>1, <3>2
  <2> QED  BY <1>1, <2>1, <2>2, <2>3
<1>6. DOMAIN t = 1..(n + 1)
  BY <1>4
<1>7. \A j, k \in 1..n : s[j] = s[k] => j = k
  BY <1>1 DEF IsInjective
<1>8. \A k \in 1..n : s[k] # e
  BY DEF Contains, n
<1>9. \A k \in 1..(n + 1) : (k < i => k \in 1..n) /\ (k > i => k - 1 \in 1..n)
  BY <1>1
<1>10. IsInjective(t)
  <2> SUFFICES ASSUME NEW j \in 1..(n + 1), NEW k \in 1..(n + 1), t[j] = t[k]
               PROVE  j = k
    BY <1>6 DEF IsInjective
  <2>1. j = i <=> k = i
    BY <1>1, <1>5, <1>8, <1>9
  <2>2. CASE j # i /\ k # i
    <3> DEFINE p == IF j < i THEN j ELSE j - 1
               q == IF k < i THEN k ELSE k - 1
    <3>1. p \in 1..n /\ q \in 1..n /\ t[j] = s[p] /\ t[k] = s[q]
      BY <1>1, <1>5, <1>9, <2>2
    <3>2. p = q
      BY <1>7, <3>1
    <3> QED  BY <1>1, <2>2, <3>2
  <2> QED  BY <2>1, <2>2
<1>11. ASSUME NEW x PROVE Contains(t, x) <=> Contains(s, x) \/ x = e
  <2>1. ASSUME NEW k \in 1..(n + 1), t[k] = x PROVE x = e \/ \E j \in 1..n : s[j] = x
    BY <1>1, <1>5, <1>9, <2>1
  <2>2. ASSUME NEW j \in 1..n, s[j] = x PROVE \E k \in 1..(n + 1) : t[k] = x
    <3>1. j \in 1..(n + 1) /\ j + 1 \in 1..(n + 1) /\ (j + 1) - 1 = j
      BY <1>1
    <3>2. j < i \/ (~(j + 1 < i) /\ j + 1 # i)
      BY <1>1
    <3> QED  BY <1>5, <2>2, <3>1, <3>2
  <2>3. t[i] = e /\ i \in 1..(n + 1)
    BY <1>1, <1>5
  <2> QED  BY <1>4, <2>1, <2>2, <2>3 DEF Contains, n
<1>12. InsertAt(s, i, e) = t
  BY DEF InsertAt, t, a, b, n
<1> QED  BY <1>4, <1>5, <1>10, <1>11, <1>12 DEF n
==============================================================================
