--------------------------- MODULE ReactorProofs ---------------------------
(***************************************************************************)
(* Proofs about Reactor: its queues hold what is registered, and limits are *)
(* reset, for any jobs, timers, descriptors and limits.                     *)
(*                                                                         *)
(* The inductive invariant is QueuesExact.  Its parts depend on different    *)
(* variables and are proved apart: jobs and marks, timers, descriptors,      *)
(* limits, and that the loop waits only when idle.                          *)
(***************************************************************************)
EXTENDS Reactor, FiniteSetTheorems, SequenceTheorems, TLAPS

-----------------------------------------------------------------------------
(* The list of jobs.                                                        *)

Elem == Job \cup (1 .. MaxDepth)

(* x is in front of i.                                                       *)
Ahead(q, x, i) == \E m, k \in DOMAIN q : m < k /\ q[m] = x /\ q[k] = i

LEMMA InFront ==
  ASSUME NEW S, NEW q \in Seq(S), NEW k \in DOMAIN q
  PROVE  ToSet(SubSeq(q, 1, k - 1)) = {q[m] : m \in 1 .. (k - 1)}
<1> DEFINE f == SubSeq(q, 1, k - 1)
<1>1. k \in 1 .. Len(q) /\ Len(q) \in Nat
  BY LenProperties
<1>2. f \in Seq(S) /\ Len(f) = k - 1 /\ \A m \in 1 .. (k - 1) : f[m] = q[m]
  <2>1. 1 \in 1 .. (Len(q) + 1) /\ (k - 1) \in 0 .. Len(q)
    BY <1>1
  <2>2. \A m \in 1 .. (k - 1) : m \in 1 .. Len(q)
    BY <1>1
  <2> QED BY <1>1, <2>1, <2>2, SubSeqProperties
<1>3. DOMAIN f = 1 .. (k - 1)
  BY <1>2, LenProperties
<1> HIDE DEF f
<1>4. ToSet(f) = {q[m] : m \in 1 .. (k - 1)}
  BY <1>2, <1>3 DEF ToSet
<1> QED BY <1>4 DEF f

(* MarkSeparates says of a mark i, with the jobs n set since: it is in the list and n   *)
(* are those in front of it.                                                         *)
LEMMA Separated ==
  ASSUME NEW S, NEW q \in Seq(S), IsInjective(q), NEW i, NEW n
  PROVE  (\E k \in DOMAIN q : q[k] = i /\ ToSet(SubSeq(q, 1, k - 1)) = n)
           <=> i \in ToSet(q) /\ \A x : x \in n <=> Ahead(q, x, i)
<1>0. DOMAIN q = 1 .. Len(q) /\ Len(q) \in Nat
  BY LenProperties
<1>1. ASSUME NEW k \in DOMAIN q, q[k] = i
      PROVE  \A x : x \in {q[m] : m \in 1 .. (k - 1)} <=> Ahead(q, x, i)
  <2>1. ASSUME NEW x, x \in {q[m] : m \in 1 .. (k - 1)} PROVE Ahead(q, x, i)
    <3>1. PICK m \in 1 .. (k - 1) : x = q[m]
      BY <2>1
    <3>2. m \in DOMAIN q /\ m < k
      BY <1>0, <3>1
    <3> QED BY <1>1, <3>1, <3>2 DEF Ahead
  <2>2. ASSUME NEW x, Ahead(q, x, i) PROVE x \in {q[m] : m \in 1 .. (k - 1)}
    <3>1. PICK m \in DOMAIN q, l \in DOMAIN q : m < l /\ q[m] = x /\ q[l] = i
      BY <2>2 DEF Ahead
    <3>2. l = k
      BY <1>1, <3>1 DEF IsInjective
    <3>3. m \in 1 .. (k - 1)
      BY <1>0, <3>1, <3>2
    <3> QED BY <3>1, <3>3
  <2> QED BY <2>1, <2>2
<1>2. ASSUME NEW k \in DOMAIN q, q[k] = i, ToSet(SubSeq(q, 1, k - 1)) = n
      PROVE  i \in ToSet(q) /\ \A x : x \in n <=> Ahead(q, x, i)
  <2>1. ToSet(SubSeq(q, 1, k - 1)) = {q[m] : m \in 1 .. (k - 1)}
    BY InFront
  <2> QED BY <1>1, <1>2, <2>1 DEF ToSet
<1>3. ASSUME i \in ToSet(q), \A x : x \in n <=> Ahead(q, x, i), n = {x \in n : TRUE}
      PROVE  \E k \in DOMAIN q : q[k] = i /\ ToSet(SubSeq(q, 1, k - 1)) = n
  <2>1. PICK k \in DOMAIN q : q[k] = i
    BY <1>3 DEF ToSet
  <2>2. ToSet(SubSeq(q, 1, k - 1)) = {q[m] : m \in 1 .. (k - 1)}
    BY InFront
  <2>3. \A x : x \in n <=> x \in {q[m] : m \in 1 .. (k - 1)}
    BY <1>1, <1>3, <2>1
  <2>4. n = {q[m] : m \in 1 .. (k - 1)}
    BY <2>3
  <2> QED BY <2>1, <2>2, <2>4
<1> QED BY <1>2, <1>3

LEMMA WithoutWell ==
  ASSUME NEW S, NEW q \in Seq(S), IsInjective(q), NEW j
  PROVE  LET w == Without(q, j)
         IN  /\ w \in Seq(S) /\ IsInjective(w) /\ ToSet(w) = ToSet(q) \ {j}
             /\ \A x, i : Ahead(w, x, i) <=> Ahead(q, x, i) /\ x # j /\ i # j
             /\ Len(w) <= Len(q)
<1> DEFINE w == Without(q, j)
<1>0. DOMAIN q = 1 .. Len(q) /\ Len(q) \in Nat /\ \A m \in 1 .. Len(q) : q[m] \in S
  BY LenProperties, ElementOfSeq
<1>1. CASE j \notin ToSet(q)
  <2>1. w = q
    BY <1>1 DEF Without
  <2>2. \A m \in DOMAIN q : q[m] # j
    BY <1>1 DEF ToSet
  <2>3. \A x, i : Ahead(q, x, i) => x # j /\ i # j
    BY <2>2 DEF Ahead
  <2>4. ToSet(q) = ToSet(q) \ {j}
    BY <1>1
  <2> QED BY <1>0, <2>1, <2>3, <2>4
<1>2. CASE j \in ToSet(q)
  <2> DEFINE k == CHOOSE i \in DOMAIN q : q[i] = j
             a == SubSeq(q, 1, k - 1)
             b == SubSeq(q, k + 1, Len(q))
             n == Len(q)
  <2>1. k \in 1 .. n /\ q[k] = j
    BY <1>0, <1>2 DEF ToSet
  <2>2. w = a \o b
    BY <1>2 DEF Without, RemoveAt
  <2> HIDE DEF k, w
  <2>3. k - 1 \in 0 .. n /\ k + 1 \in 1 .. (n + 1) /\ n \in Nat /\ k \in Nat
    BY <1>0, <2>1
  <2>4. a \in Seq(S) /\ Len(a) = k - 1 /\ \A m \in 1 .. (k - 1) : a[m] = q[m]
    <3>1. \A m \in 1 .. (k - 1) : q[m] \in S
      BY <1>0, <2>1, <2>3
    <3>2. 1 \in 1 .. (n + 1)
      BY <2>3
    <3>3. Len(a) = k - 1 /\ a \in Seq(S) /\ \A m \in 1 .. Len(a) : a[m] = q[m]
      BY <1>0, <2>1, <2>3, SubSeqProperties
    <3> QED BY <3>3
  <2>5. b \in Seq(S) /\ Len(b) = n - k /\ \A m \in 1 .. (n - k) : b[m] = q[m + k]
    <3>1. \A m \in (k + 1) .. n : q[m] \in S
      BY <1>0, <2>3
    <3>2. /\ b \in Seq(S) /\ Len(b) = IF k + 1 <= n THEN n - (k + 1) + 1 ELSE 0
          /\ \A m \in 1 .. n - (k + 1) + 1 : b[m] = q[(k + 1) + m - 1]
      BY <2>3, <3>1, SubSeqProperties
    <3>3. n - (k + 1) + 1 = n - k /\ (k + 1 > n => n - k = 0)
      BY <2>1, <2>3
    <3>4. \A m \in 1 .. (n - k) : (k + 1) + m - 1 = m + k
      BY <2>3
    <3> HIDE DEF b
    <3>5. Len(b) = n - k
      <4>1. CASE k + 1 <= n
        BY <3>2, <3>3, <4>1
      <4>2. CASE ~(k + 1 <= n)
        <5>1. k + 1 > n
          BY <2>3, <4>2
        <5>2. Len(b) = 0
          BY <3>2, <4>2
        <5> QED BY <3>3, <5>1, <5>2
      <4> QED BY <4>1, <4>2
    <3>6. \A m \in 1 .. (n - k) : b[m] = q[m + k]
      BY <3>2, <3>3, <3>4
    <3> QED BY <3>2, <3>5, <3>6
  <2> HIDE DEF a, b
  <2>6. /\ w \in Seq(S) /\ Len(w) = n - 1
        /\ \A m \in 1 .. (n - 1) : w[m] = IF m < k THEN q[m] ELSE q[m + 1]
    <3>1. a \o b \in Seq(S) /\ Len(a \o b) = Len(a) + Len(b)
          /\ \A m \in 1 .. Len(a) + Len(b) :
               (a \o b)[m] = IF m <= Len(a) THEN a[m] ELSE b[m - Len(a)]
      BY <2>4, <2>5, ConcatProperties
    <3>2. ASSUME NEW m \in 1 .. (n - 1) PROVE w[m] = IF m < k THEN q[m] ELSE q[m + 1]
      <4>1. CASE m < k
        BY <2>1, <2>2, <2>3, <2>4, <2>5, <3>1, <3>2, <4>1
      <4>2. CASE ~(m < k)
        <5>1. m - (k - 1) \in 1 .. (n - k) /\ ~(m <= k - 1) /\ m \in 1 .. (k - 1) + (n - k)
          BY <2>1, <2>3, <3>2, <4>2
        <5>2. w[m] = b[m - (k - 1)]
          BY <2>2, <2>4, <2>5, <3>1, <5>1
        <5>3. b[m - (k - 1)] = q[(m - (k - 1)) + k]
          BY <2>5, <5>1
        <5>4. (m - (k - 1)) + k = m + 1
          BY <2>3, <3>2
        <5> QED BY <4>2, <5>2, <5>3, <5>4
      <4> QED BY <4>1, <4>2
    <3> QED BY <2>2, <2>3, <2>4, <2>5, <3>1, <3>2
  <2>7. DOMAIN w = 1 .. (n - 1)
    BY <2>6, LenProperties
  <2> DEFINE old(m) == IF m < k THEN m ELSE m + 1
             new(m) == IF m < k THEN m ELSE m - 1
  <2>8. ASSUME NEW m \in DOMAIN w PROVE old(m) \in DOMAIN q /\ w[m] = q[old(m)] /\ old(m) # k
    BY <1>0, <2>1, <2>3, <2>6, <2>7, <2>8
  <2>9. ASSUME NEW m \in DOMAIN q, m # k PROVE new(m) \in DOMAIN w /\ w[new(m)] = q[m]
    <3>1. new(m) \in 1 .. (n - 1) /\ old(new(m)) = m
      BY <1>0, <2>1, <2>3, <2>9
    <3> QED BY <2>7, <2>8, <3>1
  <2>10. \A m, l \in DOMAIN w : (m < l <=> old(m) < old(l)) /\ (old(m) = old(l) => m = l)
    BY <2>3, <2>7
  <2>11. \A m, l \in DOMAIN q : m # k /\ l # k => (m < l <=> new(m) < new(l))
    BY <1>0, <2>3
  <2>12. \A m \in DOMAIN q : q[m] = j <=> m = k
    BY <1>0, <2>1 DEF IsInjective
  <2>13. IsInjective(w)
    BY <2>8, <2>10 DEF IsInjective
  <2> HIDE DEF old, new
  <2>14. ToSet(w) = ToSet(q) \ {j}
    <3>1. \A x \in ToSet(w) : x \in ToSet(q) /\ x # j
      BY <2>8, <2>12 DEF ToSet
    <3>2. \A x \in ToSet(q) : x # j => x \in ToSet(w)
      BY <2>9, <2>12 DEF ToSet
    <3> QED BY <3>1, <3>2
  <2>15. ASSUME NEW x, NEW i, Ahead(w, x, i) PROVE Ahead(q, x, i) /\ x # j /\ i # j
    BY <2>8, <2>10, <2>12, <2>15 DEF Ahead
  <2>16. ASSUME NEW x, NEW i, Ahead(q, x, i), x # j, i # j PROVE Ahead(w, x, i)
    BY <2>9, <2>11, <2>12, <2>16 DEF Ahead
  <2> QED BY <2>3, <2>6, <2>13, <2>14, <2>15, <2>16 DEF w
<1> QED BY <1>1, <1>2

LEMMA PrependWell ==
  ASSUME NEW S, NEW r \in Seq(S), IsInjective(r), NEW j \in S, j \notin ToSet(r)
  PROVE  LET p == <<j>> \o r
         IN  /\ p \in Seq(S) /\ IsInjective(p) /\ ToSet(p) = ToSet(r) \cup {j}
             /\ \A x, i : Ahead(p, x, i) <=> Ahead(r, x, i) \/ (x = j /\ i \in ToSet(r))
<1> DEFINE p == <<j>> \o r
<1>0. DOMAIN r = 1 .. Len(r) /\ Len(r) \in Nat
  BY LenProperties
<1>1. p \in Seq(S) /\ Len(p) = Len(r) + 1 /\ p[1] = j
      /\ \A m \in 1 .. Len(r) : p[m + 1] = r[m]
  OBVIOUS
<1> HIDE DEF p
<1>2. DOMAIN p = 1 .. (Len(r) + 1)
  BY <1>1, LenProperties
<1>3. \A m \in DOMAIN p : m = 1 \/ (m - 1 \in DOMAIN r /\ p[m] = r[m - 1])
  <2>1. ASSUME NEW m \in DOMAIN p, m # 1 PROVE m - 1 \in 1 .. Len(r) /\ (m - 1) + 1 = m
    BY <1>0, <1>2, <2>1
  <2> QED BY <1>0, <1>1, <2>1
<1>4. \A m \in DOMAIN r : m + 1 \in DOMAIN p /\ p[m + 1] = r[m] /\ r[m] # j
  BY <1>0, <1>1, <1>2 DEF ToSet
<1>5. 1 \in DOMAIN p /\ \A m \in DOMAIN p : m \in Nat /\ m >= 1
  BY <1>0, <1>2
<1>6. \A m \in DOMAIN p : m # 1 => p[m] # j
  BY <1>3, <1>4
<1>7. IsInjective(p)
  <2>1. ASSUME NEW m \in DOMAIN p, NEW l \in DOMAIN p, p[m] = p[l] PROVE m = l
    <3>1. CASE m = 1 \/ l = 1
      BY <1>1, <1>6, <2>1, <3>1
    <3>2. CASE m # 1 /\ l # 1
      <4>1. m - 1 = l - 1
        BY <1>3, <2>1, <3>2 DEF IsInjective
      <4> QED BY <1>5, <4>1
    <3> QED BY <3>1, <3>2
  <2> QED BY <2>1 DEF IsInjective
<1>8. ToSet(p) = ToSet(r) \cup {j}
  <2>1. \A x \in ToSet(p) : x = j \/ x \in ToSet(r)
    BY <1>1, <1>3 DEF ToSet
  <2>2. \A x \in ToSet(r) : x \in ToSet(p)
    BY <1>4 DEF ToSet
  <2>3. j \in ToSet(p)
    BY <1>1, <1>5 DEF ToSet
  <2> QED BY <2>1, <2>2, <2>3
<1>9. ASSUME NEW x, NEW i, Ahead(p, x, i) PROVE Ahead(r, x, i) \/ (x = j /\ i \in ToSet(r))
  <2>1. PICK m \in DOMAIN p, k \in DOMAIN p : m < k /\ p[m] = x /\ p[k] = i
    BY <1>9 DEF Ahead
  <2>2. k # 1 /\ k - 1 \in DOMAIN r /\ r[k - 1] = i
    BY <1>3, <1>5, <2>1
  <2>3. CASE m = 1
    BY <1>1, <2>1, <2>2, <2>3 DEF ToSet
  <2>4. CASE m # 1
    <3>1. m - 1 \in DOMAIN r /\ r[m - 1] = x /\ m - 1 < k - 1
      BY <1>3, <1>5, <2>1, <2>4
    <3> QED BY <2>2, <3>1 DEF Ahead
  <2> QED BY <2>3, <2>4
<1>10. ASSUME NEW x, NEW i, Ahead(r, x, i) \/ (x = j /\ i \in ToSet(r)) PROVE Ahead(p, x, i)
  <2>1. CASE Ahead(r, x, i)
    <3>1. PICK m \in DOMAIN r, k \in DOMAIN r : m < k /\ r[m] = x /\ r[k] = i
      BY <2>1 DEF Ahead
    <3>2. m + 1 \in DOMAIN p /\ k + 1 \in DOMAIN p /\ m + 1 < k + 1 /\ p[m + 1] = x /\ p[k + 1] = i
      BY <1>0, <1>4, <3>1
    <3> QED BY <3>2 DEF Ahead
  <2>2. CASE x = j /\ i \in ToSet(r)
    <3>1. PICK k \in DOMAIN r : r[k] = i
      BY <2>2 DEF ToSet
    <3>2. k + 1 \in DOMAIN p /\ 1 < k + 1 /\ p[k + 1] = i
      BY <1>0, <1>4, <3>1
    <3> QED BY <1>1, <1>5, <2>2, <3>2 DEF Ahead
  <2> QED BY <1>10, <2>1, <2>2
<1> QED BY <1>1, <1>7, <1>8, <1>9, <1>10 DEF p

LEMMA TailWell ==
  ASSUME NEW S, NEW q \in Seq(S), IsInjective(q), q # <<>>
  PROVE  /\ Tail(q) \in Seq(S) /\ IsInjective(Tail(q)) /\ ToSet(Tail(q)) = ToSet(q) \ {Head(q)}
         /\ Head(q) \in S /\ Head(q) \in ToSet(q)
         /\ \A x, i : Ahead(Tail(q), x, i) <=> Ahead(q, x, i) /\ x # Head(q)
         /\ \A i \in ToSet(q) : i # Head(q) => Ahead(q, Head(q), i)
         /\ \A x : ~Ahead(q, x, Head(q))
<1> DEFINE t == Tail(q)
           h == Head(q)
<1>0. DOMAIN q = 1 .. Len(q) /\ Len(q) \in Nat
  BY LenProperties
<1>1. /\ t \in Seq(S) /\ Len(t) = Len(q) - 1 /\ h \in S /\ h = q[1] /\ 1 \in 1 .. Len(q)
      /\ \A m \in 1 .. Len(t) : t[m] = q[m + 1]
  BY HeadTailProperties, <1>0, EmptySeq
<1> HIDE DEF t, h
<1>2. DOMAIN t = 1 .. (Len(q) - 1)
  BY <1>1, LenProperties
<1>3. \A m \in DOMAIN t : m + 1 \in DOMAIN q /\ m + 1 # 1 /\ t[m] = q[m + 1]
  BY <1>0, <1>1, <1>2
<1>4. \A m \in DOMAIN q : m # 1 => m - 1 \in DOMAIN t /\ t[m - 1] = q[m]
  <2>1. ASSUME NEW m \in DOMAIN q, m # 1 PROVE m - 1 \in 1 .. (Len(q) - 1) /\ (m - 1) + 1 = m
    BY <1>0, <2>1
  <2> QED BY <1>2, <1>3, <2>1
<1>5. 1 \in DOMAIN q /\ \A m \in DOMAIN q : m \in Nat /\ m >= 1
  BY <1>0, <1>1
<1>6. \A m \in DOMAIN q : q[m] = h <=> m = 1
  BY <1>1, <1>5 DEF IsInjective
<1>7. IsInjective(t)
  <2>1. ASSUME NEW m \in DOMAIN t, NEW l \in DOMAIN t, t[m] = t[l] PROVE m = l
    <3>1. m + 1 = l + 1
      BY <1>3, <2>1 DEF IsInjective
    <3> QED BY <1>0, <1>2, <3>1
  <2> QED BY <2>1 DEF IsInjective
<1>8. ToSet(t) = ToSet(q) \ {h}
  <2>1. \A x \in ToSet(t) : x \in ToSet(q) /\ x # h
    BY <1>3, <1>6 DEF ToSet
  <2>2. \A x \in ToSet(q) : x # h => x \in ToSet(t)
    BY <1>4, <1>6 DEF ToSet
  <2> QED BY <2>1, <2>2
<1>9. ASSUME NEW x, NEW i, Ahead(t, x, i) PROVE Ahead(q, x, i) /\ x # h
  <2>1. PICK m \in DOMAIN t, k \in DOMAIN t : m < k /\ t[m] = x /\ t[k] = i
    BY <1>9 DEF Ahead
  <2>2. m + 1 \in DOMAIN q /\ k + 1 \in DOMAIN q /\ m + 1 < k + 1 /\ m + 1 # 1
        /\ q[m + 1] = x /\ q[k + 1] = i
    BY <1>0, <1>2, <1>3, <2>1
  <2> QED BY <1>6, <2>2 DEF Ahead
<1>10. ASSUME NEW x, NEW i, Ahead(q, x, i), x # h PROVE Ahead(t, x, i)
  <2>1. PICK m \in DOMAIN q, k \in DOMAIN q : m < k /\ q[m] = x /\ q[k] = i
    BY <1>10 DEF Ahead
  <2>2. m # 1 /\ k # 1
    BY <1>5, <1>6, <1>10, <2>1
  <2>3. m - 1 \in DOMAIN t /\ k - 1 \in DOMAIN t /\ m - 1 < k - 1 /\ t[m - 1] = x /\ t[k - 1] = i
    BY <1>4, <1>5, <2>1, <2>2
  <2> QED BY <2>3 DEF Ahead
<1>11. \A i \in ToSet(q) : i # h => Ahead(q, h, i)
  <2>1. ASSUME NEW k \in DOMAIN q, q[k] # h PROVE Ahead(q, h, q[k])
    <3>1. 1 < k
      BY <1>5, <1>6, <2>1
    <3> QED BY <1>1, <1>5, <3>1 DEF Ahead
  <2> QED BY <2>1 DEF ToSet
<1>12. \A x : ~Ahead(q, x, h)
  BY <1>5, <1>6 DEF Ahead
<1>13. h \in ToSet(q)
  BY <1>1, <1>5 DEF ToSet
<1> QED BY <1>1, <1>7, <1>8, <1>9, <1>10, <1>11, <1>12, <1>13 DEF t, h

-----------------------------------------------------------------------------
(* Jobs and marks.                                                           *)

(* MarkSeparates of a list and a stack of frames.                              *)
Separates(q, fs) ==
  /\ \A i \in DOMAIN fs : ~fs[i].mark => fs[i].newer = {}
  /\ \A i \in DOMAIN fs : fs[i].mark =>
       /\ i \in ToSet(q) /\ \A x : x \in fs[i].newer <=> Ahead(q, x, i)
       /\ \A k \in 1 .. MaxDepth : k \in fs[i].newer <=> k \in DOMAIN fs /\ k > i /\ fs[k].mark

JobsGood(q, fs) ==
  /\ q \in Seq(Elem) /\ IsInjective(q)
  /\ fs \in Seq(Frame) /\ Len(fs) <= MaxDepth
  /\ Separates(q, fs)

LEMMA JobsGoodIs ==
  jobs \in Seq(Elem) /\ frames \in Seq(Frame) /\ Len(frames) <= MaxDepth /\ MarkSeparates
    <=> JobsGood(jobs, frames)
<1> SUFFICES ASSUME jobs \in Seq(Elem), IsInjective(jobs), frames \in Seq(Frame),
                    Len(frames) <= MaxDepth
             PROVE  MarkSeparates <=> Separates(jobs, frames)
  BY DEF JobsGood, MarkSeparates
<1>1. DOMAIN frames \subseteq 1 .. MaxDepth
  BY ReactorAssumption, LenProperties DEF ReactorAssumption
<1>2. ASSUME NEW i \in DOMAIN frames
      PROVE  /\ (\E k \in DOMAIN jobs : jobs[k] = i
                                       /\ ToSet(SubSeq(jobs, 1, k - 1)) = frames[i].newer)
                  <=> i \in ToSet(jobs) /\ \A x : x \in frames[i].newer <=> Ahead(jobs, x, i)
             /\ frames[i].newer \cap (1 .. MaxDepth) = {k \in DOMAIN frames : k > i /\ frames[k].mark}
                  <=> \A k \in 1 .. MaxDepth :
                        k \in frames[i].newer <=> k \in DOMAIN frames /\ k > i /\ frames[k].mark
  <2>1. (\E k \in DOMAIN jobs : jobs[k] = i /\ ToSet(SubSeq(jobs, 1, k - 1)) = frames[i].newer)
           <=> i \in ToSet(jobs) /\ \A x : x \in frames[i].newer <=> Ahead(jobs, x, i)
    BY Separated
  <2>2. frames[i].newer \cap (1 .. MaxDepth) = {k \in DOMAIN frames : k > i /\ frames[k].mark}
          <=> \A k \in 1 .. MaxDepth :
                k \in frames[i].newer <=> k \in DOMAIN frames /\ k > i /\ frames[k].mark
    BY <1>1
  <2> QED BY <2>1, <2>2
<1> QED BY <1>2 DEF MarkSeparates, Separates

LEMMA FrameTypes ==
  ASSUME NEW q, NEW fs, JobsGood(q, fs)
  PROVE  /\ DOMAIN fs = 1 .. Len(fs) /\ Len(fs) \in Nat /\ \A i \in DOMAIN fs : fs[i] \in Frame
         /\ DOMAIN fs \subseteq 1 .. MaxDepth /\ MaxDepth \in Nat /\ MaxDepth >= 1
         /\ \A i \in 1 .. MaxDepth : i \notin Job
<1>1. fs \in Seq(Frame) /\ Len(fs) <= MaxDepth
  BY DEF JobsGood
<1>2. DOMAIN fs = 1 .. Len(fs) /\ Len(fs) \in Nat /\ \A i \in DOMAIN fs : fs[i] \in Frame
  BY <1>1, LenProperties, ElementOfSeq
<1> QED BY <1>1, <1>2, ReactorAssumption DEF ReactorAssumption

(* A stack of frames is made anew.                                             *)
LEMMA NewFrames ==
  ASSUME NEW n \in Nat, NEW g \in [1 .. n -> Frame]
  PROVE  g \in Seq(Frame) /\ Len(g) = n /\ DOMAIN g = 1 .. n
<1>1. g \in Seq(Frame)
  BY SeqDef
<1> QED BY <1>1, LenProperties

(* A job is taken from the list, by whom ever.                                   *)
LEMMA RemovesWell ==
  ASSUME NEW q, NEW fs, JobsGood(q, fs), NEW j, j \notin DOMAIN fs \/ ~fs[j].mark,
         NEW w, NEW gs,
         w \in Seq(Elem), IsInjective(w), ToSet(w) = ToSet(q) \ {j},
         \A i \in DOMAIN fs : fs[i].mark =>
           \A x : Ahead(w, x, i) <=> Ahead(q, x, i) /\ x # j,
         gs = [i \in DOMAIN fs |-> [fs[i] EXCEPT !.newer = @ \ {j}]]
  PROVE  JobsGood(w, gs)
<1>1. /\ DOMAIN fs = 1 .. Len(fs) /\ Len(fs) \in Nat /\ \A i \in DOMAIN fs : fs[i] \in Frame
      /\ DOMAIN fs \subseteq 1 .. MaxDepth
  BY FrameTypes
<1>2. \A i \in DOMAIN fs : gs[i] \in Frame /\ gs[i].mark = fs[i].mark
                            /\ gs[i].newer = fs[i].newer \ {j}
  BY <1>1 DEF Frame
<1>3. gs \in [1 .. Len(fs) -> Frame] /\ DOMAIN gs = DOMAIN fs
  BY <1>1, <1>2
<1>4. gs \in Seq(Frame) /\ Len(gs) = Len(fs)
  BY <1>1, <1>3, NewFrames
<1>6. \A i \in DOMAIN gs : ~gs[i].mark => gs[i].newer = {}
  BY <1>2, <1>3 DEF JobsGood, Separates
<1>5. ASSUME NEW i \in DOMAIN gs, gs[i].mark
      PROVE  /\ i \in ToSet(w) /\ \A x : x \in gs[i].newer <=> Ahead(w, x, i)
             /\ \A k \in 1 .. MaxDepth : k \in gs[i].newer <=> k \in DOMAIN gs /\ k > i /\ gs[k].mark
  <2>1. /\ fs[i].mark /\ i \in DOMAIN fs /\ i # j /\ i \in ToSet(q)
        /\ \A x : x \in fs[i].newer <=> Ahead(q, x, i)
        /\ \A k \in 1 .. MaxDepth : k \in fs[i].newer <=> k \in DOMAIN fs /\ k > i /\ fs[k].mark
    BY <1>2, <1>3, <1>5 DEF JobsGood, Separates
  <2> QED BY <1>2, <1>3, <2>1
<1> QED BY <1>4, <1>5, <1>6 DEF JobsGood, Separates

(* A job is put in front of the list, where it may be already.                    *)
LEMMA PrependsWell ==
  ASSUME NEW q, NEW fs, JobsGood(q, fs), NEW j \in Elem, j \notin DOMAIN fs \/ ~fs[j].mark,
         NEW w, w = Prepended(q, j)
  PROVE  /\ w \in Seq(Elem) /\ IsInjective(w) /\ ToSet(w) = ToSet(q) \cup {j}
         /\ \A i : i \in ToSet(q) /\ i # j =>
              \A x : Ahead(w, x, i) <=> Ahead(q, x, i) \/ x = j
         /\ \A x : ~Ahead(w, x, j)
<1>1. q \in Seq(Elem) /\ IsInjective(q)
  BY DEF JobsGood
<1> DEFINE r == Without(q, j)
<1>2. /\ r \in Seq(Elem) /\ IsInjective(r) /\ ToSet(r) = ToSet(q) \ {j}
      /\ \A x, i : Ahead(r, x, i) <=> Ahead(q, x, i) /\ x # j /\ i # j
  BY <1>1, WithoutWell
<1>3. w = <<j>> \o r
  BY DEF Prepended
<1> HIDE DEF r
<1>4. j \notin ToSet(r)
  BY <1>2
<1>5. /\ w \in Seq(Elem) /\ IsInjective(w) /\ ToSet(w) = ToSet(r) \cup {j}
      /\ \A x, i : Ahead(w, x, i) <=> Ahead(r, x, i) \/ (x = j /\ i \in ToSet(r))
  BY <1>2, <1>3, <1>4, PrependWell
<1>6. ASSUME NEW i, i \in ToSet(q), i # j, NEW x
      PROVE  Ahead(w, x, i) <=> Ahead(q, x, i) \/ x = j
  BY <1>2, <1>5, <1>6
<1>7. \A x : ~Ahead(w, x, j)
  BY <1>2, <1>5
<1>8. ToSet(w) = ToSet(q) \cup {j}
  BY <1>2, <1>5
<1> QED BY <1>5, <1>6, <1>7, <1>8

(* A handler is called.                                                            *)
LEMMA CallsWell ==
  ASSUME NEW q, NEW fs, JobsGood(q, fs), Len(fs) < MaxDepth
  PROVE  JobsGood(q, Append(fs, NewFrame))
<1> DEFINE gs == Append(fs, NewFrame)
           n == Len(fs)
<1>1. /\ DOMAIN fs = 1 .. n /\ n \in Nat /\ \A i \in DOMAIN fs : fs[i] \in Frame
      /\ DOMAIN fs \subseteq 1 .. MaxDepth /\ MaxDepth \in Nat
  BY FrameTypes
<1>2. NewFrame \in Frame /\ ~NewFrame.mark /\ NewFrame.newer = {}
  BY DEF NewFrame, Frame
<1>3. /\ gs \in Seq(Frame) /\ Len(gs) = n + 1 /\ gs[n + 1] = NewFrame
      /\ \A i \in 1 .. n : gs[i] = fs[i]
  BY <1>2, AppendProperties DEF JobsGood
<1> HIDE DEF gs
<1>4. DOMAIN gs = 1 .. (n + 1)
  BY <1>3, LenProperties
<1>5. /\ DOMAIN fs \subseteq DOMAIN gs /\ \A i \in DOMAIN fs : gs[i] = fs[i]
      /\ \A i \in DOMAIN gs : i \in DOMAIN fs \/ (~gs[i].mark /\ gs[i].newer = {})
  <2>1. \A i \in 1 .. (n + 1) : i \in 1 .. n \/ i = n + 1
    BY <1>1
  <2> QED BY <1>1, <1>2, <1>3, <1>4, <2>1
<1>6. Separates(q, gs)
  BY <1>5 DEF JobsGood, Separates
<1>7. n + 1 <= MaxDepth
  BY <1>1
<1>8. q \in Seq(Elem) /\ IsInjective(q)
  BY DEF JobsGood
<1>9. JobsGood(q, gs)
  BY <1>3, <1>6, <1>7, <1>8 DEF JobsGood
<1> QED BY <1>9 DEF gs

LEMMA JobCallGood ==
  ASSUME JobsGood(jobs, frames), NEW j \in Job, NEW is \in BOOLEAN, Newer(j, is),
         jobs' = IF is THEN Prepended(jobs, j) ELSE Without(jobs, j)
  PROVE  JobsGood(jobs', frames')
<1>1. /\ DOMAIN frames = 1 .. Len(frames) /\ Len(frames) \in Nat
      /\ \A i \in DOMAIN frames : frames[i] \in Frame
      /\ DOMAIN frames \subseteq 1 .. MaxDepth /\ \A i \in 1 .. MaxDepth : i \notin Job
  BY FrameTypes
<1>2. j \notin DOMAIN frames /\ j \in Elem /\ jobs \in Seq(Elem) /\ IsInjective(jobs)
  BY <1>1 DEF Elem, JobsGood
<1>3. CASE ~is
  <2>1. jobs' = Without(jobs, j)
    BY <1>3
  <2>2. frames' = [i \in DOMAIN frames |-> [frames[i] EXCEPT !.newer = @ \ {j}]]
    BY <1>3 DEF Newer
  <2>3. /\ jobs' \in Seq(Elem) /\ IsInjective(jobs') /\ ToSet(jobs') = ToSet(jobs) \ {j}
        /\ \A x, i : Ahead(jobs', x, i) <=> Ahead(jobs, x, i) /\ x # j /\ i # j
    BY <1>2, <2>1, WithoutWell
  <2> QED BY <1>2, <2>2, <2>3, RemovesWell
<1>4. CASE is
  <2>1. /\ jobs' \in Seq(Elem) /\ IsInjective(jobs') /\ ToSet(jobs') = ToSet(jobs) \cup {j}
        /\ \A i : i \in ToSet(jobs) /\ i # j =>
             \A x : Ahead(jobs', x, i) <=> Ahead(jobs, x, i) \/ x = j
    BY <1>2, <1>4, PrependsWell
  <2>2. \A i \in DOMAIN frames : [frames[i] EXCEPT !.newer = frames[i].newer \cup {j}] \in Frame
                                /\ [frames[i] EXCEPT !.newer = frames[i].newer \ {j}] \in Frame
    BY <1>1, <1>2 DEF Frame, Elem
  <2>3. frames' = [i \in DOMAIN frames |->
                     IF frames[i].mark THEN [frames[i] EXCEPT !.newer = frames[i].newer \cup {j}]
                     ELSE [frames[i] EXCEPT !.newer = frames[i].newer \ {j}]]
    BY <1>4 DEF Newer
  <2>4. \A i \in DOMAIN frames :
          /\ frames'[i] \in Frame /\ frames'[i].mark = frames[i].mark
          /\ frames'[i].newer = IF frames[i].mark THEN frames[i].newer \cup {j}
                                ELSE frames[i].newer \ {j}
    BY <1>1, <2>2, <2>3 DEF Frame
  <2>5. DOMAIN frames' = DOMAIN frames /\ frames' \in [1 .. Len(frames) -> Frame]
    BY <1>1, <2>3, <2>4
  <2>6. frames' \in Seq(Frame) /\ Len(frames') = Len(frames)
    BY <1>1, <2>5, NewFrames
  <2>7. ASSUME NEW i \in DOMAIN frames', frames'[i].mark
        PROVE  /\ i \in ToSet(jobs') /\ \A x : x \in frames'[i].newer <=> Ahead(jobs', x, i)
               /\ \A k \in 1 .. MaxDepth :
                    k \in frames'[i].newer <=> k \in DOMAIN frames' /\ k > i /\ frames'[k].mark
    <3>1. /\ frames[i].mark /\ i \in DOMAIN frames /\ i # j /\ i \in ToSet(jobs)
          /\ \A x : x \in frames[i].newer <=> Ahead(jobs, x, i)
          /\ \A k \in 1 .. MaxDepth :
               k \in frames[i].newer <=> k \in DOMAIN frames /\ k > i /\ frames[k].mark
      BY <1>2, <2>4, <2>5, <2>7 DEF JobsGood, Separates
    <3>2. \A k \in 1 .. MaxDepth : k # j
      BY <1>1
    <3> QED BY <2>1, <2>4, <2>5, <3>1, <3>2
  <2>8. \A i \in DOMAIN frames' : ~frames'[i].mark => frames'[i].newer = {}
    BY <2>4, <2>5 DEF JobsGood, Separates
  <2> QED BY <2>1, <2>6, <2>7, <2>8 DEF JobsGood, Separates
<1> QED BY <1>3, <1>4

LEMMA SyncFromHereGood ==
  ASSUME JobsGood(jobs, frames), frames # <<>>, SyncFromHere
  PROVE  JobsGood(jobs', frames')
<1>1. /\ DOMAIN frames = 1 .. Top /\ Top \in Nat
      /\ \A i \in DOMAIN frames : frames[i] \in Frame
      /\ DOMAIN frames \subseteq 1 .. MaxDepth
  BY FrameTypes DEF Top
<1>2. /\ Top \in DOMAIN frames /\ Top \in 1 .. MaxDepth /\ ~frames[Top].mark
      /\ jobs' = Prepended(jobs, Top)
      /\ frames' = [i \in DOMAIN frames |->
           IF i = Top THEN [frames[i] EXCEPT !.mark = TRUE]
           ELSE IF frames[i].mark THEN [frames[i] EXCEPT !.newer = frames[i].newer \cup {Top}]
           ELSE frames[i]]
  <2>1. Top # 0
    BY <1>1, EmptySeq DEF Top, JobsGood
  <2> QED BY <1>1, <2>1 DEF SyncFromHere
<1>3. /\ jobs' \in Seq(Elem) /\ IsInjective(jobs') /\ ToSet(jobs') = ToSet(jobs) \cup {Top}
      /\ \A i : i \in ToSet(jobs) /\ i # Top =>
           \A x : Ahead(jobs', x, i) <=> Ahead(jobs, x, i) \/ x = Top
      /\ \A x : ~Ahead(jobs', x, Top)
  <2>1. Top \in Elem
    BY <1>2 DEF Elem
  <2> QED BY <1>2, <2>1, PrependsWell
<1>4. \A i \in DOMAIN frames : [frames[i] EXCEPT !.mark = TRUE] \in Frame
                              /\ [frames[i] EXCEPT !.newer = frames[i].newer \cup {Top}] \in Frame
  BY <1>1, <1>2 DEF Frame
<1>5. \A i \in DOMAIN frames :
        /\ frames'[i] \in Frame
        /\ frames'[i].mark <=> (i = Top \/ frames[i].mark)
        /\ i = Top => frames'[i].newer = frames[i].newer
        /\ i # Top /\ frames[i].mark => frames'[i].newer = frames[i].newer \cup {Top}
        /\ i # Top /\ ~frames[i].mark => frames'[i].newer = frames[i].newer
  BY <1>1, <1>2, <1>4 DEF Frame
<1>6. DOMAIN frames' = DOMAIN frames /\ frames' \in [1 .. Top -> Frame]
  BY <1>1, <1>2, <1>5
<1>7. frames' \in Seq(Frame) /\ Len(frames') = Top
  BY <1>1, <1>6, NewFrames
<1>8. ASSUME NEW i \in DOMAIN frames', frames'[i].mark
      PROVE  /\ i \in ToSet(jobs') /\ \A x : x \in frames'[i].newer <=> Ahead(jobs', x, i)
             /\ \A k \in 1 .. MaxDepth :
                  k \in frames'[i].newer <=> k \in DOMAIN frames' /\ k > i /\ frames'[k].mark
  <2>1. CASE i = Top
    <3>1. frames'[i].newer = {}
      BY <1>2, <1>5, <2>1 DEF JobsGood, Separates
    <3>2. \A k \in DOMAIN frames' : ~(k > Top)
      BY <1>1, <1>6
    <3> QED BY <1>3, <2>1, <3>1, <3>2
  <2>2. CASE i # Top
    <3>1. /\ frames[i].mark /\ i \in DOMAIN frames /\ i \in ToSet(jobs)
          /\ \A x : x \in frames[i].newer <=> Ahead(jobs, x, i)
          /\ \A k \in 1 .. MaxDepth :
               k \in frames[i].newer <=> k \in DOMAIN frames /\ k > i /\ frames[k].mark
          /\ frames'[i].newer = frames[i].newer \cup {Top}
      BY <1>5, <1>6, <1>8, <2>2 DEF JobsGood, Separates
    <3>2. Top > i
      BY <1>1, <2>2, <3>1
    <3>3. ASSUME NEW k \in 1 .. MaxDepth
          PROVE  k \in frames'[i].newer <=> k \in DOMAIN frames' /\ k > i /\ frames'[k].mark
      BY <1>2, <1>5, <1>6, <3>1, <3>2
    <3> QED BY <1>3, <2>2, <3>1, <3>3
  <2> QED BY <2>1, <2>2
<1>9. \A i \in DOMAIN frames' : ~frames'[i].mark => frames'[i].newer = {}
  BY <1>5, <1>6 DEF JobsGood, Separates
<1>10. Top <= MaxDepth
  BY <1>2
<1> QED BY <1>3, <1>7, <1>8, <1>9, <1>10 DEF JobsGood, Separates

LEMMA StackTop ==
  ASSUME JobsGood(jobs, frames), frames # <<>>
  PROVE  /\ DOMAIN frames = 1 .. Top /\ Top \in Nat /\ Top <= MaxDepth /\ Top \in DOMAIN frames
         /\ Top \in 1 .. MaxDepth
         /\ \A i \in DOMAIN frames : frames[i] \in Frame /\ i \in Nat /\ i <= Top
<1>1. /\ DOMAIN frames = 1 .. Top /\ Top \in Nat
      /\ \A i \in DOMAIN frames : frames[i] \in Frame
      /\ DOMAIN frames \subseteq 1 .. MaxDepth
  BY FrameTypes DEF Top
<1>2. Top # 0 /\ Top <= MaxDepth
  BY <1>1, EmptySeq DEF Top, JobsGood
<1> QED BY <1>1, <1>2

(* SYNC_BREAK: the mark of the handler that runs is the one in front of all others.    *)
LEMMA FreeMarkGood ==
  ASSUME JobsGood(jobs, frames), frames # <<>>, frames[Top].mark, FreeMark
  PROVE  JobsGood(jobs', frames')
<1>1. /\ DOMAIN frames = 1 .. Top /\ Top \in Nat /\ Top <= MaxDepth /\ Top \in DOMAIN frames
      /\ \A i \in DOMAIN frames : frames[i] \in Frame /\ i \in Nat /\ i <= Top
  BY StackTop
<1>2. /\ jobs' \in Seq(Elem) /\ IsInjective(jobs') /\ ToSet(jobs') = ToSet(jobs) \ {Top}
      /\ \A x, i : Ahead(jobs', x, i) <=> Ahead(jobs, x, i) /\ x # Top /\ i # Top
  BY WithoutWell DEF JobsGood, FreeMark
<1>3. NewFrame \in Frame /\ ~NewFrame.mark /\ NewFrame.newer = {}
  BY DEF NewFrame, Frame
<1>4. \A i \in DOMAIN frames : [frames[i] EXCEPT !.newer = frames[i].newer \ {Top}] \in Frame
  BY <1>1 DEF Frame
<1>5. frames' = [i \in DOMAIN frames |->
        IF i = Top THEN NewFrame ELSE [frames[i] EXCEPT !.newer = frames[i].newer \ {Top}]]
  BY DEF FreeMark
<1>6. \A i \in DOMAIN frames :
        /\ frames'[i] \in Frame
        /\ frames'[i].mark <=> (i # Top /\ frames[i].mark)
        /\ i = Top => frames'[i].newer = {}
        /\ i # Top => frames'[i].newer = frames[i].newer \ {Top}
  BY <1>1, <1>3, <1>4, <1>5 DEF Frame
<1>7. DOMAIN frames' = DOMAIN frames /\ frames' \in [1 .. Top -> Frame]
  BY <1>1, <1>5, <1>6
<1>8. frames' \in Seq(Frame) /\ Len(frames') = Top
  BY <1>1, <1>7, NewFrames
<1>9. ASSUME NEW i \in DOMAIN frames', frames'[i].mark
      PROVE  /\ i \in ToSet(jobs') /\ \A x : x \in frames'[i].newer <=> Ahead(jobs', x, i)
             /\ \A k \in 1 .. MaxDepth :
                  k \in frames'[i].newer <=> k \in DOMAIN frames' /\ k > i /\ frames'[k].mark
  <2>1. /\ frames[i].mark /\ i \in DOMAIN frames /\ i \in ToSet(jobs) /\ i # Top
        /\ \A x : x \in frames[i].newer <=> Ahead(jobs, x, i)
        /\ \A k \in 1 .. MaxDepth :
             k \in frames[i].newer <=> k \in DOMAIN frames /\ k > i /\ frames[k].mark
        /\ frames'[i].newer = frames[i].newer \ {Top}
    BY <1>6, <1>7, <1>9 DEF JobsGood, Separates
  <2>2. \A k \in 1 .. MaxDepth :
          k \in frames'[i].newer <=> k \in DOMAIN frames' /\ k > i /\ frames'[k].mark
    BY <1>6, <1>7, <2>1
  <2> QED BY <1>2, <2>1, <2>2
<1>10. \A i \in DOMAIN frames' : ~frames'[i].mark => frames'[i].newer = {}
  <2>1. \A i \in DOMAIN frames : ~frames[i].mark => frames[i].newer = {}
    BY DEF JobsGood, Separates
  <2> QED BY <1>6, <1>7, <2>1
<1> QED BY <1>1, <1>2, <1>8, <1>9, <1>10 DEF JobsGood, Separates

LEMMA SameLength ==
  ASSUME NEW m \in Nat, NEW n \in Nat, 1 .. m = 1 .. n
  PROVE  m = n
<1>1. \A k \in 1 .. m : k <= n
  OBVIOUS
<1>2. \A k \in 1 .. n : k <= m
  OBVIOUS
<1> QED BY <1>1, <1>2

(* A job that is not the mark of a handler is taken from the front and its handler called. *)
LEMMA ExecuteJobGood ==
  ASSUME JobsGood(jobs, frames), jobs # <<>>, ExecuteJob,
         \A i \in DOMAIN frames : frames[i].mark => i # Head(jobs)
  PROVE  JobsGood(jobs', frames')
<1> DEFINE j == Head(jobs)
           gs == [i \in DOMAIN frames |-> [frames[i] EXCEPT !.newer = @ \ {j}]]
<1>1. /\ Tail(jobs) \in Seq(Elem) /\ IsInjective(Tail(jobs))
      /\ ToSet(Tail(jobs)) = ToSet(jobs) \ {j}
      /\ \A x, i : Ahead(Tail(jobs), x, i) <=> Ahead(jobs, x, i) /\ x # j
  BY TailWell DEF JobsGood
<1>2. j \notin DOMAIN frames \/ ~frames[j].mark
  OBVIOUS
<1>3. jobs' = Tail(jobs) /\ frames' = Append(gs, NewFrame) /\ Top < MaxDepth
  BY DEF ExecuteJob
<1> DEFINE t == Tail(jobs)
<1>4. JobsGood(t, gs)
  <2>1. /\ t \in Seq(Elem) /\ IsInjective(t) /\ ToSet(t) = ToSet(jobs) \ {j}
        /\ \A i \in DOMAIN frames : frames[i].mark =>
             \A x : Ahead(t, x, i) <=> Ahead(jobs, x, i) /\ x # j
    BY <1>1
  <2>2. gs = [i \in DOMAIN frames |-> [frames[i] EXCEPT !.newer = @ \ {j}]]
    OBVIOUS
  <2> HIDE DEF j, t, gs
  <2> QED BY <1>2, <2>1, <2>2, RemovesWell
<1> HIDE DEF t
<1>5. DOMAIN gs = DOMAIN frames
  OBVIOUS
<1> HIDE DEF gs
<1>6. Len(gs) = Top
  <2>1. DOMAIN gs = 1 .. Len(gs) /\ Len(gs) \in Nat
    BY <1>4, FrameTypes
  <2>2. DOMAIN frames = 1 .. Top /\ Top \in Nat
    BY FrameTypes DEF Top
  <2> QED BY <1>5, <2>1, <2>2, SameLength
<1>7. JobsGood(t, Append(gs, NewFrame))
  BY <1>3, <1>4, <1>6, CallsWell
<1> QED BY <1>3, <1>7 DEF t

(* A mark at the front is that of the handler that runs: any other has that one in front. *)
LEMMA FrontMark ==
  ASSUME JobsGood(jobs, frames), frames # <<>>, frames[Top].mark
  PROVE  jobs # <<>> /\ \A i \in DOMAIN frames : frames[i].mark /\ i # Top => i # Head(jobs)
<1>1. /\ DOMAIN frames = 1 .. Top /\ Top \in Nat /\ Top \in DOMAIN frames /\ Top \in 1 .. MaxDepth
      /\ \A i \in DOMAIN frames : i \in Nat /\ i <= Top
  BY StackTop
<1>2. Top \in ToSet(jobs) /\ jobs \in Seq(Elem) /\ IsInjective(jobs)
  BY <1>1 DEF JobsGood, Separates
<1>3. jobs # <<>>
  BY <1>2 DEF ToSet
<1>4. ASSUME NEW i \in DOMAIN frames, frames[i].mark, i # Top PROVE i # Head(jobs)
  <2>1. Top > i
    BY <1>1, <1>4
  <2>2. Top \in frames[i].newer
    BY <1>1, <1>4, <2>1 DEF JobsGood, Separates
  <2>3. Ahead(jobs, Top, i)
    BY <1>4, <2>2 DEF JobsGood, Separates
  <2>4. ~Ahead(jobs, Top, Head(jobs))
    BY <1>2, <1>3, TailWell
  <2> QED BY <2>3, <2>4
<1> QED BY <1>3, <1>4

LEMMA SynchronizeGood ==
  ASSUME JobsGood(jobs, frames), Synchronize
  PROVE  JobsGood(jobs', frames')
<1>1. frames # <<>> /\ frames[Top].mark
  BY DEF Synchronize
<1>2. CASE FreeMark
  BY <1>1, <1>2, FreeMarkGood
<1>3. CASE frames' = [frames EXCEPT ![Top].sync = TRUE] /\ UNCHANGED jobs
  <2>1. /\ DOMAIN frames = 1 .. Top /\ Top \in Nat /\ Top <= MaxDepth /\ Top \in DOMAIN frames
        /\ \A i \in DOMAIN frames : frames[i] \in Frame
    BY <1>1, StackTop
  <2>2. \A i \in DOMAIN frames : frames'[i] \in Frame /\ frames'[i].mark = frames[i].mark
                                /\ frames'[i].newer = frames[i].newer
    BY <1>3, <2>1 DEF Frame
  <2>3. DOMAIN frames' = DOMAIN frames /\ frames' \in [1 .. Top -> Frame]
    BY <1>3, <2>1, <2>2
  <2>4. frames' \in Seq(Frame) /\ Len(frames') = Top
    BY <2>1, <2>3, NewFrames
  <2> QED BY <1>3, <2>1, <2>2, <2>3, <2>4 DEF JobsGood, Separates
<1>4. CASE Head(jobs) # Top /\ ExecuteJob
  BY <1>1, <1>4, FrontMark, ExecuteJobGood
<1> QED BY <1>2, <1>3, <1>4 DEF Synchronize

LEMMA EndHandlerGood ==
  ASSUME JobsGood(jobs, frames), EndHandler
  PROVE  JobsGood(jobs', frames')
<1>1. frames # <<>> /\ ~frames[Top].mark /\ frames' = SubSeq(frames, 1, Top - 1) /\ jobs' = jobs
  BY DEF EndHandler
<1>2. /\ DOMAIN frames = 1 .. Top /\ Top \in Nat /\ Top <= MaxDepth /\ Top \in DOMAIN frames
      /\ \A i \in DOMAIN frames : frames[i] \in Frame /\ i \in Nat /\ i <= Top
  BY <1>1, StackTop
<1>3. /\ frames' \in Seq(Frame) /\ Len(frames') = Top - 1
      /\ \A i \in 1 .. (Top - 1) : frames'[i] = frames[i]
  <2>1. 1 \in 1 .. (Top + 1) /\ Top - 1 \in 0 .. Top /\ frames \in Seq(Frame) /\ Len(frames) = Top
    BY <1>2 DEF JobsGood, Top
  <2>2. \A i \in 1 .. (Top - 1) : frames[i] \in Frame
    BY <1>2
  <2> HIDE DEF Top
  <2>3. /\ Len(SubSeq(frames, 1, Top - 1)) = Top - 1 /\ SubSeq(frames, 1, Top - 1) \in Seq(Frame)
        /\ \A i \in 1 .. (Top - 1) : SubSeq(frames, 1, Top - 1)[i] = frames[i]
    BY <1>2, <2>1, <2>2, SubSeqProperties
  <2> QED BY <1>1, <2>3
<1>4. DOMAIN frames' = 1 .. (Top - 1)
  BY <1>3, LenProperties
<1>5. /\ \A i \in DOMAIN frames' : i \in DOMAIN frames /\ frames'[i] = frames[i]
      /\ \A i \in DOMAIN frames : i \in DOMAIN frames' \/ i = Top
  BY <1>2, <1>3, <1>4
<1>6. Separates(jobs, frames')
  <2>1. ASSUME NEW i \in DOMAIN frames', frames'[i].mark, NEW k \in 1 .. MaxDepth
        PROVE  k \in frames'[i].newer <=> k \in DOMAIN frames' /\ k > i /\ frames'[k].mark
    <3>1. k \in frames[i].newer <=> k \in DOMAIN frames /\ k > i /\ frames[k].mark
      BY <1>5, <2>1 DEF JobsGood, Separates
    <3> QED BY <1>1, <1>5, <3>1
  <2>2. ASSUME NEW i \in DOMAIN frames', frames'[i].mark
        PROVE  i \in ToSet(jobs) /\ \A x : x \in frames'[i].newer <=> Ahead(jobs, x, i)
    BY <1>5, <2>2 DEF JobsGood, Separates
  <2>3. \A i \in DOMAIN frames' : ~frames'[i].mark => frames'[i].newer = {}
    BY <1>5 DEF JobsGood, Separates
  <2> QED BY <2>1, <2>2, <2>3 DEF Separates
<1>7. Top - 1 <= MaxDepth
  BY <1>2, ReactorAssumption DEF ReactorAssumption
<1> QED BY <1>1, <1>3, <1>6, <1>7 DEF JobsGood

LEMMA HandlerCalled ==
  ASSUME JobsGood(jobs, frames), frames = <<>>
  PROVE  JobsGood(jobs, <<NewFrame>>)
<1>1. Len(frames) = 0 /\ Append(frames, NewFrame) = <<NewFrame>>
  OBVIOUS
<1>2. Len(frames) < MaxDepth
  BY <1>1, FrameTypes
<1>3. JobsGood(jobs, Append(frames, NewFrame))
  BY <1>2, CallsWell
<1> QED BY <1>1, <1>3

LEMMA JobsStep ==
  ASSUME JobsGood(jobs, frames), [Next]_vars
  PROVE  JobsGood(jobs', frames')
<1>1. CASE Call
  <2>0. frames # <<>>
    BY <1>1 DEF Call, Calling
  <2>1. CASE JobCall
    <3>1. PICK j \in Job : \/ jobs' = Prepended(jobs, j) /\ Newer(j, TRUE)
                           \/ jobs' = Without(jobs, j) /\ Newer(j, FALSE)
      BY <2>1 DEF JobCall
    <3>2. CASE jobs' = Prepended(jobs, j) /\ Newer(j, TRUE)
      <4>1. TRUE \in BOOLEAN /\ jobs' = IF TRUE THEN Prepended(jobs, j) ELSE Without(jobs, j)
        BY <3>2
      <4> QED BY <3>2, <4>1, JobCallGood
    <3>3. CASE jobs' = Without(jobs, j) /\ Newer(j, FALSE)
      <4>1. FALSE \in BOOLEAN /\ jobs' = IF FALSE THEN Prepended(jobs, j) ELSE Without(jobs, j)
        BY <3>3
      <4> QED BY <3>3, <4>1, JobCallGood
    <3> QED BY <3>1, <3>2, <3>3
  <2>2. CASE SyncFromHere
    BY <2>0, <2>2, SyncFromHereGood
  <2>3. CASE TimerCall
    BY <2>3 DEF TimerCall
  <2>4. CASE FdCall
    BY <2>4 DEF FdCall
  <2>5. CASE LimitCall
    BY <2>5 DEF LimitCall
  <2>6. CASE BReactor_Quit
    BY <2>6 DEF BReactor_Quit
  <2> QED BY <1>1, <2>1, <2>2, <2>3, <2>4, <2>5, <2>6 DEF Call
<1>2. CASE EndHandler
  BY <1>2, EndHandlerGood
<1>3. CASE Synchronize
  BY <1>3, SynchronizeGood
<1>4. CASE DispatchJob
  <2>1. frames = <<>> /\ jobs # <<>> /\ ExecuteJob
    BY <1>4 DEF DispatchJob, Loop
  <2>2. \A i \in DOMAIN frames : frames[i].mark => i # Head(jobs)
    BY <2>1
  <2> QED BY <2>1, <2>2, ExecuteJobGood
<1>5. CASE DispatchTimer
  BY <1>5, HandlerCalled DEF DispatchTimer, Loop
<1>6. CASE DispatchFd
  <2>1. frames = <<>> /\ jobs' = jobs /\ (frames' = frames \/ frames' = <<NewFrame>>)
    BY <1>6 DEF DispatchFd, Loop
  <2> QED BY <2>1, HandlerCalled
<1>7. CASE BeginWait
  BY <1>7 DEF BeginWait
<1>8. CASE EndWait
  BY <1>8 DEF EndWait
<1>9. CASE Tick
  BY <1>9 DEF Tick
<1>10. CASE UNCHANGED vars
  BY <1>10 DEF vars
<1> QED BY <1>1, <1>2, <1>3, <1>4, <1>5, <1>6, <1>7, <1>8, <1>9, <1>10
        DEF Next, Step, LoopStep, Exited, Interrupted

-----------------------------------------------------------------------------
(* Timers.                                                                   *)

(* The times of a list of timers are reached, and in order.                     *)
Ordered(ti, ex, time) ==
  /\ \A i \in DOMAIN ex : ti[ex[i]].absTime <= time
  /\ \A i, j \in DOMAIN ex : i < j => ti[ex[i]].absTime <= ti[ex[j]].absTime

TimerState == [state : {"inactive", "running", "expired"}, absTime : 0 .. MaxTime]

TimersGood(ti, tr, ex, time) ==
  /\ ti \in [Timer -> TimerState] /\ time \in 0 .. MaxTime
  /\ tr = {t \in Timer : ti[t].state = "running"}
  /\ ex \in Seq(Timer) /\ IsInjective(ex)
  /\ ToSet(ex) = {t \in Timer : ti[t].state = "expired"}
  /\ Ordered(ti, ex, time)

LEMMA TimersGoodIs ==
  ASSUME TypeOK
  PROVE  TimersAgree /\ TimersOnTime <=> TimersGood(timer, tree, expired, now)
BY DEF TypeOK, TimersAgree, TimersOnTime, TimersGood, TimerState, Ordered

LEMMA OrderedIs ==
  ASSUME NEW ti, NEW time, NEW ex
  PROVE  Ordered(ti, ex, time)
           <=> /\ \A t \in ToSet(ex) : ti[t].absTime <= time
               /\ \A t, u : Ahead(ex, t, u) => ti[t].absTime <= ti[u].absTime
<1>1. (\A i \in DOMAIN ex : ti[ex[i]].absTime <= time)
        <=> \A t \in ToSet(ex) : ti[t].absTime <= time
  BY DEF ToSet
<1>2. (\A i, j \in DOMAIN ex : i < j => ti[ex[i]].absTime <= ti[ex[j]].absTime)
        <=> \A t, u : Ahead(ex, t, u) => ti[t].absTime <= ti[u].absTime
  BY DEF Ahead
<1> QED BY <1>1, <1>2 DEF Ordered

(* One timer leaves the list, if it was there.                                   *)
LEMMA OneTimer ==
  ASSUME NEW ti, NEW tr, NEW ex, NEW time, TimersGood(ti, tr, ex, time),
         NEW t \in Timer, NEW v \in TimerState, v.state # "expired", NEW ex2,
         ex2 \in Seq(Timer), IsInjective(ex2), ToSet(ex2) = ToSet(ex) \ {t},
         \A x, i : Ahead(ex2, x, i) => Ahead(ex, x, i) /\ x # t /\ i # t
  PROVE  TimersGood([ti EXCEPT ![t] = v], IF v.state = "running" THEN tr \cup {t} ELSE tr \ {t},
                    ex2, time)
<1> DEFINE tj == [ti EXCEPT ![t] = v]
           tq == IF v.state = "running" THEN tr \cup {t} ELSE tr \ {t}
<1>1. tj \in [Timer -> TimerState] /\ tj[t] = v /\ \A u \in Timer : u # t => tj[u] = ti[u]
  BY DEF TimersGood
<1>2. \A x, i : Ahead(ex, x, i) => x \in Timer /\ i \in Timer
  <2>1. \A m \in DOMAIN ex : ex[m] \in Timer
    BY ElementOfSeq, LenProperties DEF TimersGood
  <2> QED BY <2>1 DEF Ahead
<1>3. \A u \in ToSet(ex2) : u \in Timer /\ u # t /\ u \in ToSet(ex)
  BY DEF TimersGood
<1>4. /\ \A u \in ToSet(ex) : ti[u].absTime <= time
      /\ \A x, i : Ahead(ex, x, i) => ti[x].absTime <= ti[i].absTime
  BY OrderedIs DEF TimersGood
<1>5. tq = {u \in Timer : tj[u].state = "running"}
  BY <1>1 DEF TimersGood
<1> HIDE DEF tj, tq
<1>6. Ordered(tj, ex2, time)
  BY <1>1, <1>2, <1>3, <1>4, OrderedIs
<1>7. ToSet(ex2) = {u \in Timer : tj[u].state = "expired"}
  BY <1>1 DEF TimersGood
<1>8. TimersGood(tj, tq, ex2, time)
  BY <1>1, <1>5, <1>6, <1>7 DEF TimersGood
<1> QED BY <1>8 DEF tj, tq

LEMMA TimerCallGood ==
  ASSUME TimersGood(timer, tree, expired, now), TimerCall, now' = now
  PROVE  TimersGood(timer', tree', expired', now')
<1>1. PICK t \in Timer :
        /\ expired' = RemoveSmallTimer(t).expired
        /\ \/ /\ timer' = [timer EXCEPT ![t].state = "inactive"]
              /\ tree' = RemoveSmallTimer(t).tree
           \/ \E time \in now .. MaxTime :
                /\ timer' = [timer EXCEPT ![t] = [state |-> "running", absTime |-> time]]
                /\ tree' = RemoveSmallTimer(t).tree \cup {t}
  BY DEF TimerCall
<1>2. /\ timer \in [Timer -> TimerState] /\ timer[t] \in TimerState
      /\ tree = {u \in Timer : timer[u].state = "running"} /\ now \in 0 .. MaxTime
      /\ expired \in Seq(Timer) /\ IsInjective(expired)
      /\ ToSet(expired) = {u \in Timer : timer[u].state = "expired"}
  BY DEF TimersGood
<1>3. expired' = Without(expired, t)
  <2>1. CASE timer[t].state = "expired"
    BY <1>1, <2>1 DEF RemoveSmallTimer
  <2>2. CASE timer[t].state # "expired"
    <3>1. t \notin ToSet(expired)
      BY <1>2, <2>2
    <3> QED BY <1>1, <2>2, <3>1 DEF RemoveSmallTimer, Without
  <2> QED BY <2>1, <2>2
<1>4. RemoveSmallTimer(t).tree = tree \ {t}
  BY <1>2 DEF RemoveSmallTimer
<1>5. /\ expired' \in Seq(Timer) /\ IsInjective(expired') /\ ToSet(expired') = ToSet(expired) \ {t}
      /\ \A x, i : Ahead(expired', x, i) => Ahead(expired, x, i) /\ x # t /\ i # t
  BY <1>2, <1>3, WithoutWell
<1>6. CASE timer' = [timer EXCEPT ![t].state = "inactive"] /\ tree' = tree \ {t}
  <2> DEFINE v == [timer[t] EXCEPT !.state = "inactive"]
  <2>1. v \in TimerState /\ v.state = "inactive"
    BY <1>2 DEF TimerState
  <2>2. timer' = [timer EXCEPT ![t] = v]
    BY <1>6
  <2>3. tree' = IF v.state = "running" THEN tree \cup {t} ELSE tree \ {t}
    BY <1>6, <2>1
  <2> HIDE DEF v
  <2> QED BY <1>5, <2>1, <2>2, <2>3, OneTimer
<1>7. ASSUME NEW time \in now .. MaxTime,
             timer' = [timer EXCEPT ![t] = [state |-> "running", absTime |-> time]],
             tree' = (tree \ {t}) \cup {t}
      PROVE  TimersGood(timer', tree', expired', now')
  <2> DEFINE v == [state |-> "running", absTime |-> time]
  <2>1. time \in 0 .. MaxTime
    BY <1>2, ReactorAssumption DEF ReactorAssumption
  <2>2. v \in TimerState /\ v.state = "running"
    BY <2>1 DEF TimerState
  <2>3. timer' = [timer EXCEPT ![t] = v]
    BY <1>7
  <2>4. tree' = IF v.state = "running" THEN tree \cup {t} ELSE tree \ {t}
    BY <1>7, <2>2
  <2> HIDE DEF v
  <2> QED BY <1>5, <2>2, <2>3, <2>4, OneTimer
<1> QED BY <1>1, <1>4, <1>6, <1>7

LEMMA DispatchTimerGood ==
  ASSUME TimersGood(timer, tree, expired, now), DispatchTimer
  PROVE  TimersGood(timer', tree', expired', now')
<1> DEFINE t == Head(expired)
           v == [timer[t] EXCEPT !.state = "inactive"]
<1>1. /\ timer' = [timer EXCEPT ![t].state = "inactive"] /\ expired' = Tail(expired)
      /\ tree' = tree /\ now' = now /\ expired # <<>>
  BY DEF DispatchTimer
<1>2. /\ expired' \in Seq(Timer) /\ IsInjective(expired') /\ ToSet(expired') = ToSet(expired) \ {t}
      /\ t \in Timer /\ t \in ToSet(expired)
      /\ \A x, i : Ahead(expired', x, i) <=> Ahead(expired, x, i) /\ x # t
      /\ \A x : ~Ahead(expired, x, t)
  BY <1>1, TailWell DEF TimersGood
<1> HIDE DEF t
<1>3. timer[t] \in TimerState /\ timer[t].state = "expired"
  BY <1>2 DEF TimersGood
<1>4. v \in TimerState /\ v.state = "inactive"
  BY <1>3 DEF TimerState
<1>5. timer' = [timer EXCEPT ![t] = v]
  BY <1>1
<1>6. tree' = IF v.state = "running" THEN tree \cup {t} ELSE tree \ {t}
  <2>1. t \notin tree
    BY <1>3 DEF TimersGood
  <2> QED BY <1>1, <1>4, <2>1
<1> HIDE DEF v
<1>7. \A x, i : Ahead(expired', x, i) => Ahead(expired, x, i) /\ x # t /\ i # t
  BY <1>2
<1>8. v.state # "expired"
  BY <1>4
<1>9. expired' \in Seq(Timer) /\ IsInjective(expired') /\ ToSet(expired') = ToSet(expired) \ {t}
      /\ t \in Timer
  BY <1>2
<1>10. TimersGood([timer EXCEPT ![t] = v], IF v.state = "running" THEN tree \cup {t} ELSE tree \ {t},
                  expired', now)
  BY <1>4, <1>7, <1>8, <1>9, OneTimer
<1>11. now' = now
  BY <1>1
<1> QED BY <1>5, <1>6, <1>10, <1>11

(* The sequences of a finite set name each of its elements once.                      *)
LEMMA SeqsOfSet ==
  ASSUME NEW D, IsFiniteSet(D), NEW q \in SetToSeqs(D)
  PROVE  q \in Seq(D) /\ IsInjective(q) /\ ToSet(q) = D
<1> DEFINE n == Cardinality(D)
<1>1. n \in Nat
  BY FS_CardinalityType
<1>2. q \in [1 .. n -> D] /\ \A i, j \in 1 .. n : i # j => q[i] # q[j]
  BY DEF SetToSeqs
<1> HIDE DEF n
<1>3. IsInjective(q) /\ DOMAIN q = 1 .. n
  BY <1>2 DEF IsInjective
<1>4. q \in Injection(1 .. n, D)
  BY <1>2, <1>3 DEF Injection
<1>5. Cardinality(1 .. n) = n
  <2>1. 1 \in Int /\ n \in Int
    BY <1>1
  <2>2. Cardinality(1 .. n) = IF 1 > n THEN 0 ELSE n - 1 + 1
    BY <2>1, FS_Interval
  <2> QED BY <1>1, <2>2
<1>6. q \in Surjection(1 .. n, D)
  BY <1>4, <1>5, FS_Injection DEF n
<1>7. ToSet(q) = D
  BY <1>2, <1>3, <1>6 DEF ToSet, Surjection
<1>8. q \in Seq(D)
  BY <1>1, <1>2, SeqDef
<1> QED BY <1>3, <1>7, <1>8

LEMMA ExpireGood ==
  ASSUME TimersGood(timer, tree, expired, now), expired = <<>>, now' = now,
         NEW due \in SUBSET tree, \A t \in due : timer[t].absTime <= now, Expire(due)
  PROVE  TimersGood(timer', tree', expired', now')
<1>1. PICK q \in SetToSeqs(due) :
        /\ \A i, j \in DOMAIN q : i < j => timer[q[i]].absTime <= timer[q[j]].absTime
        /\ expired' = q
  BY DEF Expire
<1>2. /\ timer \in [Timer -> TimerState] /\ now \in 0 .. MaxTime
      /\ tree = {u \in Timer : timer[u].state = "running"}
      /\ \A u \in Timer : timer[u].state # "expired"
  BY DEF TimersGood, ToSet
<1>3. due \subseteq Timer /\ IsFiniteSet(due)
  BY <1>2, FS_Subset, ReactorAssumption DEF ReactorAssumption
<1>4. q \in Seq(due) /\ IsInjective(q) /\ ToSet(q) = due
  BY <1>3, SeqsOfSet
<1>5. \A t \in Timer : [timer[t] EXCEPT !.state = "expired"] \in TimerState
  BY <1>2 DEF TimerState
<1>6. timer' = [t \in Timer |->
                  IF t \in due THEN [timer[t] EXCEPT !.state = "expired"] ELSE timer[t]]
  BY DEF Expire
<1>7. /\ timer' \in [Timer -> TimerState]
      /\ \A t \in Timer : /\ timer'[t].absTime = timer[t].absTime
                          /\ t \in due => timer'[t].state = "expired"
                          /\ t \notin due => timer'[t].state = timer[t].state
  BY <1>2, <1>5, <1>6 DEF TimerState
<1>8. tree' = {t \in Timer : timer'[t].state = "running"}
  <2>1. tree' = tree \ due
    BY DEF Expire
  <2> QED BY <1>2, <1>3, <1>7, <2>1
<1>9. ToSet(q) = {t \in Timer : timer'[t].state = "expired"}
  BY <1>2, <1>3, <1>4, <1>7
<1>10. q \in Seq(Timer)
  BY <1>3, <1>4
<1>11. \A i \in DOMAIN q : q[i] \in due /\ q[i] \in Timer
  BY <1>3, <1>4 DEF ToSet
<1>12. Ordered(timer', q, now)
  BY <1>1, <1>7, <1>11 DEF Ordered
<1> QED BY <1>1, <1>2, <1>4, <1>7, <1>8, <1>9, <1>10, <1>12 DEF TimersGood

LEMMA TimersStep ==
  ASSUME TimersGood(timer, tree, expired, now), waiting # "no" => expired = <<>>, [Next]_vars
  PROVE  TimersGood(timer', tree', expired', now')
<1>1. CASE TimerCall /\ now' = now
  BY <1>1, TimerCallGood
<1>2. CASE UNCHANGED <<timer, tree, expired, now>>
  BY <1>2
<1>3. CASE DispatchTimer
  BY <1>3, DispatchTimerGood
<1>4. CASE BeginWait
  <2> DEFINE due == {t \in tree : timer[t].absTime <= now}
  <2>1. expired = <<>> /\ now' = now /\ (Expire(due) \/ UNCHANGED <<timer, tree, expired>>)
    BY <1>4 DEF BeginWait
  <2>2. due \in SUBSET tree /\ \A t \in due : timer[t].absTime <= now
    OBVIOUS
  <2> HIDE DEF due
  <2> QED BY <2>1, <2>2, ExpireGood
<1>5. CASE EndWait
  <2>1. expired = <<>> /\ now' = now
        /\ \/ UNCHANGED <<timer, tree, expired>>
           \/ now >= timer[First].absTime /\ Expire(FirstTimers)
    BY <1>5 DEF EndWait
  <2>2. CASE now >= timer[First].absTime /\ Expire(FirstTimers)
    <3>1. FirstTimers \in SUBSET tree /\ \A t \in FirstTimers : timer[t].absTime = timer[First].absTime
      BY DEF FirstTimers
    <3>2. \A t \in FirstTimers : t \in tree /\ timer[t].absTime \in Nat /\ timer[t].absTime <= now
      BY <2>2, <3>1 DEF TimersGood, TimerState
    <3> QED BY <2>1, <2>2, <3>1, <3>2, ExpireGood
  <2> QED BY <2>1, <2>2
<1>6. CASE Tick
  <2>1. now' \in 0 .. MaxTime /\ now' = now + 1 /\ now \in 0 .. MaxTime
        /\ timer' = timer /\ tree' = tree /\ expired' = expired
    BY <1>6, ReactorAssumption DEF Tick, TimersGood, ReactorAssumption
  <2>2. \A i \in DOMAIN expired : timer[expired[i]].absTime \in Nat
    <3>1. \A i \in DOMAIN expired : expired[i] \in Timer
      BY ElementOfSeq, LenProperties DEF TimersGood
    <3> QED BY <3>1 DEF TimersGood, TimerState
  <2>3. Ordered(timer, expired, now + 1)
    BY <2>1, <2>2 DEF TimersGood, Ordered
  <2> QED BY <2>1, <2>3 DEF TimersGood
<1> QED
  <2>1. CASE Call
    BY <1>1, <1>2, <2>1 DEF Call, JobCall, SyncFromHere, FdCall, LimitCall, BReactor_Quit
  <2>2. CASE EndHandler \/ Synchronize \/ DispatchJob \/ DispatchFd
    BY <1>2, <2>2 DEF EndHandler, Synchronize, DispatchJob, DispatchFd
  <2>3. CASE UNCHANGED vars
    BY <1>2, <2>3 DEF vars
  <2> QED BY <1>3, <1>4, <1>5, <1>6, <2>1, <2>2, <2>3
          DEF Next, Step, LoopStep, Exited, Interrupted

-----------------------------------------------------------------------------
(* Descriptors and the results of epoll_wait.                                   *)

FdState == [ active : BOOLEAN, wait : SUBSET {"read", "write"},
             returned : 0 .. MaxResults, gen : 0 .. MaxOps ]
ResultState == [ptr : Fd \cup {None}, ev : SUBSET Event, gen : 0 .. MaxOps]

(* ResultsCurrent of one result.                                                *)
Current(f, r, i) == r.ptr # None => /\ f[r.ptr].active /\ f[r.ptr].returned = i
                                   /\ f[r.ptr].gen = r.gen

FdsGood(f, rs, p, n) ==
  /\ f \in [Fd -> FdState] /\ rs \in Seq(ResultState) /\ Len(rs) <= MaxResults
  /\ p \in 0 .. Len(rs) /\ n \in 0 .. MaxOps
  /\ \A i \in p + 1 .. Len(rs) : Current(f, rs[i], i)
  /\ \A x \in Fd : f[x].gen <= n

LEMMA FdsGoodIs ==
  ASSUME TypeOK
  PROVE  ResultsCurrent /\ (\A f \in Fd : fd[f].gen <= ops) <=> FdsGood(fd, results, pos, ops)
<1>1. ResultsCurrent <=> \A i \in pos + 1 .. Len(results) : Current(fd, results[i], i)
  BY DEF ResultsCurrent, Current
<1> QED BY <1>1 DEF TypeOK, FdsGood, FdState, ResultState

LEMMA FdTypes ==
  ASSUME FdsGood(fd, results, pos, ops)
  PROVE  /\ Len(results) \in Nat /\ pos \in Nat /\ ops \in Nat /\ pos <= Len(results)
         /\ DOMAIN results = 1 .. Len(results)
         /\ \A i \in 1 .. Len(results) : results[i] \in ResultState
         /\ \A i \in pos + 1 .. Len(results) :
              i \in 1 .. Len(results) /\ results[i] \in ResultState
              /\ Current(fd, results[i], i) /\ i \in Nat /\ i >= 1
         /\ \A x \in Fd : fd[x] \in FdState
<1>1. results \in Seq(ResultState) /\ pos \in 0 .. Len(results) /\ ops \in 0 .. MaxOps
  BY DEF FdsGood
<1>2. /\ Len(results) \in Nat /\ DOMAIN results = 1 .. Len(results)
      /\ \A i \in 1 .. Len(results) : results[i] \in ResultState
  BY <1>1, LenProperties, ElementOfSeq
<1>3. pos \in Nat /\ pos <= Len(results) /\ ops \in Nat
  BY <1>1, <1>2, ReactorAssumption DEF ReactorAssumption
<1>4. \A i \in pos + 1 .. Len(results) : i \in 1 .. Len(results) /\ i \in Nat /\ i >= 1
  BY <1>2, <1>3
<1> QED BY <1>2, <1>3, <1>4 DEF FdsGood

(* One descriptor changes; no result that is still to come is of it.                *)
LEMMA OneFd ==
  ASSUME FdsGood(fd, results, pos, ops), NEW f \in Fd, NEW v \in FdState,
         NEW n \in 0 .. MaxOps, v.gen <= n, ops <= n, NEW p \in pos .. Len(results),
         \A i \in p + 1 .. Len(results) : results[i].ptr # f
  PROVE  FdsGood([fd EXCEPT ![f] = v], results, p, n)
<1>1. /\ Len(results) \in Nat /\ pos \in Nat /\ ops \in Nat
      /\ \A i \in pos + 1 .. Len(results) :
           results[i] \in ResultState /\ Current(fd, results[i], i)
      /\ \A x \in Fd : fd[x] \in FdState
  BY FdTypes
<1> DEFINE fj == [fd EXCEPT ![f] = v]
<1>2. fj \in [Fd -> FdState] /\ fj[f] = v /\ \A x \in Fd : x # f => fj[x] = fd[x]
  BY <1>1 DEF FdsGood
<1> HIDE DEF fj
<1>3. p \in 0 .. Len(results) /\ \A i \in p + 1 .. Len(results) : i \in pos + 1 .. Len(results)
  BY <1>1
<1>4. ASSUME NEW i \in p + 1 .. Len(results) PROVE Current(fj, results[i], i)
  <2>1. results[i] \in ResultState /\ Current(fd, results[i], i) /\ results[i].ptr # f
    BY <1>1, <1>3, <1>4
  <2>2. results[i].ptr # None => results[i].ptr \in Fd
    BY <2>1 DEF ResultState
  <2> QED BY <1>2, <2>1, <2>2 DEF Current
<1>5. \A x \in Fd : fj[x].gen <= n
  <2>1. \A x \in Fd : fd[x].gen \in Nat /\ fd[x].gen <= ops
    BY <1>1, ReactorAssumption DEF FdsGood, FdState, ReactorAssumption
  <2>2. n \in Nat
    BY ReactorAssumption DEF ReactorAssumption
  <2> QED BY <1>1, <1>2, <2>1, <2>2
<1>6. FdsGood(fj, results, p, n)
  BY <1>2, <1>3, <1>4, <1>5 DEF FdsGood
<1> QED BY <1>6 DEF fj

LEMMA FdCallGood ==
  ASSUME FdsGood(fd, results, pos, ops), FdCall, ops < MaxOps
  PROVE  FdsGood(fd', results', pos, ops + 1)
<1>0. PICK f \in Fd :
        AddFileDescriptor(f) \/ RemoveFileDescriptor(f) \/ SetFileDescriptorEvents(f)
  BY DEF FdCall
<1>1. /\ Len(results) \in Nat /\ pos \in Nat /\ ops \in Nat /\ pos <= Len(results)
      /\ DOMAIN results = 1 .. Len(results)
      /\ \A i \in 1 .. Len(results) : results[i] \in ResultState
      /\ \A i \in pos + 1 .. Len(results) :
           i \in 1 .. Len(results) /\ Current(fd, results[i], i) /\ i \in Nat /\ i >= 1
      /\ fd[f] \in FdState
  BY FdTypes
<1>2. /\ ops + 1 \in 0 .. MaxOps /\ ops <= ops + 1 /\ pos \in pos .. Len(results)
      /\ fd[f].gen <= ops /\ fd[f].gen \in 0 .. MaxOps /\ fd[f].returned \in 0 .. MaxResults
      /\ fd[f].wait \in SUBSET {"read", "write"} /\ MaxOps \in Nat /\ MaxResults \in Nat
      /\ fd[f].active \in BOOLEAN /\ fd[f].gen \in Nat
  BY <1>1, ReactorAssumption DEF FdsGood, FdState, ReactorAssumption
<1>3. f # None
  BY ReactorAssumption DEF ReactorAssumption
<1>4. CASE AddFileDescriptor(f)
  <2> DEFINE v == [active |-> TRUE, wait |-> {}, returned |-> 0, gen |-> fd[f].gen + 1]
  <2>1. v \in FdState /\ v.gen <= ops + 1
    BY <1>1, <1>2 DEF FdState
  <2>2. \A i \in pos + 1 .. Len(results) : results[i].ptr # f
    BY <1>1, <1>3, <1>4 DEF Current, AddFileDescriptor
  <2>3. fd' = [fd EXCEPT ![f] = v] /\ results' = results
    BY <1>4 DEF AddFileDescriptor
  <2> HIDE DEF v
  <2> QED BY <1>2, <2>1, <2>2, <2>3, OneFd
<1>5. CASE SetFileDescriptorEvents(f)
  <2>1. PICK w \in SUBSET {"read", "write"} : fd' = [fd EXCEPT ![f].wait = w]
    BY <1>5 DEF SetFileDescriptorEvents
  <2> DEFINE v == [fd[f] EXCEPT !.wait = w]
  <2>2. v \in FdState /\ v.gen = fd[f].gen /\ v.active = fd[f].active
        /\ v.returned = fd[f].returned
    BY <1>1 DEF FdState
  <2>3. fd' = [fd EXCEPT ![f] = v] /\ results' = results
    BY <1>5, <2>1 DEF SetFileDescriptorEvents
  <2> HIDE DEF v
  <2>4. fd' \in [Fd -> FdState] /\ fd'[f] = v /\ \A x \in Fd : x # f => fd'[x] = fd[x]
    BY <2>2, <2>3 DEF FdsGood
  <2>5. \A x \in Fd : fd'[x].gen = fd[x].gen /\ fd'[x].active = fd[x].active
                      /\ fd'[x].returned = fd[x].returned
    BY <2>2, <2>4
  <2>6. ASSUME NEW i \in pos + 1 .. Len(results) PROVE Current(fd', results[i], i)
    <3>1. results[i] \in ResultState /\ Current(fd, results[i], i)
      BY <1>1
    <3>2. results[i].ptr # None => results[i].ptr \in Fd
      BY <3>1 DEF ResultState
    <3> QED BY <2>5, <3>1, <3>2 DEF Current
  <2>7. \A x \in Fd : fd'[x].gen <= ops + 1
    <3>1. \A x \in Fd : fd[x].gen <= ops /\ fd[x].gen \in Nat
      BY <1>2, FdTypes DEF FdsGood, FdState
    <3> QED BY <1>1, <2>5, <3>1
  <2> QED BY <1>2, <2>3, <2>4, <2>6, <2>7 DEF FdsGood
<1>6. CASE RemoveFileDescriptor(f)
  <2> DEFINE v == [fd[f] EXCEPT !.active = FALSE]
             k == fd[f].returned
  <2>1. v \in FdState /\ v.gen = fd[f].gen
    BY <1>1 DEF FdState
  <2>2. fd' = [fd EXCEPT ![f] = v]
    BY <1>6 DEF RemoveFileDescriptor
  <2> HIDE DEF v
  <2>3. CASE k = 0
    <3>1. results' = results
      BY <1>6, <2>3 DEF RemoveFileDescriptor
    <3>2. \A i \in pos + 1 .. Len(results) : results[i].ptr # f
      BY <1>1, <1>3, <2>3 DEF Current
    <3> HIDE DEF k
    <3>3. v.gen <= ops + 1
      <4>1. fd[f].gen <= ops + 1
        BY <1>1, <1>2
      <4> QED BY <2>1, <4>1
    <3>4. FdsGood([fd EXCEPT ![f] = v], results, pos, ops + 1)
      BY <1>2, <2>1, <3>2, <3>3, OneFd
    <3> QED BY <2>2, <3>1, <3>4
  <2>4. CASE k # 0
    <3>1. results' = [results EXCEPT ![k].ptr = None]
      BY <1>6, <2>4 DEF RemoveFileDescriptor
    <3>2. \A i \in 1 .. Len(results) : [results[i] EXCEPT !.ptr = None] \in ResultState
                                       /\ [results[i] EXCEPT !.ptr = None].ptr = None
      BY <1>1 DEF ResultState
    <3>3. results' = [i \in 1 .. Len(results) |->
                        IF i = k THEN [results[i] EXCEPT !.ptr = None] ELSE results[i]]
      BY <1>1, <3>1
    <3>4. \A i \in 1 .. Len(results) : /\ results'[i] \in ResultState
                                       /\ i = k => results'[i].ptr = None
                                       /\ i # k => results'[i] = results[i]
      BY <1>1, <3>2, <3>3
    <3>5. results' \in [1 .. Len(results) -> ResultState]
      BY <3>3, <3>4
    <3>6. results' \in Seq(ResultState) /\ Len(results') = Len(results)
      BY <1>1, <3>5, SeqDef, LenProperties
    <3>7. fd' \in [Fd -> FdState] /\ fd'[f] = v /\ \A x \in Fd : x # f => fd'[x] = fd[x]
      BY <2>1, <2>2 DEF FdsGood
    <3>8. ASSUME NEW i \in pos + 1 .. Len(results) PROVE Current(fd', results'[i], i)
      <4>1. i \in 1 .. Len(results) /\ results[i] \in ResultState /\ Current(fd, results[i], i)
        BY <1>1
      <4>2. CASE i = k
        BY <3>4, <4>1, <4>2 DEF Current
      <4>3. CASE i # k
        <5>1. results'[i] = results[i] /\ results[i].ptr # f
          BY <1>3, <3>4, <4>1, <4>3 DEF Current
        <5>2. results[i].ptr # None => results[i].ptr \in Fd
          BY <4>1 DEF ResultState
        <5> QED BY <3>7, <4>1, <5>1, <5>2 DEF Current
      <4> QED BY <4>2, <4>3
    <3>9. \A x \in Fd : fd'[x].gen <= ops + 1
      <4>1. \A x \in Fd : fd[x].gen <= ops /\ fd[x].gen \in Nat
        BY <1>2, FdTypes DEF FdsGood, FdState
      <4> QED BY <1>1, <2>1, <3>7, <4>1
    <3> QED BY <1>1, <1>2, <3>6, <3>7, <3>8, <3>9 DEF FdsGood
  <2> QED BY <2>3, <2>4
<1> QED BY <1>0, <1>4, <1>5, <1>6

LEMMA OtherCallGood ==
  ASSUME FdsGood(fd, results, pos, ops), ops < MaxOps
  PROVE  FdsGood(fd, results, pos, ops + 1)
<1>1. ops + 1 \in 0 .. MaxOps /\ ops \in Nat
  BY FdTypes, ReactorAssumption DEF ReactorAssumption
<1>2. \A x \in Fd : fd[x].gen <= ops + 1
  <2>1. \A x \in Fd : fd[x].gen <= ops /\ fd[x].gen \in Nat
    BY FdTypes, ReactorAssumption DEF FdsGood, FdState, ReactorAssumption
  <2> QED BY <1>1, <2>1
<1> QED BY <1>1, <1>2 DEF FdsGood

LEMMA DispatchFdGood ==
  ASSUME FdsGood(fd, results, pos, ops), DispatchFd
  PROVE  FdsGood(fd', results', pos', ops')
<1> DEFINE r == results[pos + 1]
<1>1. /\ Len(results) \in Nat /\ pos \in Nat /\ ops \in 0 .. MaxOps /\ ops <= ops
      /\ \A i \in 1 .. Len(results) : results[i] \in ResultState
      /\ \A i \in pos + 1 .. Len(results) : Current(fd, results[i], i)
  BY FdTypes, ReactorAssumption DEF FdsGood, ReactorAssumption
<1>2. /\ pos < Len(results) /\ pos' = pos + 1 /\ results' = results /\ ops' = ops
      /\ \/ r.ptr = None /\ fd' = fd
         \/ r.ptr # None /\ fd' = [fd EXCEPT ![r.ptr].returned = 0]
  BY DEF DispatchFd
<1>3. /\ pos + 1 \in pos .. Len(results) /\ pos + 1 \in 0 .. Len(results)
      /\ pos + 1 \in 1 .. Len(results) /\ pos + 1 \in pos + 1 .. Len(results)
      /\ \A i \in (pos + 1) + 1 .. Len(results) : i \in pos + 1 .. Len(results) /\ i # pos + 1
  BY <1>1, <1>2
<1>4. r \in ResultState /\ Current(fd, r, pos + 1)
  BY <1>1, <1>3
<1> HIDE DEF r
<1>5. CASE r.ptr = None /\ fd' = fd
  <2>1. \A i \in (pos + 1) + 1 .. Len(results) : Current(fd, results[i], i)
    BY <1>1, <1>3
  <2>2. FdsGood(fd, results, pos + 1, ops)
    BY <1>3, <2>1 DEF FdsGood
  <2> QED BY <1>2, <1>5, <2>2
<1>6. CASE r.ptr # None /\ fd' = [fd EXCEPT ![r.ptr].returned = 0]
  <2> DEFINE f == r.ptr
             v == [fd[f] EXCEPT !.returned = 0]
  <2>1. f \in Fd /\ f # None /\ fd[f].returned = pos + 1
    BY <1>4, <1>6 DEF ResultState, Current
  <2>2. fd' = [fd EXCEPT ![f] = v]
    BY <1>6
  <2> HIDE DEF f
  <2>3. fd[f] \in FdState /\ fd[f].gen <= ops
    BY <2>1, FdTypes DEF FdsGood
  <2>4. v \in FdState /\ v.gen <= ops
    BY <2>3, ReactorAssumption DEF FdState, ReactorAssumption
  <2> HIDE DEF v
  <2>5. \A i \in (pos + 1) + 1 .. Len(results) : results[i].ptr # f
    BY <1>1, <1>3, <2>1 DEF Current
  <2>6. FdsGood([fd EXCEPT ![f] = v], results, pos + 1, ops)
    BY <1>1, <1>3, <2>1, <2>4, <2>5, OneFd
  <2> QED BY <1>2, <2>2, <2>6
<1> QED BY <1>2, <1>5, <1>6

(* What epoll_wait returns is of the descriptors as they are.                          *)
LEMMA ResultsGood ==
  ASSUME FdsGood(fd, results, pos, ops), results = <<>>,
         NEW n \in 1 .. MaxResults,
         NEW rs \in [1 .. n -> UNION {Returns(f) : f \in {g \in Fd : fd[g].active}}],
         \A i, j \in 1 .. n : rs[i].ptr = rs[j].ptr => i = j,
         Results(rs)
  PROVE  FdsGood(fd', results', pos, ops)
<1>1. pos = 0 /\ n \in Nat /\ n <= MaxResults /\ MaxResults \in Nat /\ n >= 1
  <2>1. Len(results) = 0
    OBVIOUS
  <2> QED BY <2>1, ReactorAssumption DEF FdsGood, ReactorAssumption
<1>2. /\ results' = rs
      /\ fd' = [f \in Fd |-> LET at == {i \in DOMAIN rs : rs[i].ptr = f}
                             IN  IF at = {} THEN fd[f]
                                 ELSE [fd[f] EXCEPT !.returned = CHOOSE i \in at : TRUE]]
  BY DEF Results
<1>3. \A f \in Fd : fd[f] \in FdState
  BY FdTypes
<1>4. ASSUME NEW i \in 1 .. n
      PROVE  /\ rs[i] \in ResultState /\ rs[i].ptr \in Fd
             /\ fd[rs[i].ptr].active /\ rs[i].gen = fd[rs[i].ptr].gen
  <2>1. PICK g \in Fd : fd[g].active /\ rs[i] \in Returns(g)
    OBVIOUS
  <2>2. /\ rs[i] \in [ptr : {g}, ev : {e \in SUBSET (fd[g].wait \cup {"error"}) : e # {}},
                      gen : {fd[g].gen}]
    BY <2>1 DEF Returns
  <2>3. fd[g].wait \cup {"error"} \subseteq Event /\ fd[g].gen \in 0 .. MaxOps
    BY <1>3 DEF FdState, Event
  <2>4. rs[i].ptr = g /\ rs[i].gen = fd[g].gen
    BY <2>2
  <2>5. rs[i] \in [ptr : Fd \cup {None}, ev : SUBSET Event, gen : 0 .. MaxOps]
    BY <2>2, <2>3
  <2> QED BY <2>1, <2>4, <2>5 DEF ResultState
<1>5. DOMAIN rs = 1 .. n /\ rs \in [1 .. n -> ResultState]
  BY <1>4
<1>6. rs \in Seq(ResultState) /\ Len(rs) = n
  BY <1>1, <1>5, SeqDef, LenProperties
<1>7. ASSUME NEW f \in Fd
      PROVE  /\ fd'[f] \in FdState /\ fd'[f].gen = fd[f].gen /\ fd'[f].active = fd[f].active
             /\ \A i \in 1 .. n : rs[i].ptr = f => fd'[f].returned = i
  <2> DEFINE at == {i \in DOMAIN rs : rs[i].ptr = f}
             k == CHOOSE i \in at : TRUE
  <2>1. fd'[f] = IF at = {} THEN fd[f] ELSE [fd[f] EXCEPT !.returned = k]
    BY <1>2
  <2>2. at # {} => k \in at
    OBVIOUS
  <2> HIDE DEF k
  <2>3. \A i \in 1 .. n : rs[i].ptr = f => i \in at /\ i = k
    BY <1>5, <2>2
  <2>4. at # {} => k \in 0 .. MaxResults
    BY <1>1, <1>5, <2>2
  <2> HIDE DEF at
  <2>5. CASE at = {}
    <3>1. fd'[f] = fd[f]
      BY <2>1, <2>5
    <3> QED BY <1>3, <2>3, <2>5, <3>1
  <2>6. CASE at # {}
    <3>1. fd'[f] = [fd[f] EXCEPT !.returned = k]
      BY <2>1, <2>6
    <3>2. fd'[f] \in FdState /\ fd'[f].gen = fd[f].gen /\ fd'[f].active = fd[f].active
          /\ fd'[f].returned = k
      BY <1>3, <2>4, <2>6, <3>1 DEF FdState
    <3> QED BY <2>3, <3>2
  <2> QED BY <2>5, <2>6
<1>8. fd' \in [Fd -> FdState]
  BY <1>2, <1>7
<1>9. ASSUME NEW i \in pos + 1 .. Len(rs) PROVE Current(fd', rs[i], i)
  <2>1. i \in 1 .. n
    BY <1>1, <1>6, <1>9
  <2> QED BY <1>4, <1>7, <2>1 DEF Current
<1>10. \A x \in Fd : fd'[x].gen <= ops
  BY <1>7 DEF FdsGood
<1>11. Len(rs) <= MaxResults /\ pos \in 0 .. Len(rs)
  BY <1>1, <1>6
<1> QED BY <1>2, <1>6, <1>8, <1>9, <1>10, <1>11 DEF FdsGood

LEMMA FdsStep ==
  ASSUME FdsGood(fd, results, pos, ops), waiting # "no" => results = <<>>, [Next]_vars
  PROVE  FdsGood(fd', results', pos', ops')
<1>1. CASE Call
  <2>1. ops < MaxOps /\ ops' = ops + 1 /\ pos' = pos
    BY <1>1 DEF Call, Calling
  <2>2. CASE FdCall
    BY <2>1, <2>2, FdCallGood
  <2>3. CASE fd' = fd /\ results' = results
    BY <2>1, <2>3, OtherCallGood
  <2> QED BY <1>1, <2>2, <2>3
          DEF Call, JobCall, SyncFromHere, TimerCall, LimitCall, BReactor_Quit
<1>2. CASE UNCHANGED <<fd, results, pos, ops>>
  BY <1>2
<1>3. CASE DispatchFd
  BY <1>3, DispatchFdGood
<1>4. CASE BeginWait
  <2>1. fd' = fd /\ results' = <<>> /\ pos' = 0 /\ ops' = ops
    BY <1>4 DEF BeginWait
  <2>2. <<>> \in Seq(ResultState) /\ Len(<<>>) = 0 /\ 0 <= MaxResults
    BY ReactorAssumption DEF ReactorAssumption
  <2>3. \A i \in 0 + 1 .. 0 : Current(fd, <<>>[i], i)
    OBVIOUS
  <2>4. FdsGood(fd, <<>>, 0, ops)
    BY <2>2, <2>3 DEF FdsGood
  <2> QED BY <2>1, <2>4
<1>5. CASE EndWait
  <2>1. results = <<>> /\ pos' = pos /\ ops' = ops
    BY <1>5 DEF EndWait
  <2>2. CASE fd' = fd /\ results' = results
    BY <2>1, <2>2
  <2>3. CASE \E n \in 1 .. MaxResults :
               \E rs \in [1 .. n -> UNION {Returns(f) : f \in {g \in Fd : fd[g].active}}] :
                 /\ \A i, j \in 1 .. n : rs[i].ptr = rs[j].ptr => i = j
                 /\ Results(rs)
    BY <2>1, <2>3, ResultsGood
  <2> QED BY <1>5, <2>2, <2>3 DEF EndWait
<1>6. CASE UNCHANGED vars
  BY <1>6 DEF vars
<1> QED BY <1>1, <1>2, <1>3, <1>4, <1>5, <1>6
        DEF Next, Step, LoopStep, Exited, Interrupted, EndHandler, Synchronize, DispatchJob,
            DispatchTimer, Tick

-----------------------------------------------------------------------------
(* Limits, and when the loop waits.                                              *)

LimitsGood == count \in [Limit -> 0 .. MaxCount] /\ active \subseteq Limit /\ LimitsListed

LEMMA LimitsStep ==
  ASSUME LimitsGood, [Next]_vars
  PROVE  LimitsGood'
<1>1. MaxCount \in Nat
  BY ReactorAssumption DEF ReactorAssumption
<1>2. CASE LimitCall
  <2>1. PICK l \in Limit : /\ count[l] < MaxCount /\ count' = [count EXCEPT ![l] = @ + 1]
                           /\ active' = IF count[l] = 0 THEN active \cup {l} ELSE active
    BY <1>2 DEF LimitCall
  <2>2. count[l] \in 0 .. MaxCount
    BY DEF LimitsGood
  <2>3. count[l] + 1 \in 0 .. MaxCount
    BY <1>1, <2>1, <2>2
  <2>4. count' \in [Limit -> 0 .. MaxCount] /\ \A m \in Limit : m # l => count'[m] = count[m]
    BY <2>1, <2>3 DEF LimitsGood
  <2>5. l \in active' /\ active \subseteq active' /\ active' \subseteq Limit
    BY <1>1, <2>1, <2>2 DEF LimitsGood, LimitsListed
  <2>6. LimitsListed'
    BY <2>4, <2>5 DEF LimitsGood, LimitsListed
  <2> QED BY <2>4, <2>5, <2>6 DEF LimitsGood
<1>3. CASE EndWait
  <2>1. count' = [l \in Limit |-> IF l \in active THEN 0 ELSE count[l]] /\ active' = {}
    BY <1>3 DEF EndWait, ResetLimits
  <2>2. \A l \in Limit : count'[l] \in 0 .. MaxCount /\ ~(count'[l] > 0)
    BY <1>1, <2>1 DEF LimitsGood, LimitsListed
  <2> QED BY <2>1, <2>2 DEF LimitsGood, LimitsListed
<1>4. CASE count' = count /\ active' = active
  BY <1>4 DEF LimitsGood, LimitsListed
<1> QED BY <1>2, <1>3, <1>4
        DEF Next, Step, LoopStep, Exited, Interrupted, vars, EndHandler, Synchronize, DispatchJob,
            DispatchTimer, DispatchFd, BeginWait, Tick, Call, JobCall, SyncFromHere, TimerCall,
            FdCall, BReactor_Quit

WaitGood ==
  waiting \in {"no", "timeout", "forever"} /\ exiting \in BOOLEAN /\ WaitsIdle

LEMMA WaitStep ==
  ASSUME WaitGood, [Next]_vars
  PROVE  WaitGood'
<1>1. CASE Call
  <2>1. waiting' = waiting /\ frames # <<>> /\ exiting' \in BOOLEAN
    BY <1>1 DEF WaitGood, Call, Calling, JobCall, SyncFromHere, TimerCall, FdCall, LimitCall,
                BReactor_Quit
  <2> QED BY <2>1 DEF WaitGood, WaitsIdle
<1>2. CASE EndHandler \/ Synchronize \/ DispatchJob \/ DispatchTimer \/ DispatchFd
  <2>1. waiting' = waiting /\ (frames # <<>> \/ waiting = "no") /\ exiting' = exiting
    BY <1>2 DEF EndHandler, Synchronize, DispatchJob, DispatchTimer, DispatchFd, Loop
  <2> QED BY <2>1 DEF WaitGood, WaitsIdle
<1>3. CASE BeginWait
  <2>1. frames' = <<>> /\ jobs' = <<>> /\ results' = <<>> /\ exiting' = exiting /\ waiting = "no"
        /\ \/ waiting' = waiting
           \/ expired' = <<>> /\ waiting' \in {"timeout", "forever"}
    BY <1>3 DEF BeginWait, Loop
  <2> QED BY <2>1 DEF WaitGood, WaitsIdle
<1>4. CASE EndWait
  BY <1>4 DEF EndWait, WaitGood, WaitsIdle
<1>5. CASE UNCHANGED <<waiting, exiting, frames, jobs, expired, results>>
  BY <1>5 DEF WaitGood, WaitsIdle
<1> QED BY <1>1, <1>2, <1>3, <1>4, <1>5
        DEF Next, Step, LoopStep, Exited, Interrupted, vars, Tick

-----------------------------------------------------------------------------
(* The invariant.                                                            *)

LEMMA QueuesExactIs ==
  QueuesExact <=> /\ JobsGood(jobs, frames) /\ TimersGood(timer, tree, expired, now)
                  /\ FdsGood(fd, results, pos, ops) /\ LimitsGood /\ WaitGood
<1>1. ASSUME QueuesExact
      PROVE  /\ JobsGood(jobs, frames) /\ TimersGood(timer, tree, expired, now)
             /\ FdsGood(fd, results, pos, ops) /\ LimitsGood /\ WaitGood
  <2>1. TypeOK
    BY <1>1 DEF QueuesExact
  <2>2. JobsGood(jobs, frames)
    BY <1>1, <2>1, JobsGoodIs DEF QueuesExact, TypeOK, Elem
  <2>3. TimersGood(timer, tree, expired, now) /\ FdsGood(fd, results, pos, ops)
    BY <1>1, <2>1, TimersGoodIs, FdsGoodIs DEF QueuesExact
  <2> QED BY <1>1, <2>1, <2>2, <2>3 DEF QueuesExact, TypeOK, LimitsGood, WaitGood
<1>2. ASSUME JobsGood(jobs, frames), TimersGood(timer, tree, expired, now),
             FdsGood(fd, results, pos, ops), LimitsGood, WaitGood
      PROVE  QueuesExact
  <2>1. jobs \in Seq(Elem) /\ frames \in Seq(Frame) /\ Len(frames) <= MaxDepth /\ MarkSeparates
    BY <1>2, JobsGoodIs
  <2>2. TypeOK
    BY <1>2, <2>1
       DEF TypeOK, Elem, TimersGood, TimerState, FdsGood, FdState, ResultState, LimitsGood, WaitGood
  <2>3. TimersAgree /\ TimersOnTime /\ ResultsCurrent /\ \A f \in Fd : fd[f].gen <= ops
    BY <1>2, <2>2, TimersGoodIs, FdsGoodIs
  <2> QED BY <1>2, <2>1, <2>2, <2>3 DEF QueuesExact, LimitsGood, WaitGood
<1> QED BY <1>1, <1>2

LEMMA InitGood == Init => QueuesExact
<1> SUFFICES ASSUME Init PROVE QueuesExact
  OBVIOUS
<1>0. /\ MaxCount \in Nat /\ MaxResults \in Nat /\ MaxDepth \in Nat /\ MaxDepth >= 1
      /\ MaxOps \in Nat /\ MaxTime \in Nat
  BY ReactorAssumption DEF ReactorAssumption
<1>1. JobsGood(jobs, frames)
  <2>1. NewFrame \in Frame /\ ~NewFrame.mark /\ NewFrame.newer = {}
    BY DEF NewFrame, Frame
  <2>2. frames = <<NewFrame>> /\ jobs = <<>>
    BY DEF Init
  <2>3. frames \in Seq(Frame) /\ Len(frames) = 1 /\ DOMAIN frames = 1 .. 1 /\ frames[1] = NewFrame
    BY <2>1, <2>2
  <2>4. \A i \in DOMAIN frames : frames[i] = NewFrame
    BY <2>3
  <2>5. jobs \in Seq(Elem) /\ IsInjective(jobs)
    BY <2>2 DEF IsInjective
  <2> QED BY <1>0, <2>1, <2>3, <2>4, <2>5 DEF JobsGood, Separates
<1>2. TimersGood(timer, tree, expired, now)
  <2>1. [state |-> "inactive", absTime |-> 0] \in TimerState /\ 0 \in 0 .. MaxTime
    BY <1>0 DEF TimerState
  <2>2. expired = <<>> /\ tree = {} /\ now = 0
        /\ timer = [t \in Timer |-> [state |-> "inactive", absTime |-> 0]]
    BY DEF Init
  <2>3. expired \in Seq(Timer) /\ IsInjective(expired) /\ ToSet(expired) = {}
    BY <2>2 DEF IsInjective, ToSet
  <2>4. Ordered(timer, expired, now)
    BY <2>2 DEF Ordered
  <2> QED BY <2>1, <2>2, <2>3, <2>4 DEF TimersGood
<1>3. FdsGood(fd, results, pos, ops)
  <2>1. [active |-> FALSE, wait |-> {}, returned |-> 0, gen |-> 0] \in FdState
    BY <1>0 DEF FdState
  <2>2. results = <<>> /\ pos = 0 /\ ops = 0
        /\ fd = [f \in Fd |-> [active |-> FALSE, wait |-> {}, returned |-> 0, gen |-> 0]]
    BY DEF Init
  <2>3. results \in Seq(ResultState) /\ Len(results) = 0
    BY <2>2
  <2>4. \A i \in pos + 1 .. Len(results) : Current(fd, results[i], i)
    BY <2>2, <2>3
  <2> QED BY <1>0, <2>1, <2>2, <2>3, <2>4 DEF FdsGood
<1>4. LimitsGood
  BY <1>0 DEF Init, LimitsGood, LimitsListed
<1>5. WaitGood
  BY DEF Init, WaitGood, WaitsIdle
<1> QED BY <1>1, <1>2, <1>3, <1>4, <1>5, QueuesExactIs

LEMMA NextGood == QueuesExact /\ [Next]_vars => QueuesExact'
<1> SUFFICES ASSUME QueuesExact, [Next]_vars PROVE QueuesExact'
  OBVIOUS
<1>1. /\ JobsGood(jobs, frames) /\ TimersGood(timer, tree, expired, now)
      /\ FdsGood(fd, results, pos, ops) /\ LimitsGood /\ WaitGood
  BY QueuesExactIs
<1>2. waiting # "no" => expired = <<>> /\ results = <<>>
  BY <1>1 DEF WaitGood, WaitsIdle
<1>3. JobsGood(jobs', frames')
  BY <1>1, JobsStep
<1>4. TimersGood(timer', tree', expired', now')
  BY <1>1, <1>2, TimersStep
<1>5. FdsGood(fd', results', pos', ops')
  BY <1>1, <1>2, FdsStep
<1>6. LimitsGood' /\ WaitGood'
  BY <1>1, LimitsStep, WaitStep
<1>7. JobsGood(jobs, frames)' /\ TimersGood(timer, tree, expired, now)'
      /\ FdsGood(fd, results, pos, ops)'
  BY <1>3, <1>4, <1>5 DEF JobsGood, Separates, Ahead, TimersGood, Ordered, FdsGood, Current
<1>8. (QueuesExact <=> /\ JobsGood(jobs, frames) /\ TimersGood(timer, tree, expired, now)
                       /\ FdsGood(fd, results, pos, ops) /\ LimitsGood /\ WaitGood)'
  BY QueuesExactIs, PTL
<1> QED BY <1>6, <1>7, <1>8

(* Whatever the handlers set, free, remove or register again, and however they nest     *)
(* with SYNC_FROMHERE and BReactor_Synchronize, what the reactor has still to dispatch    *)
(* is exactly what is registered: a job once and in front of the marks set before it,     *)
(* an expired timer once and in time, a result only to the registration that it was       *)
(* returned for; and wait_for_events is reached only with nothing left to dispatch.       *)
THEOREM QueuesAlwaysExact == Spec => []QueuesExact
BY InitGood, NextGood, PTL DEF Spec

(* When epoll_wait has returned, every limit of a BReactorLimit is 0 again: each one that  *)
(* was raised since is in active_limits_list, for any number of limits and counts.         *)
THEOREM LimitsAlwaysReset == Spec => LimitsReset
<1>1. ASSUME QueuesExact, [Next]_vars, waiting # "no", waiting' = "no"
      PROVE  \A l \in Limit : count'[l] = 0
  <2>1. EndWait
    BY <1>1 DEF Next, Step, LoopStep, Exited, Interrupted, vars, EndHandler, Synchronize,
                DispatchJob, DispatchTimer, DispatchFd, BeginWait, Loop, Tick, Call
  <2>2. count' = [l \in Limit |-> IF l \in active THEN 0 ELSE count[l]]
    BY <2>1 DEF EndWait, ResetLimits
  <2>3. \A l \in Limit : count[l] \in Nat /\ (count[l] > 0 => l \in active)
    BY <1>1, ReactorAssumption DEF QueuesExact, TypeOK, LimitsListed, ReactorAssumption
  <2> QED BY <2>2, <2>3
<1>2. QueuesExact /\ [Next]_vars
        => [waiting # "no" /\ waiting' = "no" => \A l \in Limit : count'[l] = 0]_vars
  BY <1>1
<1> QED BY <1>2, QueuesAlwaysExact, PTL DEF Spec, LimitsReset
=============================================================================
