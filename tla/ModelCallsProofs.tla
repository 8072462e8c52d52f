-------------------------- MODULE ModelCallsProofs --------------------------
(***************************************************************************)
(* What ModelCalls keeps for any number of tasks, segments and chunks, any  *)
(* batch size, limit and costs.                                             *)
(***************************************************************************)
EXTENDS ModelCalls, SequenceTheorems, FiniteSetTheorems, NaturalsInduction, TLAPS

-----------------------------------------------------------------------------
(* Numbers.                                                                 *)

LEMMA LeastExists ==
    ASSUME NEW T, T \subseteq Nat, T # {}
    PROVE  \E x \in T : \A y \in T : x <= y
<1>1. PICK x \in T : \A y \in T : <<y, x>> \notin OpToRel(<, Nat)
  BY NatLessThanWellFounded, WFMin, Zenon
<1>2. \A y \in T : ~(y < x)
  BY <1>1 DEF OpToRel
<1> QED
  BY <1>2

\* One of the costs is the dearest.
LEMMA DearestType == Dearest \in Costs /\ \A c \in Costs : c <= Dearest
<1>1. IsFiniteSet(Costs) /\ Costs # {} /\ Costs \subseteq Nat
  BY MoneyAssumption
<1> DEFINE Dearer(c) == {d \in Costs : d > c}
           T == {Cardinality(Dearer(c)) : c \in Costs}
<1>2. ASSUME NEW c \in Costs PROVE IsFiniteSet(Dearer(c)) /\ Cardinality(Dearer(c)) \in Nat
  BY <1>1, FS_Subset, FS_CardinalityType
<1>3. T \subseteq Nat /\ T # {}
  BY <1>1, <1>2
<1>4. PICK c \in Costs : \A d \in Costs : Cardinality(Dearer(c)) <= Cardinality(Dearer(d))
  <2>1. PICK x \in T : \A y \in T : x <= y
    BY <1>3, LeastExists
  <2> QED
    BY <2>1
<1>5. ASSUME NEW d \in Costs, d > c PROVE FALSE
  <2>1. d \in Dearer(c) /\ d \notin Dearer(d) /\ Dearer(d) \subseteq Dearer(c)
    <3>1. c \in Nat /\ d \in Nat /\ Costs \subseteq Nat
      BY <1>1
    <3>2. \A e \in Costs : e > d => e > c
      BY <3>1, <1>5
    <3>3. ~(d > d)
      BY <3>1
    <3> QED
      BY <1>5, <3>2, <3>3
  <2>2. IsFiniteSet(Dearer(c)) /\ Cardinality(Dearer(c)) <= Cardinality(Dearer(d))
    BY <1>2, <1>4
  <2>3. Cardinality(Dearer(c)) \in Nat /\ Cardinality(Dearer(d)) \in Nat
    BY <1>2
  <2> HIDE DEF Dearer
  <2>4. /\ Cardinality(Dearer(d)) <= Cardinality(Dearer(c))
        /\ Cardinality(Dearer(c)) = Cardinality(Dearer(d)) => Dearer(c) = Dearer(d)
    BY <2>1, <2>2, FS_Subset
  <2> QED
    BY <2>1, <2>2, <2>3, <2>4
<1>6. \A d \in Costs : d <= c
  BY <1>1, <1>5
<1> QED
  BY <1>6 DEF Dearest

\* Induction up to n, for a set.
LEMMA UpTo ==
    ASSUME NEW n \in Nat, NEW T, 0 \in T, \A i \in 1 .. n : i - 1 \in T => i \in T
    PROVE  \A i \in 0 .. n : i \in T
<1> DEFINE Out == {i \in 0 .. n : i \notin T}
<1> SUFFICES ASSUME Out # {} PROVE FALSE
  OBVIOUS
<1>1. Out \subseteq Nat
  OBVIOUS
<1>2. PICK i \in Out : \A j \in Out : i <= j
  BY <1>1, LeastExists
<1>3. i \in 0 .. n /\ i \notin T
  BY <1>2
<1>4. i # 0
  BY <1>3
<1>5. i \in 1 .. n /\ i - 1 \in 0 .. n /\ ~(i <= i - 1)
  BY <1>3, <1>4
<1>6. i - 1 \in T
  BY <1>2, <1>5
<1> QED
  BY <1>3, <1>5, <1>6

-----------------------------------------------------------------------------
(* Consecutive segments.                                                    *)

\* The segments after a, up to b.
Interval(a, b) == [i \in 1 .. (b - a) |-> a + i]

LEMMA IntervalType ==
    ASSUME NEW a \in Nat, NEW b \in Nat, a <= b
    PROVE  /\ Interval(a, b) \in Seq(Nat)
           /\ Len(Interval(a, b)) = b - a
           /\ DOMAIN Interval(a, b) = 1 .. (b - a)
           /\ \A i \in 1 .. (b - a) : Interval(a, b)[i] = a + i
BY DEF Interval

LEMMA IntervalJoin ==
    ASSUME NEW a \in Nat, NEW b \in Nat, NEW c \in Nat, a <= b, b <= c
    PROVE  Interval(a, b) \o Interval(b, c) = Interval(a, c)
<1> DEFINE s == Interval(a, b)
           t == Interval(b, c)
           u == Interval(a, c)
<1>1. s \in Seq(Nat) /\ Len(s) = b - a /\ \A i \in 1 .. (b - a) : s[i] = a + i
  BY IntervalType
<1>2. t \in Seq(Nat) /\ Len(t) = c - b /\ \A i \in 1 .. (c - b) : t[i] = b + i
  BY IntervalType
<1>3. u \in Seq(Nat) /\ Len(u) = c - a /\ \A i \in 1 .. (c - a) : u[i] = a + i
  <2>1. a <= c
    OBVIOUS
  <2> HIDE DEF u
  <2>2. Interval(a, c) \in Seq(Nat) /\ Len(Interval(a, c)) = c - a /\ \A i \in 1 .. (c - a) : Interval(a, c)[i] = a + i
    BY <2>1, IntervalType
  <2> QED
    BY <2>2 DEF u
<1> HIDE DEF s, t, u
<1>4. s \o t \in Seq(Nat) /\ Len(s \o t) = c - a
  <2>1. s \o t \in Seq(Nat) /\ Len(s \o t) = Len(s) + Len(t)
    BY <1>1, <1>2, ConcatProperties
  <2>2. (b - a) + (c - b) = c - a
    OBVIOUS
  <2> QED
    BY <1>1, <1>2, <2>1, <2>2
<1>5. ASSUME NEW i \in 1 .. (c - a) PROVE (s \o t)[i] = a + i
  <2>1. CASE i <= b - a
    BY <1>1, <1>2, <2>1
  <2>2. CASE ~(i <= b - a)
    <3>1. i - (b - a) \in 1 .. (c - b)
      BY <2>2
    <3>2. t[i - (b - a)] = a + i
      BY <3>1, <1>2
    <3> QED
      BY <1>1, <1>2, <2>2, <3>2
  <2> QED
    BY <2>1, <2>2
<1>6. s \o t = u
  BY <1>3, <1>4, <1>5, SeqEqual
<1> QED
  BY <1>6 DEF s, t, u

LEMMA IntervalPart ==
    ASSUME NEW a \in Nat, NEW b \in Nat, a <= b, NEW m \in Nat, NEW n \in Nat, m <= n, n <= b - a
    PROVE  SubSeq(Interval(a, b), m + 1, n) = Interval(a + m, a + n)
<1> DEFINE s == Interval(a, b)
           t == SubSeq(s, m + 1, n)
           u == Interval(a + m, a + n)
<1>1. s \in Seq(Nat) /\ Len(s) = b - a /\ \A i \in 1 .. (b - a) : s[i] = a + i
  BY IntervalType
<1>2. u \in Seq(Nat) /\ Len(u) = n - m /\ \A i \in 1 .. (n - m) : u[i] = a + m + i
  <2>1. a + m \in Nat /\ a + n \in Nat /\ a + m <= a + n /\ (a + n) - (a + m) = n - m
    OBVIOUS
  <2> QED
    BY <2>1, IntervalType
<1> HIDE DEF s, u
<1>3. \A i \in (m + 1) .. n : s[i] \in Nat
  BY <1>1
<1>4. t \in Seq(Nat) /\ Len(t) = n - m /\ \A i \in 1 .. (n - m) : t[i] = s[m + i]
  BY <1>1
<1>5. ASSUME NEW i \in 1 .. (n - m) PROVE t[i] = u[i]
  <2>1. m + i \in 1 .. (b - a)
    OBVIOUS
  <2>2. s[m + i] = a + (m + i)
    BY <1>1, <2>1
  <2> QED
    BY <1>2, <1>4, <2>2
<1> HIDE DEF t
<1>6. t = u
  BY <1>2, <1>4, <1>5, SeqEqual
<1> QED
  BY <1>6 DEF s, t, u

LEMMA NumbersPart ==
    ASSUME NEW b \in Nat, NEW m \in Nat, NEW n \in Nat, m <= n, n <= b
    PROVE  SubSeq(Interval(0, b), m + 1, n) = Interval(m, n)
<1>1. ASSUME NEW a \in Nat, a = 0 PROVE SubSeq(Interval(a, b), m + 1, n) = Interval(m, n)
  <2>1. a <= b /\ n <= b - a /\ a + m = m /\ a + n = n
    BY <1>1
  <2>2. SubSeq(Interval(a, b), m + 1, n) = Interval(a + m, a + n)
    BY <2>1, IntervalPart, Zenon
  <2> QED
    BY <2>1, <2>2
<1> QED
  BY <1>1

LEMMA NumbersInterval == \A n \in Nat : Numbers(n) = Interval(0, n)
BY DEF Numbers, Interval

\* ss cuts the segments after a, up to b, into pieces, none of them empty.
CutsAt(ss, end) == \A i \in 1 .. Len(ss) : end[i - 1] < end[i] /\ ss[i] = Interval(end[i - 1], end[i])
Consecutive(ss, a, b) ==
    /\ ss \in Seq(Seq(Nat))
    /\ \E end \in [0 .. Len(ss) -> Nat] : end[0] = a /\ end[Len(ss)] = b /\ CutsAt(ss, end)

\* The cuts are in order.
LEMMA CutsInOrder ==
    ASSUME NEW n \in Nat, NEW end \in [0 .. n -> Nat], \A i \in 1 .. n : end[i - 1] < end[i]
    PROVE  \A i \in 0 .. n : end[0] + i <= end[i]
<1> DEFINE T == {i \in 0 .. n : end[0] + i <= end[i]}
<1>1. 0 \in T
  <2>1. 0 \in 0 .. n /\ end[0] \in Nat
    OBVIOUS
  <2> QED
    BY <2>1
<1>2. ASSUME NEW i \in 1 .. n, i - 1 \in T PROVE i \in T
  <2>1. i \in 0 .. n /\ i - 1 \in 0 .. n /\ 0 \in 0 .. n
    OBVIOUS
  <2>2. end[0] \in Nat /\ end[i - 1] \in Nat /\ end[i] \in Nat
    BY <2>1
  <2>3. end[0] + (i - 1) <= end[i - 1] /\ end[i - 1] < end[i]
    BY <1>2
  <2> QED
    BY <2>1, <2>2, <2>3
<1>3. \A i \in 0 .. n : i \in T
  <2> HIDE DEF T
  <2> QED
    BY <1>1, <1>2, UpTo
<1> QED
  BY <1>3

LEMMA CutsAtEnds ==
    ASSUME NEW ss \in Seq(Seq(Nat)), NEW end \in [0 .. Len(ss) -> Nat], CutsAt(ss, end)
    PROVE  /\ Len(ss) \in Nat
           /\ \A i \in 1 .. Len(ss) : end[i - 1] < end[i]
           /\ \A i \in 0 .. Len(ss) : end[0] + i <= end[i]
<1>1. Len(ss) \in Nat
  OBVIOUS
<1>2. \A i \in 1 .. Len(ss) : end[i - 1] < end[i]
  BY DEF CutsAt
<1> QED
  BY <1>1, <1>2, CutsInOrder

LEMMA ConsecutiveLength ==
    ASSUME NEW a \in Nat, NEW b \in Nat, NEW ss, Consecutive(ss, a, b)
    PROVE  a + Len(ss) <= b /\ Len(ss) \in Nat /\ (ss = <<>> <=> a = b) /\ ss \in Seq(Seq(Nat))
<1>1. ss \in Seq(Seq(Nat))
  BY DEF Consecutive
<1>2. PICK end \in [0 .. Len(ss) -> Nat] : end[0] = a /\ end[Len(ss)] = b /\ CutsAt(ss, end)
  BY DEF Consecutive
<1>3. Len(ss) \in Nat /\ \A i \in 0 .. Len(ss) : a + i <= end[i]
  BY <1>1, <1>2, CutsAtEnds
<1>4. a + Len(ss) <= b
  BY <1>2, <1>3
<1>5. ss = <<>> <=> Len(ss) = 0
  BY <1>1
<1>6. Len(ss) = 0 => a = b
  BY <1>2
<1> QED
  BY <1>1, <1>3, <1>4, <1>5, <1>6

\* Putting the pieces together again.
LEMMA FlattenConsecutive ==
    ASSUME NEW a \in Nat, NEW b \in Nat, NEW ss, Consecutive(ss, a, b)
    PROVE  FlattenSeq(ss) = Interval(a, b)
<1>1. Len(ss) \in Nat /\ a + Len(ss) <= b /\ (ss = <<>> <=> a = b) /\ ss \in Seq(Seq(Nat))
  BY ConsecutiveLength
<1>2. CASE ss = <<>>
  <2>1. Interval(a, b) = <<>>
    BY <1>1, <1>2 DEF Interval
  <2> QED
    BY <1>2, <2>1 DEF FlattenSeq
<1>3. CASE ss # <<>>
  <2>1. PICK end \in [0 .. Len(ss) -> Nat] : end[0] = a /\ end[Len(ss)] = b /\ CutsAt(ss, end)
    BY DEF Consecutive
  <2> DEFINE Rule(f) == f = [i \in 1 .. Len(ss) |-> IF i = 1 THEN ss[i] ELSE f[i - 1] \o ss[i]]
             whole == [i \in 1 .. Len(ss) |-> Interval(a, end[i])]
             flatten == CHOOSE f : Rule(f)
  <2>2. FlattenSeq(ss) = flatten[Len(ss)]
    BY <1>3 DEF FlattenSeq
  <2>3. ASSUME NEW i \in 1 .. Len(ss)
        PROVE  /\ i - 1 \in 0 .. Len(ss) /\ i \in 0 .. Len(ss)
               /\ end[i - 1] \in Nat /\ end[i] \in Nat /\ end[i - 1] < end[i]
               /\ ss[i] = Interval(end[i - 1], end[i])
               /\ a <= end[i - 1]
    <3>1. i - 1 \in 0 .. Len(ss) /\ i \in 0 .. Len(ss)
      BY <1>1
    <3>2. end[i - 1] \in Nat /\ end[i] \in Nat
      BY <2>1, <3>1
    <3>3. end[i - 1] < end[i] /\ ss[i] = Interval(end[i - 1], end[i])
      BY <2>1 DEF CutsAt
    <3>4. a + (i - 1) <= end[i - 1]
      BY <1>1, <2>1, <3>1, CutsAtEnds
    <3> QED
      BY <3>1, <3>2, <3>3, <3>4
  <2>4. ASSUME NEW i \in 1 .. Len(ss)
        PROVE  Interval(a, end[i]) = IF i = 1 THEN ss[i] ELSE Interval(a, end[i - 1]) \o ss[i]
    <3>1. CASE i = 1
      BY <2>1, <2>3, <3>1
    <3>2. CASE i # 1
      <4>1. a <= end[i - 1] /\ end[i - 1] <= end[i] /\ end[i - 1] \in Nat /\ end[i] \in Nat
        BY <2>3
      <4>2. Interval(a, end[i - 1]) \o Interval(end[i - 1], end[i]) = Interval(a, end[i])
        BY <4>1, IntervalJoin
      <4> QED
        BY <2>3, <3>2, <4>2
    <3> QED
      BY <3>1, <3>2
  <2>5. Rule(whole)
    <3>1. ASSUME NEW i \in 1 .. Len(ss), i # 1 PROVE whole[i - 1] = Interval(a, end[i - 1])
      <4>1. i - 1 \in 1 .. Len(ss)
        BY <1>1, <3>1
      <4> QED
        BY <4>1
    <3>2. ASSUME NEW i \in 1 .. Len(ss)
          PROVE  whole[i] = IF i = 1 THEN ss[i] ELSE whole[i - 1] \o ss[i]
      BY <2>4, <3>1
    <3>3. DOMAIN whole = 1 .. Len(ss)
      OBVIOUS
    <3>4. whole = [i \in 1 .. Len(ss) |-> whole[i]]
      OBVIOUS
    <3> HIDE DEF whole
    <3> QED
      BY <3>2, <3>4
  <2>6. Rule(flatten)
    <3> HIDE DEF Rule, whole
    <3> QED
      BY <2>5
  <2> DEFINE T == {i \in 0 .. Len(ss) : i = 0 \/ flatten[i] = whole[i]}
  <2>7. 0 \in T
    BY <1>1
  <2>8. ASSUME NEW i \in 1 .. Len(ss), i - 1 \in T PROVE i \in T
    <3>1. i = 1 \/ flatten[i - 1] = whole[i - 1]
      BY <2>8
    <3>2. flatten[i] = IF i = 1 THEN ss[i] ELSE flatten[i - 1] \o ss[i]
      <4> HIDE DEF flatten
      <4> QED
        BY <2>6
    <3>3. whole[i] = IF i = 1 THEN ss[i] ELSE whole[i - 1] \o ss[i]
      <4> HIDE DEF whole
      <4> QED
        BY <2>5
    <3> HIDE DEF flatten, whole
    <3>4. flatten[i] = whole[i]
      BY <3>1, <3>2, <3>3
    <3> QED
      BY <2>3, <3>4
  <2>9. Len(ss) \in 1 .. Len(ss) /\ Len(ss) \in 0 .. Len(ss) /\ Len(ss) # 0
    BY <1>1, <1>3
  <2>10. Len(ss) \in T
    <3> HIDE DEF T
    <3> QED
      BY <1>1, <2>7, <2>8, <2>9, UpTo
  <2>11. flatten[Len(ss)] = whole[Len(ss)]
    <3> HIDE DEF flatten, whole
    <3> QED
      BY <2>9, <2>10
  <2>12. whole[Len(ss)] = Interval(a, b)
    BY <2>1, <2>9
  <2> HIDE DEF flatten, whole
  <2> QED
    BY <2>2, <2>11, <2>12
<1> QED
  BY <1>2, <1>3

LEMMA ConsecutiveNone == ASSUME NEW a \in Nat PROVE Consecutive(<<>>, a, a)
<1> DEFINE end == [i \in 0 .. 0 |-> a]
<1>1. end \in [0 .. Len(<<>>) -> Nat] /\ end[0] = a /\ end[Len(<<>>)] = a /\ CutsAt(<<>>, end)
  BY DEF CutsAt
<1> HIDE DEF end
<1> QED
  BY <1>1 DEF Consecutive

LEMMA ConsecutiveOne ==
    ASSUME NEW a \in Nat, NEW b \in Nat, a < b
    PROVE  Consecutive(<<Interval(a, b)>>, a, b)
<1> DEFINE ss == <<Interval(a, b)>>
           end == [i \in 0 .. 1 |-> IF i = 0 THEN a ELSE b]
<1>1. Interval(a, b) \in Seq(Nat)
  BY IntervalType
<1>2. ss \in Seq(Seq(Nat)) /\ Len(ss) = 1 /\ ss[1] = Interval(a, b)
  BY <1>1
<1>3. end \in [0 .. 1 -> Nat] /\ end[0] = a /\ end[1] = b
  OBVIOUS
<1> HIDE DEF end, ss
<1>4. CutsAt(ss, end)
  BY <1>2, <1>3 DEF CutsAt
<1>5. Consecutive(ss, a, b)
  BY <1>2, <1>3, <1>4 DEF Consecutive
<1> QED
  BY <1>5 DEF ss

LEMMA ConsecutiveJoin ==
    ASSUME NEW a \in Nat, NEW b \in Nat, NEW c \in Nat,
           NEW s, NEW t, Consecutive(s, a, b), Consecutive(t, b, c)
    PROVE  Consecutive(s \o t, a, c)
<1>1. s \in Seq(Seq(Nat)) /\ t \in Seq(Seq(Nat)) /\ Len(s) \in Nat /\ Len(t) \in Nat
  BY DEF Consecutive
<1>2. PICK e \in [0 .. Len(s) -> Nat] : e[0] = a /\ e[Len(s)] = b /\ CutsAt(s, e)
  BY DEF Consecutive
<1>3. PICK f \in [0 .. Len(t) -> Nat] : f[0] = b /\ f[Len(t)] = c /\ CutsAt(t, f)
  BY DEF Consecutive
<1> DEFINE ss == s \o t
           end == [i \in 0 .. Len(s) + Len(t) |-> IF i <= Len(s) THEN e[i] ELSE f[i - Len(s)]]
<1>4. ss \in Seq(Seq(Nat)) /\ Len(ss) = Len(s) + Len(t)
  BY <1>1, ConcatProperties
<1>5. ASSUME NEW i \in 1 .. Len(s) + Len(t)
      PROVE  ss[i] = IF i <= Len(s) THEN s[i] ELSE t[i - Len(s)]
  BY <1>1
<1>6. end \in [0 .. Len(ss) -> Nat]
  <2> SUFFICES ASSUME NEW i \in 0 .. Len(s) + Len(t) PROVE end[i] \in Nat
    BY <1>4
  <2>1. CASE i <= Len(s)
    BY <1>1, <2>1
  <2>2. CASE ~(i <= Len(s))
    <3>1. i - Len(s) \in 0 .. Len(t)
      BY <1>1, <2>2
    <3> QED
      BY <2>2, <3>1
  <2> QED
    BY <2>1, <2>2
<1>7. \A i \in 0 .. Len(s) : end[i] = e[i]
  BY <1>1
<1>8. ASSUME NEW i \in 0 .. Len(t) PROVE end[Len(s) + i] = f[i]
  <2>1. Len(s) + i \in 0 .. Len(s) + Len(t) /\ (Len(s) + i) - Len(s) = i
    BY <1>1
  <2>2. CASE i = 0
    BY <1>1, <1>2, <1>3, <1>7, <2>2
  <2>3. CASE i # 0
    BY <1>1, <2>1, <2>3
  <2> QED
    BY <2>2, <2>3
<1> HIDE DEF end, ss
<1>9. ASSUME NEW i \in 1 .. Len(ss) PROVE end[i - 1] < end[i] /\ ss[i] = Interval(end[i - 1], end[i])
  <2>1. CASE i <= Len(s)
    <3>1. i \in 1 .. Len(s) /\ i \in 0 .. Len(s) /\ i - 1 \in 0 .. Len(s)
      BY <1>1, <2>1
    <3>2. end[i] = e[i] /\ end[i - 1] = e[i - 1] /\ ss[i] = s[i]
      BY <1>4, <1>5, <1>7, <2>1, <3>1
    <3> QED
      BY <1>2, <3>1, <3>2 DEF CutsAt
  <2>2. CASE ~(i <= Len(s))
    <3> DEFINE j == i - Len(s)
    <3>1. j \in 1 .. Len(t) /\ j \in 0 .. Len(t) /\ j - 1 \in 0 .. Len(t)
          /\ Len(s) + j = i /\ Len(s) + (j - 1) = i - 1
      BY <1>1, <1>4, <2>2
    <3>2. ss[i] = t[j]
      BY <1>4, <1>5, <2>2
    <3> HIDE DEF j
    <3>3. end[i] = f[j] /\ end[i - 1] = f[j - 1]
      BY <1>8, <3>1
    <3> QED
      BY <1>3, <3>1, <3>2, <3>3 DEF CutsAt
  <2> QED
    BY <2>1, <2>2
<1>10. end[0] = a /\ end[Len(ss)] = c
  <2>1. 0 \in 0 .. Len(s) /\ Len(t) \in 0 .. Len(t)
    BY <1>1
  <2> QED
    BY <1>2, <1>3, <1>4, <1>7, <1>8, <2>1
<1>11. CutsAt(ss, end)
  BY <1>9 DEF CutsAt
<1>12. Consecutive(ss, a, c)
  BY <1>4, <1>6, <1>10, <1>11 DEF Consecutive
<1> QED
  BY <1>12 DEF ss

LEMMA ConsecutiveTail ==
    ASSUME NEW a \in Nat, NEW b \in Nat, NEW ss, Consecutive(ss, a, b), ss # <<>>
    PROVE  \E c \in Nat : /\ a < c /\ c <= b
                          /\ Head(ss) = Interval(a, c)
                          /\ Consecutive(Tail(ss), c, b)
<1>1. ss \in Seq(Seq(Nat)) /\ Len(ss) \in Nat \ {0}
  BY DEF Consecutive
<1>2. PICK e \in [0 .. Len(ss) -> Nat] : e[0] = a /\ e[Len(ss)] = b /\ CutsAt(ss, e)
  BY DEF Consecutive
<1> DEFINE t == Tail(ss)
           end == [i \in 0 .. Len(ss) - 1 |-> e[i + 1]]
<1>3. t \in Seq(Seq(Nat)) /\ Len(t) = Len(ss) - 1 /\ \A i \in 1 .. Len(t) : t[i] = ss[i + 1]
  BY <1>1
<1>4. ASSUME NEW i \in 0 .. Len(ss) - 1 PROVE i + 1 \in 0 .. Len(ss) /\ end[i] = e[i + 1]
  BY <1>1
<1>5. end \in [0 .. Len(t) -> Nat]
  BY <1>3, <1>4
<1>6. 0 \in 0 .. Len(ss) - 1 /\ Len(ss) - 1 \in 0 .. Len(ss) - 1 /\ (Len(ss) - 1) + 1 = Len(ss)
  BY <1>1
<1>7. end[0] = e[1] /\ end[Len(ss) - 1] = b
  BY <1>2, <1>4, <1>6
<1> HIDE DEF t, end
<1>8. ASSUME NEW i \in 1 .. Len(t) PROVE end[i - 1] < end[i] /\ t[i] = Interval(end[i - 1], end[i])
  <2>1. i \in 0 .. Len(ss) - 1 /\ i - 1 \in 0 .. Len(ss) - 1 /\ (i - 1) + 1 = i
        /\ i + 1 \in 1 .. Len(ss) /\ (i + 1) - 1 = i
    BY <1>1, <1>3
  <2>2. end[i] = e[i + 1] /\ end[i - 1] = e[i] /\ t[i] = ss[i + 1]
    BY <1>3, <1>4, <2>1
  <2>3. e[(i + 1) - 1] < e[i + 1] /\ ss[i + 1] = Interval(e[(i + 1) - 1], e[i + 1])
    BY <1>2, <2>1 DEF CutsAt
  <2> QED
    BY <2>1, <2>2, <2>3
<1>9. CutsAt(t, end)
  BY <1>8 DEF CutsAt
<1>10. e[1] \in Nat /\ a < e[1] /\ ss[1] = Interval(a, e[1])
  <2>1. 1 \in 1 .. Len(ss) /\ 1 - 1 = 0 /\ 1 \in 0 .. Len(ss)
    BY <1>1
  <2> QED
    BY <1>2, <2>1 DEF CutsAt
<1>11. Consecutive(t, e[1], b)
  BY <1>3, <1>5, <1>7, <1>9 DEF Consecutive
<1>12. e[1] + Len(t) <= b
  BY <1>10, <1>11, ConsecutiveLength
<1>13. e[1] <= b
  BY <1>1, <1>3, <1>10, <1>12
<1>14. Head(ss) = ss[1]
  BY <1>1
<1> QED
  BY <1>10, <1>11, <1>13, <1>14 DEF t

-----------------------------------------------------------------------------
(* Batches, their halves and their turns.                                   *)

LEMMA PairJoin ==
    ASSUME NEW S, NEW x \in S, NEW y \in S
    PROVE  <<x>> \o <<y>> = <<x, y>>
<1> DEFINE s == <<x>>
           t == <<y>>
           u == <<x, y>>
<1>1. s \in Seq(S) /\ Len(s) = 1 /\ s[1] = x
  OBVIOUS
<1>2. t \in Seq(S) /\ Len(t) = 1 /\ t[1] = y
  OBVIOUS
<1>3. u \in Seq(S) /\ Len(u) = 2 /\ u[1] = x /\ u[2] = y
  OBVIOUS
<1> HIDE DEF s, t, u
<1>4. s \o t \in Seq(S) /\ Len(s \o t) = 2 /\ (s \o t)[1] = x /\ (s \o t)[2] = y
  BY <1>1, <1>2, ConcatProperties
<1>5. \A i \in 1 .. 2 : (s \o t)[i] = u[i]
  BY <1>3, <1>4
<1>6. s \o t = u
  BY <1>3, <1>4, <1>5, SeqEqual
<1> QED
  BY <1>6 DEF s, t, u

\* A batch of two segments or more has two halves.
LEMMA HalvesConsecutive ==
    ASSUME NEW a \in Nat, NEW c \in Nat, a + 2 <= c
    PROVE  Consecutive(Halves(Interval(a, c)), a, c) /\ Len(Halves(Interval(a, c))) = 2
<1> DEFINE m == (c - a) \div 2
<1>1. m \in Nat /\ 1 <= m /\ m <= c - a - 1
  OBVIOUS
<1>2. Len(Interval(a, c)) = c - a
  BY IntervalType
<1> HIDE DEF m
<1>3. SubSeq(Interval(a, c), 1, m) = Interval(a, a + m)
  <2>1. 0 \in Nat /\ 0 <= m /\ m <= c - a /\ a <= c
    BY <1>1
  <2>2. SubSeq(Interval(a, c), 0 + 1, m) = Interval(a + 0, a + m)
    BY <1>1, <2>1, IntervalPart, Zenon
  <2> QED
    BY <2>2
<1>4. SubSeq(Interval(a, c), m + 1, c - a) = Interval(a + m, c)
  <2>1. c - a \in Nat /\ m <= c - a /\ a + (c - a) = c /\ a <= c /\ c - a <= c - a
    BY <1>1
  <2>2. SubSeq(Interval(a, c), m + 1, c - a) = Interval(a + m, a + (c - a))
    BY <1>1, <2>1, IntervalPart, Zenon
  <2> QED
    BY <2>1, <2>2
<1>5. Halves(Interval(a, c)) = <<Interval(a, a + m), Interval(a + m, c)>>
  BY <1>2, <1>3, <1>4 DEF Halves, m
<1>6. a + m \in Nat /\ a < a + m /\ a + m < c
  BY <1>1
<1>7. Consecutive(<<Interval(a, a + m)>>, a, a + m) /\ Consecutive(<<Interval(a + m, c)>>, a + m, c)
  BY <1>6, ConsecutiveOne
<1>8. Consecutive(<<Interval(a, a + m)>> \o <<Interval(a + m, c)>>, a, c)
  BY <1>6, <1>7, ConsecutiveJoin
<1>9. <<Interval(a, a + m)>> \o <<Interval(a + m, c)>> = <<Interval(a, a + m), Interval(a + m, c)>>
  <2> DEFINE x == Interval(a, a + m)
             y == Interval(a + m, c)
  <2>1. x \in Seq(Nat) /\ y \in Seq(Nat)
    BY <1>6, IntervalType
  <2> HIDE DEF x, y
  <2>2. <<x>> \o <<y>> = <<x, y>>
    BY <2>1, PairJoin
  <2> QED
    BY <2>2 DEF x, y
<1> QED
  BY <1>5, <1>8, <1>9

\* The batches of the analysis are the segments in their order.
LEMMA BatchesConsecutive ==
    Consecutive(Batches, 0, NumSegments) /\ Len(Batches) \in Nat
<1> DEFINE N == NumSegments
           B == BatchSize
           K == (N + B - 1) \div B
           end == [k \in 0 .. K |-> Smaller(k * B, N)]
<1>1. N \in Nat \ {0} /\ B \in Nat \ {0}
  BY SizesAssumption
<1>2. K \in Nat /\ K * B <= N + B - 1 /\ N <= K * B
  <2>1. \A x \in Nat, b \in Nat \ {0} : x \div b \in Nat /\ (x \div b) * b <= x /\ x < (x \div b) * b + b
    OBVIOUS
  <2>2. N + B - 1 \in Nat
    BY <1>1
  <2>3. K \in Nat /\ K * B <= N + B - 1 /\ N + B - 1 < K * B + B
    BY <1>1, <2>1, <2>2
  <2> HIDE DEF K
  <2>4. K * B \in Nat
    BY <1>1, <2>3
  <2> QED
    BY <1>1, <2>3, <2>4
<1>3. Batches = [k \in 1 .. K |-> SubSeq(Numbers(N), (k - 1) * B + 1, Smaller(k * B, N))]
  BY DEF Batches
<1> HIDE DEF K, N, B
<1>4. Len(Batches) = K /\ DOMAIN Batches = 1 .. K
  BY <1>2, <1>3
<1>5. ASSUME NEW k \in 1 .. K
      PROVE  /\ k - 1 \in 0 .. K /\ k \in 0 .. K
             /\ (k - 1) * B \in Nat /\ k * B \in Nat
             /\ (k - 1) * B < N /\ (k - 1) * B < k * B
  <2>1. k \in Nat /\ k - 1 \in Nat /\ k - 1 \in 0 .. K /\ k \in 0 .. K
    BY <1>2
  <2>2. (k - 1) * B \in Nat /\ k * B \in Nat /\ K * B \in Nat
    BY <1>1, <1>2, <2>1
  <2>3. k * B = (k - 1) * B + B
    BY <1>1, <2>1
  <2>4. k * B <= K * B
    BY <1>1, <1>2, <2>1
  <2> QED
    BY <1>1, <1>2, <2>1, <2>2, <2>3, <2>4
<1>6. ASSUME NEW k \in 0 .. K PROVE end[k] \in Nat
  <2>1. k * B \in Nat
    BY <1>1, <1>2
  <2> QED
    BY <1>1, <2>1 DEF Smaller
<1>7. ASSUME NEW k \in 1 .. K
      PROVE  /\ end[k - 1] = (k - 1) * B
             /\ end[k] = Smaller(k * B, N)
             /\ Smaller(k * B, N) \in Nat
             /\ (k - 1) * B < Smaller(k * B, N) /\ Smaller(k * B, N) <= N
  <2>1. end[k - 1] = Smaller((k - 1) * B, N) /\ end[k] = Smaller(k * B, N)
    BY <1>5
  <2> QED
    BY <1>1, <1>5, <2>1 DEF Smaller
<1>8. end[0] = 0 /\ end[K] = N
  <2>1. 0 \in 0 .. K /\ K \in 0 .. K /\ K * B \in Nat /\ 0 * B = 0
    BY <1>1, <1>2
  <2>2. Smaller(0, N) = 0 /\ Smaller(K * B, N) = N
    BY <1>1, <1>2, <2>1 DEF Smaller
  <2> QED
    BY <2>1, <2>2
<1>9. end \in [0 .. K -> Nat]
  BY <1>6
<1> HIDE DEF end
<1>10. ASSUME NEW k \in 1 .. K
       PROVE  Batches[k] = Interval(end[k - 1], end[k]) /\ Batches[k] \in Seq(Nat)
  <2> DEFINE x == (k - 1) * B
             y == Smaller(k * B, N)
  <2>1. Numbers(N) = Interval(0, N)
    BY <1>1, NumbersInterval
  <2>2. Batches[k] = SubSeq(Interval(0, N), x + 1, y)
    BY <1>3, <2>1
  <2>3. x \in Nat /\ y \in Nat /\ x < y /\ y <= N /\ x <= y /\ N \in Nat /\ end[k - 1] = x /\ end[k] = y
    BY <1>1, <1>5, <1>7
  <2> HIDE DEF x, y
  <2>4. SubSeq(Interval(0, N), x + 1, y) = Interval(x, y)
    BY <2>3, NumbersPart, Zenon
  <2>5. Batches[k] = Interval(x, y)
    BY <2>2, <2>4
  <2>6. Interval(x, y) \in Seq(Nat)
    BY <2>3, IntervalType
  <2> QED
    BY <2>3, <2>5, <2>6
<1>11. Batches \in Seq(Seq(Nat))
  <2>1. Batches = [k \in 1 .. K |-> Batches[k]]
    BY <1>3
  <2>2. \A k \in 1 .. K : Batches[k] \in Seq(Nat)
    BY <1>10
  <2>3. Batches \in [1 .. K -> Seq(Nat)]
    BY <2>1, <2>2
  <2> QED
    BY <1>2, <2>3, SeqDef
<1>12. CutsAt(Batches, end)
  <2> SUFFICES ASSUME NEW k \in 1 .. K
               PROVE  end[k - 1] < end[k] /\ Batches[k] = Interval(end[k - 1], end[k])
    BY <1>4 DEF CutsAt
  <2> QED
    BY <1>7, <1>10
<1>13. Consecutive(Batches, 0, N)
  BY <1>4, <1>8, <1>9, <1>11, <1>12 DEF Consecutive
<1> QED
  BY <1>2, <1>4, <1>13 DEF N

\* The segments of turns.
TurnSet == [segments : Seq(Nat), validated : BOOLEAN]
Segments(turns) == [i \in DOMAIN turns |-> turns[i].segments]

LEMMA SegmentsType ==
    ASSUME NEW s \in Seq(TurnSet)
    PROVE  /\ Segments(s) \in Seq(Seq(Nat))
           /\ Len(Segments(s)) = Len(s)
           /\ \A i \in 1 .. Len(s) : Segments(s)[i] = s[i].segments
<1>1. Len(s) \in Nat /\ DOMAIN s = 1 .. Len(s) /\ \A i \in 1 .. Len(s) : s[i] \in TurnSet
  OBVIOUS
<1>2. Segments(s) = [i \in 1 .. Len(s) |-> s[i].segments]
  BY <1>1 DEF Segments
<1>3. \A i \in 1 .. Len(s) : s[i].segments \in Seq(Nat)
  BY <1>1 DEF TurnSet
<1>4. Segments(s) \in [1 .. Len(s) -> Seq(Nat)]
  BY <1>2, <1>3
<1>5. Segments(s) \in Seq(Seq(Nat))
  BY <1>1, <1>4, SeqDef
<1>6. Len(Segments(s)) = Len(s)
  BY <1>1, <1>4, <1>5
<1> QED
  BY <1>2, <1>5, <1>6

LEMMA SegmentsJoin ==
    ASSUME NEW s \in Seq(TurnSet), NEW t \in Seq(TurnSet)
    PROVE  /\ Segments(s \o t) = Segments(s) \o Segments(t)
           /\ Segments(s) \in Seq(Seq(Nat))
<1>1. /\ Segments(s) \in Seq(Seq(Nat)) /\ Len(Segments(s)) = Len(s)
      /\ \A i \in 1 .. Len(s) : Segments(s)[i] = s[i].segments
  BY SegmentsType
<1>2. /\ Segments(t) \in Seq(Seq(Nat)) /\ Len(Segments(t)) = Len(t)
      /\ \A i \in 1 .. Len(t) : Segments(t)[i] = t[i].segments
  BY SegmentsType
<1> DEFINE u == s \o t
<1>3. u \in Seq(TurnSet) /\ Len(u) = Len(s) + Len(t)
  BY ConcatProperties
<1>4. \A i \in 1 .. Len(s) + Len(t) : u[i] = IF i <= Len(s) THEN s[i] ELSE t[i - Len(s)]
  OBVIOUS
<1> HIDE DEF u
<1>5. /\ Segments(u) \in Seq(Seq(Nat)) /\ Len(Segments(u)) = Len(u)
      /\ \A i \in 1 .. Len(u) : Segments(u)[i] = u[i].segments
  BY <1>3, SegmentsType
<1> DEFINE v == Segments(s) \o Segments(t)
<1>6. v \in Seq(Seq(Nat)) /\ Len(v) = Len(Segments(s)) + Len(Segments(t))
  BY <1>1, <1>2, ConcatProperties
<1>7. \A i \in 1 .. Len(Segments(s)) + Len(Segments(t)) :
          v[i] = IF i <= Len(Segments(s)) THEN Segments(s)[i] ELSE Segments(t)[i - Len(Segments(s))]
  BY <1>1, <1>2
<1> HIDE DEF v
<1>8. Len(s) \in Nat /\ Len(t) \in Nat
  OBVIOUS
<1>9. ASSUME NEW i \in 1 .. Len(u) PROVE Segments(u)[i] = v[i]
  <2>1. CASE i <= Len(s)
    <3>1. i \in 1 .. Len(s)
      BY <1>3, <1>8, <2>1
    <3>2. Segments(u)[i] = s[i].segments
      BY <1>3, <1>4, <1>5, <2>1
    <3>3. v[i] = Segments(s)[i]
      BY <1>1, <1>2, <1>3, <1>7, <2>1
    <3> QED
      BY <1>1, <3>1, <3>2, <3>3
  <2>2. CASE ~(i <= Len(s))
    <3>1. i - Len(s) \in 1 .. Len(t)
      BY <1>3, <1>8, <2>2
    <3>2. Segments(u)[i] = t[i - Len(s)].segments
      BY <1>3, <1>4, <1>5, <2>2
    <3>3. v[i] = Segments(t)[i - Len(s)]
      BY <1>1, <1>2, <1>3, <1>7, <2>2
    <3> QED
      BY <1>2, <3>1, <3>2, <3>3
  <2> QED
    BY <2>1, <2>2
<1>10. Segments(u) = v
  BY <1>1, <1>2, <1>3, <1>5, <1>6, <1>9, SeqEqual
<1> QED
  BY <1>1, <1>10 DEF u, v

LEMMA SegmentsOne ==
    ASSUME NEW x \in TurnSet
    PROVE  <<x>> \in Seq(TurnSet) /\ Segments(<<x>>) = <<x.segments>>
<1>1. <<x>> \in Seq(TurnSet)
  OBVIOUS
<1>2. DOMAIN <<x>> = {1} /\ <<x>>[1] = x
  OBVIOUS
<1>3. Segments(<<x>>) = [i \in {1} |-> x.segments]
  BY <1>2 DEF Segments
<1>4. <<x.segments>> = [i \in {1} |-> x.segments]
  OBVIOUS
<1> QED
  BY <1>1, <1>3, <1>4

\* A grouping of a batch has its segments in their order.
LEMMA GroupingConsecutive ==
    ASSUME NEW a \in Nat, NEW c \in Nat, a <= c,
           NEW grouping \in Groupings(Interval(a, c))
    PROVE  grouping \in Seq(TurnSet) /\ Consecutive(Segments(grouping), a, c)
<1> DEFINE batch == Interval(a, c)
<1>1. Len(batch) = c - a
  BY IntervalType
<1>2. PICK k \in 0 .. c - a : \E cut \in [0 .. k -> 0 .. c - a] :
         /\ cut[0] = 0 /\ cut[k] = c - a /\ \A i \in 1 .. k : cut[i - 1] < cut[i]
         /\ grouping = [i \in 1 .. k |-> Turn(batch, cut[i - 1] + 1, cut[i])]
  <2> HIDE DEF batch
  <2>1. grouping \in Groupings(batch)
    BY DEF batch
  <2> DEFINE Cuts(k) == {cut \in [0 .. k -> 0 .. Len(batch)] :
                            cut[0] = 0 /\ cut[k] = Len(batch) /\ \A i \in 1 .. k : cut[i - 1] < cut[i]}
             Turns(k, cut) == [i \in 1 .. k |-> Turn(batch, cut[i - 1] + 1, cut[i])]
  <2>2. Groupings(batch) = UNION {{Turns(k, cut) : cut \in Cuts(k)} : k \in 0 .. Len(batch)}
    BY DEF Groupings
  <2>3. PICK k \in 0 .. Len(batch) : \E cut \in Cuts(k) : grouping = Turns(k, cut)
    <3> HIDE DEF Cuts, Turns
    <3> QED
      BY <2>1, <2>2
  <2>4. PICK cut \in Cuts(k) : grouping = Turns(k, cut)
    BY <2>3
  <2>5. cut \in [0 .. k -> 0 .. Len(batch)]
    BY <2>4
  <2>6. cut[0] = 0 /\ cut[k] = Len(batch) /\ \A i \in 1 .. k : cut[i - 1] < cut[i]
    BY <2>4
  <2> QED
    BY <1>1, <2>3, <2>4, <2>5, <2>6
<1>3. PICK cut \in [0 .. k -> 0 .. c - a] :
         /\ cut[0] = 0 /\ cut[k] = c - a /\ \A i \in 1 .. k : cut[i - 1] < cut[i]
         /\ grouping = [i \in 1 .. k |-> Turn(batch, cut[i - 1] + 1, cut[i])]
  BY <1>2
<1> DEFINE end == [i \in 0 .. k |-> a + cut[i]]
           ss == Segments(grouping)
<1>4. k \in Nat /\ 0 \in 0 .. k /\ k \in 0 .. k
  OBVIOUS
<1>5. ASSUME NEW i \in 1 .. k
      PROVE  /\ i \in 0 .. k /\ i - 1 \in 0 .. k
             /\ SubSeq(batch, cut[i - 1] + 1, cut[i]) = Interval(end[i - 1], end[i])
             /\ Interval(end[i - 1], end[i]) \in Seq(Nat)
             /\ end[i - 1] < end[i]
  <2>1. i \in 0 .. k /\ i - 1 \in 0 .. k
    OBVIOUS
  <2>2. /\ cut[i - 1] \in Nat /\ cut[i] \in Nat /\ cut[i] <= c - a
        /\ cut[i - 1] < cut[i] /\ cut[i - 1] <= cut[i]
    BY <1>3, <2>1
  <2>3. end[i - 1] = a + cut[i - 1] /\ end[i] = a + cut[i]
    BY <2>1
  <2> HIDE DEF end
  <2>4. SubSeq(batch, cut[i - 1] + 1, cut[i]) = Interval(a + cut[i - 1], a + cut[i])
    BY <2>2, IntervalPart, Zenon
  <2>5. end[i - 1] \in Nat /\ end[i] \in Nat /\ end[i - 1] < end[i] /\ end[i - 1] <= end[i]
    BY <2>2, <2>3
  <2>6. Interval(end[i - 1], end[i]) \in Seq(Nat)
    BY <2>5, IntervalType
  <2> QED
    BY <2>1, <2>3, <2>4, <2>5, <2>6
<1>6. end \in [0 .. k -> Nat] /\ end[0] = a /\ end[k] = c
  BY <1>3, <1>4
<1> HIDE DEF end
<1>7. ASSUME NEW i \in 1 .. k
      PROVE  grouping[i] \in TurnSet /\ grouping[i].segments = Interval(end[i - 1], end[i])
  BY <1>3, <1>5 DEF Turn, TurnSet
<1>8. DOMAIN grouping = 1 .. k /\ grouping = [i \in 1 .. k |-> grouping[i]]
  BY <1>3
<1>9. grouping \in Seq(TurnSet)
  <2>1. grouping \in [1 .. k -> TurnSet]
    BY <1>7, <1>8
  <2> QED
    BY <1>4, <2>1, SeqDef
<1>10. ss \in Seq(Seq(Nat))
  BY <1>9, SegmentsJoin
<1>11. Len(ss) = k /\ \A i \in 1 .. k : ss[i] = Interval(end[i - 1], end[i])
  BY <1>4, <1>7, <1>8, <1>10 DEF Segments
<1> HIDE DEF ss
<1>12. CutsAt(ss, end)
  BY <1>5, <1>11 DEF CutsAt
<1>13. Consecutive(ss, a, c)
  BY <1>6, <1>10, <1>11, <1>12 DEF Consecutive
<1> QED
  BY <1>9, <1>13 DEF ss

-----------------------------------------------------------------------------
(* An analysis.                                                             *)

\* done batches have been answered or given up on, and make up the first n segments; each
\* bisection has added one batch.
AnalysedUpTo(todo, turns, calls, usages, n, done) ==
    /\ Consecutive(Segments(turns), 0, n)
    /\ Consecutive(todo, n, NumSegments)
    /\ calls = Len(todo) + 2 * done - Len(Batches)
    /\ usages \in 0 .. done
Analysed(todo, turns, calls, usages) ==
    \E n \in 0 .. NumSegments : \E done \in 0 .. n : AnalysedUpTo(todo, turns, calls, usages, n, done)

LEMMA AnalysisBegins == Analysed(Batches, <<>>, 0, 0)
<1>1. Segments(<<>>) = <<>>
  <2>1. DOMAIN <<>> = {}
    OBVIOUS
  <2>2. Segments(<<>>) = [i \in {} |-> <<>>]
    BY <2>1 DEF Segments
  <2>3. <<>> = [i \in {} |-> <<>>]
    BY <2>1
  <2> QED
    BY <2>2, <2>3
<1>2. Consecutive(Segments(<<>>), 0, 0)
  BY <1>1, ConsecutiveNone
<1>3. Consecutive(Batches, 0, NumSegments) /\ Len(Batches) \in Nat
  BY BatchesConsecutive
<1>4. 0 = Len(Batches) + 2 * 0 - Len(Batches)
  BY <1>3
<1>5. 0 \in 0 .. NumSegments /\ 0 \in 0 .. 0
  BY SizesAssumption
<1>6. AnalysedUpTo(Batches, <<>>, 0, 0, 0, 0)
  BY <1>2, <1>3, <1>4, <1>5 DEF AnalysedUpTo
<1> QED
  BY <1>5, <1>6 DEF Analysed

\* The next batch becomes turns.
LEMMA AnalysisGoesOn ==
    ASSUME NEW todo, NEW turns \in Seq(TurnSet), NEW calls, NEW usages,
           Analysed(todo, turns, calls, usages), todo # <<>>,
           NEW more \in Seq(TurnSet),
           \A a, c \in Nat : a < c /\ Head(todo) = Interval(a, c) => Consecutive(Segments(more), a, c),
           NEW d \in 0 .. 1
    PROVE  Analysed(Tail(todo), turns \o more, calls + 1, usages + d)
<1>1. NumSegments \in Nat /\ Len(Batches) \in Nat
  BY SizesAssumption, BatchesConsecutive
<1>2. PICK n \in 0 .. NumSegments : \E done \in 0 .. n : AnalysedUpTo(todo, turns, calls, usages, n, done)
  BY DEF Analysed
<1>3. PICK done \in 0 .. n : AnalysedUpTo(todo, turns, calls, usages, n, done)
  BY <1>2
<1>4. n \in Nat /\ done \in Nat
  BY <1>1
<1>5. Consecutive(Segments(turns), 0, n) /\ Consecutive(todo, n, NumSegments)
  BY <1>3 DEF AnalysedUpTo
<1>6. PICK c \in Nat : /\ n < c /\ c <= NumSegments /\ Head(todo) = Interval(n, c)
                       /\ Consecutive(Tail(todo), c, NumSegments)
  BY <1>1, <1>4, <1>5, ConsecutiveTail
<1>7. Consecutive(Segments(more), n, c)
  BY <1>4, <1>6
<1>8. Consecutive(Segments(turns) \o Segments(more), 0, c)
  <2>1. 0 \in Nat
    OBVIOUS
  <2> QED
    BY <1>4, <1>5, <1>6, <1>7, <2>1, ConsecutiveJoin
<1>9. Consecutive(Segments(turns \o more), 0, c)
  BY <1>8, SegmentsJoin
<1>10. todo \in Seq(Seq(Nat)) /\ Len(todo) \in Nat
  BY <1>1, <1>4, <1>5, ConsecutiveLength
<1>11. Len(Tail(todo)) = Len(todo) - 1
  BY <1>10
<1>12. calls = Len(todo) + 2 * done - Len(Batches) /\ usages \in 0 .. done
  BY <1>3 DEF AnalysedUpTo
<1>13. calls + 1 = Len(Tail(todo)) + 2 * (done + 1) - Len(Batches) /\ usages + d \in 0 .. done + 1
  BY <1>1, <1>4, <1>10, <1>11, <1>12
<1>14. AnalysedUpTo(Tail(todo), turns \o more, calls + 1, usages + d, c, done + 1)
  BY <1>6, <1>9, <1>13 DEF AnalysedUpTo
<1>15. c \in 0 .. NumSegments /\ done + 1 \in 0 .. c
  BY <1>1, <1>4, <1>6
<1> QED
  BY <1>14, <1>15 DEF Analysed

\* The next batch is halved.
LEMMA AnalysisHalves ==
    ASSUME NEW todo, NEW turns, NEW calls, NEW usages,
           Analysed(todo, turns, calls, usages), todo # <<>>, Len(Head(todo)) # 1
    PROVE  Analysed(Halves(Head(todo)) \o Tail(todo), turns, calls + 1, usages)
<1>1. NumSegments \in Nat /\ Len(Batches) \in Nat
  BY SizesAssumption, BatchesConsecutive
<1>2. PICK n \in 0 .. NumSegments : \E done \in 0 .. n : AnalysedUpTo(todo, turns, calls, usages, n, done)
  BY DEF Analysed
<1>3. PICK done \in 0 .. n : AnalysedUpTo(todo, turns, calls, usages, n, done)
  BY <1>2
<1>4. n \in Nat /\ done \in Nat
  BY <1>1
<1>5. Consecutive(Segments(turns), 0, n) /\ Consecutive(todo, n, NumSegments)
  BY <1>3 DEF AnalysedUpTo
<1>6. PICK c \in Nat : /\ n < c /\ c <= NumSegments /\ Head(todo) = Interval(n, c)
                       /\ Consecutive(Tail(todo), c, NumSegments)
  BY <1>1, <1>4, <1>5, ConsecutiveTail
<1>7. n + 2 <= c
  <2>1. n <= c
    BY <1>4, <1>6
  <2>2. Len(Interval(n, c)) = c - n
    BY <1>4, <2>1, IntervalType
  <2> QED
    BY <1>4, <1>6, <2>2
<1> DEFINE next == Halves(Head(todo)) \o Tail(todo)
<1>8. Consecutive(Halves(Head(todo)), n, c) /\ Len(Halves(Head(todo))) = 2
  BY <1>4, <1>6, <1>7, HalvesConsecutive
<1>9. Consecutive(next, n, NumSegments)
  BY <1>1, <1>4, <1>6, <1>8, ConsecutiveJoin
<1>10. /\ todo \in Seq(Seq(Nat)) /\ Len(todo) \in Nat
       /\ Halves(Head(todo)) \in Seq(Seq(Nat)) /\ Tail(todo) \in Seq(Seq(Nat))
  BY <1>1, <1>4, <1>5, <1>6, <1>8, ConsecutiveLength
<1>11. Len(Tail(todo)) = Len(todo) - 1 /\ Len(next) = 2 + Len(Tail(todo))
  <2>1. Len(Tail(todo)) = Len(todo) - 1
    BY <1>10
  <2>2. Len(next) = Len(Halves(Head(todo))) + Len(Tail(todo))
    BY <1>10, ConcatProperties
  <2> QED
    BY <1>8, <2>1, <2>2
<1>12. calls = Len(todo) + 2 * done - Len(Batches) /\ usages \in 0 .. done
  BY <1>3 DEF AnalysedUpTo
<1> HIDE DEF next
<1>13. calls + 1 = Len(next) + 2 * done - Len(Batches)
  BY <1>1, <1>4, <1>10, <1>11, <1>12
<1>14. AnalysedUpTo(next, turns, calls + 1, usages, n, done)
  BY <1>5, <1>9, <1>12, <1>13 DEF AnalysedUpTo
<1>15. Analysed(next, turns, calls + 1, usages)
  BY <1>14 DEF Analysed
<1> QED
  BY <1>15 DEF next

\* What an analysis has at any time.
LEMMA AnalysisKeeps ==
    ASSUME NEW todo, NEW turns, NEW calls, NEW usages, Analysed(todo, turns, calls, usages)
    PROVE  /\ FlattenSeq(Segments(turns)) \o FlattenSeq(todo) = Numbers(NumSegments)
           /\ todo \in Seq(Seq(Nat))
           /\ calls \in Int /\ calls <= 2 * NumSegments - Len(Batches)
           /\ usages \in 0 .. NumSegments
<1>1. NumSegments \in Nat /\ Len(Batches) \in Nat
  BY SizesAssumption, BatchesConsecutive
<1>2. PICK n \in 0 .. NumSegments : \E done \in 0 .. n : AnalysedUpTo(todo, turns, calls, usages, n, done)
  BY DEF Analysed
<1>3. PICK done \in 0 .. n : AnalysedUpTo(todo, turns, calls, usages, n, done)
  BY <1>2
<1>4. n \in Nat /\ done \in Nat /\ done <= n /\ n <= NumSegments /\ 0 \in Nat /\ 0 <= n
  BY <1>1
<1>5. /\ Consecutive(Segments(turns), 0, n) /\ Consecutive(todo, n, NumSegments)
      /\ calls = Len(todo) + 2 * done - Len(Batches)
      /\ usages \in 0 .. done
  BY <1>3 DEF AnalysedUpTo
<1>6. FlattenSeq(Segments(turns)) = Interval(0, n) /\ FlattenSeq(todo) = Interval(n, NumSegments)
  BY <1>1, <1>4, <1>5, FlattenConsecutive
<1>7. Interval(0, n) \o Interval(n, NumSegments) = Interval(0, NumSegments)
  BY <1>1, <1>4, IntervalJoin
<1>8. Numbers(NumSegments) = Interval(0, NumSegments)
  BY <1>1, NumbersInterval
<1>9. todo \in Seq(Seq(Nat)) /\ Len(todo) \in Nat /\ n + Len(todo) <= NumSegments
  BY <1>1, <1>4, <1>5, ConsecutiveLength
<1>10. calls \in Int /\ calls <= 2 * NumSegments - Len(Batches)
  BY <1>1, <1>4, <1>5, <1>9
<1>11. usages \in 0 .. NumSegments
  BY <1>1, <1>4, <1>5
<1> QED
  BY <1>6, <1>7, <1>8, <1>9, <1>10, <1>11

-----------------------------------------------------------------------------
(* A cleanup.                                                               *)

RowSet == [id : Nat, blank : BOOLEAN]
Ids(rows) == {row.id : row \in rows}

LEMMA ImageFinite ==
    ASSUME NEW S, IsFiniteSet(S), NEW f
    PROVE  IsFiniteSet({f[x] : x \in S}) /\ Cardinality({f[x] : x \in S}) <= Cardinality(S)
<1> DEFINE T == {f[x] : x \in S}
           g == [x \in S |-> f[x]]
<1>1. g \in Surjection(S, T)
  BY DEF Surjection
<1> HIDE DEF T, g
<1>2. IsFiniteSet(T) /\ Cardinality(T) <= Cardinality(S)
  BY <1>1, FS_Surjection
<1> QED
  BY <1>2 DEF T

\* Rows that are complete: one for every chunk of the batch, with its id.
LEMMA CompleteRows ==
    ASSUME NEW batch, NEW D, IsFiniteSet(D), NEW kept, DOMAIN kept = D,
           \A n \in D : kept[n] \in RowSet /\ ~kept[n].blank,
           NEW m \in Nat, Len(batch) = m, IsFiniteSet(Range(batch)), Cardinality(Range(batch)) = m,
           Complete(batch, kept)
    PROVE  /\ Range(kept) \subseteq RowSet
           /\ IsFiniteSet(Range(kept)) /\ Cardinality(Range(kept)) = m
           /\ Ids(Range(kept)) = Range(batch)
           /\ \A row \in Range(kept) : ~row.blank
<1>1. Ids(Range(kept)) = Range(batch) /\ Cardinality(D) = m
  BY DEF Complete, Ids
<1>2. Range(kept) = {kept[n] : n \in D}
  BY DEF Range
<1>3. IsFiniteSet(Range(kept)) /\ Cardinality(Range(kept)) <= m
  BY <1>1, <1>2, ImageFinite
<1> DEFINE id == [row \in Range(kept) |-> row.id]
<1>4. Ids(Range(kept)) = {id[row] : row \in Range(kept)}
  BY DEF Ids
<1>5. Cardinality(Range(batch)) <= Cardinality(Range(kept))
  <2> HIDE DEF id
  <2> QED
    BY <1>1, <1>3, <1>4, ImageFinite
<1>6. Cardinality(Range(kept)) = m
  BY <1>3, <1>5, FS_CardinalityType
<1>7. \A row \in Range(kept) : row \in RowSet /\ ~row.blank
  BY <1>2
<1> QED
  BY <1>1, <1>3, <1>6, <1>7

LEMMA KeptRows ==
    ASSUME NEW batch \in Seq(Nat), NEW rows \in AnswersUpTo(Row, NumChunks + 1)
    PROVE  /\ IsFiniteSet(DOMAIN Kept(batch, rows))
           /\ \A n \in DOMAIN Kept(batch, rows) :
                 Kept(batch, rows)[n] \in RowSet /\ ~Kept(batch, rows)[n].blank
<1>1. NumChunks \in Nat \ {0}
  BY SizesAssumption
<1>2. PICK k \in 0 .. NumChunks + 1 : rows \in [1 .. k -> Row]
  BY DEF AnswersUpTo
<1>3. IsFiniteSet(1 .. k)
  BY <1>1, FS_Interval
<1>4. \A n \in 1 .. k : rows[n] \in RowSet
  BY <1>1, <1>2 DEF Row, RowSet
<1>5. CASE Len(batch) = 1 /\ rows # <<>>
  <2> DEFINE D == {n \in {1} : ~rows[n].blank}
             kept == [n \in D |-> [rows[n] EXCEPT !.id = batch[1]]]
  <2>1. Kept(batch, rows) = kept
    BY <1>5 DEF Kept
  <2>2. IsFiniteSet({1})
    BY FS_Singleton
  <2>3. IsFiniteSet(D)
    BY <2>2, FS_Subset
  <2>4. 1 \in 1 .. k
    <3>1. k # 0
      <4> SUFFICES ASSUME k = 0 PROVE FALSE
        OBVIOUS
      <4>1. rows \in [{} -> Row]
        <5>1. 1 .. k = {}
          OBVIOUS
        <5> QED
          BY <1>2, <5>1
      <4>2. rows = <<>>
        BY <4>1
      <4> QED
        BY <1>5, <4>2
    <3> QED
      BY <1>1, <1>2, <3>1
  <2>5. batch[1] \in Nat
    <3>1. 1 \in 1 .. Len(batch)
      BY <1>5
    <3> QED
      BY <3>1, ElementOfSeq
  <2>6. \A n \in D : kept[n] \in RowSet /\ ~kept[n].blank
    BY <1>4, <2>4, <2>5 DEF RowSet
  <2> QED
    BY <2>1, <2>3, <2>6
<1>6. CASE ~(Len(batch) = 1 /\ rows # <<>>)
  <2> DEFINE D == {n \in DOMAIN rows : rows[n].id \in Range(batch) /\ ~rows[n].blank}
  <2>1. Kept(batch, rows) = [n \in D |-> rows[n]]
    BY <1>6 DEF Kept
  <2>2. D \subseteq 1 .. k
    BY <1>2
  <2>3. IsFiniteSet(D)
    BY <1>3, <2>2, FS_Subset
  <2>4. \A n \in D : rows[n] \in RowSet /\ ~rows[n].blank
    BY <1>4, <2>2
  <2> HIDE DEF D
  <2> QED
    BY <2>1, <2>3, <2>4
<1> QED
  BY <1>5, <1>6

\* Chunks that are sent alone, after the first k.
Alone(k) == [i \in 1 .. NumChunks - k |-> <<k + i>>]

\* k chunks have been cleaned: the first ones, each with one text.
CleanedUpTo(todo, cleaned, calls, usages, k) ==
    /\ cleaned \subseteq RowSet /\ IsFiniteSet(cleaned) /\ Cardinality(cleaned) = k
    /\ Ids(cleaned) = 1 .. k
    /\ \A row \in cleaned : ~row.blank
    /\ usages \in 0 .. k
    /\ \/ calls = 0 /\ k = 0 /\ todo = <<Numbers(NumChunks)>>
       \/ calls \in 1 .. k + 1 /\ todo = Alone(k)
CleanedSoFar(todo, cleaned, calls, usages) ==
    \E k \in 0 .. NumChunks : CleanedUpTo(todo, cleaned, calls, usages, k)

LEMMA AloneType ==
    ASSUME NEW k \in 0 .. NumChunks
    PROVE  /\ Alone(k) \in Seq(Seq(Nat)) /\ Len(Alone(k)) = NumChunks - k
           /\ k = NumChunks <=> Alone(k) = <<>>
           /\ k < NumChunks => Head(Alone(k)) = <<k + 1>> /\ Tail(Alone(k)) = Alone(k + 1)
<1>1. NumChunks \in Nat
  BY SizesAssumption
<1>2. k \in Nat /\ NumChunks - k \in Nat
  BY <1>1
<1>3. Alone(k) \in [1 .. NumChunks - k -> Seq(Nat)]
  <2>1. \A i \in 1 .. NumChunks - k : k + i \in Nat
    BY <1>2
  <2>2. \A i \in 1 .. NumChunks - k : <<k + i>> \in Seq(Nat)
    BY <2>1
  <2> QED
    BY <2>2 DEF Alone
<1>4. Alone(k) \in Seq(Seq(Nat))
  BY <1>2, <1>3, SeqDef
<1>5. Len(Alone(k)) = NumChunks - k
  BY <1>2, <1>3, <1>4
<1>6. k = NumChunks <=> Alone(k) = <<>>
  BY <1>1, <1>2, <1>4, <1>5
<1>7. ASSUME k < NumChunks PROVE Head(Alone(k)) = <<k + 1>> /\ Tail(Alone(k)) = Alone(k + 1)
  <2>1. 1 \in 1 .. NumChunks - k
    BY <1>1, <1>2, <1>7
  <2>2. Alone(k)[1] = <<k + 1>>
    BY <2>1 DEF Alone
  <2>3. Head(Alone(k)) = Alone(k)[1]
    BY <1>4
  <2> DEFINE t == Tail(Alone(k))
             u == Alone(k + 1)
  <2>4. t \in Seq(Seq(Nat)) /\ Len(t) = NumChunks - k - 1 /\ \A i \in 1 .. NumChunks - k - 1 : t[i] = Alone(k)[i + 1]
    <3>1. Alone(k) # <<>>
      BY <1>1, <1>2, <1>6, <1>7
    <3> QED
      BY <1>2, <1>4, <1>5, <3>1
  <2>5. \A i \in 1 .. NumChunks - k - 1 : i + 1 \in 1 .. NumChunks - k /\ k + (i + 1) = k + 1 + i
    BY <1>2
  <2>6. \A i \in 1 .. NumChunks - k - 1 : Alone(k)[i + 1] = <<k + 1 + i>>
    BY <2>5 DEF Alone
  <2>7. NumChunks - (k + 1) = NumChunks - k - 1 /\ NumChunks - k - 1 \in Nat
    BY <1>1, <1>2, <1>7
  <2>8. u = [i \in 1 .. NumChunks - k - 1 |-> <<k + 1 + i>>]
    BY <2>7 DEF Alone
  <2>9. u \in [1 .. NumChunks - k - 1 -> Seq(Nat)]
    <3>1. \A i \in 1 .. NumChunks - k - 1 : k + 1 + i \in Nat
      BY <1>2
    <3>2. \A i \in 1 .. NumChunks - k - 1 : <<k + 1 + i>> \in Seq(Nat)
      BY <3>1
    <3> QED
      BY <2>8, <3>2
  <2>10. u \in Seq(Seq(Nat))
    BY <2>7, <2>9, SeqDef
  <2>11. Len(u) = NumChunks - k - 1 /\ \A i \in 1 .. NumChunks - k - 1 : u[i] = <<k + 1 + i>>
    BY <2>7, <2>8, <2>9, <2>10
  <2> HIDE DEF t, u
  <2>12. \A i \in 1 .. Len(t) : t[i] = u[i]
    BY <2>4, <2>6, <2>11
  <2>13. t = u
    BY <2>4, <2>10, <2>11, <2>12, SeqEqual
  <2> QED
    BY <2>2, <2>3, <2>13 DEF t, u
<1> QED
  BY <1>4, <1>5, <1>6, <1>7

LEMMA CleanupBegins == CleanedSoFar(<<Numbers(NumChunks)>>, {}, 0, 0)
<1>1. IsFiniteSet({}) /\ Cardinality({}) = 0
  BY FS_EmptySet
<1>2. Ids({}) = 1 .. 0
  BY DEF Ids
<1>3. 0 \in 0 .. NumChunks /\ 0 \in 0 .. 0
  BY SizesAssumption
<1>4. CleanedUpTo(<<Numbers(NumChunks)>>, {}, 0, 0, 0)
  BY <1>1, <1>2, <1>3 DEF CleanedUpTo
<1> QED
  BY <1>3, <1>4 DEF CleanedSoFar

LEMMA CleanupOneByOne ==
    ASSUME NEW todo, NEW cleaned, NEW usages, CleanedSoFar(todo, cleaned, 0, usages)
    PROVE  CleanedSoFar([i \in 1 .. NumChunks |-> <<i>>], cleaned, 1, usages)
<1>1. NumChunks \in Nat
  BY SizesAssumption
<1>2. PICK k \in 0 .. NumChunks : CleanedUpTo(todo, cleaned, 0, usages, k)
  BY DEF CleanedSoFar
<1>3. k = 0
  BY <1>2 DEF CleanedUpTo
<1>4. [i \in 1 .. NumChunks |-> <<i>>] = Alone(k)
  <2>1. NumChunks - k = NumChunks /\ \A i \in 1 .. NumChunks : k + i = i
    BY <1>1, <1>3
  <2> QED
    BY <2>1 DEF Alone
<1>5. 1 \in 1 .. k + 1
  BY <1>3
<1>6. CleanedUpTo([i \in 1 .. NumChunks |-> <<i>>], cleaned, 1, usages, k)
  BY <1>2, <1>4, <1>5 DEF CleanedUpTo
<1> QED
  BY <1>6 DEF CleanedSoFar

\* Complete rows about the next batch.
LEMMA CleanupGoesOn ==
    ASSUME NEW todo, NEW cleaned, NEW calls, NEW usages,
           CleanedSoFar(todo, cleaned, calls, usages), todo # <<>>,
           NEW rows \in AnswersUpTo(Row, NumChunks + 1), Complete(Head(todo), Kept(Head(todo), rows))
    PROVE  CleanedSoFar(Tail(todo), cleaned \cup Range(Kept(Head(todo), rows)), calls + 1, usages + 1)
<1>1. NumChunks \in Nat \ {0}
  BY SizesAssumption
<1>2. PICK k \in 0 .. NumChunks : CleanedUpTo(todo, cleaned, calls, usages, k)
  BY DEF CleanedSoFar
<1>3. k \in Nat /\ usages \in 0 .. k
  BY <1>1, <1>2 DEF CleanedUpTo
<1> DEFINE batch == Head(todo)
           kept == Kept(batch, rows)
           more == Range(kept)
<1>4. ASSUME batch \in Seq(Nat), NEW m \in Nat, Len(batch) = m, NEW n \in Nat, Range(batch) = n + 1 .. n + m
      PROVE  /\ more \subseteq RowSet /\ IsFiniteSet(more) /\ Cardinality(more) = m
             /\ Ids(more) = n + 1 .. n + m
             /\ \A row \in more : ~row.blank
  <2>1. IsFiniteSet(DOMAIN kept) /\ \A i \in DOMAIN kept : kept[i] \in RowSet /\ ~kept[i].blank
    BY <1>4, KeptRows
  <2>2. IsFiniteSet(Range(batch)) /\ Cardinality(Range(batch)) = m
    <3>1. n + 1 \in Int /\ n + m \in Int /\ (IF n + 1 > n + m THEN 0 ELSE (n + m) - (n + 1) + 1) = m
      BY <1>4
    <3> QED
      BY <1>4, <3>1, FS_Interval
  <2>3. Complete(batch, kept)
    OBVIOUS
  <2> HIDE DEF batch, kept
  <2>4. /\ more \subseteq RowSet /\ IsFiniteSet(more) /\ Cardinality(more) = m
        /\ Ids(more) = Range(batch)
        /\ \A row \in more : ~row.blank
    BY <1>4, <2>1, <2>2, <2>3, CompleteRows
  <2> QED
    BY <1>4, <2>4
<1>5. CASE calls = 0 /\ k = 0 /\ todo = <<Numbers(NumChunks)>>
  <2>1. batch = Numbers(NumChunks) /\ Tail(todo) = <<>>
    BY <1>5
  <2>2. batch \in Seq(Nat) /\ Len(batch) = NumChunks /\ Range(batch) = 0 + 1 .. 0 + NumChunks
    BY <1>1, <2>1 DEF Numbers, Range
  <2>3. /\ more \subseteq RowSet /\ IsFiniteSet(more) /\ Cardinality(more) = NumChunks
        /\ Ids(more) = 1 .. NumChunks
        /\ \A row \in more : ~row.blank
    <3> HIDE DEF batch, more
    <3>1. Ids(more) = 0 + 1 .. 0 + NumChunks /\ 0 \in Nat /\ NumChunks \in Nat
      BY <1>1, <1>4, <2>2
    <3>2. 0 + 1 .. 0 + NumChunks = 1 .. NumChunks
      BY <1>1
    <3> QED
      BY <1>4, <2>2, <3>1, <3>2
  <2>4. cleaned = {}
    <3>1. IsFiniteSet(cleaned) /\ Cardinality(cleaned) = 0
      BY <1>2, <1>5 DEF CleanedUpTo
    <3> QED
      BY <3>1, FS_EmptySet
  <2>5. usages + 1 \in 0 .. NumChunks /\ calls + 1 \in 1 .. NumChunks + 1
    BY <1>1, <1>3, <1>5
  <2>6. NumChunks \in 0 .. NumChunks
    BY <1>1
  <2>7. Alone(NumChunks) = <<>>
    BY <2>6, AloneType
  <2>8. CleanedUpTo(Tail(todo), more, calls + 1, usages + 1, NumChunks)
    <3> HIDE DEF more
    <3> QED
      BY <2>1, <2>3, <2>5, <2>7 DEF CleanedUpTo
  <2>9. cleaned \cup more = more
    BY <2>4
  <2> QED
    BY <2>6, <2>8, <2>9 DEF CleanedSoFar
<1>6. CASE calls \in 1 .. k + 1 /\ todo = Alone(k)
  <2>1. k < NumChunks /\ k + 1 \in 0 .. NumChunks
    <3>1. k # NumChunks
      BY <1>6, AloneType
    <3> QED
      BY <1>1, <1>3, <3>1
  <2>2. batch = <<k + 1>> /\ Tail(todo) = Alone(k + 1)
    BY <1>6, <2>1, AloneType
  <2>3. batch \in Seq(Nat) /\ Len(batch) = 1 /\ Range(batch) = k + 1 .. k + 1
    <3>1. batch = <<k + 1>> /\ k + 1 \in Nat
      BY <1>3, <2>2
    <3> HIDE DEF batch
    <3>2. batch \in Seq(Nat) /\ Len(batch) = 1
      BY <3>1
    <3>3. DOMAIN batch = {1} /\ batch[1] = k + 1
      BY <3>1
    <3>4. Range(batch) = {k + 1}
      BY <3>3 DEF Range
    <3>5. k + 1 .. k + 1 = {k + 1}
      BY <1>3
    <3> QED
      BY <3>2, <3>4, <3>5
  <2>4. /\ more \subseteq RowSet /\ IsFiniteSet(more) /\ Cardinality(more) = 1
        /\ Ids(more) = k + 1 .. k + 1
        /\ \A row \in more : ~row.blank
    <3> HIDE DEF batch, more
    <3> QED
      BY <1>3, <1>4, <2>3
  <2>5. /\ cleaned \subseteq RowSet /\ IsFiniteSet(cleaned) /\ Cardinality(cleaned) = k
        /\ Ids(cleaned) = 1 .. k
        /\ \A row \in cleaned : ~row.blank
    BY <1>2 DEF CleanedUpTo
  <2> HIDE DEF more
  <2> DEFINE all == cleaned \cup more
  <2>6. cleaned \cap more = {}
    <3> SUFFICES ASSUME NEW row \in cleaned, row \in more PROVE FALSE
      OBVIOUS
    <3>1. row.id \in 1 .. k /\ row.id \in k + 1 .. k + 1
      BY <2>4, <2>5 DEF Ids
    <3> QED
      BY <1>3, <3>1
  <2>7. IsFiniteSet(all) /\ Cardinality(all) = k + 1
    <3>1. IsFiniteSet(all) /\ Cardinality(all) = Cardinality(cleaned) + Cardinality(more) - Cardinality(cleaned \cap more)
      BY <2>4, <2>5, FS_Union
    <3>2. Cardinality(cleaned \cap more) = 0
      BY <2>6, FS_EmptySet
    <3> QED
      BY <1>3, <2>4, <2>5, <3>1, <3>2
  <2>8. Ids(all) = 1 .. k + 1
    <3>1. Ids(all) = Ids(cleaned) \cup Ids(more)
      BY DEF Ids
    <3>2. (1 .. k) \cup (k + 1 .. k + 1) = 1 .. k + 1
      BY <1>3
    <3> QED
      BY <2>4, <2>5, <3>1, <3>2
  <2>9. all \subseteq RowSet /\ \A row \in all : ~row.blank
    BY <2>4, <2>5
  <2>10. calls + 1 \in 1 .. (k + 1) + 1 /\ usages + 1 \in 0 .. k + 1
    BY <1>3, <1>6
  <2> HIDE DEF all
  <2>11. CleanedUpTo(Tail(todo), all, calls + 1, usages + 1, k + 1)
    BY <2>2, <2>7, <2>8, <2>9, <2>10 DEF CleanedUpTo
  <2>12. CleanedSoFar(Tail(todo), all, calls + 1, usages + 1)
    BY <2>1, <2>11 DEF CleanedSoFar
  <2> QED
    BY <2>12 DEF all, more
<1> QED
  BY <1>2, <1>5, <1>6 DEF CleanedUpTo

\* What a cleanup has at any time.
LEMMA CleanupKeeps ==
    ASSUME NEW todo, NEW cleaned, NEW calls, NEW usages, CleanedSoFar(todo, cleaned, calls, usages)
    PROVE  /\ todo \in Seq(Seq(Nat)) /\ cleaned \subseteq RowSet
           /\ calls \in 0 .. NumChunks + 1
           /\ usages \in 0 .. NumChunks
           /\ todo = <<>> => /\ Cardinality(cleaned) = NumChunks
                             /\ \A c \in 1 .. NumChunks : \E row \in cleaned : row.id = c /\ ~row.blank
<1>1. NumChunks \in Nat \ {0}
  BY SizesAssumption
<1>2. PICK k \in 0 .. NumChunks : CleanedUpTo(todo, cleaned, calls, usages, k)
  BY DEF CleanedSoFar
<1>3. /\ cleaned \subseteq RowSet /\ Cardinality(cleaned) = k
      /\ Ids(cleaned) = 1 .. k /\ \A row \in cleaned : ~row.blank
      /\ usages \in 0 .. k
  BY <1>2 DEF CleanedUpTo
<1>4. usages \in 0 .. NumChunks
  BY <1>1, <1>3
<1>5. CASE calls = 0 /\ k = 0 /\ todo = <<Numbers(NumChunks)>>
  <2>1. Numbers(NumChunks) \in Seq(Nat)
    BY <1>1 DEF Numbers
  <2>2. todo \in Seq(Seq(Nat)) /\ todo # <<>>
    BY <1>5, <2>1
  <2> QED
    BY <1>1, <1>3, <1>4, <1>5, <2>2
<1>6. CASE calls \in 1 .. k + 1 /\ todo = Alone(k)
  <2>1. todo \in Seq(Seq(Nat)) /\ (todo = <<>> => k = NumChunks)
    BY <1>6, AloneType
  <2>2. calls \in 0 .. NumChunks + 1
    BY <1>1, <1>6
  <2>3. ASSUME todo = <<>>, NEW c \in 1 .. NumChunks PROVE \E row \in cleaned : row.id = c /\ ~row.blank
    <3>1. c \in Ids(cleaned)
      BY <1>3, <2>1, <2>3
    <3> QED
      BY <1>3, <3>1 DEF Ids
  <2> QED
    BY <1>3, <1>4, <2>1, <2>2, <2>3
<1> QED
  BY <1>2, <1>5, <1>6 DEF CleanedUpTo

-----------------------------------------------------------------------------
(* The local variables of a task.                                           *)

Names == {"openai", "gemini"}
TaskType ==
    [kind : {"none", "analysis", "cleanup"}, pc : {"idle", "calling"}, provider : Names,
     todo : Seq(Seq(Nat)), turns : Seq(TurnSet), cleaned : SUBSET RowSet,
     usages : Nat, usage : Nat, calls : Int]

TaskInv(t) ==
    /\ t \in TaskType
    /\ t.pc = "idle" => t = IdleTask
    /\ t.pc = "idle" <=> t.kind = "none"
    /\ t.usage <= Dearest * t.usages
    /\ t.kind = "analysis" => Analysed(t.todo, t.turns, t.calls, t.usages)
    /\ t.kind = "cleanup" => CleanedSoFar(t.todo, t.cleaned, t.calls, t.usages)

LEMMA DearestNat == Dearest \in Nat /\ \A c \in Costs : c \in Nat /\ c <= Dearest
BY DearestType, MoneyAssumption

LEMMA IdleInv == TaskInv(IdleTask)
<1>1. <<>> \in Seq(Seq(Nat)) /\ <<>> \in Seq(TurnSet)
  OBVIOUS
<1>2. IdleTask \in TaskType
  BY <1>1 DEF IdleTask, TaskType, Names
<1>3. 0 <= Dearest * 0
  BY DearestNat
<1> QED
  BY <1>2, <1>3 DEF TaskInv, IdleTask

\* Another call has been paid for.
LEMMA UsageGrows ==
    ASSUME NEW usage \in Nat, NEW usages \in Nat, usage <= Dearest * usages, NEW cost \in Costs
    PROVE  usage + cost \in Nat /\ usage + cost <= Dearest * (usages + 1)
<1>1. Dearest \in Nat /\ cost \in Nat /\ cost <= Dearest
  BY DearestNat
<1>2. Dearest * usages \in Nat /\ Dearest * (usages + 1) = Dearest * usages + Dearest
  BY <1>1
<1> QED
  BY <1>1, <1>2

LEMMA BegunInv ==
    ASSUME NEW kind \in {"analysis", "cleanup"}, NEW p \in Names, NEW todo \in Seq(Seq(Nat)),
           kind = "analysis" => Analysed(todo, <<>>, 0, 0),
           kind = "cleanup" => CleanedSoFar(todo, {}, 0, 0)
    PROVE  \E u : /\ u = [IdleTask EXCEPT !.kind = kind, !.pc = "calling", !.provider = p, !.todo = todo]
                  /\ TaskInv(u) /\ u.pc = "calling" /\ u.provider = p
<1>1. PICK u : u = [IdleTask EXCEPT !.kind = kind, !.pc = "calling", !.provider = p, !.todo = todo]
  OBVIOUS
<1>2. PICK t \in TaskType : t = IdleTask
  BY IdleInv DEF TaskInv
<1>3. /\ u \in TaskType
      /\ u.kind = kind /\ u.pc = "calling" /\ u.provider = p /\ u.todo = todo
      /\ u.turns = t.turns /\ u.cleaned = t.cleaned
      /\ u.usages = t.usages /\ u.usage = t.usage /\ u.calls = t.calls
  <2>1. u = [t EXCEPT !.kind = kind, !.pc = "calling", !.provider = p, !.todo = todo]
    BY <1>1, <1>2
  <2>2. u \in TaskType
    BY <2>1 DEF TaskType
  <2>3. /\ u.kind = kind /\ u.pc = "calling" /\ u.provider = p /\ u.todo = todo
        /\ u.turns = t.turns /\ u.cleaned = t.cleaned
        /\ u.usages = t.usages /\ u.usage = t.usage /\ u.calls = t.calls
    BY <2>1 DEF TaskType
  <2> QED
    BY <2>2, <2>3
<1>4. t.turns = <<>> /\ t.cleaned = {} /\ t.usages = 0 /\ t.usage = 0 /\ t.calls = 0
  BY <1>2 DEF IdleTask
<1>5. 0 <= Dearest * 0
  BY DearestNat
<1>6. TaskInv(u)
  BY <1>3, <1>4, <1>5 DEF TaskInv
<1> QED
  BY <1>1, <1>3, <1>6

\* The parts of the record that a call leaves alone are those of t.
Changed(t, todo, turns, cleaned, usages, usage, calls) ==
    [kind |-> t.kind, pc |-> t.pc, provider |-> t.provider, todo |-> todo, turns |-> turns,
     cleaned |-> cleaned, usages |-> usages, usage |-> usage, calls |-> calls]

LEMMA AcceptedFields ==
    ASSUME NEW t \in TaskType, t.todo # <<>>, NEW cost \in Nat, NEW u, u = Accepted(t, cost)
    PROVE  /\ u \in TaskType
           /\ u.kind = t.kind /\ u.pc = t.pc /\ u.provider = t.provider
           /\ u.todo = Tail(t.todo) /\ u.turns = t.turns /\ u.cleaned = t.cleaned
           /\ u.usages = t.usages + 1 /\ u.usage = t.usage + cost /\ u.calls = t.calls + 1
<1>1. Tail(t.todo) \in Seq(Seq(Nat))
  BY DEF TaskType
<1>2. t.calls + 1 \in Int /\ t.usages + 1 \in Nat /\ t.usage + cost \in Nat
  BY DEF TaskType
<1>3. u = [t EXCEPT !.todo = Tail(t.todo), !.calls = t.calls + 1, !.usages = t.usages + 1, !.usage = t.usage + cost]
  BY DEF Accepted
<1>4. u \in TaskType
  BY <1>1, <1>2, <1>3 DEF TaskType
<1>5. /\ u.kind = t.kind /\ u.pc = t.pc /\ u.provider = t.provider
      /\ u.todo = Tail(t.todo) /\ u.turns = t.turns /\ u.cleaned = t.cleaned
      /\ u.usages = t.usages + 1 /\ u.usage = t.usage + cost /\ u.calls = t.calls + 1
  BY <1>3 DEF TaskType
<1> QED
  BY <1>4, <1>5

\* u is what t may become: still calling the same provider, or no task.
Follows(t, u) ==
    /\ TaskInv(u)
    /\ u.pc = "idle" \/ (u.pc = "calling" /\ u.provider = t.provider /\ t.pc = "calling")

LEMMA ExtractedInv ==
    ASSUME NEW t, TaskInv(t), t.kind = "analysis", t.todo # <<>>,
           NEW grouping \in Groupings(Head(t.todo)), NEW cost \in Costs
    PROVE  Follows(t, [Accepted(t, cost) EXCEPT !.turns = @ \o grouping])
<1> DEFINE u == [Accepted(t, cost) EXCEPT !.turns = @ \o grouping]
<1>1. t \in TaskType /\ t.pc # "idle" /\ t.usage <= Dearest * t.usages
      /\ Analysed(t.todo, t.turns, t.calls, t.usages)
  BY DEF TaskInv
<1>2. t.usage \in Nat /\ t.usages \in Nat /\ t.turns \in Seq(TurnSet) /\ t.cleaned \subseteq RowSet
      /\ t.provider \in Names /\ t.pc = "calling"
  BY <1>1 DEF TaskType
<1>3. /\ u.kind = "analysis" /\ u.pc = "calling" /\ u.provider = t.provider
      /\ u.todo = Tail(t.todo) /\ u.turns = t.turns \o grouping
      /\ u.usages = t.usages + 1 /\ u.usage = t.usage + cost /\ u.calls = t.calls + 1
      /\ (t.turns \o grouping \in Seq(TurnSet) => u \in TaskType)
  <2>1. PICK a : a = Accepted(t, cost)
    OBVIOUS
  <2>2. /\ a \in TaskType
        /\ a.kind = t.kind /\ a.pc = t.pc /\ a.provider = t.provider
        /\ a.todo = Tail(t.todo) /\ a.turns = t.turns /\ a.cleaned = t.cleaned
        /\ a.usages = t.usages + 1 /\ a.usage = t.usage + cost /\ a.calls = t.calls + 1
    BY <1>1, <2>1, DearestNat, AcceptedFields
  <2>3. u = [a EXCEPT !.turns = t.turns \o grouping]
    BY <2>1, <2>2
  <2> QED
    BY <1>2, <2>2, <2>3 DEF TaskType
<1> HIDE DEF u
<1>4. ASSUME NEW a \in Nat, NEW c \in Nat, a < c, Head(t.todo) = Interval(a, c)
      PROVE  grouping \in Seq(TurnSet) /\ Consecutive(Segments(grouping), a, c)
  <2>1. a <= c /\ grouping \in Groupings(Interval(a, c))
    BY <1>4
  <2> QED
    BY <2>1, GroupingConsecutive
<1>5. grouping \in Seq(TurnSet)
  <2>1. PICK n \in 0 .. NumSegments, done \in Int : AnalysedUpTo(t.todo, t.turns, t.calls, t.usages, n, done)
    BY <1>1 DEF Analysed
  <2>2. n \in Nat /\ NumSegments \in Nat
    BY SizesAssumption
  <2>3. PICK c \in Nat : n < c /\ Head(t.todo) = Interval(n, c)
    BY <2>1, <2>2, ConsecutiveTail DEF AnalysedUpTo
  <2> QED
    BY <1>4, <2>2, <2>3
<1>6. 1 \in 0 .. 1
  OBVIOUS
<1>7. Analysed(Tail(t.todo), t.turns \o grouping, t.calls + 1, t.usages + 1)
  BY <1>1, <1>2, <1>4, <1>5, <1>6, AnalysisGoesOn
<1>8. Tail(t.todo) \in Seq(Seq(Nat)) /\ t.calls + 1 \in Int
  BY <1>7, AnalysisKeeps
<1>9. t.turns \o grouping \in Seq(TurnSet)
  BY <1>2, <1>5, ConcatProperties
<1>10. t.usage + cost \in Nat /\ t.usage + cost <= Dearest * (t.usages + 1) /\ t.usages + 1 \in Nat
  BY <1>1, <1>2, UsageGrows
<1>11. u \in TaskType
  BY <1>3, <1>9
<1>12. TaskInv(u)
  BY <1>3, <1>7, <1>10, <1>11 DEF TaskInv
<1>13. Follows(t, u)
  BY <1>2, <1>3, <1>12 DEF Follows
<1> QED
  BY <1>13 DEF u

LEMMA BisectedInv ==
    ASSUME NEW t, TaskInv(t), t.kind = "analysis", t.todo # <<>>
    PROVE  Follows(t, Bisected(t))
<1>1. t \in TaskType /\ t.pc # "idle" /\ t.usage <= Dearest * t.usages
      /\ Analysed(t.todo, t.turns, t.calls, t.usages)
  BY DEF TaskInv
<1>2. t.usage \in Nat /\ t.usages \in Nat /\ t.turns \in Seq(TurnSet) /\ t.cleaned \subseteq RowSet
      /\ t.provider \in Names /\ t.pc = "calling"
  BY <1>1 DEF TaskType
<1> DEFINE batch == Head(t.todo)
<1>3. CASE Len(batch) = 1
  <2> DEFINE u == Changed(t, Tail(t.todo), t.turns \o <<Placeholder(batch)>>, t.cleaned,
                          t.usages, t.usage, t.calls + 1)
  <2>1. batch \in Seq(Nat)
    <3>1. t.todo \in Seq(Seq(Nat))
      BY <1>1, AnalysisKeeps
    <3> QED
      BY <3>1
  <2>2. Placeholder(batch) \in TurnSet /\ Placeholder(batch).segments = batch
    BY <2>1 DEF Placeholder, TurnSet
  <2>3. <<Placeholder(batch)>> \in Seq(TurnSet) /\ Segments(<<Placeholder(batch)>>) = <<batch>>
    BY <2>2, SegmentsOne
  <2>4. Append(t.turns, Placeholder(batch)) = t.turns \o <<Placeholder(batch)>>
    BY <1>2, <2>2, AppendIsConcat
  <2>5. Bisected(t) = u
    BY <1>1, <1>3, <2>4 DEF Bisected, Changed, TaskType
  <2> HIDE DEF batch
  <2>6. ASSUME NEW a \in Nat, NEW c \in Nat, a < c, batch = Interval(a, c)
        PROVE  Consecutive(Segments(<<Placeholder(batch)>>), a, c)
    BY <2>3, <2>6, ConsecutiveOne
  <2>7. 0 \in 0 .. 1 /\ t.usages + 0 = t.usages
    BY <1>2
  <2>8. Analysed(Tail(t.todo), t.turns \o <<Placeholder(batch)>>, t.calls + 1, t.usages + 0)
    BY <1>1, <1>2, <2>3, <2>6, <2>7, AnalysisGoesOn DEF batch
  <2>9. Tail(t.todo) \in Seq(Seq(Nat)) /\ t.calls + 1 \in Int
    BY <2>8, AnalysisKeeps
  <2>10. t.turns \o <<Placeholder(batch)>> \in Seq(TurnSet)
    BY <1>2, <2>3, ConcatProperties
  <2>11. u \in TaskType
    BY <1>2, <2>9, <2>10 DEF Changed, TaskType
  <2>12. TaskInv(u)
    BY <1>1, <1>2, <2>7, <2>8, <2>11 DEF Changed, TaskInv
  <2>13. Follows(t, u)
    BY <1>2, <2>12 DEF Changed, Follows
  <2> QED
    BY <2>5, <2>13
<1>4. CASE Len(batch) # 1
  <2> DEFINE u == Changed(t, Halves(batch) \o Tail(t.todo), t.turns, t.cleaned, t.usages, t.usage, t.calls + 1)
  <2>1. Bisected(t) = u
    BY <1>1, <1>4 DEF Bisected, Changed, TaskType
  <2>2. Analysed(Halves(batch) \o Tail(t.todo), t.turns, t.calls + 1, t.usages)
    BY <1>1, <1>4, AnalysisHalves
  <2> HIDE DEF batch
  <2>3. Halves(batch) \o Tail(t.todo) \in Seq(Seq(Nat)) /\ t.calls + 1 \in Int
    BY <2>2, AnalysisKeeps
  <2>4. u \in TaskType
    BY <1>2, <2>3 DEF Changed, TaskType
  <2>5. TaskInv(u)
    BY <1>1, <1>2, <2>2, <2>4 DEF Changed, TaskInv
  <2>6. Follows(t, u)
    BY <1>2, <2>5 DEF Changed, Follows
  <2> QED
    BY <2>1, <2>6
<1> QED
  BY <1>3, <1>4

LEMMA CleanedInv ==
    ASSUME NEW t, TaskInv(t), t.kind = "cleanup", t.todo # <<>>,
           NEW rows \in AnswersUpTo(Row, NumChunks + 1), NEW kept, kept = Kept(Head(t.todo), rows),
           Complete(Head(t.todo), kept), NEW cost \in Costs
    PROVE  Follows(t, [Accepted(t, cost) EXCEPT !.cleaned = @ \cup Range(kept)])
<1> DEFINE u == [Accepted(t, cost) EXCEPT !.cleaned = @ \cup Range(kept)]
<1>1. t \in TaskType /\ t.pc # "idle" /\ t.usage <= Dearest * t.usages
      /\ CleanedSoFar(t.todo, t.cleaned, t.calls, t.usages)
  BY DEF TaskInv
<1>2. t.usage \in Nat /\ t.usages \in Nat /\ t.turns \in Seq(TurnSet)
      /\ t.provider \in Names /\ t.pc = "calling"
  BY <1>1 DEF TaskType
<1>3. /\ u.kind = "cleanup" /\ u.pc = "calling" /\ u.provider = t.provider
      /\ u.todo = Tail(t.todo) /\ u.cleaned = t.cleaned \cup Range(kept)
      /\ u.usages = t.usages + 1 /\ u.usage = t.usage + cost /\ u.calls = t.calls + 1
      /\ (t.cleaned \cup Range(kept) \subseteq RowSet => u \in TaskType)
  <2>1. PICK a : a = Accepted(t, cost)
    OBVIOUS
  <2>2. /\ a \in TaskType
        /\ a.kind = t.kind /\ a.pc = t.pc /\ a.provider = t.provider
        /\ a.todo = Tail(t.todo) /\ a.turns = t.turns /\ a.cleaned = t.cleaned
        /\ a.usages = t.usages + 1 /\ a.usage = t.usage + cost /\ a.calls = t.calls + 1
    BY <1>1, <2>1, DearestNat, AcceptedFields
  <2>3. u = [a EXCEPT !.cleaned = t.cleaned \cup Range(kept)]
    BY <2>1, <2>2
  <2> QED
    BY <1>2, <2>2, <2>3 DEF TaskType
<1> HIDE DEF u
<1>4. CleanedSoFar(Tail(t.todo), t.cleaned \cup Range(kept), t.calls + 1, t.usages + 1)
  <2>1. Complete(Head(t.todo), Kept(Head(t.todo), rows))
    OBVIOUS
  <2>2. CleanedSoFar(Tail(t.todo), t.cleaned \cup Range(Kept(Head(t.todo), rows)), t.calls + 1, t.usages + 1)
    BY <1>1, <2>1, CleanupGoesOn, Zenon
  <2>3. Range(Kept(Head(t.todo), rows)) = Range(kept)
    OBVIOUS
  <2> QED
    BY <2>2, <2>3, Zenon
<1>5. Tail(t.todo) \in Seq(Seq(Nat)) /\ t.cleaned \cup Range(kept) \subseteq RowSet
  BY <1>4, CleanupKeeps, Zenon
<1>6. t.usage + cost \in Nat /\ t.usage + cost <= Dearest * (t.usages + 1) /\ t.usages + 1 \in Nat
  BY <1>1, <1>2, UsageGrows
<1>7. u \in TaskType
  BY <1>3, <1>5
<1>8. TaskInv(u)
  BY <1>3, <1>4, <1>6, <1>7 DEF TaskInv
<1>9. Follows(t, u)
  BY <1>2, <1>3, <1>8 DEF Follows
<1> QED
  BY <1>9 DEF u

LEMMA OneByOneInv ==
    ASSUME NEW t, TaskInv(t), t.kind = "cleanup"
    PROVE  Follows(t, OneByOne(t))
<1>1. t \in TaskType /\ t.pc # "idle" /\ t.usage <= Dearest * t.usages
      /\ CleanedSoFar(t.todo, t.cleaned, t.calls, t.usages)
  BY DEF TaskInv
<1>2. t.usage \in Nat /\ t.usages \in Nat /\ t.turns \in Seq(TurnSet) /\ t.cleaned \subseteq RowSet
      /\ t.provider \in Names /\ t.pc = "calling"
  BY <1>1 DEF TaskType
<1>3. CASE t.calls = 0
  <2> DEFINE alone == [i \in 1 .. NumChunks |-> <<i>>]
             u == Changed(t, alone, t.turns, t.cleaned, t.usages, t.usage, 1)
  <2>1. OneByOne(t) = u
    BY <1>1, <1>3 DEF OneByOne, Changed, TaskType
  <2>2. CleanedSoFar(alone, t.cleaned, 1, t.usages)
    BY <1>1, <1>3, CleanupOneByOne
  <2> HIDE DEF alone
  <2>3. alone \in Seq(Seq(Nat))
    BY <2>2, CleanupKeeps
  <2>4. u \in TaskType
    BY <1>2, <2>3 DEF Changed, TaskType
  <2>5. TaskInv(u)
    BY <1>1, <1>2, <2>2, <2>4 DEF Changed, TaskInv
  <2>6. Follows(t, u)
    BY <1>2, <2>5 DEF Changed, Follows
  <2> QED
    BY <2>1, <2>6
<1>4. CASE t.calls # 0
  BY <1>4, IdleInv DEF OneByOne, Follows, IdleTask
<1> QED
  BY <1>3, <1>4

-----------------------------------------------------------------------------
(* The state.                                                               *)

CallsInv ==
    /\ recorded \in [Names -> Nat] /\ others \in [Names -> Nat]
    /\ task \in [Tasks -> TaskType]
    /\ \A w \in Tasks : TaskInv(task[w])

LEMMA CallsInit == Init => CallsInv
BY IdleInv DEF Init, CallsInv, TaskInv, Names

LEMMA TaskChanged ==
    ASSUME NEW f, f \in [Tasks -> TaskType], \A v \in Tasks : TaskInv(f[v]),
           NEW w \in Tasks, NEW u, TaskInv(u)
    PROVE  /\ [f EXCEPT ![w] = u] \in [Tasks -> TaskType]
           /\ \A v \in Tasks : TaskInv([f EXCEPT ![w] = u][v])
<1>1. u \in TaskType
  BY DEF TaskInv
<1> QED
  BY <1>1

\* Costs are added to what a provider has cost.
LEMMA SumType ==
    ASSUME NEW f \in [Names -> Nat], NEW p \in Names, NEW n \in Nat
    PROVE  [f EXCEPT ![p] = @ + n] \in [Names -> Nat]
OBVIOUS

\* What a task may add to the sum at its end.
LEMMA TaskCostType ==
    ASSUME NEW t, TaskInv(t)
    PROVE  /\ TaskCost \in Nat
           /\ t.kind = "analysis" => t.usage \in 0 .. TaskCost
           /\ t.kind = "cleanup" => \A cost \in Costs : t.usage + cost \in 0 .. TaskCost
<1>1. NumSegments \in Nat /\ NumChunks \in Nat /\ Dearest \in Nat /\ \A c \in Costs : c \in Nat /\ c <= Dearest
  BY SizesAssumption, DearestNat
<1>2. t.usage \in Nat /\ t.usages \in Nat /\ t.usage <= Dearest * t.usages
  BY DEF TaskInv, TaskType
<1>3. PICK m \in Nat : TaskCost = Dearest * m /\ NumSegments <= m /\ NumChunks + 1 <= m
  BY <1>1 DEF TaskCost
<1>4. \A j \in Nat : j <= m => Dearest * j \in Nat /\ Dearest * j <= Dearest * m
  BY <1>1
<1>5. TaskCost \in Nat
  BY <1>1, <1>3, <1>4
<1>6. ASSUME t.kind = "analysis" PROVE t.usage \in 0 .. TaskCost
  <2>1. t.usages <= NumSegments
    <3>1. Analysed(t.todo, t.turns, t.calls, t.usages)
      BY <1>6 DEF TaskInv
    <3>2. t.usages \in 0 .. NumSegments
      BY <3>1, AnalysisKeeps
    <3> QED
      BY <1>1, <3>2
  <2>2. t.usages <= m
    BY <1>1, <1>2, <1>3, <2>1
  <2>3. Dearest * t.usages \in Nat /\ Dearest * t.usages <= TaskCost
    BY <1>2, <1>3, <1>4, <2>2
  <2> QED
    BY <1>2, <1>5, <2>3
<1>7. ASSUME t.kind = "cleanup", NEW cost \in Costs PROVE t.usage + cost \in 0 .. TaskCost
  <2>1. t.usages <= NumChunks
    <3>1. CleanedSoFar(t.todo, t.cleaned, t.calls, t.usages)
      BY <1>7 DEF TaskInv
    <3>2. t.usages \in 0 .. NumChunks
      BY <3>1, CleanupKeeps
    <3> QED
      BY <1>1, <3>2
  <2>2. t.usages + 1 <= m /\ t.usages + 1 \in Nat
    BY <1>1, <1>2, <1>3, <2>1
  <2>3. t.usage + cost \in Nat /\ t.usage + cost <= Dearest * (t.usages + 1)
    BY <1>2, <1>7, UsageGrows
  <2>4. Dearest * (t.usages + 1) \in Nat /\ Dearest * (t.usages + 1) <= TaskCost
    BY <1>3, <1>4, <2>2
  <2> QED
    BY <1>5, <2>3, <2>4
<1> QED
  BY <1>5, <1>6, <1>7

\* What a step of a task does to its variables and to the sum.
TaskGoesOn(w, u) ==
    /\ Follows(task[w], u)
    /\ task' = [task EXCEPT ![w] = u]
    /\ others' = others
    /\ \/ recorded' = recorded
       \/ /\ u.pc = "idle" /\ task[w].pc = "calling"
          /\ \E n \in 0 .. TaskCost : recorded' = [recorded EXCEPT ![task[w].provider] = @ + n]

LEMMA TaskStepGoesOn ==
    ASSUME CallsInv, NEW w \in Tasks, TaskStep(w) \/ TaskFails(w)
    PROVE  \E u : TaskGoesOn(w, u)
<1> DEFINE t == task[w]
<1>1. TaskInv(t) /\ t \in TaskType
  BY DEF CallsInv
<1>2. ASSUME NEW u, Answered(w, u), Follows(t, u) PROVE TaskGoesOn(w, u)
  BY <1>2 DEF Answered, TaskGoesOn
<1>3. Follows(t, IdleTask) /\ IdleTask.pc = "idle"
  BY IdleInv DEF IdleTask, Follows
<1>4. ASSUME ExtractTurns(w) PROVE \E u : TaskGoesOn(w, u)
  <2>1. t.kind = "analysis" /\ t.todo # <<>>
    BY <1>4 DEF ExtractTurns
  <2>2. ASSUME NEW grouping \in Groupings(Head(t.todo)), NEW cost \in Costs,
               Answered(w, [Accepted(t, cost) EXCEPT !.turns = @ \o grouping])
        PROVE  \E u : TaskGoesOn(w, u)
    <3>1. Follows(t, [Accepted(t, cost) EXCEPT !.turns = @ \o grouping])
      BY <1>1, <2>1, ExtractedInv
    <3> QED
      BY <1>2, <2>2, <3>1
  <2>3. ASSUME Answered(w, Bisected(t)) PROVE \E u : TaskGoesOn(w, u)
    <3>1. Follows(t, Bisected(t))
      BY <1>1, <2>1, BisectedInv
    <3> QED
      BY <1>2, <2>3, <3>1
  <2> QED
    BY <1>4, <2>2, <2>3 DEF ExtractTurns, Preserves
<1>5. ASSUME CleanChunks(w) PROVE \E u : TaskGoesOn(w, u)
  <2>1. t.kind = "cleanup" /\ t.todo # <<>>
    BY <1>5 DEF CleanChunks
  <2>2. ASSUME NEW rows \in AnswersUpTo(Row, NumChunks + 1), NEW kept, kept = Kept(Head(t.todo), rows),
               Complete(Head(t.todo), kept), NEW cost \in Costs,
               Answered(w, [Accepted(t, cost) EXCEPT !.cleaned = @ \cup Range(kept)])
        PROVE  \E u : TaskGoesOn(w, u)
    <3>1. Follows(t, [Accepted(t, cost) EXCEPT !.cleaned = @ \cup Range(kept)])
      BY <1>1, <2>1, <2>2, CleanedInv
    <3> QED
      BY <1>2, <2>2, <3>1
  <2>3. ASSUME Answered(w, OneByOne(t)) PROVE \E u : TaskGoesOn(w, u)
    <3>1. Follows(t, OneByOne(t))
      BY <1>1, <2>1, OneByOneInv
    <3> QED
      BY <1>2, <2>3, <3>1
  <2> QED
    BY <1>5, <2>2, <2>3 DEF CleanChunks
<1>6. ASSUME TaskFails(w) PROVE \E u : TaskGoesOn(w, u)
  <2>1. TaskGoesOn(w, IdleTask)
    BY <1>3, <1>6 DEF TaskFails, TaskGoesOn
  <2> QED
    BY <2>1
<1>7. ASSUME PublishTurns(w) PROVE \E u : TaskGoesOn(w, u)
  <2>1. t.kind = "analysis" /\ t.pc = "calling"
        /\ recorded' = [recorded EXCEPT ![t.provider] = @ + t.usage + 0]
        /\ task' = [task EXCEPT ![w] = IdleTask] /\ others' = others
    BY <1>7 DEF PublishTurns, Finish
  <2>2. t.usage \in 0 .. TaskCost /\ t.usage \in Nat
    BY <1>1, <2>1, TaskCostType DEF TaskType
  <2>3. recorded[t.provider] \in Nat
    BY <1>1 DEF CallsInv, TaskType
  <2>4. recorded[t.provider] + t.usage + 0 = recorded[t.provider] + t.usage
    BY <2>2, <2>3
  <2>5. recorded' = [recorded EXCEPT ![t.provider] = @ + t.usage]
    BY <2>1, <2>4
  <2>6. TaskGoesOn(w, IdleTask)
    BY <1>3, <2>1, <2>2, <2>5 DEF TaskGoesOn
  <2> QED
    BY <2>6
<1>8. ASSUME PublishCleaned(w) PROVE \E u : TaskGoesOn(w, u)
  <2>1. PICK cost \in Costs : Finish(w, "cleanup", cost)
    BY <1>8 DEF PublishCleaned
  <2>2. t.kind = "cleanup" /\ t.pc = "calling"
        /\ recorded' = [recorded EXCEPT ![t.provider] = @ + t.usage + cost]
        /\ task' = [task EXCEPT ![w] = IdleTask] /\ others' = others
    BY <2>1 DEF Finish
  <2>3. t.usage + cost \in 0 .. TaskCost /\ t.usage \in Nat /\ cost \in Nat
    BY <1>1, <2>2, TaskCostType, DearestNat DEF TaskType
  <2>4. recorded[t.provider] \in Nat
    BY <1>1 DEF CallsInv, TaskType
  <2>5. recorded[t.provider] + t.usage + cost = recorded[t.provider] + (t.usage + cost)
    BY <2>3, <2>4
  <2>6. recorded' = [recorded EXCEPT ![t.provider] = @ + (t.usage + cost)]
    BY <2>2, <2>5
  <2>7. TaskGoesOn(w, IdleTask)
    BY <1>3, <2>2, <2>3, <2>6 DEF TaskGoesOn
  <2> QED
    BY <2>7
<1> QED
  BY <1>4, <1>5, <1>6, <1>7, <1>8 DEF TaskStep, NothingValidated

\* A task begins at a provider that has cost less than the limit.
TaskBegins(w, u) ==
    /\ TaskInv(u)
    /\ task[w].pc = "idle" /\ u.pc = "calling"
    /\ recorded[u.provider] < Cap
    /\ task' = [task EXCEPT ![w] = u]
    /\ recorded' = recorded /\ others' = others

LEMMA StartBegins ==
    ASSUME CallsInv, NEW w \in Tasks, StartCleanup(w) \/ \E p \in Providers : StartAnalysis(w, p)
    PROVE  \E u : TaskBegins(w, u)
<1>1. \A p \in Names : recorded[p] \in Nat /\ others[p] \in Nat
  BY DEF CallsInv
<1>2. "openai" \in Names /\ "gemini" \in Names /\ Providers \subseteq Names /\ Cap \in Nat
  BY ProvidersAssumption, MoneyAssumption DEF Names
<1>3. ASSUME NEW p \in Names, recorded[p] < Cap, NEW kind, NEW todo, Start(w, kind, p, todo),
             \E u : /\ u = [IdleTask EXCEPT !.kind = kind, !.pc = "calling", !.provider = p, !.todo = todo]
                    /\ TaskInv(u) /\ u.pc = "calling" /\ u.provider = p
      PROVE  \E u : TaskBegins(w, u)
  BY <1>3 DEF Start, TaskBegins
<1>4. ASSUME StartCleanup(w) PROVE \E u : TaskBegins(w, u)
  <2>1. recorded["openai"] < Cap
    BY <1>1, <1>2, <1>4 DEF StartCleanup, BelowCap, Spent
  <2>2. CleanedSoFar(<<Numbers(NumChunks)>>, {}, 0, 0)
    BY CleanupBegins
  <2>3. <<Numbers(NumChunks)>> \in Seq(Seq(Nat))
    BY <2>2, CleanupKeeps
  <2>4. \E u : /\ u = [IdleTask EXCEPT !.kind = "cleanup", !.pc = "calling", !.provider = "openai",
                                       !.todo = <<Numbers(NumChunks)>>]
               /\ TaskInv(u) /\ u.pc = "calling" /\ u.provider = "openai"
    BY <1>2, <2>2, <2>3, BegunInv
  <2> QED
    BY <1>2, <1>3, <1>4, <2>1, <2>4 DEF StartCleanup
<1>5. ASSUME NEW p \in Providers, StartAnalysis(w, p) PROVE \E u : TaskBegins(w, u)
  <2>1. p \in Names /\ Start(w, "analysis", p, Batches)
    BY <1>2, <1>5 DEF StartAnalysis
  <2>2. recorded[p] < Cap
    BY <1>1, <1>2, <1>5 DEF StartAnalysis, BelowCap, Spent, Names
  <2>3. Analysed(Batches, <<>>, 0, 0)
    BY AnalysisBegins
  <2>4. Batches \in Seq(Seq(Nat))
    BY <2>3, AnalysisKeeps
  <2>5. \E u : /\ u = [IdleTask EXCEPT !.kind = "analysis", !.pc = "calling", !.provider = p, !.todo = Batches]
               /\ TaskInv(u) /\ u.pc = "calling" /\ u.provider = p
    BY <2>1, <2>3, <2>4, BegunInv
  <2> QED
    BY <1>3, <2>1, <2>2, <2>5
<1> QED
  BY <1>4, <1>5

\* The steps.
LEMMA NextCases ==
    ASSUME CallsInv, [Next]_vars
    PROVE  \/ \E w \in Tasks : \E u : TaskBegins(w, u) \/ TaskGoesOn(w, u)
           \/ \E p \in Names : OtherUsage(p)
           \/ UNCHANGED vars
<1>1. ASSUME NEW w \in Tasks, StartCleanup(w) \/ \E p \in Providers : StartAnalysis(w, p)
      PROVE  \E u : TaskBegins(w, u) \/ TaskGoesOn(w, u)
  BY <1>1, StartBegins
<1>2. ASSUME NEW w \in Tasks, TaskStep(w) \/ TaskFails(w)
      PROVE  \E u : TaskBegins(w, u) \/ TaskGoesOn(w, u)
  BY <1>2, TaskStepGoesOn
<1> QED
  BY <1>1, <1>2 DEF Next, Names

LEMMA CallsStep ==
    ASSUME CallsInv, [Next]_vars
    PROVE  CallsInv'
<1>1. /\ recorded \in [Names -> Nat] /\ others \in [Names -> Nat]
      /\ task \in [Tasks -> TaskType]
      /\ \A v \in Tasks : TaskInv(task[v])
  BY DEF CallsInv
<1>2. ASSUME NEW w \in Tasks, NEW u, TaskInv(u), task' = [task EXCEPT ![w] = u]
      PROVE  task' \in [Tasks -> TaskType] /\ \A v \in Tasks : TaskInv(task'[v])
  BY <1>1, <1>2, TaskChanged
<1>3. ASSUME NEW w \in Tasks, NEW u, TaskBegins(w, u) PROVE CallsInv'
  <2>1. task' \in [Tasks -> TaskType] /\ \A v \in Tasks : TaskInv(task'[v])
    BY <1>2, <1>3 DEF TaskBegins
  <2>2. recorded' \in [Names -> Nat] /\ others' \in [Names -> Nat]
    BY <1>1, <1>3 DEF TaskBegins
  <2> QED
    BY <2>1, <2>2 DEF CallsInv, TaskInv
<1>4. ASSUME NEW w \in Tasks, NEW u, TaskGoesOn(w, u) PROVE CallsInv'
  <2>1. task' \in [Tasks -> TaskType] /\ \A v \in Tasks : TaskInv(task'[v])
    BY <1>2, <1>4 DEF TaskGoesOn, Follows
  <2>2. recorded' \in [Names -> Nat] /\ others' = others
    <3>1. CASE recorded' = recorded
      BY <1>1, <1>4, <3>1 DEF TaskGoesOn
    <3>2. CASE \E n \in 0 .. TaskCost : recorded' = [recorded EXCEPT ![task[w].provider] = @ + n]
      <4>1. PICK n \in 0 .. TaskCost : recorded' = [recorded EXCEPT ![task[w].provider] = @ + n]
        BY <3>2
      <4>2. task[w].provider \in Names /\ n \in Nat
        BY <1>1, TaskCostType DEF TaskType
      <4> QED
        BY <1>1, <1>4, <4>1, <4>2, SumType DEF TaskGoesOn
    <3> QED
      BY <1>4, <3>1, <3>2 DEF TaskGoesOn
  <2> QED
    BY <1>1, <2>1, <2>2 DEF CallsInv, TaskInv
<1>5. ASSUME NEW p \in Names, OtherUsage(p) PROVE CallsInv'
  <2>1. PICK cost \in Costs : others' = [others EXCEPT ![p] = @ + cost]
    BY <1>5 DEF OtherUsage
  <2>2. cost \in Nat
    BY DearestNat
  <2>3. others' \in [Names -> Nat]
    BY <1>1, <2>1, <2>2, SumType
  <2>4. recorded' = recorded /\ task' = task
    BY <1>5 DEF OtherUsage
  <2> QED
    BY <1>1, <2>3, <2>4 DEF CallsInv, TaskInv
<1>6. CASE UNCHANGED vars
  BY <1>1, <1>6 DEF CallsInv, TaskInv, vars
<1> QED
  BY <1>3, <1>4, <1>5, <1>6, NextCases

-----------------------------------------------------------------------------
(* The limit.                                                               *)

Running(p) == {w \in Tasks : task[w].pc = "calling" /\ task[w].provider = p}

\* A provider that has been paid or is being called was below the limit when the last of
\* its tasks began: what its running tasks may still add has a place under the bound.
MoneyInv ==
    \A p \in Names :
        recorded[p] > 0 \/ Running(p) # {} =>
            recorded[p] + Cardinality(Running(p)) * TaskCost < Cap + Cardinality(Tasks) * TaskCost

LEMMA ProductsGrow ==
    ASSUME NEW m \in Nat, NEW n \in Nat, NEW c \in Nat, m <= n
    PROVE  m * c \in Nat /\ n * c \in Nat /\ m * c <= n * c /\ (m < n => m * c + c <= n * c)
<1>1. PICK d \in Nat : n = m + d
  <2>1. n - m \in Nat /\ n = m + (n - m)
    OBVIOUS
  <2> QED
    BY <2>1
<1>2. n * c = m * c + d * c /\ m * c \in Nat /\ d * c \in Nat
  BY <1>1
<1>3. ASSUME m < n PROVE c <= d * c
  <2>1. PICK e \in Nat : d = e + 1
    <3>1. d - 1 \in Nat /\ d = (d - 1) + 1
      BY <1>1, <1>3
    <3> QED
      BY <3>1
  <2>2. d * c = e * c + c /\ e * c \in Nat
    BY <2>1
  <2> QED
    BY <2>2
<1> QED
  BY <1>2, <1>3

LEMMA RunningType ==
    ASSUME NEW p
    PROVE  /\ IsFiniteSet(Running(p)) /\ Cardinality(Running(p)) \in Nat
           /\ Cardinality(Tasks) \in Nat /\ Cardinality(Running(p)) <= Cardinality(Tasks)
<1>1. Running(p) \subseteq Tasks /\ IsFiniteSet(Tasks)
  BY TasksAssumption DEF Running
<1> QED
  BY <1>1, FS_Subset, FS_CardinalityType

LEMMA MoneyInit == Init => MoneyInv
<1> SUFFICES ASSUME Init, NEW p \in Names PROVE recorded[p] = 0 /\ Running(p) = {}
  BY DEF MoneyInv
<1>1. recorded[p] = 0
  BY DEF Init, Names
<1>2. Running(p) = {}
  BY DEF Init, IdleTask, Running
<1> QED
  BY <1>1, <1>2

LEMMA MoneyStep ==
    ASSUME CallsInv, MoneyInv, [Next]_vars
    PROVE  MoneyInv'
<1>1. \A p \in Names : recorded[p] \in Nat
  BY DEF CallsInv
<1>2. Cap \in Nat /\ TaskCost \in Nat /\ Cardinality(Tasks) \in Nat
  <2>1. TaskCost \in Nat
    BY IdleInv, TaskCostType
  <2> QED
    BY <2>1, MoneyAssumption, TasksAssumption, FS_CardinalityType
<1>3. PICK most : most = Cap + Cardinality(Tasks) * TaskCost
  OBVIOUS
<1>4. most \in Nat
  BY <1>2, <1>3, ProductsGrow
\* Nothing new is recorded, and no task more is running.
<1>5. ASSUME NEW p \in Names, recorded'[p] = recorded[p], Running(p)' \subseteq Running(p),
             recorded'[p] > 0 \/ Running(p)' # {}
      PROVE  recorded'[p] + Cardinality(Running(p)') * TaskCost < most
  <2>1. PICK R, Q : R = Running(p) /\ Q = Running(p)'
    OBVIOUS
  <2>2. IsFiniteSet(R) /\ Cardinality(R) \in Nat
    BY <2>1, RunningType
  <2>3. Q \subseteq R
    BY <1>5, <2>1
  <2>4. Cardinality(Q) \in Nat /\ Cardinality(Q) <= Cardinality(R)
    BY <2>2, <2>3, FS_Subset, FS_CardinalityType
  <2>5. recorded[p] + Cardinality(R) * TaskCost < most
    BY <1>1, <1>3, <1>5, <2>1 DEF MoneyInv
  <2>6. PICK a, b : a = Cardinality(R) * TaskCost /\ b = Cardinality(Q) * TaskCost
    OBVIOUS
  <2>7. a \in Nat /\ b \in Nat /\ b <= a
    BY <1>2, <2>2, <2>4, <2>6, ProductsGrow
  <2>8. recorded[p] + a < most
    BY <2>5, <2>6
  <2>9. recorded[p] + b < most
    BY <1>1, <1>4, <2>7, <2>8
  <2> QED
    BY <1>5, <2>1, <2>6, <2>9
<1>6. ASSUME NEW w \in Tasks, NEW u, TaskBegins(w, u), NEW p \in Names, recorded'[p] > 0 \/ Running(p)' # {}
      PROVE  recorded'[p] + Cardinality(Running(p)') * TaskCost < most
  <2>1. /\ task' = [task EXCEPT ![w] = u] /\ recorded' = recorded /\ recorded[u.provider] < Cap
        /\ task \in [Tasks -> TaskType]
    BY <1>6 DEF TaskBegins, CallsInv
  <2>2. CASE p = u.provider
    <3>1. PICK Q : Q = Running(p)'
      OBVIOUS
    <3>2. Q \subseteq Tasks
      BY <3>1 DEF Running
    <3>3. Cardinality(Q) \in Nat /\ Cardinality(Q) <= Cardinality(Tasks)
      BY <3>2, TasksAssumption, FS_Subset, FS_CardinalityType
    <3>4. PICK a, b : a = Cardinality(Tasks) * TaskCost /\ b = Cardinality(Q) * TaskCost
      OBVIOUS
    <3>5. a \in Nat /\ b \in Nat /\ b <= a
      BY <1>2, <3>3, <3>4, ProductsGrow
    <3>6. recorded[p] + b < Cap + a
      BY <1>1, <1>2, <2>1, <2>2, <3>5
    <3>7. recorded[p] + b < most
      BY <1>3, <3>4, <3>6
    <3> QED
      BY <2>1, <3>1, <3>4, <3>7
  <2>3. CASE p # u.provider
    <3>1. Running(p)' \subseteq Running(p)
      BY <2>1, <2>3 DEF Running
    <3> QED
      BY <1>5, <1>6, <2>1, <3>1
  <2> QED
    BY <2>2, <2>3
<1>7. ASSUME NEW w \in Tasks, NEW u, TaskGoesOn(w, u), NEW p \in Names, recorded'[p] > 0 \/ Running(p)' # {}
      PROVE  recorded'[p] + Cardinality(Running(p)') * TaskCost < most
  <2>1. /\ Follows(task[w], u) /\ task' = [task EXCEPT ![w] = u]
        /\ task \in [Tasks -> TaskType] /\ recorded \in [Names -> Nat]
    BY <1>7 DEF TaskGoesOn, CallsInv
  <2>2. Running(p)' \subseteq Running(p)
    BY <2>1 DEF Running, Follows
  <2>3. CASE recorded'[p] = recorded[p]
    BY <1>5, <1>7, <2>2, <2>3
  <2>4. CASE recorded'[p] # recorded[p]
    <3>1. PICK n \in 0 .. TaskCost : recorded' = [recorded EXCEPT ![task[w].provider] = @ + n]
      BY <1>7, <2>4 DEF TaskGoesOn
    <3>2. u.pc = "idle" /\ task[w].pc = "calling"
      BY <1>7, <2>4 DEF TaskGoesOn
    <3>3. task[w].provider = p
      BY <2>1, <2>4, <3>1
    <3>4. recorded'[p] = recorded[p] + n /\ n \in Nat /\ n <= TaskCost
      BY <1>2, <2>1, <3>1, <3>3
    <3>5. PICK R, Q : R = Running(p) /\ Q = Running(p)'
      OBVIOUS
    <3>6. w \in R /\ w \notin Q
      BY <2>1, <3>2, <3>3, <3>5 DEF Running
    <3>7. IsFiniteSet(R) /\ Cardinality(R) \in Nat /\ Q \subseteq R
      BY <2>2, <3>5, RunningType
    <3>8. Cardinality(Q) \in Nat /\ Cardinality(Q) < Cardinality(R)
      <4>1. Cardinality(Q) \in Nat /\ Cardinality(Q) <= Cardinality(R) /\ (Cardinality(R) = Cardinality(Q) => R = Q)
        BY <3>7, FS_Subset, FS_CardinalityType
      <4> QED
        BY <3>6, <3>7, <4>1
    <3>9. PICK a, b : a = Cardinality(R) * TaskCost /\ b = Cardinality(Q) * TaskCost
      OBVIOUS
    <3>10. a \in Nat /\ b \in Nat /\ b + TaskCost <= a
      BY <1>2, <3>7, <3>8, <3>9, ProductsGrow
    <3>11. recorded[p] + a < most
      BY <1>3, <3>5, <3>6, <3>9 DEF MoneyInv
    <3>12. recorded[p] + n + b < most
      BY <1>1, <1>2, <1>4, <3>4, <3>10, <3>11
    <3> QED
      BY <3>4, <3>5, <3>9, <3>12
  <2> QED
    BY <2>3, <2>4
<1>8. ASSUME NEW q \in Names, OtherUsage(q), NEW p \in Names, recorded'[p] > 0 \/ Running(p)' # {}
      PROVE  recorded'[p] + Cardinality(Running(p)') * TaskCost < most
  <2>1. recorded' = recorded /\ task' = task
    BY <1>8 DEF OtherUsage
  <2>2. Running(p)' \subseteq Running(p)
    BY <2>1 DEF Running
  <2> QED
    BY <1>5, <1>8, <2>1, <2>2
<1>9. ASSUME UNCHANGED vars, NEW p \in Names, recorded'[p] > 0 \/ Running(p)' # {}
      PROVE  recorded'[p] + Cardinality(Running(p)') * TaskCost < most
  <2>1. recorded' = recorded /\ task' = task
    BY <1>9 DEF vars
  <2>2. Running(p)' \subseteq Running(p)
    BY <2>1 DEF Running
  <2> QED
    BY <1>5, <1>9, <2>1, <2>2
<1>10. ASSUME NEW p \in Names, recorded'[p] > 0 \/ Running(p)' # {}
       PROVE  recorded'[p] + Cardinality(Running(p)') * TaskCost < most
  BY <1>6, <1>7, <1>8, <1>9, <1>10, NextCases
<1>11. TaskCost' = TaskCost
  BY DEF TaskCost, Dearest
<1> QED
  BY <1>3, <1>10, <1>11 DEF MoneyInv

-----------------------------------------------------------------------------
(* The theorems.                                                            *)

THEOREM CallsCorrect == Spec => []CallsInv
<1>1. Init => CallsInv
  BY CallsInit
<1>2. CallsInv /\ [Next]_vars => CallsInv'
  BY CallsStep
<1> QED
  BY <1>1, <1>2, PTL DEF Spec

\* However the answers of an analysis fail and its batches are halved, its turns and the
\* batches still to be sent are the segments of the interview, each once and in order.
THEOREM SegmentsCorrect == Spec => []SegmentsInOrder
<1>1. ASSUME CallsInv PROVE SegmentsInOrder
  <2> SUFFICES ASSUME NEW w \in Tasks, task[w].kind = "analysis"
               PROVE  FlattenSeq([i \in DOMAIN task[w].turns |-> task[w].turns[i].segments])
                          \o FlattenSeq(task[w].todo) = Numbers(NumSegments)
    BY DEF SegmentsInOrder
  <2> DEFINE t == task[w]
  <2>1. Analysed(t.todo, t.turns, t.calls, t.usages)
    BY <1>1 DEF CallsInv, TaskInv
  <2> HIDE DEF t
  <2>2. FlattenSeq(Segments(t.turns)) \o FlattenSeq(t.todo) = Numbers(NumSegments)
    BY <2>1, AnalysisKeeps
  <2> QED
    BY <2>2 DEF Segments, t
<1> QED
  BY <1>1, CallsCorrect, PTL

\* A cleanup with no batch left has one text for every chunk, and no text is blank, also
\* where an answer to all chunks has been thrown away.
THEOREM CleanedCorrect == Spec => []ChunksCleanedOnce
<1>1. ASSUME CallsInv PROVE ChunksCleanedOnce
  <2> SUFFICES ASSUME NEW w \in Tasks, task[w].kind = "cleanup", task[w].todo = <<>>
               PROVE  /\ \A c \in 1 .. NumChunks : \E row \in task[w].cleaned : row.id = c /\ ~row.blank
                      /\ Cardinality(task[w].cleaned) = NumChunks
    BY DEF ChunksCleanedOnce
  <2>1. CleanedSoFar(task[w].todo, task[w].cleaned, task[w].calls, task[w].usages)
    BY <1>1 DEF CallsInv, TaskInv
  <2> QED
    BY <2>1, CleanupKeeps
<1> QED
  BY <1>1, CallsCorrect, PTL

\* A model that never answers correctly is asked a bounded number of times.
THEOREM CallsBoundedCorrect == Spec => []CallsBounded
<1>1. ASSUME CallsInv PROVE CallsBounded
  <2> SUFFICES ASSUME NEW w \in Tasks
               PROVE  task[w].calls <= IF task[w].kind = "analysis" THEN 2 * NumSegments - Len(Batches)
                                       ELSE NumChunks + 1
    BY DEF CallsBounded
  <2> DEFINE t == task[w]
  <2>1. TaskInv(t) /\ t \in TaskType
    BY <1>1 DEF CallsInv
  <2>2. CASE t.kind = "analysis"
    <3>1. Analysed(t.todo, t.turns, t.calls, t.usages)
      BY <2>1, <2>2 DEF TaskInv
    <3>2. t.calls <= 2 * NumSegments - Len(Batches)
      BY <3>1, AnalysisKeeps
    <3> QED
      BY <2>2, <3>2
  <2>3. CASE t.kind = "cleanup"
    <3>1. CleanedSoFar(t.todo, t.cleaned, t.calls, t.usages)
      BY <2>1, <2>3 DEF TaskInv
    <3>2. t.calls \in 0 .. NumChunks + 1 /\ NumChunks \in Nat
      BY <3>1, CleanupKeeps, SizesAssumption
    <3>3. t.calls <= NumChunks + 1
      BY <3>2
    <3> QED
      BY <2>3, <3>3
  <2>4. CASE t.kind = "none"
    <3>1. t.calls = 0
      BY <2>1, <2>4 DEF TaskInv, IdleTask
    <3> QED
      BY <2>4, <3>1, SizesAssumption
  <2> QED
    BY <2>1, <2>2, <2>3, <2>4 DEF TaskType
<1> QED
  BY <1>1, CallsCorrect, PTL

\* What the tasks record for one provider exceeds the limit by less than what all tasks
\* may add, since each of them compares the sum with the limit before its calls and
\* records their cost after them.
THEOREM OvershootCorrect == Spec => []CostOvershoot
<1>1. Init => CallsInv /\ MoneyInv
  BY CallsInit, MoneyInit
<1>2. CallsInv /\ MoneyInv /\ [Next]_vars => (CallsInv /\ MoneyInv)'
  BY CallsStep, MoneyStep
<1>3. ASSUME CallsInv, MoneyInv PROVE CostOvershoot
  <2> SUFFICES ASSUME NEW p \in Names, recorded[p] > 0
               PROVE  recorded[p] < Cap + Cardinality(Tasks) * TaskCost
    BY DEF CostOvershoot, Names
  <2>1. recorded[p] \in Nat /\ Cap \in Nat /\ TaskCost \in Nat
    BY <1>3, IdleInv, TaskCostType, MoneyAssumption DEF CallsInv
  <2>2. PICK a, b : a = Cardinality(Tasks) * TaskCost /\ b = Cardinality(Running(p)) * TaskCost
    OBVIOUS
  <2>3. a \in Nat /\ b \in Nat
    BY <2>1, <2>2, RunningType, ProductsGrow
  <2>4. recorded[p] + b < Cap + a
    BY <1>3, <2>2 DEF MoneyInv
  <2>5. recorded[p] < Cap + a
    BY <2>1, <2>3, <2>4
  <2> QED
    BY <2>2, <2>5
<1> QED
  BY <1>1, <1>2, <1>3, PTL DEF Spec
=============================================================================
