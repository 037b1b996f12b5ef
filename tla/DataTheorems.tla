------------------------------ MODULE DataTheorems -----------------------------
(***************************************************************************)
(* Induction over data for the other proofs.  The library's induction      *)
(* theorems take a predicate; these take a set, and a predicate P becomes  *)
(* {n \in Nat : P(n)}.  With it, what Filtering's recursive function gives *)
(* for a list of any length.                                               *)
(***************************************************************************)
EXTENDS Filtering, FiniteSetTheorems, SequenceTheorems, WellFoundedInduction, TLAPS

Below == {p \in Nat \X Nat : p[1] < p[2]}

LEMMA BelowWellFounded == IsWellFoundedOn(Below, Nat)
BY NatLessThanWellFounded DEF OpToRel, Below

LEMMA LeastNatural ==
  ASSUME NEW T, T \subseteq Nat, T # {}
  PROVE  \E n \in T : \A m \in T : n <= m
<1>1. PICK n \in T : \A m \in T : ~(<<m, n>> \in Below)
  BY BelowWellFounded, WFMin, Zenon
<1>2. ASSUME NEW m \in T PROVE n <= m
  <2>1. ~(m < n)
    BY <1>1 DEF Below
  <2> QED
    BY <2>1
<1> QED
  BY <1>2

\* Induction: a set that holds 0, and n + 1 whenever it holds n.
LEMMA Induction ==
  ASSUME NEW T, 0 \in T, \A n \in Nat : n \in T => n + 1 \in T
  PROVE  \A n \in Nat : n \in T
<1> SUFFICES ASSUME Nat \ T # {} PROVE FALSE
  OBVIOUS
<1>1. PICK n \in Nat \ T : \A m \in Nat \ T : n <= m
  BY LeastNatural
<1>2. n # 0 /\ n - 1 \in Nat /\ n - 1 \in T
  BY <1>1
<1> QED
  BY <1>2

\* Induction up to a bound.
LEMMA BoundedInduction ==
  ASSUME NEW T, NEW k \in Nat, 0 \in T, \A n \in 0..(k - 1) : n \in T => n + 1 \in T
  PROVE  \A n \in 0..k : n \in T
<1>1. \A n \in Nat : n \in T \cup {i \in Nat : i > k}
  <2> DEFINE U == T \cup {i \in Nat : i > k}
  <2>1. 0 \in U /\ \A n \in Nat : n \in U => n + 1 \in U
    OBVIOUS
  <2> HIDE DEF U
  <2>2. \A n \in Nat : n \in U
    BY <2>1, Induction
  <2> QED
    BY <2>2 DEF U
<1> QED
  BY <1>1

\* The numbers of a sequence have a bound.
LEMMA SequenceIsBounded ==
  ASSUME NEW q \in Seq(Nat)
  PROVE  \E b \in Nat : \A i \in 1..Len(q) : q[i] <= b
<1> DEFINE T == {n \in 0..Len(q) : \E b \in Nat : \A i \in 1..n : q[i] <= b}
<1>1. Len(q) \in Nat /\ \A i \in 1..Len(q) : q[i] \in Nat
  BY LenProperties, ElementOfSeq
<1>2. 0 \in T
  BY <1>1
<1>3. ASSUME NEW n \in 0..(Len(q) - 1), n \in T PROVE n + 1 \in T
  <2>1. PICK b \in Nat : \A i \in 1..n : q[i] <= b
    BY <1>3
  <2>2. n + 1 \in 1..Len(q) /\ q[n + 1] \in Nat
    BY <1>1
  <2> DEFINE c == IF q[n + 1] <= b THEN b ELSE q[n + 1]
  <2>3. c \in Nat /\ q[n + 1] <= c /\ \A i \in 1..n : q[i] <= c
    BY <1>1, <2>1, <2>2
  <2> HIDE DEF c
  <2>4. \A i \in 1..(n + 1) : q[i] <= c
    BY <2>3
  <2>5. n + 1 \in 0..Len(q)
    BY <1>1
  <2> QED
    BY <2>3, <2>4, <2>5
<1> HIDE DEF T
<1>4. \A n \in 0..Len(q) : n \in T
  BY <1>1, <1>2, <1>3, BoundedInduction
<1>5. Len(q) \in T
  BY <1>1, <1>4
<1> QED
  BY <1>5, Zenon DEF T

-------------------------------------------------------------------------------
(* Lists with elements taken out.                                         *)

\* The list after n elements, from the list before the last of them.
KeptOf(s, gone, n, before) ==
  IF n = 0 THEN << >> ELSE IF s[n] \in gone THEN before ELSE Append(before, s[n])

\* f[n] is what is left of the first n elements.
Leaves(f, s, gone) == f = [n \in 0..Len(s) |-> KeptOf(s, gone, n, f[n - 1])]

LEMMA LeftExists ==
  ASSUME NEW A, NEW s \in Seq(A), NEW gone
  PROVE  \E f : Leaves(f, s, gone)
<1> DEFINE T == {m \in 0..Len(s) : \E f : f = [n \in 0..m |-> KeptOf(s, gone, n, f[n - 1])]}
<1>1. Len(s) \in Nat
  BY LenProperties
<1>2. 0 \in T
  <2> DEFINE f == [n \in 0..0 |-> << >>]
  <2>1. f = [n \in 0..0 |-> KeptOf(s, gone, n, f[n - 1])]
    BY DEF KeptOf
  <2> QED
    BY <1>1, <2>1
<1>3. ASSUME NEW m \in 0..(Len(s) - 1), m \in T PROVE m + 1 \in T
  <2>1. PICK f : f = [n \in 0..m |-> KeptOf(s, gone, n, f[n - 1])]
    BY <1>3
  <2> DEFINE g == [n \in 0..(m + 1) |->
                     IF n = m + 1 THEN KeptOf(s, gone, n, f[n - 1]) ELSE f[n]]
  <2>2. ASSUME NEW n \in 0..(m + 1) PROVE g[n] = KeptOf(s, gone, n, g[n - 1])
    <3>1. CASE n = 0
      <4>1. g[n] = f[0] /\ f[0] = << >>
        BY <1>1, <2>1, <3>1 DEF KeptOf
      <4> QED
        BY <3>1, <4>1 DEF KeptOf
    <3>2. CASE n = m + 1
      <4>1. n - 1 \in 0..m /\ g[n - 1] = f[n - 1]
        BY <1>1, <3>2
      <4> QED
        BY <3>2, <4>1
    <3>3. CASE n \in 1..m
      <4>1. n - 1 \in 0..m /\ g[n - 1] = f[n - 1] /\ g[n] = f[n]
        BY <1>1, <3>3
      <4>2. f[n] = KeptOf(s, gone, n, f[n - 1])
        BY <2>1, <3>3
      <4> QED
        BY <4>1, <4>2
    <3> QED
      BY <3>1, <3>2, <3>3
  <2>3. g = [n \in 0..(m + 1) |-> g[n]]
    OBVIOUS
  <2> HIDE DEF g
  <2>4. g = [n \in 0..(m + 1) |-> KeptOf(s, gone, n, g[n - 1])]
    BY <2>2, <2>3
  <2>5. m + 1 \in 0..Len(s)
    BY <1>1
  <2> QED
    BY <2>4, <2>5
<1> HIDE DEF T
<1>4. \A m \in 0..Len(s) : m \in T
  BY <1>1, <1>2, <1>3, BoundedInduction
<1>5. Len(s) \in T
  BY <1>1, <1>4
<1> QED
  BY <1>5, Zenon DEF T, Leaves

\* What is left of each beginning of the list.
LEMMA DroppingIsLast ==
  ASSUME NEW A, NEW s \in Seq(A), NEW gone
  PROVE  \E f : /\ Dropping(s, gone) = f[Len(s)] /\ f[0] = << >>
                /\ \A n \in 1..Len(s) :
                     f[n] = IF s[n] \in gone THEN f[n - 1] ELSE Append(f[n - 1], s[n])
<1>2. \E g : Leaves(g, s, gone)
  BY LeftExists
<1> DEFINE f == CHOOSE f : f = [n \in 0..Len(s) |-> KeptOf(s, gone, n, f[n - 1])]
<1>1. Dropping(s, gone) = f[Len(s)]
  BY DEF Dropping, KeptOf
<1>3. f = [n \in 0..Len(s) |-> KeptOf(s, gone, n, f[n - 1])]
  BY <1>2, Zenon DEF Leaves
<1> HIDE DEF f
<1>4. Len(s) \in Nat
  BY LenProperties
<1>5. f[0] = << >>
  BY <1>3, <1>4 DEF KeptOf
<1>6. ASSUME NEW n \in 1..Len(s)
      PROVE  f[n] = IF s[n] \in gone THEN f[n - 1] ELSE Append(f[n - 1], s[n])
  <2>1. f[n] = KeptOf(s, gone, n, f[n - 1])
    BY <1>3, <1>4
  <2> QED
    BY <2>1 DEF KeptOf
<1> QED
  BY <1>1, <1>5, <1>6

\* d holds, in their order, the elements of the first n of s that are not gone.
Selects(d, h, s, n, gone) ==
  /\ h \in [1..Len(d) -> 1..n]
  /\ \A j \in 1..Len(d) : d[j] = s[h[j]] /\ s[h[j]] \notin gone
  /\ \A j, k \in 1..Len(d) : j < k => h[j] < h[k]
  /\ \A i \in 1..n : s[i] \notin gone => \E j \in 1..Len(d) : h[j] = i

\* Dropping keeps exactly what is not gone, in its order.
LEMMA DroppingSelects ==
  ASSUME NEW A, NEW s \in Seq(A), NEW gone
  PROVE  /\ Dropping(s, gone) \in Seq(A)
         /\ \E h : Selects(Dropping(s, gone), h, s, Len(s), gone)
<1>1. Len(s) \in Nat /\ \A i \in 1..Len(s) : s[i] \in A
  BY LenProperties, ElementOfSeq
<1>2. PICK f : /\ Dropping(s, gone) = f[Len(s)] /\ f[0] = << >>
               /\ \A n \in 1..Len(s) :
                    f[n] = IF s[n] \in gone THEN f[n - 1] ELSE Append(f[n - 1], s[n])
  BY DroppingIsLast
<1> DEFINE T == {n \in 0..Len(s) : f[n] \in Seq(A) /\ \E h : Selects(f[n], h, s, n, gone)}
<1>3. 0 \in T
  <2>1. << >> \in Seq(A) /\ Len(<< >>) = 0
    BY EmptySeq
  <2> DEFINE h == [j \in 1..0 |-> 1]
  <2>2. h \in [1..0 -> 1..0]
    OBVIOUS
  <2> HIDE DEF h
  <2>3. Selects(<< >>, h, s, 0, gone)
    BY <2>1, <2>2 DEF Selects
  <2>4. 0 \in 0..Len(s) /\ f[0] \in Seq(A) /\ Selects(f[0], h, s, 0, gone)
    BY <1>1, <1>2, <2>1, <2>3
  <2> QED
    BY <2>4, Zenon
<1>4. ASSUME NEW n \in 0..(Len(s) - 1), n \in T PROVE n + 1 \in T
  <2> DEFINE d == f[n]
             e == f[n + 1]
  <2>1. d \in Seq(A) /\ Len(d) \in Nat /\ n + 1 \in 1..Len(s) /\ s[n + 1] \in A
    BY <1>1, <1>4, LenProperties
  <2>2. e = IF s[n + 1] \in gone THEN d ELSE Append(d, s[n + 1])
    <3>1. (n + 1) - 1 = n
      BY <1>1
    <3> QED
      BY <1>2, <2>1, <3>1
  <2>3. PICK h : Selects(d, h, s, n, gone)
    BY <1>4
  <2> HIDE DEF d, e
  <2>4. CASE s[n + 1] \in gone
    <3>1. e \in Seq(A) /\ Selects(e, h, s, n + 1, gone)
      BY <1>1, <2>1, <2>2, <2>3, <2>4 DEF Selects
    <3> QED
      BY <2>1, <3>1 DEF e
  <2>5. CASE s[n + 1] \notin gone
    <3>1. /\ e \in Seq(A) /\ Len(e) = Len(d) + 1 /\ e[Len(d) + 1] = s[n + 1]
          /\ \A j \in 1..Len(d) : e[j] = d[j]
      BY <2>1, <2>2, <2>5, AppendProperties
    <3> DEFINE g == [j \in 1..Len(e) |-> IF j = Len(e) THEN n + 1 ELSE h[j]]
    <3>2. /\ g \in [1..Len(e) -> 1..(n + 1)]
          /\ g[Len(e)] = n + 1 /\ \A j \in 1..Len(d) : g[j] = h[j]
      BY <1>1, <2>1, <2>3, <3>1 DEF Selects
    <3> HIDE DEF g
    <3>3. ASSUME NEW j \in 1..Len(e) PROVE e[j] = s[g[j]] /\ s[g[j]] \notin gone
      BY <2>1, <2>3, <2>5, <3>1, <3>2 DEF Selects
    <3>4. ASSUME NEW j \in 1..Len(e), NEW k \in 1..Len(e), j < k PROVE g[j] < g[k]
      <4>1. j \in 1..Len(d) /\ g[j] = h[j]
        BY <2>1, <3>1, <3>2, <3>4
      <4>2. h[j] \in 1..n
        BY <2>3, <4>1 DEF Selects
      <4>3. CASE k = Len(e)
        BY <1>1, <3>2, <4>1, <4>2, <4>3
      <4>4. CASE k # Len(e)
        <5>1. k \in 1..Len(d) /\ g[k] = h[k]
          BY <2>1, <3>1, <3>2, <4>4
        <5> QED
          BY <2>3, <3>4, <4>1, <5>1 DEF Selects
      <4> QED
        BY <4>3, <4>4
    <3>5. ASSUME NEW i \in 1..(n + 1), s[i] \notin gone PROVE \E j \in 1..Len(e) : g[j] = i
      <4>1. CASE i = n + 1
        BY <2>1, <3>1, <3>2, <4>1
      <4>2. CASE i # n + 1
        <5>1. PICK j \in 1..Len(d) : h[j] = i
          BY <1>1, <2>3, <3>5, <4>2 DEF Selects
        <5> QED
          BY <2>1, <3>1, <3>2, <5>1
      <4> QED
        BY <4>1, <4>2
    <3>6. Selects(e, g, s, n + 1, gone)
      BY <3>2, <3>3, <3>4, <3>5 DEF Selects
    <3> QED
      BY <2>1, <3>1, <3>6 DEF e
  <2> QED
    BY <2>4, <2>5
<1> HIDE DEF T
<1>5. \A n \in 0..Len(s) : n \in T
  BY <1>1, <1>3, <1>4, BoundedInduction
<1>6. Len(s) \in T
  BY <1>1, <1>5
<1>7. f[Len(s)] \in Seq(A) /\ \E h : Selects(f[Len(s)], h, s, Len(s), gone)
  BY <1>6 DEF T
<1> QED
  BY <1>2, <1>7

\* What a list holds.
Elements(s) == {s[i] : i \in 1..Len(s)}

LEMMA DroppingRange ==
  ASSUME NEW A, NEW s \in Seq(A), NEW gone
  PROVE  Elements(Dropping(s, gone)) = Elements(s) \ gone
<1> DEFINE d == Dropping(s, gone)
<1>1. PICK h : Selects(d, h, s, Len(s), gone)
  BY DroppingSelects
<1> HIDE DEF d
<1>2. ASSUME NEW i \in 1..Len(d) PROVE d[i] \in {s[k] : k \in 1..Len(s)} \ gone
  BY <1>1 DEF Selects
<1>3. ASSUME NEW x \in {s[k] : k \in 1..Len(s)} \ gone PROVE \E i \in 1..Len(d) : d[i] = x
  BY <1>1 DEF Selects
<1>4. {d[i] : i \in 1..Len(d)} = {s[i] : i \in 1..Len(s)} \ gone
  BY <1>2, <1>3
<1> QED
  BY <1>4 DEF Elements, d

\* A list without repetitions keeps none.
Distinct(s) == \A i, j \in 1..Len(s) : s[i] = s[j] => i = j

LEMMA DroppingDistinct ==
  ASSUME NEW A, NEW s \in Seq(A), NEW gone, Distinct(s)
  PROVE  Distinct(Dropping(s, gone))
<1> DEFINE d == Dropping(s, gone)
<1>1. PICK h : Selects(d, h, s, Len(s), gone)
  BY DroppingSelects
<1>2. Len(d) \in Nat /\ Len(s) \in Nat
  BY DroppingSelects, LenProperties
<1> HIDE DEF d
<1>3. ASSUME NEW i \in 1..Len(d), NEW j \in 1..Len(d), d[i] = d[j] PROVE i = j
  <2>1. h[i] = h[j] /\ h[i] \in Nat
    BY <1>1, <1>2, <1>3 DEF Selects, Distinct
  <2>2. ~(i < j) /\ ~(j < i)
    BY <1>1, <2>1 DEF Selects
  <2> QED
    BY <1>2, <2>2
<1> QED
  BY <1>3 DEF Distinct, d

\* A list that increases goes on increasing.
Increasing(s) == \A i, j \in 1..Len(s) : i < j => s[i] < s[j]

LEMMA DroppingIncreasing ==
  ASSUME NEW A, NEW s \in Seq(A), NEW gone, Increasing(s)
  PROVE  Increasing(Dropping(s, gone))
<1> DEFINE d == Dropping(s, gone)
<1>1. PICK h : Selects(d, h, s, Len(s), gone)
  BY DroppingSelects
<1> HIDE DEF d
<1>2. Increasing(d)
  BY <1>1 DEF Selects, Increasing
<1> QED
  BY <1>2 DEF d

\* A list without repetitions is as long as the set of what it holds.
LEMMA DistinctCount ==
  ASSUME NEW A, NEW s \in Seq(A), Distinct(s)
  PROVE  /\ IsFiniteSet(Elements(s)) /\ Cardinality(Elements(s)) = Len(s)
         /\ \A n \in 0..Len(s) : /\ IsFiniteSet({s[i] : i \in 1..n})
                                 /\ Cardinality({s[i] : i \in 1..n}) = n
<1>1. Len(s) \in Nat
  BY LenProperties
<1>2. ASSUME NEW n \in 0..Len(s)
      PROVE  IsFiniteSet({s[i] : i \in 1..n}) /\ Cardinality({s[i] : i \in 1..n}) = n
  <2> DEFINE T == {s[i] : i \in 1..n}
             f == [i \in 1..n |-> s[i]]
  <2>1. f \in Bijection(1..n, T)
    <3>1. f \in [1..n -> T] /\ \A x \in T : \E i \in 1..n : f[i] = x
      OBVIOUS
    <3>2. \A i, j \in 1..n : f[i] = f[j] => i = j
      BY <1>1 DEF Distinct
    <3> HIDE DEF f, T
    <3> QED
      BY <3>1, <3>2 DEF Bijection, Injection, Surjection, IsInjective
  <2>2. IsFiniteSet(1..n) /\ n \in Nat
    BY <1>1, FS_Interval
  <2>3. ExistsBijection(1..n, T)
    BY <2>1 DEF ExistsBijection
  <2> HIDE DEF T
  <2>4. IsFiniteSet(T) /\ Cardinality(T) = n
    BY <2>2, <2>3, FS_CountingElements, FS_Bijection
  <2> QED
    BY <2>4, Zenon DEF T
<1>3. Len(s) \in 0..Len(s)
  BY <1>1
<1> QED
  BY <1>2, <1>3 DEF Elements
===============================================================================
