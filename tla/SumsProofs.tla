----------------------------- MODULE SumsProofs -----------------------------
(***************************************************************************)
(* The laws of Sum.  Induction is stated about a set of numbers and not    *)
(* about a predicate, so that it can be cited with any set in its place:   *)
(* a set of numbers has a least element (WFMin and the well-foundedness of *)
(* < on Nat), so a set that holds 0 and is closed under successor leaves   *)
(* no least number outside it.                                             *)
(***************************************************************************)
EXTENDS Sums, WellFoundedInduction, TLAPS

\* Every non-empty set of naturals has a least element.
LEMMA LeastElement ==
    ASSUME NEW T \in SUBSET Nat, T # {}
    PROVE  \E m \in T : \A k \in T : m <= k
<1> DEFINE Less == {ss \in Nat \X Nat : ss[1] < ss[2]}
<1>1. IsWellFoundedOn(Less, Nat)
  BY NatLessThanWellFounded DEF OpToRel
<1>2. PICK m \in T : \A k \in T : <<k, m>> \notin Less
  <2> HIDE DEF Less
  <2> QED BY <1>1, WFMin
<1>3. ASSUME NEW k \in T PROVE m <= k
  <2>1. m \in Nat /\ k \in Nat
    OBVIOUS
  <2>2. k < m => <<k, m>> \in Less
    BY <2>1
  <2> QED BY <2>1, <2>2, <1>2
<1> QED BY <1>3

\* Induction over 0 .. n, for the set of the numbers that have a property.
LEMMA IntervalInduction ==
    ASSUME NEW n \in Nat, NEW S, 0 \in S,
           \A i \in 1 .. n : i - 1 \in S => i \in S
    PROVE  \A i \in 0 .. n : i \in S
<1> DEFINE T == {i \in 0 .. n : i \notin S}
<1>1. SUFFICES ASSUME T # {} PROVE FALSE
  OBVIOUS
<1>2. T \in SUBSET Nat
  OBVIOUS
<1>3. PICK m \in T : \A k \in T : m <= k
  <2> HIDE DEF T
  <2> QED BY <1>1, <1>2, LeastElement
<1>4. m \in 1 .. n /\ m - 1 \in 0 .. n /\ m - 1 \notin T
  BY <1>3
<1> QED BY <1>3, <1>4

IsPrefix(h, f, n) == h = [i \in 0 .. n |-> IF i = 0 THEN 0 ELSE h[i - 1] + f[i]]

\* The recursion of Prefix has a solution, and it takes integer values.
LEMMA PrefixExists ==
    ASSUME NEW n \in Nat, NEW f \in [1 .. n -> Int]
    PROVE  \E h : h \in [0 .. n -> Int] /\ IsPrefix(h, f, n)
<1> DEFINE Solvable(m) == \E h : h \in [0 .. m -> Int] /\ IsPrefix(h, f, m)
           S == {m \in 0 .. n : Solvable(m)}
<1>1. 0 \in S
  <2>1. /\ [i \in 0 .. 0 |-> 0] \in [0 .. 0 -> Int]
        /\ IsPrefix([i \in 0 .. 0 |-> 0], f, 0)
    BY DEF IsPrefix
  <2> QED BY <2>1
<1>2. ASSUME NEW m \in 1 .. n, m - 1 \in S
      PROVE  m \in S
  <2>1. PICK h : h \in [0 .. m - 1 -> Int] /\ IsPrefix(h, f, m - 1)
    BY <1>2
  <2> DEFINE g == [i \in 0 .. m |-> IF i = m THEN h[m - 1] + f[m] ELSE h[i]]
  <2>2. g \in [0 .. m -> Int]
    BY <2>1
  <2>3. ASSUME NEW i \in 0 .. m
        PROVE  g[i] = IF i = 0 THEN 0 ELSE g[i - 1] + f[i]
    <3>1. CASE i = m
      BY <3>1
    <3>2. CASE i # m
      <4>1. i \in 0 .. m - 1 /\ g[i] = h[i] /\ (i # 0 => g[i - 1] = h[i - 1])
        BY <3>2
      <4>2. h[i] = IF i = 0 THEN 0 ELSE h[i - 1] + f[i]
        BY <2>1, <4>1 DEF IsPrefix
      <4> QED BY <4>1, <4>2
    <3> QED BY <3>1, <3>2
  <2>4. IsPrefix(g, f, m)
    BY <2>3 DEF IsPrefix
  <2> QED BY <2>2, <2>4
<1>3. \A i \in 0 .. n : i \in S
  <2> HIDE DEF S
  <2> QED BY <1>1, <1>2, IntervalInduction
<1> QED BY <1>3

\* Prefix satisfies its recursion.
LEMMA PrefixEquation ==
    ASSUME NEW n \in Nat, NEW f \in [1 .. n -> Int]
    PROVE  /\ Prefix(f, n)[0] = 0
           /\ \A i \in 1 .. n : Prefix(f, n)[i] = Prefix(f, n)[i - 1] + f[i]
<1> DEFINE P == CHOOSE h : IsPrefix(h, f, n)
<1>1. Prefix(f, n) = P
  BY DEF Prefix, IsPrefix
<1>2. IsPrefix(P, f, n)
  BY PrefixExists
<1>3. P[0] = 0 /\ \A i \in 1 .. n : P[i] = P[i - 1] + f[i]
  <2> HIDE DEF P
  <2> QED BY <1>2 DEF IsPrefix
<1> HIDE DEF P
<1> QED BY <1>1, <1>3

\* Running totals of integers are integers.
LEMMA PrefixType ==
    ASSUME NEW n \in Nat, NEW f \in [1 .. n -> Int]
    PROVE  \A i \in 0 .. n : Prefix(f, n)[i] \in Int
<1> DEFINE S == {i \in 0 .. n : Prefix(f, n)[i] \in Int}
<1>1. 0 \in S
  BY PrefixEquation
<1>2. ASSUME NEW i \in 1 .. n, i - 1 \in S
      PROVE  i \in S
  <2>1. Prefix(f, n)[i] = Prefix(f, n)[i - 1] + f[i] /\ f[i] \in Int
    BY PrefixEquation
  <2> QED BY <1>2, <2>1
<1>3. \A i \in 0 .. n : i \in S
  <2> HIDE DEF S
  <2> QED BY <1>1, <1>2, IntervalInduction
<1> QED BY <1>3

LEMMA SumType ==
    ASSUME NEW n \in Nat, NEW f \in [1 .. n -> Int]
    PROVE  Sum(f, n) \in Int
BY PrefixType DEF Sum

\* The total of a pointwise sum is the sum of the totals.
LEMMA SumAdd ==
    ASSUME NEW n \in Nat, NEW f \in [1 .. n -> Int], NEW g \in [1 .. n -> Int],
           NEW h \in [1 .. n -> Int], \A i \in 1 .. n : h[i] = f[i] + g[i]
    PROVE  Sum(h, n) = Sum(f, n) + Sum(g, n)
<1> DEFINE S == {i \in 0 .. n : Prefix(h, n)[i] = Prefix(f, n)[i] + Prefix(g, n)[i]}
<1>1. 0 \in S
  <2>1. Prefix(f, n)[0] = 0
    BY PrefixEquation
  <2>2. Prefix(g, n)[0] = 0
    BY PrefixEquation
  <2>3. Prefix(h, n)[0] = 0
    BY PrefixEquation
  <2> QED BY <2>1, <2>2, <2>3
<1>2. ASSUME NEW i \in 1 .. n, i - 1 \in S
      PROVE  i \in S
  <2>0. i - 1 \in 0 .. n /\ f[i] \in Int /\ g[i] \in Int
    OBVIOUS
  <2>1. Prefix(f, n)[i - 1] \in Int /\ Prefix(g, n)[i - 1] \in Int
    BY <2>0, PrefixType
  <2>2. /\ Prefix(f, n)[i] = Prefix(f, n)[i - 1] + f[i]
        /\ Prefix(g, n)[i] = Prefix(g, n)[i - 1] + g[i]
        /\ Prefix(h, n)[i] = Prefix(h, n)[i - 1] + h[i]
    BY PrefixEquation
  <2> QED BY <1>2, <2>0, <2>1, <2>2
<1>3. \A i \in 0 .. n : i \in S
  <2> HIDE DEF S
  <2> QED BY <1>1, <1>2, IntervalInduction
<1> QED BY <1>3 DEF Sum

\* A total of naturals is a natural.
LEMMA SumNonNegative ==
    ASSUME NEW n \in Nat, NEW f \in [1 .. n -> Nat]
    PROVE  Sum(f, n) \in Nat
<1> DEFINE S == {i \in 0 .. n : Prefix(f, n)[i] \in Nat}
<1>0. f \in [1 .. n -> Int]
  OBVIOUS
<1>1. 0 \in S
  BY <1>0, PrefixEquation
<1>2. ASSUME NEW i \in 1 .. n, i - 1 \in S
      PROVE  i \in S
  <2>1. Prefix(f, n)[i] = Prefix(f, n)[i - 1] + f[i]
    BY <1>0, PrefixEquation
  <2> QED BY <1>2, <2>1
<1>3. \A i \in 0 .. n : i \in S
  <2> HIDE DEF S
  <2> QED BY <1>1, <1>2, IntervalInduction
<1> QED BY <1>3 DEF Sum

\* When all terms but the k-th are zero, the total is the k-th term.
LEMMA SumPoint ==
    ASSUME NEW n \in Nat, NEW f \in [1 .. n -> Int], NEW k \in 1 .. n,
           \A i \in 1 .. n : i # k => f[i] = 0
    PROVE  Sum(f, n) = f[k]
<1> DEFINE S == {i \in 0 .. n : Prefix(f, n)[i] = IF i < k THEN 0 ELSE f[k]}
<1>1. 0 \in S
  BY PrefixEquation
<1>2. ASSUME NEW i \in 1 .. n, i - 1 \in S
      PROVE  i \in S
  <2>1. Prefix(f, n)[i] = Prefix(f, n)[i - 1] + f[i] /\ f[i] \in Int /\ f[k] \in Int
    BY PrefixEquation
  <2>2. CASE i < k
    BY <1>2, <2>1, <2>2
  <2>3. CASE i = k
    BY <1>2, <2>1, <2>3
  <2>4. CASE i > k
    BY <1>2, <2>1, <2>4
  <2> QED BY <2>2, <2>3, <2>4
<1>3. \A i \in 0 .. n : i \in S
  <2> HIDE DEF S
  <2> QED BY <1>1, <1>2, IntervalInduction
<1> QED BY <1>3 DEF Sum

\* A total of zeros is zero.
LEMMA SumZero ==
    ASSUME NEW n \in Nat, NEW f \in [1 .. n -> Int], \A i \in 1 .. n : f[i] = 0
    PROVE  Sum(f, n) = 0
<1> DEFINE S == {i \in 0 .. n : Prefix(f, n)[i] = 0}
<1>1. 0 \in S
  BY PrefixEquation
<1>2. \A i \in 1 .. n : i - 1 \in S => i \in S
  BY PrefixEquation
<1>3. \A i \in 0 .. n : i \in S
  <2> HIDE DEF S
  <2> QED BY <1>1, <1>2, IntervalInduction
<1> QED BY <1>3 DEF Sum
=============================================================================
