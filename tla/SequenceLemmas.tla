--------------------------- MODULE SequenceLemmas ---------------------------
(***************************************************************************)
(* Facts about lists: removing an entry, counting the entries of a kind,   *)
(* counting up to their length.                                            *)
(***************************************************************************)
EXTENDS Integers, SequencesExt, SequenceTheorems, FiniteSetTheorems, TLAPS

(* Removing an entry keeps all the others, each once.   *)
LEMMA RemoveAtKeepsOthers ==
  ASSUME NEW S, NEW s \in Seq(S), NEW k \in 1..Len(s)
  PROVE  /\ RemoveAt(s, k) \in Seq(S)
         /\ Len(RemoveAt(s, k)) = Len(s) - 1
         /\ \A j \in 1..(Len(s) - 1) : RemoveAt(s, k)[j] = IF j < k THEN s[j] ELSE s[j + 1]
<1> DEFINE a == SubSeq(s, 1, k - 1)
           b == SubSeq(s, k + 1, Len(s))
<1>1. a \in Seq(S) /\ Len(a) = k - 1 /\ \A j \in 1..(k - 1) : a[j] = s[j]
  BY SubSeqProperties
<1>2. b \in Seq(S) /\ Len(b) = Len(s) - k /\ \A j \in 1..(Len(s) - k) : b[j] = s[k + j]
  BY SubSeqProperties
<1>3. /\ a \o b \in Seq(S)
      /\ Len(a \o b) = Len(a) + Len(b)
      /\ \A j \in 1..(Len(a) + Len(b)) : (a \o b)[j] = IF j <= Len(a) THEN a[j] ELSE b[j - Len(a)]
  BY <1>1, <1>2, ConcatProperties
<1>4. RemoveAt(s, k) = a \o b
  BY DEF RemoveAt
<1> HIDE DEF a, b
<1>5. Len(s) \in Nat /\ Len(a) + Len(b) = Len(s) - 1
  BY <1>1, <1>2
<1>6. ASSUME NEW j \in 1..(Len(s) - 1)
      PROVE  (a \o b)[j] = IF j < k THEN s[j] ELSE s[j + 1]
  <2>1. CASE j < k
    BY <1>1, <1>3, <1>5, <2>1
  <2>2. CASE j >= k
    <3>1. (a \o b)[j] = b[j - (k - 1)]
      BY <1>1, <1>3, <1>5, <2>2
    <3>2. j - (k - 1) \in 1..(Len(s) - k) /\ k + (j - (k - 1)) = j + 1
      BY <1>5, <2>2
    <3>3. b[j - (k - 1)] = s[j + 1]
      BY <1>2, <3>2
    <3> QED
      BY <1>5, <2>2, <3>1, <3>3
  <2> QED
    BY <1>5, <2>1, <2>2
<1> QED
  BY <1>3, <1>4, <1>5, <1>6

(* A non-empty set of indices has a least one, which Min is: the smallest  *)
(* of the intervals from 0 to one of them.                                 *)
LEMMA MinIsLeast ==
  ASSUME NEW I \in SUBSET Nat, I # {}
  PROVE  Min(I) \in I /\ \A k \in I : Min(I) <= k
<1> DEFINE T == {0..k : k \in I}
<1>1. T \subseteq FiniteSubsetsOf(Nat) /\ T # {}
  <2>1. \A k \in I : IsFiniteSet(0..k) /\ 0..k \subseteq Nat
    BY FS_Interval
  <2> QED
    BY <2>1 DEF FiniteSubsetsOf
<1>2. PICK t \in T : \A u \in T : <<u, t>> \notin StrictSubsetOrdering(Nat)
  BY <1>1, FS_StrictSubsetOrderingWellFounded, WFMin
<1>3. PICK k \in I : t = 0..k
  OBVIOUS
<1>4. ASSUME NEW j \in I PROVE k <= j
  <2>1. SUFFICES ASSUME j < k PROVE FALSE
    OBVIOUS
  <2>2. 0..j \in T /\ 0..j \subseteq 0..k /\ 0..j # 0..k
    BY <2>1
  <2> QED
    BY <1>1, <1>2, <1>3, <2>2 DEF StrictSubsetOrdering, FiniteSubsetsOf
<1> QED
  BY <1>4 DEF Min

(* What a number is a counterexample of is a counterexample of the least   *)
(* one: whatever is true of 1, and of the next number of each of which it  *)
(* is true, is true of all.                                                *)
LEMMA CountingUp ==
  ASSUME NEW T \in SUBSET Nat, NEW n \in Nat, 1 \in T, \A i \in T : i < n => i + 1 \in T
  PROVE  1 .. n \subseteq T
<1> DEFINE I == (1 .. n) \ T
<1> SUFFICES ASSUME I # {}
             PROVE  FALSE
  OBVIOUS
<1>1. I \in SUBSET Nat
  OBVIOUS
<1>2. PICK m \in I : \A k \in I : m <= k
  <2>1. Min(I) \in I /\ \A k \in I : Min(I) <= k
    BY <1>1, MinIsLeast
  <2> QED
    BY <2>1, Zenon
<1>3. m # 1 /\ m - 1 \in 1 .. n /\ m - 1 \notin I
  BY <1>2
<1> QED
  BY <1>2, <1>3

(* A finite set of numbers has a greatest one. *)
LEMMA MaxIsGreatest ==
  ASSUME NEW I \in SUBSET Nat, I # {}, IsFiniteSet(I)
  PROVE  Max(I) \in I /\ \A k \in I : k <= Max(I)
<1> DEFINE Bounds == {b \in Nat : \A k \in I : k <= b}
<1>0. PICK n \in Nat : ExistsSurjection(1 .. n, I)
  BY FS_NatSurjection
<1>1. PICK f \in [1 .. n -> I] : \A k \in I : \E i \in 1 .. n : f[i] = k
  BY <1>0 DEF ExistsSurjection, Surjection
<1> DEFINE T == {m \in 1 .. n + 1 : \E b \in Nat : \A i \in 1 .. m - 1 : f[i] <= b}
<1>2. 1 \in T
  OBVIOUS
<1>3. ASSUME NEW m \in T, m < n + 1
      PROVE  m + 1 \in T
  <2>1. PICK b \in Nat : \A i \in 1 .. m - 1 : f[i] <= b
    OBVIOUS
  <2>0. m \in 1 .. n /\ \A i \in 1 .. m - 1 : i \in 1 .. n
    BY <1>3
  <2>a. \A i \in 1 .. n : f[i] \in Nat
    <3>1. \A i \in 1 .. n : f[i] \in I
      BY <1>1, Zenon
    <3> QED
      BY <3>1
  <2>2. f[m] \in Nat
    BY <2>0, <2>a, Zenon
  <2>3. \A i \in 1 .. (m + 1) - 1 : i \in 1 .. m - 1 \/ i = m
    OBVIOUS
  <2>4. \A i \in 1 .. m - 1 : f[i] \in Nat
    BY <2>0, <2>a, Zenon
  <2>5. \A i \in 1 .. (m + 1) - 1 : f[i] <= b + f[m]
    BY <2>1, <2>2, <2>3, <2>4
  <2>6. b + f[m] \in Nat /\ m + 1 \in 1 .. n + 1
    BY <1>3, <2>2
  <2> QED
    BY <2>5, <2>6, Zenon
<1>4. n + 1 \in T
  <2>1. T \in SUBSET Nat /\ n + 1 \in Nat /\ n + 1 \in 1 .. n + 1
    OBVIOUS
  <2> HIDE DEF T
  <2>2. 1 .. n + 1 \subseteq T
    BY <1>2, <1>3, <2>1, CountingUp, Zenon
  <2> QED
    BY <2>1, <2>2
<1>5. PICK b \in Nat : \A i \in 1 .. (n + 1) - 1 : f[i] <= b
  BY <1>4
<1>6. b \in Bounds
  <2>1. (n + 1) - 1 = n
    OBVIOUS
  <2> QED
    BY <1>1, <1>5, <2>1
<1>7. PICK m \in Bounds : \A k \in Bounds : m <= k
  <2>1. Bounds \in SUBSET Nat /\ Bounds # {}
    BY <1>6
  <2> HIDE DEF Bounds
  <2>2. Min(Bounds) \in Bounds /\ \A k \in Bounds : Min(Bounds) <= k
    BY <2>1, MinIsLeast
  <2> QED
    BY <2>2, Zenon
<1>8. m \in I
  <2> SUFFICES ASSUME m \notin I
               PROVE  FALSE
    OBVIOUS
  <2>1. PICK k \in I : TRUE
    OBVIOUS
  <2>2. m - 1 \in Nat
    BY <1>7, <2>1
  <2>3. m - 1 \in Bounds
    BY <1>7, <2>2
  <2> QED
    BY <1>7, <2>2, <2>3
<1>9. \A k \in I : m >= k
  BY <1>7
<1> QED
  BY <1>8, <1>9 DEF Max

(* f is what F makes of a first value, step by step.                       *)
StepsTo(f, F, first, lo, n) == \A k \in lo .. n : f[k] = IF k = lo THEN first ELSE F[<<k, f[k - 1]>>]

(* There is such a function.                                               *)
LEMMA StepsExist ==
  ASSUME NEW S, NEW F \in [Nat \X S -> S], NEW first \in S, NEW lo \in Nat, NEW n \in Nat
  PROVE  \E f \in [lo .. n -> S] : StepsTo(f, F, first, lo, n)
<1> DEFINE Goes(f, m) == /\ f \in [lo .. m -> S]
                         /\ \A k \in lo .. m : f[k] = IF k = lo THEN first ELSE F[<<k, f[k - 1]>>]
           T == {m \in 1 .. n + 1 : \E f : Goes(f, m - 1)}
<1>1. 1 \in T
  <2>1. \A k \in lo .. 0 : k = lo
    OBVIOUS
  <2>2. Goes([k \in lo .. 0 |-> first], 0)
    BY <2>1
  <2>3. 1 \in 1 .. n + 1 /\ 1 - 1 = 0
    OBVIOUS
  <2> HIDE DEF Goes
  <2> QED
    BY <2>2, <2>3, Zenon
<1>2. ASSUME NEW m \in T, m < n + 1
      PROVE  m + 1 \in T
  <2>1. m \in Nat /\ m + 1 \in 1 .. n + 1 /\ (m + 1) - 1 = m
    BY <1>2
  <2>2. PICK f : Goes(f, m - 1)
    BY Zenon
  <2> DEFINE g == [k \in lo .. m |-> IF k < m THEN f[k] ELSE IF k = lo THEN first ELSE F[<<k, f[k - 1]>>]]
  <2>3. \A k \in lo .. m : k < m => k \in lo .. m - 1 /\ g[k] = f[k] /\ f[k] \in S
    BY <2>1, <2>2
  <2>4. ASSUME NEW k \in lo .. m
        PROVE  g[k] \in S /\ g[k] = IF k = lo THEN first ELSE F[<<k, g[k - 1]>>]
    <3>1. k # lo => k - 1 \in lo .. m /\ k - 1 < m
      BY <2>1
    <3>2. k # lo => k - 1 \in lo .. m - 1
      BY <2>1
    <3>3. k # lo => g[k - 1] = f[k - 1] /\ f[k - 1] \in S
      BY <2>3, <3>1, Zenon
    <3>4. CASE k < m
      <4>1. g[k] = f[k] /\ f[k] \in S /\ f[k] = IF k = lo THEN first ELSE F[<<k, f[k - 1]>>]
        BY <2>2, <2>3, <3>4, Zenon
      <4> HIDE DEF g
      <4> QED
        BY <3>3, <4>1, Zenon
    <3>5. CASE ~(k < m)
      <4>1. g[k] = IF k = lo THEN first ELSE F[<<k, f[k - 1]>>]
        BY <3>5, Zenon
      <4>2. k # lo => <<k, f[k - 1]>> \in Nat \X S
        BY <3>3
      <4> HIDE DEF g
      <4> QED
        BY <3>3, <4>1, <4>2
    <3> QED
      BY <3>4, <3>5
  <2>5. g \in [lo .. m -> S]
    BY <2>4
  <2> HIDE DEF g
  <2>6. Goes(g, m)
    BY <2>4, <2>5, Zenon
  <2> HIDE DEF Goes
  <2> QED
    BY <2>1, <2>6, Zenon
<1>3. n + 1 \in T
  <2>1. T \in SUBSET Nat /\ n + 1 \in Nat /\ n + 1 \in 1 .. n + 1
    OBVIOUS
  <2> HIDE DEF T
  <2>2. 1 .. n + 1 \subseteq T
    BY <1>1, <1>2, <2>1, CountingUp, Zenon
  <2> QED
    BY <2>1, <2>2
<1>4. (n + 1) - 1 = n
  OBVIOUS
<1>5. \E f : Goes(f, n)
  BY <1>3, <1>4, Zenon
<1> QED
  BY <1>5, Zenon DEF StepsTo

-----------------------------------------------------------------------------
(* How many entries of a list are x.                                       *)
Occurs(s, x) == Cardinality({i \in 1 .. Len(s) : s[i] = x})

(* A set of numbers that moves as a whole keeps its size.                  *)
LEMMA ShiftKeepsSize ==
  ASSUME NEW I \in SUBSET Int, IsFiniteSet(I), NEW k \in Int
  PROVE  IsFiniteSet({i + k : i \in I}) /\ Cardinality({i + k : i \in I}) = Cardinality(I)
<1> DEFINE J == {i + k : i \in I}
           f == [i \in I |-> i + k]
<1>1. f \in [I -> J] /\ \A i, j \in I : f[i] = f[j] => i = j
  OBVIOUS
<1>2. \A j \in J : \E i \in I : f[i] = j
  OBVIOUS
<1>3. f \in Bijection(I, J)
  BY <1>1, <1>2 DEF Bijection, Injection, Surjection, IsInjective
<1> HIDE DEF f, J
<1>4. ExistsBijection(I, J)
  BY <1>3 DEF ExistsBijection
<1> QED
  BY <1>4, FS_Bijection, Zenon DEF J

(* Nothing occurs in the empty list.                                       *)
LEMMA OccursInNone ==
  ASSUME NEW x
  PROVE  Occurs(<<>>, x) = 0
<1>1. {i \in 1 .. Len(<<>>) : <<>>[i] = x} = {}
  OBVIOUS
<1> QED
  BY <1>1, FS_EmptySet, Zenon DEF Occurs

(* A list of one entry.                                                    *)
LEMMA OccursInOne ==
  ASSUME NEW e, NEW x
  PROVE  Occurs(<<e>>, x) = IF e = x THEN 1 ELSE 0
<1>1. {i \in 1 .. Len(<<e>>) : <<e>>[i] = x} = IF e = x THEN {1} ELSE {}
  OBVIOUS
<1>2. {1} = {} \cup {1} /\ 1 \notin {}
  OBVIOUS
<1>3. Cardinality({1}) = 1
  BY <1>2, FS_EmptySet, FS_AddElement
<1> QED
  BY <1>1, <1>3, FS_EmptySet DEF Occurs

(* How often something occurs is a number.                                 *)
LEMMA OccursIsNumber ==
  ASSUME NEW S, NEW s \in Seq(S), NEW x
  PROVE  Occurs(s, x) \in Nat
<1>1. IsFiniteSet(1 .. Len(s))
  BY FS_Interval
<1>2. IsFiniteSet({i \in 1 .. Len(s) : s[i] = x})
  BY <1>1, FS_Subset
<1> QED
  BY <1>2, FS_CardinalityType DEF Occurs

(* The entries of two lists are counted one list after the other.          *)
LEMMA OccursInBoth ==
  ASSUME NEW S, NEW s \in Seq(S), NEW t \in Seq(S), NEW x
  PROVE  Occurs(s \o t, x) = Occurs(s, x) + Occurs(t, x)
<1> DEFINE I == {i \in 1 .. Len(s) : s[i] = x}
           J == {i \in 1 .. Len(t) : t[i] = x}
           K == {j + Len(s) : j \in J}
           n == Len(s)
<1>1. /\ s \o t \in Seq(S) /\ Len(s \o t) = n + Len(t) /\ n \in Nat /\ Len(t) \in Nat
      /\ \A i \in 1 .. n + Len(t) : (s \o t)[i] = IF i <= n THEN s[i] ELSE t[i - n]
  BY ConcatProperties
<1>2. {i \in 1 .. Len(s \o t) : (s \o t)[i] = x} = I \cup K
  <2>1. \A i \in 1 .. n + Len(t) : i \in 1 .. n \/ i - n \in 1 .. Len(t)
    BY <1>1
  <2>2. ASSUME NEW i \in 1 .. Len(s \o t), (s \o t)[i] = x
        PROVE  i \in I \cup K
    <3>1. CASE i <= n
      BY <1>1, <2>2, <3>1
    <3>2. CASE ~(i <= n)
      <4>1. i - n \in J /\ i = (i - n) + n
        BY <1>1, <2>2, <3>2
      <4> QED
        BY <4>1
    <3> QED
      BY <3>1, <3>2
  <2>3. ASSUME NEW i \in I
        PROVE  i \in 1 .. Len(s \o t) /\ (s \o t)[i] = x
    BY <1>1
  <2>4. ASSUME NEW j \in J
        PROVE  j + n \in 1 .. Len(s \o t) /\ (s \o t)[j + n] = x
    <3>1. j \in 1 .. Len(t) /\ t[j] = x
      OBVIOUS
    <3>2. j + n \in 1 .. n + Len(t) /\ ~(j + n <= n) /\ (j + n) - n = j
      BY <1>1, <3>1
    <3> QED
      BY <1>1, <3>1, <3>2
  <2> QED
    BY <2>2, <2>3, <2>4
<1>3. IsFiniteSet(I) /\ IsFiniteSet(J)
  <2>1. IsFiniteSet(1 .. Len(s)) /\ IsFiniteSet(1 .. Len(t))
    BY <1>1, FS_Interval
  <2> QED
    BY <2>1, FS_Subset
<1>4. IsFiniteSet(K) /\ Cardinality(K) = Cardinality(J)
  <2>1. J \in SUBSET Int /\ n \in Int
    BY <1>1
  <2> HIDE DEF J
  <2> QED
    BY <1>3, <2>1, ShiftKeepsSize
<1>5. I \cap K = {}
  BY <1>1
<1> HIDE DEF I, J, K
<1>6. Cardinality(I \cup K) = Cardinality(I) + Cardinality(K) - Cardinality(I \cap K)
  BY <1>3, <1>4, FS_Union
<1>7. Cardinality(I) \in Nat /\ Cardinality(J) \in Nat /\ Cardinality(I \cap K) = 0
  BY <1>3, <1>5, FS_CardinalityType, FS_EmptySet
<1>8. Cardinality(I \cup K) = Cardinality(I) + Cardinality(J)
  BY <1>4, <1>6, <1>7
<1>9. /\ Occurs(s \o t, x) = Cardinality({i \in 1 .. Len(s \o t) : (s \o t)[i] = x})
      /\ Occurs(s, x) = Cardinality(I) /\ Occurs(t, x) = Cardinality(J)
  BY Zenon DEF Occurs, I, J
<1> QED
  BY <1>2, <1>8, <1>9, Zenon

(* One entry more.                                                         *)
LEMMA OccursInAppend ==
  ASSUME NEW S, NEW s \in Seq(S), NEW e \in S, NEW x
  PROVE  Occurs(Append(s, e), x) = Occurs(s, x) + IF e = x THEN 1 ELSE 0
<1>1. Append(s, e) = s \o <<e>> /\ <<e>> \in Seq(S)
  BY AppendIsConcat
<1>2. Occurs(s \o <<e>>, x) = Occurs(s, x) + Occurs(<<e>>, x)
  BY <1>1, OccursInBoth
<1> QED
  BY <1>1, <1>2, OccursInOne, Zenon

(* One entry less.                                                         *)
LEMMA OccursInTail ==
  ASSUME NEW S, NEW s \in Seq(S), s # <<>>, NEW x
  PROVE  Occurs(s, x) = Occurs(Tail(s), x) + IF Head(s) = x THEN 1 ELSE 0
<1>1. Head(s) \in S /\ Tail(s) \in Seq(S) /\ s = <<Head(s)>> \o Tail(s)
  OBVIOUS
<1>2. PICK h \in S, t \in Seq(S) : h = Head(s) /\ t = Tail(s) /\ s = <<h>> \o t
  BY <1>1, Zenon
<1>3. <<h>> \in Seq(S)
  OBVIOUS
<1>4. Occurs(<<h>> \o t, x) = Occurs(<<h>>, x) + Occurs(t, x)
  BY <1>3, OccursInBoth, Zenon
<1>5. Occurs(t, x) \in Nat /\ Occurs(<<h>>, x) = IF h = x THEN 1 ELSE 0
  BY OccursIsNumber, OccursInOne, Zenon
<1>6. \A a, b \in Nat : a + b = b + a
  OBVIOUS
<1>7. Occurs(s, x) = (IF h = x THEN 1 ELSE 0) + Occurs(t, x) /\ (IF h = x THEN 1 ELSE 0) \in Nat
  BY <1>2, <1>4, <1>5
<1> QED
  BY <1>2, <1>5, <1>6, <1>7, Zenon
=============================================================================
