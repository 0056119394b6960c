---------------------------- MODULE SequenceFacts ----------------------------
(***************************************************************************)
(* What the proofs need to know of sequences whose elements may be         *)
(* anything, of the least and the greatest of a set of numbers, of finite  *)
(* sets listed as sequences, and of sums over finite sets. The library has *)
(* no facts about folds: here they are, by induction on the subsets of a   *)
(* finite set.                                                             *)
(***************************************************************************)
EXTENDS Integers, SequencesExt, SequenceTheorems, FiniteSetTheorems, WellFoundedInduction, TLAPS

-----------------------------------------------------------------------------
(* Sequences *)

\* A sequence of anything: its range is left open.
IsSequence(s) == s \in Seq({s[i] : i \in DOMAIN s})

\* No element comes twice.
Distinct(s) == \A i, j \in DOMAIN s : s[i] = s[j] => i = j

LEMMA SequenceLength ==
    ASSUME NEW s, IsSequence(s)
    PROVE  Len(s) \in Nat /\ DOMAIN s = 1..Len(s)
BY DEF IsSequence

LEMMA AnySequence == ASSUME NEW S, NEW s \in Seq(S) PROVE IsSequence(s)
<1>1. Len(s) \in Nat /\ DOMAIN s = 1..Len(s) /\ s \in [1..Len(s) -> {s[i] : i \in DOMAIN s}]
  OBVIOUS
<1> QED BY <1>1 DEF IsSequence

LEMMA SequenceOver ==
    ASSUME NEW S, NEW s, IsSequence(s), \A i \in DOMAIN s : s[i] \in S
    PROVE  s \in Seq(S)
<1>1. Len(s) \in Nat /\ DOMAIN s = 1..Len(s) /\ s = [i \in 1..Len(s) |-> s[i]]
  BY SequenceLength DEF IsSequence
<1>2. s \in [1..Len(s) -> S]
  BY <1>1
<1> QED BY <1>1, <1>2

LEMMA Listing ==
    ASSUME NEW n \in Nat, NEW f, f = [i \in 1..n |-> f[i]]
    PROVE  IsSequence(f) /\ Len(f) = n
<1> DEFINE S == {f[i] : i \in 1..n}
<1>1. f \in [1..n -> S]
  OBVIOUS
<1>2. f \in Seq(S) /\ Len(f) = n
  BY <1>1
<1> QED BY <1>2, AnySequence

LEMMA EmptySequence == IsSequence(<<>>) /\ Len(<<>>) = 0 /\ DOMAIN <<>> = {}
BY DEF IsSequence

LEMMA Appending ==
    ASSUME NEW s, NEW e, IsSequence(s)
    PROVE  /\ IsSequence(Append(s, e)) /\ Len(Append(s, e)) = Len(s) + 1
           /\ DOMAIN s = 1..Len(s) /\ DOMAIN Append(s, e) = 1..(Len(s) + 1)
           /\ \A i \in 1..Len(s) : Append(s, e)[i] = s[i]
           /\ Append(s, e)[Len(s) + 1] = e
<1> DEFINE S == {s[i] : i \in DOMAIN s} \cup {e}
<1>1. s \in Seq(S) /\ e \in S
  BY DEF IsSequence
<1> HIDE DEF S
<1>2. /\ Append(s, e) \in Seq(S) /\ Len(Append(s, e)) = Len(s) + 1
      /\ \A i \in 1..Len(s) : Append(s, e)[i] = s[i]
      /\ Append(s, e)[Len(s) + 1] = e
  BY <1>1
<1>3. IsSequence(Append(s, e))
  BY <1>2, AnySequence
<1> QED BY <1>2, <1>3, SequenceLength

LEMMA Prefix ==
    ASSUME NEW s, IsSequence(s), NEW n \in 0..Len(s)
    PROVE  /\ IsSequence(SubSeq(s, 1, n)) /\ Len(SubSeq(s, 1, n)) = n
           /\ \A i \in 1..n : SubSeq(s, 1, n)[i] = s[i]
<1> DEFINE S == {s[i] : i \in DOMAIN s}
           a == SubSeq(s, 1, n)
<1>1. s \in Seq(S) /\ Len(s) \in Nat
  BY DEF IsSequence
<1>2. /\ a \in Seq(S) /\ Len(a) = n /\ DOMAIN a = 1..n
      /\ \A i \in 1..n : a[i] = s[i]
  BY <1>1
<1> HIDE DEF a
<1>3. a \in Seq({a[i] : i \in DOMAIN a})
  BY <1>2
<1> QED BY <1>2, <1>3 DEF IsSequence, a

\* A concatenation holds the elements of both sequences, in order.
LEMMA Concatenation ==
    ASSUME NEW S, NEW a \in Seq(S), NEW b \in Seq(S)
    PROVE  /\ a \o b \in Seq(S) /\ Len(a \o b) = Len(a) + Len(b)
           /\ Len(a) \in Nat /\ Len(b) \in Nat
           /\ \A i \in 1..Len(a) : (a \o b)[i] = a[i]
           /\ \A i \in 1..Len(b) : (a \o b)[Len(a) + i] = b[i]
<1>1. /\ a \o b \in Seq(S) /\ Len(a \o b) = Len(a) + Len(b)
      /\ \A i \in 1..(Len(a) + Len(b)) : (a \o b)[i] = IF i <= Len(a) THEN a[i] ELSE b[i - Len(a)]
  BY ConcatProperties
<1>2. Len(a) \in Nat /\ Len(b) \in Nat
  OBVIOUS
<1> DEFINE ab == a \o b
           m == Len(a)
           n == Len(b)
<1>3. \A i \in 1..(m + n) : ab[i] = IF i <= m THEN a[i] ELSE b[i - m]
  BY <1>1
<1>4. m \in Nat /\ n \in Nat
  BY <1>2
<1> HIDE DEF ab, m, n
<1>5. ASSUME NEW i \in 1..m
      PROVE  ab[i] = a[i]
  BY <1>3, <1>4
<1>6. ASSUME NEW i \in 1..n
      PROVE  ab[m + i] = b[i]
  <2>1. m + i \in 1..(m + n) /\ ~(m + i <= m) /\ (m + i) - m = i
    BY <1>4
  <2>2. ab[m + i] = b[(m + i) - m]
    BY <1>3, <2>1
  <2> QED BY <2>1, <2>2
<1> QED BY <1>1, <1>2, <1>5, <1>6 DEF ab, m, n

LEMMA Joined ==
    ASSUME NEW a, NEW b, IsSequence(a), IsSequence(b)
    PROVE  /\ IsSequence(a \o b) /\ Len(a \o b) = Len(a) + Len(b)
           /\ DOMAIN (a \o b) = 1..(Len(a) + Len(b))
           /\ \A i \in 1..Len(a) : (a \o b)[i] = a[i]
           /\ \A i \in 1..Len(b) : (a \o b)[Len(a) + i] = b[i]
           /\ ToSet(a \o b) = ToSet(a) \cup ToSet(b)
<1> DEFINE S == {a[i] : i \in DOMAIN a} \cup {b[i] : i \in DOMAIN b}
           ab == a \o b
           m == Len(a)
           n == Len(b)
<1>1. a \in Seq(S) /\ b \in Seq(S) /\ DOMAIN a = 1..m /\ DOMAIN b = 1..n
  BY DEF IsSequence
<1> HIDE DEF S
<1>2. /\ ab \in Seq(S) /\ Len(ab) = m + n /\ m \in Nat /\ n \in Nat
      /\ \A i \in 1..m : ab[i] = a[i]
      /\ \A i \in 1..n : ab[m + i] = b[i]
  BY <1>1, Concatenation
<1> HIDE DEF ab, m, n
<1>3. IsSequence(ab)
  BY <1>2, AnySequence
<1>4. DOMAIN ab = 1..(m + n)
  BY <1>2, <1>3, SequenceLength
<1>5. ToSet(ab) = ToSet(a) \cup ToSet(b)
  <2>1. \A i \in 1..m : i \in 1..(m + n)
    BY <1>2
  <2>2. \A i \in 1..n : m + i \in 1..(m + n)
    BY <1>2
  <2>3. \A k \in 1..(m + n) : k \in 1..m \/ \E i \in 1..n : k = m + i
    <3> SUFFICES ASSUME NEW k \in 1..(m + n), k \notin 1..m PROVE k - m \in 1..n /\ k = m + (k - m)
      OBVIOUS
    <3> QED BY <1>2
  <2>4. \A k \in 1..(m + n) : ab[k] \in {a[i] : i \in 1..m} \cup {b[i] : i \in 1..n}
    BY <1>2, <2>3
  <2>5. (\A i \in 1..m : \E k \in 1..(m + n) : a[i] = ab[k]) /\ (\A i \in 1..n : \E k \in 1..(m + n) : b[i] = ab[k])
    BY <1>2, <2>1, <2>2
  <2>6. {ab[k] : k \in 1..(m + n)} = {a[i] : i \in 1..m} \cup {b[i] : i \in 1..n}
    BY <2>4, <2>5
  <2> QED BY <1>1, <1>4, <2>6 DEF ToSet
<1> QED BY <1>2, <1>3, <1>4, <1>5 DEF ab, m, n

\* What is left of a sequence without one of its elements, and where.
LEMMA RemovedAt ==
    ASSUME NEW S, NEW s \in Seq(S), NEW i \in DOMAIN s
    PROVE  /\ RemoveAt(s, i) \in Seq(S) /\ Len(RemoveAt(s, i)) = Len(s) - 1
           /\ DOMAIN RemoveAt(s, i) = 1..(Len(s) - 1)
           /\ \A k \in DOMAIN RemoveAt(s, i) : LET j == IF k < i THEN k ELSE k + 1
                                               IN  j \in DOMAIN s /\ RemoveAt(s, i)[k] = s[j]
<1> DEFINE a == SubSeq(s, 1, i - 1)
           b == SubSeq(s, i + 1, Len(s))
           n == Len(s)
           rest == RemoveAt(s, i)
<1>1. n \in Nat /\ i \in 1..n /\ DOMAIN s = 1..n
  OBVIOUS
<1>2. /\ a \in Seq(S) /\ Len(a) = i - 1
      /\ b \in Seq(S) /\ Len(b) = n - i
      /\ \A k \in 1..(i - 1) : a[k] = s[k]
      /\ \A k \in 1..(n - i) : b[k] = s[i + k]
  <2>1. a \in Seq(S) /\ Len(a) = i - 1 /\ \A k \in 1..(i - 1) : a[k] = s[k]
    BY <1>1
  <2>2. b \in Seq(S) /\ Len(b) = n - i
    BY <1>1
  <2>3. \A k \in 1..(n - i) : b[k] = s[i + k]
    BY <1>1
  <2> QED BY <2>1, <2>2, <2>3
<1>3. rest = a \o b
  BY DEF RemoveAt
<1> HIDE DEF a, b, n, rest
<1>4. /\ a \o b \in Seq(S) /\ Len(a \o b) = Len(a) + Len(b)
      /\ \A k \in 1..Len(a) : (a \o b)[k] = a[k]
      /\ \A k \in 1..Len(b) : (a \o b)[Len(a) + k] = b[k]
  <2>1. a \in Seq(S) /\ b \in Seq(S)
    BY <1>2
  <2>2. ASSUME NEW u \in Seq(S), NEW v \in Seq(S)
        PROVE  /\ u \o v \in Seq(S) /\ Len(u \o v) = Len(u) + Len(v)
               /\ \A k \in 1..Len(u) : (u \o v)[k] = u[k]
               /\ \A k \in 1..Len(v) : (u \o v)[Len(u) + k] = v[k]
    BY Concatenation
  <2> QED BY ONLY <2>1, <2>2
<1>5. rest \in Seq(S) /\ Len(rest) = n - 1 /\ DOMAIN rest = 1..(n - 1)
  <2>1. rest \in Seq(S) /\ Len(rest) = (i - 1) + (n - i)
    BY <1>2, <1>3, <1>4
  <2>2. Len(rest) = n - 1
    BY <1>1, <2>1
  <2> QED BY <2>1, <2>2
<1>6. ASSUME NEW k \in DOMAIN rest
      PROVE  LET j == IF k < i THEN k ELSE k + 1 IN j \in DOMAIN s /\ rest[k] = s[j]
  <2>1. CASE k < i
    <3>1. k \in 1..(i - 1) /\ k \in 1..n
      BY <1>1, <1>5, <2>1
    <3> QED BY <1>1, <1>2, <1>3, <1>4, <2>1, <3>1
  <2>2. CASE ~(k < i)
    <3> DEFINE d == k - (i - 1)
    <3>1. d \in 1..(n - i) /\ (i - 1) + d = k /\ i + d = k + 1 /\ k + 1 \in 1..n
      BY <1>1, <1>5, <2>2
    <3> HIDE DEF d
    <3>2. rest[k] = b[d] /\ b[d] = s[i + d]
      BY <1>2, <1>3, <1>4, <3>1
    <3> QED BY <1>1, <2>2, <3>1, <3>2
  <2> QED BY <2>1, <2>2
<1> QED BY <1>5, <1>6 DEF rest, n

LEMMA SequenceFinite ==
    ASSUME NEW s, IsSequence(s)
    PROVE  /\ IsFiniteSet(ToSet(s)) /\ Cardinality(ToSet(s)) \in Nat
           /\ Cardinality(ToSet(s)) <= Len(s)
<1>1. Len(s) \in Nat /\ DOMAIN s = 1..Len(s)
  BY SequenceLength
<1>2. s \in [1..Len(s) -> ToSet(s)]
  BY <1>1 DEF IsSequence, ToSet
<1>3. s \in Surjection(1..Len(s), ToSet(s))
  BY <1>1, <1>2 DEF Surjection, ToSet
<1>4. ExistsSurjection(1..Len(s), ToSet(s))
  BY <1>3 DEF ExistsSurjection
<1> QED BY <1>1, <1>4, FS_NatSurjection, FS_SurjCardinalityBound, FS_CardinalityType

LEMMA DistinctCount ==
    ASSUME NEW s, IsSequence(s), Distinct(s)
    PROVE  Cardinality(ToSet(s)) = Len(s)
<1>1. Len(s) \in Nat /\ DOMAIN s = 1..Len(s)
  BY SequenceLength
<1>2. s \in [1..Len(s) -> ToSet(s)]
  BY <1>1 DEF IsSequence, ToSet
<1>3. s \in Surjection(1..Len(s), ToSet(s))
  BY <1>1, <1>2 DEF Surjection, ToSet
<1>4. s \in Injection(1..Len(s), ToSet(s))
  BY <1>1, <1>2 DEF Injection, Distinct, IsInjective
<1>5. ExistsBijection(1..Len(s), ToSet(s))
  BY <1>3, <1>4 DEF ExistsBijection, Bijection
<1> QED BY <1>1, <1>5, FS_CountingElements

-----------------------------------------------------------------------------
(* Numbers *)

LEMMA LeastOfSome ==
    ASSUME NEW S, S \subseteq Nat, S # {}
    PROVE  \E i \in S : \A j \in S : i <= j
<1> DEFINE R == OpToRel(<, Nat)
<1>1. \A i, j \in Nat : j < i => <<j, i>> \in R
  BY DEF OpToRel
<1>2. IsWellFoundedOn(R, Nat)
  BY NatLessThanWellFounded
<1> HIDE DEF R
<1>3. \E i \in S : \A j \in S : ~(<<j, i>> \in R)
  BY <1>2, WFMin
<1>4. ASSUME NEW i \in S, \A j \in S : ~(<<j, i>> \in R), NEW j \in S
      PROVE  i <= j
  <2>1. i \in Nat /\ j \in Nat
    OBVIOUS
  <2>2. ~(j < i)
    BY <1>1, <1>4, <2>1
  <2> QED BY <2>1, <2>2
<1> QED BY <1>3, <1>4

\* What is false of no number up to n if it passes from each to the next.
LEMMA NoneOf ==
    ASSUME NEW n \in Nat, NEW Bad \in SUBSET (0..n), 0 \notin Bad,
           \A k \in 1..n : k - 1 \notin Bad => k \notin Bad
    PROVE  Bad = {}
<1> SUFFICES ASSUME Bad # {} PROVE FALSE
  OBVIOUS
<1>1. Bad \subseteq Nat
  OBVIOUS
<1>2. PICK k \in Bad : \A j \in Bad : k <= j
  BY <1>1, LeastOfSome
<1>3. k \in 1..n /\ k - 1 \in Nat /\ ~(k <= k - 1)
  BY <1>2
<1> QED BY <1>2, <1>3

LEMMA MaxIs ==
    ASSUME NEW s, s \subseteq Nat, NEW m \in s, \A j \in s : j <= m
    PROVE  Max(s) = m
<1>1. m \in s /\ \A y \in s : m >= y
  OBVIOUS
<1>2. Max(s) \in s /\ \A y \in s : Max(s) >= y
  BY <1>1 DEF Max
<1> HIDE DEF Max
<1>3. m \in Nat /\ Max(s) \in Nat
  BY <1>2
<1> QED BY <1>2, <1>3

-----------------------------------------------------------------------------
(* Finite sets *)

\* A finite set as a sequence.
Lists(f, S) ==
    /\ IsSequence(f) /\ ToSet(f) = S
    /\ Distinct(f)

LEMMA ListedSet ==
    ASSUME NEW S, IsFiniteSet(S)
    PROVE  Lists(SetToSeq(S), S)
<1> DEFINE n == Cardinality(S)
           f == SetToSeq(S)
<1>1. n \in Nat /\ ExistsBijection(1..n, S)
  BY FS_CardinalityType
<1>2. \E g \in [1..n -> S] : IsInjective(g)
  BY <1>1 DEF ExistsBijection, Bijection, Injection
<1>3. f \in [1..n -> S] /\ IsInjective(f)
  BY <1>2 DEF SetToSeq
<1> HIDE DEF f
<1>4. f \in Injection(1..n, S)
  BY <1>3 DEF Injection
<1>5. Cardinality(1..n) = n
  BY <1>1, FS_CountingElements, FS_Interval
<1>6. f \in Surjection(1..n, S)
  BY <1>4, <1>5, FS_Injection
<1>7. ToSet(f) = S
  BY <1>3, <1>6 DEF Surjection, ToSet
<1>8. f \in Seq(S)
  BY <1>1, <1>3
<1>9. \A i, j \in DOMAIN f : f[i] = f[j] => i = j
  BY <1>3 DEF IsInjective
<1> QED BY <1>7, <1>8, <1>9, AnySequence DEF f, Lists, Distinct

\* What holds of a set whenever it holds of the set less any one element holds
\* of all subsets of a finite set.
LEMMA SetInduction ==
    ASSUME NEW S, IsFiniteSet(S), NEW Good,
           \A A \in SUBSET S : (\A x \in A : A \ {x} \in Good) => A \in Good
    PROVE  \A A \in SUBSET S : A \in Good
<1> DEFINE n == Cardinality(S)
           Bad == {k \in 0..n : \E A \in SUBSET S : A \notin Good /\ Cardinality(A) = k}
<1>1. n \in Nat
  BY FS_CardinalityType
<1>2. ASSUME NEW A \in SUBSET S
      PROVE  /\ Cardinality(A) \in 0..n
             /\ Cardinality(A) = 0 => A = {}
             /\ \A x \in A : Cardinality(A \ {x}) = Cardinality(A) - 1
  <2>1. IsFiniteSet(A) /\ Cardinality(A) <= n
    BY FS_Subset
  <2>2. Cardinality(A) \in Nat
    BY <2>1, FS_CardinalityType
  <2>3. Cardinality(A) = 0 => A = {}
    BY <2>1, FS_EmptySet
  <2>4. ASSUME NEW x \in A PROVE Cardinality(A \ {x}) = Cardinality(A) - 1
    BY <2>1, FS_RemoveElement
  <2>5. Cardinality(A) \in 0..n
    BY <1>1, <2>1, <2>2
  <2> QED BY <2>3, <2>4, <2>5
<1> HIDE DEF n
<1>3. 0 \notin Bad
  BY <1>2
<1>4. ASSUME NEW k \in 1..n, k - 1 \notin Bad PROVE k \notin Bad
  <2> SUFFICES ASSUME NEW A \in SUBSET S, A \notin Good, Cardinality(A) = k PROVE FALSE
    OBVIOUS
  <2>1. k - 1 \in 0..n
    BY <1>1
  <2>2. ASSUME NEW x \in A PROVE A \ {x} \in Good
    <3>1. A \ {x} \in SUBSET S /\ Cardinality(A \ {x}) = k - 1
      BY <1>2
    <3> QED BY <1>4, <2>1, <3>1
  <2> QED BY <2>2
<1>5. Bad \in SUBSET (0..n)
  OBVIOUS
<1> HIDE DEF Bad
<1>6. Bad = {}
  BY <1>1, <1>3, <1>4, <1>5, NoneOf
<1> QED BY <1>2, <1>6 DEF Bad

\* Of finitely many numbers one is the greatest.
LEMMA GreatestOf ==
    ASSUME NEW S, IsFiniteSet(S), S # {}, NEW f, \A x \in S : f[x] \in Nat
    PROVE  \E u \in S : \A x \in S : f[x] <= f[u]
<1> DEFINE Good == {A \in SUBSET S : A # {} => \E u \in A : \A x \in A : f[x] <= f[u]}
<1>1. ASSUME NEW A \in SUBSET S, \A x \in A : A \ {x} \in Good
      PROVE  A \in Good
  <2> SUFFICES ASSUME NEW a \in A
               PROVE  \E u \in A : \A x \in A : f[x] <= f[u]
    OBVIOUS
  <2>1. CASE A = {a}
    BY <2>1
  <2>2. CASE A # {a}
    <3>1. A \ {a} # {} /\ A \ {a} \in Good
      BY <1>1, <2>2
    <3>2. PICK u \in A \ {a} : \A x \in A \ {a} : f[x] <= f[u]
      BY <3>1
    <3>3. f[u] \in Nat /\ f[a] \in Nat
      OBVIOUS
    <3>4. CASE f[a] <= f[u]
      BY <3>2, <3>4
    <3>5. CASE f[u] <= f[a]
      <4>1. ASSUME NEW x \in A PROVE f[x] <= f[a]
        BY <3>2, <3>3, <3>5
      <4> QED BY <4>1
    <3> QED BY <3>3, <3>4, <3>5
  <2> QED BY <2>1, <2>2
<1> HIDE DEF Good
<1>2. S \in Good
  BY <1>1, SetInduction
<1> QED BY <1>2 DEF Good

-----------------------------------------------------------------------------
(* Sums *)

SumStep(f, g, s) == IF s = {} THEN 0 ELSE g[CHOOSE x \in s : TRUE] + f[s \ {CHOOSE x \in s : TRUE}]
\* What SumFunctionOnSet chooses: the sums of g over all subsets of S.
SumsOf(f, g, S) == f = [s \in SUBSET S |-> SumStep(f, g, s)]
Integral(g, S) == \A x \in S : g[x] \in Int
Agree(g, k, S) == \A x \in S : g[x] = k[x]

LEMMA SumsExist ==
    ASSUME NEW S, IsFiniteSet(S), NEW g
    PROVE  \E f : SumsOf(f, g, S)
<1> DEFINE Small(k) == {s \in SUBSET S : Cardinality(s) <= k}
           n == Cardinality(S)
           Bad == {k \in 0..n : ~ \E f : f = [s \in Small(k) |-> SumStep(f, g, s)]}
<1>1. n \in Nat
  BY FS_CardinalityType
<1>2. \A s \in SUBSET S : /\ Cardinality(s) \in Nat /\ Cardinality(s) <= n
                          /\ Cardinality(s) = 0 <=> s = {}
                          /\ \A x \in s : Cardinality(s \ {x}) = Cardinality(s) - 1
  BY FS_Subset, FS_CardinalityType, FS_EmptySet, FS_RemoveElement
<1> HIDE DEF n
<1>3. 0 \notin Bad
  <2> DEFINE f == [s \in Small(0) |-> 0]
  <2>1. \A s \in Small(0) : s = {}
    BY <1>2
  <2>2. \A s \in Small(0) : f[s] = SumStep(f, g, s)
    BY <2>1 DEF SumStep
  <2>3. f = [s \in Small(0) |-> SumStep(f, g, s)]
    BY <2>2
  <2> QED BY <2>3
<1>4. ASSUME NEW k \in 1..n, k - 1 \notin Bad PROVE k \notin Bad
  <2>1. k - 1 \in 0..n
    BY <1>1
  <2>2. PICK f : f = [s \in Small(k - 1) |-> SumStep(f, g, s)]
    BY <1>4, <2>1
  <2> DEFINE h == [s \in Small(k) |-> SumStep(f, g, s)]
  <2>3. ASSUME NEW s \in Small(k) PROVE h[s] = SumStep(h, g, s)
    <3>1. CASE s = {}
      BY <3>1 DEF SumStep
    <3>2. CASE s # {}
      <4> DEFINE x == CHOOSE y \in s : TRUE
      <4>1. x \in s
        BY <3>2
      <4> HIDE DEF x
      <4>2. s \ {x} \in Small(k - 1) /\ s \ {x} \in Small(k)
        <5>1. Cardinality(s \ {x}) = Cardinality(s) - 1 /\ Cardinality(s) \in Nat /\ Cardinality(s) <= k
          BY <1>2, <4>1
        <5>2. Cardinality(s \ {x}) <= k - 1 /\ Cardinality(s \ {x}) <= k
          BY <1>1, <5>1
        <5> QED BY <5>2
      <4>3. f[s \ {x}] = SumStep(f, g, s \ {x})
        BY <2>2, <4>2
      <4>4. h[s \ {x}] = f[s \ {x}]
        BY <4>2, <4>3
      <4>5. h[s] = g[x] + f[s \ {x}]
        BY <3>2 DEF SumStep, x
      <4>6. SumStep(h, g, s) = g[x] + h[s \ {x}]
        BY <3>2 DEF SumStep, x
      <4> QED BY <4>4, <4>5, <4>6
    <3> QED BY <3>1, <3>2
  <2>4. h = [s \in Small(k) |-> h[s]]
    OBVIOUS
  <2> HIDE DEF h
  <2>5. h = [s \in Small(k) |-> SumStep(h, g, s)]
    BY <2>3, <2>4
  <2> QED BY <2>5
<1>5. Bad \in SUBSET (0..n)
  OBVIOUS
<1> HIDE DEF Bad
<1>6. Bad = {}
  BY <1>1, <1>3, <1>4, <1>5, NoneOf
<1>7. PICK f : f = [s \in Small(n) |-> SumStep(f, g, s)]
  <2>1. n \in 0..n /\ n \notin Bad
    BY <1>1, <1>6
  <2> HIDE DEF Small
  <2> QED BY <2>1 DEF Bad
<1>8. Small(n) = SUBSET S
  BY <1>2
<1> QED BY <1>7, <1>8 DEF SumsOf

LEMMA SumIsOne ==
    ASSUME NEW S, IsFiniteSet(S), NEW g
    PROVE  \E f : SumsOf(f, g, S) /\ SumFunctionOnSet(g, S) = f[S]
<1> DEFINE f == CHOOSE iter : SumsOf(iter, g, S)
<1>1. SumsOf(f, g, S)
  BY SumsExist
<1>2. SumFunctionOnSet(g, S) = f[S]
  BY DEF SumFunctionOnSet, FoldFunctionOnSet, MapThenFoldSet, SumsOf, SumStep
<1> QED BY <1>1, <1>2

LEMMA SumsAgree ==
    ASSUME NEW S, IsFiniteSet(S), NEW T \in SUBSET S, NEW f, NEW h, NEW g, NEW k,
           SumsOf(f, g, S), SumsOf(h, k, T), Agree(g, k, T)
    PROVE  f[T] = h[T]
<1> DEFINE Good == {A \in SUBSET T : f[A] = h[A]}
<1>1. IsFiniteSet(T)
  BY FS_Subset
<1>2. ASSUME NEW A \in SUBSET T, \A x \in A : A \ {x} \in Good PROVE A \in Good
  <2>1. f[A] = SumStep(f, g, A) /\ h[A] = SumStep(h, k, A)
    BY DEF SumsOf
  <2>2. CASE A = {}
    BY <2>1, <2>2 DEF SumStep
  <2>3. CASE A # {}
    <3> DEFINE x == CHOOSE y \in A : TRUE
    <3>1. x \in A
      BY <2>3
    <3>2. f[A] = g[x] + f[A \ {x}] /\ h[A] = k[x] + h[A \ {x}]
      BY <2>1, <2>3 DEF SumStep
    <3> HIDE DEF x
    <3>3. f[A \ {x}] = h[A \ {x}] /\ g[x] = k[x]
      BY <1>2, <3>1 DEF Agree
    <3> QED BY <3>2, <3>3
  <2> QED BY <2>2, <2>3
<1> HIDE DEF Good
<1>3. T \in Good
  BY <1>1, <1>2, SetInduction
<1> QED BY <1>3 DEF Good

LEMMA SumsAreNumbers ==
    ASSUME NEW S, IsFiniteSet(S), NEW f, NEW g, SumsOf(f, g, S), Integral(g, S)
    PROVE  \A A \in SUBSET S : f[A] \in Int
<1> DEFINE Good == {A \in SUBSET S : f[A] \in Int}
<1>1. ASSUME NEW A \in SUBSET S, \A x \in A : A \ {x} \in Good PROVE A \in Good
  <2>1. f[A] = SumStep(f, g, A)
    BY DEF SumsOf
  <2>2. CASE A = {}
    BY <2>1, <2>2 DEF SumStep
  <2>3. CASE A # {}
    <3> DEFINE x == CHOOSE y \in A : TRUE
    <3>1. x \in A
      BY <2>3
    <3>2. f[A] = g[x] + f[A \ {x}]
      BY <2>1, <2>3 DEF SumStep
    <3> HIDE DEF x
    <3>3. f[A \ {x}] \in Int /\ g[x] \in Int
      BY <1>1, <3>1 DEF Integral
    <3> QED BY <3>2, <3>3
  <2> QED BY <2>2, <2>3
<1> HIDE DEF Good
<1>2. \A A \in SUBSET S : A \in Good
  BY <1>1, SetInduction
<1> QED BY <1>2 DEF Good

\* Any element can be taken out of a sum first.
LEMMA SumsTake ==
    ASSUME NEW S, IsFiniteSet(S), NEW f, NEW g, SumsOf(f, g, S), Integral(g, S)
    PROVE  \A A \in SUBSET S : \A y \in A : f[A] = g[y] + f[A \ {y}]
<1> DEFINE Good == {A \in SUBSET S : \A y \in A : f[A] = g[y] + f[A \ {y}]}
<1>1. ASSUME NEW A \in SUBSET S, \A x \in A : A \ {x} \in Good, NEW y \in A
      PROVE  f[A] = g[y] + f[A \ {y}]
  <2> DEFINE x == CHOOSE z \in A : TRUE
  <2>1. x \in A /\ f[A] = g[x] + f[A \ {x}]
    BY DEF SumsOf, SumStep
  <2> HIDE DEF x
  <2>2. CASE y = x
    BY <2>1, <2>2
  <2>3. CASE y # x
    <3>1. y \in A \ {x} /\ x \in A \ {y}
      BY <2>1, <2>3
    <3>2. f[A \ {x}] = g[y] + f[(A \ {x}) \ {y}]
      BY <1>1, <2>1, <3>1
    <3>3. f[A \ {y}] = g[x] + f[(A \ {y}) \ {x}]
      BY <1>1, <3>1
    <3>4. (A \ {x}) \ {y} = (A \ {y}) \ {x}
      OBVIOUS
    <3>5. f[(A \ {y}) \ {x}] \in Int
      <4>1. (A \ {y}) \ {x} \in SUBSET S
        OBVIOUS
      <4> QED BY <4>1, SumsAreNumbers
    <3>6. g[x] \in Int /\ g[y] \in Int
      BY <2>1 DEF Integral
    <3> DEFINE a == g[x]
               b == g[y]
               c == f[(A \ {y}) \ {x}]
    <3>7. f[A] = a + (b + c) /\ f[A \ {y}] = a + c
      BY <2>1, <3>2, <3>3, <3>4
    <3>8. a \in Int /\ b \in Int /\ c \in Int
      BY <3>5, <3>6
    <3> HIDE DEF a, b, c
    <3>9. a + (b + c) = b + (a + c)
      BY <3>8
    <3> QED BY <3>7, <3>9 DEF b
  <2> QED BY <2>2, <2>3
<1>2. \A A \in SUBSET S : (\A x \in A : A \ {x} \in Good) => A \in Good
  BY <1>1
<1> HIDE DEF Good
<1>3. \A A \in SUBSET S : A \in Good
  BY <1>2, SetInduction
<1> QED BY <1>3 DEF Good

\* What the proofs use of SumFunctionOnSet.
LEMMA SumEmpty == ASSUME NEW g PROVE SumFunctionOnSet(g, {}) = 0
<1>1. IsFiniteSet({})
  BY FS_EmptySet
<1>2. PICK f : SumsOf(f, g, {}) /\ SumFunctionOnSet(g, {}) = f[{}]
  BY <1>1, SumIsOne
<1> QED BY <1>2 DEF SumsOf, SumStep

LEMMA SumTake ==
    ASSUME NEW S, IsFiniteSet(S), NEW g, Integral(g, S)
    PROVE  /\ SumFunctionOnSet(g, S) \in Int
           /\ \A x \in S : SumFunctionOnSet(g, S) = g[x] + SumFunctionOnSet(g, S \ {x})
<1>1. PICK f : SumsOf(f, g, S) /\ SumFunctionOnSet(g, S) = f[S]
  BY SumIsOne
<1>2. SumFunctionOnSet(g, S) \in Int
  BY <1>1, SumsAreNumbers
<1>3. ASSUME NEW x \in S PROVE SumFunctionOnSet(g, S) = g[x] + SumFunctionOnSet(g, S \ {x})
  <2>1. IsFiniteSet(S \ {x}) /\ S \ {x} \in SUBSET S
    BY FS_Subset
  <2>2. PICK h : SumsOf(h, g, S \ {x}) /\ SumFunctionOnSet(g, S \ {x}) = h[S \ {x}]
    BY <2>1, SumIsOne
  <2>3. Agree(g, g, S \ {x})
    BY DEF Agree
  <2>4. f[S \ {x}] = h[S \ {x}]
    BY <1>1, <2>1, <2>2, <2>3, SumsAgree
  <2>5. f[S] = g[x] + f[S \ {x}]
    BY <1>1, SumsTake
  <2> QED BY <1>1, <2>2, <2>4, <2>5
<1> QED BY <1>2, <1>3

LEMMA SumUnion ==
    ASSUME NEW S, IsFiniteSet(S), NEW T, IsFiniteSet(T), S \cap T = {}, NEW g, Integral(g, S \cup T)
    PROVE  SumFunctionOnSet(g, S \cup T) = SumFunctionOnSet(g, S) + SumFunctionOnSet(g, T)
<1> DEFINE Total(A) == SumFunctionOnSet(g, A)
           Good == {A \in SUBSET T : Total(S \cup A) = Total(S) + Total(A)}
<1>1. Integral(g, S) /\ Total(S) \in Int
  BY SumTake DEF Integral
<1>2. ASSUME NEW A \in SUBSET T, \A x \in A : A \ {x} \in Good PROVE A \in Good
  <2>1. CASE A = {}
    <3>1. Total(A) = 0 /\ S \cup A = S
      BY <2>1, SumEmpty
    <3> QED BY <1>1, <3>1
  <2>2. CASE A # {}
    <3>1. PICK x \in A : TRUE
      BY <2>2
    <3>2. IsFiniteSet(A) /\ IsFiniteSet(S \cup A) /\ IsFiniteSet(A \ {x}) /\ Integral(g, A) /\ Integral(g, S \cup A)
          /\ Integral(g, A \ {x})
      <4>1. IsFiniteSet(A) /\ IsFiniteSet(A \ {x})
        BY FS_Subset
      <4> QED BY <4>1, FS_Union DEF Integral
    <3>3. Total(A) = g[x] + Total(A \ {x})
      BY <3>2, SumTake
    <3>4. Total(S \cup A) = g[x] + Total((S \cup A) \ {x})
      BY <3>2, SumTake
    <3>5. (S \cup A) \ {x} = S \cup (A \ {x})
      OBVIOUS
    <3>6. Total(S \cup (A \ {x})) = Total(S) + Total(A \ {x})
      BY <1>2
    <3>7. Total(A \ {x}) \in Int /\ g[x] \in Int
      BY <3>2, SumTake DEF Integral
    <3> DEFINE a == Total(S)
               b == Total(A \ {x})
               c == g[x]
    <3>8. a \in Int /\ b \in Int /\ c \in Int
      BY <1>1, <3>7
    <3>9. Total(S \cup A) = c + (a + b) /\ Total(S) = a /\ Total(A) = c + b
      BY <3>3, <3>4, <3>5, <3>6
    <3> HIDE DEF Total, a, b, c
    <3>10. c + (a + b) = a + (c + b)
      BY <3>8
    <3> QED BY <3>9, <3>10
  <2> QED BY <2>1, <2>2
<1> HIDE DEF Good
<1>3. \A A \in SUBSET T : A \in Good
  BY <1>2, SetInduction
<1> QED BY <1>3 DEF Good

LEMMA SumRenamed ==
    ASSUME NEW S, IsFiniteSet(S), NEW g, NEW h, NEW r, Integral(h, S),
           \A x \in S : h[x] = g[r[x]],
           \A x, y \in S : r[x] = r[y] => x = y
    PROVE  SumFunctionOnSet(h, S) = SumFunctionOnSet(g, {r[x] : x \in S})
<1> DEFINE Image(A) == {r[x] : x \in A}
           Good == {A \in SUBSET S : /\ IsFiniteSet(Image(A))
                                     /\ SumFunctionOnSet(h, A) = SumFunctionOnSet(g, Image(A))}
<1>1. ASSUME NEW A \in SUBSET S, \A x \in A : A \ {x} \in Good PROVE A \in Good
  <2>1. CASE A = {}
    <3>1. Image(A) = {}
      BY <2>1
    <3> QED BY <2>1, <3>1, SumEmpty, FS_EmptySet
  <2>2. CASE A # {}
    <3>1. PICK x \in A : TRUE
      BY <2>2
    <3>2. Image(A) \ {r[x]} = Image(A \ {x}) /\ r[x] \in Image(A)
      OBVIOUS
    <3>3. IsFiniteSet(Image(A \ {x})) /\ SumFunctionOnSet(h, A \ {x}) = SumFunctionOnSet(g, Image(A \ {x}))
      BY <1>1
    <3>4. Image(A) = Image(A \ {x}) \cup {r[x]}
      BY <3>2
    <3>5. IsFiniteSet(Image(A))
      <4> HIDE DEF Image
      <4>1. IsFiniteSet(Image(A \ {x}) \cup {r[x]})
        BY <3>3, FS_AddElement
      <4> QED BY <3>4, <4>1
    <3>6. IsFiniteSet(A) /\ Integral(h, A) /\ Integral(g, Image(A))
      BY FS_Subset DEF Integral
    <3>7. SumFunctionOnSet(h, A) = h[x] + SumFunctionOnSet(h, A \ {x})
      BY <3>6, SumTake
    <3>8. SumFunctionOnSet(g, Image(A)) = g[r[x]] + SumFunctionOnSet(g, Image(A) \ {r[x]})
      <4> HIDE DEF Image
      <4> QED BY <3>2, <3>5, <3>6, SumTake
    <3>9. h[x] = g[r[x]]
      OBVIOUS
    <3> HIDE DEF Image
    <3>10. SumFunctionOnSet(h, A) = SumFunctionOnSet(g, Image(A))
      BY <3>2, <3>3, <3>7, <3>8, <3>9
    <3> QED BY <3>5, <3>10
  <2> QED BY <2>1, <2>2
<1> HIDE DEF Good
<1>2. \A A \in SUBSET S : A \in Good
  BY <1>1, SetInduction
<1> QED BY <1>2 DEF Good

\* Parts of a set that do not overlap.
Apart(part, I) == \A i, j \in I : i # j => part[i] \cap part[j] = {}

LEMMA SumOfParts ==
    ASSUME NEW I, IsFiniteSet(I), NEW part, Apart(part, I), \A i \in I : IsFiniteSet(part[i]),
           NEW g, Integral(g, UNION {part[i] : i \in I}),
           NEW total, \A i \in I : total[i] = SumFunctionOnSet(g, part[i])
    PROVE  SumFunctionOnSet(g, UNION {part[i] : i \in I}) = SumFunctionOnSet(total, I)
<1> DEFINE Whole(A) == UNION {part[i] : i \in A}
           Good == {A \in SUBSET I : /\ IsFiniteSet(Whole(A))
                                     /\ SumFunctionOnSet(g, Whole(A)) = SumFunctionOnSet(total, A)}
<1>1. ASSUME NEW A \in SUBSET I, \A i \in A : A \ {i} \in Good PROVE A \in Good
  <2>1. CASE A = {}
    <3>1. Whole(A) = {}
      BY <2>1
    <3> QED BY <2>1, <3>1, SumEmpty, FS_EmptySet
  <2>2. CASE A # {}
    <3>1. PICK i \in A : TRUE
      BY <2>2
    <3>2. Whole(A) = Whole(A \ {i}) \cup part[i] /\ Whole(A \ {i}) \cap part[i] = {}
      BY DEF Apart
    <3>3. IsFiniteSet(Whole(A \ {i})) /\ SumFunctionOnSet(g, Whole(A \ {i})) = SumFunctionOnSet(total, A \ {i})
      BY <1>1
    <3>4. /\ Integral(g, Whole(A \ {i}) \cup part[i]) /\ Integral(g, Whole(A \ {i}))
          /\ \A j \in A : Integral(g, part[j])
      BY DEF Integral
    <3> HIDE DEF Whole
    <3>5. IsFiniteSet(part[i]) /\ IsFiniteSet(Whole(A))
      <4>1. IsFiniteSet(part[i])
        OBVIOUS
      <4>2. IsFiniteSet(Whole(A \ {i}))
        BY <3>3
      <4>3. IsFiniteSet(Whole(A \ {i}) \cup part[i])
        BY <4>1, <4>2, FS_Union
      <4> QED BY <3>2, <4>1, <4>3
    <3>6. SumFunctionOnSet(g, Whole(A)) = SumFunctionOnSet(g, Whole(A \ {i})) + SumFunctionOnSet(g, part[i])
      <4> DEFINE P == part[i]
                 W == Whole(A \ {i})
      <4>1. IsFiniteSet(P) /\ IsFiniteSet(W) /\ W \cap P = {} /\ Integral(g, W \cup P) /\ Whole(A) = W \cup P
        BY <3>2, <3>3, <3>4, <3>5
      <4> HIDE DEF P, W
      <4>2. SumFunctionOnSet(g, W \cup P) = SumFunctionOnSet(g, W) + SumFunctionOnSet(g, P)
        BY <4>1, SumUnion
      <4> QED BY <4>1, <4>2 DEF P, W
    <3>7. SumFunctionOnSet(g, Whole(A \ {i})) \in Int /\ SumFunctionOnSet(g, part[i]) \in Int
      BY <3>3, <3>4, <3>5, SumTake
    <3>8. Integral(total, A) /\ IsFiniteSet(A)
      BY <3>4, SumTake, FS_Subset DEF Integral
    <3>9. SumFunctionOnSet(total, A) = total[i] + SumFunctionOnSet(total, A \ {i})
      BY <3>8, SumTake
    <3>10. total[i] = SumFunctionOnSet(g, part[i])
      OBVIOUS
    <3>11. SumFunctionOnSet(g, Whole(A)) = SumFunctionOnSet(total, A)
      BY <3>3, <3>6, <3>7, <3>9, <3>10
    <3> QED BY <3>5, <3>11
  <2> QED BY <2>1, <2>2
<1> HIDE DEF Good
<1>2. \A A \in SUBSET I : A \in Good
  BY <1>1, SetInduction
<1> QED BY <1>2 DEF Good

LEMMA SizeOfParts ==
    ASSUME NEW I, IsFiniteSet(I), NEW part, Apart(part, I), \A i \in I : IsFiniteSet(part[i]),
           NEW size, \A i \in I : size[i] = Cardinality(part[i])
    PROVE  /\ IsFiniteSet(UNION {part[i] : i \in I})
           /\ Cardinality(UNION {part[i] : i \in I}) = SumFunctionOnSet(size, I)
<1> DEFINE Whole(A) == UNION {part[i] : i \in A}
           Good == {A \in SUBSET I : /\ IsFiniteSet(Whole(A))
                                     /\ Cardinality(Whole(A)) = SumFunctionOnSet(size, A)}
<1>1. ASSUME NEW A \in SUBSET I, \A i \in A : A \ {i} \in Good PROVE A \in Good
  <2>1. CASE A = {}
    <3>1. Whole(A) = {}
      BY <2>1
    <3> QED BY <2>1, <3>1, SumEmpty, FS_EmptySet
  <2>2. CASE A # {}
    <3>1. PICK i \in A : TRUE
      BY <2>2
    <3>2. Whole(A) = Whole(A \ {i}) \cup part[i] /\ Whole(A \ {i}) \cap part[i] = {}
      BY DEF Apart
    <3>3. IsFiniteSet(Whole(A \ {i})) /\ Cardinality(Whole(A \ {i})) = SumFunctionOnSet(size, A \ {i})
      BY <1>1
    <3> HIDE DEF Whole
    <3>4. IsFiniteSet(part[i]) /\ IsFiniteSet(Whole(A))
      <4>1. IsFiniteSet(part[i])
        OBVIOUS
      <4>2. IsFiniteSet(Whole(A \ {i}))
        BY <3>3
      <4>3. IsFiniteSet(Whole(A \ {i}) \cup part[i])
        BY <4>1, <4>2, FS_Union
      <4> QED BY <3>2, <4>1, <4>3
    <3>5. Cardinality(Whole(A \ {i}) \cap part[i]) = 0
      BY <3>2, FS_EmptySet
    <3>6. /\ Cardinality(Whole(A)) = Cardinality(Whole(A \ {i})) + Cardinality(part[i])
                                        - Cardinality(Whole(A \ {i}) \cap part[i])
      BY <3>2, <3>3, <3>4, FS_Union
    <3>7. Cardinality(Whole(A \ {i})) \in Nat /\ Cardinality(part[i]) \in Nat
      BY <3>3, <3>4, FS_CardinalityType
    <3>8. Integral(size, A) /\ IsFiniteSet(A)
      <4>1. \A j \in A : Cardinality(part[j]) \in Nat
        BY FS_CardinalityType
      <4> QED BY <4>1, FS_Subset DEF Integral
    <3>9. SumFunctionOnSet(size, A) = size[i] + SumFunctionOnSet(size, A \ {i})
      BY <3>8, SumTake
    <3>10. size[i] = Cardinality(part[i])
      OBVIOUS
    <3>11. Cardinality(Whole(A)) = SumFunctionOnSet(size, A)
      BY <3>3, <3>5, <3>6, <3>7, <3>9, <3>10
    <3> QED BY <3>4, <3>11
  <2> QED BY <2>1, <2>2
<1> HIDE DEF Good
<1>2. \A A \in SUBSET I : A \in Good
  BY <1>1, SetInduction
<1> QED BY <1>2 DEF Good

=============================================================================
