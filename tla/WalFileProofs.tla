---------------------------- MODULE WalFileProofs ----------------------------
(***************************************************************************)
(* The bytes of the log behave as a durable log: whatever appends that     *)
(* fail half way, truncations, restarts and power losses leave in the      *)
(* file, a replay finds the records that were acknowledged, with at most   *)
(* one more.                                                               *)
(***************************************************************************)
EXTENDS WalFile, SequenceFacts

-----------------------------------------------------------------------------
(* Halves and pages *)

LEMMA Padding ==
    ASSUME NEW n \in Nat
    PROVE  Padded(n) \in n..(n + 1) /\ Padded(n) % 2 = 0
<1>1. n % 2 = 0 \/ n % 2 = 1
  OBVIOUS
<1>2. CASE n % 2 = 0
  <2>1. Padded(n) = n
    BY <1>2 DEF Padded, Page
  <2> QED BY <1>2, <2>1
<1>3. CASE n % 2 = 1
  <2>1. Padded(n) = n + 1
    BY <1>3 DEF Padded, Page
  <2> QED BY <1>3, <2>1
<1> QED BY <1>1, <1>2, <1>3

LEMMA EvenSum ==
    ASSUME NEW a \in Nat, NEW b \in Nat, a % 2 = 0, b % 2 = 0
    PROVE  (a + b) % 2 = 0
<1>1. a = 2 * (a \div 2) /\ b = 2 * (b \div 2) /\ a \div 2 \in Nat /\ b \div 2 \in Nat
  OBVIOUS
<1>2. a + b = 2 * (a \div 2 + b \div 2)
  BY <1>1
<1>3. \A k \in Nat : (2 * k) % 2 = 0
  OBVIOUS
<1>4. (a \div 2 + b \div 2) \in Nat
  BY <1>1
<1> QED BY <1>2, <1>3, <1>4

LEMMA HalfFields ==
    ASSUME SizesAssumption, NEW h \in Halves
    PROVE  /\ h.id \in Nat /\ h.part \in Nat
           /\ h.part = 1 => h.size \in Sizes /\ h.size \in Nat \ {0} /\ h.id \in 1..MaxAppends
<1>1. CASE h \in {Magic, Zero}
  BY <1>1 DEF Magic, Zero
<1>2. ASSUME NEW r \in WalRecord, NEW i \in 1..r.size, h = Half(r, i)
      PROVE  h.id \in Nat /\ h.part \in Nat /\ h.size \in Sizes /\ h.size \in Nat \ {0} /\ h.id \in 1..MaxAppends
  <2>1. r.id \in 1..MaxAppends /\ r.size \in Sizes /\ r.size \in Nat \ {0} /\ MaxAppends \in Nat
    BY DEF WalRecord, SizesAssumption
  <2>2. h = [id |-> r.id, size |-> r.size, part |-> i]
    BY <1>2, <2>1 DEF Half
  <2> QED BY <2>1, <2>2
<1> QED BY <1>1, <1>2 DEF Halves

LEMMA FrameHolds ==
    ASSUME SizesAssumption, NEW r \in WalRecord
    PROVE  /\ r.size \in Nat \ {0} /\ Padded(r.size) \in r.size..(r.size + 1)
           /\ Frame(r) \in Seq(Halves) /\ Len(Frame(r)) = Padded(r.size)
           /\ \A i \in 1..r.size : Frame(r)[i] = [id |-> r.id, size |-> r.size, part |-> i]
           /\ \A i \in 1..Padded(r.size) : i > r.size => Frame(r)[i] = Zero
<1>1. r.size \in Nat \ {0}
  BY DEF WalRecord, SizesAssumption
<1>2. Padded(r.size) \in r.size..(r.size + 1)
  BY <1>1, Padding
<1> DEFINE n == Padded(r.size)
<1> HIDE DEF n
<1>3. \A i \in 1..n : Half(r, i) \in Halves
  BY <1>1, <1>2 DEF Half, Halves, n
<1>4. Frame(r) = [i \in 1..n |-> Half(r, i)] /\ n \in Nat
  BY <1>1, <1>2 DEF Frame, n
<1>5. Frame(r) \in [1..n -> Halves]
  BY <1>3, <1>4
<1>6. Frame(r) \in Seq(Halves) /\ Len(Frame(r)) = n
  BY <1>4, <1>5
<1>7. \A i \in 1..r.size : i \in 1..n
  BY <1>1, <1>2 DEF n
<1>8. \A i \in 1..r.size : Frame(r)[i] = [id |-> r.id, size |-> r.size, part |-> i]
  BY <1>1, <1>4, <1>7 DEF Half
<1>9. \A i \in 1..n : i > r.size => Frame(r)[i] = Zero
  BY <1>1, <1>4 DEF Half
<1> QED BY <1>1, <1>2, <1>6, <1>8, <1>9 DEF n

-----------------------------------------------------------------------------
(* What a replay reads. The records rs lie in a content one behind the       *)
(* other, at the positions p.                                                *)

Lays(c, rs, p) ==
    /\ p \in [0..Len(rs) -> Nat] /\ p[0] = Page
    /\ \A i \in 0..Len(rs) : p[i] >= i /\ p[i] % 2 = 0
    /\ \A i \in 1..Len(rs) : /\ FrameAt(c, p[i - 1]) /\ rs[i] = RecordAt(c, p[i - 1])
                             /\ p[i] = p[i - 1] + Padded(rs[i].size)
    /\ \A i, j \in 0..Len(rs) : i <= j => p[i] <= p[j]

\* What begins a frame has a size.
Sized(c) == \A i \in DOMAIN c : c[i].part = 1 => c[i].size \in Nat \ {0}

LEMMA FrameWithin ==
    ASSUME NEW c, IsSequence(c), Sized(c), NEW pos \in Nat, FrameAt(c, pos)
    PROVE  /\ c[pos + 1].size \in Nat \ {0} /\ RecordAt(c, pos).size = c[pos + 1].size
           /\ Padded(c[pos + 1].size) \in Nat /\ Padded(c[pos + 1].size) >= 1
           /\ Padded(c[pos + 1].size) % 2 = 0
           /\ c[pos + 1].size <= Padded(c[pos + 1].size)
           /\ pos + c[pos + 1].size <= Len(c)
           /\ pos + Padded(c[pos + 1].size) <= Len(c) + 1
<1>1. Len(c) \in Nat /\ DOMAIN c = 1..Len(c)
  BY SequenceLength
<1>2. pos + 1 \in DOMAIN c /\ c[pos + 1].part = 1 /\ pos + c[pos + 1].size <= Len(c)
  BY <1>1 DEF FrameAt
<1>3. c[pos + 1].size \in Nat \ {0}
  BY <1>2 DEF Sized
<1>4. Padded(c[pos + 1].size) \in c[pos + 1].size..(c[pos + 1].size + 1) /\ Padded(c[pos + 1].size) % 2 = 0
  BY <1>3, Padding
<1>5. RecordAt(c, pos).size = c[pos + 1].size
  BY DEF RecordAt
<1> DEFINE n == c[pos + 1].size
           m == Padded(n)
<1>6. n \in Nat \ {0} /\ m \in n..(n + 1) /\ pos + n <= Len(c) /\ m % 2 = 0
  BY <1>2, <1>3, <1>4
<1> HIDE DEF n, m
<1>7. m \in Nat /\ m >= 1 /\ n <= m /\ pos + m <= Len(c) + 1
  BY <1>1, <1>6
<1> QED BY <1>5, <1>6, <1>7 DEF n, m

\* One frame more.
LEMMA LaysMore ==
    ASSUME NEW c, IsSequence(c), Sized(c), NEW rs, IsSequence(rs), NEW p, Lays(c, rs, p),
           FrameAt(c, p[Len(rs)])
    PROVE  LET r == RecordAt(c, p[Len(rs)])
               end == p[Len(rs)] + Padded(r.size)
           IN  \E q : Lays(c, Append(rs, r), q) /\ q[Len(rs) + 1] = end
<1> DEFINE n == Len(rs)
           r == RecordAt(c, p[n])
           size == Padded(r.size)
           more == Append(rs, r)
           q == [i \in 0..(n + 1) |-> IF i <= n THEN p[i] ELSE p[n] + size]
<1>1. /\ n \in Nat /\ Len(more) = n + 1 /\ \A i \in 1..n : more[i] = rs[i]
      /\ more[n + 1] = r
  BY Appending, SequenceLength
<1>2. /\ p \in [0..n -> Nat] /\ p[0] = Page /\ p[n] \in Nat /\ p[n] >= n /\ p[n] % 2 = 0
      /\ \A i, j \in 0..n : i <= j => p[i] <= p[j]
      /\ \A i \in 0..n : p[i] >= i /\ p[i] % 2 = 0
      /\ \A i \in 1..n : /\ FrameAt(c, p[i - 1]) /\ rs[i] = RecordAt(c, p[i - 1])
                         /\ p[i] = p[i - 1] + Padded(rs[i].size)
  BY <1>1 DEF Lays
<1>3. size \in Nat /\ size >= 1 /\ size % 2 = 0
  BY <1>2, FrameWithin
<1>4. FrameAt(c, p[n])
  OBVIOUS
<1>5. r = RecordAt(c, p[n]) /\ size = Padded(r.size)
  OBVIOUS
<1> HIDE DEF n, r, size, more
<1>6. \A i \in 0..n : q[i] = p[i]
  BY <1>1
<1>7. q[n + 1] = p[n] + size
  BY <1>1
<1>8. q \in [0..(n + 1) -> Nat] /\ q[0] = Page
  BY <1>1, <1>2, <1>3
<1> HIDE DEF q
<1>9. \A i \in 0..(n + 1) : i \in 0..n \/ i = n + 1
  BY <1>1
<1>10. (p[n] + size) % 2 = 0 /\ p[n] + size >= n + 1
  <2>1. (p[n] + size) % 2 = 0
    BY ONLY <1>2, <1>3, EvenSum
  <2>2. p[n] + size >= n + 1
    BY <1>1, <1>2, <1>3
  <2> QED BY <2>1, <2>2
<1>11. ASSUME NEW i \in 0..(n + 1) PROVE q[i] >= i /\ q[i] % 2 = 0
  BY <1>2, <1>6, <1>7, <1>9, <1>10
<1>12. ASSUME NEW i \in 1..(n + 1)
       PROVE  /\ FrameAt(c, q[i - 1]) /\ more[i] = RecordAt(c, q[i - 1])
              /\ q[i] = q[i - 1] + Padded(more[i].size)
  <2>1. CASE i \in 1..n
    <3>1. i \in 0..n /\ i - 1 \in 0..n
      BY <1>1, <2>1
    <3> QED BY <1>1, <1>2, <1>6, <2>1, <3>1
  <2>2. CASE i = n + 1
    <3>1. i - 1 = n /\ n \in 0..n
      BY <1>1, <2>2
    <3>2. q[i - 1] = p[n] /\ more[i] = r /\ q[i] = p[n] + size
      BY <1>1, <1>6, <1>7, <2>2, <3>1
    <3> QED BY <1>4, <1>5, <3>2
  <2> QED BY <1>1, <2>1, <2>2
<1>13. ASSUME NEW i \in 0..(n + 1), NEW j \in 0..(n + 1), i <= j PROVE q[i] <= q[j]
  <2>1. CASE j \in 0..n
    <3>1. i \in 0..n
      BY <1>1, <1>13, <2>1
    <3> QED BY <1>2, <1>6, <1>13, <2>1, <3>1
  <2>2. CASE j = n + 1
    <3>1. CASE i = n + 1
      BY <1>8, <2>2, <3>1
    <3>2. CASE i \in 0..n
      <4>1. p[i] <= p[n] /\ p[i] \in Nat
        BY <1>1, <1>2, <3>2
      <4> QED BY <1>2, <1>3, <1>6, <1>7, <2>2, <3>2, <4>1
    <3> QED BY <1>9, <3>1, <3>2
  <2> QED BY <1>9, <2>1, <2>2
<1>14. Lays(c, more, q)
  BY <1>1, <1>8, <1>11, <1>12, <1>13 DEF Lays
<1> QED BY <1>7, <1>14 DEF n, r, size, more

\* All frames lie before the last position, within the content but for padding.
LEMMA LaysWithin ==
    ASSUME NEW c, IsSequence(c), Sized(c), Len(c) >= Page, NEW rs, IsSequence(rs), NEW p, Lays(c, rs, p)
    PROVE  /\ Len(rs) \in Nat /\ \A i \in 0..Len(rs) : p[i] \in Nat /\ p[i] <= p[Len(rs)]
           /\ p[Len(rs)] >= Page /\ p[Len(rs)] <= Len(c) + 1
           /\ Len(c) % 2 = 0 => p[Len(rs)] <= Len(c)
<1> DEFINE n == Len(rs)
<1>1. n \in Nat /\ Len(c) \in Nat /\ Page \in Nat
  BY SequenceLength DEF Page
<1> HIDE DEF n
<1>2. /\ p \in [0..n -> Nat] /\ p[0] = Page /\ \A i, j \in 0..n : i <= j => p[i] <= p[j]
      /\ \A i \in 0..n : p[i] % 2 = 0
      /\ \A i \in 1..n : FrameAt(c, p[i - 1]) /\ rs[i] = RecordAt(c, p[i - 1])
                         /\ p[i] = p[i - 1] + Padded(rs[i].size)
  BY DEF Lays, n
<1>3. \A i \in 0..n : p[i] \in Nat /\ p[i] <= p[n]
  BY <1>1, <1>2
<1>4. p[n] \in Nat /\ p[n] >= Page
  BY <1>1, <1>2
<1>5. p[n] <= Len(c) + 1
  <2>1. CASE n = 0
    BY <1>1, <1>2, <2>1
  <2>2. CASE n # 0
    <3>1. n \in 1..n /\ n - 1 \in 0..n
      BY <1>1, <2>2
    <3>2. FrameAt(c, p[n - 1]) /\ p[n - 1] \in Nat /\ rs[n] = RecordAt(c, p[n - 1])
          /\ p[n] = p[n - 1] + Padded(rs[n].size)
      BY <1>2, <1>3, <3>1
    <3> QED BY <3>2, FrameWithin
  <2> QED BY <2>1, <2>2
<1>6. Len(c) % 2 = 0 => p[n] <= Len(c)
  <2>1. p[n] % 2 = 0
    BY <1>1, <1>2
  <2>2. \A k \in Nat : k % 2 = 0 => (k + 1) % 2 # 0
    OBVIOUS
  <2> QED BY <1>1, <1>4, <1>5, <2>1, <2>2
<1> QED BY <1>1, <1>3, <1>4, <1>5, <1>6 DEF n

\* What lies before the last position keeps its place when only what follows changes.
LEMMA LaysKept ==
    ASSUME NEW c, IsSequence(c), Sized(c), NEW rs, IsSequence(rs), NEW p, Lays(c, rs, p),
           NEW d, IsSequence(d), Len(d) >= p[Len(rs)], \A i \in 1..p[Len(rs)] : d[i] = c[i]
    PROVE  Lays(d, rs, p)
<1> DEFINE n == Len(rs)
<1>1. n \in Nat /\ Len(c) \in Nat /\ Len(d) \in Nat
  BY SequenceLength
<1> HIDE DEF n
<1>2. /\ p \in [0..n -> Nat] /\ \A i, j \in 0..n : i <= j => p[i] <= p[j]
      /\ \A i \in 1..n : FrameAt(c, p[i - 1]) /\ rs[i] = RecordAt(c, p[i - 1])
                         /\ p[i] = p[i - 1] + Padded(rs[i].size)
  BY DEF Lays, n
<1>3. ASSUME NEW i \in 1..n PROVE FrameAt(d, p[i - 1]) /\ rs[i] = RecordAt(d, p[i - 1])
  <2> DEFINE pos == p[i - 1]
             size == c[pos + 1].size
  <2>1. i - 1 \in 0..n /\ i \in 0..n /\ n \in 0..n
    BY <1>1
  <2>2. pos \in Nat /\ FrameAt(c, pos) /\ rs[i] = RecordAt(c, pos) /\ p[i] = pos + Padded(rs[i].size)
        /\ p[i] <= p[n] /\ p[n] \in Nat /\ p[i] \in Nat
    BY <1>1, <1>2, <2>1
  <2>3. size \in Nat \ {0} /\ pos + size <= p[n]
    <3>1. size \in Nat \ {0} /\ rs[i].size = size /\ Padded(size) \in Nat /\ size <= Padded(size)
      BY <2>2, FrameWithin
    <3> HIDE DEF pos, size
    <3> QED BY <2>2, <3>1
  <2>4. /\ c[pos + 1].part = 1
        /\ \A k \in 1..size : c[pos + k] = [c[pos + 1] EXCEPT !.part = k]
        /\ rs[i] = [id |-> c[pos + 1].id, size |-> c[pos + 1].size]
    BY <2>2 DEF FrameAt, RecordAt
  <2>5. size = c[pos + 1].size
    OBVIOUS
  <2> HIDE DEF pos, size
  <2>6. \A k \in 1..size : d[pos + k] = c[pos + k]
    BY <2>2, <2>3 DEF n
  <2>7. d[pos + 1] = c[pos + 1]
    BY <2>3, <2>6
  <2>8. pos < Len(d) /\ pos + size <= Len(d)
    BY <1>1, <2>2, <2>3 DEF n
  <2>9. FrameAt(d, pos)
    BY <2>4, <2>5, <2>6, <2>7, <2>8 DEF FrameAt
  <2>10. rs[i] = RecordAt(d, pos)
    BY <2>4, <2>7 DEF RecordAt
  <2> QED BY <2>9, <2>10 DEF pos
<1> QED BY <1>2, <1>3 DEF Lays, n

\* What a replay reads from pos, if f says what it reads from later positions.
Reading(f, c, pos) ==
    IF FrameAt(c, pos)
    THEN LET rest == f[pos + Padded(c[pos + 1].size)]
         IN  [rest EXCEPT !.records = <<RecordAt(c, pos)>> \o @]
    ELSE [records |-> <<>>, end |-> pos]

Reads(f, c, lo) == f = [pos \in lo..(Len(c) + 1) |-> Reading(f, c, pos)]

LEMMA ReadsExist ==
    ASSUME NEW c, IsSequence(c), Sized(c)
    PROVE  \E f : Reads(f, c, 0)
<1> DEFINE N == Len(c) + 1
           Without == {k \in 0..N : ~ \E f : Reads(f, c, N - k)}
<1>1. N \in Nat /\ N = Len(c) + 1 /\ Len(c) \in Nat
  BY SequenceLength
<1> HIDE DEF N
<1>2. ASSUME NEW lo \in 0..N, NEW f, \A pos \in (lo + 1)..N : f[pos] = Reading(f, c, pos)
      PROVE  \E g : Reads(g, c, lo)
  <2> DEFINE g == [pos \in lo..N |-> IF pos = lo THEN Reading(f, c, lo) ELSE f[pos]]
  <2>1. ASSUME NEW pos \in lo..N PROVE g[pos] = Reading(g, c, pos)
    <3>1. g[pos] = Reading(f, c, pos)
      <4>1. pos = lo \/ pos \in (lo + 1)..N
        BY <1>1
      <4> HIDE DEF Reading
      <4> QED BY <1>2, <4>1
    <3>2. CASE ~FrameAt(c, pos)
      BY <3>1, <3>2 DEF Reading
    <3>3. CASE FrameAt(c, pos)
      <4> DEFINE next == pos + Padded(c[pos + 1].size)
      <4>1. next \in lo..N /\ next # lo
        <5> DEFINE m == Padded(c[pos + 1].size)
        <5>1. pos \in Nat
          BY <1>1
        <5>2. m \in Nat /\ m >= 1 /\ pos + m <= Len(c) + 1
          BY <3>3, <5>1, FrameWithin
        <5> HIDE DEF m
        <5> QED BY <1>1, <5>1, <5>2 DEF m
      <4> HIDE DEF next
      <4>2. g[next] = f[next]
        BY <4>1
      <4> HIDE DEF g
      <4> QED BY <3>1, <3>3, <4>2 DEF Reading, next
    <3> QED BY <3>2, <3>3
  <2>2. g = [pos \in lo..N |-> g[pos]]
    OBVIOUS
  <2> HIDE DEF g
  <2>3. g = [pos \in lo..N |-> Reading(g, c, pos)]
    BY <2>1, <2>2
  <2> QED BY <1>1, <2>3 DEF Reads
<1>3. 0 \notin Without
  <2>1. N - 0 = N /\ N \in 0..N /\ (N + 1)..N = {}
    BY <1>1
  <2>2. \A pos \in (N + 1)..N : <<>>[pos] = Reading(<<>>, c, pos)
    BY <2>1
  <2> QED BY <1>2, <2>1, <2>2
<1>4. ASSUME NEW k \in 1..N, k - 1 \notin Without PROVE k \notin Without
  <2>1. k - 1 \in 0..N /\ N - k \in 0..N /\ N - (k - 1) = (N - k) + 1
    BY <1>1
  <2>2. PICK f : Reads(f, c, N - (k - 1))
    BY <1>4, <2>1
  <2>3. \A pos \in ((N - k) + 1)..N : f[pos] = Reading(f, c, pos)
    BY <1>1, <2>1, <2>2 DEF Reads
  <2> QED BY <1>2, <2>1, <2>3
<1>5. Without \in SUBSET (0..N)
  OBVIOUS
<1>6. N \in 0..N /\ N - N = 0
  BY <1>1
<1> HIDE DEF Without
<1>7. Without = {}
  BY <1>1, <1>3, <1>4, <1>5, NoneOf
<1> QED BY <1>6, <1>7 DEF Without

LEMMA ReadingsAre ==
    ASSUME NEW c, IsSequence(c), Sized(c)
    PROVE  \A pos \in 0..(Len(c) + 1) : Readings(c)[pos] = Reading(Readings(c), c, pos)
<1> DEFINE Fold(g) == g = [pos \in 0..(Len(c) + 1) |->
                             IF FrameAt(c, pos)
                             THEN LET rest == g[pos + Padded(c[pos + 1].size)]
                                  IN  [rest EXCEPT !.records = <<RecordAt(c, pos)>> \o @]
                             ELSE [records |-> <<>>, end |-> pos]]
           from == CHOOSE g : Fold(g)
<1>1. \A g : Fold(g) <=> Reads(g, c, 0)
  BY DEF Reads, Reading
<1>2. Readings(c) = from
  BY DEF Readings
<1> HIDE DEF Fold
<1>3. \E g : Fold(g)
  BY <1>1, ReadsExist
<1>4. Fold(from)
  BY <1>3
<1>5. Reads(from, c, 0)
  BY <1>1, <1>4
<1> HIDE DEF from
<1> QED BY <1>2, <1>5 DEF Reads

LEMMA Rest ==
    ASSUME NEW s, IsSequence(s), NEW i \in 1..Len(s)
    PROVE  SubSeq(s, i, Len(s)) = <<s[i]>> \o SubSeq(s, i + 1, Len(s))
<1> DEFINE S == {s[j] : j \in DOMAIN s}
           n == Len(s)
           a == SubSeq(s, i, n)
           b == SubSeq(s, i + 1, n)
<1>1. s \in Seq(S) /\ n \in Nat /\ DOMAIN s = 1..n /\ i \in Nat /\ s[i] \in S
  BY SequenceLength DEF IsSequence
<1> HIDE DEF S
<1>2. a \in Seq(S) /\ Len(a) = n - i + 1 /\ \A j \in 1..(n - i + 1) : a[j] = s[i + j - 1]
  BY <1>1, SubSeqProperties
<1>3. b \in Seq(S) /\ Len(b) = n - i /\ \A j \in 1..(n - i) : b[j] = s[i + j]
  <2>1. i + 1 \in 1..(n + 1) /\ n \in i..n /\ (i + 1) + 0 = i + 1
    BY <1>1
  <2>2. /\ b \in Seq(S) /\ Len(b) = IF i + 1 <= n THEN n - (i + 1) + 1 ELSE 0
        /\ \A j \in 1..(n - (i + 1) + 1) : b[j] = s[(i + 1) + j - 1]
    BY <1>1, <2>1, SubSeqProperties
  <2>3. n - (i + 1) + 1 = n - i /\ (IF i + 1 <= n THEN n - (i + 1) + 1 ELSE 0) = n - i
    <3>1. i <= n /\ i \in Nat /\ n \in Nat
      BY <1>1
    <3> HIDE DEF n
    <3>2. n - (i + 1) + 1 = n - i
      BY <3>1
    <3>3. ~(i + 1 <= n) => n - i = 0
      BY <3>1
    <3> QED BY <3>2, <3>3
  <2>4. ASSUME NEW j \in 1..(n - i) PROVE b[j] = s[i + j]
    <3>1. (i + 1) + j - 1 = i + j
      BY <1>1
    <3> QED BY <2>2, <2>3, <3>1
  <2> QED BY <2>2, <2>3, <2>4
<1> DEFINE one == <<s[i]>>
<1>4. one \in Seq(S) /\ Len(one) = 1 /\ one[1] = s[i]
  BY <1>1
<1> HIDE DEF a, b, one, n
<1>5. /\ one \o b \in Seq(S) /\ Len(one \o b) = 1 + (n - i)
      /\ (one \o b)[1] = s[i] /\ \A j \in 1..(n - i) : (one \o b)[1 + j] = s[i + j]
  <2>1. /\ one \o b \in Seq(S) /\ Len(one \o b) = Len(one) + Len(b)
        /\ \A j \in 1..Len(one) : (one \o b)[j] = one[j]
        /\ \A j \in 1..Len(b) : (one \o b)[Len(one) + j] = b[j]
    <3>1. IsSequence(one) /\ IsSequence(b) /\ one \o b \in Seq(S)
      BY <1>3, <1>4, AnySequence, ConcatProperties
    <3> QED BY <3>1, Joined
  <2>2. 1 \in 1..1
    OBVIOUS
  <2> QED BY <1>3, <1>4, <2>1, <2>2
<1>6. ASSUME NEW j \in 1..(n - i + 1) PROVE a[j] = (one \o b)[j]
  <2>1. CASE j = 1
    BY <1>1, <1>2, <1>5, <2>1
  <2>2. CASE j # 1
    <3>1. j - 1 \in 1..(n - i) /\ 1 + (j - 1) = j /\ i + (j - 1) = i + j - 1
      BY <1>1, <2>2
    <3> QED BY <1>2, <1>5, <3>1
  <2> QED BY <2>1, <2>2
<1>7. 1 + (n - i) = n - i + 1
  BY <1>1
<1>8. a = one \o b
  BY <1>2, <1>5, <1>6, <1>7
<1> QED BY <1>8 DEF a, b, one, n

\* The records that lie in a content up to where no frame is are what a replay reads.
LEMMA ReplayOf ==
    ASSUME NEW c, IsSequence(c), Sized(c), HasHeader(c), NEW rs, IsSequence(rs), NEW p, Lays(c, rs, p),
           ~FrameAt(c, p[Len(rs)])
    PROVE  Replayed(c) = rs /\ EndOfReplay(c) = p[Len(rs)]
<1> DEFINE n == Len(rs)
           f == Readings(c)
           From(i) == [records |-> SubSeq(rs, i + 1, n), end |-> p[n]]
           Bad == {k \in 0..n : f[p[n - k]] # From(n - k)}
<1>1. n \in Nat /\ Len(c) \in Nat /\ Len(c) >= Page
  BY SequenceLength DEF HasHeader
<1>2. \A i \in 0..n : p[i] \in 0..(Len(c) + 1)
  BY <1>1, LaysWithin
<1>3. \A i \in 0..n : f[p[i]] = Reading(f, c, p[i])
  BY <1>2, ReadingsAre
<1>4. /\ p[0] = Page
      /\ \A i \in 1..n : FrameAt(c, p[i - 1]) /\ rs[i] = RecordAt(c, p[i - 1])
                         /\ p[i] = p[i - 1] + Padded(rs[i].size)
  BY DEF Lays
<1>5. ~FrameAt(c, p[n])
  OBVIOUS
<1>6. SubSeq(rs, n + 1, n) = <<>> /\ SubSeq(rs, 1, n) = rs
  <2>1. rs \in Seq({rs[i] : i \in DOMAIN rs})
    BY DEF IsSequence
  <2> QED BY <1>1, <2>1
<1>7. \A i \in 1..n : SubSeq(rs, i, n) = <<rs[i]>> \o SubSeq(rs, i + 1, n)
  BY Rest
<1> HIDE DEF n, f
<1>8. 0 \notin Bad
  <2>1. n \in 0..n /\ n - 0 = n
    BY <1>1
  <2>2. f[p[n]] = [records |-> <<>>, end |-> p[n]]
    BY <1>3, <1>5, <2>1 DEF Reading
  <2> QED BY <1>6, <2>1, <2>2
<1>9. ASSUME NEW k \in 1..n, k - 1 \notin Bad PROVE k \notin Bad
  <2> DEFINE i == n - k
  <2>1. i \in 0..n /\ i + 1 \in 1..n /\ n - (k - 1) = i + 1 /\ k - 1 \in 0..n /\ (i + 1) - 1 = i
    BY <1>1
  <2> HIDE DEF i
  <2>2. f[p[i + 1]] = From(i + 1)
    BY <1>9, <2>1
  <2>3. /\ FrameAt(c, p[i]) /\ rs[i + 1] = RecordAt(c, p[i])
        /\ p[i + 1] = p[i] + Padded(rs[i + 1].size)
    BY <1>4, <2>1
  <2>4. rs[i + 1].size = c[p[i] + 1].size
    BY <2>3 DEF RecordAt
  <2>5. f[p[i]] = [f[p[i + 1]] EXCEPT !.records = <<rs[i + 1]>> \o @]
    BY <1>3, <2>1, <2>3, <2>4 DEF Reading
  <2>6. f[p[i]] = [records |-> <<rs[i + 1]>> \o SubSeq(rs, i + 2, n), end |-> p[n]]
    <3> DEFINE X == SubSeq(rs, i + 2, n)
               r == <<rs[i + 1]>>
    <3>1. f[p[i + 1]] = [records |-> X, end |-> p[n]]
      <4>1. (i + 1) + 1 = i + 2
        BY <2>1
      <4> QED BY <2>2, <4>1
    <3>2. f[p[i]] = [f[p[i + 1]] EXCEPT !.records = r \o @]
      BY <2>5
    <3> HIDE DEF X, r
    <3> DEFINE before == [records |-> X, end |-> p[n]]
               read == r \o before.records
    <3>3. read = r \o X /\ before = [records |-> X, end |-> p[n]]
      OBVIOUS
    <3>4. f[p[i]] = [before EXCEPT !.records = read]
      BY <3>1, <3>2
    <3> HIDE DEF before, read
    <3>5. f[p[i]] = [records |-> read, end |-> p[n]]
      BY <3>3, <3>4
    <3>6. f[p[i]] = [records |-> r \o X, end |-> p[n]]
      BY <3>3, <3>5
    <3> QED BY <3>6 DEF X, r
  <2>7. SubSeq(rs, i + 1, n) = <<rs[i + 1]>> \o SubSeq(rs, i + 2, n)
    <3>1. (i + 1) + 1 = i + 2
      BY <2>1
    <3> QED BY <1>7, <2>1, <3>1
  <2>8. f[p[i]] = From(i)
    BY <2>6, <2>7
  <2> QED BY <2>8 DEF i
<1>10. Bad \in SUBSET (0..n)
  OBVIOUS
<1>11. n \in 0..n /\ n - n = 0 /\ 0 + 1 = 1
  BY <1>1
<1> HIDE DEF Bad
<1>12. Bad = {}
  BY <1>1, <1>8, <1>9, <1>10, NoneOf
<1>13. f[p[0]] = [records |-> SubSeq(rs, 1, n), end |-> p[n]]
  <2>1. f[p[n - n]] = From(n - n)
    BY <1>11, <1>12 DEF Bad
  <2> QED BY <1>11, <2>1
<1>14. f[Page].records = rs /\ f[Page].end = p[n]
  BY <1>4, <1>6, <1>13
<1> QED BY <1>14 DEF Replayed, EndOfReplay, f, n

\* What a replay reads lies in the content, up to where no frame is.
LEMMA ReplayLays ==
    ASSUME NEW c, IsSequence(c), Sized(c), HasHeader(c)
    PROVE  /\ IsSequence(Replayed(c))
           /\ \E p : /\ Lays(c, Replayed(c), p)
                     /\ EndOfReplay(c) = p[Len(Replayed(c))] /\ ~FrameAt(c, EndOfReplay(c))
<1> DEFINE Has(n) == \E rs, p : IsSequence(rs) /\ Len(rs) = n /\ Lays(c, rs, p)
           N == Len(c) + 2
           Bad == {n \in 0..N : ~Has(n)}
<1>1. N \in Nat /\ N = Len(c) + 2 /\ Len(c) \in Nat /\ Len(c) >= Page
  BY SequenceLength DEF HasHeader
<1> HIDE DEF N
<1>2. Has(0)
  <2> DEFINE p == [i \in 0..0 |-> Page]
  <2>1. \A i \in 0..0 : p[i] = 2
    BY DEF Page
  <2>2. p \in [0..0 -> Nat] /\ p[0] = Page
    BY <2>1 DEF Page
  <2> HIDE DEF p
  <2>3. 2 % 2 = 0 /\ 2 >= 0 /\ 1..0 = {} /\ \A i \in 0..0 : i = 0
    OBVIOUS
  <2>4. Lays(c, <<>>, p)
    BY <2>1, <2>2, <2>3, EmptySequence DEF Lays
  <2> QED BY <2>4, EmptySequence
<1>3. SUFFICES ASSUME \A rs, p : IsSequence(rs) /\ Lays(c, rs, p) => FrameAt(c, p[Len(rs)])
               PROVE  FALSE
  BY ReplayOf
<1>4. ASSUME NEW n \in 1..N, Has(n - 1) PROVE Has(n)
  <2>1. PICK rs, p : IsSequence(rs) /\ Len(rs) = n - 1 /\ Lays(c, rs, p)
    BY <1>4
  <2> DEFINE more == Append(rs, RecordAt(c, p[Len(rs)]))
  <2>2. \E q : Lays(c, more, q)
    BY <1>3, <2>1, LaysMore
  <2>3. IsSequence(more) /\ Len(more) = (n - 1) + 1
    BY <2>1, Appending
  <2> HIDE DEF more
  <2>4. (n - 1) + 1 = n
    BY <1>1
  <2> QED BY <2>2, <2>3, <2>4
<1> HIDE DEF Has
<1>5. Bad \in SUBSET (0..N) /\ 0 \notin Bad /\ \A n \in 1..N : n - 1 \notin Bad => n \notin Bad
  <2>1. \A n \in 1..N : n - 1 \in 0..N
    BY <1>1
  <2> QED BY <1>2, <1>4, <2>1
<1>6. N \in 0..N
  BY <1>1
<1>7. Has(N)
  <2> HIDE DEF Bad
  <2>1. Bad = {}
    BY <1>1, <1>5, NoneOf
  <2> QED BY <1>6, <2>1 DEF Bad
<1>8. PICK rs, p : IsSequence(rs) /\ Len(rs) = N /\ Lays(c, rs, p)
  BY <1>7 DEF Has
<1>9. p[N] <= Len(c) + 1 /\ p[N] \in Nat
  BY <1>1, <1>6, <1>8, LaysWithin
<1>10. p[N] >= N
  BY <1>6, <1>8 DEF Lays
<1> QED BY <1>1, <1>9, <1>10

\* The records a replay reads of halves are records.
LEMMA ReplayTypes ==
    ASSUME SizesAssumption, NEW c \in Seq(Halves)
    PROVE  /\ IsSequence(c) /\ Sized(c)
           /\ Replayed(c) \in Seq(WalRecord)
           /\ HasHeader(c) => EndOfReplay(c) \in Nat /\ EndOfReplay(c) >= Page
<1>1. IsSequence(c) /\ DOMAIN c = 1..Len(c) /\ Len(c) \in Nat /\ \A i \in DOMAIN c : c[i] \in Halves
  BY AnySequence
<1>2. Sized(c)
  BY <1>1, HalfFields DEF Sized
<1>3. CASE ~HasHeader(c)
  BY <1>1, <1>2, <1>3 DEF Replayed
<1>4. CASE HasHeader(c)
  <2> DEFINE rs == Replayed(c)
             n == Len(rs)
  <2>1. PICK p : Lays(c, rs, p) /\ EndOfReplay(c) = p[n]
    BY <1>1, <1>2, <1>4, ReplayLays
  <2>2. IsSequence(rs) /\ n \in Nat /\ DOMAIN rs = 1..n
    BY <1>1, <1>2, <1>4, ReplayLays, SequenceLength
  <2> HIDE DEF rs
  <2>3. /\ p \in [0..n -> Nat]
        /\ \A i \in 1..n : FrameAt(c, p[i - 1]) /\ rs[i] = RecordAt(c, p[i - 1])
    BY <2>1 DEF Lays
  <2>4. ASSUME NEW i \in 1..n PROVE rs[i] \in WalRecord
    <3> DEFINE pos == p[i - 1]
    <3>1. pos \in Nat
      BY <2>2, <2>3
    <3>2. FrameAt(c, pos) /\ rs[i] = RecordAt(c, pos)
      BY <2>3
    <3> HIDE DEF pos
    <3>3. c[pos + 1] \in Halves /\ c[pos + 1].part = 1
      BY <1>1, <3>1, <3>2 DEF FrameAt
    <3> QED BY <3>2, <3>3, HalfFields DEF RecordAt, WalRecord
  <2>5. rs \in Seq(WalRecord)
    <3>1. rs \in [1..n -> WalRecord]
      BY <2>2, <2>4 DEF IsSequence
    <3> HIDE DEF n
    <3>2. rs \in Seq(WalRecord)
      BY <2>2, <3>1
    <3> QED BY <3>2
  <2>6. EndOfReplay(c) \in Nat /\ EndOfReplay(c) >= Page
    BY <1>1, <1>2, <1>4, <2>1, <2>2, LaysWithin DEF HasHeader
  <2> QED BY <1>1, <1>2, <2>5, <2>6 DEF rs
<1> QED BY <1>3, <1>4

-----------------------------------------------------------------------------
(* What writing and truncating make of a content                             *)

LEMMA WrittenIs ==
    ASSUME NEW S, Zero \in S, NEW c \in Seq(S), NEW h \in Seq(S),
           NEW pos \in 0..Len(c), NEW k \in 0..Len(h)
    PROVE  LET d == WriteAt(c, pos, h, k)
           IN  /\ d \in Seq(S) /\ Len(d) \in Nat /\ Len(d) >= pos + k /\ Len(d) >= Len(c)
               /\ \A i \in 1..pos : d[i] = c[i]
               /\ \A i \in 1..k : d[pos + i] = h[i]
               /\ \A i \in (pos + k + 1)..Len(d) : i \in 1..Len(c) /\ d[i] = c[i]
               /\ k = 0 => d = c
<1> DEFINE m == Max({pos + k, Len(c)})
           d == WriteAt(c, pos, h, k)
           At(i) == CASE i > pos /\ i <= pos + k -> h[i - pos]
                      [] i <= pos /\ i > Len(c) -> Zero
                      [] OTHER -> c[i]
<1>1. Len(c) \in Nat /\ Len(h) \in Nat /\ pos \in Nat /\ k \in Nat /\ pos <= Len(c) /\ k <= Len(h)
      /\ (\A i \in 1..Len(c) : c[i] \in S) /\ (\A i \in 1..Len(h) : h[i] \in S)
  OBVIOUS
<1>2. m \in Nat /\ m >= pos + k /\ m >= Len(c) /\ (m = pos + k \/ m = Len(c))
  <2>1. CASE pos + k <= Len(c)
    <3>1. {pos + k, Len(c)} \subseteq Nat /\ \A j \in {pos + k, Len(c)} : j <= Len(c)
      BY <1>1, <2>1
    <3>2. m = Len(c)
      BY <3>1, MaxIs
    <3> QED BY <1>1, <2>1, <3>2
  <2>2. CASE ~(pos + k <= Len(c))
    <3>1. {pos + k, Len(c)} \subseteq Nat /\ \A j \in {pos + k, Len(c)} : j <= pos + k
      BY <1>1, <2>2
    <3>2. m = pos + k
      BY <3>1, MaxIs
    <3> QED BY <1>1, <2>2, <3>2
  <2> QED BY <2>1, <2>2
<1>3. d = [i \in 1..m |-> At(i)]
  BY DEF WriteAt
<1> HIDE DEF d, m
<1>4. \A i \in 1..pos : At(i) = c[i] /\ i \in 1..Len(c) /\ i \in 1..m
  BY <1>1, <1>2
<1>5. ASSUME NEW i \in 1..k PROVE At(pos + i) = h[i] /\ pos + i \in 1..m /\ i \in 1..Len(h)
  <2>1. pos + i > pos /\ pos + i <= pos + k /\ (pos + i) - pos = i
    BY <1>1
  <2> QED BY <1>1, <1>2, <2>1
<1>6. \A i \in (pos + k + 1)..m : At(i) = c[i] /\ i \in 1..Len(c)
  BY <1>1, <1>2
<1>7. ASSUME NEW i \in 1..m PROVE At(i) \in S
  <2>1. CASE i \in 1..pos
    BY <1>1, <1>4, <2>1
  <2>2. CASE i \in (pos + 1)..(pos + k)
    <3>1. i - pos \in 1..k /\ pos + (i - pos) = i
      BY <1>1, <2>2
    <3>2. At(i) = h[i - pos] /\ i - pos \in 1..Len(h)
      BY <1>5, <3>1
    <3> QED BY <1>1, <3>2
  <2>3. CASE i \in (pos + k + 1)..m
    BY <1>1, <1>6, <2>3
  <2> QED BY <1>1, <1>2, <2>1, <2>2, <2>3
<1> HIDE DEF At
<1>8. d \in [1..m -> S]
  BY <1>3, <1>7
<1>9. d \in Seq(S) /\ Len(d) = m
  BY <1>2, <1>8
<1>10. \A i \in 1..pos : d[i] = c[i]
  BY <1>3, <1>4
<1>11. \A i \in 1..k : d[pos + i] = h[i]
  BY <1>3, <1>5
<1>12. \A i \in (pos + k + 1)..m : i \in 1..Len(c) /\ d[i] = c[i]
  <2>1. \A i \in (pos + k + 1)..m : i \in 1..m
    BY <1>1
  <2> QED BY <1>3, <1>6, <2>1
<1>13. ASSUME k = 0 PROVE d = c
  <2>1. m = Len(c)
    BY <1>1, <1>2, <1>13
  <2>2. ASSUME NEW i \in 1..m PROVE d[i] = c[i]
    <3>1. i \in 1..pos \/ i \in (pos + k + 1)..m
      BY <1>1, <1>2, <1>13
    <3> QED BY <1>10, <1>12, <3>1
  <2>3. c = [i \in 1..m |-> c[i]]
    BY <2>1
  <2>4. d = [i \in 1..m |-> d[i]]
    BY <1>8
  <2> QED BY <2>2, <2>3, <2>4
<1> QED BY <1>2, <1>9, <1>10, <1>11, <1>12, <1>13 DEF d

LEMMA TruncatedIs ==
    ASSUME NEW S, Zero \in S, NEW c \in Seq(S), NEW n \in Nat
    PROVE  LET d == Truncated(c, n)
           IN  d \in Seq(S) /\ Len(d) = n /\ \A i \in 1..n : i <= Len(c) => d[i] = c[i]
<1> DEFINE At(i) == IF i <= Len(c) THEN c[i] ELSE Zero
           d == Truncated(c, n)
<1>1. \A i \in 1..n : At(i) \in S
  OBVIOUS
<1>2. d = [i \in 1..n |-> At(i)] /\ \A i \in 1..n : i <= Len(c) => At(i) = c[i]
  BY DEF Truncated
<1> HIDE DEF At, d
<1>3. d \in [1..n -> S]
  BY <1>1, <1>2
<1>4. d \in Seq(S) /\ Len(d) = n
  BY <1>3
<1> QED BY <1>2, <1>4 DEF d

-----------------------------------------------------------------------------
(* The invariant                                                             *)

\* No half is of a record still to come.
Aged(c, now) == \A i \in DOMAIN c : c[i].id <= now

\* Behind pos, what failed appends left begins with one frame at most, at pos.
NoStart(c, pos) == \A i \in (pos + 2)..Len(c) : c[i].part # 1

\* The acknowledged records lie one behind the other, up to where the next goes.
Ready == \E p : Lays(wal, acked, p) /\ p[Len(acked)] = walSize /\ NoStart(wal, walSize)

LogInv ==
    /\ \A c \in durable : Aged(c, appends) /\ (Len(c) >= Page => HasHeader(c))
    /\ Len(wal) < Page => walHandle = "closed" /\ \A c \in durable : Len(c) < Page
    /\ walHandle # "refused"
    /\ walHandle = "closed" => acked = <<>>
    /\ walHandle = "open" => Ready

IInv == SizesAssumption /\ WalTypeOK /\ (~ragged => LogInv)

LEMMA WalIs ==
    ASSUME SizesAssumption, WalTypeOK
    PROVE  /\ wal \in Seq(Halves) /\ IsSequence(wal) /\ Sized(wal) /\ Len(wal) \in Nat /\ wal \in durable
           /\ DOMAIN wal = 1..Len(wal)
           /\ walSize \in 0..Len(wal) /\ walSize \in Nat
           /\ acked \in Seq(WalRecord) /\ IsSequence(acked) /\ Len(acked) \in Nat
           /\ Zero \in Halves /\ appends \in Nat
<1>1. /\ wal \in Seq(Halves) /\ wal \in durable /\ walSize \in 0..Len(wal) /\ acked \in Seq(WalRecord)
      /\ appends \in 0..MaxAppends
  BY DEF WalTypeOK
<1>2. IsSequence(wal) /\ Sized(wal) /\ IsSequence(acked)
  BY <1>1, ReplayTypes, AnySequence
<1>3. Zero \in Halves
  BY DEF Halves
<1>4. Len(wal) \in Nat /\ DOMAIN wal = 1..Len(wal) /\ Len(acked) \in Nat
  BY <1>2, SequenceLength
<1>5. walSize \in Nat /\ appends \in Nat
  BY <1>1, <1>4 DEF SizesAssumption
<1> QED BY <1>1, <1>2, <1>3, <1>4, <1>5

LEMMA NextIsRecord ==
    ASSUME SizesAssumption, WalTypeOK, appends < MaxAppends, NEW n \in Sizes
    PROVE  NextRecord(n) \in WalRecord /\ NextRecord(n).size = n /\ NextRecord(n).id = appends + 1
BY DEF NextRecord, WalRecord, WalTypeOK, SizesAssumption

\* What is read after k halves of a frame have reached the file: the record if
\* its frame is whole, otherwise none, and what was there before if k is 0.
LEMMA WriteReads ==
    ASSUME SizesAssumption, WalTypeOK, LogInv, walHandle = "open", appends < MaxAppends,
           NEW n \in Sizes, NEW k \in 0..Padded(n)
    PROVE  LET r == NextRecord(n)
               d == WriteAt(wal, walSize, Frame(r), k)
               more == Append(acked, r)
               end == walSize + Padded(n)
           IN  /\ d \in Seq(Halves) /\ HasHeader(d) /\ Aged(d, appends + 1)
               /\ d = wal \/ Replayed(d) = acked \/ Replayed(d) = more
               /\ \E p : Lays(d, acked, p) /\ p[Len(acked)] = walSize
               /\ NoStart(d, walSize)
               /\ k = Padded(n) => /\ Replayed(d) = more /\ NoStart(d, end)
                                   /\ \E q : Lays(d, more, q) /\ q[Len(more)] = end
<1> DEFINE r == NextRecord(n)
           h == Frame(r)
           d == WriteAt(wal, walSize, h, k)
           m == Len(acked)
<1>1. r \in WalRecord /\ r.size = n /\ r.id = appends + 1 /\ n \in Nat \ {0}
  BY NextIsRecord DEF SizesAssumption
<1>2. /\ Padded(n) \in Nat /\ n <= Padded(n) /\ h \in Seq(Halves) /\ Len(h) = Padded(n)
      /\ \A i \in 1..n : h[i] = [id |-> appends + 1, size |-> n, part |-> i]
      /\ \A i \in 1..Padded(n) : i > n => h[i] = Zero
  BY <1>1, FrameHolds
<1>3. /\ wal \in Seq(Halves) /\ IsSequence(wal) /\ Sized(wal) /\ Len(wal) \in Nat /\ DOMAIN wal = 1..Len(wal)
      /\ wal \in durable
      /\ walSize \in 0..Len(wal) /\ walSize \in Nat /\ IsSequence(acked) /\ m \in Nat /\ Zero \in Halves
      /\ appends \in Nat
  BY WalIs
<1>4. HasHeader(wal) /\ Aged(wal, appends) /\ Len(wal) >= Page
  BY <1>3 DEF LogInv, Page
<1>5. PICK p : Lays(wal, acked, p) /\ p[m] = walSize /\ NoStart(wal, walSize)
  BY DEF LogInv, Ready
<1>6. /\ d \in Seq(Halves) /\ Len(d) \in Nat /\ Len(d) >= walSize + k /\ Len(d) >= Len(wal)
      /\ \A i \in 1..walSize : d[i] = wal[i]
      /\ \A i \in 1..k : d[walSize + i] = h[i]
      /\ \A i \in (walSize + k + 1)..Len(d) : i \in 1..Len(wal) /\ d[i] = wal[i]
      /\ k = 0 => d = wal
  <2>1. h \in Seq(Halves) /\ k \in 0..Len(h)
    BY <1>2
  <2>2. wal \in Seq(Halves) /\ walSize \in 0..Len(wal) /\ Zero \in Halves
    BY <1>3
  <2> HIDE DEF h, r
  <2> QED BY <2>1, <2>2, WrittenIs
<1>7. k \in Nat /\ k <= Padded(n)
  BY <1>2
<1>8. IsSequence(d) /\ Sized(d) /\ DOMAIN d = 1..Len(d)
  BY <1>6, ReplayTypes
<1>9. walSize >= Page /\ walSize <= Len(wal)
  BY <1>3, <1>4, <1>5, LaysWithin
<1> HIDE DEF r, h, d, m
<1>10. Lays(d, acked, p)
  BY <1>3, <1>5, <1>6, <1>8, LaysKept DEF m
<1>11. HasHeader(d)
  <2>1. 1 \in 1..walSize /\ Len(d) >= Page
    BY <1>3, <1>6, <1>9 DEF Page
  <2> QED BY <1>4, <1>6, <2>1 DEF HasHeader
<1>12. \A i \in 1..k : h[i].id <= appends + 1 /\ h[i].id \in Nat /\ (i # 1 => h[i].part # 1)
  <2> SUFFICES ASSUME NEW i \in 1..k
               PROVE  h[i].id <= appends + 1 /\ h[i].id \in Nat /\ (i # 1 => h[i].part # 1)
    OBVIOUS
  <2>1. i \in 1..Padded(n) /\ i \in Nat /\ (i \in 1..n \/ i > n)
    <3> DEFINE to == Padded(n)
    <3>1. to \in Nat /\ k <= to
      BY <1>2, <1>7
    <3> HIDE DEF to
    <3>2. i \in 1..to /\ i \in Nat /\ (i \in 1..n \/ i > n)
      BY <1>1, <1>7, <3>1
    <3> QED BY <3>2 DEF to
  <2>2. CASE i \in 1..n
    <3>1. h[i] = [id |-> appends + 1, size |-> n, part |-> i]
      BY <1>2, <2>2
    <3> QED BY <1>3, <2>1, <3>1
  <2>3. CASE i > n
    <3>1. h[i] = Zero
      BY <1>2, <2>1, <2>3
    <3> QED BY <1>3, <3>1 DEF Zero
  <2> QED BY <2>1, <2>2, <2>3
<1>13. ASSUME NEW i \in DOMAIN d PROVE i \in 1..walSize \/ i - walSize \in 1..k \/ i \in (walSize + k + 1)..Len(d)
  BY <1>3, <1>7, <1>8
<1>14. Aged(d, appends + 1)
  <2> SUFFICES ASSUME NEW i \in DOMAIN d PROVE d[i].id <= appends + 1
    BY DEF Aged
  <2>1. CASE i - walSize \in 1..k
    <3>1. walSize + (i - walSize) = i
      BY <1>3, <1>8
    <3> QED BY <1>6, <1>12, <2>1, <3>1
  <2>2. CASE i \in 1..walSize \/ i \in (walSize + k + 1)..Len(d)
    <3>1. i \in DOMAIN wal /\ d[i] = wal[i]
      BY <1>3, <1>6, <1>9, <2>2
    <3>2. wal[i].id <= appends /\ wal[i].id \in Nat
      BY <1>3, <1>4, <3>1, HalfFields DEF Aged
    <3> QED BY <1>3, <3>1, <3>2
  <2> QED BY <1>13, <2>1, <2>2
<1>15. NoStart(d, walSize)
  <2> SUFFICES ASSUME NEW i \in (walSize + 2)..Len(d) PROVE d[i].part # 1
    BY DEF NoStart
  <2>1. CASE i <= walSize + k
    <3>1. i - walSize \in 1..k /\ i - walSize # 1 /\ walSize + (i - walSize) = i
      BY <1>3, <1>7, <2>1
    <3> QED BY <1>6, <1>12, <3>1
  <2>2. CASE ~(i <= walSize + k)
    <3>1. i \in (walSize + k + 1)..Len(d)
      BY <1>3, <1>6, <1>7, <2>2
    <3>2. d[i] = wal[i] /\ i \in (walSize + 2)..Len(wal)
      BY <1>3, <1>6, <3>1
    <3> QED BY <1>5, <3>2 DEF NoStart
  <2> QED BY <2>1, <2>2
<1>16. CASE k = 0
  <2>1. k # Padded(n)
    BY <1>1, <1>2, <1>16
  <2> QED BY <1>5, <1>6, <1>10, <1>11, <1>14, <1>15, <1>16, <2>1 DEF d, h, r, m
<1>17. CASE k \in 1..(n - 1)
  <2>1. ASSUME FrameAt(d, walSize) PROVE FALSE
    <3>1. 1 \in 1..k /\ 1 \in 1..n /\ k + 1 \in 1..n
      BY <1>1, <1>17
    <3>2. d[walSize + 1] = [id |-> appends + 1, size |-> n, part |-> 1]
      BY <1>2, <1>6, <3>1
    <3>3. d[walSize + 1].id = appends + 1 /\ d[walSize + 1].size = n
      BY <3>2
    <3>4. walSize + n <= Len(d) /\ d[walSize + (k + 1)] = [d[walSize + 1] EXCEPT !.part = k + 1]
      BY <2>1, <3>1, <3>3 DEF FrameAt
    <3>5. d[walSize + (k + 1)].id = appends + 1
      BY <3>2, <3>4
    <3>6. walSize + (k + 1) \in (walSize + k + 1)..Len(d)
      BY <1>1, <1>3, <1>6, <1>7, <3>1, <3>4
    <3>7. walSize + (k + 1) \in DOMAIN wal /\ d[walSize + (k + 1)] = wal[walSize + (k + 1)]
      BY <1>3, <1>6, <3>6
    <3>8. wal[walSize + (k + 1)].id <= appends
      BY <1>4, <3>7 DEF Aged
    <3> QED BY <1>3, <3>5, <3>7, <3>8
  <2>2. Replayed(d) = acked
    BY <1>3, <1>5, <1>8, <1>10, <1>11, <2>1, ReplayOf DEF m
  <2>3. k # Padded(n)
    BY <1>1, <1>2, <1>17
  <2> QED BY <1>5, <1>6, <1>10, <1>11, <1>14, <1>15, <2>2, <2>3 DEF d, h, r, m
<1>18. CASE k >= n
  <2> DEFINE more == Append(acked, r)
             end == walSize + Padded(n)
  <2>1. ASSUME NEW i \in 1..n PROVE d[walSize + i] = [id |-> appends + 1, size |-> n, part |-> i]
    <3>1. i \in 1..k
      BY <1>1, <1>7, <1>18
    <3> QED BY <1>2, <1>6, <3>1
  <2>2. d[walSize + 1] = [id |-> appends + 1, size |-> n, part |-> 1]
    BY <1>1, <2>1
  <2>3. FrameAt(d, walSize)
    <3>1. walSize < Len(d) /\ walSize + n <= Len(d)
      BY <1>1, <1>3, <1>6, <1>7, <1>18
    <3>2. d[walSize + 1].part = 1 /\ d[walSize + 1].size = n
      BY <2>2
    <3>3. \A i \in 1..n : d[walSize + i] = [d[walSize + 1] EXCEPT !.part = i]
      BY <2>1, <2>2
    <3> QED BY <3>1, <3>2, <3>3 DEF FrameAt
  <2>4. RecordAt(d, walSize) = r
    BY <2>2 DEF RecordAt, r, NextRecord
  <2>5. PICK q : Lays(d, more, q) /\ q[m + 1] = end
    BY <1>1, <1>3, <1>5, <1>8, <1>10, <2>3, <2>4, LaysMore DEF m
  <2>6. IsSequence(more) /\ Len(more) = m + 1
    BY <1>3, Appending DEF m
  <2>7. NoStart(d, end)
    <3>1. \A i \in (end + 2)..Len(d) : i \in (walSize + 2)..Len(d)
      BY <1>2, <1>3
    <3> QED BY <1>15, <3>1 DEF NoStart
  <2>8. ~FrameAt(d, end)
    <3> SUFFICES ASSUME FrameAt(d, end) PROVE FALSE
      OBVIOUS
    <3>1. end < Len(d) /\ d[end + 1].part = 1
      BY DEF FrameAt
    <3>2. end + 1 \in (walSize + 2)..Len(d)
      BY <1>1, <1>2, <1>3, <1>6, <3>1
    <3> QED BY <1>15, <3>1, <3>2 DEF NoStart
  <2> HIDE DEF more, end
  <2>9. Replayed(d) = more
    BY <1>8, <1>11, <2>5, <2>6, <2>8, ReplayOf
  <2> QED BY <1>5, <1>6, <1>10, <1>11, <1>14, <1>15, <2>5, <2>6, <2>7, <2>9 DEF d, h, r, m, more, end
<1> QED BY <1>1, <1>7, <1>16, <1>17, <1>18

-----------------------------------------------------------------------------
(* The steps. Each keeps the invariant, and is one of the durable log        *)
(* unless the file was found ragged.                                         *)

LogNow == IF walHandle = "open" THEN acked ELSE Replayed(wal)
Kernel == Replayed(wal)
Disk == {Replayed(c) : c \in durable}

Same == LogNow' = LogNow /\ Kernel' = Kernel /\ Disk' = Disk
Follows == WalTypeOK' /\ (~ragged' => ~ragged /\ LogInv' /\ (Log!Next \/ Same))

LEMMA ShortReads == ASSUME NEW c, ~(Len(c) >= Page) PROVE Replayed(c) = <<>>
BY DEF Replayed, HasHeader

LEMMA BareHeader ==
    ASSUME SizesAssumption, NEW c \in Seq(Halves), HasHeader(c), Len(c) = Page
    PROVE  /\ Replayed(c) = <<>> /\ NoStart(c, Page)
           /\ \E p : Lays(c, <<>>, p) /\ p[Len(<<>>)] = Page
<1> DEFINE p == [i \in 0..0 |-> Page]
<1>1. \A i \in 0..0 : p[i] = 2
  BY DEF Page
<1>2. p \in [0..0 -> Nat] /\ p[0] = Page
  BY <1>1 DEF Page
<1> HIDE DEF p
<1>3. 2 % 2 = 0 /\ 2 >= 0 /\ 1..0 = {} /\ \A i \in 0..0 : i = 0
  OBVIOUS
<1>4. Lays(c, <<>>, p)
  BY <1>1, <1>2, <1>3, EmptySequence DEF Lays
<1>5. ~FrameAt(c, p[Len(<<>>)]) /\ p[Len(<<>>)] = Page
  BY <1>2, EmptySequence DEF FrameAt, Page
<1>6. IsSequence(c) /\ Sized(c)
  BY ReplayTypes
<1>7. Replayed(c) = <<>>
  BY <1>4, <1>5, <1>6, EmptySequence, ReplayOf
<1>8. NoStart(c, Page)
  BY DEF NoStart, Page
<1> QED BY <1>4, <1>5, <1>7, <1>8

\* The first k halves of a header page, as a write leaves them.
LEMMA HeaderParts ==
    ASSUME SizesAssumption, NEW k \in 0..Page, NEW now \in Nat
    PROVE  LET d == WriteAt(<<>>, 0, HeaderPage, k)
           IN  /\ d = SubSeq(HeaderPage, 1, k)
               /\ d \in Seq(Halves) /\ Len(d) = k /\ Aged(d, now) /\ (Len(d) >= Page => HasHeader(d))
               /\ Replayed(d) = <<>>
<1> DEFINE d == SubSeq(HeaderPage, 1, k)
           e == WriteAt(<<>>, 0, HeaderPage, k)
<1>1. /\ HeaderPage \in Seq(Halves) /\ Len(HeaderPage) = Page
      /\ \A i \in 1..Page : HeaderPage[i].id = 0
      /\ HeaderPage[1] = Magic
  BY DEF HeaderPage, Page, Halves, Magic, Zero
<1>2. k \in Nat /\ k <= Page /\ Page \in Nat
  BY DEF Page
<1>3. IsSequence(d) /\ Len(d) = k /\ \A i \in 1..k : d[i] = HeaderPage[i]
  BY <1>1, AnySequence, Prefix
<1>4. e = [i \in 1..k |-> HeaderPage[i]]
  <2>1. Len(<<>>) = 0 /\ 0 + k = k
    BY <1>2
  <2> DEFINE both == {0 + k, Len(<<>>)}
             At(i) == CASE i > 0 /\ i <= 0 + k -> HeaderPage[i - 0]
                        [] i <= 0 /\ i > Len(<<>>) -> Zero
                        [] OTHER -> <<>>[i]
  <2>2. both \subseteq Nat /\ k \in both /\ \A j \in both : j <= k
    BY <1>2, <2>1
  <2>3. e = [i \in 1..Max(both) |-> At(i)]
    BY DEF WriteAt
  <2>4. ASSUME NEW i \in 1..k PROVE At(i) = HeaderPage[i]
    <3>1. i > 0 /\ i <= 0 + k /\ ~(i <= 0) /\ i - 0 = i
      BY <1>2
    <3> QED BY <3>1
  <2> HIDE DEF both, At
  <2>5. Max(both) = k
    BY <2>2, MaxIs
  <2> QED BY <2>3, <2>4, <2>5
<1> HIDE DEF d, e
<1>5. e \in Seq(Halves) /\ Len(e) = k
  <2>1. \A i \in 1..k : HeaderPage[i] \in Halves
    BY <1>1, <1>2
  <2>2. e \in [1..k -> Halves]
    BY <1>4, <2>1
  <2> QED BY <1>2, <2>2
<1>6. \A i \in 1..k : e[i] = HeaderPage[i]
  BY <1>4
<1>7. e = d
  <2>1. d = [i \in 1..k |-> d[i]]
    BY <1>3 DEF IsSequence
  <2> QED BY <1>3, <1>4, <2>1
<1>8. Aged(e, now)
  <2>1. DOMAIN e = 1..k /\ 1..k \subseteq 1..Page
    BY <1>2, <1>4, <1>5
  <2> QED BY <1>1, <1>6, <2>1 DEF Aged
<1>9. Len(e) >= Page => Len(e) = Page /\ HasHeader(e)
  BY <1>1, <1>2, <1>5, <1>6 DEF HasHeader, Page
<1>10. Replayed(e) = <<>>
  BY <1>5, <1>9, BareHeader, ShortReads
<1> QED BY <1>5, <1>7, <1>8, <1>9, <1>10 DEF d, e

LEMMA WholeHeader ==
    ASSUME SizesAssumption, NEW now \in Nat
    PROVE  /\ HeaderPage \in Seq(Halves) /\ Len(HeaderPage) = Page /\ HasHeader(HeaderPage)
           /\ Aged(HeaderPage, now)
BY DEF HeaderPage, Page, Halves, HasHeader, Aged, Magic, Zero

\* Nothing is read from a file that was not yet created, now or after a crash.
LEMMA EmptyReads ==
    ASSUME IInv, ~ragged, walHandle = "closed", Len(wal) < Page
    PROVE  LogInv /\ LogNow = <<>> /\ Kernel = <<>> /\ Disk = {<<>>} /\ acked = <<>>
<1>1. LogInv /\ wal \in durable /\ \A c \in durable : ~(Len(c) >= Page)
  <2>1. LogInv /\ wal \in durable /\ durable \subseteq Seq(Halves)
    BY DEF IInv, WalTypeOK
  <2>2. \A c \in durable : Len(c) \in Nat /\ Len(c) < Page
    BY <2>1 DEF LogInv
  <2> QED BY <2>1, <2>2 DEF Page
<1>2. \A c \in durable : Replayed(c) = <<>>
  BY <1>1, ShortReads
<1> QED BY <1>1, <1>2 DEF LogNow, Kernel, Disk, LogInv

LEMMA OpenEmptyFollows == ASSUME IInv, OpenEmpty PROVE Follows
<1>1. SizesAssumption /\ WalTypeOK /\ appends \in Nat
  BY WalIs DEF IInv
<1>2. /\ HeaderPage \in Seq(Halves) /\ Len(HeaderPage) = Page /\ HasHeader(HeaderPage)
      /\ Aged(HeaderPage, appends)
  BY <1>1, WholeHeader
<1>3. /\ wal' = HeaderPage /\ durable' = {HeaderPage} /\ walSize' = Page /\ walHandle' = "open"
      /\ acked' = acked /\ ragged' = ragged /\ appends' = appends
      /\ walHandle = "closed" /\ wal = <<>>
  BY DEF OpenEmpty
<1>4. WalTypeOK'
  <2>1. wal' \in Seq(Halves) /\ durable' \subseteq Seq(Halves) /\ wal' \in durable'
    BY <1>2, <1>3
  <2>2. walSize' \in 0..Len(wal')
    <3>1. Page \in 0..Page
      BY DEF Page
    <3> QED BY <1>2, <1>3, <3>1
  <2> QED BY <1>1, <1>3, <2>1, <2>2 DEF WalTypeOK
<1>5. Replayed(HeaderPage) = <<>> /\ NoStart(HeaderPage, Page)
      /\ \E p : Lays(HeaderPage, <<>>, p) /\ p[Len(<<>>)] = Page
  BY <1>1, <1>2, BareHeader
<1>6. ASSUME ~ragged PROVE LogInv' /\ Same
  <2>1. LogNow = <<>> /\ Kernel = <<>> /\ Disk = {<<>>} /\ acked = <<>>
    BY <1>3, <1>6, EmptyReads DEF Page
  <2>2. LogNow' = <<>> /\ Kernel' = <<>> /\ Disk' = {<<>>}
    BY <1>3, <1>5, <2>1 DEF LogNow, Kernel, Disk
  <2>3. Ready'
    BY <1>3, <1>5, <2>1 DEF Ready
  <2>4. LogInv'
    BY <1>2, <1>3, <2>1, <2>3 DEF LogInv, Page
  <2> QED BY <2>1, <2>2, <2>4 DEF Same
<1> QED BY <1>3, <1>4, <1>6 DEF Follows

LEMMA OpenEmptyFailsFollows == ASSUME IInv, NEW k \in 0..Page, OpenEmptyFails(k) PROVE Follows
<1>1. SizesAssumption /\ WalTypeOK /\ appends \in Nat
  BY WalIs DEF IInv
<1>2. /\ walHandle = "closed" /\ wal = <<>>
      /\ wal' = SubSeq(HeaderPage, 1, k)
      /\ durable' = durable \cup OnTheWay(<<>>, 0, HeaderPage, k)
      /\ walSize' = walSize /\ walHandle' = walHandle /\ acked' = acked /\ ragged' = ragged
      /\ appends' = appends
  BY DEF OpenEmptyFails
<1>3. ASSUME NEW j \in 0..k
      PROVE  LET d == WriteAt(<<>>, 0, HeaderPage, j)
             IN  /\ d = SubSeq(HeaderPage, 1, j)
                 /\ d \in Seq(Halves) /\ Len(d) = j /\ Aged(d, appends) /\ (Len(d) >= Page => HasHeader(d))
                 /\ Replayed(d) = <<>>
  <2>1. j \in 0..Page
    BY DEF Page
  <2> QED BY <1>1, <2>1, HeaderParts
<1>4. k \in 0..k /\ k \in Nat
  BY DEF Page
<1>5. /\ wal' \in Seq(Halves) /\ Len(wal') = k /\ wal' \in durable' /\ Replayed(wal') = <<>>
  BY <1>2, <1>3, <1>4 DEF OnTheWay
<1>6. ASSUME NEW c \in durable', c \notin durable
      PROVE  /\ c \in Seq(Halves) /\ Len(c) \in 0..k /\ Aged(c, appends) /\ (Len(c) >= Page => HasHeader(c))
             /\ Replayed(c) = <<>>
  <2>1. PICK j \in 0..k : c = WriteAt(<<>>, 0, HeaderPage, j)
    BY <1>2, <1>6 DEF OnTheWay
  <2> QED BY <1>3, <2>1
<1>7. WalTypeOK'
  <2>1. walSize' \in 0..Len(wal')
    <3>1. walSize = 0
      BY <1>1, <1>2 DEF WalTypeOK
    <3> QED BY <1>2, <1>4, <1>5, <3>1
  <2> QED BY <1>1, <1>2, <1>5, <1>6, <2>1 DEF WalTypeOK
<1>8. ASSUME ~ragged PROVE LogInv' /\ Same
  <2>1. LogInv /\ LogNow = <<>> /\ Kernel = <<>> /\ Disk = {<<>>} /\ acked = <<>>
    BY <1>2, <1>8, EmptyReads DEF Page
  <2>2. \A c \in durable : Replayed(c) = <<>>
    BY <2>1 DEF Disk
  <2>3. LogNow' = <<>> /\ Kernel' = <<>> /\ Disk' = {<<>>}
    BY <1>2, <1>5, <1>6, <2>2 DEF LogNow, Kernel, Disk
  <2>4. ASSUME Len(wal') < Page PROVE \A c \in durable' : Len(c) < Page
    <3>1. \A c \in durable : Len(c) < Page
      BY <1>2, <2>1 DEF LogInv, Page
    <3>2. \A i \in 0..k : i < Page
      BY <1>4, <1>5, <2>4 DEF Page
    <3> QED BY <1>6, <3>1, <3>2
  <2>5. LogInv'
    BY <1>2, <1>6, <2>1, <2>4 DEF LogInv
  <2> QED BY <2>1, <2>3, <2>5 DEF Same
<1> QED BY <1>2, <1>7, <1>8 DEF Follows

LEMMA OpenRaggedFollows == ASSUME IInv, OpenShort \/ OpenRefused PROVE Follows
<1>1. SizesAssumption /\ WalTypeOK
  BY DEF IInv
<1>2. CASE OpenShort
  <2>1. /\ wal' = <<>> /\ durable' = durable \cup {<<>>} /\ walSize' = 0 /\ walHandle' = "open"
        /\ ragged' = TRUE /\ acked' = acked /\ appends' = appends
    BY <1>2 DEF OpenShort
  <2>2. <<>> \in Seq(Halves) /\ 0 \in 0..Len(<<>>)
    OBVIOUS
  <2>3. WalTypeOK'
    BY <1>1, <2>1, <2>2 DEF WalTypeOK
  <2> QED BY <2>1, <2>3 DEF Follows
<1>3. CASE OpenRefused
  <2>1. WalTypeOK'
    BY <1>1, <1>3 DEF OpenRefused, WalTypeOK
  <2>2. ASSUME ~ragged' PROVE FALSE
    <3>1. ~ragged /\ Len(wal) >= Page /\ ~HasHeader(wal)
      BY <1>3, <2>2 DEF OpenRefused
    <3>2. LogInv /\ wal \in durable
      BY <1>1, <3>1 DEF IInv, WalTypeOK
    <3> QED BY <3>1, <3>2 DEF LogInv
  <2> QED BY <2>1, <2>2 DEF Follows
<1> QED BY <1>2, <1>3

LEMMA ReplayFollows == ASSUME IInv, Replay PROVE Follows
<1> DEFINE end == EndOfReplay(wal)
           rs == Replayed(wal)
<1>1. SizesAssumption /\ WalTypeOK
  BY DEF IInv
<1>2. /\ walHandle = "closed" /\ HasHeader(wal) /\ walHandle' = "open" /\ acked' = rs
      /\ ragged' = (ragged \/ EndsInPage(wal)) /\ appends' = appends
      /\ \/ end < Len(wal) /\ wal' = Truncated(wal, end) /\ durable' = durable \cup {wal'} /\ walSize' = Len(wal')
         \/ ~(end < Len(wal)) /\ walSize' = Len(wal) /\ wal' = wal /\ durable' = durable
  BY DEF Replay
<1>3. /\ wal \in Seq(Halves) /\ wal \in durable /\ IsSequence(wal) /\ Sized(wal) /\ Len(wal) \in Nat
      /\ DOMAIN wal = 1..Len(wal) /\ Zero \in Halves
  BY <1>1, WalIs
<1>4. rs \in Seq(WalRecord) /\ end \in Nat /\ end >= Page
  BY <1>1, <1>2, <1>3, ReplayTypes
<1>5. PICK p : Lays(wal, rs, p) /\ end = p[Len(rs)] /\ ~FrameAt(wal, end)
  BY <1>2, <1>3, ReplayLays
<1>6. IsSequence(rs) /\ Len(rs) \in Nat
  BY <1>2, <1>3, ReplayLays, SequenceLength
<1> HIDE DEF end, rs
<1>7. end < Len(wal) => /\ wal' \in Seq(Halves) /\ Len(wal') = end
                        /\ \A i \in 1..end : wal'[i] = wal[i]
  <2> SUFFICES ASSUME end < Len(wal)
               PROVE  /\ wal' \in Seq(Halves) /\ Len(wal') = end
                      /\ \A i \in 1..end : wal'[i] = wal[i]
    OBVIOUS
  <2>1. wal' = Truncated(wal, end) /\ \A i \in 1..end : i <= Len(wal)
    BY <1>2, <1>3, <1>4
  <2> QED BY <1>3, <1>4, <2>1, TruncatedIs
<1>8. wal' \in Seq(Halves) /\ Len(wal') \in Nat /\ walSize' = Len(wal') /\ wal' \in durable'
      /\ durable' \subseteq durable \cup {wal'} /\ durable \subseteq durable'
  BY <1>2, <1>3, <1>4, <1>7
<1>9. WalTypeOK'
  BY <1>1, <1>2, <1>4, <1>8 DEF WalTypeOK
<1>10. ASSUME ~ragged' PROVE ~ragged /\ LogInv' /\ Same
  <2>1. ~ragged /\ Len(wal) % 2 = 0 /\ LogInv
    BY <1>2, <1>10 DEF EndsInPage, Page, IInv
  <2>2. end <= Len(wal)
    BY <1>2, <1>3, <1>5, <1>6, <2>1, LaysWithin DEF HasHeader
  <2>3. Len(wal') = end /\ \A i \in 1..end : wal'[i] = wal[i]
    BY <1>2, <1>3, <1>4, <1>7, <2>2
  <2>4. IsSequence(wal') /\ Sized(wal') /\ DOMAIN wal' = 1..end
    BY <1>1, <1>8, <2>3, ReplayTypes
  <2>5. Lays(wal', rs, p)
    <3>1. Len(wal') >= p[Len(rs)] /\ \A i \in 1..p[Len(rs)] : wal'[i] = wal[i]
      BY <1>4, <1>5, <2>3
    <3> QED BY <1>3, <1>5, <1>6, <2>4, <3>1, LaysKept
  <2>6. HasHeader(wal')
    BY <1>2, <1>4, <2>3 DEF HasHeader, Page
  <2>7. ~FrameAt(wal', p[Len(rs)]) /\ NoStart(wal', end)
    BY <1>4, <1>5, <2>3 DEF FrameAt, NoStart
  <2>8. Replayed(wal') = rs
    BY <1>6, <2>4, <2>5, <2>6, <2>7, ReplayOf
  <2>9. Ready'
    BY <1>2, <1>5, <1>8, <2>3, <2>5, <2>7 DEF Ready
  <2>10. \A c \in durable' : Aged(c, appends) /\ (Len(c) >= Page => HasHeader(c))
    <3>1. \A c \in durable : Aged(c, appends) /\ (Len(c) >= Page => HasHeader(c))
      BY <2>1 DEF LogInv
    <3>2. Aged(wal', appends)
      <4>1. \A i \in 1..end : i \in DOMAIN wal
        BY <1>3, <1>4, <2>2
      <4> QED BY <1>3, <2>3, <2>4, <3>1, <4>1 DEF Aged
    <3> QED BY <1>8, <2>6, <3>1, <3>2
  <2>11. LogInv'
    <3>1. ~(Len(wal') < Page)
      BY <1>4, <2>3 DEF Page
    <3> QED BY <1>2, <2>9, <2>10, <3>1 DEF LogInv
  <2>12. Same
    <3>1. LogNow = rs /\ LogNow' = rs /\ Kernel = rs /\ Kernel' = rs
      BY <1>2, <2>8 DEF LogNow, Kernel, rs
    <3>2. Disk' = Disk
      <4>1. rs \in Disk
        BY <1>3 DEF Disk, rs
      <4> QED BY <1>8, <2>8, <4>1 DEF Disk
    <3> QED BY <3>1, <3>2 DEF Same
  <2> QED BY <2>1, <2>11, <2>12
<1> QED BY <1>9, <1>10 DEF Follows

LEMMA TruncateFollows == ASSUME IInv, TruncateToHeader PROVE Follows
<1>1. SizesAssumption /\ WalTypeOK
  BY DEF IInv
<1>2. /\ walHandle = "open" /\ wal' = Truncated(wal, Page) /\ durable' = durable \cup {wal'}
      /\ walSize' = Page /\ acked' = <<>> /\ walHandle' = walHandle /\ ragged' = ragged
      /\ appends' = appends
  BY DEF TruncateToHeader
<1>3. /\ wal \in Seq(Halves) /\ wal \in durable /\ Len(wal) \in Nat /\ DOMAIN wal = 1..Len(wal)
      /\ Zero \in Halves /\ Page \in Nat
  BY <1>1, WalIs DEF Page
<1>4. /\ wal' \in Seq(Halves) /\ Len(wal') = Page
      /\ \A i \in 1..Page : i <= Len(wal) => wal'[i] = wal[i]
  BY <1>2, <1>3, TruncatedIs
<1>5. WalTypeOK'
  <2>1. durable' \subseteq Seq(Halves) /\ wal' \in durable'
    BY <1>1, <1>2, <1>4 DEF WalTypeOK
  <2>2. walSize' \in 0..Len(wal')
    <3>1. Page \in 0..Page
      BY DEF Page
    <3> QED BY <1>2, <1>4, <3>1
  <2>3. acked' \in Seq(WalRecord)
    BY <1>2
  <2> QED BY <1>1, <1>2, <1>4, <2>1, <2>2, <2>3 DEF WalTypeOK
<1>6. ASSUME ~ragged PROVE LogInv' /\ Log!TruncateToHeader
  <2>1. LogInv /\ Len(wal) >= Page
    BY <1>1, <1>2, <1>3, <1>6 DEF IInv, LogInv, Page
  <2>2. HasHeader(wal)
    BY <1>3, <2>1 DEF LogInv
  <2>3. \A i \in 1..Page : wal'[i] = wal[i] /\ i \in DOMAIN wal
    BY <1>3, <1>4, <2>1 DEF Page
  <2>4. HasHeader(wal')
    BY <1>4, <2>2, <2>3 DEF HasHeader, Page
  <2>5. Aged(wal', appends)
    <3>1. DOMAIN wal' = 1..Page
      BY <1>4
    <3> QED BY <1>3, <2>1, <2>3, <3>1 DEF LogInv, Aged
  <2>6. Replayed(wal') = <<>> /\ NoStart(wal', Page) /\ \E p : Lays(wal', <<>>, p) /\ p[Len(<<>>)] = Page
    BY <1>1, <1>4, <2>4, BareHeader
  <2>7. LogInv'
    <3>1. Ready'
      BY <1>2, <2>6 DEF Ready
    <3> QED BY <1>2, <1>4, <2>1, <2>4, <2>5, <3>1 DEF LogInv, Page
  <2>8. Log!TruncateToHeader
    BY <1>2, <2>6 DEF Log!TruncateToHeader
  <2> QED BY <2>7, <2>8
<1> QED BY <1>2, <1>5, <1>6 DEF Follows, Log!Next

LEMMA StopFollows == ASSUME IInv, Stop \/ \E content \in durable : PowerLoss(content) PROVE Follows
<1>1. SizesAssumption /\ WalTypeOK
  BY DEF IInv
<1>2. CASE Stop
  <2>1. WalTypeOK'
    BY <1>1, <1>2, WalIs DEF WalTypeOK, Stop
  <2>2. ASSUME ~ragged PROVE LogInv'
    BY <1>2, <2>2 DEF IInv, LogInv, Stop
  <2>3. Log!ProcessRestart
    BY <1>2 DEF Stop, Log!ProcessRestart
  <2> QED BY <1>2, <2>1, <2>2, <2>3 DEF Follows, Stop, Log!Next
<1>3. ASSUME NEW content \in durable, PowerLoss(content) PROVE Follows
  <2>1. /\ wal' = content /\ durable' = {content} /\ walHandle' = "closed" /\ walSize' = 0
        /\ acked' = <<>> /\ ragged' = ragged /\ appends' = appends
    BY <1>3 DEF PowerLoss
  <2>2. content \in Seq(Halves) /\ Len(content) \in Nat
    BY <1>1 DEF WalTypeOK
  <2>3. WalTypeOK'
    BY <1>1, <2>1, <2>2 DEF WalTypeOK
  <2>4. ASSUME ~ragged PROVE LogInv'
    BY <2>1, <2>4 DEF IInv, LogInv
  <2>5. Log!PowerRestart
    BY <2>1 DEF Log!PowerRestart
  <2> QED BY <2>1, <2>3, <2>4, <2>5 DEF Follows, Log!Next
<1> QED BY <1>2, <1>3

\* A write of k halves of a frame, and the contents it goes through.
LEMMA WriteTypes ==
    ASSUME SizesAssumption, WalTypeOK, appends < MaxAppends, NEW n \in Sizes, NEW k \in 0..Padded(n)
    PROVE  LET frame == Frame(NextRecord(n))
               d == WriteAt(wal, walSize, frame, k)
           IN  /\ Len(frame) = Padded(n) /\ Padded(n) \in Nat
               /\ d \in OnTheWay(wal, walSize, frame, k)
               /\ OnTheWay(wal, walSize, frame, k) \subseteq Seq(Halves)
               /\ Len(d) \in Nat /\ Len(d) >= walSize + k /\ Len(d) >= Len(wal)
<1> DEFINE frame == Frame(NextRecord(n))
<1>1. NextRecord(n) \in WalRecord /\ NextRecord(n).size = n /\ n \in Nat
  BY NextIsRecord DEF SizesAssumption
<1>2. frame \in Seq(Halves) /\ Len(frame) = Padded(n) /\ Padded(n) \in Nat
  BY <1>1, FrameHolds
<1>3. wal \in Seq(Halves) /\ walSize \in 0..Len(wal) /\ Zero \in Halves
  BY WalIs
<1> HIDE DEF frame
<1>4. ASSUME NEW j \in 0..Len(frame)
      PROVE  LET d == WriteAt(wal, walSize, frame, j)
             IN  d \in Seq(Halves) /\ Len(d) \in Nat /\ Len(d) >= walSize + j /\ Len(d) >= Len(wal)
  BY <1>2, <1>3, WrittenIs
<1>5. k \in 0..Len(frame) /\ k \in 0..k /\ \A j \in 0..k : j \in 0..Len(frame)
  <2> DEFINE to == Padded(n)
  <2>1. to \in Nat /\ k \in 0..to
    BY <1>2
  <2> HIDE DEF to
  <2>2. k \in 0..to /\ k \in 0..k /\ \A j \in 0..k : j \in 0..to
    BY <2>1
  <2> QED BY <1>2, <2>2 DEF to
<1>6. OnTheWay(wal, walSize, frame, k) \subseteq Seq(Halves)
  BY <1>4, <1>5 DEF OnTheWay
<1>7. WriteAt(wal, walSize, frame, k) \in OnTheWay(wal, walSize, frame, k)
  BY <1>5 DEF OnTheWay
<1> QED BY <1>2, <1>4, <1>5, <1>6, <1>7 DEF frame

LEMMA OnTheWayReads ==
    ASSUME SizesAssumption, WalTypeOK, LogInv, walHandle = "open", appends < MaxAppends,
           NEW n \in Sizes, NEW k \in 0..Padded(n),
           NEW c \in OnTheWay(wal, walSize, Frame(NextRecord(n)), k)
    PROVE  /\ HasHeader(c) /\ Aged(c, appends + 1)
           /\ Replayed(c) \in Disk \cup {acked, Append(acked, NextRecord(n))}
<1>1. PICK j \in 0..k : c = WriteAt(wal, walSize, Frame(NextRecord(n)), j)
  BY DEF OnTheWay
<1>2. j \in 0..Padded(n)
  <2> DEFINE to == Padded(n)
  <2>1. to \in Nat /\ k \in 0..to
    BY WriteTypes
  <2> HIDE DEF to
  <2>2. j \in 0..to
    BY <2>1
  <2> QED BY <2>2 DEF to
<1>3. /\ HasHeader(c) /\ Aged(c, appends + 1)
      /\ c = wal \/ Replayed(c) = acked \/ Replayed(c) = Append(acked, NextRecord(n))
  BY <1>1, <1>2, WriteReads
<1>4. c = wal => Replayed(c) \in Disk
  BY DEF WalTypeOK, Disk
<1> QED BY <1>3, <1>4

\* What every append, good or bad, keeps of the invariant.
LEMMA AppendKeeps ==
    ASSUME SizesAssumption, WalTypeOK, LogInv, walHandle = "open", appends < MaxAppends,
           NEW n \in Sizes, NEW k \in 0..Padded(n),
           wal' = WriteAt(wal, walSize, Frame(NextRecord(n)), k),
           durable' \subseteq durable \cup OnTheWay(wal, walSize, Frame(NextRecord(n)), k),
           appends' = appends + 1, walHandle' = walHandle, Ready'
    PROVE  LogInv'
<1>1. \A c \in durable' : Aged(c, appends + 1) /\ (Len(c) >= Page => HasHeader(c))
  <2> SUFFICES ASSUME NEW c \in durable'
               PROVE  Aged(c, appends + 1) /\ (Len(c) >= Page => HasHeader(c))
    OBVIOUS
  <2>1. CASE c \in durable
    <3>1. Aged(c, appends) /\ (Len(c) >= Page => HasHeader(c))
      BY <2>1 DEF LogInv
    <3>2. appends \in Nat /\ c \in Seq(Halves)
      BY <2>1, WalIs DEF WalTypeOK
    <3>3. \A i \in DOMAIN c : c[i].id \in Nat
      BY <3>2, HalfFields
    <3>4. Aged(c, appends + 1)
      BY <3>1, <3>2, <3>3 DEF Aged
    <3> QED BY <3>1, <3>4
  <2>2. CASE c \notin durable
    BY <2>2, OnTheWayReads
  <2> QED BY <2>1, <2>2
<1>2. ~(Len(wal') < Page)
  <2>1. HasHeader(wal') /\ wal' \in Seq(Halves)
    BY WriteReads
  <2> QED BY <2>1 DEF HasHeader, Page
<1> QED BY <1>1, <1>2 DEF LogInv

LEMMA AppendFrameFollows ==
    ASSUME IInv, NEW n \in Sizes, NEW sync \in BOOLEAN, AppendFrame(n, sync)
    PROVE  Follows
<1> DEFINE r == NextRecord(n)
           frame == Frame(r)
           full == Padded(n)
           more == Append(acked, r)
<1>1. SizesAssumption /\ WalTypeOK /\ appends < MaxAppends /\ walHandle = "open"
  BY DEF IInv, AppendFrame, MayAppend
<1>2. full \in Nat /\ Len(frame) = full /\ full \in 0..full
  <2>1. n \in Nat /\ NextRecord(n) \in WalRecord /\ NextRecord(n).size = n
    BY <1>1, NextIsRecord DEF SizesAssumption
  <2>2. full \in Nat /\ Len(frame) = full
    BY <1>1, <2>1, FrameHolds
  <2> HIDE DEF full, frame
  <2> QED BY <2>2
<1>3. /\ wal' = WriteAt(wal, walSize, frame, full)
      /\ durable' = IF sync THEN {wal'} ELSE durable \cup OnTheWay(wal, walSize, frame, full)
      /\ walSize' = walSize + full /\ acked' = more
      /\ walHandle' = walHandle /\ ragged' = ragged /\ appends' = appends + 1
  BY <1>2 DEF AppendFrame, MayAppend
<1>4. /\ WriteAt(wal, walSize, frame, full) \in OnTheWay(wal, walSize, frame, full)
      /\ OnTheWay(wal, walSize, frame, full) \subseteq Seq(Halves)
      /\ Len(wal') \in Nat /\ Len(wal') >= walSize + full
  BY <1>1, <1>2, <1>3, WriteTypes
<1>5. walSize \in Nat /\ appends \in Nat /\ acked \in Seq(WalRecord) /\ r \in WalRecord
  BY <1>1, WalIs, NextIsRecord
<1>6. WalTypeOK'
  <2> HIDE DEF full, frame, r
  <2>1. wal' \in Seq(Halves) /\ durable' \subseteq Seq(Halves) /\ wal' \in durable'
    BY <1>1, <1>3, <1>4 DEF WalTypeOK
  <2>2. walSize' \in 0..Len(wal')
    BY <1>2, <1>3, <1>4, <1>5
  <2>3. acked' \in Seq(WalRecord)
    BY <1>3, <1>5
  <2>4. appends' \in 0..MaxAppends
    BY <1>1, <1>3, <1>5 DEF SizesAssumption
  <2> QED BY <1>1, <1>3, <2>1, <2>2, <2>3, <2>4 DEF WalTypeOK
<1>7. ASSUME ~ragged PROVE LogInv' /\ Log!Next
  <2>1. LogInv
    BY <1>7 DEF IInv
  <2>2. /\ Replayed(wal') = more /\ NoStart(wal', walSize + full)
        /\ \E q : Lays(wal', more, q) /\ q[Len(more)] = walSize + full
    BY <1>1, <1>2, <1>3, <2>1, WriteReads
  <2>3. Ready'
    BY <1>3, <2>2 DEF Ready
  <2>4. LogInv'
    <3>1. durable' \subseteq durable \cup OnTheWay(wal, walSize, frame, full)
      BY <1>3, <1>4
    <3> QED BY <1>1, <1>2, <1>3, <2>1, <2>3, <3>1, AppendKeeps
  <2>5. LogNow = acked /\ LogNow' = more /\ Kernel' = more
    BY <1>1, <1>3, <2>2 DEF LogNow, Kernel
  <2>6. more \in {Append(LogNow, s) : s \in WalRecord}
    BY <1>5, <2>5
  <2>7. CASE sync
    <3>1. Disk' = {more}
      BY <1>3, <2>2, <2>7 DEF Disk
    <3>2. Log!AppendSynced
      BY <2>5, <2>6, <3>1 DEF Log!AppendSynced, Log!OneMore, LogNow, Kernel, Disk
    <3> QED BY <2>4, <3>2 DEF Log!Next
  <2>8. CASE ~sync
    <3>1. durable' = durable \cup OnTheWay(wal, walSize, frame, full) /\ wal' \in durable'
      BY <1>3, <1>4, <2>8
    <3>2. more \in Disk'
      BY <2>2, <3>1 DEF Disk
    <3>3. ASSUME NEW x \in Disk' PROVE x \in Disk \cup {acked, more}
      <4>1. PICK c \in durable' : x = Replayed(c)
        BY <3>3 DEF Disk
      <4>2. CASE c \in durable
        BY <4>1, <4>2 DEF Disk
      <4>3. CASE c \in OnTheWay(wal, walSize, frame, full)
        BY <1>1, <1>2, <2>1, <4>1, <4>3, OnTheWayReads
      <4> QED BY <3>1, <4>2, <4>3
    <3>4. Disk' \subseteq Disk \cup {LogNow, LogNow'}
      BY <2>5, <3>3
    <3>5. Log!AppendNoSync
      BY <2>5, <2>6, <3>2, <3>4 DEF Log!AppendNoSync, Log!OneMore, LogNow, Kernel, Disk
    <3> QED BY <2>4, <3>5 DEF Log!Next
  <2> QED BY <2>4, <2>7, <2>8
<1> QED BY <1>3, <1>6, <1>7 DEF Follows

LEMMA AppendFailsFollows ==
    ASSUME IInv, NEW n \in Sizes, NEW k \in 0..Padded(n), AppendFails(n, k)
    PROVE  Follows
<1> DEFINE r == NextRecord(n)
           frame == Frame(r)
           more == Append(acked, r)
<1>1. SizesAssumption /\ WalTypeOK /\ appends < MaxAppends /\ walHandle = "open"
  BY DEF IInv, AppendFails, MayAppend
<1>2. /\ wal' = WriteAt(wal, walSize, frame, k)
      /\ durable' = durable \cup OnTheWay(wal, walSize, frame, k)
      /\ walSize' = walSize /\ acked' = acked
      /\ walHandle' = walHandle /\ ragged' = ragged /\ appends' = appends + 1
  BY DEF AppendFails, MayAppend
<1>3. /\ WriteAt(wal, walSize, frame, k) \in OnTheWay(wal, walSize, frame, k)
      /\ OnTheWay(wal, walSize, frame, k) \subseteq Seq(Halves)
      /\ Len(wal') \in Nat /\ Len(wal') >= Len(wal)
  BY <1>1, <1>2, WriteTypes
<1>4. /\ walSize \in Nat /\ walSize \in 0..Len(wal) /\ Len(wal) \in Nat /\ appends \in Nat
      /\ acked \in Seq(WalRecord) /\ r \in WalRecord
  BY <1>1, WalIs, NextIsRecord
<1>5. WalTypeOK'
  <2> HIDE DEF frame, r
  <2>1. wal' \in Seq(Halves) /\ durable' \subseteq Seq(Halves) /\ wal' \in durable'
    BY <1>1, <1>2, <1>3 DEF WalTypeOK
  <2>2. walSize' \in 0..Len(wal')
    BY <1>2, <1>3, <1>4
  <2>3. appends' \in 0..MaxAppends
    BY <1>1, <1>2, <1>4 DEF SizesAssumption
  <2> QED BY <1>1, <1>2, <2>1, <2>2, <2>3 DEF WalTypeOK
<1>6. ASSUME ~ragged PROVE LogInv' /\ Log!Next
  <2>1. LogInv
    BY <1>6 DEF IInv
  <2>2. /\ NoStart(wal', walSize) /\ \E p : Lays(wal', acked, p) /\ p[Len(acked)] = walSize
    BY <1>1, <1>2, <2>1, WriteReads
  <2>3. Ready'
    BY <1>2, <2>2 DEF Ready
  <2>4. LogInv'
    <3>1. durable' \subseteq durable \cup OnTheWay(wal, walSize, frame, k)
      BY <1>2
    <3> QED BY <1>1, <1>2, <2>1, <2>3, <3>1, AppendKeeps
  <2>5. LogNow = acked /\ LogNow' = LogNow
    BY <1>1, <1>2 DEF LogNow
  <2>6. more \in {Append(LogNow, s) : s \in WalRecord}
    BY <1>4, <2>5
  <2>7. Kernel' = Kernel \/ Kernel' = LogNow \/ Kernel' = more
    <3>1. wal' = wal \/ Replayed(wal') = acked \/ Replayed(wal') = more
      BY <1>1, <1>2, <2>1, WriteReads
    <3> QED BY <2>5, <3>1 DEF Kernel
  <2>8. Disk \subseteq Disk'
    BY <1>2 DEF Disk
  <2>9. ASSUME NEW x \in Disk' PROVE x \in Disk \cup {LogNow, more}
    <3>1. PICK c \in durable' : x = Replayed(c)
      BY <2>9 DEF Disk
    <3>2. CASE c \in durable
      BY <3>1, <3>2 DEF Disk
    <3>3. CASE c \in OnTheWay(wal, walSize, frame, k)
      BY <1>1, <2>1, <2>5, <3>1, <3>3, OnTheWayReads
    <3> QED BY <1>2, <3>2, <3>3
  <2>10. Log!AppendFails
    <3> DEFINE longer == {Append(LogNow, s) : s \in WalRecord}
    <3>1. Kernel' \in {Kernel, LogNow} \cup longer
      BY <2>6, <2>7
    <3>2. Disk' \subseteq Disk \cup {LogNow} \cup longer
      BY <2>6, <2>9
    <3> QED BY <2>5, <2>8, <3>1, <3>2 DEF Log!AppendFails, Log!OneMore, LogNow, Kernel, Disk
  <2> QED BY <2>4, <2>10 DEF Log!Next
<1> QED BY <1>2, <1>5, <1>6 DEF Follows

-----------------------------------------------------------------------------
(* The theorems                                                              *)

LEMMA InitHolds ==
    ASSUME SizesAssumption, WalInit
    PROVE  IInv /\ Log!Init
<1>1. WalTypeOK
  <2>1. <<>> \in Seq(Halves) /\ 0 \in 0..Len(<<>>) /\ <<>> \in Seq(WalRecord)
    OBVIOUS
  <2>2. /\ wal = <<>> /\ durable = {<<>>} /\ walSize = 0 /\ walHandle = "closed" /\ acked = <<>>
        /\ ragged = FALSE /\ appends = 0
    BY DEF WalInit
  <2>3. appends \in 0..MaxAppends
    BY <2>2 DEF SizesAssumption
  <2>4. wal \in Seq(Halves) /\ durable \subseteq Seq(Halves) /\ wal \in durable
    BY <2>1, <2>2
  <2> QED BY <2>1, <2>2, <2>3, <2>4 DEF WalTypeOK
<1>2. LogInv
  <2>1. Len(<<>>) = 0 /\ DOMAIN <<>> = {}
    OBVIOUS
  <2>2. Aged(<<>>, appends) /\ ~(Len(<<>>) >= Page)
    BY <2>1 DEF Aged, Page
  <2> QED BY <2>1, <2>2 DEF LogInv, WalInit, Page
<1>3. Replayed(<<>>) = <<>>
  <2>1. ~(Len(<<>>) >= Page)
    BY DEF Page
  <2> QED BY <2>1, ShortReads
<1> QED BY <1>1, <1>2, <1>3 DEF IInv, WalInit, Log!Init

LEMMA NextFollows ==
    ASSUME IInv, [WalNext]_walVars
    PROVE  IInv' /\ (~ragged' => ~ragged /\ (Log!Next \/ Same))
<1>1. ASSUME WalNext PROVE Follows
  BY <1>1, OpenEmptyFollows, OpenEmptyFailsFollows, OpenRaggedFollows, ReplayFollows, AppendFrameFollows,
     AppendFailsFollows, TruncateFollows, StopFollows DEF WalNext
<1>2. ASSUME UNCHANGED walVars PROVE Follows
  <2>1. WalTypeOK'
    BY <1>2 DEF IInv, WalTypeOK, walVars
  <2>2. LogInv' <=> LogInv
    BY <1>2 DEF LogInv, Ready, walVars
  <2>3. Same
    BY <1>2 DEF Same, LogNow, Kernel, Disk, walVars
  <2> QED BY <1>2, <2>1, <2>2, <2>3 DEF Follows, IInv, walVars
<1>3. Follows
  BY <1>1, <1>2
<1> QED BY <1>3 DEF IInv, Follows, SizesAssumption

\* Whatever the sizes of records: the file behaves as a durable log, for as long
\* as OpenWAL finds it in whole pages. Replay, append and truncate (wal.go).
THEOREM LogIsDurable == SizesAssumption => (WalSpec => ImplementsDurableLog)
<1> SUFFICES ASSUME SizesAssumption PROVE WalSpec => ImplementsDurableLog
  OBVIOUS
<1>1. WalInit => IInv /\ Log!Init
  BY InitHolds
<1>2. IInv /\ [WalNext]_walVars => IInv'
  BY NextFollows
<1>3. IInv /\ [WalNext]_walVars => [(Log!Next /\ UNCHANGED ragged) \/ ragged']_<<LogNow, Kernel, Disk, ragged>>
  <2> SUFFICES ASSUME IInv, [WalNext]_walVars, ~ragged'
               PROVE  [Log!Next /\ UNCHANGED ragged]_<<LogNow, Kernel, Disk, ragged>>
    OBVIOUS
  <2>1. ~ragged /\ (Log!Next \/ Same)
    BY NextFollows
  <2>2. ragged' = ragged
    BY <2>1, NextFollows DEF IInv, WalTypeOK
  <2> QED BY <2>1, <2>2 DEF Same
<1>4. IInv /\ [WalNext]_walVars => [(Log!Next /\ UNCHANGED (~ragged)) \/ ~(~ragged)']_Log!vars
  BY <1>3 DEF Log!vars, LogNow, Kernel, Disk
<1>5. WalSpec => Log!Init /\ [][(Log!Next /\ UNCHANGED (~ragged)) \/ ~(~ragged)']_Log!vars
  BY <1>1, <1>2, <1>4, PTL DEF WalSpec
<1> QED BY <1>5 DEF ImplementsDurableLog, Log!Spec

\* Whatever the sizes of records: OpenWAL never refuses a log it always found in
\* whole pages.
THEOREM LogIsAccepted == SizesAssumption => (WalSpec => []OpenAccepts)
<1> SUFFICES ASSUME SizesAssumption PROVE WalSpec => []OpenAccepts
  OBVIOUS
<1>1. WalInit => IInv
  BY InitHolds
<1>2. IInv /\ [WalNext]_walVars => IInv'
  BY NextFollows
<1>3. IInv => OpenAccepts
  BY DEF IInv, LogInv, OpenAccepts, WalTypeOK
<1> QED BY <1>1, <1>2, <1>3, PTL DEF WalSpec

\* Types of the log file for any sizes of records: it is one of the contents a
\* power loss may leave, and the counters stay within their bounds.
THEOREM WalTypes == SizesAssumption => (WalSpec => []WalTypeOK)
<1> SUFFICES ASSUME SizesAssumption PROVE WalSpec => []WalTypeOK
  OBVIOUS
<1>1. WalInit => IInv
  BY InitHolds
<1>2. IInv /\ [WalNext]_walVars => IInv'
  BY NextFollows
<1>3. IInv => WalTypeOK
  BY DEF IInv
<1> QED BY <1>1, <1>2, <1>3, PTL DEF WalSpec

=============================================================================
