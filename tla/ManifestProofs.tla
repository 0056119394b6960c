--------------------------- MODULE ManifestProofs ---------------------------
(***************************************************************************)
(* Versions and views of the manifest: however appends fail, are half      *)
(* undone or are cut off by crashes, and however often the file is loaded  *)
(* again, the version of a record is its position, a committed timestamp   *)
(* resolves to the view it had, and every view is the one the records say. *)
(***************************************************************************)
EXTENDS Manifest, SequenceFacts

\* Up to the first torn line, the lines of a file are numbered.
Numbered(s) == \A i \in DOMAIN s : (\A j \in 1..i : s[j] # Torn) => s[i].version = i

FileInv ==
    /\ IsSequence(records) /\ IsSequence(file)
    /\ Numbered(file)
    /\ handle = "open" => records = file

VersionsInv == FileInv /\ VersionsConsecutive

\* What load keeps of the lines of a file.
Kept(lines, good) ==
    /\ IsSequence(good) /\ Len(good) <= Len(lines)
    /\ \A i \in 1..Len(good) : good[i] = lines[i] /\ lines[i] # Torn
    /\ Len(good) < Len(lines) => lines[Len(good) + 1] = Torn

-----------------------------------------------------------------------------
(* Sequences *)

\* A record at the end of a sequence of records carries its position.
LEMMA AppendedNumbered ==
    ASSUME NEW s, NEW e, IsSequence(s), Numbered(s), e = Torn \/ e.version = Len(s) + 1
    PROVE  Numbered(Append(s, e))
<1> DEFINE a == Append(s, e)
<1>1. Len(s) \in Nat /\ DOMAIN s = 1..Len(s) /\ DOMAIN a = 1..(Len(s) + 1)
  BY Appending, SequenceLength
<1>2. SUFFICES ASSUME NEW i \in DOMAIN a, \A j \in 1..i : a[j] # Torn
               PROVE  a[i].version = i
  BY DEF Numbered
<1>3. CASE i = Len(s) + 1
  BY <1>1, <1>2, <1>3, Appending
<1>4. CASE i \in DOMAIN s
  <2>1. \A j \in 1..i : a[j] = s[j]
    BY <1>1, <1>4, Appending
  <2> QED BY <1>2, <1>4, <2>1 DEF Numbered
<1> QED BY <1>1, <1>3, <1>4

-----------------------------------------------------------------------------
(* Folds. FoldLeft recurs over sets of positions, from the highest down; the *)
(* lemmas turn it into the states a pass goes through. They are stated once  *)
(* for all passes of resolveLockedFiltered, over the records and, within one *)
(* of them, over the segments it adds, redirects and removes.                *)

Step(kind, c, st, x) ==
    IF kind = "add" THEN ApplyAdd(c, st, x)
    ELSE IF kind = "dv" THEN ApplyDV(c, st, x)
    ELSE IF kind = "remove" THEN ApplyRemove(st, x)
    ELSE ApplyRecord(st, x, c.upTo, c.maxTs)

\* What FoldLeft makes of the elements at a set of positions.
Folded(g, kind, c, start, seq, positions) ==
    g = [s \in SUBSET positions |->
            IF s = {} THEN start ELSE Step(kind, c, g[s \ {Max(s)}], seq[Max(s)])]

LEMMA FoldedExists ==
    ASSUME NEW kind, NEW c, NEW start, NEW seq, NEW n \in Nat
    PROVE  \E g : Folded(g, kind, c, start, seq, 1..n)
<1> DEFINE Without == {k \in Nat : ~ \E g : Folded(g, kind, c, start, seq, 1..k)}
<1>1. 0 \notin Without
  <2> DEFINE g == [s \in SUBSET (1..0) |-> start]
  <2>1. \A s \in SUBSET (1..0) : s = {}
    OBVIOUS
  <2>2. g = [s \in SUBSET (1..0) |->
               IF s = {} THEN start ELSE Step(kind, c, g[s \ {Max(s)}], seq[Max(s)])]
    BY <2>1
  <2> QED BY <2>2 DEF Folded
<1>2. ASSUME NEW k \in Nat, k \notin Without PROVE k + 1 \notin Without
  <2>1. PICK g : Folded(g, kind, c, start, seq, 1..k)
    BY <1>2
  <2> DEFINE Apply(st, i) == Step(kind, c, st, seq[i])
             h == [s \in SUBSET (1..(k + 1)) |-> IF k + 1 \in s THEN Apply(g[s \ {k + 1}], k + 1) ELSE g[s]]
  <2>2. \A s \in SUBSET (1..k) : h[s] = g[s]
    BY <1>2
  <2>3. ASSUME NEW s \in SUBSET (1..(k + 1))
        PROVE  h[s] = IF s = {} THEN start ELSE Apply(h[s \ {Max(s)}], Max(s))
    <3>1. CASE k + 1 \in s
      <4>1. Max(s) = k + 1
        <5>1. s \subseteq Nat /\ \A j \in s : j <= k + 1
          BY <1>2
        <5> QED BY <3>1, <5>1, MaxIs
      <4>2. s \ {k + 1} \in SUBSET (1..k)
        BY <1>2
      <4>3. h[s] = Apply(g[s \ {k + 1}], k + 1)
        BY <3>1
      <4> HIDE DEF h, Apply
      <4> QED BY <2>2, <3>1, <4>1, <4>2, <4>3
    <3>2. CASE k + 1 \notin s
      <4>1. \A i \in s : i \in 1..k
        BY <1>2, <3>2
      <4>2. s \in SUBSET (1..k) /\ s \ {Max(s)} \in SUBSET (1..k)
        BY <4>1
      <4>3. g[s] = IF s = {} THEN start ELSE Apply(g[s \ {Max(s)}], Max(s))
        BY <2>1, <4>2 DEF Folded
      <4> HIDE DEF h, Apply
      <4> QED BY <2>2, <4>2, <4>3
    <3> QED BY <3>1, <3>2
  <2>4. h = [s \in SUBSET (1..(k + 1)) |-> h[s]]
    OBVIOUS
  <2> HIDE DEF h
  <2>5. Folded(h, kind, c, start, seq, 1..(k + 1))
    BY <2>3, <2>4 DEF Folded
  <2> QED BY <2>5
<1> HIDE DEF Without
<1>3. Without = {}
  <2> SUFFICES ASSUME Without # {} PROVE FALSE
    OBVIOUS
  <2>1. Without \subseteq Nat
    BY DEF Without
  <2>2. PICK i \in Without : \A j \in Without : i <= j
    BY <2>1, LeastOfSome
  <2>3. i \in Nat /\ i # 0 /\ i - 1 \in Nat /\ i - 1 \notin Without
    BY <1>1, <2>1, <2>2
  <2> QED BY <1>2, <2>2, <2>3
<1> QED BY <1>3 DEF Without

\* The states a pass goes through.
Passing(tr, kind, c, start, seq) ==
    /\ tr[0] = start
    /\ \A i \in 1..Len(seq) : tr[i] = Step(kind, c, tr[i - 1], seq[i])

LEMMA PassStates ==
    ASSUME NEW kind, NEW c, NEW start, NEW seq, IsSequence(seq),
           NEW iter, Folded(iter, kind, c, start, seq, 1..Len(seq))
    PROVE  \E tr : Passing(tr, kind, c, start, seq) /\ iter[1..Len(seq)] = tr[Len(seq)]
<1> DEFINE n == Len(seq)
           tr == [i \in 0..n |-> iter[1..i]]
<1>1. n \in Nat /\ DOMAIN seq = 1..n
  BY SequenceLength
<1>2. tr[0] = start
  <2>1. 1..0 = {} /\ {} \in SUBSET (1..n)
    OBVIOUS
  <2> QED BY <1>1, <2>1 DEF Folded
<1>3. ASSUME NEW i \in 1..n
      PROVE  tr[i] = Step(kind, c, tr[i - 1], seq[i])
  <2>1. 1..i \in SUBSET (1..n) /\ 1..i # {} /\ (1..i) \ {i} = 1..(i - 1)
    <3>1. \A j \in 1..i : j \in 1..n
      BY <1>1
    <3>2. \A j : j \in (1..i) \ {i} <=> j \in 1..(i - 1)
      BY <1>1
    <3>3. i \in 1..i
      BY <1>1
    <3> QED BY <3>1, <3>2, <3>3
  <2>2. Max(1..i) = i
    <3>1. 1..i \subseteq Nat /\ i \in 1..i /\ \A j \in 1..i : j <= i
      BY <1>1
    <3> QED BY <3>1, MaxIs
  <2>3. iter[1..i] = Step(kind, c, iter[1..(i - 1)], seq[i])
    BY <2>1, <2>2 DEF Folded
  <2>4. i \in 0..n /\ i - 1 \in 0..n
    BY <1>1
  <2> QED BY <2>3, <2>4
<1>4. n \in 0..n
  BY <1>1
<1>5. iter[1..n] = tr[n]
  BY <1>4
<1>6. Passing(tr, kind, c, start, seq)
  BY <1>2, <1>3 DEF Passing
<1> HIDE DEF tr
<1> QED BY <1>5, <1>6

Start == [out |-> <<>>, idx |-> <<>>]
Pass(recs, upTo, maxTs) == FoldLeft(LAMBDA st, rec : ApplyRecord(st, rec, upTo, maxTs), Start, recs)
View(upTo, maxTs) == [upTo |-> upTo, maxTs |-> maxTs]

LEMMA RecordStates ==
    ASSUME NEW recs, IsSequence(recs), NEW upTo, NEW maxTs
    PROVE  \E tr : /\ Passing(tr, "record", View(upTo, maxTs), Start, recs)
                   /\ Pass(recs, upTo, maxTs) = tr[Len(recs)]
<1> DEFINE n == Len(recs)
           Fold(g) == g = [s \in SUBSET (1..n) |->
                             IF s = {} THEN Start ELSE ApplyRecord(g[s \ {Max(s)}], recs[Max(s)], upTo, maxTs)]
           iter == CHOOSE g : Fold(g)
<1>1. n \in Nat /\ DOMAIN recs = 1..n
  BY SequenceLength
<1>2. \A st, x : Step("record", View(upTo, maxTs), st, x) = ApplyRecord(st, x, upTo, maxTs)
  BY DEF Step, View
<1>3. \A g : Fold(g) <=> Folded(g, "record", View(upTo, maxTs), Start, recs, 1..n)
  BY <1>2 DEF Folded
<1>4. Pass(recs, upTo, maxTs) = iter[1..n]
  BY <1>1 DEF Pass, FoldLeft, MapThenFoldSet
<1> HIDE DEF Fold
<1>5. Fold(iter)
  BY <1>1, <1>3, FoldedExists
<1>6. Folded(iter, "record", View(upTo, maxTs), Start, recs, 1..n)
  BY <1>3, <1>5
<1> HIDE DEF iter
<1> QED BY <1>4, <1>6, PassStates

Skipped(rec, upTo, maxTs) == rec.version > upTo \/ rec.commitTs > maxTs

\* Two passes end alike if they skip the same records of what their sequences
\* have in common, and the rest of the longer one is skipped.
LEMMA SameView ==
    ASSUME NEW a, NEW b, IsSequence(a), IsSequence(b), Len(a) <= Len(b),
           NEW u, NEW v, NEW s, NEW t,
           \A i \in 1..Len(a) : b[i] = a[i] /\ (Skipped(a[i], u, s) <=> Skipped(a[i], v, t)),
           \A i \in (Len(a) + 1)..Len(b) : Skipped(b[i], v, t)
    PROVE  Resolve(a, u, s) = Resolve(b, v, t)
<1>1. Len(a) \in Nat /\ Len(b) \in Nat
  BY SequenceLength
<1>2. PICK ta : Passing(ta, "record", View(u, s), Start, a) /\ Pass(a, u, s) = ta[Len(a)]
  BY RecordStates
<1>3. PICK tb : Passing(tb, "record", View(v, t), Start, b) /\ Pass(b, v, t) = tb[Len(b)]
  BY RecordStates
<1> DEFINE m == Len(a)
           n == Len(b)
           Differ == {i \in 0..n : tb[i] # ta[IF i <= m THEN i ELSE m]}
<1>4. Differ = {}
  <2> SUFFICES ASSUME Differ # {} PROVE FALSE
    OBVIOUS
  <2>1. Differ \subseteq Nat
    BY <1>1
  <2>2. PICK i \in Differ : \A j \in Differ : i <= j
    <3> HIDE DEF Differ
    <3> QED BY <2>1, LeastOfSome
  <2>3. i \in 0..n /\ tb[i] # ta[IF i <= m THEN i ELSE m]
    OBVIOUS
  <2>4. i # 0
    BY <1>1, <1>2, <1>3, <2>3 DEF Passing
  <2>5. i \in 1..n /\ i - 1 \in 0..n /\ ~(i <= i - 1)
    BY <1>1, <2>3, <2>4
  <2>6. tb[i - 1] = ta[IF i - 1 <= m THEN i - 1 ELSE m]
    BY <2>2, <2>5
  <2>7. tb[i] = ApplyRecord(tb[i - 1], b[i], v, t)
    BY <1>3, <2>5 DEF Passing, Step, View
  <2>8. CASE i <= m
    <3>1. i \in 1..m /\ i - 1 <= m
      BY <1>1, <2>5, <2>8
    <3>2. ta[i] = ApplyRecord(ta[i - 1], a[i], u, s)
      BY <1>2, <3>1 DEF Passing, Step, View
    <3>3. b[i] = a[i] /\ (Skipped(a[i], u, s) <=> Skipped(a[i], v, t))
      BY <3>1
    <3>4. ApplyRecord(ta[i - 1], a[i], u, s) = ApplyRecord(ta[i - 1], a[i], v, t)
      BY <3>3 DEF ApplyRecord, Skipped
    <3> QED BY <2>3, <2>6, <2>7, <2>8, <3>1, <3>2, <3>3, <3>4
  <2>9. CASE ~(i <= m)
    <3>1. i \in (m + 1)..n /\ (i - 1 <= m => i - 1 = m)
      BY <1>1, <2>5, <2>9
    <3>2. tb[i] = tb[i - 1]
      BY <2>7, <3>1 DEF ApplyRecord, Skipped
    <3> QED BY <2>3, <2>6, <2>9, <3>1, <3>2
  <2> QED BY <2>8, <2>9
<1>5. tb[n] = ta[m]
  <2>1. n \in 0..n /\ (n <= m => n = m)
    BY <1>1
  <2>2. tb[n] = ta[IF n <= m THEN n ELSE m]
    BY <1>4, <2>1
  <2> QED BY <2>1, <2>2
<1>6. Pass(a, u, s) = Pass(b, v, t)
  BY <1>2, <1>3, <1>5
<1>7. /\ Resolve(a, u, s) = Squeezed(Pass(a, u, s).out)
      /\ Resolve(b, v, t) = Squeezed(Pass(b, v, t).out)
  BY DEF Resolve, Pass, Start
<1> QED BY <1>6, <1>7

-----------------------------------------------------------------------------
(* The steps *)

LEMMA InitVersions == ASSUME Init PROVE VersionsInv
BY EmptySequence DEF Init, VersionsInv, FileInv, VersionsConsecutive, Numbered

\* What an append that fails leaves behind the lines of the file.
LEMMA LeftOver ==
    ASSUME FileInv, NEW rec, rec.version = Len(file) + 1,
           NEW rest \in {<<>>, <<Torn>>, <<rec>>}
    PROVE  IsSequence(file \o rest) /\ Numbered(file \o rest)
<1>1. CASE rest = <<>>
  <2>1. file \o rest = file
    BY <1>1 DEF FileInv, IsSequence
  <2> QED BY <2>1 DEF FileInv
<1>2. ASSUME NEW e, rest = <<e>>, e = Torn \/ e.version = Len(file) + 1
      PROVE  IsSequence(file \o rest) /\ Numbered(file \o rest)
  <2>1. file \o <<e>> = Append(file, e)
    <3> DEFINE S == {file[i] : i \in DOMAIN file} \cup {e}
    <3>1. file \in Seq(S) /\ e \in S
      BY DEF FileInv, IsSequence
    <3> HIDE DEF S
    <3> QED BY <3>1
  <2> QED BY <1>2, <2>1, Appending, AppendedNumbered DEF FileInv
<1> QED BY <1>1, <1>2

LEMMA AppendRecordVersions ==
    ASSUME VersionsInv, NEW adds, NEW dvs, NEW removes, AppendRecord(adds, dvs, removes)
    PROVE  VersionsInv'
<1> DEFINE rec == Record(version + 1, commitTs + 1, adds, dvs, removes)
<1>1. /\ records = file /\ version = Len(file) /\ handle = "open"
      /\ Len(file) \in Nat /\ DOMAIN file = 1..Len(file)
      /\ rec.version = Len(file) + 1
  BY SequenceLength DEF AppendRecord, VersionsInv, FileInv, VersionsConsecutive, Record
<1>2. Appended(rec) \/ RolledBack(rec) \/ Poisoned(rec) \/ CrashIn(rec)
  BY DEF AppendRecord
<1> HIDE DEF rec
<1>3. CASE Appended(rec)
  <2>1. /\ file' = Append(file, rec) /\ records' = Append(file, rec)
        /\ version' = Len(file) + 1 /\ handle' = handle
    BY <1>1, <1>3 DEF Appended
  <2>2. FileInv'
    BY <1>1, <2>1, Appending, AppendedNumbered DEF VersionsInv, FileInv
  <2>3. DOMAIN records' = 1..(Len(file) + 1) /\ Len(records') = Len(file) + 1
    BY <1>1, <2>1, <2>2, Appending, SequenceLength DEF VersionsInv, FileInv
  <2>4. ASSUME NEW i \in DOMAIN records' PROVE records'[i].version = i
    BY <1>1, <2>1, <2>3, Appending DEF VersionsInv, FileInv, VersionsConsecutive
  <2> QED BY <2>1, <2>2, <2>3, <2>4 DEF VersionsInv, VersionsConsecutive
<1>4. CASE RolledBack(rec)
  BY <1>4 DEF RolledBack, VersionsInv, FileInv, VersionsConsecutive
<1>5. CASE Poisoned(rec)
  <2>1. PICK rest \in {<<>>, <<Torn>>, <<rec>>} : file' = file \o rest
    BY <1>5 DEF Poisoned
  <2>2. IsSequence(file') /\ Numbered(file')
    BY <1>1, <2>1, LeftOver DEF VersionsInv
  <2> QED BY <1>5, <2>2 DEF Poisoned, VersionsInv, FileInv, VersionsConsecutive
<1>6. CASE CrashIn(rec)
  <2>1. PICK rest \in {<<>>, <<Torn>>, <<rec>>} : file' = file \o rest
    BY <1>6 DEF CrashIn
  <2>2. IsSequence(file') /\ Numbered(file')
    BY <1>1, <2>1, LeftOver DEF VersionsInv
  <2> QED BY <1>6, <2>2, EmptySequence DEF CrashIn, VersionsInv, FileInv, VersionsConsecutive
<1> QED BY <1>2, <1>3, <1>4, <1>5, <1>6

LEMMA CloseVersions == ASSUME VersionsInv, Close PROVE VersionsInv'
BY EmptySequence DEF Close, VersionsInv, FileInv, VersionsConsecutive

\* load keeps the lines before the first torn one.
LEMMA LoadKeeps ==
    ASSUME VersionsInv, Load
    PROVE  Kept(file, file')
<1> DEFINE bad == {i \in DOMAIN file : file[i] = Torn}
           first == CHOOSE i \in bad : \A j \in bad : i <= j
           good == IF bad = {} THEN file ELSE SubSeq(file, 1, first - 1)
<1>1. file' = good
  BY DEF Load
<1>2. IsSequence(file) /\ Numbered(file) /\ Len(file) \in Nat /\ DOMAIN file = 1..Len(file)
  BY SequenceLength DEF VersionsInv, FileInv
<1>3. bad # {} => first \in bad /\ \A j \in bad : first <= j
  <2>1. bad \subseteq Nat
    BY <1>2
  <2> HIDE DEF bad
  <2>2. bad # {} => \E i \in bad : \A j \in bad : i <= j
    BY <2>1, LeastOfSome
  <2> QED BY <2>2
<1>4. /\ IsSequence(good) /\ Len(good) \in 0..Len(file) /\ DOMAIN good = 1..Len(good)
      /\ \A i \in DOMAIN good : good[i] = file[i] /\ file[i] # Torn
      /\ Len(good) < Len(file) => file[Len(good) + 1] = Torn
  <2>1. CASE bad = {}
    BY <1>2, <2>1
  <2>2. CASE bad # {}
    <3>1. first - 1 \in 0..Len(file) /\ \A j \in 1..(first - 1) : file[j] # Torn
      BY <1>2, <1>3, <2>2
    <3>2. file[(first - 1) + 1] = Torn
      BY <1>2, <1>3, <2>2
    <3> HIDE DEF first
    <3> QED BY <1>2, <2>2, <3>1, <3>2, Prefix, SequenceLength
  <2> QED BY <2>1, <2>2
<1> HIDE DEF good
<1>5. Len(good) <= Len(file)
  BY <1>2, <1>4
<1>6. Kept(file, good)
  BY <1>4, <1>5 DEF Kept
<1> QED BY <1>1, <1>6

LEMMA LoadVersions == ASSUME VersionsInv, Load PROVE VersionsInv'
<1>1. /\ records' = file' /\ handle' = "open"
      /\ version' = IF file' = <<>> THEN 0 ELSE Last(file').version
  BY DEF Load
<1>2. Kept(file, file')
  BY LoadKeeps
<1>3. /\ IsSequence(file) /\ Numbered(file) /\ Len(file) \in Nat /\ DOMAIN file = 1..Len(file)
      /\ IsSequence(file') /\ Len(file') \in Nat /\ DOMAIN file' = 1..Len(file')
      /\ Len(file') <= Len(file)
  BY <1>2, SequenceLength DEF VersionsInv, FileInv, Kept
<1>4. ASSUME NEW i \in DOMAIN file' PROVE file'[i].version = i
  <2>1. \A j \in 1..i : j \in 1..Len(file')
    BY <1>3
  <2>2. (\A j \in 1..i : file[j] # Torn) /\ i \in DOMAIN file /\ file'[i] = file[i]
    BY <1>2, <1>3, <2>1 DEF Kept
  <2> QED BY <1>3, <2>2 DEF Numbered
<1>5. version' = Len(file')
  <2>1. file' = <<>> <=> Len(file') = 0
    BY <1>3 DEF IsSequence
  <2>2. file' # <<>> => Last(file').version = Len(file')
    BY <1>3, <1>4, <2>1 DEF Last
  <2> QED BY <1>1, <2>1, <2>2
<1>6. FileInv'
  BY <1>1, <1>3, <1>4 DEF FileInv, Numbered
<1> QED BY <1>1, <1>4, <1>5, <1>6 DEF VersionsInv, VersionsConsecutive

LEMMA NextVersions == ASSUME VersionsInv, [Next]_vars PROVE VersionsInv'
<1>1. ASSUME NEW adds, NEW dvs, Commit(adds, dvs) PROVE VersionsInv'
  BY <1>1, AppendRecordVersions DEF Commit
<1>2. ASSUME NEW paths, Retire(paths) PROVE VersionsInv'
  BY <1>2, AppendRecordVersions DEF Retire
<1>3. CASE UNCHANGED vars
  BY <1>3 DEF vars, VersionsInv, FileInv, VersionsConsecutive
<1> QED BY <1>1, <1>2, <1>3, CloseVersions, LoadVersions DEF Next

\* The version of a record is its position, although failed appends used the
\* same number before it and a load may have kept what they left.
THEOREM RecordsAreNumbered == Spec => []VersionsConsecutive
<1>1. Init => VersionsInv
  BY InitVersions
<1>2. VersionsInv /\ [Next]_vars => VersionsInv'
  BY NextVersions
<1>3. VersionsInv => VersionsConsecutive
  BY DEF VersionsInv
<1> QED BY <1>1, <1>2, <1>3, PTL DEF Spec
-----------------------------------------------------------------------------
(* Views that stay. A timestamp in seen is that of a record that was written *)
(* for good, and all that is written later, or left behind by an append that *)
(* failed, has a later one.                                                  *)

\* What a sequence of records owes to the views seen so far, where now is the
\* commit timestamp counter and failures says how many appends came to nothing.
Honours(s, now, failures, views) ==
    /\ IsSequence(s)
    /\ \A i \in DOMAIN s : /\ s[i].version = i
                           /\ s[i].commitTs \in 1..now /\ s[i].commitTs <= i + failures
    /\ \A ts \in DOMAIN views : /\ ts \in 0..now
                                /\ ts = 0 \/ \E i \in DOMAIN s : s[i].commitTs = ts
                                /\ Resolve(s, Len(s), ts) = views[ts]

Counted ==
    /\ commitTs \in Nat /\ trouble \in 0..MaxTrouble
    /\ Len(file) <= MaxRecords /\ commitTs <= Len(file) + trouble

StableInv ==
    /\ VersionsInv /\ Counted
    /\ handle # "closed" => Honours(records, commitTs, trouble, seen)
    /\ \E good : Kept(file, good) /\ Honours(good, commitTs, trouble, seen)

LEMMA KeptOnce ==
    ASSUME NEW lines, NEW a, NEW b, IsSequence(lines), Kept(lines, a), Kept(lines, b)
    PROVE  a = b
<1>1. /\ Len(a) \in Nat /\ Len(b) \in Nat /\ Len(lines) \in Nat
      /\ DOMAIN a = 1..Len(a) /\ DOMAIN b = 1..Len(b)
  BY SequenceLength DEF Kept
<1>2. ~(Len(a) < Len(b)) /\ ~(Len(b) < Len(a))
  <2>1. ASSUME NEW c, NEW d, Kept(lines, c), Kept(lines, d), Len(c) \in Nat, Len(d) \in Nat,
               Len(c) < Len(d)
        PROVE  FALSE
    <3>1. Len(c) + 1 \in 1..Len(d) /\ Len(c) < Len(lines)
      BY <1>1, <2>1 DEF Kept
    <3> QED BY <2>1, <3>1 DEF Kept
  <2> QED BY <1>1, <2>1
<1>3. Len(a) = Len(b)
  <2> DEFINE m == Len(a)
             n == Len(b)
  <2>1. m \in Nat /\ n \in Nat /\ ~(m < n) /\ ~(n < m)
    BY <1>1, <1>2
  <2> HIDE DEF m, n
  <2>2. m = n
    BY <2>1
  <2> QED BY <2>2 DEF m, n
<1>4. DOMAIN a = DOMAIN b /\ \A i \in DOMAIN a : a[i] = b[i]
  BY <1>1, <1>3 DEF Kept
<1>5. a = [i \in DOMAIN a |-> a[i]] /\ b = [i \in DOMAIN b |-> b[i]]
  BY DEF Kept, IsSequence
<1> QED BY <1>4, <1>5

\* Records are never torn lines, so load keeps all of them.
LEMMA AllKept ==
    ASSUME NEW s, NEW now, NEW failures, NEW views, Honours(s, now, failures, views)
    PROVE  Kept(s, s)
<1>1. Len(s) \in Nat /\ DOMAIN s = 1..Len(s)
  BY SequenceLength DEF Honours
<1>2. ASSUME NEW i \in 1..Len(s) PROVE s[i] # Torn
  <2>1. s[i].version = i /\ i # 0
    BY <1>1 DEF Honours
  <2>2. Torn.version = 0
    BY DEF Torn, Record
  <2> QED BY <2>1, <2>2
<1> QED BY <1>1, <1>2 DEF Kept, Honours

LEMMA HonoursLater ==
    ASSUME NEW s, NEW views, NEW now \in Nat, NEW failures \in Nat,
           NEW now2 \in Nat, NEW failures2 \in Nat,
           now <= now2, failures <= failures2, Honours(s, now, failures, views)
    PROVE  Honours(s, now2, failures2, views)
<1>1. DOMAIN s = 1..Len(s) /\ Len(s) \in Nat
  BY SequenceLength DEF Honours
<1>2. ASSUME NEW i \in DOMAIN s
      PROVE  s[i].commitTs \in 1..now2 /\ s[i].commitTs <= i + failures2
  <2>1. s[i].commitTs \in 1..now /\ s[i].commitTs <= i + failures /\ i \in Nat
    BY <1>1 DEF Honours
  <2> QED BY <2>1
<1>3. ASSUME NEW ts \in DOMAIN views PROVE ts \in 0..now2
  <2>1. ts \in 0..now
    BY DEF Honours
  <2> QED BY <2>1
<1> QED BY <1>2, <1>3 DEF Honours

\* A record with the next timestamp leaves every earlier view as it was.
LEMMA HonoursAppended ==
    ASSUME NEW s, NEW views, NEW now \in Nat, NEW failures \in Nat, NEW rec,
           Honours(s, now, failures, views), rec.version = Len(s) + 1,
           rec.commitTs = now + 1, now + 1 <= Len(s) + 1 + failures
    PROVE  Honours(Append(s, rec), now + 1, failures, views)
<1> DEFINE a == Append(s, rec)
<1>1. /\ IsSequence(s) /\ Len(s) \in Nat /\ DOMAIN s = 1..Len(s)
      /\ IsSequence(a) /\ Len(a) = Len(s) + 1 /\ DOMAIN a = 1..(Len(s) + 1)
      /\ \A i \in 1..Len(s) : a[i] = s[i]
      /\ a[Len(s) + 1] = rec
  <2>1. IsSequence(s) /\ Len(s) \in Nat /\ DOMAIN s = 1..Len(s)
    BY SequenceLength DEF Honours
  <2>2. IsSequence(a) /\ Len(a) = Len(s) + 1 /\ (\A i \in DOMAIN s : a[i] = s[i]) /\ a[Len(s) + 1] = rec
    BY <2>1, Appending
  <2> QED BY <2>1, <2>2, SequenceLength
<1> HIDE DEF a
<1>2. ASSUME NEW i \in DOMAIN a
      PROVE  a[i].version = i /\ a[i].commitTs \in 1..(now + 1) /\ a[i].commitTs <= i + failures
  <2>1. CASE i = Len(s) + 1
    BY <1>1, <2>1
  <2>2. CASE i \in DOMAIN s
    <3>1. s[i].version = i /\ s[i].commitTs \in 1..now /\ s[i].commitTs <= i + failures
      BY <2>2 DEF Honours
    <3> QED BY <1>1, <2>2, <3>1
  <2> QED BY <1>1, <2>1, <2>2
<1>3. ASSUME NEW ts \in DOMAIN views
      PROVE  /\ ts \in 0..(now + 1)
             /\ ts = 0 \/ \E i \in DOMAIN a : a[i].commitTs = ts
             /\ Resolve(a, Len(a), ts) = views[ts]
  <2>1. /\ ts \in 0..now /\ Resolve(s, Len(s), ts) = views[ts]
        /\ ts = 0 \/ \E i \in DOMAIN s : s[i].commitTs = ts
    BY DEF Honours
  <2>2. Resolve(s, Len(s), ts) = Resolve(a, Len(a), ts)
    <3>1. ASSUME NEW i \in 1..Len(s)
          PROVE  a[i] = s[i] /\ (Skipped(s[i], Len(s), ts) <=> Skipped(s[i], Len(a), ts))
      <4>1. s[i].version = i /\ ~(i > Len(s)) /\ ~(i > Len(a))
        BY <1>1 DEF Honours
      <4> QED BY <1>1, <4>1 DEF Skipped
    <3>2. ASSUME NEW i \in (Len(s) + 1)..Len(a)
          PROVE  Skipped(a[i], Len(a), ts)
      <4>1. i = Len(s) + 1 /\ rec.commitTs > ts
        BY <1>1, <2>1
      <4> QED BY <1>1, <4>1 DEF Skipped
    <3>3. Len(s) <= Len(a)
      BY <1>1
    <3> QED BY <1>1, <3>1, <3>2, <3>3, SameView
  <2>3. \A i \in DOMAIN s : i \in DOMAIN a /\ a[i] = s[i]
    BY <1>1
  <2> QED BY <2>1, <2>2, <2>3
<1> QED BY <1>1, <1>2, <1>3 DEF Honours, a

\* The snapshot taken when the record is in is what its timestamp resolves to.
LEMMA HonoursSeen ==
    ASSUME NEW s, NEW views, NEW now \in Nat, NEW failures \in Nat, NEW more,
           Honours(s, now, failures, views), Len(s) > 0, s[Len(s)].commitTs = now,
           now <= Infinity, Infinity \in Nat,
           DOMAIN more = DOMAIN views \cup {now},
           more[now] = Resolve(s, Len(s), Infinity),
           \A ts \in DOMAIN views : ts # now => more[ts] = views[ts]
    PROVE  Honours(s, now, failures, more)
<1>1. IsSequence(s) /\ Len(s) \in Nat /\ DOMAIN s = 1..Len(s)
  BY SequenceLength DEF Honours
<1>2. Resolve(s, Len(s), Infinity) = Resolve(s, Len(s), now)
  <2>1. ASSUME NEW i \in 1..Len(s)
        PROVE  Skipped(s[i], Len(s), Infinity) <=> Skipped(s[i], Len(s), now)
    <3>1. s[i].commitTs \in 1..now
      BY <1>1 DEF Honours
    <3> QED BY <3>1 DEF Skipped
  <2>2. \A i \in (Len(s) + 1)..Len(s) : Skipped(s[i], Len(s), now)
    BY <1>1
  <2> QED BY <1>1, <2>1, <2>2, SameView
<1>3. ASSUME NEW ts \in DOMAIN more
      PROVE  /\ ts \in 0..now
             /\ ts = 0 \/ \E i \in DOMAIN s : s[i].commitTs = ts
             /\ Resolve(s, Len(s), ts) = more[ts]
  <2>1. CASE ts = now
    BY <1>1, <1>2, <2>1
  <2>2. CASE ts # now
    BY <2>2 DEF Honours
  <2> QED BY <2>1, <2>2
<1> QED BY <1>3 DEF Honours

-----------------------------------------------------------------------------
(* The steps *)

LEMMA InitStable == ASSUME Init PROVE StableInv
<1>1. VersionsInv
  BY InitVersions
<1>2. Counted
  BY EmptySequence, BoundsAssumption DEF Init, Counted
<1>3. Resolve(<<>>, 0, 0) = Resolve(<<>>, 0, Infinity)
  <2>1. Len(<<>>) <= Len(<<>>) /\ 1..Len(<<>>) = {} /\ (Len(<<>>) + 1)..Len(<<>>) = {}
    BY EmptySequence
  <2> QED BY <2>1, EmptySequence, SameView
<1>4. Honours(<<>>, commitTs, trouble, seen)
  BY <1>3, EmptySequence DEF Init, Honours, Snapshot
<1>5. Kept(<<>>, <<>>)
  BY EmptySequence DEF Kept
<1> QED BY <1>1, <1>2, <1>4, <1>5 DEF Init, StableInv

LEMMA AppendRecordStable ==
    ASSUME StableInv, NEW adds, NEW dvs, NEW removes, AppendRecord(adds, dvs, removes)
    PROVE  StableInv'
<1> DEFINE rec == Record(version + 1, commitTs + 1, adds, dvs, removes)
           longer == Append(records, rec)
<1>1. VersionsInv'
  BY AppendRecordVersions DEF StableInv
<1>2. /\ handle = "open" /\ Len(file) < MaxRecords /\ commitTs' = commitTs + 1
      /\ \/ /\ Appended(rec)
            /\ seen' = [ts \in DOMAIN seen \cup {rec.commitTs} |->
                          IF ts = rec.commitTs THEN Snapshot' ELSE seen[ts]]
         \/ (RolledBack(rec) \/ Poisoned(rec) \/ CrashIn(rec)) /\ UNCHANGED seen
  BY DEF AppendRecord
<1>3. /\ rec.version = version + 1 /\ rec.commitTs = commitTs + 1
      /\ records = file /\ version = Len(records)
      /\ IsSequence(records) /\ Len(records) \in Nat
      /\ Honours(records, commitTs, trouble, seen)
  BY <1>2, SequenceLength DEF Record, StableInv, VersionsInv, FileInv, VersionsConsecutive
<1>4. /\ commitTs \in Nat /\ trouble \in Nat /\ trouble <= MaxTrouble
      /\ commitTs <= Len(records) + trouble /\ Len(records) < MaxRecords
      /\ MaxRecords \in Nat /\ MaxTrouble \in Nat
  BY <1>2, <1>3, BoundsAssumption DEF StableInv, Counted
<1> HIDE DEF rec
<1>5. Honours(longer, commitTs + 1, trouble, seen)
  BY <1>3, <1>4, HonoursAppended
<1>6. /\ IsSequence(longer) /\ Len(longer) = Len(records) + 1 /\ longer[Len(longer)] = rec
  BY <1>3, Appending
<1> HIDE DEF longer
<1>7. CASE Appended(rec) /\ seen' = [ts \in DOMAIN seen \cup {rec.commitTs} |->
                                       IF ts = rec.commitTs THEN Snapshot' ELSE seen[ts]]
  <2>1. /\ file' = longer /\ records' = longer /\ version' = Len(longer)
        /\ handle' = handle /\ trouble' = trouble
    BY <1>3, <1>6, <1>7 DEF Appended, longer
  <2>2. Honours(longer, commitTs + 1, trouble, seen')
    <3> DEFINE now == commitTs + 1
    <3>1. /\ DOMAIN seen' = DOMAIN seen \cup {now}
          /\ seen'[now] = Resolve(longer, Len(longer), Infinity)
          /\ \A ts \in DOMAIN seen : ts # now => seen'[ts] = seen[ts]
      BY <1>3, <1>7, <2>1 DEF Snapshot, Infinity
    <3>2. now \in Nat /\ now <= Infinity /\ Infinity \in Nat /\ Len(longer) > 0
      BY <1>3, <1>4, <1>6 DEF Infinity
    <3>3. longer[Len(longer)].commitTs = now /\ Honours(longer, now, trouble, seen)
      BY <1>3, <1>5, <1>6
    <3> HIDE DEF now
    <3>4. Honours(longer, now, trouble, seen')
      BY <1>4, <3>1, <3>2, <3>3, HonoursSeen
    <3> QED BY <3>4 DEF now
  <2>3. Kept(longer, longer)
    BY <2>2, AllKept
  <2>4. Counted'
    BY <1>2, <1>4, <1>6, <2>1 DEF Counted
  <2> QED BY <1>1, <1>2, <2>1, <2>2, <2>3, <2>4 DEF StableInv
<1>8. CASE RolledBack(rec) /\ UNCHANGED seen
  <2>1. /\ trouble < MaxTrouble /\ trouble' = trouble + 1
        /\ UNCHANGED <<records, version, file, handle, seen>>
    BY <1>8 DEF RolledBack
  <2>2. Honours(records, commitTs + 1, trouble + 1, seen)
    BY <1>3, <1>4, HonoursLater
  <2>3. Kept(file, records)
    BY <1>3, AllKept
  <2>4. Counted'
    BY <1>2, <1>3, <1>4, <2>1 DEF Counted
  <2> QED BY <1>1, <1>2, <2>1, <2>2, <2>3, <2>4 DEF StableInv
<1>9. CASE (Poisoned(rec) \/ CrashIn(rec)) /\ UNCHANGED seen
  <2>1. /\ trouble < MaxTrouble /\ trouble' = trouble + 1
        /\ \/ handle' = "closed"
           \/ records' = records
    BY <1>9 DEF Poisoned, CrashIn
  <2>2. PICK rest \in {<<>>, <<Torn>>, <<rec>>} : file' = records \o rest
    BY <1>3, <1>9 DEF Poisoned, CrashIn
  <2>3. Honours(records, commitTs + 1, trouble + 1, seen)
    BY <1>3, <1>4, HonoursLater
  <2>4. Honours(longer, commitTs + 1, trouble + 1, seen)
    BY <1>4, <1>5, HonoursLater
  <2>5. ASSUME NEW e PROVE records \o <<e>> = Append(records, e)
    <3> DEFINE S == {records[i] : i \in DOMAIN records} \cup {e}
    <3>1. records \in Seq(S) /\ e \in S
      BY <1>3 DEF IsSequence
    <3> HIDE DEF S
    <3> QED BY <3>1
  <2>6. /\ Len(file') <= Len(records) + 1 /\ Len(file') >= Len(records) /\ Len(file') \in Nat
        /\ \E good : Kept(file', good) /\ Honours(good, commitTs + 1, trouble + 1, seen)
    <3>1. CASE rest = <<>>
      <4>1. file' = records
        BY <1>3, <2>2, <3>1 DEF IsSequence
      <4> QED BY <1>3, <2>3, <4>1, AllKept
    <3>2. CASE rest = <<Torn>>
      <4>1. file' = Append(records, Torn)
        BY <2>2, <2>5, <3>2
      <4>2. Kept(records, records)
        BY <1>3, AllKept
      <4>3. /\ Len(file') = Len(records) + 1 /\ file'[Len(records) + 1] = Torn
            /\ \A i \in 1..Len(records) : file'[i] = records[i]
        BY <1>3, <4>1, Appending, SequenceLength
      <4>4. Kept(file', records)
        BY <1>3, <4>2, <4>3 DEF Kept
      <4> QED BY <1>3, <2>3, <4>3, <4>4
    <3>3. CASE rest = <<rec>>
      <4>1. file' = longer
        BY <2>2, <2>5, <3>3 DEF longer
      <4> QED BY <1>3, <1>6, <2>4, <4>1, AllKept
    <3> QED BY <3>1, <3>2, <3>3
  <2>7. Counted'
    BY <1>2, <1>4, <1>3, <2>1, <2>6 DEF Counted
  <2>8. seen' = seen
    BY <1>9
  <2> QED BY <1>1, <1>2, <2>1, <2>3, <2>6, <2>7, <2>8 DEF StableInv
<1> QED BY <1>2, <1>7, <1>8, <1>9

LEMMA CloseStable == ASSUME StableInv, Close PROVE StableInv'
<1>1. VersionsInv'
  BY CloseVersions DEF StableInv
<1>2. handle' = "closed" /\ UNCHANGED <<file, commitTs, trouble, seen>>
  BY DEF Close
<1> QED BY <1>1, <1>2 DEF StableInv, Counted

\* MaxCommitTs finds the greatest timestamp.
LEMMA MaxCommitTsIs ==
    ASSUME NEW s, NEW now \in Nat, \A i \in DOMAIN s : s[i].commitTs \in 1..now
    PROVE  /\ MaxCommitTs(s) \in 0..now
           /\ MaxCommitTs(s) = 0 \/ \E i \in DOMAIN s : s[i].commitTs = MaxCommitTs(s)
           /\ \A i \in DOMAIN s : s[i].commitTs <= MaxCommitTs(s)
<1> DEFINE Stamps == {0} \cup {s[i].commitTs : i \in DOMAIN s}
           Bounds == {m \in Nat : \A i \in DOMAIN s : s[i].commitTs <= m}
<1>1. now \in Bounds
  OBVIOUS
<1>2. PICK m \in Bounds : \A k \in Bounds : m <= k
  <2>1. Bounds \subseteq Nat /\ Bounds # {}
    BY <1>1
  <2> HIDE DEF Bounds
  <2> QED BY <2>1, LeastOfSome
<1>3. m \in Nat /\ \A i \in DOMAIN s : s[i].commitTs <= m
  OBVIOUS
<1>4. m \in Stamps
  <2> SUFFICES ASSUME m # 0, \A i \in DOMAIN s : s[i].commitTs # m PROVE FALSE
    OBVIOUS
  <2>1. m - 1 \in Nat /\ \A i \in DOMAIN s : s[i].commitTs <= m - 1
    <3>1. \A i \in DOMAIN s : s[i].commitTs \in Nat
      OBVIOUS
    <3> QED BY <1>3, <3>1
  <2>2. m - 1 \in Bounds
    BY <2>1
  <2>3. m <= m - 1
    BY <1>2, <2>2
  <2> QED BY <1>3, <2>3
<1> DEFINE c == CHOOSE k \in Stamps : \A i \in DOMAIN s : s[i].commitTs <= k
<1>5. MaxCommitTs(s) = c
  BY DEF MaxCommitTs
<1>6. c \in Stamps /\ \A i \in DOMAIN s : s[i].commitTs <= c
  BY <1>3, <1>4
<1> HIDE DEF c
<1>7. c \in 0..now /\ (c = 0 \/ \E i \in DOMAIN s : s[i].commitTs = c)
  BY <1>6
<1> QED BY <1>5, <1>6, <1>7

\* After a load the counter is low enough to reuse the timestamps of lines that
\* are gone, which were never in seen.
LEMMA LoadStable == ASSUME StableInv, Load PROVE StableInv'
<1>1. VersionsInv'
  BY LoadVersions DEF StableInv
<1>2. /\ records' = file' /\ handle' = "open" /\ commitTs' = MaxCommitTs(file')
      /\ UNCHANGED <<trouble, seen>> /\ Kept(file, file')
  BY LoadKeeps DEF StableInv, Load
<1>3. PICK good : Kept(file, good) /\ Honours(good, commitTs, trouble, seen)
  BY DEF StableInv
<1>4. IsSequence(file) /\ Len(file) \in Nat
  BY SequenceLength DEF StableInv, VersionsInv, FileInv
<1>5. file' = good
  BY <1>2, <1>3, <1>4, KeptOnce
<1>6. commitTs \in Nat /\ trouble \in 0..MaxTrouble /\ Len(file) <= MaxRecords
      /\ MaxTrouble \in Nat /\ MaxRecords \in Nat
  BY BoundsAssumption DEF StableInv, Counted
<1>7. IsSequence(good) /\ Len(good) \in Nat /\ DOMAIN good = 1..Len(good) /\ Len(good) <= Len(file)
  BY <1>3, SequenceLength DEF Kept
<1> DEFINE now == MaxCommitTs(good)
<1>8. /\ now \in 0..commitTs
      /\ now = 0 \/ \E i \in DOMAIN good : good[i].commitTs = now
      /\ \A i \in DOMAIN good : good[i].commitTs <= now
  BY <1>3, <1>6, MaxCommitTsIs DEF Honours
<1> HIDE DEF now
<1>9. Honours(good, now, trouble, seen)
  <2>1. ASSUME NEW i \in DOMAIN good PROVE good[i].commitTs \in 1..now
    BY <1>3, <1>6, <1>8 DEF Honours
  <2>2. ASSUME NEW ts \in DOMAIN seen PROVE ts \in 0..now
    <3>1. ts = 0 \/ \E i \in DOMAIN good : good[i].commitTs = ts
      BY <1>3 DEF Honours
    <3>2. now \in Nat
      BY <1>6, <1>8
    <3> QED BY <2>1, <3>1, <3>2
  <2> QED BY <1>3, <2>1, <2>2 DEF Honours
<1>10. Counted'
  <2>1. now <= Len(good) + trouble
    <3>1. ASSUME NEW i \in DOMAIN good PROVE good[i].commitTs <= Len(good) + trouble
      <4>1. good[i].commitTs \in 1..commitTs /\ good[i].commitTs <= i + trouble
        BY <1>3 DEF Honours
      <4> QED BY <1>6, <1>7, <4>1
    <3> QED BY <1>6, <1>7, <1>8, <3>1
  <2> QED BY <1>2, <1>5, <1>6, <1>7, <1>8, <2>1 DEF Counted, now
<1>11. Kept(file', file')
  BY <1>5, <1>9, AllKept
<1> QED BY <1>1, <1>2, <1>5, <1>9, <1>10, <1>11 DEF StableInv, now

LEMMA NextStable == ASSUME StableInv, [Next]_vars PROVE StableInv'
<1>1. ASSUME NEW adds, NEW dvs, Commit(adds, dvs) PROVE StableInv'
  BY <1>1, AppendRecordStable DEF Commit
<1>2. ASSUME NEW paths, Retire(paths) PROVE StableInv'
  BY <1>2, AppendRecordStable DEF Retire
<1>3. CASE UNCHANGED vars
  <2>1. VersionsInv'
    BY <1>3, NextVersions DEF StableInv
  <2> QED BY <1>3, <2>1 DEF vars, StableInv, Counted
<1> QED BY <1>1, <1>2, <1>3, CloseStable, LoadStable DEF Next

\* A committed timestamp always resolves to the view its commit produced
\* (SnapshotAt, over the records of resolveLockedFiltered), for any paths and
\* bounds: whatever is appended, rolled back, poisoned, torn by a crash or
\* loaded again later (appendRecord, rollbackOrPoison, load).
THEOREM TimestampsKeepTheirView == Spec => []SnapshotsStable
<1>1. Init => StableInv
  BY InitStable
<1>2. StableInv /\ [Next]_vars => StableInv'
  BY NextStable
<1>3. StableInv => SnapshotsStable
  BY DEF StableInv, Honours, VersionsInv, VersionsConsecutive, SnapshotsStable, SnapshotAt
<1> QED BY <1>1, <1>2, <1>3, PTL DEF Spec

-----------------------------------------------------------------------------
(* What a state of a pass shows: the entries so far, each at its own place,  *)
(* where the index finds it.                                                 *)

AddAll(rec, st) == FoldLeft(LAMBDA s, p : ApplyAdd(rec, s, p), st, rec.adds)
RedirectAll(rec, st) == FoldLeft(LAMBDA s, u : ApplyDV(rec, s, u), st, rec.dvs)
RetireAll(rec, st) == FoldLeft(ApplyRemove, st, rec.removes)

LEMMA AddStates ==
    ASSUME NEW rec, NEW st, IsSequence(rec.adds)
    PROVE  \E tr : Passing(tr, "add", rec, st, rec.adds) /\ AddAll(rec, st) = tr[Len(rec.adds)]
<1> DEFINE n == Len(rec.adds)
           Fold(g) == g = [s \in SUBSET (1..n) |->
                             IF s = {} THEN st ELSE ApplyAdd(rec, g[s \ {Max(s)}], rec.adds[Max(s)])]
           iter == CHOOSE g : Fold(g)
<1>1. n \in Nat /\ DOMAIN rec.adds = 1..n
  BY SequenceLength
<1>2. \A s, p : Step("add", rec, s, p) = ApplyAdd(rec, s, p)
  BY DEF Step
<1>3. \A g : Fold(g) <=> Folded(g, "add", rec, st, rec.adds, 1..n)
  BY <1>2 DEF Folded
<1>4. AddAll(rec, st) = iter[1..n]
  BY <1>1 DEF AddAll, FoldLeft, MapThenFoldSet
<1> HIDE DEF Fold
<1>5. Fold(iter)
  BY <1>1, <1>3, FoldedExists
<1>6. Folded(iter, "add", rec, st, rec.adds, 1..n)
  BY <1>3, <1>5
<1> HIDE DEF iter
<1> QED BY <1>4, <1>6, PassStates

LEMMA RedirectStates ==
    ASSUME NEW rec, NEW st, IsSequence(rec.dvs)
    PROVE  \E tr : Passing(tr, "dv", rec, st, rec.dvs) /\ RedirectAll(rec, st) = tr[Len(rec.dvs)]
<1> DEFINE n == Len(rec.dvs)
           Fold(g) == g = [s \in SUBSET (1..n) |->
                             IF s = {} THEN st ELSE ApplyDV(rec, g[s \ {Max(s)}], rec.dvs[Max(s)])]
           iter == CHOOSE g : Fold(g)
<1>1. n \in Nat /\ DOMAIN rec.dvs = 1..n
  BY SequenceLength
<1>2. \A s, u : Step("dv", rec, s, u) = ApplyDV(rec, s, u)
  BY DEF Step
<1>3. \A g : Fold(g) <=> Folded(g, "dv", rec, st, rec.dvs, 1..n)
  BY <1>2 DEF Folded
<1>4. RedirectAll(rec, st) = iter[1..n]
  BY <1>1 DEF RedirectAll, FoldLeft, MapThenFoldSet
<1> HIDE DEF Fold
<1>5. Fold(iter)
  BY <1>1, <1>3, FoldedExists
<1>6. Folded(iter, "dv", rec, st, rec.dvs, 1..n)
  BY <1>3, <1>5
<1> HIDE DEF iter
<1> QED BY <1>4, <1>6, PassStates

LEMMA RetireStates ==
    ASSUME NEW rec, NEW st, IsSequence(rec.removes)
    PROVE  \E tr : Passing(tr, "remove", rec, st, rec.removes) /\ RetireAll(rec, st) = tr[Len(rec.removes)]
<1> DEFINE n == Len(rec.removes)
           Fold(g) == g = [s \in SUBSET (1..n) |->
                             IF s = {} THEN st ELSE ApplyRemove(g[s \ {Max(s)}], rec.removes[Max(s)])]
           iter == CHOOSE g : Fold(g)
<1>1. n \in Nat /\ DOMAIN rec.removes = 1..n
  BY SequenceLength
<1>2. \A s, p : Step("remove", rec, s, p) = ApplyRemove(s, p)
  BY DEF Step
<1>3. \A g : Fold(g) <=> Folded(g, "remove", rec, st, rec.removes, 1..n)
  BY <1>2 DEF Folded
<1>4. RetireAll(rec, st) = iter[1..n]
  BY <1>1 DEF RetireAll, FoldLeft, MapThenFoldSet
<1> HIDE DEF Fold
<1>5. Fold(iter)
  BY <1>1, <1>3, FoldedExists
<1>6. Folded(iter, "remove", rec, st, rec.removes, 1..n)
  BY <1>3, <1>5
<1> HIDE DEF iter
<1> QED BY <1>4, <1>6, PassStates

LEMMA RecordInThree ==
    ASSUME NEW st, NEW rec, NEW upTo, NEW maxTs, ~Skipped(rec, upTo, maxTs)
    PROVE  ApplyRecord(st, rec, upTo, maxTs) = RetireAll(rec, RedirectAll(rec, AddAll(rec, st)))
BY DEF ApplyRecord, Skipped, RetireAll, RedirectAll, AddAll

\* The entries of the live segments are where the index says, in the order of
\* the pass, and what else the state lists is blank.
Shows(st, E) ==
    /\ st = [out |-> st.out, idx |-> st.idx]
    /\ IsSequence(st.out)
    /\ E = [q \in DOMAIN E |-> E[q]]
    /\ st.idx \in [DOMAIN E -> 1..Len(st.out)]
    /\ \A q \in DOMAIN E : /\ q # NoPath /\ st.out[st.idx[q]] = E[q]
                           /\ E[q] = Entry(q, E[q].commitTs, E[q].dv, E[q].dvTs)
    /\ \A i \in 1..Len(st.out) : st.out[i].path = NoPath \/ \E q \in DOMAIN E : st.idx[q] = i

LEMMA AddFields ==
    ASSUME NEW rec, NEW st, NEW p, st = [out |-> st.out, idx |-> st.idx]
    PROVE  ApplyAdd(rec, st, p) = [out |-> Append(st.out, Entry(p, rec.commitTs, NoDV, 0)),
                                   idx |-> [q \in DOMAIN st.idx \cup {p} |-> IF q = p THEN Len(st.out) + 1 ELSE st.idx[q]]]
<1> DEFINE x == [q \in DOMAIN st.idx \cup {p} |-> IF q = p THEN Len(st.out) + 1 ELSE st.idx[q]]
           o == Append(st.out, Entry(p, rec.commitTs, NoDV, 0))
<1>1. ApplyAdd(rec, st, p) = [st EXCEPT !.idx = x, !.out = o]
  BY DEF ApplyAdd
<1> HIDE DEF x, o
<1>2. [st EXCEPT !.idx = x] = [out |-> st.out, idx |-> x]
  OBVIOUS
<1>3. [st EXCEPT !.idx = x, !.out = o] = [[st EXCEPT !.idx = x] EXCEPT !.out = o]
  OBVIOUS
<1>4. [[out |-> st.out, idx |-> x] EXCEPT !.out = o] = [out |-> o, idx |-> x]
  OBVIOUS
<1> QED BY <1>1, <1>2, <1>3, <1>4 DEF x, o

LEMMA RedirectFields ==
    ASSUME NEW rec, NEW st, NEW upd, st = [out |-> st.out, idx |-> st.idx], upd.seg \in DOMAIN st.idx
    PROVE  ApplyDV(rec, st, upd) =
             [out |-> [st.out EXCEPT ![st.idx[upd.seg]] = Entry(@.path, @.commitTs, upd.dv, rec.commitTs)],
              idx |-> st.idx]
BY DEF ApplyDV

LEMMA RetireFields ==
    ASSUME NEW st, NEW p, st = [out |-> st.out, idx |-> st.idx], p \in DOMAIN st.idx
    PROVE  ApplyRemove(st, p) = [out |-> [st.out EXCEPT ![st.idx[p]].path = NoPath],
                                 idx |-> [q \in DOMAIN st.idx \ {p} |-> st.idx[q]]]
BY DEF ApplyRemove

LEMMA EntryFields ==
    ASSUME NEW p, NEW ts, NEW dv, NEW dvTs
    PROVE  LET e == Entry(p, ts, dv, dvTs)
           IN  e.path = p /\ e.commitTs = ts /\ e.dv = dv /\ e.dvTs = dvTs
BY DEF Entry

\* The index takes different segments to different places.
LEMMA OnePlace ==
    ASSUME NEW st, NEW E, Shows(st, E), NEW p \in DOMAIN E, NEW q \in DOMAIN E, st.idx[p] = st.idx[q]
    PROVE  p = q
<1>1. E[p] = E[q]
  BY DEF Shows
<1>2. E[p].path = p /\ E[q].path = q
  BY EntryFields DEF Shows
<1> QED BY <1>1, <1>2

\* A sequence with one element replaced.
LEMMA Replacing ==
    ASSUME NEW s, IsSequence(s), NEW i \in 1..Len(s), NEW e
    PROVE  /\ IsSequence([s EXCEPT ![i] = e]) /\ Len([s EXCEPT ![i] = e]) = Len(s)
           /\ [s EXCEPT ![i] = e][i] = e
           /\ \A j \in 1..Len(s) : j # i => [s EXCEPT ![i] = e][j] = s[j]
<1> DEFINE r == [s EXCEPT ![i] = e]
<1>1. Len(s) \in Nat /\ DOMAIN s = 1..Len(s)
  BY SequenceLength
<1>2. r = [j \in 1..Len(s) |-> r[j]]
  BY <1>1
<1>3. r[i] = e /\ \A j \in 1..Len(s) : j # i => r[j] = s[j]
  BY <1>1
<1> HIDE DEF r
<1>4. IsSequence(r) /\ Len(r) = Len(s)
  BY <1>1, <1>2, Listing
<1> QED BY <1>3, <1>4 DEF r

LEMMA AddShows ==
    ASSUME NEW rec, NEW st, NEW E, Shows(st, E), NEW p, p \notin DOMAIN E, p # NoPath
    PROVE  Shows(ApplyAdd(rec, st, p),
                 [q \in DOMAIN E \cup {p} |-> IF q = p THEN Entry(p, rec.commitTs, NoDV, 0) ELSE E[q]])
<1> DEFINE e == Entry(p, rec.commitTs, NoDV, 0)
           n == Len(st.out)
           o == Append(st.out, e)
           x == [q \in DOMAIN E \cup {p} |-> IF q = p THEN n + 1 ELSE st.idx[q]]
           F == [q \in DOMAIN E \cup {p} |-> IF q = p THEN e ELSE E[q]]
           t == ApplyAdd(rec, st, p)
<1>1. /\ n \in Nat /\ IsSequence(o) /\ Len(o) = n + 1
      /\ \A i \in 1..n : o[i] = st.out[i]
      /\ o[n + 1] = e
  BY Appending, SequenceLength DEF Shows
<1>2. t = [out |-> o, idx |-> x]
  <2>1. DOMAIN st.idx = DOMAIN E /\ st = [out |-> st.out, idx |-> st.idx]
    BY DEF Shows
  <2> HIDE DEF e
  <2> QED BY <2>1, AddFields DEF e
<1>3. t.out = o /\ t.idx = x /\ t = [out |-> t.out, idx |-> t.idx]
  BY <1>2
<1>4. e = Entry(p, e.commitTs, e.dv, e.dvTs)
  BY EntryFields
<1>5. /\ F = [q \in DOMAIN F |-> F[q]] /\ DOMAIN F = DOMAIN E \cup {p}
      /\ F[p] = e /\ \A q \in DOMAIN E : F[q] = E[q]
      /\ x[p] = n + 1 /\ \A q \in DOMAIN E : x[q] = st.idx[q]
  OBVIOUS
<1>6. x \in [DOMAIN E \cup {p} -> 1..(n + 1)]
  <2>1. \A q \in DOMAIN E : st.idx[q] \in 1..n
    BY DEF Shows
  <2>2. n + 1 \in 1..(n + 1) /\ \A i \in 1..n : i \in 1..(n + 1)
    BY <1>1
  <2> QED BY <2>1, <2>2
<1> HIDE DEF e, n, o, x, F, t
<1>7. ASSUME NEW q \in DOMAIN F
      PROVE  /\ q # NoPath /\ o[x[q]] = F[q]
             /\ F[q] = Entry(q, F[q].commitTs, F[q].dv, F[q].dvTs)
  <2>1. CASE q = p
    BY <1>1, <1>4, <1>5, <2>1
  <2>2. CASE q \in DOMAIN E
    BY <1>1, <1>5, <2>2 DEF Shows, n
  <2> QED BY <1>5, <2>1, <2>2
<1>8. ASSUME NEW i \in 1..Len(o)
      PROVE  o[i].path = NoPath \/ \E q \in DOMAIN F : x[q] = i
  <2>1. CASE i = n + 1
    BY <1>5, <2>1
  <2>2. CASE i \in 1..n
    <3>1. o[i] = st.out[i] /\ (st.out[i].path = NoPath \/ \E q \in DOMAIN E : st.idx[q] = i)
      BY <1>1, <2>2 DEF Shows, n
    <3> QED BY <1>5, <3>1
  <2>3. i = n + 1 \/ i \in 1..n
    BY <1>1
  <2> QED BY <2>1, <2>2, <2>3
<1>9. Shows(t, F)
  BY <1>1, <1>3, <1>5, <1>6, <1>7, <1>8 DEF Shows
<1> QED BY <1>9 DEF t, F, e

LEMMA RedirectShows ==
    ASSUME NEW rec, NEW st, NEW E, Shows(st, E), NEW upd
    PROVE  Shows(ApplyDV(rec, st, upd),
                 [q \in DOMAIN E |-> IF q = upd.seg THEN Entry(q, E[q].commitTs, upd.dv, rec.commitTs) ELSE E[q]])
<1> DEFINE p == upd.seg
           F == [q \in DOMAIN E |-> IF q = p THEN Entry(q, E[q].commitTs, upd.dv, rec.commitTs) ELSE E[q]]
           t == ApplyDV(rec, st, upd)
<1>1. CASE p \notin DOMAIN E
  <2>1. t = st
    BY <1>1 DEF ApplyDV, Shows
  <2>2. F = E
    BY <1>1 DEF Shows
  <2> QED BY <2>1, <2>2
<1>2. CASE p \in DOMAIN E
  <2> DEFINE k == st.idx[p]
             e == Entry(p, E[p].commitTs, upd.dv, rec.commitTs)
             o == [st.out EXCEPT ![k] = e]
  <2>1. k \in 1..Len(st.out) /\ st.out[k] = E[p] /\ E[p].path = p
    BY <1>2, EntryFields DEF Shows
  <2>2. t = [out |-> o, idx |-> st.idx]
    <3>1. t = [out |-> [st.out EXCEPT ![st.idx[p]] = Entry(@.path, @.commitTs, upd.dv, rec.commitTs)],
               idx |-> st.idx]
      BY <1>2, RedirectFields DEF Shows
    <3> QED BY <2>1, <3>1
  <2>3. t.out = o /\ t.idx = st.idx /\ t = [out |-> t.out, idx |-> t.idx]
    BY <2>2
  <2>4. /\ IsSequence(o) /\ Len(o) = Len(st.out) /\ o[k] = e
        /\ \A j \in 1..Len(st.out) : j # k => o[j] = st.out[j]
    <3>1. IsSequence(st.out)
      BY DEF Shows
    <3> HIDE DEF k, e
    <3> QED BY <2>1, <3>1, Replacing
  <2>5. e = Entry(p, e.commitTs, e.dv, e.dvTs)
    BY EntryFields
  <2>6. /\ F = [q \in DOMAIN F |-> F[q]] /\ DOMAIN F = DOMAIN E
        /\ F[p] = e /\ \A q \in DOMAIN E : q # p => F[q] = E[q]
    BY <1>2
  <2> HIDE DEF p, e, o, F, t
  <2>7. ASSUME NEW q \in DOMAIN F
        PROVE  /\ q # NoPath /\ o[st.idx[q]] = F[q]
               /\ F[q] = Entry(q, F[q].commitTs, F[q].dv, F[q].dvTs)
    <3>1. CASE q = p
      BY <1>2, <2>4, <2>5, <2>6, <3>1 DEF Shows
    <3>2. CASE q # p
      <4>1. st.idx[q] # k /\ st.idx[q] \in 1..Len(st.out)
        BY <1>2, <2>6, <3>2, OnePlace DEF Shows
      <4> QED BY <2>4, <2>6, <3>2, <4>1 DEF Shows
    <3> QED BY <3>1, <3>2
  <2>8. ASSUME NEW i \in 1..Len(o)
        PROVE  o[i].path = NoPath \/ \E q \in DOMAIN F : st.idx[q] = i
    <3>1. CASE i = k
      BY <1>2, <2>6, <3>1
    <3>2. CASE i # k
      BY <2>4, <2>6, <3>2 DEF Shows
    <3> QED BY <3>1, <3>2
  <2>9. st.idx \in [DOMAIN F -> 1..Len(o)]
    BY <2>4, <2>6 DEF Shows
  <2>10. Shows(t, F)
    BY <2>3, <2>4, <2>6, <2>7, <2>8, <2>9 DEF Shows
  <2> QED BY <2>10 DEF t, F, p
<1> QED BY <1>1, <1>2

LEMMA RetireShows ==
    ASSUME NEW st, NEW E, Shows(st, E), NEW p
    PROVE  Shows(ApplyRemove(st, p), [q \in DOMAIN E \ {p} |-> E[q]])
<1> DEFINE F == [q \in DOMAIN E \ {p} |-> E[q]]
           t == ApplyRemove(st, p)
<1>1. CASE p \notin DOMAIN E
  <2>1. t = st
    BY <1>1 DEF ApplyRemove, Shows
  <2>2. F = E
    BY <1>1 DEF Shows
  <2> QED BY <2>1, <2>2
<1>2. CASE p \in DOMAIN E
  <2> DEFINE k == st.idx[p]
             b == [st.out[k] EXCEPT !.path = NoPath]
             o == [st.out EXCEPT ![k] = b]
             x == [q \in DOMAIN E \ {p} |-> st.idx[q]]
  <2>1. k \in 1..Len(st.out) /\ st.out[k] = E[p] /\ E[p] = Entry(p, E[p].commitTs, E[p].dv, E[p].dvTs)
    BY <1>2 DEF Shows
  <2>2. b.path = NoPath
    BY <2>1 DEF Entry
  <2>3. t = [out |-> o, idx |-> x]
    <3>1. DOMAIN st.idx = DOMAIN E /\ st = [out |-> st.out, idx |-> st.idx]
      BY DEF Shows
    <3>2. t = [out |-> [st.out EXCEPT ![st.idx[p]].path = NoPath],
               idx |-> [q \in DOMAIN st.idx \ {p} |-> st.idx[q]]]
      BY <1>2, <3>1, RetireFields
    <3> QED BY <3>1, <3>2
  <2>4. t.out = o /\ t.idx = x /\ t = [out |-> t.out, idx |-> t.idx]
    BY <2>3
  <2>5. /\ IsSequence(o) /\ Len(o) = Len(st.out) /\ o[k] = b
        /\ \A j \in 1..Len(st.out) : j # k => o[j] = st.out[j]
    <3>1. IsSequence(st.out)
      BY DEF Shows
    <3> HIDE DEF k, b
    <3> QED BY <2>1, <3>1, Replacing
  <2>6. /\ F = [q \in DOMAIN F |-> F[q]] /\ DOMAIN F = DOMAIN E \ {p}
        /\ \A q \in DOMAIN F : F[q] = E[q] /\ x[q] = st.idx[q]
    OBVIOUS
  <2>7. x \in [DOMAIN E \ {p} -> 1..Len(st.out)]
    BY DEF Shows
  <2> HIDE DEF b, o, x, F, t
  <2>8. ASSUME NEW q \in DOMAIN F
        PROVE  /\ q # NoPath /\ o[x[q]] = F[q]
               /\ F[q] = Entry(q, F[q].commitTs, F[q].dv, F[q].dvTs)
    <3>1. st.idx[q] # k /\ st.idx[q] \in 1..Len(st.out)
      BY <1>2, <2>6, OnePlace DEF Shows
    <3> QED BY <2>5, <2>6, <3>1 DEF Shows
  <2>9. ASSUME NEW i \in 1..Len(o)
        PROVE  o[i].path = NoPath \/ \E q \in DOMAIN F : x[q] = i
    <3>1. CASE i = k
      BY <2>2, <2>5, <3>1
    <3>2. CASE i # k
      BY <2>5, <2>6, <3>2 DEF Shows
    <3> QED BY <3>1, <3>2
  <2>10. Shows(t, F)
    BY <2>4, <2>5, <2>6, <2>7, <2>8, <2>9 DEF Shows
  <2> QED BY <2>10 DEF t, F
<1> QED BY <1>1, <1>2

\* The entries after a record has been applied to E: with the first k of its
\* additions, redirections or removals, and with all of them.
UpTo(s, k) == {s[l] : l \in 1..k}
RedirectsOf(rec, q, k) == {l \in 1..k : rec.dvs[l].seg = q}

Adding(rec, E, k) ==
    [q \in DOMAIN E \cup UpTo(rec.adds, k) |->
        IF q \in UpTo(rec.adds, k) THEN Entry(q, rec.commitTs, NoDV, 0) ELSE E[q]]
Redirecting(rec, E, k) ==
    [q \in DOMAIN E |->
        IF RedirectsOf(rec, q, k) = {} THEN E[q]
        ELSE Entry(q, E[q].commitTs, rec.dvs[SetMax(RedirectsOf(rec, q, k))].dv, rec.commitTs)]
Retiring(rec, E, k) == [q \in DOMAIN E \ UpTo(rec.removes, k) |-> E[q]]

LEMMA UpToNext ==
    ASSUME NEW s, NEW k \in Nat, k # 0
    PROVE  UpTo(s, k) = UpTo(s, k - 1) \cup {s[k]}
<1>1. \A l : l \in 1..k <=> l \in 1..(k - 1) \/ l = k
  OBVIOUS
<1>2. \A x : x \in UpTo(s, k) <=> x \in UpTo(s, k - 1) \cup {s[k]}
  BY <1>1 DEF UpTo
<1> QED BY <1>2

LEMMA UpToNone == ASSUME NEW s PROVE UpTo(s, 0) = {}
BY DEF UpTo

LEMMA UpToAll == ASSUME NEW s, IsSequence(s) PROVE UpTo(s, Len(s)) = ToSet(s)
BY SequenceLength DEF UpTo, ToSet

LEMMA SetMaxIs ==
    ASSUME NEW S, S \subseteq Nat, NEW m \in S, \A j \in S : j <= m
    PROVE  SetMax(S) = m
<1>1. SetMax(S) \in S /\ \A y \in S : y <= SetMax(S)
  BY DEF SetMax
<1> HIDE DEF SetMax
<1>2. m \in Nat /\ SetMax(S) \in Nat
  BY <1>1
<1> QED BY <1>1, <1>2

LEMMA AddAllShows ==
    ASSUME NEW rec, NEW st, NEW E, Shows(st, E), IsSequence(rec.adds), Distinct(rec.adds),
           ToSet(rec.adds) \cap DOMAIN E = {}, NoPath \notin ToSet(rec.adds)
    PROVE  Shows(AddAll(rec, st), Adding(rec, E, Len(rec.adds)))
<1> DEFINE s == rec.adds
           n == Len(s)
<1>1. PICK tr : Passing(tr, "add", rec, st, s) /\ AddAll(rec, st) = tr[n]
  BY AddStates
<1>2. n \in Nat /\ DOMAIN s = 1..n
  BY SequenceLength
<1> DEFINE Bad == {k \in 0..n : ~Shows(tr[k], Adding(rec, E, k))}
<1>3. 0 \notin Bad
  <2>1. Adding(rec, E, 0) = E
    BY UpToNone DEF Adding, Shows
  <2> QED BY <1>1, <2>1 DEF Passing
<1>4. ASSUME NEW k \in 1..n, k - 1 \notin Bad PROVE k \notin Bad
  <2> DEFINE D == Adding(rec, E, k - 1)
             p == s[k]
             F == [q \in DOMAIN D \cup {p} |-> IF q = p THEN Entry(p, rec.commitTs, NoDV, 0) ELSE D[q]]
  <2>1. k - 1 \in 0..n /\ k \in Nat /\ k # 0
    BY <1>2
  <2>2. Shows(tr[k - 1], D)
    BY <1>4, <2>1
  <2>3. p \in ToSet(s)
    BY <1>2 DEF ToSet
  <2>4. p \notin UpTo(s, k - 1)
    <3>1. \A l \in 1..(k - 1) : l \in DOMAIN s /\ l # k
      BY <1>2
    <3> QED BY <1>2, <3>1 DEF UpTo, Distinct
  <2>5. p \notin DOMAIN D /\ p # NoPath
    BY <2>3, <2>4 DEF Adding
  <2>6. tr[k] = ApplyAdd(rec, tr[k - 1], p)
    BY <1>1 DEF Passing, Step
  <2>7. F = Adding(rec, E, k)
    <3>1. UpTo(s, k) = UpTo(s, k - 1) \cup {p}
      BY <2>1, UpToNext
    <3>2. DOMAIN D = DOMAIN E \cup UpTo(s, k - 1)
      BY DEF Adding
    <3>3. DOMAIN F = DOMAIN E \cup UpTo(s, k)
      BY <3>1, <3>2
    <3>4. \A q \in DOMAIN F : F[q] = IF q \in UpTo(s, k) THEN Entry(q, rec.commitTs, NoDV, 0) ELSE E[q]
      BY <3>1 DEF Adding
    <3> HIDE DEF D
    <3>5. F = [q \in DOMAIN F |-> F[q]]
      OBVIOUS
    <3> HIDE DEF F
    <3> QED BY <3>3, <3>4, <3>5 DEF Adding
  <2> HIDE DEF D, p, F
  <2>8. Shows(tr[k], F)
    BY <2>2, <2>5, <2>6, AddShows DEF F
  <2> QED BY <2>7, <2>8
<1>5. Bad = {}
  <2>1. Bad \in SUBSET (0..n)
    OBVIOUS
  <2> HIDE DEF Bad, n
  <2> QED BY <1>2, <1>3, <1>4, <2>1, NoneOf
<1>6. n \in 0..n
  BY <1>2
<1> QED BY <1>1, <1>5, <1>6

LEMMA RedirectAllShows ==
    ASSUME NEW rec, NEW st, NEW E, Shows(st, E), IsSequence(rec.dvs)
    PROVE  Shows(RedirectAll(rec, st), Redirecting(rec, E, Len(rec.dvs)))
<1> DEFINE s == rec.dvs
           n == Len(s)
<1>1. PICK tr : Passing(tr, "dv", rec, st, s) /\ RedirectAll(rec, st) = tr[n]
  BY RedirectStates
<1>2. n \in Nat /\ DOMAIN s = 1..n
  BY SequenceLength
<1> DEFINE Bad == {k \in 0..n : ~Shows(tr[k], Redirecting(rec, E, k))}
<1>3. 0 \notin Bad
  <2>1. \A q : RedirectsOf(rec, q, 0) = {}
    BY DEF RedirectsOf
  <2>2. Redirecting(rec, E, 0) = E
    BY <2>1 DEF Redirecting, Shows
  <2> QED BY <1>1, <2>2 DEF Passing
<1>4. ASSUME NEW k \in 1..n, k - 1 \notin Bad PROVE k \notin Bad
  <2> DEFINE D == Redirecting(rec, E, k - 1)
             u == s[k]
             F == [q \in DOMAIN D |-> IF q = u.seg THEN Entry(q, D[q].commitTs, u.dv, rec.commitTs) ELSE D[q]]
             Now(q) == RedirectsOf(rec, q, k)
             Before(q) == RedirectsOf(rec, q, k - 1)
  <2>1. k - 1 \in 0..n /\ k \in Nat /\ k # 0
    BY <1>2
  <2>2. Shows(tr[k - 1], D)
    BY <1>4, <2>1
  <2>3. tr[k] = ApplyDV(rec, tr[k - 1], u)
    BY <1>1 DEF Passing, Step
  <2>4. DOMAIN D = DOMAIN E
    BY DEF Redirecting
  <2>5. ASSUME NEW q \in DOMAIN E
        PROVE  F[q] = IF Now(q) = {} THEN E[q]
                      ELSE Entry(q, E[q].commitTs, rec.dvs[SetMax(Now(q))].dv, rec.commitTs)
    <3>1. D[q] = IF Before(q) = {} THEN E[q]
                 ELSE Entry(q, E[q].commitTs, rec.dvs[SetMax(Before(q))].dv, rec.commitTs)
      BY DEF Redirecting
    <3>2. D[q].commitTs = E[q].commitTs
      BY <3>1, EntryFields
    <3>3. \A l : l \in 1..k <=> l \in 1..(k - 1) \/ l = k
      BY <1>2
    <3>4. CASE q = u.seg
      <4>1. k \in Now(q) /\ Now(q) \subseteq Nat /\ \A j \in Now(q) : j <= k
        BY <1>2, <3>4 DEF RedirectsOf
      <4>2. SetMax(Now(q)) = k
        BY <4>1, SetMaxIs
      <4>3. F[q] = Entry(q, E[q].commitTs, u.dv, rec.commitTs)
        BY <2>4, <3>2, <3>4
      <4> QED BY <4>1, <4>2, <4>3
    <3>5. CASE q # u.seg
      <4>1. Now(q) = Before(q)
        BY <3>3, <3>5 DEF RedirectsOf
      <4>2. F[q] = D[q]
        BY <2>4, <3>5
      <4> QED BY <3>1, <4>1, <4>2
    <3> QED BY <3>4, <3>5
  <2>6. F = [q \in DOMAIN E |-> F[q]]
    BY <2>4
  <2> HIDE DEF D, F, u
  <2>7. F = Redirecting(rec, E, k)
    BY <2>5, <2>6 DEF Redirecting
  <2>8. Shows(tr[k], F)
    BY <2>2, <2>3, RedirectShows DEF F
  <2> QED BY <2>7, <2>8
<1>5. Bad = {}
  <2>1. Bad \in SUBSET (0..n)
    OBVIOUS
  <2> HIDE DEF Bad, n
  <2> QED BY <1>2, <1>3, <1>4, <2>1, NoneOf
<1>6. n \in 0..n
  BY <1>2
<1> QED BY <1>1, <1>5, <1>6

LEMMA RetireAllShows ==
    ASSUME NEW rec, NEW st, NEW E, Shows(st, E), IsSequence(rec.removes)
    PROVE  Shows(RetireAll(rec, st), Retiring(rec, E, Len(rec.removes)))
<1> DEFINE s == rec.removes
           n == Len(s)
<1>1. PICK tr : Passing(tr, "remove", rec, st, s) /\ RetireAll(rec, st) = tr[n]
  BY RetireStates
<1>2. n \in Nat /\ DOMAIN s = 1..n
  BY SequenceLength
<1> DEFINE Bad == {k \in 0..n : ~Shows(tr[k], Retiring(rec, E, k))}
<1>3. 0 \notin Bad
  <2>1. Retiring(rec, E, 0) = E
    BY UpToNone DEF Retiring, Shows
  <2> QED BY <1>1, <2>1 DEF Passing
<1>4. ASSUME NEW k \in 1..n, k - 1 \notin Bad PROVE k \notin Bad
  <2> DEFINE D == Retiring(rec, E, k - 1)
             p == s[k]
             F == [q \in DOMAIN D \ {p} |-> D[q]]
  <2>1. k - 1 \in 0..n /\ k \in Nat /\ k # 0
    BY <1>2
  <2>2. Shows(tr[k - 1], D)
    BY <1>4, <2>1
  <2>3. tr[k] = ApplyRemove(tr[k - 1], p)
    BY <1>1 DEF Passing, Step
  <2>4. UpTo(s, k) = UpTo(s, k - 1) \cup {p}
    BY <2>1, UpToNext
  <2>5. F = Retiring(rec, E, k)
    BY <2>4 DEF Retiring
  <2> HIDE DEF D, p, F
  <2>6. Shows(tr[k], F)
    BY <2>2, <2>3, RetireShows DEF F
  <2> QED BY <2>5, <2>6
<1>5. Bad = {}
  <2>1. Bad \in SUBSET (0..n)
    OBVIOUS
  <2> HIDE DEF Bad, n
  <2> QED BY <1>2, <1>3, <1>4, <2>1, NoneOf
<1>6. n \in 0..n
  BY <1>2
<1> QED BY <1>1, <1>5, <1>6

-----------------------------------------------------------------------------
(* Squeezing out the blank entries                                           *)

\* The first so many entries, without the blank ones.
Compacting(f, out, n) ==
    f = [i \in 0..n |->
            IF i = 0 THEN <<>>
            ELSE IF out[i].path = NoPath THEN f[i - 1] ELSE Append(f[i - 1], out[i])]

LEMMA CompactExists ==
    ASSUME NEW out, NEW n \in Nat
    PROVE  \E f : Compacting(f, out, n)
<1> DEFINE Without == {k \in 0..n : ~ \E f : Compacting(f, out, k)}
<1>1. 0 \notin Without
  <2> DEFINE f == [i \in 0..0 |-> <<>>]
  <2>1. f = [i \in 0..0 |->
               IF i = 0 THEN <<>>
               ELSE IF out[i].path = NoPath THEN f[i - 1] ELSE Append(f[i - 1], out[i])]
    OBVIOUS
  <2> QED BY <2>1 DEF Compacting
<1>2. ASSUME NEW k \in 1..n, k - 1 \notin Without PROVE k \notin Without
  <2>1. k - 1 \in 0..n /\ k \in Nat
    OBVIOUS
  <2>2. PICK f : Compacting(f, out, k - 1)
    BY <1>2, <2>1
  <2> DEFINE Add(c, e) == IF e.path = NoPath THEN c ELSE Append(c, e)
             g == [i \in 0..k |-> IF i = k THEN Add(f[k - 1], out[k]) ELSE f[i]]
  <2>3. ASSUME NEW i \in 0..k PROVE g[i] = IF i = 0 THEN <<>> ELSE Add(g[i - 1], out[i])
    <3>1. CASE i = k
      <4>1. i # 0 /\ i - 1 \in 0..k /\ i - 1 # k
        BY <3>1
      <4> HIDE DEF Add
      <4>2. g[i] = Add(f[k - 1], out[k]) /\ g[i - 1] = f[i - 1]
        BY <3>1, <4>1
      <4> QED BY <3>1, <4>1, <4>2
    <3>2. CASE i # k
      <4>1. i \in 0..(k - 1) /\ (i # 0 => i - 1 \in 0..k /\ i - 1 # k)
        BY <3>2
      <4>2. f[i] = IF i = 0 THEN <<>> ELSE Add(f[i - 1], out[i])
        BY <2>2, <4>1 DEF Compacting
      <4> HIDE DEF Add
      <4>3. g[i] = f[i] /\ (i # 0 => g[i - 1] = f[i - 1])
        BY <3>2, <4>1
      <4> QED BY <4>2, <4>3
    <3> QED BY <3>1, <3>2
  <2>4. g = [i \in 0..k |-> g[i]]
    OBVIOUS
  <2> HIDE DEF g
  <2>5. Compacting(g, out, k)
    BY <2>3, <2>4 DEF Compacting
  <2> QED BY <2>5
<1>3. Without \in SUBSET (0..n)
  OBVIOUS
<1> HIDE DEF Without
<1>4. Without = {}
  BY <1>1, <1>2, <1>3, NoneOf
<1> QED BY <1>4 DEF Without

\* What is not blank stays, once.
LEMMA SqueezedHolds ==
    ASSUME NEW out, IsSequence(out),
           \A i, j \in 1..Len(out) : out[i].path # NoPath /\ out[i] = out[j] => i = j
    PROVE  /\ IsSequence(Squeezed(out)) /\ Distinct(Squeezed(out))
           /\ ToSet(Squeezed(out)) = {out[i] : i \in {j \in 1..Len(out) : out[j].path # NoPath}}
<1> DEFINE n == Len(out)
           f == CHOOSE g : Compacting(g, out, n)
           Listed(i) == {out[j] : j \in {k \in 1..i : out[k].path # NoPath}}
           Good(i) == IsSequence(f[i]) /\ Distinct(f[i]) /\ ToSet(f[i]) = Listed(i)
           Bad == {i \in 0..n : ~Good(i)}
<1>1. n \in Nat
  BY SequenceLength
<1>2. Squeezed(out) = f[n]
  BY DEF Squeezed, Compacting
<1>3. Compacting(f, out, n)
  BY <1>1, CompactExists
<1> HIDE DEF f
<1>4. 0 \notin Bad
  <2>1. f[0] = <<>>
    BY <1>1, <1>3 DEF Compacting
  <2>2. Listed(0) = {}
    OBVIOUS
  <2> QED BY <2>1, <2>2, EmptySequence DEF Distinct, ToSet
<1>5. ASSUME NEW i \in 1..n, i - 1 \notin Bad PROVE i \notin Bad
  <2>1. i - 1 \in 0..n /\ i \in 0..n /\ i # 0 /\ \A j : j \in 1..i <=> j \in 1..(i - 1) \/ j = i
    BY <1>1
  <2>2. Good(i - 1)
    BY <1>5, <2>1
  <2>3. f[i] = IF out[i].path = NoPath THEN f[i - 1] ELSE Append(f[i - 1], out[i])
    BY <1>3, <2>1 DEF Compacting
  <2>4. CASE out[i].path = NoPath
    <3>1. Listed(i) = Listed(i - 1)
      BY <2>1, <2>4
    <3> QED BY <2>2, <2>3, <2>4, <3>1
  <2>5. CASE out[i].path # NoPath
    <3> DEFINE c == f[i - 1]
               a == Append(c, out[i])
    <3>1. /\ IsSequence(a) /\ DOMAIN c = 1..Len(c) /\ DOMAIN a = 1..(Len(c) + 1)
          /\ Len(c) \in Nat
          /\ \A j \in 1..Len(c) : a[j] = c[j]
          /\ a[Len(c) + 1] = out[i]
      BY <2>2, Appending, SequenceLength
    <3>2. \A x : x \in Listed(i) <=> x \in Listed(i - 1) \/ x = out[i]
      BY <2>1, <2>5
    <3>3. out[i] \notin Listed(i - 1)
      <4>1. \A j \in 1..(i - 1) : j \in 1..n /\ j # i
        BY <1>1
      <4> QED BY <2>5, <4>1
    <3>4. ToSet(c) = Listed(i - 1) /\ Distinct(c)
      BY <2>2
    <3> HIDE DEF c, a, Listed
    <3>5. \A j \in 1..(Len(c) + 1) : j \in 1..Len(c) \/ j = Len(c) + 1
      BY <3>1
    <3>6. \A j \in 1..Len(c) : j \in 1..(Len(c) + 1)
      BY <3>1
    <3>7. \A j \in 1..Len(c) : c[j] \in Listed(i - 1)
      BY <3>1, <3>4 DEF ToSet
    <3>8. Distinct(a)
      BY <3>1, <3>3, <3>4, <3>5, <3>7 DEF Distinct
    <3>9. ToSet(a) = Listed(i)
      <4>1. \A j \in DOMAIN a : a[j] \in Listed(i)
        BY <3>1, <3>2, <3>5, <3>7
      <4>2. ASSUME NEW x \in Listed(i) PROVE \E j \in DOMAIN a : a[j] = x
        <5>1. Len(c) + 1 \in DOMAIN a
          BY <3>1
        <5>2. x \in Listed(i - 1) => \E j \in 1..Len(c) : c[j] = x
          BY <3>1, <3>4 DEF ToSet
        <5> QED BY <3>1, <3>2, <3>6, <5>1, <5>2
      <4> QED BY <4>1, <4>2 DEF ToSet
    <3> QED BY <2>3, <2>5, <3>1, <3>8, <3>9 DEF a, c
  <2> QED BY <2>4, <2>5
<1>6. Bad = {}
  <2>1. Bad \in SUBSET (0..n)
    OBVIOUS
  <2> HIDE DEF Bad, n
  <2> QED BY <1>1, <1>4, <1>5, <2>1, NoneOf
<1>7. n \in 0..n
  BY <1>1
<1> QED BY <1>2, <1>6, <1>7

\* A state of the pass yields the entries it shows, each once.
LEMMA ShownView ==
    ASSUME NEW st, NEW E, Shows(st, E)
    PROVE  LET view == Squeezed(st.out)
           IN  /\ ToSet(view) = {E[q] : q \in DOMAIN E}
               /\ Len(view) = Cardinality(ToSet(view))
<1> DEFINE out == st.out
<1>1. /\ IsSequence(out)
      /\ \A q \in DOMAIN E : st.idx[q] \in 1..Len(out) /\ out[st.idx[q]] = E[q]
      /\ \A i \in 1..Len(out) : out[i].path = NoPath \/ \E q \in DOMAIN E : st.idx[q] = i
  BY DEF Shows
<1>2. \A q \in DOMAIN E : E[q].path = q /\ q # NoPath
  BY EntryFields DEF Shows
<1>3. \A i, j \in 1..Len(out) : out[i].path # NoPath /\ out[i] = out[j] => i = j
  <2> SUFFICES ASSUME NEW i \in 1..Len(out), NEW j \in 1..Len(out), out[i].path # NoPath, out[i] = out[j]
               PROVE  i = j
    OBVIOUS
  <2>1. PICK p \in DOMAIN E : st.idx[p] = i
    BY <1>1
  <2>2. PICK q \in DOMAIN E : st.idx[q] = j
    BY <1>1
  <2>3. p = q
    BY <1>1, <1>2, <2>1, <2>2
  <2> QED BY <2>1, <2>2, <2>3
<1>4. {out[i] : i \in {j \in 1..Len(out) : out[j].path # NoPath}} = {E[q] : q \in DOMAIN E}
  <2> DEFINE A == {out[i] : i \in {j \in 1..Len(out) : out[j].path # NoPath}}
  <2>1. \A e \in A : \E q \in DOMAIN E : e = E[q]
    BY <1>1
  <2>2. \A q \in DOMAIN E : E[q] \in A
    BY <1>1, <1>2
  <2> HIDE DEF A
  <2> QED BY <2>1, <2>2 DEF A
<1> HIDE DEF out
<1>5. /\ IsSequence(Squeezed(out)) /\ Distinct(Squeezed(out))
      /\ ToSet(Squeezed(out)) = {E[q] : q \in DOMAIN E}
  BY <1>1, <1>3, <1>4, SqueezedHolds
<1> QED BY <1>5, DistinctCount DEF out

-----------------------------------------------------------------------------
(* What the records at a set of positions say. The last one to mention a     *)
(* segment decides, so a record past the others changes the entries the way  *)
(* the pass does.                                                            *)

AddedIn(p, I) ==
    LET adding == {i \in I : Adds(i, p)}
    IN  IF adding = {} THEN 0
        ELSE IF \E j \in I : j >= SetMax(adding) /\ Removes(j, p) THEN 0 ELSE SetMax(adding)

EntryIn(p, I) ==
    LET from == AddedIn(p, I)
        updates == {j \in I : j >= from /\ Redirects(j, p) # {}}
        last == SetMax(updates)
    IN  IF updates = {} THEN Entry(p, records[from].commitTs, NoDV, 0)
        ELSE Entry(p, records[from].commitTs, records[last].dvs[SetMax(Redirects(last, p))].dv,
                   records[last].commitTs)

EntriesIn(I) == [p \in {q \in Paths : AddedIn(q, I) # 0} |-> EntryIn(p, I)]

Within(upTo, maxTs) == {i \in DOMAIN records : Included(i, upTo, maxTs)}

LEMMA ExpectedIs ==
    ASSUME NEW upTo, NEW maxTs
    PROVE  ExpectedView(upTo, maxTs) = {EntriesIn(Within(upTo, maxTs))[p] : p \in DOMAIN EntriesIn(Within(upTo, maxTs))}
<1> DEFINE I == Within(upTo, maxTs)
<1>1. \A p : {i \in DOMAIN records : Included(i, upTo, maxTs) /\ Adds(i, p)} = {i \in I : Adds(i, p)}
  BY DEF Within
<1>2. \A p, m : (\E j \in DOMAIN records : j >= m /\ Included(j, upTo, maxTs) /\ Removes(j, p))
                  <=> \E j \in I : j >= m /\ Removes(j, p)
  BY DEF Within
<1>3. \A p, m : {j \in DOMAIN records : j >= m /\ Included(j, upTo, maxTs) /\ Redirects(j, p) # {}}
                  = {j \in I : j >= m /\ Redirects(j, p) # {}}
  BY DEF Within
<1> HIDE DEF I
<1>4. \A p : AddedBy(p, upTo, maxTs) = AddedIn(p, I)
  BY <1>1, <1>2 DEF AddedBy, AddedIn
<1>5. \A p : ExpectedEntry(p, upTo, maxTs) = EntryIn(p, I)
  BY <1>3, <1>4 DEF ExpectedEntry, EntryIn
<1>6. \A p \in DOMAIN EntriesIn(I) : EntriesIn(I)[p] = EntryIn(p, I)
  BY DEF EntriesIn
<1>7. DOMAIN EntriesIn(I) = {q \in Paths : AddedBy(q, upTo, maxTs) # 0}
  BY <1>4 DEF EntriesIn
<1> QED BY <1>5, <1>6, <1>7 DEF ExpectedView, I

LEMMA SetMaxOf ==
    ASSUME NEW n \in Nat, NEW S \in SUBSET (0..n), S # {}
    PROVE  SetMax(S) \in S /\ \A j \in S : j <= SetMax(S)
<1> DEFINE Bounds == {m \in Nat : \A j \in S : j <= m}
<1>1. n \in Bounds
  OBVIOUS
<1>2. PICK m \in Bounds : \A k \in Bounds : m <= k
  <2>1. Bounds \subseteq Nat /\ Bounds # {}
    BY <1>1
  <2> HIDE DEF Bounds
  <2> QED BY <2>1, LeastOfSome
<1>3. m \in Nat /\ \A j \in S : j <= m
  OBVIOUS
<1>4. m \in S
  <2> SUFFICES ASSUME m \notin S PROVE FALSE
    OBVIOUS
  <2>1. \A j \in S : j \in Nat /\ j <= m /\ j # m
    BY <1>3
  <2>2. m # 0
    <3>1. PICK j \in S : TRUE
      OBVIOUS
    <3>2. j \in Nat /\ j <= m /\ j # m
      BY <2>1
    <3> QED BY <3>2
  <2>3. m - 1 \in Nat /\ \A j \in S : j <= m - 1
    BY <1>3, <2>1, <2>2
  <2>4. m <= m - 1
    BY <1>2, <2>3
  <2> QED BY <1>3, <2>4
<1> QED BY <1>3, <1>4 DEF SetMax

\* Which record added a segment, when one more record counts.
LEMMA AddedNext ==
    ASSUME NEW I \in SUBSET (DOMAIN records), IsSequence(records), NEW i \in DOMAIN records,
           \A j \in I : j < i, NEW p
    PROVE  AddedIn(p, I \cup {i}) =
             IF Removes(i, p) THEN 0 ELSE IF Adds(i, p) THEN i ELSE AddedIn(p, I)
<1> DEFINE J == I \cup {i}
           old == {j \in I : Adds(j, p)}
           new == {j \in J : Adds(j, p)}
           n == Len(records)
<1>1. n \in Nat /\ DOMAIN records = 1..n
  BY SequenceLength
<1>2. i \in Nat /\ old \in SUBSET (0..n) /\ new \in SUBSET (0..n) /\ I \in SUBSET (1..n)
  BY <1>1
<1>3. \A j \in J : j \in Nat /\ j <= i
  BY <1>1
<1>4. AddedIn(p, J) = IF new = {} THEN 0
                      ELSE IF \E j \in J : j >= SetMax(new) /\ Removes(j, p) THEN 0 ELSE SetMax(new)
  BY DEF AddedIn
<1>5. AddedIn(p, I) = IF old = {} THEN 0
                      ELSE IF \E j \in I : j >= SetMax(old) /\ Removes(j, p) THEN 0 ELSE SetMax(old)
  BY DEF AddedIn
<1>6. CASE Removes(i, p)
  <2>1. new # {} => SetMax(new) \in new
    BY <1>1, <1>2, SetMaxOf
  <2>2. new # {} => i >= SetMax(new)
    BY <1>2, <1>3, <2>1
  <2> HIDE DEF new
  <2> QED BY <1>4, <1>6, <2>2
<1>7. CASE ~Removes(i, p) /\ Adds(i, p)
  <2>1. i \in new /\ new \subseteq Nat /\ \A j \in new : j <= i
    BY <1>3, <1>7
  <2>2. SetMax(new) = i
    BY <2>1, SetMaxIs
  <2>3. \A j \in J : j >= i => j = i
    BY <1>2, <1>3
  <2>4. i \in J
    OBVIOUS
  <2> HIDE DEF new, J
  <2>5. AddedIn(p, J) = i
    BY <1>4, <1>7, <2>1, <2>2, <2>3
  <2> QED BY <1>7, <2>5 DEF J
<1>8. CASE ~Removes(i, p) /\ ~Adds(i, p)
  <2>1. new = old
    BY <1>8
  <2>2. \A m : (\E j \in J : j >= m /\ Removes(j, p)) <=> \E j \in I : j >= m /\ Removes(j, p)
    BY <1>8
  <2> HIDE DEF new, old, J
  <2>3. AddedIn(p, J) = AddedIn(p, I)
    BY <1>4, <1>5, <2>1, <2>2
  <2> QED BY <1>8, <2>3 DEF J
<1> QED BY <1>6, <1>7, <1>8

\* The entry of a segment that such a record leaves live.
LEMMA EntryNext ==
    ASSUME NEW I \in SUBSET (DOMAIN records), IsSequence(records), NEW i \in DOMAIN records,
           \A j \in I : j < i, NEW p, ~Removes(i, p)
    PROVE  LET base == IF Adds(i, p) THEN Entry(p, records[i].commitTs, NoDV, 0) ELSE EntryIn(p, I)
           IN  EntryIn(p, I \cup {i}) =
                 IF Redirects(i, p) = {} THEN base
                 ELSE Entry(p, base.commitTs, records[i].dvs[SetMax(Redirects(i, p))].dv, records[i].commitTs)
<1> DEFINE J == I \cup {i}
           a == AddedIn(p, J)
           b == AddedIn(p, I)
           old == {j \in I : j >= b /\ Redirects(j, p) # {}}
           new == {j \in J : j >= a /\ Redirects(j, p) # {}}
<1>1. Len(records) \in Nat /\ DOMAIN records = 1..Len(records)
  BY SequenceLength
<1>2. i \in Nat /\ \A j \in J : j \in Nat /\ j <= i
  BY <1>1
<1>3. a = IF Adds(i, p) THEN i ELSE b
  BY AddedNext
<1>4. b \in 0..i
  <2> DEFINE adding == {j \in I : Adds(j, p)}
  <2>1. adding \in SUBSET (0..i)
    BY <1>2
  <2>2. adding # {} => SetMax(adding) \in 0..i
    BY <1>2, <2>1, SetMaxOf
  <2> QED BY <1>2, <2>2 DEF AddedIn
<1>5. EntryIn(p, J) = IF new = {} THEN Entry(p, records[a].commitTs, NoDV, 0)
                      ELSE Entry(p, records[a].commitTs, records[SetMax(new)].dvs[SetMax(Redirects(SetMax(new), p))].dv,
                                 records[SetMax(new)].commitTs)
  BY DEF EntryIn
<1>6. EntryIn(p, I) = IF old = {} THEN Entry(p, records[b].commitTs, NoDV, 0)
                      ELSE Entry(p, records[b].commitTs, records[SetMax(old)].dvs[SetMax(Redirects(SetMax(old), p))].dv,
                                 records[SetMax(old)].commitTs)
  BY DEF EntryIn
<1>7. EntryIn(p, I).commitTs = records[b].commitTs
  BY <1>6, EntryFields
<1>8. a <= i
  BY <1>2, <1>3, <1>4
<1>9. CASE Redirects(i, p) # {}
  <2>1. i \in new /\ new \subseteq Nat /\ \A j \in new : j <= i
    BY <1>2, <1>8, <1>9
  <2>2. SetMax(new) = i
    BY <2>1, SetMaxIs
  <2> HIDE DEF new, a, b
  <2>3. EntryIn(p, J) = Entry(p, records[a].commitTs, records[i].dvs[SetMax(Redirects(i, p))].dv, records[i].commitTs)
    BY <1>5, <2>1, <2>2
  <2> QED BY <1>3, <1>7, <1>9, <2>3, EntryFields
<1>10. CASE Redirects(i, p) = {} /\ Adds(i, p)
  <2>1. new = {}
    BY <1>2, <1>3, <1>10
  <2> HIDE DEF new, a, b
  <2> QED BY <1>3, <1>5, <1>10, <2>1
<1>11. CASE Redirects(i, p) = {} /\ ~Adds(i, p)
  <2>1. new = old
    BY <1>3, <1>11
  <2> HIDE DEF new, old, a, b
  <2> QED BY <1>3, <1>5, <1>6, <1>11, <2>1
<1> QED BY <1>9, <1>10, <1>11

-----------------------------------------------------------------------------
(* The pass yields what the records say                                      *)

Published(rec, E) ==
    Retiring(rec, Redirecting(rec, Adding(rec, E, Len(rec.adds)), Len(rec.dvs)), Len(rec.removes))

Orderly(rec) ==
    /\ IsSequence(rec.adds) /\ IsSequence(rec.dvs) /\ IsSequence(rec.removes)
    /\ Distinct(rec.adds) /\ ToSet(rec.adds) \subseteq Paths

\* Timestamps ascend, and a path is added again only after it was removed.
Tidy(s) ==
    /\ \A i \in DOMAIN s : Orderly(s[i]) /\ s[i].commitTs \in Nat
    /\ \A i, j \in DOMAIN s : j < i => s[j].commitTs < s[i].commitTs
    /\ \A i, j \in DOMAIN s : j < i =>
          \A p \in ToSet(s[i].adds) \cap ToSet(s[j].adds) :
              \E m \in j..(i - 1) : p \in ToSet(s[m].removes)

LEMMA RecordShows ==
    ASSUME NEW rec, Orderly(rec), NEW st, NEW E, Shows(st, E), ToSet(rec.adds) \cap DOMAIN E = {},
           NEW upTo, NEW maxTs, ~Skipped(rec, upTo, maxTs)
    PROVE  Shows(ApplyRecord(st, rec, upTo, maxTs), Published(rec, E))
<1>1. NoPath \notin ToSet(rec.adds)
  BY NoPathAssumption DEF Orderly
<1>2. Shows(AddAll(rec, st), Adding(rec, E, Len(rec.adds)))
  BY <1>1, AddAllShows DEF Orderly
<1>3. Shows(RedirectAll(rec, AddAll(rec, st)),
            Redirecting(rec, Adding(rec, E, Len(rec.adds)), Len(rec.dvs)))
  BY <1>2, RedirectAllShows DEF Orderly
<1>4. Shows(RetireAll(rec, RedirectAll(rec, AddAll(rec, st))), Published(rec, E))
  BY <1>3, RetireAllShows DEF Orderly, Published
<1> QED BY <1>4, RecordInThree

LEMMA EntriesNext ==
    ASSUME NEW I \in SUBSET (DOMAIN records), IsSequence(records), NEW i \in DOMAIN records,
           \A j \in I : j < i, Orderly(records[i])
    PROVE  EntriesIn(I \cup {i}) = Published(records[i], EntriesIn(I))
<1> DEFINE rec == records[i]
           E == EntriesIn(I)
           J == I \cup {i}
           A == Adding(rec, E, Len(rec.adds))
           R == Redirecting(rec, A, Len(rec.dvs))
           F == Published(rec, E)
           Added == UpTo(rec.adds, Len(rec.adds))
           Gone == UpTo(rec.removes, Len(rec.removes))
<1>1. i # 0
  BY SequenceLength
<1>2. \A p : Adds(i, p) <=> p \in Added
  BY SequenceLength DEF Adds, Orderly, UpTo
<1>3. \A p : Removes(i, p) <=> p \in Gone
  BY SequenceLength DEF Removes, Orderly, UpTo
<1>4. \A p : Redirects(i, p) = RedirectsOf(rec, p, Len(rec.dvs))
  BY SequenceLength DEF Redirects, Orderly, RedirectsOf
<1>5. Added \subseteq Paths
  BY UpToAll DEF Orderly
<1>6. /\ DOMAIN E = {q \in Paths : AddedIn(q, I) # 0} /\ \A q \in DOMAIN E : E[q] = EntryIn(q, I)
      /\ EntriesIn(J) = [p \in {q \in Paths : AddedIn(q, J) # 0} |-> EntryIn(p, J)]
  BY DEF EntriesIn
<1> HIDE DEF E, J
<1>7. /\ DOMAIN A = DOMAIN E \cup Added
      /\ \A q \in DOMAIN A : A[q] = IF q \in Added THEN Entry(q, rec.commitTs, NoDV, 0) ELSE E[q]
  BY DEF Adding
<1> HIDE DEF A
<1>8. /\ DOMAIN R = DOMAIN A
      /\ \A q \in DOMAIN R : R[q] = IF Redirects(i, q) = {} THEN A[q]
                                    ELSE Entry(q, A[q].commitTs, rec.dvs[SetMax(Redirects(i, q))].dv, rec.commitTs)
  BY <1>4 DEF Redirecting
<1> HIDE DEF R
<1>9. F = [q \in DOMAIN R \ Gone |-> R[q]]
  BY DEF Published, Retiring, R, A
<1> HIDE DEF Added, Gone, rec
<1>10. ASSUME NEW q \in Paths
       PROVE  AddedIn(q, J) # 0 <=> q \in DOMAIN R \ Gone
  <2>1. AddedIn(q, J) = IF Removes(i, q) THEN 0 ELSE IF Adds(i, q) THEN i ELSE AddedIn(q, I)
    BY AddedNext DEF J
  <2> QED BY <1>1, <1>2, <1>3, <1>6, <1>7, <1>8, <2>1
<1>11. DOMAIN R \ Gone = {q \in Paths : AddedIn(q, J) # 0}
  <2>1. DOMAIN R \subseteq Paths
    BY <1>5, <1>6, <1>7, <1>8
  <2> QED BY <1>10, <2>1
<1>12. ASSUME NEW q \in DOMAIN R \ Gone
       PROVE  R[q] = EntryIn(q, J)
  <2> DEFINE base == IF Adds(i, q) THEN Entry(q, rec.commitTs, NoDV, 0) ELSE EntryIn(q, I)
  <2>1. A[q] = base
    BY <1>2, <1>6, <1>7, <1>8
  <2>2. EntryIn(q, J) = IF Redirects(i, q) = {} THEN base
                        ELSE Entry(q, base.commitTs, rec.dvs[SetMax(Redirects(i, q))].dv, rec.commitTs)
    <3>1. ~Removes(i, q)
      BY <1>3
    <3> QED BY <3>1, EntryNext DEF J, rec
  <2> HIDE DEF base
  <2> QED BY <1>8, <2>1, <2>2
<1>13. EntriesIn(J) = F
  BY <1>6, <1>9, <1>11, <1>12
<1> QED BY <1>13 DEF J, F, E, rec

Stamped == \A i \in DOMAIN records : records[i].version = i

\* What a record adds is not live in the records before it.
LEMMA AddedAfresh ==
    ASSUME IsSequence(records), Tidy(records), NEW k \in DOMAIN records
    PROVE  ToSet(records[k].adds) \cap DOMAIN EntriesIn(1..(k - 1)) = {}
<1> SUFFICES ASSUME NEW p \in ToSet(records[k].adds), AddedIn(p, 1..(k - 1)) # 0 PROVE FALSE
  BY DEF EntriesIn
<1> DEFINE I == 1..(k - 1)
           adding == {i \in I : Adds(i, p)}
           m == SetMax(adding)
<1>1. DOMAIN records = 1..Len(records) /\ Len(records) \in Nat /\ k \in Nat
  BY SequenceLength
<1>2. adding # {} /\ ~\E j \in I : j >= m /\ Removes(j, p)
  BY DEF AddedIn
<1>3. m \in adding
  <2>1. adding \in SUBSET (0..k)
    BY <1>1
  <2> HIDE DEF adding
  <2> QED BY <1>1, <1>2, <2>1, SetMaxOf
<1>4. m \in DOMAIN records /\ m < k /\ p \in ToSet(records[m].adds)
  <2>1. m \in I /\ Adds(m, p)
    BY <1>3
  <2> HIDE DEF m
  <2> QED BY <1>1, <2>1 DEF Adds, ToSet
<1> HIDE DEF m, adding
<1>5. PICK j \in m..(k - 1) : p \in ToSet(records[j].removes)
  BY <1>4 DEF Tidy
<1>6. j \in I /\ j >= m /\ Removes(j, p)
  BY <1>1, <1>4, <1>5 DEF Removes, ToSet
<1> QED BY <1>2, <1>6

LEMMA PassShows ==
    ASSUME IsSequence(records), Tidy(records), Stamped, NEW v \in Nat, NEW ts \in Nat
    PROVE  Shows(Pass(records, v, ts), EntriesIn(Within(v, ts)))
<1> DEFINE n == Len(records)
           Out(i) == Skipped(records[i], v, ts)
           I(k) == {i \in 1..k : ~Out(i)}
<1>1. PICK tr : Passing(tr, "record", View(v, ts), Start, records) /\ Pass(records, v, ts) = tr[n]
  BY RecordStates
<1>2. n \in Nat /\ DOMAIN records = 1..n
  BY SequenceLength
<1> DEFINE Bad == {k \in 0..n : ~Shows(tr[k], EntriesIn(I(k)))}
<1>3. 0 \notin Bad
  <2>1. I(0) = {}
    OBVIOUS
  <2>2. DOMAIN EntriesIn({}) = {} /\ EntriesIn({}) = [q \in DOMAIN EntriesIn({}) |-> EntriesIn({})[q]]
    BY DEF EntriesIn, AddedIn
  <2>3. <<>> \in [{} -> 1..0]
    OBVIOUS
  <2>4. Shows(Start, EntriesIn({}))
    BY <2>2, <2>3, EmptySequence DEF Shows, Start
  <2> QED BY <1>1, <2>1, <2>4 DEF Passing
<1>4. ASSUME NEW k \in 1..n, k - 1 \notin Bad PROVE k \notin Bad
  <2>1. k - 1 \in 0..n /\ k \in DOMAIN records /\ k \in Nat
    BY <1>2
  <2>2. Shows(tr[k - 1], EntriesIn(I(k - 1)))
    BY <1>4, <2>1
  <2>3. tr[k] = ApplyRecord(tr[k - 1], records[k], v, ts)
    BY <1>1 DEF Passing, Step, View
  <2>4. \A i : i \in 1..k <=> i \in 1..(k - 1) \/ i = k
    BY <2>1
  <2>5. CASE Out(k)
    <3>1. I(k) = I(k - 1)
      BY <2>4, <2>5
    <3>2. tr[k] = tr[k - 1]
      BY <2>3, <2>5 DEF ApplyRecord, Skipped
    <3> QED BY <2>2, <3>1, <3>2
  <2>6. CASE ~Out(k)
    <3>1. ASSUME NEW i \in 1..(k - 1) PROVE ~Out(i)
      <4>1. i \in DOMAIN records /\ i < k
        BY <1>2
      <4>2. records[i].version = i /\ records[k].version = k /\ records[i].commitTs < records[k].commitTs
        BY <2>1, <4>1 DEF Stamped, Tidy
      <4>3. records[i].commitTs \in Nat /\ records[k].commitTs \in Nat
        BY <2>1, <4>1 DEF Tidy
      <4>4. ~(k > v) /\ ~(records[k].commitTs > ts)
        BY <2>6, <4>2 DEF Skipped
      <4> QED BY <2>1, <4>1, <4>2, <4>3, <4>4 DEF Skipped
    <3>2. I(k - 1) = 1..(k - 1)
      BY <3>1
    <3>3. I(k) = 1..(k - 1) \cup {k}
      BY <2>4, <2>6, <3>1
    <3>4. Orderly(records[k])
      BY <2>1 DEF Tidy
    <3>5. 1..(k - 1) \in SUBSET (DOMAIN records) /\ \A j \in 1..(k - 1) : j < k
      BY <1>2
    <3>6. EntriesIn(I(k)) = Published(records[k], EntriesIn(I(k - 1)))
      BY <2>1, <3>2, <3>3, <3>4, <3>5, EntriesNext
    <3>7. ToSet(records[k].adds) \cap DOMAIN EntriesIn(I(k - 1)) = {}
      BY <2>1, <3>2, AddedAfresh
    <3> HIDE DEF I
    <3>8. Shows(tr[k], EntriesIn(I(k)))
      BY <2>2, <2>3, <2>6, <3>4, <3>6, <3>7, RecordShows
    <3> QED BY <3>8
  <2> QED BY <2>5, <2>6
<1>5. Bad = {}
  <2>1. Bad \in SUBSET (0..n)
    OBVIOUS
  <2> HIDE DEF Bad, n
  <2> QED BY <1>2, <1>3, <1>4, <2>1, NoneOf
<1>6. Within(v, ts) = I(n)
  <2>1. ASSUME NEW i \in 1..n
        PROVE  Included(i, v, ts) <=> ~Out(i)
    <3>1. records[i].version \in Nat /\ records[i].commitTs \in Nat
      BY <1>2 DEF Stamped, Tidy
    <3> QED BY <1>2, <3>1 DEF Included, Skipped
  <2> QED BY <1>2, <2>1 DEF Within
<1>7. n \in 0..n
  BY <1>2
<1> QED BY <1>1, <1>5, <1>6, <1>7

LEMMA ViewIsExpected ==
    ASSUME IsSequence(records), Tidy(records), Stamped, NEW v \in Nat, NEW ts \in Nat
    PROVE  LET view == Resolve(records, v, ts)
           IN  /\ ToSet(view) = ExpectedView(v, ts)
               /\ Len(view) = Cardinality(ToSet(view))
<1>1. Resolve(records, v, ts) = Squeezed(Pass(records, v, ts).out)
  BY DEF Resolve, Pass, Start
<1> QED BY <1>1, PassShows, ShownView, ExpectedIs

-----------------------------------------------------------------------------
(* The steps                                                                 *)

ViewsInv ==
    /\ StableInv /\ Tidy(records)
    /\ \A good : Kept(file, good) => Tidy(good)

LEMMA TidyPrefix ==
    ASSUME NEW s, Tidy(s), IsSequence(s), NEW a, IsSequence(a), Len(a) <= Len(s),
           \A i \in 1..Len(a) : a[i] = s[i]
    PROVE  Tidy(a)
<1>1. DOMAIN s = 1..Len(s) /\ DOMAIN a = 1..Len(a) /\ Len(s) \in Nat /\ Len(a) \in Nat
  BY SequenceLength
<1>2. \A i \in DOMAIN a : i \in DOMAIN s /\ a[i] = s[i]
  BY <1>1
<1>3. \A i \in DOMAIN a : Orderly(a[i]) /\ a[i].commitTs \in Nat
  BY <1>2 DEF Tidy
<1>4. \A i, j \in DOMAIN a : j < i => a[j].commitTs < a[i].commitTs
  BY <1>2 DEF Tidy
<1>5. ASSUME NEW i \in DOMAIN a, NEW j \in DOMAIN a, j < i, NEW p \in ToSet(a[i].adds) \cap ToSet(a[j].adds)
      PROVE  \E m \in j..(i - 1) : p \in ToSet(a[m].removes)
  <2>1. \E m \in j..(i - 1) : p \in ToSet(s[m].removes)
    BY <1>2, <1>5 DEF Tidy
  <2>2. \A m \in j..(i - 1) : m \in DOMAIN a
    BY <1>1
  <2> QED BY <1>2, <2>1, <2>2
<1> QED BY <1>3, <1>4, <1>5 DEF Tidy

LEMMA TidyAppended ==
    ASSUME NEW s, Tidy(s), IsSequence(s), NEW rec, Orderly(rec), rec.commitTs \in Nat,
           \A i \in DOMAIN s : s[i].commitTs < rec.commitTs,
           \A p \in ToSet(rec.adds), j \in DOMAIN s :
               p \in ToSet(s[j].adds) => \E m \in j..Len(s) : p \in ToSet(s[m].removes)
    PROVE  Tidy(Append(s, rec))
<1> DEFINE a == Append(s, rec)
           n == Len(s)
<1>1. /\ n \in Nat /\ DOMAIN s = 1..n /\ DOMAIN a = 1..(n + 1)
      /\ a[n + 1] = rec /\ \A i \in 1..n : a[i] = s[i]
  BY Appending, SequenceLength
<1> HIDE DEF a, n
<1>2. ASSUME NEW i \in DOMAIN a PROVE (i \in DOMAIN s /\ a[i] = s[i]) \/ (i = n + 1 /\ a[i] = rec)
  <2>1. i \in 1..n \/ i = n + 1
    BY <1>1
  <2> QED BY <1>1, <2>1
<1>3. \A i \in DOMAIN a : Orderly(a[i]) /\ a[i].commitTs \in Nat
  BY <1>2 DEF Tidy
<1>4. \A i, j \in DOMAIN a : j < i => j \in DOMAIN s
  BY <1>1
<1>5. \A i, j \in DOMAIN a : j < i => a[j].commitTs < a[i].commitTs
  BY <1>1, <1>2, <1>4 DEF Tidy
<1>6. ASSUME NEW i \in DOMAIN a, NEW j \in DOMAIN a, j < i, NEW p \in ToSet(a[i].adds) \cap ToSet(a[j].adds)
      PROVE  \E m \in j..(i - 1) : p \in ToSet(a[m].removes)
  <2>1. j \in DOMAIN s /\ a[j] = s[j]
    BY <1>1, <1>4, <1>6
  <2>2. ASSUME NEW m \in j..(i - 1) PROVE m \in DOMAIN s /\ a[m] = s[m]
    <3>1. i \in 1..(n + 1) /\ j \in 1..(n + 1)
      BY <1>1
    <3>2. m \in 1..n
      BY <1>1, <3>1
    <3> QED BY <1>1, <3>2
  <2>3. \E m \in j..(i - 1) : p \in ToSet(s[m].removes)
    <3>1. CASE i \in DOMAIN s
      <4>1. a[i] = s[i] /\ p \in ToSet(s[i].adds) \cap ToSet(s[j].adds)
        BY <1>1, <1>6, <2>1, <3>1
      <4>2. Tidy(s) /\ i \in DOMAIN s /\ j \in DOMAIN s /\ j < i
        BY <1>6, <2>1, <3>1
      <4> QED BY ONLY <4>1, <4>2 DEF Tidy
    <3>2. CASE i = n + 1
      <4>1. i - 1 = n /\ a[i] = rec
        BY <1>1, <3>2
      <4> QED BY <1>6, <2>1, <4>1 DEF n
    <3> QED BY <1>2, <3>1, <3>2
  <2> QED BY <2>2, <2>3
<1>7. Tidy(a)
  BY <1>3, <1>5, <1>6 DEF Tidy
<1> QED BY <1>7 DEF a

\* The current view is the one its records say, and lists paths only.
LEMMA LiveAre ==
    ASSUME ViewsInv
    PROVE  /\ ToSet(Snapshot) = ExpectedView(version, Infinity)
           /\ LivePaths \subseteq Paths
           /\ IsFiniteSet(LivePaths)
<1>1. /\ IsSequence(records) /\ Len(records) \in Nat
      /\ Tidy(records) /\ Stamped /\ version = Len(records)
  BY SequenceLength DEF ViewsInv, StableInv, VersionsInv, FileInv, VersionsConsecutive, Stamped
<1>2. Infinity \in Nat
  BY BoundsAssumption DEF Infinity
<1> HIDE DEF Infinity
<1>3. ToSet(Snapshot) = ExpectedView(version, Infinity)
  BY <1>1, <1>2, ViewIsExpected DEF Snapshot
<1>4. ASSUME NEW e \in ToSet(Snapshot) PROVE e.path \in Paths
  <2> DEFINE I == Within(version, Infinity)
  <2>1. PICK p \in DOMAIN EntriesIn(I) : e = EntriesIn(I)[p]
    BY <1>3, <1>4, ExpectedIs
  <2> HIDE DEF I
  <2>2. p \in Paths /\ e = EntryIn(p, I)
    BY <2>1 DEF EntriesIn
  <2> QED BY <2>2, EntryFields DEF EntryIn
<1>5. LivePaths \subseteq Paths
  BY <1>4 DEF LivePaths, ToSet
<1> QED BY <1>3, <1>5, PathsAssumption, FS_Subset

\* A path that is not in the snapshot was removed after each of its additions.
LEMMA NotLive ==
    ASSUME ViewsInv, handle = "open", NEW p \in Paths \ LivePaths,
           NEW j \in DOMAIN records, p \in ToSet(records[j].adds)
    PROVE  \E m \in j..Len(records) : p \in ToSet(records[m].removes)
<1> DEFINE W == Within(version, Infinity)
           adding == {i \in W : Adds(i, p)}
<1>1. /\ IsSequence(records) /\ Len(records) \in Nat /\ DOMAIN records = 1..Len(records)
      /\ Tidy(records) /\ Stamped /\ version = Len(records) /\ records = file
  BY SequenceLength DEF ViewsInv, StableInv, VersionsInv, FileInv, VersionsConsecutive, Stamped
<1>2. /\ Infinity \in Nat /\ commitTs \in Nat /\ commitTs <= Infinity
      /\ \A i \in DOMAIN records : records[i].commitTs \in 1..commitTs
  BY <1>1, BoundsAssumption DEF ViewsInv, StableInv, Counted, Honours, Infinity
<1> HIDE DEF Infinity
<1>3. W = DOMAIN records
  <2>1. \A i \in DOMAIN records : records[i].version <= version /\ records[i].commitTs <= Infinity
    BY <1>1, <1>2 DEF Stamped
  <2> QED BY <2>1 DEF Within, Included
<1>4. ToSet(Snapshot) = ExpectedView(version, Infinity)
  BY LiveAre
<1>5. AddedIn(p, W) = 0
  <2> SUFFICES ASSUME AddedIn(p, W) # 0 PROVE FALSE
    OBVIOUS
  <2>1. EntryIn(p, W) \in ToSet(Snapshot)
    BY <1>4, ExpectedIs DEF EntriesIn
  <2>2. EntryIn(p, W).path = p
    BY EntryFields DEF EntryIn
  <2> HIDE DEF W
  <2> QED BY <2>1, <2>2 DEF LivePaths, ToSet
<1>6. j \in adding
  BY <1>1, <1>3 DEF Adds, ToSet
<1>7. SetMax(adding) \in adding /\ j <= SetMax(adding)
  <2>1. adding \in SUBSET (0..Len(records))
    BY <1>1, <1>3
  <2> HIDE DEF adding
  <2> QED BY <1>1, <1>6, <2>1, SetMaxOf
<1>8. \E i \in W : i >= SetMax(adding) /\ Removes(i, p)
  <2>1. SetMax(adding) # 0
    BY <1>1, <1>3, <1>7
  <2> QED BY <1>5, <1>6, <2>1 DEF AddedIn
<1>9. PICK i \in DOMAIN records : i >= SetMax(adding) /\ Removes(i, p)
  BY <1>3, <1>8
<1>10. i \in j..Len(records) /\ p \in ToSet(records[i].removes)
  <2>1. SetMax(adding) \in Nat
    BY <1>1, <1>3, <1>7
  <2> HIDE DEF adding
  <2> QED BY <1>1, <1>7, <1>9, <2>1 DEF Removes, ToSet
<1> QED BY <1>10

LEMMA InitViews == ASSUME Init PROVE ViewsInv
<1>1. StableInv
  BY InitStable
<1>2. Tidy(<<>>)
  BY EmptySequence DEF Tidy
<1>3. ASSUME NEW good, Kept(<<>>, good) PROVE Tidy(good)
  <2>1. IsSequence(good) /\ Len(good) \in Nat /\ Len(good) <= 0 /\ DOMAIN good = 1..Len(good)
    BY <1>3, EmptySequence, SequenceLength DEF Kept
  <2> QED BY <1>2, <2>1, EmptySequence, TidyPrefix
<1> QED BY <1>1, <1>2, <1>3 DEF Init, ViewsInv

\* A record adds segments, redirects them or removes them in some order, and
\* adds none that is live.
Sound(adds, dvs, removes) ==
    /\ IsSequence(adds) /\ IsSequence(dvs) /\ IsSequence(removes)
    /\ Distinct(adds) /\ ToSet(adds) \subseteq Paths \ LivePaths

LEMMA AppendRecordViews ==
    ASSUME ViewsInv, NEW adds, NEW dvs, NEW removes, Sound(adds, dvs, removes),
           AppendRecord(adds, dvs, removes), StableInv'
    PROVE  ViewsInv'
<1> DEFINE rec == Record(version + 1, commitTs + 1, adds, dvs, removes)
           longer == Append(records, rec)
<1>1. /\ handle = "open" /\ records = file /\ IsSequence(records)
      /\ Len(records) \in Nat /\ DOMAIN records = 1..Len(records)
      /\ Tidy(records)
      /\ commitTs \in Nat /\ \A i \in DOMAIN records : records[i].commitTs \in 1..commitTs
  BY SequenceLength DEF AppendRecord, ViewsInv, StableInv, VersionsInv, FileInv, Counted, Honours
<1>2. Appended(rec) \/ RolledBack(rec) \/ Poisoned(rec) \/ CrashIn(rec)
  BY DEF AppendRecord
<1>3. Orderly(rec) /\ rec.commitTs = commitTs + 1 /\ rec.adds = adds
  BY DEF Orderly, Record, Sound
<1> HIDE DEF rec
<1>4. Tidy(longer)
  <2>1. ASSUME NEW p \in ToSet(rec.adds), NEW j \in DOMAIN records, p \in ToSet(records[j].adds)
        PROVE  \E m \in j..Len(records) : p \in ToSet(records[m].removes)
    <3>1. p \in Paths \ LivePaths
      BY <1>3 DEF Sound
    <3> QED BY <1>1, <2>1, <3>1, NotLive
  <2>2. rec.commitTs \in Nat /\ \A i \in DOMAIN records : records[i].commitTs < rec.commitTs
    BY <1>1, <1>3
  <2> QED BY <1>1, <1>3, <2>1, <2>2, TidyAppended
<1>5. /\ IsSequence(longer) /\ Len(longer) = Len(records) + 1
      /\ \A i \in 1..Len(records) : longer[i] = records[i]
  BY <1>1, Appending
<1> HIDE DEF longer
<1>6. \A good : Kept(records, good) => Tidy(good)
  BY <1>1, TidyPrefix DEF Kept
<1>7. \A good : Kept(longer, good) => Tidy(good)
  BY <1>4, <1>5, TidyPrefix DEF Kept
<1>8. ASSUME NEW good, Kept(Append(records, Torn), good) PROVE Tidy(good)
  <2> DEFINE torn == Append(records, Torn)
             n == Len(records)
  <2>1. Len(torn) = n + 1 /\ torn[n + 1] = Torn /\ \A i \in 1..n : torn[i] = records[i]
    BY <1>1, Appending
  <2>2. IsSequence(good) /\ Len(good) \in Nat /\ Len(good) <= n + 1
        /\ \A i \in 1..Len(good) : good[i] = torn[i] /\ torn[i] # Torn
    BY <1>8, <2>1, SequenceLength DEF Kept
  <2> HIDE DEF torn, n
  <2>3. n \in Nat
    BY <1>1 DEF n
  <2>4. ~(n + 1 \in 1..Len(good))
    BY <2>1, <2>2
  <2>5. Len(good) <= n
    BY <2>2, <2>3, <2>4
  <2>6. \A i \in 1..Len(good) : good[i] = records[i]
    BY <2>1, <2>2, <2>3, <2>5
  <2> QED BY <1>1, <2>2, <2>5, <2>6, TidyPrefix DEF n
<1>9. ASSUME NEW e PROVE records \o <<e>> = Append(records, e)
  <2> DEFINE S == {records[i] : i \in DOMAIN records} \cup {e}
  <2>1. records \in Seq(S) /\ e \in S
    BY <1>1 DEF IsSequence
  <2> HIDE DEF S
  <2> QED BY <2>1
<1>10. CASE Appended(rec)
  BY <1>1, <1>4, <1>7, <1>10 DEF Appended, ViewsInv, longer
<1>11. CASE RolledBack(rec)
  BY <1>1, <1>6, <1>11 DEF RolledBack, ViewsInv
<1>12. CASE Poisoned(rec) \/ CrashIn(rec)
  <2>1. PICK rest \in {<<>>, <<Torn>>, <<rec>>} : file' = records \o rest
    BY <1>1, <1>12 DEF Poisoned, CrashIn
  <2>2. records \o <<>> = records
    BY <1>1 DEF IsSequence
  <2>3. \A good : Kept(file', good) => Tidy(good)
    BY <1>6, <1>7, <1>8, <1>9, <2>1, <2>2 DEF longer
  <2>4. Tidy(records')
    <3>1. records' = records \/ records' = <<>>
      BY <1>12 DEF Poisoned, CrashIn
    <3>2. Tidy(<<>>)
      BY EmptySequence DEF Tidy
    <3> QED BY <1>1, <3>1, <3>2
  <2> QED BY <2>3, <2>4 DEF ViewsInv
<1> QED BY <1>2, <1>10, <1>11, <1>12

LEMMA NextViews == ASSUME ViewsInv, [Next]_vars PROVE ViewsInv'
<1>1. StableInv'
  BY NextStable DEF ViewsInv
<1>2. ASSUME NEW adds \in SetToAllKPermutations(Paths \ LivePaths),
             NEW dvs \in BoundedSeq([seg : LivePaths, dv : DVPaths], 2), Commit(adds, dvs)
      PROVE  ViewsInv'
  <2>1. PICK S \in SUBSET (Paths \ LivePaths) :
            /\ adds \in [1..Cardinality(S) -> S]
            /\ \A i, j \in 1..Cardinality(S) : i # j => adds[i] # adds[j]
    BY DEF SetToAllKPermutations, SetToSeqs
  <2>2. Cardinality(S) \in Nat
    BY <2>1, PathsAssumption, FS_Subset, FS_CardinalityType
  <2>3. adds \in Seq(S) /\ DOMAIN adds = 1..Cardinality(S)
    BY <2>1, <2>2
  <2>4. IsSequence(adds) /\ Distinct(adds) /\ ToSet(adds) \subseteq Paths \ LivePaths
    BY <2>1, <2>3, AnySequence DEF Distinct, ToSet
  <2>5. IsSequence(dvs)
    <3> DEFINE X == [seg : LivePaths, dv : DVPaths]
    <3>1. PICK m \in 0..2 : dvs \in [1..m -> X]
      BY DEF BoundedSeq, SeqOf
    <3> HIDE DEF X
    <3>2. m \in Nat
      OBVIOUS
    <3>3. dvs \in Seq(X)
      BY <3>1, <3>2
    <3> QED BY <3>3, AnySequence
  <2>6. Sound(adds, dvs, <<>>)
    BY <2>4, <2>5, EmptySequence DEF Sound
  <2> QED BY <1>1, <1>2, <2>6, AppendRecordViews DEF Commit
<1>3. ASSUME NEW gone \in SUBSET LivePaths, Retire(SetToSeq(gone)) PROVE ViewsInv'
  <2>1. IsFiniteSet(gone)
    BY LiveAre, FS_Subset
  <2>2. Sound(<<>>, <<>>, SetToSeq(gone))
    BY <2>1, ListedSet, EmptySequence DEF Sound, Lists, Distinct, ToSet
  <2> QED BY <1>1, <1>3, <2>2, AppendRecordViews DEF Retire
<1>4. CASE Close
  BY <1>1, <1>4, EmptySequence DEF Close, ViewsInv, Tidy
<1>5. CASE Load
  <2>1. Kept(file, file') /\ records' = file'
    BY <1>5, LoadKeeps DEF Load, ViewsInv, StableInv
  <2>2. Tidy(file')
    BY <2>1 DEF ViewsInv
  <2>3. ASSUME NEW good, Kept(file', good) PROVE Tidy(good)
    BY <2>1, <2>2, <2>3, TidyPrefix DEF Kept
  <2> QED BY <1>1, <2>1, <2>2, <2>3 DEF ViewsInv
<1>6. CASE UNCHANGED vars
  BY <1>1, <1>6 DEF vars, ViewsInv
<1> QED BY <1>2, <1>3, <1>4, <1>5, <1>6 DEF Next

\* At every version and timestamp (resolveLockedFiltered), for any paths and
\* bounds, the one pass over the records with its index, blanked entries and
\* deletion vectors patched in place yields each segment that is live there
\* once, with the last deletion vector a record gave it.
THEOREM ViewsAreExact == Spec => []ViewsAgree
<1>1. Init => ViewsInv
  BY InitViews
<1>2. ViewsInv /\ [Next]_vars => ViewsInv'
  BY NextViews
<1>3. ViewsInv => ViewsAgree
  <2> SUFFICES ASSUME ViewsInv, NEW v \in 0..version, NEW ts \in 0..commitTs
               PROVE  LET view == Resolve(records, v, ts)
                      IN  /\ ToSet(view) = ExpectedView(v, ts)
                          /\ Len(view) = Cardinality(ToSet(view))
    BY DEF ViewsAgree
  <2>1. IsSequence(records) /\ Tidy(records) /\ Stamped
    BY DEF ViewsInv, StableInv, VersionsInv, FileInv, VersionsConsecutive, Stamped
  <2>2. v \in Nat /\ ts \in Nat
    OBVIOUS
  <2> QED BY <2>1, <2>2, ViewIsExpected
<1> QED BY <1>1, <1>2, <1>3, PTL DEF Spec

\* A closed manifest knows no records, and no manifest more than the bound.
HandleOK ==
    /\ handle \in {"open", "poisoned", "closed"}
    /\ handle = "closed" => records = <<>>
    /\ Len(records) <= MaxRecords

\* Every variable of a manifest stays in its type, for any paths and bounds:
\* the records known carry timestamps the engine's counter has reached, and
\* the live view names segments only.
THEOREM ManifestTypes == Spec => []TypeOK
<1>1. Init => ViewsInv /\ HandleOK
  BY InitViews, EmptySequence, BoundsAssumption DEF Init, HandleOK
<1>2. ViewsInv /\ HandleOK /\ [Next]_vars => (ViewsInv /\ HandleOK)'
  <2>1. ASSUME HandleOK, NEW adds, NEW dvs, NEW removes, AppendRecord(adds, dvs, removes)
        PROVE  /\ handle' \in {"open", "poisoned", "closed"}
               /\ handle' = "closed" => records' = <<>>
               /\ handle' = "open" \/ records' = records \/ records' = <<>>
    <3>1. PICK rec : Appended(rec) \/ RolledBack(rec) \/ Poisoned(rec) \/ CrashIn(rec)
      BY <2>1 DEF AppendRecord
    <3> QED BY <2>1, <3>1 DEF AppendRecord, Appended, RolledBack, Poisoned, CrashIn, HandleOK
  <2>2. ASSUME HandleOK, [Next]_vars
        PROVE  /\ handle' \in {"open", "poisoned", "closed"}
               /\ handle' = "closed" => records' = <<>>
               /\ handle' = "open" \/ records' = records \/ records' = <<>>
    BY <2>1, <2>2 DEF Next, vars, Commit, Retire, Close, Load, HandleOK
  <2>3. ASSUME ViewsInv' PROVE handle' = "open" => Len(records') <= MaxRecords
    BY <2>3 DEF ViewsInv, StableInv, VersionsInv, FileInv, Counted
  <2>4. Len(<<>>) <= MaxRecords
    BY BoundsAssumption, EmptySequence
  <2> QED BY <2>2, <2>3, <2>4, NextViews DEF HandleOK
<1>3. ViewsInv /\ HandleOK => TypeOK
  <2> SUFFICES ASSUME ViewsInv, HandleOK PROVE TypeOK
    OBVIOUS
  <2>1. \A i \in DOMAIN records : records[i].commitTs \in 1..commitTs
    BY EmptySequence DEF ViewsInv, StableInv, HandleOK, Honours
  <2>2. version \in 0..MaxRecords
    <3>1. IsSequence(records) /\ Len(records) \in Nat /\ version = Len(records)
      BY SequenceLength DEF ViewsInv, StableInv, VersionsInv, FileInv, VersionsConsecutive
    <3> QED BY <3>1, BoundsAssumption DEF HandleOK
  <2> QED BY <2>1, <2>2, LiveAre DEF TypeOK, ViewsInv, StableInv, Counted, HandleOK
<1> QED BY <1>1, <1>2, <1>3, PTL DEF Spec
=============================================================================
