-------------------------- MODULE TimeTravelProofs --------------------------
(***************************************************************************)
(* What a timestamp reads, for any number of commits, rows and restarts:   *)
(* back to the horizon of the cleanups the rows the table had then, each   *)
(* from one segment, whatever is compacted, cached, vacuumed, retired or   *)
(* written under a path used before.                                       *)
(***************************************************************************)
EXTENDS TimeTravel, SequenceFacts

-----------------------------------------------------------------------------
(* The view of a timestamp, record by record. FoldLeft recurs over sets of   *)
(* positions, from the highest down.                                         *)

Publishes(v, r, ts) == IF r.ts <= ts THEN PublishRecord(v, r) ELSE v

ViewIn(recs, ts) == FoldLeft(LAMBDA v, r : IF r.ts <= ts THEN PublishRecord(v, r) ELSE v, <<>>, recs)

\* What FoldLeft makes of the records at a set of positions.
Folded(g, recs, ts, positions) ==
    g = [s \in SUBSET positions |->
            IF s = {} THEN <<>> ELSE Publishes(g[s \ {Max(s)}], recs[Max(s)], ts)]

LEMMA FoldedExists ==
    ASSUME NEW recs, NEW ts, NEW n \in Nat
    PROVE  \E g : Folded(g, recs, ts, 1..n)
<1> DEFINE Lacking == {k \in Nat : ~ \E g : Folded(g, recs, ts, 1..k)}
<1>1. 0 \notin Lacking
  <2> DEFINE g == [s \in SUBSET (1..0) |-> <<>>]
  <2>1. \A s \in SUBSET (1..0) : s = {}
    OBVIOUS
  <2>2. g = [s \in SUBSET (1..0) |->
               IF s = {} THEN <<>> ELSE Publishes(g[s \ {Max(s)}], recs[Max(s)], ts)]
    BY <2>1
  <2> QED BY <2>2 DEF Folded
<1>2. ASSUME NEW k \in Nat, k \notin Lacking PROVE k + 1 \notin Lacking
  <2>1. PICK g : Folded(g, recs, ts, 1..k)
    BY <1>2
  <2> DEFINE Apply(st, i) == Publishes(st, recs[i], ts)
             h == [s \in SUBSET (1..(k + 1)) |-> IF k + 1 \in s THEN Apply(g[s \ {k + 1}], k + 1) ELSE g[s]]
  <2>2. \A s \in SUBSET (1..k) : h[s] = g[s]
    BY <1>2
  <2>3. ASSUME NEW s \in SUBSET (1..(k + 1))
        PROVE  h[s] = IF s = {} THEN <<>> ELSE Apply(h[s \ {Max(s)}], Max(s))
    <3>1. CASE k + 1 \in s
      <4>1. Max(s) = k + 1
        <5>1. s \subseteq Nat /\ \A j \in s : j <= k + 1
          BY <1>2
        <5> QED BY <3>1, <5>1, MaxIs
      <4>2. s \ {k + 1} \in SUBSET (1..k)
        BY <1>2
      <4>3. h[s] = Apply(g[s \ {k + 1}], k + 1)
        BY <3>1
      <4> HIDE DEF h, Apply
      <4> QED BY <2>2, <3>1, <4>1, <4>2, <4>3
    <3>2. CASE k + 1 \notin s
      <4>1. \A i \in s : i \in 1..k
        BY <1>2, <3>2
      <4>2. s \in SUBSET (1..k) /\ s \ {Max(s)} \in SUBSET (1..k)
        BY <4>1
      <4>3. g[s] = IF s = {} THEN <<>> ELSE Apply(g[s \ {Max(s)}], Max(s))
        BY <2>1, <4>2 DEF Folded
      <4> HIDE DEF h, Apply
      <4> QED BY <2>2, <4>2, <4>3
    <3> QED BY <3>1, <3>2
  <2>4. h = [s \in SUBSET (1..(k + 1)) |-> h[s]]
    OBVIOUS
  <2> HIDE DEF h
  <2>5. Folded(h, recs, ts, 1..(k + 1))
    BY <2>3, <2>4 DEF Folded
  <2> QED BY <2>5
<1> HIDE DEF Lacking
<1>3. Lacking = {}
  <2> SUFFICES ASSUME Lacking # {} PROVE FALSE
    OBVIOUS
  <2>1. Lacking \subseteq Nat
    BY DEF Lacking
  <2>2. PICK i \in Lacking : \A j \in Lacking : i <= j
    BY <2>1, LeastOfSome
  <2>3. i \in Nat /\ i # 0 /\ i - 1 \in Nat /\ i - 1 \notin Lacking
    BY <1>1, <2>1, <2>2
  <2> QED BY <1>2, <2>2, <2>3
<1> QED BY <1>3 DEF Lacking

\* The states the pass goes through.
Passing(tr, recs, ts) ==
    /\ tr[0] = <<>>
    /\ \A i \in 1..Len(recs) : tr[i] = Publishes(tr[i - 1], recs[i], ts)

LEMMA ViewStates ==
    ASSUME NEW recs, IsSequence(recs), NEW ts
    PROVE  \E tr : Passing(tr, recs, ts) /\ ViewIn(recs, ts) = tr[Len(recs)]
<1> DEFINE n == Len(recs)
           iter == CHOOSE g : Folded(g, recs, ts, 1..n)
           tr == [i \in 0..n |-> iter[1..i]]
<1>1. n \in Nat /\ DOMAIN recs = 1..n
  BY SequenceLength
<1>2. Folded(iter, recs, ts, 1..n)
  BY <1>1, FoldedExists
<1>3. ViewIn(recs, ts) = iter[1..n]
  BY <1>1 DEF ViewIn, Publishes, FoldLeft, MapThenFoldSet, Folded
<1> HIDE DEF iter
<1>4. tr[0] = <<>>
  <2>1. 1..0 = {} /\ {} \in SUBSET (1..n)
    OBVIOUS
  <2> QED BY <1>1, <1>2, <2>1 DEF Folded
<1>5. ASSUME NEW i \in 1..n
      PROVE  tr[i] = Publishes(tr[i - 1], recs[i], ts)
  <2>1. 1..i \in SUBSET (1..n) /\ 1..i # {} /\ (1..i) \ {i} = 1..(i - 1)
    <3>1. \A j \in 1..i : j \in 1..n
      BY <1>1
    <3>2. \A j : j \in (1..i) \ {i} <=> j \in 1..(i - 1)
      BY <1>1
    <3>3. i \in 1..i
      BY <1>1
    <3> QED BY <3>1, <3>2, <3>3
  <2>2. Max(1..i) = i
    <3>1. 1..i \subseteq Nat /\ i \in 1..i /\ \A j \in 1..i : j <= i
      BY <1>1
    <3> QED BY <3>1, MaxIs
  <2>3. iter[1..i] = Publishes(iter[1..(i - 1)], recs[i], ts)
    BY <1>2, <2>1, <2>2 DEF Folded
  <2>4. i \in 0..n /\ i - 1 \in 0..n
    BY <1>1
  <2> QED BY <2>3, <2>4
<1>6. n \in 0..n
  BY <1>1
<1>7. ViewIn(recs, ts) = tr[n]
  BY <1>3, <1>6
<1>8. Passing(tr, recs, ts)
  BY <1>4, <1>5 DEF Passing
<1> HIDE DEF tr
<1> QED BY <1>7, <1>8

\* Two runs of records agree as long as their records do and count alike.
LEMMA SameStates ==
    ASSUME NEW a, NEW b, IsSequence(a), IsSequence(b), Len(a) <= Len(b), NEW ts, NEW us,
           \A i \in 1..Len(a) : b[i] = a[i] /\ (a[i].ts <= ts <=> a[i].ts <= us),
           NEW ta, NEW tb, Passing(ta, a, ts), Passing(tb, b, us)
    PROVE  tb[Len(a)] = ta[Len(a)]
<1> DEFINE m == Len(a)
           Differ == {i \in 0..m : tb[i] # ta[i]}
<1>1. m \in Nat /\ Len(b) \in Nat
  BY SequenceLength
<1>2. Differ = {}
  <2> SUFFICES ASSUME Differ # {} PROVE FALSE
    OBVIOUS
  <2>1. Differ \subseteq Nat
    BY <1>1
  <2>2. PICK i \in Differ : \A j \in Differ : i <= j
    <3> HIDE DEF Differ
    <3> QED BY <2>1, LeastOfSome
  <2>3. i \in 0..m /\ tb[i] # ta[i]
    OBVIOUS
  <2>4. i # 0
    BY <2>3 DEF Passing
  <2>5. i \in 1..m /\ i \in 1..Len(b) /\ i - 1 \in 0..m /\ ~(i <= i - 1)
    BY <1>1, <2>3, <2>4
  <2>6. tb[i - 1] = ta[i - 1]
    BY <2>2, <2>5
  <2>7. tb[i] = Publishes(tb[i - 1], b[i], us) /\ ta[i] = Publishes(ta[i - 1], a[i], ts)
    BY <2>5 DEF Passing
  <2>8. b[i] = a[i] /\ (a[i].ts <= ts <=> a[i].ts <= us)
    BY <2>5
  <2> QED BY <2>3, <2>6, <2>7, <2>8 DEF Publishes
<1>3. m \in 0..m
  BY <1>1
<1> QED BY <1>2, <1>3

\* A timestamp at which the same records count has the same view.
LEMMA SameView ==
    ASSUME NEW recs, IsSequence(recs), NEW ts, NEW us, \A i \in DOMAIN recs : recs[i].ts <= ts <=> recs[i].ts <= us
    PROVE  ViewIn(recs, ts) = ViewIn(recs, us)
<1>1. PICK ta : Passing(ta, recs, ts) /\ ViewIn(recs, ts) = ta[Len(recs)]
  BY ViewStates
<1>2. PICK tb : Passing(tb, recs, us) /\ ViewIn(recs, us) = tb[Len(recs)]
  BY ViewStates
<1>3. Len(recs) \in Nat /\ DOMAIN recs = 1..Len(recs) /\ Len(recs) <= Len(recs)
  BY SequenceLength
<1>4. \A i \in 1..Len(recs) : recs[i] = recs[i] /\ (recs[i].ts <= ts <=> recs[i].ts <= us)
  BY <1>3
<1>5. tb[Len(recs)] = ta[Len(recs)]
  BY <1>1, <1>2, <1>3, <1>4, SameStates
<1> QED BY <1>1, <1>2, <1>5

\* More has one record more.
Extends(more, recs, r) ==
    /\ IsSequence(more) /\ Len(more) = Len(recs) + 1
    /\ \A i \in DOMAIN recs : more[i] = recs[i]
    /\ more[Len(recs) + 1] = r

LEMMA AppendedRecord ==
    ASSUME NEW recs, NEW r, IsSequence(recs), NEW more, more = Append(recs, r)
    PROVE  Extends(more, recs, r)
<1> DEFINE S == {recs[i] : i \in DOMAIN recs} \cup {r}
<1>1. recs \in Seq(S) /\ r \in S
  BY DEF IsSequence
<1>2. more \in Seq(S)
  BY <1>1
<1>3. IsSequence(more)
  BY <1>2, AnySequence
<1> HIDE DEF S
<1> QED BY <1>1, <1>3, SequenceLength DEF Extends

RecordsAre(more, recs, r) ==
    /\ \A i \in DOMAIN recs : i \in DOMAIN more /\ more[i] = recs[i]
    /\ \A i \in DOMAIN more : i \in DOMAIN recs \/ more[i] = r
    /\ \E i \in DOMAIN more : more[i] = r

LEMMA ExtendedDomain ==
    ASSUME NEW recs, NEW r, IsSequence(recs), NEW more, Extends(more, recs, r)
    PROVE  RecordsAre(more, recs, r)
<1>1. Len(recs) \in Nat /\ DOMAIN recs = 1..Len(recs) /\ DOMAIN more = 1..(Len(recs) + 1)
  BY SequenceLength DEF Extends
<1>2. Len(recs) + 1 \in DOMAIN more /\ more[Len(recs) + 1] = r
  BY <1>1 DEF Extends
<1>3. \A i \in DOMAIN more : i \in DOMAIN recs \/ i = Len(recs) + 1
  BY <1>1
<1> QED BY <1>1, <1>2, <1>3 DEF Extends, RecordsAre

LEMMA ViewExtended ==
    ASSUME NEW recs, NEW r, IsSequence(recs), NEW more, Extends(more, recs, r), NEW ts
    PROVE  ViewIn(more, ts) = Publishes(ViewIn(recs, ts), r, ts)
<1> DEFINE n == Len(recs)
<1>1. /\ IsSequence(more) /\ Len(more) = n + 1 /\ more[n + 1] = r
      /\ \A i \in DOMAIN recs : more[i] = recs[i]
  BY DEF Extends
<1>2. n \in Nat /\ DOMAIN recs = 1..n
  BY SequenceLength
<1> HIDE DEF n
<1>3. PICK ta : Passing(ta, recs, ts) /\ ViewIn(recs, ts) = ta[n]
  BY ViewStates DEF n
<1>4. PICK tb : Passing(tb, more, ts) /\ ViewIn(more, ts) = tb[n + 1]
  BY <1>1, ViewStates
<1>5. tb[n] = ta[n]
  <2>1. Len(recs) <= Len(more)
    BY <1>1, <1>2 DEF n
  <2>2. \A i \in 1..Len(recs) : more[i] = recs[i] /\ (recs[i].ts <= ts <=> recs[i].ts <= ts)
    BY <1>1, <1>2 DEF n
  <2> QED BY <1>1, <1>3, <1>4, <2>1, <2>2, SameStates DEF n
<1>6. tb[n + 1] = Publishes(tb[n], r, ts)
  <2>1. n + 1 \in 1..Len(more) /\ (n + 1) - 1 = n
    BY <1>1, <1>2
  <2>2. tb[n + 1] = Publishes(tb[(n + 1) - 1], more[n + 1], ts)
    BY <1>4, <2>1 DEF Passing
  <2> QED BY <1>1, <2>1, <2>2
<1> QED BY <1>3, <1>4, <1>5, <1>6

-----------------------------------------------------------------------------
(* The entries of views *)

IsEntry(e) == e = [dv |-> e.dv, ts |-> e.ts, dvTs |-> e.dvTs]

\* What a record makes of a view, entry by entry.
PublishedAs(w, v, rec) ==
    /\ DOMAIN w = (DOMAIN v \cup rec.adds) \ rec.removes
    /\ \A s \in DOMAIN w : IsEntry(w[s])
    /\ \A s \in DOMAIN w : w[s].dv = IF s \in DOMAIN rec.marks THEN rec.marks[s]
                                     ELSE IF s \in rec.adds THEN NoMarks ELSE v[s].dv
    /\ \A s \in DOMAIN w : w[s].dvTs = IF s \in DOMAIN rec.marks THEN rec.ts
                                       ELSE IF s \in rec.adds THEN 0 ELSE v[s].dvTs
    /\ \A s \in DOMAIN w : w[s].ts = IF s \in rec.adds THEN rec.ts ELSE v[s].ts

LEMMA PublishedView ==
    ASSUME NEW v, NEW rec, \A s \in DOMAIN v : IsEntry(v[s]), NEW w, w = PublishRecord(v, rec)
    PROVE  PublishedAs(w, v, rec)
<1>1. w = [s \in (DOMAIN v \cup rec.adds) \ rec.removes |->
             LET e == IF s \in rec.adds THEN [dv |-> NoMarks, ts |-> rec.ts, dvTs |-> 0] ELSE v[s]
             IN  IF s \in DOMAIN rec.marks THEN [dv |-> rec.marks[s], ts |-> e.ts, dvTs |-> rec.ts] ELSE e]
  BY DEF PublishRecord
<1>2. ASSUME NEW s \in DOMAIN w
      PROVE  /\ IsEntry(w[s])
             /\ w[s].dv = IF s \in DOMAIN rec.marks THEN rec.marks[s]
                          ELSE IF s \in rec.adds THEN NoMarks ELSE v[s].dv
             /\ w[s].dvTs = IF s \in DOMAIN rec.marks THEN rec.ts
                            ELSE IF s \in rec.adds THEN 0 ELSE v[s].dvTs
             /\ w[s].ts = IF s \in rec.adds THEN rec.ts ELSE v[s].ts
  <2> DEFINE e == IF s \in rec.adds THEN [dv |-> NoMarks, ts |-> rec.ts, dvTs |-> 0] ELSE v[s]
  <2>1. /\ IsEntry(e) /\ e.dv = IF s \in rec.adds THEN NoMarks ELSE v[s].dv
        /\ e.ts = IF s \in rec.adds THEN rec.ts ELSE v[s].ts
        /\ e.dvTs = IF s \in rec.adds THEN 0 ELSE v[s].dvTs
    <3>1. CASE s \in rec.adds
      BY <3>1 DEF IsEntry
    <3>2. CASE s \notin rec.adds
      <4>1. s \in DOMAIN v
        BY <1>1, <3>2
      <4> QED BY <3>2, <4>1
    <3> QED BY <3>1, <3>2
  <2>2. w[s] = IF s \in DOMAIN rec.marks THEN [dv |-> rec.marks[s], ts |-> e.ts, dvTs |-> rec.ts] ELSE e
    BY <1>1
  <2> HIDE DEF e
  <2> QED BY <2>1, <2>2 DEF IsEntry
<1> QED BY <1>1, <1>2 DEF PublishedAs

\* The records of a manifest: the DVs they name are named for their timestamps.
RecordsOK(recs, now) ==
    /\ IsSequence(recs) /\ now \in Nat
    /\ \A i \in DOMAIN recs : /\ recs[i].ts \in 1..now
                              /\ \A s \in DOMAIN recs[i].marks : recs[i].marks[s] = <<s, recs[i].ts>>

\* A DV of a record.
MarkOf(recs, s, d) == \E i \in DOMAIN recs : d = <<s, recs[i].ts>>

EntriesOK(recs, v) == \A s \in DOMAIN v : /\ IsEntry(v[s]) /\ v[s].ts \in Nat /\ v[s].dvTs \in Nat
                                          /\ v[s].dv = NoMarks \/ MarkOf(recs, s, v[s].dv)

LEMMA ViewEntries ==
    ASSUME NEW recs, NEW now, RecordsOK(recs, now), NEW ts
    PROVE  EntriesOK(recs, ViewIn(recs, ts))
<1>1. PICK t : Passing(t, recs, ts) /\ ViewIn(recs, ts) = t[Len(recs)]
  BY ViewStates DEF RecordsOK
<1> DEFINE n == Len(recs)
           Wrong == {i \in 0..n : ~EntriesOK(recs, t[i])}
<1>2. n \in Nat /\ DOMAIN recs = 1..n
  BY SequenceLength DEF RecordsOK
<1>3. Wrong = {}
  <2> SUFFICES ASSUME Wrong # {} PROVE FALSE
    OBVIOUS
  <2>1. Wrong \subseteq Nat
    BY <1>2
  <2>2. PICK i \in Wrong : \A j \in Wrong : i <= j
    <3> HIDE DEF Wrong
    <3> QED BY <2>1, LeastOfSome
  <2>3. i \in 0..n /\ ~EntriesOK(recs, t[i])
    OBVIOUS
  <2>4. i # 0
    BY <1>1, <2>3 DEF Passing, EntriesOK
  <2>5. i \in 1..n /\ i - 1 \in 0..n /\ ~(i <= i - 1)
    BY <1>2, <2>3, <2>4
  <2>6. EntriesOK(recs, t[i - 1])
    BY <2>2, <2>5
  <2>7. t[i] = Publishes(t[i - 1], recs[i], ts)
    BY <1>1, <2>5 DEF Passing
  <2>8. t[i] = PublishRecord(t[i - 1], recs[i])
    BY <2>3, <2>6, <2>7 DEF Publishes
  <2> DEFINE v == t[i - 1]
             w == t[i]
             rec == recs[i]
  <2>9. \A s \in DOMAIN rec.marks : rec.marks[s] = <<s, rec.ts>>
    BY <1>2, <2>5 DEF RecordsOK
  <2>10. PublishedAs(w, v, rec)
    <3>1. \A s \in DOMAIN v : IsEntry(v[s])
      BY <2>6 DEF EntriesOK
    <3> HIDE DEF v, w, rec
    <3>2. w = PublishRecord(v, rec)
      BY <2>8 DEF v, w, rec
    <3> QED BY <3>1, <3>2, PublishedView
  <2>11. \A s \in DOMAIN w : w[s].dv = NoMarks \/ MarkOf(recs, s, w[s].dv)
    <3>1. \A s \in DOMAIN rec.marks : MarkOf(recs, s, rec.marks[s])
      BY <1>2, <2>5, <2>9 DEF MarkOf
    <3>2. \A s \in DOMAIN v : v[s].dv = NoMarks \/ MarkOf(recs, s, v[s].dv)
      BY <2>6 DEF EntriesOK
    <3> HIDE DEF v, w, rec
    <3> QED BY <2>10, <3>1, <3>2 DEF PublishedAs
  <2>12. \A s \in DOMAIN w : w[s].ts \in Nat /\ w[s].dvTs \in Nat
    <3>1. rec.ts \in Nat
      BY <1>2, <2>5 DEF RecordsOK
    <3>2. \A s \in DOMAIN v : v[s].ts \in Nat /\ v[s].dvTs \in Nat
      BY <2>6 DEF EntriesOK
    <3> HIDE DEF v, w, rec
    <3> QED BY <2>10, <3>1, <3>2 DEF PublishedAs
  <2>13. EntriesOK(recs, w)
    BY <2>10, <2>11, <2>12 DEF EntriesOK, PublishedAs
  <2> QED BY <2>3, <2>13
<1>4. n \in 0..n
  BY <1>2
<1> QED BY <1>1, <1>3, <1>4

\* An entry of a later snapshot that is not newer than ts is the one of ts.
EntryStays(v, w, ts, s) ==
    s \in DOMAIN v /\ s \in DOMAIN w /\ w[s].ts <= ts /\ w[s].dvTs <= ts => v[s].dv = w[s].dv

LEMMA OldEntryStays ==
    ASSUME NEW recs, NEW now, RecordsOK(recs, now), NEW ts \in Nat, ts <= now, NEW s
    PROVE  EntryStays(ViewIn(recs, ts), ViewIn(recs, now), ts, s)
<1>1. PICK a : Passing(a, recs, ts) /\ ViewIn(recs, ts) = a[Len(recs)]
  BY ViewStates DEF RecordsOK
<1>2. PICK b : Passing(b, recs, now) /\ ViewIn(recs, now) = b[Len(recs)]
  BY ViewStates DEF RecordsOK
<1> DEFINE n == Len(recs)
           Entries(v) == \A u \in DOMAIN v : IsEntry(v[u])
           Fine(i) == Entries(a[i]) /\ Entries(b[i]) /\ EntryStays(a[i], b[i], ts, s)
           Wrong == {i \in 0..n : ~Fine(i)}
<1>3. n \in Nat /\ DOMAIN recs = 1..n /\ now \in Nat /\ \A i \in 1..n : recs[i].ts \in Nat /\ recs[i].ts <= now
  BY SequenceLength DEF RecordsOK
<1>4. Wrong = {}
  <2> SUFFICES ASSUME Wrong # {} PROVE FALSE
    OBVIOUS
  <2>1. Wrong \subseteq Nat
    BY <1>3
  <2>2. PICK i \in Wrong : \A j \in Wrong : i <= j
    <3> HIDE DEF Wrong
    <3> QED BY <2>1, LeastOfSome
  <2>3. i \in 0..n /\ ~Fine(i)
    OBVIOUS
  <2>4. i # 0
    BY <1>1, <1>2, <2>3 DEF Passing, EntryStays
  <2>5. i \in 1..n /\ i - 1 \in 0..n /\ ~(i <= i - 1)
    BY <1>3, <2>3, <2>4
  <2>6. Fine(i - 1)
    BY <2>2, <2>5
  <2> DEFINE r == recs[i]
  <2>7. a[i] = Publishes(a[i - 1], r, ts) /\ b[i] = Publishes(b[i - 1], r, now) /\ r.ts \in Nat /\ r.ts <= now
    BY <1>1, <1>2, <1>3, <2>5 DEF Passing
  <2> HIDE DEF r
  <2>8. b[i] = PublishRecord(b[i - 1], r)
    BY <2>7 DEF Publishes
  <2>9. PublishedAs(b[i], b[i - 1], r)
    BY <2>6, <2>8, PublishedView
  <2>10. CASE r.ts <= ts
    <3>1. a[i] = PublishRecord(a[i - 1], r)
      BY <2>7, <2>10 DEF Publishes
    <3>2. PublishedAs(a[i], a[i - 1], r)
      BY <2>6, <3>1, PublishedView
    <3>3. EntryStays(a[i], b[i], ts, s)
      BY <2>6, <2>9, <3>2 DEF PublishedAs, EntryStays
    <3> QED BY <2>3, <2>9, <3>2, <3>3 DEF PublishedAs
  <2>11. CASE ~(r.ts <= ts)
    <3>1. a[i] = a[i - 1]
      BY <2>7, <2>11 DEF Publishes
    <3>2. EntryStays(a[i], b[i], ts, s)
      BY <2>6, <2>9, <2>11, <3>1 DEF PublishedAs, EntryStays
    <3> QED BY <2>3, <2>6, <2>9, <3>1, <3>2 DEF PublishedAs
  <2> QED BY <2>10, <2>11
<1>5. n \in 0..n
  BY <1>3
<1>6. Fine(n)
  BY <1>4, <1>5
<1> QED BY <1>1, <1>2, <1>6

-----------------------------------------------------------------------------
(* The invariant, of a state as one record: Compact goes through several     *)
(* such states, one per segment it rewrites.                                 *)

State == [m |-> manifest, segs |-> segments, dvs |-> dvFiles, cache |-> cache,
          count |-> segCount, now |-> nextCommitTs, from |-> cleaned,
          hist |-> history, ins |-> inserted]

Latest(x) == ViewIn(x.m, x.now)
DeadIn(x, dv) == IF dv \in DOMAIN x.dvs THEN x.dvs[dv] ELSE {}
LiveIn(x, v, s) == x.segs[s] \ DeadIn(x, v[s].dv)

\* What is left of the view of a timestamp once later records have retired segments.
RetiredIn(recs, ts) == UNION {recs[i].removes : i \in {j \in DOMAIN recs : recs[j].ts > ts}}
KeptIn(x, ts) == Removed(ViewIn(x.m, ts), RetiredIn(x.m, ts))

\* A view all of whose files are there, and whose rows are these.
Reads(x, v, rows) ==
    /\ DOMAIN v \subseteq DOMAIN x.segs
    /\ \A s \in DOMAIN v : v[s].dv = NoMarks \/ v[s].dv \in DOMAIN x.dvs
    /\ \A e : e \in rows <=> \E s \in DOMAIN v : e \in LiveIn(x, v, s)

\* An open handle has the rows of the file at its path. Its DV may be gone from
\* the disk, but is never another than the one at that path.
HandleOK(x, k) ==
    /\ k = <<k[1], k[2]>> /\ k[1] \in DOMAIN x.segs
    /\ x.cache[k].rows = x.segs[k[1]]
    /\ k[2] = NoMarks \/ MarkOf(x.m, k[1], k[2])
    /\ k[2] = NoMarks => x.cache[k].dead = {}
    /\ k[2] \in DOMAIN x.dvs => x.cache[k].dead = x.dvs[k[2]]

FilesInv(x) ==
    /\ RecordsOK(x.m, x.now)
    /\ x.count \in Nat /\ x.ins \in Nat /\ x.from \in Nat
    /\ DOMAIN x.segs \subseteq 0..(x.count - 1)
    /\ \A s \in DOMAIN x.segs : x.segs[s] \subseteq 1..x.ins
    /\ x.segs = [s \in DOMAIN x.segs |-> x.segs[s]] /\ x.dvs = [d \in DOMAIN x.dvs |-> x.dvs[d]]
    /\ \A d \in DOMAIN x.dvs : \E s : MarkOf(x.m, s, d)
    /\ \A k \in DOMAIN x.cache : HandleOK(x, k)

\* A restart goes back to the last timestamp with a record: nothing was changed
\* since then.
HistoryInv(x) ==
    /\ x.hist = [ts \in DOMAIN x.hist |-> x.hist[ts]] /\ DOMAIN x.hist \subseteq 0..x.now
    /\ x.now \in DOMAIN x.hist /\ 0 \in DOMAIN x.hist
    /\ \A i \in DOMAIN x.m : x.m[i].ts \in DOMAIN x.hist
    /\ \A ts \in DOMAIN x.hist : (\A i \in DOMAIN x.m : x.m[i].ts <= ts) => x.hist[ts] = x.hist[x.now]

ReadInv(x) ==
    /\ Reads(x, Latest(x), x.hist[x.now])
    /\ \A ts \in DOMAIN x.hist : ts >= x.from => Reads(x, KeptIn(x, ts), x.hist[ts])
    /\ DOMAIN Latest(x) = DOMAIN x.segs
    /\ \A s, u \in DOMAIN x.segs : s # u => LiveIn(x, Latest(x), s) \cap LiveIn(x, Latest(x), u) = {}

TravelInv(x) == FilesInv(x) /\ HistoryInv(x) /\ ReadInv(x)

LEMMA NoMarksIsNoDV ==
    ASSUME NEW x, FilesInv(x)
    PROVE  /\ NoMarks \notin DOMAIN x.dvs /\ DeadIn(x, NoMarks) = {}
           /\ \A s : ~MarkOf(x.m, s, NoMarks)
<1>1. \A a, b : <<a, b>> # NoMarks
  BY DEF NoMarks
<1>2. \A s : ~MarkOf(x.m, s, NoMarks)
  BY <1>1 DEF MarkOf
<1>3. NoMarks \notin DOMAIN x.dvs
  BY <1>2 DEF FilesInv
<1> QED BY <1>2, <1>3 DEF DeadIn

\* A timestamp of a record is not after the latest, so none is there yet for
\* the next.
LEMMA NextIsFresh ==
    ASSUME NEW x, FilesInv(x)
    PROVE  /\ x.now \in Nat /\ x.now + 1 \in Nat
           /\ \A i \in DOMAIN x.m : x.m[i].ts \in 1..x.now /\ x.m[i].ts <= x.now /\ x.m[i].ts <= x.now + 1
           /\ \A s, d : MarkOf(x.m, s, d) => \A u : d # <<u, x.now + 1>>
           /\ \A s : <<s, x.now + 1>> \notin DOMAIN x.dvs
<1>1. /\ x.now \in Nat /\ x.now + 1 \in Nat
      /\ \A i \in DOMAIN x.m : x.m[i].ts \in 1..x.now
  BY DEF FilesInv, RecordsOK
<1>2. \A i \in DOMAIN x.m : x.m[i].ts <= x.now /\ x.m[i].ts <= x.now + 1 /\ x.m[i].ts # x.now + 1
  BY <1>1
<1>3. \A s, d : MarkOf(x.m, s, d) => \A u : d # <<u, x.now + 1>>
  BY <1>2 DEF MarkOf
<1>4. \A s : <<s, x.now + 1>> \notin DOMAIN x.dvs
  BY <1>3 DEF FilesInv
<1> QED BY <1>1, <1>2, <1>3, <1>4

\* No record is later than the latest timestamp, so nothing of its view was retired.
LEMMA KeptNow ==
    ASSUME NEW x, FilesInv(x), NEW rows, Reads(x, Latest(x), rows)
    PROVE  Reads(x, KeptIn(x, x.now), rows)
<1> DEFINE v == Latest(x)
           w == KeptIn(x, x.now)
<1>1. RetiredIn(x.m, x.now) = {}
  <2>1. \A i \in DOMAIN x.m : ~(x.m[i].ts > x.now)
    BY DEF FilesInv, RecordsOK
  <2> QED BY <2>1 DEF RetiredIn
<1>2. DOMAIN w = DOMAIN v /\ \A s \in DOMAIN w : w[s] = v[s]
  BY <1>1 DEF KeptIn, Removed, Latest
<1> HIDE DEF v, w
<1>3. \A s \in DOMAIN v : LiveIn(x, w, s) = LiveIn(x, v, s)
  BY <1>2 DEF LiveIn
<1>4. Reads(x, w, rows)
  BY <1>2, <1>3 DEF Reads, v
<1> QED BY <1>4 DEF w

LEMMA RetiredMore ==
    ASSUME NEW recs, NEW r, IsSequence(recs), NEW more, Extends(more, recs, r), NEW ts, r.ts > ts
    PROVE  RetiredIn(more, ts) = RetiredIn(recs, ts) \cup r.removes
<1>1. RecordsAre(more, recs, r)
  BY ExtendedDomain
<1>2. \A e : e \in RetiredIn(more, ts) <=> \E i \in DOMAIN more : more[i].ts > ts /\ e \in more[i].removes
  BY DEF RetiredIn
<1>3. \A e : e \in RetiredIn(recs, ts) <=> \E i \in DOMAIN recs : recs[i].ts > ts /\ e \in recs[i].removes
  BY DEF RetiredIn
<1>4. ASSUME NEW e PROVE e \in RetiredIn(more, ts) <=> e \in RetiredIn(recs, ts) \/ e \in r.removes
  BY <1>1, <1>2, <1>3 DEF RecordsAre
<1> QED BY <1>4

LEMMA LaterOf ==
    ASSUME NEW a \in Nat, NEW b \in Nat
    PROVE  Max({a, b}) \in Nat /\ Max({a, b}) >= a /\ Max({a, b}) >= b
<1>1. CASE a <= b
  <2>1. Max({a, b}) = b
    BY <1>1, MaxIs
  <2> QED BY <1>1, <2>1
<1>2. CASE ~(a <= b)
  <2>1. {a, b} \subseteq Nat /\ a \in {a, b} /\ \A j \in {a, b} : j <= a
    BY <1>2
  <2>2. Max({a, b}) = a
    BY <2>1, MaxIs
  <2> QED BY <1>2, <2>2
<1> QED BY <1>1, <1>2

-----------------------------------------------------------------------------
(* One commit: new segments are published, and hit segments get DVs, new[s]  *)
(* and dead[s] being their rows.                                             *)

CommitsRecord(x, y, r, new, dead) ==
    /\ Extends(y.m, x.m, r)
    /\ r.ts = x.now + 1 /\ r.removes = {} /\ r.adds = DOMAIN new
    /\ DOMAIN r.marks = DOMAIN dead
    /\ \A s \in DOMAIN dead : r.marks[s] = <<s, x.now + 1>>

CommitsFiles(x, y, new, dead) ==
    /\ DOMAIN y.segs = DOMAIN x.segs \cup DOMAIN new
    /\ \A s \in DOMAIN x.segs \ DOMAIN new : y.segs[s] = x.segs[s]
    /\ \A s \in DOMAIN new : y.segs[s] = new[s] /\ new[s] \subseteq 1..y.ins
    /\ DOMAIN y.dvs = DOMAIN x.dvs \cup {<<s, x.now + 1>> : s \in DOMAIN dead}
    /\ \A d \in DOMAIN x.dvs \ {<<s, x.now + 1>> : s \in DOMAIN dead} : y.dvs[d] = x.dvs[d]
    /\ \A s \in DOMAIN dead : y.dvs[<<s, x.now + 1>>] = dead[s]
    /\ y.segs = [s \in DOMAIN y.segs |-> y.segs[s]] /\ y.dvs = [d \in DOMAIN y.dvs |-> y.dvs[d]]
    /\ y.cache = x.cache

CommitsCounters(x, y, new, rows) ==
    /\ y.now = x.now + 1 /\ y.from = x.from
    /\ y.count \in Nat /\ y.ins \in Nat /\ x.count <= y.count /\ x.ins <= y.ins
    /\ DOMAIN new \subseteq x.count..(y.count - 1)
    /\ DOMAIN y.hist = DOMAIN x.hist \cup {x.now + 1} /\ y.hist = [ts \in DOMAIN y.hist |-> y.hist[ts]]
    /\ \A ts \in DOMAIN x.hist : ts # x.now + 1 => y.hist[ts] = x.hist[ts]
    /\ y.hist[x.now + 1] = rows

\* What is left of a segment after it.
Remains(x, dead, s) ==
    IF s \in DOMAIN dead THEN x.segs[s] \ dead[s] ELSE LiveIn(x, Latest(x), s)

\* Rows only leave the segments there are, and come once to the new ones.
Moves(x, new, dead, rows) ==
    /\ DOMAIN dead \subseteq DOMAIN x.segs
    /\ \A s \in DOMAIN x.segs : Remains(x, dead, s) \subseteq LiveIn(x, Latest(x), s)
    /\ \A s \in DOMAIN new, u \in DOMAIN x.segs : new[s] \cap Remains(x, dead, u) = {}
    /\ \A s, u \in DOMAIN new : s # u => new[s] \cap new[u] = {}
    /\ \A e : e \in rows <=> \/ \E s \in DOMAIN x.segs : e \in Remains(x, dead, s)
                             \/ \E s \in DOMAIN new : e \in new[s]

LEMMA CommitKeepsFiles ==
    ASSUME NEW x, NEW y, NEW r, NEW new, NEW dead, NEW rows, FilesInv(x), DOMAIN dead \subseteq DOMAIN x.segs,
           CommitsRecord(x, y, r, new, dead), CommitsFiles(x, y, new, dead), CommitsCounters(x, y, new, rows)
    PROVE  /\ FilesInv(y)
           /\ \A s \in DOMAIN x.segs : s \notin DOMAIN new /\ y.segs[s] = x.segs[s]
           /\ \A d \in DOMAIN x.dvs : y.dvs[d] = x.dvs[d]
<1>1. /\ x.now \in Nat /\ x.now + 1 \in Nat
      /\ \A i \in DOMAIN x.m : x.m[i].ts \in 1..x.now
      /\ \A s, d : MarkOf(x.m, s, d) => \A u : d # <<u, x.now + 1>>
      /\ \A s : <<s, x.now + 1>> \notin DOMAIN x.dvs
  BY NextIsFresh
<1>2. IsSequence(x.m) /\ Extends(y.m, x.m, r) /\ IsSequence(y.m)
  BY DEF FilesInv, RecordsOK, CommitsRecord, Extends
<1>3. /\ \A i \in DOMAIN x.m : i \in DOMAIN y.m /\ y.m[i] = x.m[i]
      /\ \A i \in DOMAIN y.m : i \in DOMAIN x.m \/ y.m[i] = r
      /\ \E i \in DOMAIN y.m : y.m[i] = r
  <2>1. RecordsAre(y.m, x.m, r)
    BY <1>2, ExtendedDomain
  <2> QED BY <2>1 DEF RecordsAre
<1>4. \A s \in DOMAIN x.segs : s \notin DOMAIN new /\ y.segs[s] = x.segs[s]
  <2>1. ASSUME NEW s \in DOMAIN x.segs PROVE s \notin DOMAIN new
    BY <2>1 DEF FilesInv, CommitsCounters
  <2> QED BY <2>1 DEF CommitsFiles
<1>5. \A d \in DOMAIN x.dvs : y.dvs[d] = x.dvs[d]
  BY <1>1 DEF CommitsFiles
<1>6. RecordsOK(y.m, y.now)
  <2>1. y.now = x.now + 1 /\ y.now \in Nat
    BY <1>1 DEF CommitsCounters
  <2>2. ASSUME NEW i \in DOMAIN y.m
        PROVE  y.m[i].ts \in 1..y.now /\ \A s \in DOMAIN y.m[i].marks : y.m[i].marks[s] = <<s, y.m[i].ts>>
    <3>1. CASE y.m[i] = r
      <4>1. r.ts = x.now + 1 /\ r.ts \in 1..y.now
        BY <1>1, <2>1 DEF CommitsRecord
      <4>2. \A s \in DOMAIN r.marks : r.marks[s] = <<s, x.now + 1>>
        BY DEF CommitsRecord
      <4> QED BY <3>1, <4>1, <4>2
    <3>2. CASE i \in DOMAIN x.m
      <4>1. x.m[i].ts \in 1..x.now /\ \A s \in DOMAIN x.m[i].marks : x.m[i].marks[s] = <<s, x.m[i].ts>>
        BY <3>2 DEF FilesInv, RecordsOK
      <4>2. \A t \in 1..x.now : t \in 1..y.now
        BY <1>1, <2>1
      <4> QED BY <1>3, <3>2, <4>1, <4>2
    <3> QED BY <1>3, <3>1, <3>2
  <2> QED BY <1>2, <2>1, <2>2 DEF RecordsOK
<1>7. \A s, d : MarkOf(x.m, s, d) => MarkOf(y.m, s, d)
  BY <1>3 DEF MarkOf
<1>8. \A s : MarkOf(y.m, s, <<s, x.now + 1>>)
  BY <1>3 DEF MarkOf, CommitsRecord
<1>9. DOMAIN y.segs \subseteq 0..(y.count - 1) /\ y.count \in Nat /\ y.ins \in Nat /\ y.from \in Nat
  <2>1. /\ x.count \in Nat /\ y.count \in Nat /\ x.count <= y.count /\ x.from \in Nat
        /\ DOMAIN x.segs \subseteq 0..(x.count - 1) /\ DOMAIN new \subseteq x.count..(y.count - 1)
        /\ DOMAIN y.segs = DOMAIN x.segs \cup DOMAIN new
    BY DEF FilesInv, CommitsCounters, CommitsFiles
  <2>2. ASSUME NEW s \in DOMAIN y.segs PROVE s \in 0..(y.count - 1)
    BY <2>1
  <2> QED BY <2>1, <2>2 DEF CommitsCounters
<1>10. \A s \in DOMAIN y.segs : y.segs[s] \subseteq 1..y.ins
  <2>1. x.ins \in Nat /\ y.ins \in Nat /\ x.ins <= y.ins
    BY DEF FilesInv, CommitsCounters
  <2>2. \A t \in 1..x.ins : t \in 1..y.ins
    BY <2>1
  <2>3. \A s \in DOMAIN x.segs : x.segs[s] \subseteq 1..x.ins
    BY DEF FilesInv
  <2>4. \A s \in DOMAIN x.segs : y.segs[s] \subseteq 1..y.ins
    BY <1>4, <2>2, <2>3
  <2> QED BY <2>4 DEF CommitsFiles
<1>11. \A d \in DOMAIN y.dvs : \E s : MarkOf(y.m, s, d)
  BY <1>7, <1>8 DEF CommitsFiles, FilesInv
<1>12. \A k \in DOMAIN y.cache : HandleOK(y, k)
  <2> SUFFICES ASSUME NEW k \in DOMAIN x.cache PROVE HandleOK(y, k)
    BY DEF CommitsFiles
  <2>1. HandleOK(x, k) /\ y.cache = x.cache
    BY DEF FilesInv, CommitsFiles
  <2>2. k[2] \in DOMAIN y.dvs => k[2] \in DOMAIN x.dvs
    <3>1. k[2] = NoMarks \/ MarkOf(x.m, k[1], k[2])
      BY <2>1 DEF HandleOK
    <3>2. \A u : NoMarks # <<u, x.now + 1>>
      BY DEF NoMarks
    <3>3. \A u : k[2] # <<u, x.now + 1>>
      BY <1>1, <3>1, <3>2
    <3> QED BY <3>3 DEF CommitsFiles
  <2>3. k[1] \in DOMAIN y.segs
    BY <2>1 DEF HandleOK, CommitsFiles
  <2> QED BY <1>4, <1>5, <1>7, <2>1, <2>2, <2>3 DEF HandleOK
<1>13. y.segs = [s \in DOMAIN y.segs |-> y.segs[s]] /\ y.dvs = [d \in DOMAIN y.dvs |-> y.dvs[d]]
  BY DEF CommitsFiles
<1> QED BY <1>4, <1>5, <1>6, <1>9, <1>10, <1>11, <1>12, <1>13 DEF FilesInv

\* The view of the commit, and those of earlier timestamps.
LEMMA CommitViews ==
    ASSUME NEW x, NEW y, NEW r, NEW new, NEW dead, FilesInv(x), CommitsRecord(x, y, r, new, dead)
    PROVE  /\ \A ts \in 0..x.now : ViewIn(y.m, ts) = ViewIn(x.m, ts)
           /\ ViewIn(y.m, x.now + 1) = PublishRecord(Latest(x), r)
<1>1. x.now \in Nat /\ IsSequence(x.m) /\ Extends(y.m, x.m, r) /\ r.ts = x.now + 1
  BY DEF FilesInv, RecordsOK, CommitsRecord
<1>2. \A ts : ViewIn(y.m, ts) = Publishes(ViewIn(x.m, ts), r, ts)
  BY <1>1, ViewExtended
<1>3. ASSUME NEW ts \in 0..x.now PROVE ViewIn(y.m, ts) = ViewIn(x.m, ts)
  <2>1. ~(r.ts <= ts)
    BY <1>1
  <2> QED BY <1>2, <2>1 DEF Publishes
<1>4. ViewIn(x.m, x.now + 1) = ViewIn(x.m, x.now)
  <2>1. \A i \in DOMAIN x.m : x.m[i].ts <= x.now + 1 <=> x.m[i].ts <= x.now
    BY NextIsFresh
  <2> QED BY <1>1, <2>1, SameView
<1>5. r.ts <= x.now + 1
  BY <1>1
<1> QED BY <1>2, <1>3, <1>4, <1>5 DEF Publishes, Latest

\* A view keeps its rows while its files keep theirs.
KeepsFiles(x, y, v) ==
    \A s \in DOMAIN v : /\ s \in DOMAIN y.segs /\ y.segs[s] = x.segs[s]
                        /\ (v[s].dv \in DOMAIN y.dvs <=> v[s].dv \in DOMAIN x.dvs)
                        /\ DeadIn(y, v[s].dv) = DeadIn(x, v[s].dv)

LEMMA ReadsKept ==
    ASSUME NEW x, NEW y, NEW v, NEW rows, Reads(x, v, rows), KeepsFiles(x, y, v)
    PROVE  Reads(y, v, rows) /\ \A s \in DOMAIN v : LiveIn(y, v, s) = LiveIn(x, v, s)
<1>1. \A s \in DOMAIN v : LiveIn(y, v, s) = LiveIn(x, v, s)
  BY DEF LiveIn, KeepsFiles
<1>3. DOMAIN v \subseteq DOMAIN y.segs
  BY DEF KeepsFiles
<1>4. \A s \in DOMAIN v : v[s].dv = NoMarks \/ v[s].dv \in DOMAIN y.dvs
  BY DEF Reads, KeepsFiles
<1>5. \A e : e \in rows <=> \E s \in DOMAIN v : e \in LiveIn(x, v, s)
  BY DEF Reads
<1> QED BY <1>1, <1>3, <1>4, <1>5 DEF Reads

\* What the commit leaves in each segment.
LEMMA CommitRows ==
    ASSUME NEW x, NEW y, NEW r, NEW new, NEW dead, NEW rows, TravelInv(x), DOMAIN dead \subseteq DOMAIN x.segs,
           CommitsRecord(x, y, r, new, dead), CommitsFiles(x, y, new, dead), CommitsCounters(x, y, new, rows),
           NEW w, w = ViewIn(y.m, x.now + 1)
    PROVE  /\ DOMAIN w = DOMAIN y.segs
           /\ \A s \in DOMAIN w : w[s].dv = NoMarks \/ w[s].dv \in DOMAIN y.dvs
           /\ \A s \in DOMAIN x.segs : LiveIn(y, w, s) = Remains(x, dead, s)
           /\ \A s \in DOMAIN new : LiveIn(y, w, s) = new[s]
<1> DEFINE v == Latest(x)
<1>1. FilesInv(x) /\ HistoryInv(x) /\ ReadInv(x)
  BY DEF TravelInv
<1>2. /\ FilesInv(y)
      /\ \A s \in DOMAIN x.segs : s \notin DOMAIN new /\ y.segs[s] = x.segs[s]
      /\ \A d \in DOMAIN x.dvs : y.dvs[d] = x.dvs[d]
  BY <1>1, CommitKeepsFiles
<1>3. w = PublishRecord(v, r)
  BY <1>1, CommitViews
<1>4. EntriesOK(x.m, v)
  <2>1. RecordsOK(x.m, x.now)
    BY <1>1 DEF FilesInv
  <2> QED BY <2>1, ViewEntries DEF Latest
<1>5. DOMAIN v = DOMAIN x.segs /\ Reads(x, v, x.hist[x.now])
  BY <1>1 DEF ReadInv, HistoryInv, Latest
<1> HIDE DEF v
<1>6. PublishedAs(w, v, r)
  <2>1. \A s \in DOMAIN v : IsEntry(v[s])
    BY <1>4 DEF EntriesOK
  <2> QED BY <1>3, <2>1, PublishedView
<1>7. r.adds = DOMAIN new /\ r.removes = {} /\ DOMAIN r.marks = DOMAIN dead
      /\ \A s \in DOMAIN dead : r.marks[s] = <<s, x.now + 1>>
  BY DEF CommitsRecord
<1>8. DOMAIN w = DOMAIN y.segs
  BY <1>5, <1>6, <1>7 DEF PublishedAs, CommitsFiles
<1>9. ASSUME NEW s \in DOMAIN dead
      PROVE  w[s].dv = <<s, x.now + 1>> /\ w[s].dv \in DOMAIN y.dvs /\ LiveIn(y, w, s) = x.segs[s] \ dead[s]
  <2>1. s \in DOMAIN w
    BY <1>8 DEF CommitsFiles
  <2>2. w[s].dv = <<s, x.now + 1>>
    BY <1>6, <1>7, <2>1 DEF PublishedAs
  <2>3. w[s].dv \in DOMAIN y.dvs /\ y.dvs[w[s].dv] = dead[s]
    BY <2>2 DEF CommitsFiles
  <2>4. y.segs[s] = x.segs[s]
    BY <1>2
  <2> QED BY <2>2, <2>3, <2>4 DEF LiveIn, DeadIn
<1>10. ASSUME NEW s \in DOMAIN x.segs, s \notin DOMAIN dead
       PROVE  (w[s].dv = NoMarks \/ w[s].dv \in DOMAIN y.dvs) /\ LiveIn(y, w, s) = LiveIn(x, v, s)
  <2>1. s \in DOMAIN w /\ s \notin DOMAIN new /\ s \in DOMAIN v
    BY <1>2, <1>5, <1>8 DEF CommitsFiles
  <2>2. w[s].dv = v[s].dv
    BY <1>6, <1>7, <1>10, <2>1 DEF PublishedAs
  <2>3. v[s].dv = NoMarks \/ v[s].dv \in DOMAIN x.dvs
    BY <1>5, <2>1 DEF Reads
  <2>4. DeadIn(x, NoMarks) = {} /\ DeadIn(y, NoMarks) = {}
    BY <1>1, <1>2, NoMarksIsNoDV
  <2>5. \A d \in DOMAIN x.dvs : d \in DOMAIN y.dvs /\ y.dvs[d] = x.dvs[d]
    BY <1>2 DEF CommitsFiles
  <2>6. DeadIn(y, v[s].dv) = DeadIn(x, v[s].dv)
    BY <2>3, <2>4, <2>5 DEF DeadIn
  <2> QED BY <1>2, <2>2, <2>3, <2>5, <2>6 DEF LiveIn
<1>11. ASSUME NEW s \in DOMAIN new
       PROVE  w[s].dv = NoMarks /\ LiveIn(y, w, s) = new[s]
  <2>1. s \in DOMAIN w /\ s \notin DOMAIN x.segs /\ s \notin DOMAIN dead
    BY <1>2, <1>8 DEF CommitsFiles
  <2>2. w[s].dv = NoMarks
    BY <1>6, <1>7, <2>1 DEF PublishedAs
  <2>3. DeadIn(y, NoMarks) = {} /\ y.segs[s] = new[s]
    BY <1>2, NoMarksIsNoDV DEF CommitsFiles
  <2> QED BY <2>2, <2>3 DEF LiveIn
<1>12. \A s \in DOMAIN w : s \in DOMAIN x.segs \/ s \in DOMAIN new
  BY <1>8 DEF CommitsFiles
<1>13. \A s \in DOMAIN x.segs : LiveIn(y, w, s) = Remains(x, dead, s)
  BY <1>9, <1>10 DEF Remains, v
<1> QED BY <1>8, <1>9, <1>10, <1>11, <1>12, <1>13

LEMMA CommitKeeps ==
    ASSUME NEW x, NEW y, NEW r, NEW new, NEW dead, NEW rows, TravelInv(x), Moves(x, new, dead, rows),
           CommitsRecord(x, y, r, new, dead), CommitsFiles(x, y, new, dead), CommitsCounters(x, y, new, rows)
    PROVE  TravelInv(y)
<1> DEFINE w == ViewIn(y.m, x.now + 1)
<1>1. FilesInv(x) /\ HistoryInv(x) /\ ReadInv(x) /\ DOMAIN dead \subseteq DOMAIN x.segs
  BY DEF TravelInv, Moves
<1>2. /\ FilesInv(y)
      /\ \A s \in DOMAIN x.segs : s \notin DOMAIN new /\ y.segs[s] = x.segs[s]
      /\ \A d \in DOMAIN x.dvs : y.dvs[d] = x.dvs[d]
  BY <1>1, CommitKeepsFiles
<1>3. \A ts \in 0..x.now : ViewIn(y.m, ts) = ViewIn(x.m, ts)
  BY <1>1, CommitViews
<1>4. /\ DOMAIN w = DOMAIN y.segs
      /\ \A s \in DOMAIN w : w[s].dv = NoMarks \/ w[s].dv \in DOMAIN y.dvs
      /\ \A s \in DOMAIN x.segs : LiveIn(y, w, s) = Remains(x, dead, s)
      /\ \A s \in DOMAIN new : LiveIn(y, w, s) = new[s]
  <2>1. w = ViewIn(y.m, x.now + 1)
    OBVIOUS
  <2> HIDE DEF w
  <2> QED BY <1>1, <2>1, CommitRows
<1>5. Latest(y) = w
  BY DEF Latest, CommitsCounters
<1> HIDE DEF w
<1>6. x.now \in Nat /\ y.now = x.now + 1 /\ y.from = x.from /\ DOMAIN x.hist \subseteq 0..x.now
  BY <1>1 DEF FilesInv, RecordsOK, CommitsCounters, HistoryInv
<1>7. \A ts \in DOMAIN x.hist : ts # y.now /\ ts \in 0..y.now /\ y.hist[ts] = x.hist[ts]
  <2>1. \A ts \in 0..x.now : ts # y.now /\ ts \in 0..y.now
    BY <1>6
  <2> QED BY <1>6, <2>1 DEF CommitsCounters
<1>8. HistoryInv(y)
  <2>1. DOMAIN y.hist = DOMAIN x.hist \cup {y.now} /\ y.now \in 0..y.now
    BY <1>6 DEF CommitsCounters
  <2>2. DOMAIN y.hist \subseteq 0..y.now /\ y.now \in DOMAIN y.hist /\ 0 \in DOMAIN y.hist
    BY <1>1, <1>7, <2>1 DEF HistoryInv
  <2>3. RecordsAre(y.m, x.m, r) /\ r.ts = y.now
    BY <1>1, <1>6, ExtendedDomain DEF CommitsRecord, FilesInv, RecordsOK
  <2>4. \A i \in DOMAIN y.m : y.m[i].ts \in DOMAIN y.hist
    BY <1>1, <2>1, <2>3 DEF RecordsAre, HistoryInv
  <2>5. ASSUME NEW ts \in DOMAIN y.hist, \A i \in DOMAIN y.m : y.m[i].ts <= ts
        PROVE  y.hist[ts] = y.hist[y.now]
    <3>1. y.now <= ts /\ ts \in 0..y.now
      BY <2>2, <2>3, <2>5 DEF RecordsAre
    <3>2. ts = y.now
      BY <1>6, <3>1
    <3> QED BY <3>2
  <2>6. y.hist = [ts \in DOMAIN y.hist |-> y.hist[ts]]
    BY DEF CommitsCounters
  <2> QED BY <2>2, <2>4, <2>5, <2>6 DEF HistoryInv
<1>9. Reads(y, w, y.hist[y.now])
  <2>1. \A e : e \in rows <=> \/ \E s \in DOMAIN x.segs : e \in Remains(x, dead, s)
                              \/ \E s \in DOMAIN new : e \in new[s]
    BY DEF Moves
  <2>2. DOMAIN w = DOMAIN x.segs \cup DOMAIN new
    BY <1>4 DEF CommitsFiles
  <2>6. \A e : e \in rows <=> \E s \in DOMAIN w : e \in LiveIn(y, w, s)
    BY <1>4, <2>1, <2>2
  <2>7. y.hist[y.now] = rows
    BY <1>6 DEF CommitsCounters
  <2> QED BY <1>4, <2>6, <2>7 DEF Reads
<1>10. ASSUME NEW ts \in DOMAIN y.hist, ts >= y.from
       PROVE  Reads(y, KeptIn(y, ts), y.hist[ts])
  <2>1. CASE ts = y.now
    BY <1>2, <1>5, <1>9, <2>1, KeptNow
  <2>2. CASE ts # y.now
    <3> DEFINE v == KeptIn(x, ts)
    <3>1. ts \in DOMAIN x.hist /\ ts \in 0..x.now /\ ts >= x.from
      BY <1>6, <1>10, <2>2 DEF CommitsCounters
    <3>2. Reads(x, v, x.hist[ts])
      BY <1>1, <3>1 DEF ReadInv
    <3>3. KeptIn(y, ts) = v /\ y.hist[ts] = x.hist[ts]
      <4>1. IsSequence(x.m) /\ Extends(y.m, x.m, r) /\ r.removes = {} /\ r.ts > ts
        BY <1>1, <1>6, <3>1 DEF FilesInv, RecordsOK, CommitsRecord
      <4>2. RetiredIn(y.m, ts) = RetiredIn(x.m, ts)
        BY <4>1, RetiredMore
      <4>3. ViewIn(y.m, ts) = ViewIn(x.m, ts)
        BY <1>3, <3>1
      <4> QED BY <1>7, <3>1, <4>2, <4>3 DEF KeptIn
    <3> HIDE DEF v
    <3>4. \A s \in DOMAIN v : s \in DOMAIN y.segs /\ y.segs[s] = x.segs[s]
      BY <1>2, <3>2 DEF Reads, CommitsFiles
    <3>5. NoMarks \notin DOMAIN x.dvs /\ NoMarks \notin DOMAIN y.dvs /\ DeadIn(x, NoMarks) = {} /\ DeadIn(y, NoMarks) = {}
      BY <1>1, <1>2, NoMarksIsNoDV
    <3>6. \A d \in DOMAIN x.dvs : d \in DOMAIN y.dvs /\ DeadIn(y, d) = DeadIn(x, d)
      BY <1>2 DEF CommitsFiles, DeadIn
    <3>7. \A s \in DOMAIN v : (v[s].dv \in DOMAIN y.dvs <=> v[s].dv \in DOMAIN x.dvs) /\ DeadIn(y, v[s].dv) = DeadIn(x, v[s].dv)
      BY <3>2, <3>5, <3>6 DEF Reads
    <3>8. KeepsFiles(x, y, v)
      BY <3>4, <3>7 DEF KeepsFiles
    <3>9. Reads(y, v, x.hist[ts])
      BY <3>2, <3>8, ReadsKept
    <3> QED BY <3>3, <3>9
  <2> QED BY <2>1, <2>2
<1>11. ASSUME NEW s \in DOMAIN y.segs, NEW u \in DOMAIN y.segs, s # u
       PROVE  LiveIn(y, w, s) \cap LiveIn(y, w, u) = {}
  <2>1. \A a, b \in DOMAIN x.segs : a # b => LiveIn(x, Latest(x), a) \cap LiveIn(x, Latest(x), b) = {}
    BY <1>1 DEF ReadInv
  <2>2. \A a \in DOMAIN x.segs : Remains(x, dead, a) \subseteq LiveIn(x, Latest(x), a)
    BY DEF Moves
  <2>3. \A a, b \in DOMAIN x.segs : a # b => Remains(x, dead, a) \cap Remains(x, dead, b) = {}
    BY <2>1, <2>2
  <2>4. /\ \A a \in DOMAIN new, b \in DOMAIN x.segs : new[a] \cap Remains(x, dead, b) = {}
        /\ \A a, b \in DOMAIN new : a # b => new[a] \cap new[b] = {}
    BY DEF Moves
  <2>5. DOMAIN y.segs = DOMAIN x.segs \cup DOMAIN new
    BY DEF CommitsFiles
  <2>6. CASE s \in DOMAIN x.segs /\ u \in DOMAIN x.segs
    BY <1>4, <1>11, <2>3, <2>6
  <2>7. CASE s \in DOMAIN x.segs /\ u \in DOMAIN new
    BY <1>4, <2>4, <2>7
  <2>8. CASE s \in DOMAIN new /\ u \in DOMAIN x.segs
    BY <1>4, <2>4, <2>8
  <2>9. CASE s \in DOMAIN new /\ u \in DOMAIN new
    BY <1>4, <1>11, <2>4, <2>9
  <2> QED BY <2>5, <2>6, <2>7, <2>8, <2>9
<1>12. ReadInv(y)
  BY <1>4, <1>5, <1>9, <1>10, <1>11 DEF ReadInv
<1> QED BY <1>2, <1>8, <1>12 DEF TravelInv

-----------------------------------------------------------------------------
(* The operations *)

\* The fields of a state.
IsState(x) ==
    /\ x.m = manifest /\ x.segs = segments /\ x.dvs = dvFiles /\ x.cache = cache
    /\ x.count = segCount /\ x.now = nextCommitTs /\ x.from = cleaned
    /\ x.hist = history /\ x.ins = inserted

LEMMA StateFields == IsState(State)
BY DEF IsState, State

LEMMA TableIsView ==
    ASSUME NEW x, IsState(x)
    PROVE  /\ \A ts : TableAt(ts) = ViewIn(x.m, ts)
           /\ TableNow = Latest(x)
           /\ \A dv : DeadOnDisk(dv) = DeadIn(x, dv)
           /\ \A v, s : RowsLeft(v, s) = LiveIn(x, v, s)
<1>1. \A ts : TableAt(ts) = ViewIn(x.m, ts)
  BY DEF TableAt, ViewIn, IsState
<1>2. \A dv : DeadOnDisk(dv) = DeadIn(x, dv)
  BY DEF DeadOnDisk, DeadIn, IsState
<1>3. \A v, s : RowsLeft(v, s) = LiveIn(x, v, s)
  BY <1>2 DEF RowsLeft, LiveIn, IsState
<1> QED BY <1>1, <1>2, <1>3 DEF TableNow, Latest, IsState

LEMMA InsertMoves ==
    ASSUME NEW x, IsState(x), TravelInv(x), NEW n \in 1..2, InsertInto(n), NEW y, IsState(y)'
    PROVE  TravelInv(y)
<1> DEFINE rows == {inserted + i : i \in 1..n}
           new == [s \in {segCount} |-> rows]
           dead == <<>>
           r == [ts |-> x.now + 1, adds |-> {segCount}, marks |-> <<>>, removes |-> {}]
           all == history[nextCommitTs] \cup rows
<1>1. FilesInv(x) /\ HistoryInv(x) /\ ReadInv(x)
  BY DEF TravelInv
<1>2. DOMAIN dead = {} /\ DOMAIN new = {x.count} /\ new[x.count] = rows
  BY DEF IsState
<1>3. /\ x.now \in Nat /\ x.count \in Nat /\ x.ins \in Nat /\ IsSequence(x.m)
  BY <1>1 DEF FilesInv, RecordsOK
<1>4. ASSUME NEW e \in rows PROVE e \in 1..(x.ins + n) /\ e \notin 1..x.ins
  BY <1>3, <1>4 DEF IsState
<1> HIDE DEF dead
<1>5. CommitsRecord(x, y, r, new, dead)
  <2>1. y.m = Append(x.m, r)
    BY DEF IsState, InsertInto
  <2> HIDE DEF new
  <2>2. Extends(y.m, x.m, r)
    <3> HIDE DEF r
    <3> QED BY <1>3, <2>1, AppendedRecord
  <2>3. DOMAIN r.marks = DOMAIN dead
    BY DEF dead
  <2> QED BY <1>2, <2>2, <2>3 DEF CommitsRecord, IsState
<1>6. CommitsFiles(x, y, new, dead)
  <2>1. y.segs = Written(x.segs, new) /\ y.dvs = x.dvs /\ y.cache = x.cache /\ y.ins = x.ins + n
    BY DEF IsState, InsertInto
  <2>2. \A s \in DOMAIN new : new[s] \subseteq 1..y.ins
    BY <1>2, <1>4, <2>1
  <2> HIDE DEF new
  <2>3. /\ DOMAIN y.segs = DOMAIN x.segs \cup DOMAIN new
        /\ \A s \in DOMAIN x.segs \ DOMAIN new : y.segs[s] = x.segs[s]
        /\ \A s \in DOMAIN new : y.segs[s] = new[s]
    BY <2>1 DEF Written
  <2>4. y.dvs = [d \in DOMAIN y.dvs |-> y.dvs[d]]
    BY <1>1, <2>1 DEF FilesInv
  <2>5. y.segs = [s \in DOMAIN y.segs |-> y.segs[s]]
    BY <2>1 DEF Written
  <2> QED BY <1>2, <2>1, <2>2, <2>3, <2>4, <2>5 DEF CommitsFiles
<1>7. CommitsCounters(x, y, new, all)
  <2>1. /\ y.now = x.now + 1 /\ y.from = x.from /\ y.count = x.count + 1 /\ y.ins = x.ins + n
        /\ y.hist = [u \in DOMAIN x.hist \cup {x.now + 1} |-> IF u = x.now + 1 THEN all ELSE x.hist[u]]
    BY DEF IsState, InsertInto, Remember
  <2> HIDE DEF all, new
  <2> QED BY <1>2, <1>3, <2>1 DEF CommitsCounters
<1>8. Moves(x, new, dead, all)
  <2>1. \A s \in DOMAIN x.segs : Remains(x, dead, s) = LiveIn(x, Latest(x), s)
    BY <1>2 DEF Remains
  <2>2. \A s \in DOMAIN x.segs : LiveIn(x, Latest(x), s) \subseteq 1..x.ins
    BY <1>1 DEF FilesInv, LiveIn
  <2>3. Reads(x, Latest(x), x.hist[x.now]) /\ DOMAIN Latest(x) = DOMAIN x.segs
    BY <1>1 DEF ReadInv, HistoryInv, Latest
  <2>4. \A e : e \in x.hist[x.now] <=> \E s \in DOMAIN x.segs : e \in LiveIn(x, Latest(x), s)
    BY <2>3 DEF Reads
  <2>5. all = x.hist[x.now] \cup rows
    BY DEF IsState
  <2>6. \A s \in DOMAIN new, u \in DOMAIN x.segs : new[s] \cap Remains(x, dead, u) = {}
    BY <1>2, <1>4, <2>1, <2>2
  <2> HIDE DEF all, new, rows
  <2>7. \A s, u \in DOMAIN new : s # u => new[s] \cap new[u] = {}
    BY <1>2
  <2>8. \A e : e \in all <=> \/ \E s \in DOMAIN x.segs : e \in Remains(x, dead, s)
                             \/ \E s \in DOMAIN new : e \in new[s]
    BY <1>2, <2>1, <2>4, <2>5
  <2> QED BY <1>2, <2>1, <2>6, <2>7, <2>8 DEF Moves
<1> HIDE DEF r, new, all
<1> QED BY <1>5, <1>6, <1>7, <1>8, CommitKeeps

\* Nothing that is read from a state but what it says of timestamps changes.
SameFiles(x, y) ==
    /\ y.m = x.m /\ y.segs = x.segs /\ y.dvs = x.dvs /\ y.cache = x.cache
    /\ y.count = x.count /\ y.from = x.from /\ y.ins = x.ins

\* A DELETE that hits nothing.
LEMMA NoHitMoves ==
    ASSUME NEW x, TravelInv(x), NEW y, SameFiles(x, y), y.now = x.now + 1,
           y.hist = [u \in DOMAIN x.hist \cup {x.now + 1} |-> IF u = x.now + 1 THEN x.hist[x.now] ELSE x.hist[u]]
    PROVE  TravelInv(y)
<1>1. FilesInv(x) /\ HistoryInv(x) /\ ReadInv(x)
  BY DEF TravelInv
<1>2. x.now \in Nat /\ RecordsOK(x.m, x.now) /\ IsSequence(x.m) /\ DOMAIN x.hist \subseteq 0..x.now /\ x.now \in DOMAIN x.hist
  BY <1>1 DEF FilesInv, RecordsOK, HistoryInv
<1>3. \A i \in DOMAIN x.m : x.m[i].ts \in 1..x.now
  BY <1>2 DEF RecordsOK
<1>4. \A t \in 0..x.now : t \in 0..y.now /\ t # y.now
  BY <1>2
<1>5. RecordsOK(y.m, y.now)
  <2>1. \A t \in 1..x.now : t \in 1..y.now
    BY <1>2
  <2> QED BY <1>2, <2>1 DEF RecordsOK, SameFiles
<1>6. FilesInv(y)
  <2>1. \A k \in DOMAIN y.cache : HandleOK(y, k)
    BY <1>1 DEF FilesInv, SameFiles, HandleOK
  <2> QED BY <1>1, <1>5, <2>1 DEF FilesInv, SameFiles
<1>7. Latest(y) = Latest(x)
  <2>1. \A i \in DOMAIN x.m : x.m[i].ts <= y.now <=> x.m[i].ts <= x.now
    BY <1>2, <1>3
  <2> QED BY <1>2, <2>1, SameView DEF Latest, SameFiles
<1>8. y.hist[y.now] = x.hist[x.now] /\ \A u \in DOMAIN x.hist : u # y.now /\ y.hist[u] = x.hist[u]
  BY <1>2, <1>4
<1>9. DOMAIN y.hist = DOMAIN x.hist \cup {y.now}
  OBVIOUS
<1>10. HistoryInv(y)
  <2>1. y.now \in 0..y.now
    BY <1>2
  <2>2. DOMAIN y.hist \subseteq 0..y.now /\ y.now \in DOMAIN y.hist /\ 0 \in DOMAIN y.hist
    BY <1>1, <1>2, <1>4, <1>9, <2>1 DEF HistoryInv
  <2>3. \A i \in DOMAIN y.m : y.m[i].ts \in DOMAIN y.hist
    BY <1>1, <1>9 DEF HistoryInv, SameFiles
  <2>4. \A ts \in DOMAIN y.hist : (\A i \in DOMAIN y.m : y.m[i].ts <= ts) => y.hist[ts] = y.hist[y.now]
    BY <1>1, <1>8, <1>9 DEF HistoryInv, SameFiles
  <2> QED BY <2>2, <2>3, <2>4 DEF HistoryInv
<1>11. \A v, s : LiveIn(y, v, s) = LiveIn(x, v, s)
  BY DEF LiveIn, DeadIn, SameFiles
<1>12. \A v, rows : Reads(x, v, rows) => Reads(y, v, rows)
  BY <1>11 DEF Reads, SameFiles
<1>13. Reads(y, Latest(y), y.hist[y.now])
  BY <1>1, <1>7, <1>8, <1>12 DEF ReadInv
<1>14. ASSUME NEW ts \in DOMAIN y.hist, ts >= y.from
       PROVE  Reads(y, KeptIn(y, ts), y.hist[ts])
  <2>1. CASE ts = y.now
    BY <1>6, <1>13, <2>1, KeptNow
  <2>2. CASE ts # y.now
    <3>1. ts \in DOMAIN x.hist /\ ts >= x.from
      BY <1>9, <1>14, <2>2 DEF SameFiles
    <3>2. Reads(x, KeptIn(x, ts), x.hist[ts]) /\ KeptIn(y, ts) = KeptIn(x, ts)
      BY <1>1, <3>1 DEF ReadInv, KeptIn, SameFiles
    <3> QED BY <1>8, <1>12, <3>1, <3>2
  <2> QED BY <2>1, <2>2
<1>15. ReadInv(y)
  BY <1>1, <1>7, <1>11, <1>13, <1>14 DEF ReadInv, SameFiles
<1> QED BY <1>6, <1>10, <1>15 DEF TravelInv

LEMMA DeleteMoves ==
    ASSUME NEW x, IsState(x), TravelInv(x), NEW rows, DeleteFrom(rows), NEW y, IsState(y)'
    PROVE  TravelInv(y)
<1> DEFINE v == Latest(x)
           hit == {s \in DOMAIN v : LiveIn(x, v, s) \cap rows # {}}
           r == [ts |-> x.now + 1, adds |-> {}, removes |-> {}, marks |-> [s \in hit |-> <<s, x.now + 1>>]]
           dvs == [d \in {<<s, x.now + 1>> : s \in hit} |-> DeadIn(x, v[d[1]].dv) \cup (x.segs[d[1]] \cap rows)]
           new == <<>>
           dead == [s \in hit |-> DeadIn(x, v[s].dv) \cup (x.segs[s] \cap rows)]
           left == x.hist[x.now] \ rows
<1>1. FilesInv(x) /\ HistoryInv(x) /\ ReadInv(x)
  BY DEF TravelInv
<1>2. x.now \in Nat /\ x.count \in Nat /\ x.ins \in Nat /\ IsSequence(x.m)
  BY <1>1 DEF FilesInv, RecordsOK
<1>3. /\ y.dvs = Written(x.dvs, dvs)
      /\ y.m = IF hit = {} THEN x.m ELSE Append(x.m, r)
      /\ y.now = x.now + 1 /\ y.segs = x.segs /\ y.cache = x.cache
      /\ y.count = x.count /\ y.from = x.from /\ y.ins = x.ins
      /\ y.hist = [u \in DOMAIN x.hist \cup {x.now + 1} |-> IF u = x.now + 1 THEN left ELSE x.hist[u]]
  <2>1. /\ TableNow = v /\ \A dv : DeadOnDisk(dv) = DeadIn(x, dv)
        /\ \A t, s : RowsLeft(t, s) = LiveIn(x, t, s)
    BY TableIsView
  <2>2. hit = {s \in DOMAIN TableNow : RowsLeft(TableNow, s) \cap rows # {}}
    BY <2>1
  <2> HIDE DEF v
  <2>3. dvFiles' = Written(x.dvs, dvs)
    BY <2>1 DEF DeleteFrom, IsState, DVPath
  <2>4. manifest' = IF hit = {} THEN x.m ELSE Append(x.m, r)
    BY <2>1 DEF DeleteFrom, IsState, DVPath
  <2>5. y.dvs = dvFiles' /\ y.m = manifest'
    BY DEF IsState
  <2>6. /\ y.now = x.now + 1 /\ y.segs = x.segs /\ y.cache = x.cache
        /\ y.count = x.count /\ y.from = x.from /\ y.ins = x.ins
    BY DEF DeleteFrom, IsState
  <2>7. y.hist = [u \in DOMAIN x.hist \cup {x.now + 1} |-> IF u = x.now + 1 THEN left ELSE x.hist[u]]
    BY DEF DeleteFrom, IsState, Remember
  <2> QED BY <2>3, <2>4, <2>5, <2>6, <2>7
<1>4. Reads(x, v, x.hist[x.now]) /\ DOMAIN v = DOMAIN x.segs
  BY <1>1 DEF ReadInv, HistoryInv, Latest
<1>5. \A e : e \in x.hist[x.now] <=> \E s \in DOMAIN x.segs : e \in LiveIn(x, v, s)
  BY <1>4 DEF Reads
<1> HIDE DEF v
<1>6. CASE hit = {}
  <2>1. \A s \in DOMAIN x.segs : LiveIn(x, v, s) \cap rows = {}
    BY <1>4, <1>6
  <2>2. left = x.hist[x.now]
    BY <1>5, <2>1
  <2>3. y.dvs = x.dvs
    <3>1. DOMAIN dvs = {}
      BY <1>6
    <3>2. x.dvs = [f \in DOMAIN x.dvs |-> x.dvs[f]]
      BY <1>1 DEF FilesInv
    <3> HIDE DEF dvs
    <3> QED BY <1>3, <3>1, <3>2 DEF Written
  <2> HIDE DEF left, hit
  <2>4. SameFiles(x, y)
    BY <1>3, <1>6, <2>3 DEF SameFiles
  <2> QED BY <1>3, <2>2, <2>4, NoHitMoves
<1>7. CASE hit # {}
  <2>1. DOMAIN new = {} /\ DOMAIN dead = hit /\ hit \subseteq DOMAIN x.segs
    BY <1>4
  <2> HIDE DEF new
  <2>2. CommitsRecord(x, y, r, new, dead)
    <3>1. y.m = Append(x.m, r)
      BY <1>3, <1>7
    <3>2. Extends(y.m, x.m, r)
      <4> HIDE DEF r
      <4> QED BY <1>2, <3>1, AppendedRecord
    <3>3. DOMAIN r.marks = DOMAIN dead /\ \A s \in DOMAIN dead : r.marks[s] = <<s, x.now + 1>>
      OBVIOUS
    <3> HIDE DEF dead, hit
    <3> QED BY <2>1, <3>2, <3>3 DEF CommitsRecord
  <2>3. CommitsFiles(x, y, new, dead)
    <3>1. DOMAIN dvs = {<<s, x.now + 1>> : s \in hit}
      OBVIOUS
    <3>2. \A s \in hit : dvs[<<s, x.now + 1>>] = dead[s]
      OBVIOUS
    <3> HIDE DEF dvs, dead, hit
    <3>3. /\ DOMAIN y.dvs = DOMAIN x.dvs \cup DOMAIN dvs
          /\ \A d \in DOMAIN x.dvs \ DOMAIN dvs : y.dvs[d] = x.dvs[d]
          /\ \A d \in DOMAIN dvs : y.dvs[d] = dvs[d]
      BY <1>3 DEF Written
    <3>4. y.dvs = [d \in DOMAIN y.dvs |-> y.dvs[d]]
      BY <1>3 DEF Written
    <3>5. y.segs = [s \in DOMAIN y.segs |-> y.segs[s]]
      BY <1>1, <1>3 DEF FilesInv
    <3> QED BY <1>3, <2>1, <3>1, <3>2, <3>3, <3>4, <3>5 DEF CommitsFiles
  <2>4. CommitsCounters(x, y, new, left)
    <3> HIDE DEF left
    <3> QED BY <1>2, <1>3, <2>1 DEF CommitsCounters
  <2>5. Moves(x, new, dead, left)
    <3>1. \A s \in DOMAIN x.segs : Remains(x, dead, s) = LiveIn(x, v, s) \ rows
      <4> SUFFICES ASSUME NEW s \in DOMAIN x.segs PROVE Remains(x, dead, s) = LiveIn(x, v, s) \ rows
        OBVIOUS
      <4>1. CASE s \in hit
        <5>1. Remains(x, dead, s) = x.segs[s] \ (DeadIn(x, v[s].dv) \cup (x.segs[s] \cap rows))
          BY <4>1 DEF Remains
        <5> QED BY <5>1 DEF LiveIn
      <4>2. CASE s \notin hit
        <5>1. Remains(x, dead, s) = LiveIn(x, v, s)
          BY <4>2 DEF Remains, v
        <5>2. LiveIn(x, v, s) \cap rows = {}
          BY <1>4, <4>2
        <5> QED BY <5>1, <5>2
      <4> QED BY <4>1, <4>2
    <3>2. \A e : e \in left <=> \E s \in DOMAIN x.segs : e \in Remains(x, dead, s)
      <4> HIDE DEF dead
      <4> QED BY <1>5, <3>1
    <3> HIDE DEF dead, left, hit
    <3> QED BY <2>1, <3>1, <3>2 DEF Moves, v
  <2> HIDE DEF r, new, dead, left
  <2> QED BY <2>2, <2>3, <2>4, <2>5, CommitKeeps
<1> QED BY <1>6, <1>7

\* What a query gets for an entry, in a state.
OpenedIn(x, s, dv) ==
    IF <<s, dv>> \in DOMAIN x.cache THEN x.cache[<<s, dv>>]
    ELSE [rows |-> x.segs[s], dead |-> DeadIn(x, dv)]

LEMMA OpenedHandle ==
    ASSUME NEW x, FilesInv(x), NEW s, NEW dv, dv = NoMarks \/ MarkOf(x.m, s, dv),
           <<s, dv>> \in DOMAIN x.cache \/ s \in DOMAIN x.segs,
           NEW y, y.m = x.m, y.segs = x.segs, y.dvs = x.dvs,
           NEW k, k = <<s, dv>>, y.cache[k] = OpenedIn(x, s, dv)
    PROVE  HandleOK(y, k)
<1>1. k[1] = s /\ k[2] = dv /\ k = <<k[1], k[2]>>
  OBVIOUS
<1>2. CASE k \in DOMAIN x.cache
  <2>1. HandleOK(x, k) /\ y.cache[k] = x.cache[k]
    BY <1>2 DEF FilesInv, OpenedIn
  <2> QED BY <2>1 DEF HandleOK
<1>3. CASE k \notin DOMAIN x.cache
  <2>1. y.cache[k].rows = x.segs[s] /\ y.cache[k].dead = DeadIn(x, dv) /\ s \in DOMAIN x.segs
    BY <1>3 DEF OpenedIn
  <2>2. dv = NoMarks => DeadIn(x, dv) = {}
    BY NoMarksIsNoDV
  <2>3. dv \in DOMAIN x.dvs => DeadIn(x, dv) = x.dvs[dv]
    BY DEF DeadIn
  <2> QED BY <1>1, <2>1, <2>2, <2>3 DEF HandleOK
<1> QED BY <1>2, <1>3

\* Opening and dropping handles.
LEMMA CacheMoves ==
    ASSUME NEW x, TravelInv(x), NEW y, y.m = x.m, y.segs = x.segs, y.dvs = x.dvs, y.count = x.count,
           y.now = x.now, y.from = x.from, y.hist = x.hist, y.ins = x.ins, \A k \in DOMAIN y.cache : HandleOK(y, k)
    PROVE  TravelInv(y)
<1>1. FilesInv(y)
  BY DEF TravelInv, FilesInv
<1>2. HistoryInv(y)
  BY DEF TravelInv, HistoryInv
<1>3. \A v, s : LiveIn(y, v, s) = LiveIn(x, v, s)
  BY DEF LiveIn, DeadIn
<1>4. \A v, rows : Reads(x, v, rows) => Reads(y, v, rows)
  BY <1>3 DEF Reads
<1>5. ReadInv(y)
  BY <1>3, <1>4 DEF TravelInv, ReadInv, Latest, KeptIn
<1> QED BY <1>1, <1>2, <1>5 DEF TravelInv

\* The handles of a view, opened beside those that are open.
CacheOpened(x, y, v) ==
    /\ \A s \in DOMAIN v : <<s, v[s].dv>> \in DOMAIN x.cache \/ s \in DOMAIN x.segs
    /\ \A k \in DOMAIN y.cache : k \in DOMAIN x.cache \/ \E s \in DOMAIN v : k = <<s, v[s].dv>>
    /\ \A k \in DOMAIN y.cache : y.cache[k] = OpenedIn(x, k[1], k[2])

LEMMA ViewHandles ==
    ASSUME NEW x, FilesInv(x), NEW ts, NEW v, v = ViewIn(x.m, ts),
           NEW y, y.m = x.m, y.segs = x.segs, y.dvs = x.dvs, CacheOpened(x, y, v)
    PROVE  \A k \in DOMAIN y.cache : HandleOK(y, k)
<1> SUFFICES ASSUME NEW k \in DOMAIN y.cache PROVE HandleOK(y, k)
  OBVIOUS
<1>1. CASE k \in DOMAIN x.cache
  <2>1. HandleOK(x, k) /\ k = <<k[1], k[2]>>
    BY <1>1 DEF FilesInv, HandleOK
  <2>2. OpenedIn(x, k[1], k[2]) = x.cache[k]
    BY <1>1, <2>1 DEF OpenedIn
  <2>3. y.cache[k] = x.cache[k]
    BY <2>2 DEF CacheOpened
  <2> QED BY <2>1, <2>3 DEF HandleOK
<1>2. CASE k \notin DOMAIN x.cache
  <2>1. PICK s \in DOMAIN v : k = <<s, v[s].dv>>
    BY <1>2 DEF CacheOpened
  <2>2. y.cache[k] = OpenedIn(x, s, v[s].dv)
    BY <1>2, <2>1 DEF CacheOpened
  <2>3. EntriesOK(x.m, v)
    BY ViewEntries DEF FilesInv
  <2>4. v[s].dv = NoMarks \/ MarkOf(x.m, s, v[s].dv)
    BY <2>3 DEF EntriesOK
  <2>5. <<s, v[s].dv>> \in DOMAIN x.cache \/ s \in DOMAIN x.segs
    BY DEF CacheOpened
  <2> DEFINE dv == v[s].dv
  <2>6. k = <<s, dv>> /\ y.cache[k] = OpenedIn(x, s, dv) /\ (dv = NoMarks \/ MarkOf(x.m, s, dv))
        /\ (<<s, dv>> \in DOMAIN x.cache \/ s \in DOMAIN x.segs)
    BY <2>1, <2>2, <2>4, <2>5
  <2> HIDE DEF dv
  <2> QED BY <2>6, OpenedHandle
<1> QED BY <1>1, <1>2

LEMMA OpenedInState ==
    ASSUME NEW x, IsState(x)
    PROVE  \A s, dv : Opened(s, dv) = OpenedIn(x, s, dv)
BY TableIsView DEF Opened, OpenedIn, IsState

LEMMA QueryMoves ==
    ASSUME NEW x, IsState(x), TravelInv(x), NEW ts, QueryAt(ts), NEW y, IsState(y)'
    PROVE  TravelInv(y)
<1> DEFINE v == ViewIn(x.m, ts)
           used == {<<s, v[s].dv>> : s \in DOMAIN v}
<1>1. TableAt(ts) = v
  BY TableIsView
<1> HIDE DEF v
<1>2. FilesInv(x)
  BY DEF TravelInv
<1>3. /\ y.m = x.m /\ y.segs = x.segs /\ y.dvs = x.dvs /\ y.count = x.count
      /\ y.now = x.now /\ y.from = x.from /\ y.hist = x.hist /\ y.ins = x.ins
  BY DEF QueryAt, IsState
<1>4. \A s \in DOMAIN v : <<s, v[s].dv>> \in DOMAIN x.cache \/ s \in DOMAIN x.segs
  BY <1>1 DEF QueryAt, Opens, IsState
<1>5. PICK kept \in SUBSET (DOMAIN cache \ used) : cache' = [k \in kept \cup used |-> Opened(k[1], k[2])]
  BY <1>1 DEF QueryAt
<1>6. /\ \A k \in DOMAIN y.cache : k \in DOMAIN x.cache \/ \E s \in DOMAIN v : k = <<s, v[s].dv>>
      /\ \A k \in DOMAIN y.cache : y.cache[k] = OpenedIn(x, k[1], k[2])
  BY <1>5, OpenedInState DEF IsState
<1>7. \A k \in DOMAIN y.cache : HandleOK(y, k)
  <2>1. v = ViewIn(x.m, ts)
    BY DEF v
  <2>2. CacheOpened(x, y, v)
    BY <1>4, <1>6 DEF CacheOpened
  <2> QED BY <1>2, <1>3, <2>1, <2>2, ViewHandles
<1> QED BY <1>3, <1>7, CacheMoves

LEMMA VacuumMoves ==
    ASSUME NEW x, IsState(x), TravelInv(x), Vacuum, NEW y, IsState(y)'
    PROVE  TravelInv(y)
<1> DEFINE v == Latest(x)
           kept == {v[s].dv : s \in DOMAIN v}
<1>1. FilesInv(x) /\ HistoryInv(x) /\ ReadInv(x)
  BY DEF TravelInv
<1>2. TableNow = v
  BY TableIsView
<1> HIDE DEF v
<1>3. /\ y.m = x.m /\ y.segs = x.segs /\ y.cache = x.cache /\ y.count = x.count
      /\ y.now = x.now /\ y.hist = x.hist /\ y.ins = x.ins /\ y.from = x.now
  BY DEF Vacuum, IsState
<1>4. y.dvs = Removed(x.dvs, DOMAIN x.dvs \ kept)
  BY <1>2 DEF Vacuum, IsState
<1> HIDE DEF kept
<1>5. /\ DOMAIN y.dvs = DOMAIN x.dvs \cap kept
      /\ \A d \in DOMAIN y.dvs : y.dvs[d] = x.dvs[d]
      /\ y.dvs = [d \in DOMAIN y.dvs |-> y.dvs[d]]
  BY <1>4 DEF Removed
<1>6. FilesInv(y)
  <2>1. \A k \in DOMAIN y.cache : HandleOK(y, k)
    BY <1>1, <1>3, <1>5 DEF FilesInv, HandleOK
  <2>2. \A d \in DOMAIN y.dvs : \E s : MarkOf(y.m, s, d)
    BY <1>1, <1>3, <1>5 DEF FilesInv
  <2>3. x.now \in Nat
    BY <1>1 DEF FilesInv, RecordsOK
  <2> QED BY <1>1, <1>3, <1>5, <2>1, <2>2, <2>3 DEF FilesInv
<1>7. HistoryInv(y)
  BY <1>1, <1>3 DEF HistoryInv
<1>8. Reads(x, v, x.hist[x.now])
  BY <1>1 DEF ReadInv, HistoryInv, Latest, v
<1>9. \A s \in DOMAIN v : (v[s].dv \in DOMAIN y.dvs <=> v[s].dv \in DOMAIN x.dvs) /\ DeadIn(y, v[s].dv) = DeadIn(x, v[s].dv)
  <2>1. \A s \in DOMAIN v : v[s].dv \in kept
    BY DEF kept
  <2> QED BY <1>5, <2>1 DEF DeadIn
<1>10. Reads(y, v, x.hist[x.now]) /\ \A s \in DOMAIN v : LiveIn(y, v, s) = LiveIn(x, v, s)
  <2>1. \A s \in DOMAIN v : s \in DOMAIN y.segs /\ y.segs[s] = x.segs[s]
    BY <1>3, <1>8 DEF Reads
  <2>2. KeepsFiles(x, y, v)
    BY <1>9, <2>1 DEF KeepsFiles
  <2> QED BY <1>8, <2>2, ReadsKept
<1>11. Latest(y) = v
  BY <1>3 DEF Latest, v
<1>12. \A ts \in DOMAIN y.hist : ts >= y.from => ts = y.now
  BY <1>1, <1>3 DEF HistoryInv, FilesInv, RecordsOK
<1>13. ReadInv(y)
  <2>1. DOMAIN v = DOMAIN x.segs /\ \A s, u \in DOMAIN x.segs : s # u => LiveIn(x, v, s) \cap LiveIn(x, v, u) = {}
    BY <1>1 DEF ReadInv, v
  <2>2. Reads(y, Latest(y), y.hist[y.now])
    BY <1>3, <1>10, <1>11
  <2>3. \A ts \in DOMAIN y.hist : ts >= y.from => Reads(y, KeptIn(y, ts), y.hist[ts])
    BY <1>6, <1>12, <2>2, KeptNow
  <2> QED BY <1>3, <1>10, <1>11, <2>1, <2>2, <2>3 DEF ReadInv
<1> QED BY <1>6, <1>7, <1>13 DEF TravelInv

LEMMA RetentionMoves ==
    ASSUME NEW x, IsState(x), TravelInv(x), NEW cutoff \in Nat, VacuumRetention(cutoff), NEW y, IsState(y)'
    PROVE  TravelInv(y)
<1> DEFINE v == Latest(x)
           gone == {s \in DOMAIN v : Retirable(v, s, cutoff)}
           r == [ts |-> x.now + 1, adds |-> {}, marks |-> <<>>, removes |-> gone]
           goneDVs == {v[s].dv : s \in gone}
           w == ViewIn(y.m, y.now)
<1>1. FilesInv(x) /\ HistoryInv(x) /\ ReadInv(x)
  BY DEF TravelInv
<1>2. TableNow = v /\ \A t, s : RowsLeft(t, s) = LiveIn(x, t, s)
  BY TableIsView
<1>3. Reads(x, v, x.hist[x.now]) /\ DOMAIN v = DOMAIN x.segs
      /\ \A s, u \in DOMAIN x.segs : s # u => LiveIn(x, v, s) \cap LiveIn(x, v, u) = {}
  BY <1>1 DEF ReadInv, HistoryInv, Latest
<1>4. EntriesOK(x.m, v)
  BY <1>1, ViewEntries DEF FilesInv, Latest
<1> HIDE DEF v
<1>5. CASE gone = {}
  <2>1. /\ y.m = x.m /\ y.segs = x.segs /\ y.cache = x.cache /\ y.count = x.count /\ y.dvs = x.dvs
        /\ y.now = x.now /\ y.hist = x.hist /\ y.ins = x.ins /\ y.from = x.from
    BY <1>2, <1>5 DEF VacuumRetention, IsState
  <2>2. \A k \in DOMAIN y.cache : HandleOK(y, k)
    BY <1>1, <2>1 DEF FilesInv, HandleOK
  <2> QED BY <2>1, <2>2, CacheMoves
<1>6. CASE gone # {}
  <2>1. /\ y.m = Append(x.m, r) /\ y.segs = Removed(x.segs, gone) /\ y.dvs = Removed(x.dvs, goneDVs)
        /\ y.cache = Removed(x.cache, {k \in DOMAIN x.cache : k[1] \in gone})
        /\ y.now = x.now + 1 /\ y.from = Max({x.from, cutoff}) /\ y.count = x.count /\ y.ins = x.ins
        /\ y.hist = [u \in DOMAIN x.hist \cup {x.now + 1} |-> IF u = x.now + 1 THEN x.hist[x.now] ELSE x.hist[u]]
    BY <1>2, <1>6 DEF VacuumRetention, IsState, Remember
  <2>2. \A s \in gone : /\ LiveIn(x, v, s) = {}
                        /\ (IF v[s].dvTs > v[s].ts THEN v[s].dvTs ELSE v[s].ts) < cutoff
    BY <1>2 DEF Retirable
  <2>3. gone \subseteq DOMAIN v
    OBVIOUS
  <2> HIDE DEF gone
  <2>4. x.now \in Nat /\ y.now \in Nat /\ IsSequence(x.m) /\ x.m = x.m
    BY <1>1, <2>1 DEF FilesInv, RecordsOK
  <2>5. Extends(y.m, x.m, r)
    <3> HIDE DEF r
    <3> QED BY <2>1, <2>4, AppendedRecord
  <2>6. RecordsAre(y.m, x.m, r)
    <3> HIDE DEF r
    <3> QED BY <2>4, <2>5, ExtendedDomain
  <2>7. w = PublishRecord(v, r)
    <3>2. w = Publishes(ViewIn(x.m, y.now), r, y.now)
      <4> HIDE DEF r
      <4> QED BY <2>4, <2>5, ViewExtended
    <3>3. ViewIn(x.m, y.now) = v
      <4>1. \A i \in DOMAIN x.m : x.m[i].ts <= y.now <=> x.m[i].ts <= x.now
        BY <1>1, <2>1, NextIsFresh
      <4> QED BY <2>4, <4>1, SameView DEF Latest, v
    <3>4. r.ts <= y.now
      BY <2>1, <2>4
    <3> QED BY <3>2, <3>3, <3>4 DEF Publishes
  <2>8. PublishedAs(w, v, r)
    <3>1. \A s \in DOMAIN v : IsEntry(v[s])
      BY <1>4 DEF EntriesOK
    <3> HIDE DEF w, r
    <3> QED BY <2>7, <3>1, PublishedView
  <2>9. DOMAIN w = DOMAIN v \ gone /\ \A s \in DOMAIN w : w[s].dv = v[s].dv
    <3> HIDE DEF w
    <3>1. r.adds = {} /\ r.removes = gone /\ DOMAIN r.marks = {}
      OBVIOUS
    <3> HIDE DEF r
    <3> QED BY <2>8, <3>1 DEF PublishedAs
  <2>10. r.ts = y.now /\ DOMAIN r.marks = {}
    BY <2>1
  <2> HIDE DEF w, r
  <2>11. RecordsOK(y.m, y.now)
    <3>1. \A t \in 1..x.now : t \in 1..y.now
      BY <2>1, <2>4
    <3>2. y.now \in 1..y.now
      BY <2>1, <2>4
    <3>3. ASSUME NEW i \in DOMAIN y.m
          PROVE  /\ y.m[i].ts \in 1..y.now
                 /\ \A s \in DOMAIN y.m[i].marks : y.m[i].marks[s] = <<s, y.m[i].ts>>
      <4>1. CASE i \in DOMAIN x.m
        <5>1. y.m[i] = x.m[i]
          BY <2>6, <4>1 DEF RecordsAre
        <5>2. RecordsOK(x.m, x.now)
          BY <1>1 DEF FilesInv
        <5> QED BY ONLY <3>1, <4>1, <5>1, <5>2 DEF RecordsOK
      <4>2. CASE y.m[i] = r
        BY ONLY <2>10, <3>2, <4>2
      <4> QED BY <2>6, <4>1, <4>2 DEF RecordsAre
    <3>4. IsSequence(y.m)
      BY <2>5 DEF Extends
    <3> QED BY <2>4, <3>3, <3>4 DEF RecordsOK
  <2>12. \A s, d : MarkOf(x.m, s, d) => MarkOf(y.m, s, d)
    BY <2>6 DEF MarkOf, RecordsAre
  <2>13. /\ DOMAIN y.dvs = DOMAIN x.dvs \ goneDVs /\ y.dvs = [d \in DOMAIN y.dvs |-> y.dvs[d]]
         /\ \A d \in DOMAIN y.dvs : y.dvs[d] = x.dvs[d]
    BY <2>1 DEF Removed
  <2>14. /\ DOMAIN y.segs = DOMAIN x.segs \ gone
         /\ \A s \in DOMAIN y.segs : y.segs[s] = x.segs[s]
    BY <2>1 DEF Removed
  <2>15. \A k \in DOMAIN y.cache : k \in DOMAIN x.cache /\ k[1] \notin gone /\ y.cache[k] = x.cache[k]
    BY <2>1 DEF Removed
  <2>16. FilesInv(y)
    <3>1. \A k \in DOMAIN y.cache : HandleOK(y, k)
      <4> SUFFICES ASSUME NEW k \in DOMAIN y.cache PROVE HandleOK(y, k)
        OBVIOUS
      <4>1. HandleOK(x, k)
        BY <1>1, <2>15 DEF FilesInv
      <4> QED BY <2>12, <2>13, <2>14, <2>15, <4>1 DEF HandleOK
    <3>2. \A d \in DOMAIN y.dvs : \E s : MarkOf(y.m, s, d)
      BY <1>1, <2>12, <2>13 DEF FilesInv
    <3>3. y.count \in Nat /\ y.ins \in Nat /\ y.from \in Nat
      BY <1>1, <2>1, LaterOf DEF FilesInv
    <3>4. DOMAIN y.segs \subseteq 0..(y.count - 1) /\ \A s \in DOMAIN y.segs : y.segs[s] \subseteq 1..y.ins
      BY <1>1, <2>1, <2>14 DEF FilesInv
    <3>5. y.segs = [s \in DOMAIN y.segs |-> y.segs[s]]
      BY <2>1 DEF Removed
    <3> QED BY <2>11, <2>13, <3>1, <3>2, <3>3, <3>4, <3>5 DEF FilesInv
  <2>17. DOMAIN y.hist = DOMAIN x.hist \cup {y.now} /\ y.hist[y.now] = x.hist[x.now]
    BY <2>1
  <2>18. DOMAIN x.hist \subseteq 0..x.now /\ \A t \in 0..x.now : t \in 0..y.now /\ ~(y.now <= t)
    BY <1>1, <2>1, <2>4 DEF HistoryInv
  <2>19. HistoryInv(y)
    <3>1. y.now \in 0..y.now
      BY <2>4
    <3>2. DOMAIN y.hist \subseteq 0..y.now /\ y.now \in DOMAIN y.hist /\ 0 \in DOMAIN y.hist
      BY <1>1, <2>17, <2>18, <3>1 DEF HistoryInv
    <3>3. \A i \in DOMAIN y.m : y.m[i].ts \in DOMAIN y.hist
      BY <1>1, <2>6, <2>10, <2>17 DEF HistoryInv, RecordsAre
    <3>4. \A ts \in DOMAIN y.hist : (\A i \in DOMAIN y.m : y.m[i].ts <= ts) => ts = y.now
      BY <2>6, <2>10, <2>17, <2>18 DEF RecordsAre
    <3>5. y.hist = [ts \in DOMAIN y.hist |-> y.hist[ts]]
      BY <2>1
    <3> QED BY <3>2, <3>3, <3>4, <3>5 DEF HistoryInv
  <2>20. ASSUME NEW s \in DOMAIN w
         PROVE  /\ s \in DOMAIN y.segs /\ (w[s].dv = NoMarks \/ w[s].dv \in DOMAIN y.dvs)
                /\ LiveIn(y, w, s) = LiveIn(x, v, s)
    <3>1. s \in DOMAIN v /\ s \notin gone /\ w[s].dv = v[s].dv /\ s \in DOMAIN y.segs /\ y.segs[s] = x.segs[s]
      BY <1>3, <2>9, <2>14
    <3>2. v[s].dv = NoMarks \/ v[s].dv \in DOMAIN x.dvs
      BY <1>3, <3>1 DEF Reads
    <3>3. NoMarks \notin DOMAIN x.dvs /\ NoMarks \notin DOMAIN y.dvs
      BY <1>1, <2>16, NoMarksIsNoDV
    <3>4. v[s].dv \notin goneDVs \/ v[s].dv = NoMarks
      <4> SUFFICES ASSUME NEW u \in gone, v[s].dv = v[u].dv PROVE v[s].dv = NoMarks
        OBVIOUS
      <4>1. s # u /\ u \in DOMAIN v
        BY <2>3, <3>1
      <4>2. v[s].dv = NoMarks \/ MarkOf(x.m, s, v[s].dv)
        BY <1>4, <3>1 DEF EntriesOK
      <4>3. v[u].dv = NoMarks \/ MarkOf(x.m, u, v[u].dv)
        BY <1>4, <4>1 DEF EntriesOK
      <4>4. ~(MarkOf(x.m, s, v[s].dv) /\ MarkOf(x.m, u, v[s].dv))
        BY <4>1 DEF MarkOf
      <4> QED BY <4>2, <4>3, <4>4
    <3>5. w[s].dv = NoMarks \/ w[s].dv \in DOMAIN y.dvs
      BY <2>13, <3>1, <3>2, <3>4
    <3>6. DeadIn(y, w[s].dv) = DeadIn(x, v[s].dv)
      BY <2>13, <3>1, <3>3, <3>5 DEF DeadIn
    <3> QED BY <3>1, <3>5, <3>6 DEF LiveIn
  <2>21. Reads(y, w, y.hist[y.now])
    <3>1. \A e : e \in x.hist[x.now] <=> \E s \in DOMAIN v : e \in LiveIn(x, v, s)
      BY <1>3 DEF Reads
    <3>2. \A e : e \in x.hist[x.now] <=> \E s \in DOMAIN w : e \in LiveIn(y, w, s)
      BY <2>2, <2>9, <2>20, <3>1
    <3> QED BY <2>17, <2>20, <3>2 DEF Reads
  <2>22. Latest(y) = w
    BY DEF Latest, w
  <2>23. DOMAIN w = DOMAIN y.segs /\ \A s, u \in DOMAIN y.segs : s # u => LiveIn(y, w, s) \cap LiveIn(y, w, u) = {}
    <3>1. DOMAIN w = DOMAIN y.segs
      BY <1>3, <2>9, <2>14
    <3> QED BY <1>3, <2>9, <2>20, <3>1
  <2>24. ASSUME NEW ts \in DOMAIN y.hist, ts >= y.from
         PROVE  Reads(y, KeptIn(y, ts), y.hist[ts])
    <3>1. CASE ts = y.now
      BY <2>16, <2>21, <2>22, <3>1, KeptNow
    <3>2. CASE ts # y.now
      <4> DEFINE t == KeptIn(x, ts)
                 u == KeptIn(y, ts)
      <4>1. ts \in DOMAIN x.hist /\ ts \in 0..x.now /\ ts <= x.now /\ r.ts > ts /\ y.hist[ts] = x.hist[ts]
        BY <2>1, <2>4, <2>10, <2>17, <2>18, <3>2
      <4>2. ts >= x.from /\ ts >= cutoff
        <5>1. x.from \in Nat /\ cutoff \in Nat /\ y.from = Max({x.from, cutoff})
          BY <1>1, <2>1 DEF FilesInv
        <5>2. y.from \in Nat /\ y.from >= x.from /\ y.from >= cutoff
          BY <5>1, LaterOf
        <5> QED BY <2>24, <4>1, <5>1, <5>2
      <4>3. Reads(x, t, x.hist[ts])
        BY <1>1, <4>1, <4>2 DEF ReadInv
      <4>4. ViewIn(y.m, ts) = ViewIn(x.m, ts) /\ RetiredIn(y.m, ts) = RetiredIn(x.m, ts) \cup gone
        <5>1. ViewIn(y.m, ts) = Publishes(ViewIn(x.m, ts), r, ts)
          BY <2>4, <2>5, ViewExtended
        <5>2. ~(r.ts <= ts)
          BY <2>4, <2>10, <4>1
        <5>3. RetiredIn(y.m, ts) = RetiredIn(x.m, ts) \cup r.removes
          BY <2>4, <2>5, <4>1, RetiredMore
        <5> QED BY <5>1, <5>2, <5>3 DEF Publishes, r
      <4>5. DOMAIN u = DOMAIN t \ gone /\ \A s \in DOMAIN u : u[s] = t[s]
        BY <4>4 DEF KeptIn, Removed
      <4>6. \A s \in DOMAIN t : s \in DOMAIN ViewIn(x.m, ts) /\ t[s] = ViewIn(x.m, ts)[s]
        BY DEF KeptIn, Removed
      <4>7. EntriesOK(x.m, t)
        <5>1. EntriesOK(x.m, ViewIn(x.m, ts))
          BY <1>1, ViewEntries DEF FilesInv
        <5> QED BY <4>6, <5>1 DEF EntriesOK
      <4>8. ASSUME NEW s \in DOMAIN t, s \in gone PROVE LiveIn(x, t, s) = {}
        <5>1. v[s].ts \in Nat /\ v[s].dvTs \in Nat
          BY <1>4, <2>3, <4>8 DEF EntriesOK
        <5>2. v[s].ts <= ts /\ v[s].dvTs <= ts
          BY <2>2, <4>1, <4>2, <4>8, <5>1
        <5>3. EntryStays(ViewIn(x.m, ts), ViewIn(x.m, x.now), ts, s)
          BY <1>1, <4>1, OldEntryStays DEF FilesInv
        <5>4. t[s].dv = v[s].dv
          BY <2>3, <4>6, <4>8, <5>2, <5>3 DEF EntryStays, v, Latest
        <5> QED BY <2>2, <4>8, <5>4 DEF LiveIn
      <4> HIDE DEF t, u
      <4>9. ASSUME NEW s \in DOMAIN u
            PROVE  /\ s \in DOMAIN y.segs /\ (u[s].dv = NoMarks \/ u[s].dv \in DOMAIN y.dvs)
                   /\ LiveIn(y, u, s) = LiveIn(x, t, s)
        <5>1. s \in DOMAIN t /\ s \notin gone /\ u[s].dv = t[s].dv
          BY <4>5
        <5>2. s \in DOMAIN y.segs /\ y.segs[s] = x.segs[s] /\ (t[s].dv = NoMarks \/ t[s].dv \in DOMAIN x.dvs)
          BY <2>14, <4>3, <5>1 DEF Reads
        <5>3. t[s].dv = NoMarks \/ MarkOf(x.m, s, t[s].dv)
          BY <4>7, <5>1 DEF EntriesOK
        <5>4. t[s].dv \in goneDVs => t[s].dv = NoMarks
          <6> SUFFICES ASSUME NEW q \in gone, t[s].dv = v[q].dv PROVE t[s].dv = NoMarks
            OBVIOUS
          <6>1. s # q /\ q \in DOMAIN v
            BY <2>3, <5>1
          <6>2. v[q].dv = NoMarks \/ MarkOf(x.m, q, v[q].dv)
            BY <1>4, <6>1 DEF EntriesOK
          <6>3. ~(MarkOf(x.m, s, t[s].dv) /\ MarkOf(x.m, q, t[s].dv))
            BY <6>1 DEF MarkOf
          <6> QED BY <5>3, <6>2, <6>3
        <5>5. t[s].dv = NoMarks \/ t[s].dv \in DOMAIN y.dvs
          BY <2>13, <5>2, <5>4
        <5>6. NoMarks \notin DOMAIN x.dvs /\ NoMarks \notin DOMAIN y.dvs
          BY <1>1, <2>16, NoMarksIsNoDV
        <5>7. DeadIn(y, t[s].dv) = DeadIn(x, t[s].dv)
          BY <2>13, <5>5, <5>6 DEF DeadIn
        <5> QED BY <5>1, <5>2, <5>5, <5>7 DEF LiveIn
      <4>10. \A e : e \in x.hist[ts] <=> \E s \in DOMAIN u : e \in LiveIn(y, u, s)
        <5>1. \A e : e \in x.hist[ts] <=> \E s \in DOMAIN t : e \in LiveIn(x, t, s)
          BY <4>3 DEF Reads
        <5> QED BY <4>5, <4>8, <4>9, <5>1
      <4>11. Reads(y, u, y.hist[ts])
        BY <4>1, <4>9, <4>10 DEF Reads
      <4> QED BY <4>11 DEF u
    <3> QED BY <3>1, <3>2
  <2>25. ReadInv(y)
    BY <2>21, <2>22, <2>23, <2>24 DEF ReadInv
  <2> QED BY <2>16, <2>19, <2>25 DEF TravelInv
<1> QED BY <1>5, <1>6

LEMMA GreatestOfSome ==
    ASSUME NEW b \in Nat, NEW S, S \subseteq 0..b, S # {}
    PROVE  Max(S) \in S /\ \A j \in S : j <= Max(S)
<1> DEFINE gaps == {g \in 0..b : b - g \in S}
<1>1. gaps \subseteq Nat
  OBVIOUS
<1>2. gaps # {}
  <2>1. PICK j \in S : TRUE
    OBVIOUS
  <2>2. j \in 0..b /\ b - j \in 0..b /\ b - (b - j) = j
    OBVIOUS
  <2>3. b - j \in gaps
    BY <2>2
  <2> QED BY <2>3
<1>3. PICK g \in gaps : \A h \in gaps : g <= h
  <2> HIDE DEF gaps
  <2> QED BY <1>1, <1>2, LeastOfSome
<1>4. g \in 0..b /\ b - g \in S
  OBVIOUS
<1>5. ASSUME NEW j \in S PROVE j <= b - g
  <2>1. j \in 0..b /\ b - j \in 0..b /\ b - (b - j) = j
    OBVIOUS
  <2>2. b - j \in gaps
    BY <2>1
  <2>3. g <= b - j
    BY <1>3, <2>2
  <2> QED BY <1>4, <2>1, <2>3
<1>6. S \subseteq Nat
  OBVIOUS
<1>7. Max(S) = b - g
  BY <1>4, <1>5, <1>6, MaxIs
<1> QED BY <1>4, <1>5, <1>7

LEMMA LeastIn ==
    ASSUME NEW S, S \subseteq Nat, S # {}
    PROVE  Min(S) \in S
<1>1. \E i \in S : \A j \in S : i <= j
  BY LeastOfSome
<1> QED BY <1>1 DEF Min

LEMMA ReopenMoves ==
    ASSUME NEW x, IsState(x), TravelInv(x), Reopen, NEW y, IsState(y)'
    PROVE  TravelInv(y)
<1> DEFINE stamps == {0} \cup {x.m[i].ts : i \in DOMAIN x.m}
           v == Latest(x)
<1>1. FilesInv(x) /\ HistoryInv(x) /\ ReadInv(x)
  BY DEF TravelInv
<1>2. /\ y.m = x.m /\ y.segs = x.segs /\ y.dvs = x.dvs /\ y.cache = <<>>
      /\ y.from = Min({x.from, y.now}) /\ y.ins = x.ins /\ y.now = Max(stamps)
      /\ y.hist = [ts \in {u \in DOMAIN x.hist : u <= y.now} |-> x.hist[ts]]
  BY DEF Reopen, IsState
<1>3. /\ x.now \in Nat /\ IsSequence(x.m) /\ DOMAIN x.hist \subseteq 0..x.now
      /\ \A i \in DOMAIN x.m : x.m[i].ts \in 1..x.now
  BY <1>1 DEF FilesInv, RecordsOK, HistoryInv
<1>4. /\ y.now \in stamps /\ \A t \in stamps : t <= y.now
  <2>1. stamps \subseteq 0..x.now /\ stamps # {}
    BY <1>3
  <2> HIDE DEF stamps
  <2> QED BY <1>2, <1>3, <2>1, GreatestOfSome
<1>5. /\ y.now \in DOMAIN x.hist /\ y.now \in Nat /\ y.now <= x.now
      /\ \A i \in DOMAIN x.m : x.m[i].ts <= y.now /\ x.m[i].ts <= x.now
  <2>1. y.now \in DOMAIN x.hist
    BY <1>1, <1>4 DEF HistoryInv
  <2>2. \A i \in DOMAIN x.m : x.m[i].ts \in stamps
    OBVIOUS
  <2> HIDE DEF stamps
  <2> QED BY <1>3, <1>4, <2>1, <2>2
<1> HIDE DEF stamps
<1>6. x.hist[y.now] = x.hist[x.now]
  BY <1>1, <1>5 DEF HistoryInv
<1>7. ViewIn(x.m, y.now) = v
  <2>1. \A i \in DOMAIN x.m : x.m[i].ts <= y.now <=> x.m[i].ts <= x.now
    BY <1>5
  <2> QED BY <1>3, <2>1, SameView DEF Latest
<1>8. DOMAIN v = DOMAIN x.segs /\ Reads(x, v, x.hist[x.now])
  BY <1>1 DEF ReadInv, HistoryInv, Latest
<1>9. y.count = NextSegmentId(v)
  <2>1. \A ts : TableAt(ts) = ViewIn(x.m, ts)
    BY TableIsView
  <2>2. y.count = NextSegmentId(TableAt(nextCommitTs')) /\ y.now = nextCommitTs'
    BY DEF Reopen, IsState
  <2> HIDE DEF v
  <2> QED BY <1>7, <2>1, <2>2
<1> HIDE DEF v
<1>10. y.count \in Nat /\ DOMAIN y.segs \subseteq 0..(y.count - 1)
  <2> DEFINE S == DOMAIN v
  <2>1. S \subseteq 0..x.count /\ x.count \in Nat /\ y.segs = x.segs /\ S = DOMAIN x.segs
    BY <1>1, <1>2, <1>8 DEF FilesInv
  <2>2. y.count = IF S = {} THEN 0 ELSE Max(S) + 1
    BY <1>9 DEF NextSegmentId
  <2> HIDE DEF S
  <2>3. CASE S = {}
    BY <2>1, <2>2, <2>3
  <2>4. CASE S # {}
    <3>1. Max(S) \in S /\ \A j \in S : j <= Max(S)
      BY <2>1, <2>4, GreatestOfSome
    <3>2. Max(S) \in Nat /\ y.count = Max(S) + 1
      BY <2>1, <2>2, <2>4, <3>1
    <3> QED BY <2>1, <3>1, <3>2
  <2> QED BY <2>3, <2>4
<1>11. y.from \in {x.from, y.now} /\ y.from \in Nat
  <2>1. {x.from, y.now} \subseteq Nat /\ {x.from, y.now} # {}
    BY <1>1, <1>5 DEF FilesInv
  <2> QED BY <1>2, <2>1, LeastIn
<1>12. FilesInv(y)
  <2>1. RecordsOK(y.m, y.now)
    <3>1. \A i \in DOMAIN x.m : x.m[i].ts \in 1..y.now
      BY <1>3, <1>5
    <3> QED BY <1>1, <1>2, <1>5, <3>1 DEF FilesInv, RecordsOK
  <2>2. \A k \in DOMAIN y.cache : HandleOK(y, k)
    BY <1>2
  <2> QED BY <1>1, <1>2, <1>10, <1>11, <2>1, <2>2 DEF FilesInv
<1>13. DOMAIN y.hist = {u \in DOMAIN x.hist : u <= y.now} /\ \A u \in DOMAIN y.hist : y.hist[u] = x.hist[u]
  BY <1>2
<1>14. HistoryInv(y)
  <2>1. 0 <= y.now /\ y.now <= y.now /\ \A t \in 0..x.now : t <= y.now => t \in 0..y.now
    BY <1>3, <1>5
  <2>2. DOMAIN y.hist \subseteq 0..y.now /\ y.now \in DOMAIN y.hist /\ 0 \in DOMAIN y.hist
    BY <1>1, <1>3, <1>5, <1>13, <2>1 DEF HistoryInv
  <2>3. \A i \in DOMAIN y.m : y.m[i].ts \in DOMAIN y.hist
    BY <1>1, <1>2, <1>5, <1>13 DEF HistoryInv
  <2>4. ASSUME NEW ts \in DOMAIN y.hist, \A i \in DOMAIN y.m : y.m[i].ts <= ts
        PROVE  y.hist[ts] = y.hist[y.now]
    <3>1. ts \in DOMAIN x.hist /\ y.hist[ts] = x.hist[ts] /\ y.hist[y.now] = x.hist[y.now]
      BY <1>13, <2>2
    <3>2. x.hist[ts] = x.hist[x.now]
      BY <1>1, <1>2, <2>4, <3>1 DEF HistoryInv
    <3> QED BY <1>6, <3>1, <3>2
  <2>5. y.hist = [ts \in DOMAIN y.hist |-> y.hist[ts]]
    BY <1>2
  <2> QED BY <2>2, <2>3, <2>4, <2>5 DEF HistoryInv
<1>15. \A t, s : LiveIn(y, t, s) = LiveIn(x, t, s)
  BY <1>2 DEF LiveIn, DeadIn
<1>16. \A t, rows : Reads(x, t, rows) => Reads(y, t, rows)
  BY <1>2, <1>15 DEF Reads
<1>17. Latest(y) = v
  BY <1>2, <1>7 DEF Latest
<1>18. Reads(y, Latest(y), y.hist[y.now])
  BY <1>6, <1>8, <1>13, <1>14, <1>16, <1>17 DEF HistoryInv
<1>19. ASSUME NEW ts \in DOMAIN y.hist, ts >= y.from
       PROVE  Reads(y, KeptIn(y, ts), y.hist[ts])
  <2>1. CASE ts = y.now
    BY <1>12, <1>18, <2>1, KeptNow
  <2>2. CASE ts # y.now
    <3>1. ts \in DOMAIN x.hist /\ ts \in Nat /\ ts <= y.now /\ y.hist[ts] = x.hist[ts]
      BY <1>3, <1>13
    <3>2. ts >= x.from
      BY <1>5, <1>11, <1>19, <2>2, <3>1
    <3>3. Reads(x, KeptIn(x, ts), x.hist[ts]) /\ KeptIn(y, ts) = KeptIn(x, ts)
      BY <1>1, <1>2, <3>1, <3>2 DEF ReadInv, KeptIn
    <3> QED BY <1>16, <3>1, <3>3
  <2> QED BY <2>1, <2>2
<1>20. ReadInv(y)
  <2>1. DOMAIN Latest(y) = DOMAIN y.segs
    BY <1>2, <1>8, <1>17
  <2>2. \A s, u \in DOMAIN x.segs : s # u => LiveIn(x, v, s) \cap LiveIn(x, v, u) = {}
    BY <1>1 DEF ReadInv, v
  <2>3. \A s, u \in DOMAIN y.segs :
           s # u => LiveIn(y, Latest(y), s) \cap LiveIn(y, Latest(y), u) = {}
    BY <1>2, <1>15, <1>17, <2>2
  <2> QED BY <1>18, <1>19, <2>1, <2>3 DEF ReadInv
<1> QED BY <1>12, <1>14, <1>20 DEF TravelInv

-----------------------------------------------------------------------------
(* Compact: one commit per segment it rewrites. *)

Joins(c, a, b) ==
    /\ IsSequence(c) /\ Len(c) = Len(a) + Len(b)
    /\ \A i \in DOMAIN a : c[i] = a[i]
    /\ \A i \in 1..Len(b) : c[Len(a) + i] = b[i]

LEMMA ConcatOf ==
    ASSUME NEW a, IsSequence(a), NEW b, IsSequence(b), NEW c, c = a \o b
    PROVE  Joins(c, a, b)
<1> DEFINE S == {a[i] : i \in DOMAIN a} \cup {b[i] : i \in DOMAIN b}
<1>1. a \in Seq(S) /\ b \in Seq(S)
  BY DEF IsSequence
<1> HIDE DEF S
<1>2. c \in Seq(S)
  BY <1>1
<1>3. IsSequence(c)
  BY <1>2, AnySequence
<1> QED BY <1>1, <1>3 DEF Joins

LEMMA ConcatNothing ==
    ASSUME NEW a, IsSequence(a), NEW b, IsSequence(b), Len(b) = 0
    PROVE  a \o b = a
<1> DEFINE S == {a[i] : i \in DOMAIN a}
<1>1. a \in Seq(S)
  BY DEF IsSequence
<1>2. b = <<>>
  BY DEF IsSequence
<1> HIDE DEF S
<1> QED BY <1>1, <1>2

\* The state once the first i segments of a list are rewritten.
RewrittenTo(x, todo, i) ==
    [m |-> x.m \o [j \in 1..i |-> RewriteRecord(todo[j], x.count + j - 1, x.now + j)],
     segs |-> Written(x.segs, [s \in x.count..(x.count + i - 1) |->
                                  LiveIn(x, Latest(x), todo[s - x.count + 1])]),
     dvs |-> Written(x.dvs, [d \in {DVPath(todo[j], x.now + j) : j \in 1..i} |-> x.segs[d[1]]]),
     cache |-> x.cache, count |-> x.count + i, now |-> x.now + i, from |-> x.from,
     hist |-> Written(x.hist, [ts \in (x.now + 1)..(x.now + i) |-> x.hist[x.now]]),
     ins |-> x.ins]

\* Such a state, part by part.
RewrittenAs(x, todo, i, z) ==
    /\ IsSequence(z.m) /\ Len(z.m) = Len(x.m) + i
    /\ \A k \in DOMAIN x.m : z.m[k] = x.m[k]
    /\ \A j \in 1..i : z.m[Len(x.m) + j] = RewriteRecord(todo[j], x.count + j - 1, x.now + j)
    /\ z.segs = [s \in DOMAIN z.segs |-> z.segs[s]]
    /\ DOMAIN z.segs = DOMAIN x.segs \cup x.count..(x.count + i - 1)
    /\ \A s \in DOMAIN x.segs : z.segs[s] = x.segs[s]
    /\ \A j \in 1..i : z.segs[x.count + j - 1] = LiveIn(x, Latest(x), todo[j])
    /\ z.dvs = [d \in DOMAIN z.dvs |-> z.dvs[d]]
    /\ DOMAIN z.dvs = DOMAIN x.dvs \cup {<<todo[j], x.now + j>> : j \in 1..i}
    /\ \A d \in DOMAIN x.dvs : z.dvs[d] = x.dvs[d]
    /\ \A j \in 1..i : z.dvs[<<todo[j], x.now + j>>] = x.segs[todo[j]]
    /\ z.cache = x.cache /\ z.count = x.count + i /\ z.now = x.now + i /\ z.from = x.from /\ z.ins = x.ins
    /\ z.hist = [ts \in DOMAIN z.hist |-> z.hist[ts]]
    /\ DOMAIN z.hist = DOMAIN x.hist \cup (x.now + 1)..(x.now + i)
    /\ \A ts \in DOMAIN x.hist : z.hist[ts] = x.hist[ts]
    /\ \A ts \in (x.now + 1)..(x.now + i) : z.hist[ts] = x.hist[x.now]

LEMMA WrittenNothing ==
    ASSUME NEW f, f = [z \in DOMAIN f |-> f[z]], NEW g, DOMAIN g = {}
    PROVE  Written(f, g) = f
BY DEF Written

LEMMA RewrittenParts ==
    ASSUME NEW x, FilesInv(x), HistoryInv(x), NEW todo, NEW i \in Nat, NEW z, z = RewrittenTo(x, todo, i)
    PROVE  RewrittenAs(x, todo, i, z)
<1> DEFINE more == [j \in 1..i |-> RewriteRecord(todo[j], x.count + j - 1, x.now + j)]
           files == [s \in x.count..(x.count + i - 1) |-> LiveIn(x, Latest(x), todo[s - x.count + 1])]
           marks == [d \in {DVPath(todo[j], x.now + j) : j \in 1..i} |-> x.segs[d[1]]]
           rows == [ts \in (x.now + 1)..(x.now + i) |-> x.hist[x.now]]
<1>1. z.m = x.m \o more /\ z.segs = Written(x.segs, files) /\ z.dvs = Written(x.dvs, marks)
      /\ z.hist = Written(x.hist, rows)
      /\ z.cache = x.cache /\ z.count = x.count + i /\ z.now = x.now + i /\ z.from = x.from /\ z.ins = x.ins
  BY DEF RewrittenTo
<1>2. x.count \in Nat /\ x.now \in Nat /\ IsSequence(x.m) /\ DOMAIN x.segs \subseteq 0..(x.count - 1)
      /\ DOMAIN x.hist \subseteq 0..x.now
  BY DEF FilesInv, RecordsOK, HistoryInv
<1>3. /\ IsSequence(z.m) /\ Len(z.m) = Len(x.m) + i
      /\ \A k \in DOMAIN x.m : z.m[k] = x.m[k]
      /\ \A j \in 1..i : z.m[Len(x.m) + j] = RewriteRecord(todo[j], x.count + j - 1, x.now + j)
  <2>1. DOMAIN more = 1..i /\ more = [j \in 1..i |-> more[j]]
        /\ \A j \in 1..i : more[j] = RewriteRecord(todo[j], x.count + j - 1, x.now + j)
    OBVIOUS
  <2> HIDE DEF more
  <2>2. IsSequence(more) /\ Len(more) = i
    BY <2>1, Listing
  <2>3. z.m = x.m \o more
    BY <1>1
  <2>4. Joins(z.m, x.m, more)
    BY <1>2, <2>2, <2>3, ConcatOf
  <2> QED BY <2>1, <2>2, <2>4 DEF Joins
<1>4. /\ z.segs = [s \in DOMAIN z.segs |-> z.segs[s]]
      /\ DOMAIN z.segs = DOMAIN x.segs \cup x.count..(x.count + i - 1)
      /\ \A s \in DOMAIN x.segs : z.segs[s] = x.segs[s]
      /\ \A j \in 1..i : z.segs[x.count + j - 1] = LiveIn(x, Latest(x), todo[j])
  <2>1. DOMAIN files = x.count..(x.count + i - 1)
    OBVIOUS
  <2>2. ASSUME NEW j \in 1..i
        PROVE  x.count + j - 1 \in DOMAIN files /\ files[x.count + j - 1] = LiveIn(x, Latest(x), todo[j])
    <3>1. x.count + j - 1 \in x.count..(x.count + i - 1) /\ (x.count + j - 1) - x.count + 1 = j
      BY <1>2
    <3> QED BY <3>1
  <2>3. \A s \in DOMAIN x.segs : s \notin DOMAIN files
    BY <1>2, <2>1
  <2> HIDE DEF files
  <2> QED BY <1>1, <2>1, <2>2, <2>3 DEF Written
<1>5. /\ z.dvs = [d \in DOMAIN z.dvs |-> z.dvs[d]]
      /\ DOMAIN z.dvs = DOMAIN x.dvs \cup {<<todo[j], x.now + j>> : j \in 1..i}
      /\ \A d \in DOMAIN x.dvs : z.dvs[d] = x.dvs[d]
      /\ \A j \in 1..i : z.dvs[<<todo[j], x.now + j>>] = x.segs[todo[j]]
  <2>1. DOMAIN marks = {<<todo[j], x.now + j>> : j \in 1..i}
    BY DEF DVPath
  <2>2. \A j \in 1..i : <<todo[j], x.now + j>> \in DOMAIN marks /\ marks[<<todo[j], x.now + j>>] = x.segs[todo[j]]
    BY DEF DVPath
  <2>3. \A d \in DOMAIN x.dvs : d \notin DOMAIN marks
    <3> SUFFICES ASSUME NEW d \in DOMAIN x.dvs, NEW j \in 1..i, d = <<todo[j], x.now + j>> PROVE FALSE
      BY <2>1
    <3>1. PICK s : MarkOf(x.m, s, d)
      BY DEF FilesInv
    <3>2. PICK k \in DOMAIN x.m : d = <<s, x.m[k].ts>>
      BY <3>1 DEF MarkOf
    <3>3. x.m[k].ts \in 1..x.now /\ x.m[k].ts = x.now + j
      BY <3>2 DEF FilesInv, RecordsOK
    <3> QED BY <1>2, <3>3
  <2> HIDE DEF marks
  <2> QED BY <1>1, <2>1, <2>2, <2>3 DEF Written
<1>6. /\ z.hist = [ts \in DOMAIN z.hist |-> z.hist[ts]]
      /\ DOMAIN z.hist = DOMAIN x.hist \cup (x.now + 1)..(x.now + i)
      /\ \A ts \in DOMAIN x.hist : z.hist[ts] = x.hist[ts]
      /\ \A ts \in (x.now + 1)..(x.now + i) : z.hist[ts] = x.hist[x.now]
  <2>1. DOMAIN rows = (x.now + 1)..(x.now + i) /\ \A ts \in DOMAIN rows : rows[ts] = x.hist[x.now]
    OBVIOUS
  <2>2. \A ts \in DOMAIN x.hist : ts \notin DOMAIN rows
    BY <1>2, <2>1
  <2> HIDE DEF rows
  <2> QED BY <1>1, <2>1, <2>2 DEF Written
<1> QED BY <1>1, <1>3, <1>4, <1>5, <1>6 DEF RewrittenAs

LEMMA NothingRewritten ==
    ASSUME NEW x, TravelInv(x), NEW todo, NEW z, z = RewrittenTo(x, todo, 0)
    PROVE  TravelInv(z) /\ Latest(z) = Latest(x) /\ z.segs = x.segs /\ z.dvs = x.dvs
<1> DEFINE more == [j \in 1..0 |-> RewriteRecord(todo[j], x.count + j - 1, x.now + j)]
           files == [s \in x.count..(x.count + 0 - 1) |-> LiveIn(x, Latest(x), todo[s - x.count + 1])]
           marks == [d \in {DVPath(todo[j], x.now + j) : j \in 1..0} |-> x.segs[d[1]]]
           rows == [ts \in (x.now + 1)..(x.now + 0) |-> x.hist[x.now]]
<1>1. FilesInv(x) /\ HistoryInv(x)
  BY DEF TravelInv
<1>2. /\ IsSequence(x.m) /\ x.now \in Nat /\ x.count \in Nat
      /\ x.segs = [s \in DOMAIN x.segs |-> x.segs[s]] /\ x.dvs = [d \in DOMAIN x.dvs |-> x.dvs[d]]
      /\ x.hist = [ts \in DOMAIN x.hist |-> x.hist[ts]]
  BY <1>1 DEF FilesInv, HistoryInv, RecordsOK
<1>3. z.m = x.m \o more /\ z.segs = Written(x.segs, files) /\ z.dvs = Written(x.dvs, marks)
      /\ z.hist = Written(x.hist, rows)
      /\ z.cache = x.cache /\ z.count = x.count + 0 /\ z.now = x.now + 0 /\ z.from = x.from /\ z.ins = x.ins
  BY DEF RewrittenTo
<1>4. z.m = x.m
  <2>1. DOMAIN more = 1..0 /\ more = [j \in 1..0 |-> more[j]]
    OBVIOUS
  <2> HIDE DEF more
  <2>2. IsSequence(more) /\ Len(more) = 0
    BY <2>1, Listing
  <2>3. IsSequence(x.m) /\ z.m = x.m \o more
    BY <1>2, <1>3
  <2>4. x.m \o more = x.m
    BY <2>2, <2>3, ConcatNothing
  <2> QED BY <2>3, <2>4
<1>5. DOMAIN files = {} /\ DOMAIN marks = {} /\ DOMAIN rows = {}
  BY <1>2
<1> HIDE DEF more, files, marks, rows
<1>6. z.segs = x.segs /\ z.dvs = x.dvs /\ z.hist = x.hist
  BY <1>2, <1>3, <1>5, WrittenNothing
<1>7. z.count = x.count /\ z.now = x.now
  BY <1>2, <1>3
<1>8. \A k \in DOMAIN z.cache : HandleOK(z, k)
  BY <1>1, <1>3, <1>4, <1>6 DEF FilesInv, HandleOK
<1>9. TravelInv(z)
  BY <1>3, <1>4, <1>6, <1>7, <1>8, CacheMoves
<1> QED BY <1>4, <1>6, <1>7, <1>9 DEF Latest

\* Segments that are there, each once.
IsWorklist(x, todo) ==
    /\ IsSequence(todo) /\ \A j \in DOMAIN todo : todo[j] \in DOMAIN x.segs
    /\ \A j, k \in DOMAIN todo : todo[j] = todo[k] => j = k

\* What is still to be rewritten is as it was.
Waiting(x, todo, i, z) ==
    \A j \in DOMAIN todo : j > i => LiveIn(z, Latest(z), todo[j]) = LiveIn(x, Latest(x), todo[j])

LEMMA OneMoreRewritten ==
    ASSUME NEW x, FilesInv(x), HistoryInv(x), NEW todo, IsWorklist(x, todo), NEW i \in Nat, i + 1 \in DOMAIN todo,
           NEW a, RewrittenAs(x, todo, i, a), TravelInv(a), Waiting(x, todo, i, a),
           NEW b, RewrittenAs(x, todo, i + 1, b)
    PROVE  TravelInv(b) /\ Waiting(x, todo, i + 1, b)
<1> DEFINE s0 == todo[i + 1]
           new == [s \in {a.count} |-> LiveIn(x, Latest(x), s0)]
           dead == [s \in {s0} |-> x.segs[s0]]
           r == RewriteRecord(s0, a.count, a.now + 1)
           rows == x.hist[x.now]
<1>1. x.count \in Nat /\ x.now \in Nat /\ IsSequence(x.m) /\ Len(x.m) \in Nat
  BY SequenceLength DEF FilesInv, RecordsOK
<1>2. /\ a.count = x.count + i /\ a.now = x.now + i /\ a.count \in Nat /\ a.now \in Nat
      /\ b.count = a.count + 1 /\ b.now = a.now + 1
  <2>1. a.count = x.count + i /\ a.now = x.now + i /\ b.count = x.count + (i + 1) /\ b.now = x.now + (i + 1)
    BY DEF RewrittenAs
  <2>2. \A p \in Nat : p + i \in Nat /\ p + (i + 1) = (p + i) + 1
    OBVIOUS
  <2>3. x.count \in Nat /\ x.now \in Nat
    BY <1>1
  <2> QED BY ONLY <2>1, <2>2, <2>3, Zenon
<1>3. i + 1 \in 1..(i + 1) /\ \A j \in 1..i : j \in 1..(i + 1)
  OBVIOUS
<1>4. i \in Nat
  OBVIOUS
<1>5. FilesInv(a) /\ HistoryInv(a) /\ ReadInv(a)
  BY DEF TravelInv
<1>6. s0 \in DOMAIN x.segs /\ s0 \in DOMAIN a.segs /\ a.segs[s0] = x.segs[s0]
  BY DEF IsWorklist, RewrittenAs
<1>7. CommitsRecord(a, b, r, new, dead)
  <2>1. Extends(b.m, a.m, r)
    <3>1. IsSequence(b.m) /\ Len(a.m) = Len(x.m) + i /\ Len(b.m) = Len(a.m) + 1
      <4>1. IsSequence(b.m) /\ Len(a.m) = Len(x.m) + i /\ Len(b.m) = Len(x.m) + (i + 1)
        BY DEF RewrittenAs
      <4> DEFINE la == Len(a.m)
                 lb == Len(b.m)
                 lx == Len(x.m)
      <4>2. lx \in Nat /\ la = lx + i /\ lb = lx + (i + 1)
        BY <1>1, <4>1
      <4> HIDE DEF la, lb, lx
      <4>3. lb = la + 1
        BY <4>2
      <4> QED BY <4>1, <4>3 DEF la, lb
    <3>2. b.m[Len(a.m) + 1] = r
      <4>1. b.m[Len(x.m) + (i + 1)] = RewriteRecord(todo[i + 1], x.count + (i + 1) - 1, x.now + (i + 1))
        BY <1>3 DEF RewrittenAs
      <4>2. Len(a.m) + 1 = Len(x.m) + (i + 1) /\ x.count + (i + 1) - 1 = a.count /\ x.now + (i + 1) = a.now + 1
        <5>1. a.count = x.count + i /\ a.now = x.now + i /\ Len(a.m) = Len(x.m) + i
          BY <1>2, <3>1
        <5>2. Len(a.m) + 1 = Len(x.m) + (i + 1)
          <6> DEFINE la == Len(a.m)
                     lx == Len(x.m)
          <6>1. lx \in Nat /\ la = lx + i
            BY <1>1, <5>1
          <6> HIDE DEF la, lx
          <6>2. la + 1 = lx + (i + 1)
            BY <6>1
          <6> QED BY <6>2 DEF la, lx
        <5>3. x.count + (i + 1) - 1 = x.count + i
          BY <1>1
        <5>4. x.now + (i + 1) = (x.now + i) + 1
          BY <1>1
        <5> QED BY <5>1, <5>2, <5>3, <5>4
      <4> QED BY <4>1, <4>2
    <3>3. ASSUME NEW k \in DOMAIN a.m PROVE b.m[k] = a.m[k]
      <4>1. k \in 1..(Len(x.m) + i)
        BY <1>5, <3>1, SequenceLength DEF FilesInv, RecordsOK
      <4>2. CASE k \in DOMAIN x.m
        BY <4>2 DEF RewrittenAs
      <4>3. CASE k \notin DOMAIN x.m
        <5> DEFINE j == k - Len(x.m)
        <5>1. k \notin 1..Len(x.m)
          BY <1>1, <4>3, SequenceLength
        <5>2. j \in 1..i /\ Len(x.m) + j = k
          BY <1>1, <4>1, <5>1
        <5> HIDE DEF j
        <5>3. a.m[Len(x.m) + j] = b.m[Len(x.m) + j]
          <6>1. \A l \in 1..i : a.m[Len(x.m) + l] = RewriteRecord(todo[l], x.count + l - 1, x.now + l)
            BY DEF RewrittenAs
          <6>2. \A l \in 1..(i + 1) : b.m[Len(x.m) + l] = RewriteRecord(todo[l], x.count + l - 1, x.now + l)
            BY DEF RewrittenAs
          <6> QED BY <1>3, <5>2, <6>1, <6>2
        <5> QED BY <5>2, <5>3
      <4> QED BY <4>2, <4>3
    <3> HIDE DEF r
    <3> QED BY <3>1, <3>2, <3>3 DEF Extends
  <2>2. r = [ts |-> a.now + 1, adds |-> {a.count}, removes |-> {}, marks |-> [q \in {s0} |-> <<q, a.now + 1>>]]
    BY DEF RewriteRecord, DVPath
  <2>3. /\ r.ts = a.now + 1 /\ r.removes = {} /\ r.adds = DOMAIN new
        /\ DOMAIN r.marks = DOMAIN dead
        /\ \A s \in DOMAIN dead : r.marks[s] = <<s, a.now + 1>>
    <3> HIDE DEF s0
    <3> QED BY <2>2
  <2> HIDE DEF r, new, dead
  <2> QED BY <2>1, <2>3 DEF CommitsRecord
<1>8. DOMAIN new = {a.count} /\ new[a.count] = LiveIn(x, Latest(x), s0) /\ DOMAIN dead = {s0} /\ dead[s0] = x.segs[s0]
  OBVIOUS
<1> HIDE DEF r, new, dead
<1>9. CommitsFiles(a, b, new, dead)
  <2>1. DOMAIN b.segs = DOMAIN a.segs \cup DOMAIN new
    <3>1. x.count..(x.count + (i + 1) - 1) = x.count..(x.count + i - 1) \cup {a.count}
      BY <1>1, <1>2
    <3> QED BY <1>8, <3>1 DEF RewrittenAs
  <2>2. \A s \in DOMAIN a.segs \ DOMAIN new : b.segs[s] = a.segs[s]
    <3> SUFFICES ASSUME NEW s \in DOMAIN a.segs PROVE b.segs[s] = a.segs[s]
      OBVIOUS
    <3>1. CASE s \in DOMAIN x.segs
      BY <3>1 DEF RewrittenAs
    <3>2. CASE s \in x.count..(x.count + i - 1)
      <4> DEFINE j == s - x.count + 1
      <4>1. j \in 1..i /\ x.count + j - 1 = s
        <5>1. i \in Nat /\ x.count \in Nat
          BY <1>1
        <5> QED BY ONLY <3>2, <5>1
      <4> HIDE DEF j
      <4>2. a.segs[x.count + j - 1] = b.segs[x.count + j - 1]
        <5>1. \A l \in 1..i : a.segs[x.count + l - 1] = LiveIn(x, Latest(x), todo[l])
          BY DEF RewrittenAs
        <5>2. \A l \in 1..(i + 1) : b.segs[x.count + l - 1] = LiveIn(x, Latest(x), todo[l])
          BY DEF RewrittenAs
        <5> QED BY <1>3, <4>1, <5>1, <5>2
      <4> QED BY <4>1, <4>2
    <3> QED BY <3>1, <3>2 DEF RewrittenAs
  <2>3. b.segs[a.count] = new[a.count]
    <3>1. b.segs[x.count + (i + 1) - 1] = LiveIn(x, Latest(x), todo[i + 1])
      BY <1>3 DEF RewrittenAs
    <3>2. x.count + (i + 1) - 1 = a.count
      BY <1>1, <1>2
    <3> QED BY <1>8, <3>1, <3>2
  <2>4. new[a.count] \subseteq 1..b.ins
    <3>1. x.segs[s0] \subseteq 1..x.ins /\ b.ins = x.ins
      BY <1>6 DEF FilesInv, RewrittenAs
    <3> HIDE DEF s0
    <3> QED BY <1>8, <3>1 DEF LiveIn
  <2>5. {<<todo[j], x.now + j>> : j \in 1..(i + 1)} = {<<todo[j], x.now + j>> : j \in 1..i} \cup {<<s0, a.now + 1>>}
    <3>1. \A j \in 1..(i + 1) : j \in 1..i \/ j = i + 1
      OBVIOUS
    <3>2. x.now + (i + 1) = a.now + 1
      BY ONLY <1>1, <1>2, <1>4
    <3> QED BY <1>3, <3>1, <3>2
  <2>6. DOMAIN b.dvs = DOMAIN a.dvs \cup {<<s, a.now + 1>> : s \in DOMAIN dead}
    <3>1. {<<s, a.now + 1>> : s \in DOMAIN dead} = {<<s0, a.now + 1>>}
      BY <1>8
    <3>2. DOMAIN b.dvs = DOMAIN a.dvs \cup {<<s0, a.now + 1>>}
      BY <2>5 DEF RewrittenAs
    <3> QED BY <3>1, <3>2
  <2>7. ASSUME NEW d \in DOMAIN a.dvs PROVE b.dvs[d] = a.dvs[d]
    <3>1. CASE d \in DOMAIN x.dvs
      BY <3>1 DEF RewrittenAs
    <3>2. CASE d \in {<<todo[j], x.now + j>> : j \in 1..i}
      BY <1>3, <3>2 DEF RewrittenAs
    <3> QED BY <3>1, <3>2 DEF RewrittenAs
  <2>8. b.dvs[<<s0, a.now + 1>>] = dead[s0]
    <3>1. b.dvs[<<todo[i + 1], x.now + (i + 1)>>] = x.segs[todo[i + 1]]
      BY <1>3 DEF RewrittenAs
    <3>2. x.now + (i + 1) = a.now + 1
      BY ONLY <1>1, <1>2, <1>4
    <3> QED BY <1>8, <3>1, <3>2
  <2>9. b.segs = [s \in DOMAIN b.segs |-> b.segs[s]] /\ b.dvs = [d \in DOMAIN b.dvs |-> b.dvs[d]] /\ b.cache = a.cache
    BY DEF RewrittenAs
  <2> HIDE DEF s0
  <2> QED BY <1>8, <2>1, <2>2, <2>3, <2>4, <2>6, <2>7, <2>8, <2>9 DEF CommitsFiles
<1>10. CommitsCounters(a, b, new, rows)
  <2>1. x.count + i \in Nat /\ b.from = a.from /\ b.ins = a.ins /\ a.ins \in Nat
    BY <1>1, <1>5 DEF RewrittenAs, FilesInv
  <2>2. DOMAIN new \subseteq a.count..(b.count - 1)
    BY <1>2, <1>8
  <2>3. (x.now + 1)..(x.now + (i + 1)) = (x.now + 1)..(x.now + i) \cup {a.now + 1}
    <3>1. a.now = x.now + i
      BY <1>2
    <3>2. (x.now + 1)..(x.now + (i + 1)) = (x.now + 1)..(x.now + i) \cup {x.now + i + 1}
      BY ONLY <1>1, <1>4
    <3> QED BY <3>1, <3>2
  <2>4. DOMAIN b.hist = DOMAIN a.hist \cup {a.now + 1} /\ b.hist = [ts \in DOMAIN b.hist |-> b.hist[ts]]
    BY <2>3 DEF RewrittenAs
  <2>5. \A ts \in DOMAIN a.hist : b.hist[ts] = a.hist[ts]
    BY <2>3 DEF RewrittenAs
  <2>6. b.hist[a.now + 1] = rows
    BY <2>3 DEF RewrittenAs
  <2> HIDE DEF rows
  <2> QED BY <1>2, <2>1, <2>2, <2>4, <2>5, <2>6 DEF CommitsCounters
<1>11. LiveIn(a, Latest(a), s0) = LiveIn(x, Latest(x), s0)
  BY DEF Waiting
<1>12. Remains(a, dead, s0) = {} /\ \A s \in DOMAIN a.segs : s # s0 => Remains(a, dead, s) = LiveIn(a, Latest(a), s)
  BY <1>6, <1>8 DEF Remains
<1>13. Moves(a, new, dead, rows)
  <2>1. a.hist[a.now] = rows
    <3>1. a.now = x.now \/ a.now \in (x.now + 1)..(x.now + i)
      BY <1>1, <1>2
    <3>2. x.now \in DOMAIN x.hist
      BY DEF HistoryInv
    <3> QED BY <3>1, <3>2 DEF RewrittenAs
  <2>2. Reads(a, Latest(a), a.hist[a.now]) /\ DOMAIN Latest(a) = DOMAIN a.segs
        /\ \A s, u \in DOMAIN a.segs : s # u => LiveIn(a, Latest(a), s) \cap LiveIn(a, Latest(a), u) = {}
    BY <1>5 DEF ReadInv, HistoryInv, Latest
  <2>3. \A e : e \in rows <=> \E s \in DOMAIN a.segs : e \in LiveIn(a, Latest(a), s)
    BY <2>1, <2>2 DEF Reads
  <2> HIDE DEF rows, s0
  <2>4. \A e : e \in rows <=> (\E s \in DOMAIN a.segs : e \in Remains(a, dead, s)) \/ \E s \in DOMAIN new : e \in new[s]
    BY <1>6, <1>8, <1>11, <1>12, <2>3
  <2>5. \A s \in DOMAIN new, u \in DOMAIN a.segs : new[s] \cap Remains(a, dead, u) = {}
    BY <1>6, <1>8, <1>11, <1>12, <2>2
  <2>6. \A s \in DOMAIN a.segs : Remains(a, dead, s) \subseteq LiveIn(a, Latest(a), s)
    BY <1>12
  <2> QED BY <1>6, <1>8, <2>4, <2>5, <2>6 DEF Moves
<1>14. TravelInv(b)
  <2> HIDE DEF rows
  <2> QED BY <1>7, <1>9, <1>10, <1>13, CommitKeeps
<1>15. \A s \in DOMAIN a.segs : LiveIn(b, Latest(b), s) = Remains(a, dead, s)
  <2>1. Latest(b) = ViewIn(b.m, a.now + 1)
    BY <1>2 DEF Latest
  <2>2. DOMAIN dead \subseteq DOMAIN a.segs
    BY <1>6, <1>8
  <2> HIDE DEF rows
  <2> QED BY <1>7, <1>9, <1>10, <2>1, <2>2, CommitRows
<1>16. Waiting(x, todo, i + 1, b)
  <2> SUFFICES ASSUME NEW j \in DOMAIN todo, j > i + 1
               PROVE  LiveIn(b, Latest(b), todo[j]) = LiveIn(x, Latest(x), todo[j])
    BY DEF Waiting
  <2>1. j \in Nat /\ j # i + 1 /\ j > i
    BY SequenceLength DEF IsWorklist
  <2>2. todo[j] # s0 /\ todo[j] \in DOMAIN a.segs
    BY <2>1 DEF IsWorklist, RewrittenAs
  <2>3. LiveIn(a, Latest(a), todo[j]) = LiveIn(x, Latest(x), todo[j])
    BY <2>1 DEF Waiting
  <2> QED BY <1>12, <1>15, <2>2, <2>3
<1> QED BY <1>14, <1>16

LEMMA AllRewritten ==
    ASSUME NEW x, TravelInv(x), NEW todo, IsWorklist(x, todo), NEW n \in 0..Len(todo)
    PROVE  TravelInv(RewrittenTo(x, todo, n))
<1> DEFINE Reached(i) == LET z == RewrittenTo(x, todo, i) IN TravelInv(z) /\ Waiting(x, todo, i, z)
           Missed == {i \in 0..n : ~Reached(i)}
<1>1. FilesInv(x) /\ HistoryInv(x) /\ n \in Nat /\ Len(todo) \in Nat /\ DOMAIN todo = 1..Len(todo)
  BY SequenceLength DEF TravelInv, IsWorklist
<1>2. Reached(0)
  <2> DEFINE z == RewrittenTo(x, todo, 0)
  <2>1. z = RewrittenTo(x, todo, 0)
    OBVIOUS
  <2> HIDE DEF z
  <2>2. TravelInv(z) /\ Latest(z) = Latest(x) /\ z.segs = x.segs /\ z.dvs = x.dvs
    BY <2>1, NothingRewritten
  <2>3. Waiting(x, todo, 0, z)
    BY <2>2 DEF Waiting, LiveIn, DeadIn
  <2> QED BY <2>2, <2>3 DEF z
<1>3. ASSUME NEW i \in Nat, i + 1 \in 0..n, Reached(i) PROVE Reached(i + 1)
  <2> DEFINE a == RewrittenTo(x, todo, i)
             b == RewrittenTo(x, todo, i + 1)
  <2>1. a = RewrittenTo(x, todo, i) /\ b = RewrittenTo(x, todo, i + 1) /\ TravelInv(a) /\ Waiting(x, todo, i, a)
    BY <1>3
  <2> HIDE DEF a, b, Reached
  <2>2. i + 1 \in DOMAIN todo /\ i + 1 \in Nat
    BY <1>1, <1>3
  <2>3. RewrittenAs(x, todo, i, a)
    BY <1>1, <2>1, RewrittenParts
  <2>4. RewrittenAs(x, todo, i + 1, b)
    BY <1>1, <2>1, <2>2, RewrittenParts
  <2>5. TravelInv(b) /\ Waiting(x, todo, i + 1, b)
    BY <1>1, <2>1, <2>2, <2>3, <2>4, OneMoreRewritten
  <2> QED BY <2>5 DEF b, Reached
<1> HIDE DEF Reached
<1>4. Missed = {}
  <2> SUFFICES ASSUME Missed # {} PROVE FALSE
    OBVIOUS
  <2>1. Missed \subseteq Nat
    BY <1>1
  <2>2. PICK i \in Missed : \A j \in Missed : i <= j
    <3> HIDE DEF Missed
    <3> QED BY <2>1, LeastOfSome
  <2>3. i \in 0..n /\ ~Reached(i) /\ i # 0
    BY <1>2
  <2>4. i - 1 \in Nat /\ i - 1 \in 0..n /\ ~(i <= i - 1) /\ (i - 1) + 1 = i
    BY <1>1, <2>3
  <2>5. Reached(i - 1)
    BY <2>2, <2>4
  <2>6. \A k \in Nat : k + 1 \in 0..n /\ Reached(k) => Reached(k + 1)
    BY <1>3
  <2> QED BY <2>3, <2>4, <2>5, <2>6
<1>5. Reached(n)
  BY <1>1, <1>4
<1> QED BY <1>5 DEF Reached

LEMMA CompactMoves ==
    ASSUME NEW x, IsState(x), TravelInv(x), NEW altered, Compact(altered), NEW y, IsState(y)'
    PROVE  TravelInv(y)
<1> DEFINE v == Latest(x)
           work == {s \in DOMAIN v : s \in altered \/ HalfDeleted(v, s)}
           todo == SetToSeq(work)
           barren == {i \in DOMAIN todo : RowsLeft(v, todo[i]) = {}}
           n == IF barren = {} THEN Len(todo) ELSE Min(barren) - 1
           x1 == [m |-> manifest, segs |-> segments, dvs |-> dvFiles, cache |-> cache',
                  count |-> segCount, now |-> nextCommitTs, from |-> cleaned,
                  hist |-> history, ins |-> inserted]
           z == RewrittenTo(x1, todo, n)
<1>1. FilesInv(x) /\ HistoryInv(x) /\ ReadInv(x)
  BY DEF TravelInv
<1>2. TableNow = v /\ \A t, s : RowsLeft(t, s) = LiveIn(x, t, s)
  BY TableIsView
<1>3. DOMAIN v = DOMAIN x.segs /\ v = ViewIn(x.m, x.now)
  BY <1>1 DEF ReadInv, Latest
<1> HIDE DEF v
<1>4. /\ manifest' = manifest \o [i \in 1..n |-> RewriteRecord(todo[i], segCount + i - 1, nextCommitTs + i)]
      /\ segments' = Written(segments, [s \in segCount..(segCount + n - 1) |-> Rewritten(v, todo[s - segCount + 1])])
      /\ dvFiles' = Written(dvFiles, [d \in {DVPath(todo[i], nextCommitTs + i) : i \in 1..n} |-> segments[d[1]]])
      /\ segCount' = segCount + n /\ nextCommitTs' = nextCommitTs + n
      /\ history' = Written(history, [ts \in (nextCommitTs + 1)..(nextCommitTs + n) |-> history[nextCommitTs]])
      /\ cache' = Written(cache, [k \in {<<s, v[s].dv>> : s \in DOMAIN v} |-> Opened(k[1], k[2])])
      /\ cleaned' = cleaned /\ inserted' = inserted
  BY <1>2 DEF Compact
<1>5. Lists(todo, work)
  <2>1. IsFiniteSet(work)
    <3>1. work \subseteq 0..(x.count - 1) /\ x.count \in Nat
      BY <1>1, <1>3 DEF FilesInv
    <3>2. IsFiniteSet(0..(x.count - 1))
      BY <3>1, FS_Interval
    <3> HIDE DEF work
    <3> QED BY <3>1, <3>2, FS_Subset
  <2> HIDE DEF work
  <2> QED BY <2>1, ListedSet
<1>6. work \subseteq DOMAIN x.segs
  BY <1>3
<1> HIDE DEF work, todo
<1>7. DOMAIN todo = 1..Len(todo) /\ Len(todo) \in Nat /\ \A j \in DOMAIN todo : todo[j] \in work
  BY <1>5, SequenceLength DEF Lists, ToSet
<1>8. n \in 0..Len(todo)
  <2>1. CASE barren = {}
    BY <1>7, <2>1
  <2>2. CASE barren # {}
    <3>1. barren \subseteq 1..Len(todo) /\ barren \subseteq Nat
      BY <1>7
    <3> HIDE DEF barren
    <3>2. Min(barren) \in 1..Len(todo)
      BY <2>2, <3>1, LeastIn
    <3>3. n = Min(barren) - 1
      BY <2>2
    <3> HIDE DEF n
    <3> QED BY <1>7, <3>2, <3>3
  <2> QED BY <2>1, <2>2
<1> HIDE DEF n
<1>9. /\ x1.m = x.m /\ x1.segs = x.segs /\ x1.dvs = x.dvs /\ x1.count = x.count
      /\ x1.now = x.now /\ x1.from = x.from /\ x1.hist = x.hist /\ x1.ins = x.ins
  BY DEF IsState
<1>10. TravelInv(x1)
  <2>1. CacheOpened(x, x1, v)
    <3>1. \A s, dv : Opened(s, dv) = OpenedIn(x, s, dv)
      BY OpenedInState
    <3>2. x1.cache = Written(x.cache, [k \in {<<s, v[s].dv>> : s \in DOMAIN v} |-> OpenedIn(x, k[1], k[2])])
      BY <1>4, <3>1 DEF IsState
    <3> DEFINE opened == [k \in {<<s, v[s].dv>> : s \in DOMAIN v} |-> OpenedIn(x, k[1], k[2])]
    <3>3. /\ \A k \in DOMAIN opened : \E s \in DOMAIN v : k = <<s, v[s].dv>>
          /\ \A k \in DOMAIN opened : opened[k] = OpenedIn(x, k[1], k[2])
      OBVIOUS
    <3>4. x1.cache = Written(x.cache, opened)
      BY <3>2
    <3> HIDE DEF opened, x1
    <3>5. ASSUME NEW k \in DOMAIN x1.cache
          PROVE  /\ k \in DOMAIN x.cache \/ k \in DOMAIN opened
                 /\ x1.cache[k] = OpenedIn(x, k[1], k[2])
      <4>1. CASE k \in DOMAIN opened
        BY <3>3, <3>4, <4>1 DEF Written
      <4>2. CASE k \notin DOMAIN opened
        <5>1. k \in DOMAIN x.cache /\ x1.cache[k] = x.cache[k]
          BY <3>4, <4>2 DEF Written
        <5>2. k = <<k[1], k[2]>>
          BY <1>1, <5>1 DEF FilesInv, HandleOK
        <5> QED BY <5>1, <5>2 DEF OpenedIn
      <4> QED BY <4>1, <4>2
    <3> QED BY <1>3, <3>3, <3>5 DEF CacheOpened
  <2> HIDE DEF x1
  <2>2. \A k \in DOMAIN x1.cache : HandleOK(x1, k)
    BY <1>1, <1>3, <1>9, <2>1, ViewHandles
  <2> QED BY <1>9, <2>2, CacheMoves
<1>11. IsWorklist(x1, todo)
  <2> HIDE DEF x1
  <2> QED BY <1>5, <1>6, <1>7, <1>9 DEF IsWorklist, Lists, Distinct
<1>12. TravelInv(z)
  <2> HIDE DEF x1
  <2> QED BY <1>8, <1>10, <1>11, AllRewritten
<1>13. Latest(x1) = v /\ \A t, s : LiveIn(x1, t, s) = LiveIn(x, t, s)
  <2> HIDE DEF x1
  <2> QED BY <1>9 DEF Latest, LiveIn, DeadIn, v
<1>14. /\ z.m = x1.m \o [j \in 1..n |-> RewriteRecord(todo[j], x1.count + j - 1, x1.now + j)]
       /\ z.segs = Written(x1.segs, [s \in x1.count..(x1.count + n - 1) |->
                                     LiveIn(x1, Latest(x1), todo[s - x1.count + 1])])
       /\ z.dvs = Written(x1.dvs, [d \in {DVPath(todo[j], x1.now + j) : j \in 1..n} |-> x1.segs[d[1]]])
       /\ z.cache = x1.cache /\ z.count = x1.count + n /\ z.now = x1.now + n /\ z.from = x1.from
       /\ z.hist = Written(x1.hist, [ts \in (x1.now + 1)..(x1.now + n) |-> x1.hist[x1.now]])
       /\ z.ins = x1.ins
  <2> HIDE DEF x1
  <2> QED BY DEF RewrittenTo
<1>15. /\ y.m = z.m /\ y.dvs = z.dvs /\ y.cache = z.cache /\ y.count = z.count
       /\ y.now = z.now /\ y.from = z.from /\ y.hist = z.hist /\ y.ins = z.ins
  <2>1. x1.m = manifest /\ x1.segs = segments /\ x1.dvs = dvFiles /\ x1.cache = cache' /\ x1.count = segCount
        /\ x1.now = nextCommitTs /\ x1.from = cleaned /\ x1.hist = history /\ x1.ins = inserted
    OBVIOUS
  <2> HIDE DEF x1, z
  <2> QED BY <1>4, <1>14, <2>1 DEF IsState
<1>16. y.segs = z.segs
  <2>1. x1.segs = segments /\ x1.count = segCount
    OBVIOUS
  <2> HIDE DEF x1, z
  <2>2. z.segs = Written(segments, [s \in segCount..(segCount + n - 1) |-> LiveIn(x, v, todo[s - segCount + 1])])
    <3>1. z.segs = Written(x1.segs, [s \in x1.count..(x1.count + n - 1) |-> LiveIn(x1, Latest(x1), todo[s - x1.count + 1])])
      BY ONLY <1>14
    <3>2. \A s : LiveIn(x1, Latest(x1), s) = LiveIn(x, v, s)
      BY ONLY <1>13
    <3> QED BY ONLY <2>1, <3>1, <3>2
  <2>3. segments' = Written(segments, [s \in segCount..(segCount + n - 1) |-> LiveIn(x, v, todo[s - segCount + 1])])
    BY <1>2, <1>4 DEF Rewritten
  <2> QED BY <2>2, <2>3 DEF IsState
<1> HIDE DEF z
<1>17. \A k \in DOMAIN y.cache : HandleOK(y, k)
  BY <1>12, <1>15, <1>16 DEF TravelInv, FilesInv, HandleOK
<1> QED BY <1>12, <1>15, <1>16, <1>17, CacheMoves

-----------------------------------------------------------------------------
(* The theorems *)

Inv == TravelInv(State)

LEMMA TravelInitial == TravelInit => Inv
<1> SUFFICES ASSUME TravelInit PROVE Inv
  OBVIOUS
<1> DEFINE x == State
<1>1. /\ x.m = <<>> /\ x.segs = <<>> /\ x.dvs = <<>> /\ x.cache = <<>> /\ x.count = 0 /\ x.now = 0
      /\ x.from = 0 /\ x.ins = 0 /\ x.hist = [ts \in {0} |-> {}]
  BY DEF TravelInit, State
<1>2. DOMAIN <<>> = {} /\ IsSequence(<<>>)
  BY DEF IsSequence
<1> HIDE DEF x
<1>3. RecordsOK(x.m, x.now)
  BY <1>1, <1>2 DEF RecordsOK
<1>4. FilesInv(x)
  BY <1>1, <1>2, <1>3 DEF FilesInv
<1>5. HistoryInv(x)
  BY <1>1, <1>2 DEF HistoryInv
<1>6. \A ts : ViewIn(x.m, ts) = <<>>
  <2> SUFFICES ASSUME NEW ts PROVE ViewIn(x.m, ts) = <<>>
    OBVIOUS
  <2>1. PICK t : Passing(t, x.m, ts) /\ ViewIn(x.m, ts) = t[Len(x.m)]
    BY <1>1, <1>2, ViewStates
  <2>2. Len(x.m) = 0
    BY <1>1
  <2> QED BY <2>1, <2>2 DEF Passing
<1>7. Reads(x, <<>>, {}) /\ \A ts : Reads(x, KeptIn(x, ts), {})
  <2>1. \A ts : DOMAIN KeptIn(x, ts) = {}
    BY <1>2, <1>6 DEF KeptIn, Removed
  <2> QED BY <1>2, <2>1 DEF Reads
<1>8. ReadInv(x)
  BY <1>1, <1>2, <1>6, <1>7 DEF ReadInv, Latest
<1> QED BY <1>4, <1>5, <1>8 DEF TravelInv, Inv, x

LEMMA NothingMoves == ASSUME Inv, UNCHANGED travelVars PROVE Inv'
BY DEF Inv, State, travelVars

LEMMA TravelMoves == ASSUME Inv, TravelNext PROVE Inv'
<1> SUFFICES ASSUME NEW x, x = State, NEW y, y = State' PROVE TravelInv(y)
  BY DEF Inv
<1>1. IsState(x) /\ TravelInv(x) /\ IsState(y)'
  BY DEF Inv, IsState, State
<1>2. ASSUME NEW n \in 1..2, InsertInto(n) PROVE TravelInv(y)
  BY <1>1, <1>2, InsertMoves
<1>3. ASSUME NEW rows, DeleteFrom(rows) PROVE TravelInv(y)
  BY <1>1, <1>3, DeleteMoves
<1>4. ASSUME NEW ts, QueryAt(ts) PROVE TravelInv(y)
  BY <1>1, <1>4, QueryMoves
<1>5. ASSUME NEW altered, Compact(altered) PROVE TravelInv(y)
  BY <1>1, <1>5, CompactMoves
<1>6. CASE Vacuum
  BY <1>1, <1>6, VacuumMoves
<1>7. ASSUME NEW cutoff \in 1..nextCommitTs + 1, VacuumRetention(cutoff) PROVE TravelInv(y)
  <2>1. nextCommitTs \in Nat
    BY <1>1 DEF TravelInv, FilesInv, RecordsOK, IsState
  <2>2. cutoff \in Nat
    BY <2>1
  <2> QED BY <1>1, <1>7, <2>2, RetentionMoves
<1>8. CASE Reopen
  BY <1>1, <1>8, ReopenMoves
<1> QED BY <1>2, <1>3, <1>4, <1>5, <1>6, <1>7, <1>8 DEF TravelNext

LEMMA TravelInvariance == TravelSpec => []Inv
BY TravelInitial, TravelMoves, NothingMoves, PTL DEF TravelSpec

\* What an open handle shows is what is live at its entry.
LEMMA OpenedIsLive ==
    ASSUME NEW x, IsState(x), FilesInv(x), NEW v, NEW rows, Reads(x, v, rows), NEW s \in DOMAIN v
    PROVE  LET h == Opened(s, v[s].dv) IN h.rows \ h.dead = LiveIn(x, v, s)
<1> DEFINE dv == v[s].dv
           h == Opened(s, dv)
           k == <<s, dv>>
<1>1. h = OpenedIn(x, s, dv)
  BY OpenedInState
<1>2. s \in DOMAIN x.segs /\ (dv = NoMarks \/ dv \in DOMAIN x.dvs)
  BY DEF Reads
<1>3. NoMarks \notin DOMAIN x.dvs /\ DeadIn(x, NoMarks) = {}
  BY NoMarksIsNoDV
<1>4. k[1] = s /\ k[2] = dv
  OBVIOUS
<1> HIDE DEF dv, h, k
<1>5. h.rows = x.segs[s] /\ h.dead = DeadIn(x, dv)
  <2>1. CASE k \in DOMAIN x.cache
    <3>1. HandleOK(x, k) /\ h = x.cache[k]
      BY <1>1, <2>1 DEF FilesInv, OpenedIn, k
    <3> QED BY <1>2, <1>3, <1>4, <3>1 DEF HandleOK, DeadIn
  <2>2. CASE k \notin DOMAIN x.cache
    BY <1>1, <2>2 DEF OpenedIn, k
  <2> QED BY <2>1, <2>2
<1> QED BY <1>5 DEF LiveIn, dv, h

LEMMA ReadsAreExact ==
    ASSUME Inv, NEW ts \in DOMAIN history, ts >= cleaned
    PROVE  ReadsExactly(ts)
<1> SUFFICES ASSUME NEW x, x = State PROVE ReadsExactly(ts)
  OBVIOUS
<1>1. IsState(x) /\ FilesInv(x) /\ ReadInv(x)
  BY DEF Inv, TravelInv, IsState, State
<1> DEFINE v == KeptAt(ts)
<1>2. Reads(x, v, history[ts])
  <2>1. v = KeptIn(x, ts)
    BY <1>1, TableIsView DEF KeptAt, KeptIn, RetiredSince, RetiredIn, IsState
  <2> HIDE DEF v
  <2> QED BY <1>1, <2>1 DEF ReadInv, IsState
<1> HIDE DEF v
<1>3. Opens(v)
  BY <1>1, <1>2 DEF Opens, Reads, IsState
<1>4. \A s \in DOMAIN v : LET h == Opened(s, v[s].dv) IN h.rows \ h.dead = LiveIn(x, v, s)
  BY <1>1, <1>2, OpenedIsLive
<1>5. RowsRead(v) = history[ts]
  <2>1. \A e : e \in RowsRead(v) <=> \E s \in DOMAIN v : LET h == Opened(s, v[s].dv) IN e \in h.rows \ h.dead
    BY DEF RowsRead
  <2>2. \A e : e \in history[ts] <=> \E s \in DOMAIN v : e \in LiveIn(x, v, s)
    BY <1>2 DEF Reads
  <2>3. \A e : e \in RowsRead(v) <=> e \in history[ts]
    BY <1>4, <2>1, <2>2
  <2> QED BY <2>3
<1> QED BY <1>3, <1>5 DEF ReadsExactly, v

\* For every timestamp at or above the horizon of the cleanups, the segments of
\* its snapshot that no later record has retired are there, or open, and hold the
\* rows the table had then, all of them: a retired one had none.
THEOREM TimeTravelIsExact == TravelSpec => []SinceCleanupExact
<1>1. Inv => SinceCleanupExact
  BY ReadsAreExact DEF SinceCleanupExact
<1> QED BY <1>1, TravelInvariance, PTL

\* No row is read from two segments: not from one that Compact rewrote and from
\* its replacement.
THEOREM RowsAreReadOnce == TravelSpec => []NoRowTwice
<1>1. ASSUME Inv PROVE NoRowTwice
  <2> SUFFICES ASSUME NEW x, x = State PROVE NoRowTwice
    OBVIOUS
  <2>1. IsState(x) /\ FilesInv(x) /\ ReadInv(x) /\ HistoryInv(x)
    BY <1>1 DEF Inv, TravelInv, IsState, State
  <2>2. TableNow = Latest(x)
    BY <2>1, TableIsView
  <2> DEFINE v == TableNow
  <2>3. Reads(x, v, x.hist[x.now]) /\ DOMAIN v = DOMAIN x.segs
    BY <2>1, <2>2 DEF ReadInv, HistoryInv, Latest
  <2>4. \A s, u \in DOMAIN v : s # u => LiveIn(x, v, s) \cap LiveIn(x, v, u) = {}
    BY <2>1, <2>2, <2>3 DEF ReadInv
  <2> HIDE DEF v
  <2>5. \A s \in DOMAIN v : LET h == Opened(s, v[s].dv) IN h.rows \ h.dead = LiveIn(x, v, s)
    BY <2>1, <2>3, OpenedIsLive
  <2> DEFINE LiveOf(q) == LET h == Opened(q, v[q].dv) IN h.rows \ h.dead
  <2>6. \A s, u \in DOMAIN v : s # u => LiveOf(s) \cap LiveOf(u) = {}
    BY <2>4, <2>5
  <2> QED BY <2>6 DEF NoRowTwice, v
<1>2. Inv => NoRowTwice
  BY <1>1
<1> QED BY <1>2, TravelInvariance, PTL

InBounds == nextCommitTs <= MaxCommits /\ inserted <= MaxRows

\* The ids of the segments in the latest snapshot are below the next one given
\* out, and history has no timestamp to come.
THEOREM TimeTravelTypes == ASSUME TravelAssumption PROVE TravelSpec => []TravelTypeOK
<1>1. Inv => nextCommitTs \in Nat /\ inserted \in Nat /\ segCount \in Nat
  BY DEF Inv, TravelInv, FilesInv, RecordsOK, State
<1>2. TravelInit => InBounds
  BY DEF TravelInit, InBounds, TravelAssumption
<1>3. ASSUME Inv, Inv', InBounds, [TravelNext]_travelVars PROVE InBounds'
  <2>1. /\ nextCommitTs \in Nat /\ inserted \in Nat /\ nextCommitTs <= MaxCommits /\ inserted <= MaxRows
        /\ MaxCommits \in Nat /\ MaxRows \in Nat /\ nextCommitTs' \in Nat
    <3>1. nextCommitTs \in Nat /\ inserted \in Nat
      BY <1>1, <1>3
    <3>2. nextCommitTs' \in Nat
      BY <1>3 DEF Inv, TravelInv, FilesInv, RecordsOK, State
    <3> QED BY <1>3, <3>1, <3>2 DEF InBounds, TravelAssumption
  <2>2. CASE UNCHANGED travelVars
    BY <1>3, <2>2 DEF travelVars, InBounds
  <2>3. ASSUME NEW n \in 1..2, InsertInto(n) PROVE InBounds'
    BY <2>1, <2>3 DEF InsertInto, InBounds
  <2>4. ASSUME NEW rows, DeleteFrom(rows) PROVE InBounds'
    BY <2>1, <2>4 DEF DeleteFrom, InBounds
  <2>5. ASSUME NEW ts, QueryAt(ts) PROVE InBounds'
    BY <2>1, <2>5 DEF QueryAt, InBounds
  <2>6. ASSUME NEW altered, Compact(altered) PROVE InBounds'
    BY <2>1, <2>6 DEF Compact, InBounds
  <2>7. CASE Vacuum
    BY <2>1, <2>7 DEF Vacuum, InBounds
  <2>8. ASSUME NEW cutoff, VacuumRetention(cutoff) PROVE InBounds'
    BY <2>1, <2>8 DEF VacuumRetention, InBounds
  <2>9. CASE Reopen
    <3>1. nextCommitTs' = Max({0} \cup {manifest[i].ts : i \in DOMAIN manifest}) /\ inserted' = inserted
      BY <2>9 DEF Reopen
    <3> DEFINE stamps == {0} \cup {manifest[i].ts : i \in DOMAIN manifest}
    <3>2. \A i \in DOMAIN manifest : manifest[i].ts \in 1..nextCommitTs
      BY <1>3 DEF Inv, TravelInv, FilesInv, RecordsOK, State
    <3>3. stamps \subseteq 0..nextCommitTs /\ stamps # {}
      BY <2>1, <3>2
    <3> HIDE DEF stamps
    <3>4. Max(stamps) \in stamps
      BY <2>1, <3>3, GreatestOfSome
    <3>5. nextCommitTs' \in 0..nextCommitTs
      BY <3>1, <3>3, <3>4 DEF stamps
    <3> QED BY <2>1, <3>1, <3>5 DEF InBounds
  <2> QED BY <1>3, <2>2, <2>3, <2>4, <2>5, <2>6, <2>7, <2>8, <2>9 DEF TravelNext
<1>4. ASSUME Inv, InBounds PROVE TravelTypeOK
  <2> SUFFICES ASSUME NEW x, x = State PROVE TravelTypeOK
    OBVIOUS
  <2>1. IsState(x) /\ FilesInv(x) /\ HistoryInv(x) /\ ReadInv(x)
    BY <1>4 DEF Inv, TravelInv, IsState, State
  <2>2. TableNow = Latest(x)
    BY <2>1, TableIsView
  <2>3. DOMAIN TableNow \subseteq 0..(segCount - 1)
    BY <2>1, <2>2 DEF ReadInv, FilesInv, IsState
  <2>4. DOMAIN history \subseteq 0..nextCommitTs
    BY <2>1 DEF HistoryInv, IsState
  <2>5. nextCommitTs \in 0..MaxCommits /\ inserted \in 0..MaxRows
    BY <1>1, <1>4 DEF InBounds, TravelAssumption
  <2> QED BY <2>3, <2>4, <2>5 DEF TravelTypeOK
<1>5. Inv /\ Inv' /\ InBounds /\ [TravelNext]_travelVars => InBounds'
  BY <1>3
<1>6. Inv /\ InBounds => TravelTypeOK
  BY <1>4
<1> QED BY <1>2, <1>5, <1>6, TravelInvariance, PTL DEF TravelSpec

=============================================================================
