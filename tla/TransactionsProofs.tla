------------------------- MODULE TransactionsProofs -------------------------
(***************************************************************************)
(* What a Tx sees, publishes and leaves behind, for any keys and any number *)
(* of statements: as long as no DELETE or UPDATE of a Tx comes after        *)
(* another change of it, queries see the statements in their order; what    *)
(* Commit publishes is what the Tx last saw; Rollback leaves no file.       *)
(***************************************************************************)
EXTENDS Transactions, SequenceFacts

\* The elements of two sequences, one behind the other.
Joins(ab, a, b) ==
    /\ IsSequence(ab)
    /\ \A i \in DOMAIN ab : (\E j \in DOMAIN a : ab[i] = a[j]) \/ (\E j \in DOMAIN b : ab[i] = b[j])
    /\ \A i \in DOMAIN a : \E j \in DOMAIN ab : ab[j] = a[i]
    /\ \A i \in DOMAIN b : \E j \in DOMAIN ab : ab[j] = b[i]

LEMMA JoinedElements ==
    ASSUME NEW a, NEW b, IsSequence(a), IsSequence(b), NEW ab, ab = a \o b
    PROVE  Joins(ab, a, b)
<1> DEFINE S == {a[i] : i \in DOMAIN a} \cup {b[i] : i \in DOMAIN b}
           m == Len(a)
           n == Len(b)
<1>1. a \in Seq(S) /\ b \in Seq(S) /\ DOMAIN a = 1..m /\ DOMAIN b = 1..n /\ m \in Nat /\ n \in Nat
  BY DEF IsSequence
<1> HIDE DEF S
<1>2. IsSequence(ab)
  <2>1. ab \in Seq(S)
    BY <1>1
  <2> QED BY <2>1, AnySequence
<1>3. /\ DOMAIN ab = 1..(m + n)
      /\ \A i \in 1..(m + n) : ab[i] = IF i <= m THEN a[i] ELSE b[i - m]
  BY <1>1
<1> HIDE DEF m, n
<1>4. ASSUME NEW i \in 1..m PROVE i \in 1..(m + n) /\ ab[i] = a[i]
  BY <1>1, <1>3
<1>5. ASSUME NEW i \in 1..n PROVE m + i \in 1..(m + n) /\ ab[m + i] = b[i]
  <2>1. m + i \in 1..(m + n) /\ ~(m + i <= m) /\ (m + i) - m = i
    BY <1>1
  <2>2. ab[m + i] = b[(m + i) - m]
    BY <1>3, <2>1
  <2> QED BY <2>1, <2>2
<1>6. ASSUME NEW i \in 1..(m + n) PROVE (\E j \in 1..m : ab[i] = a[j]) \/ (\E j \in 1..n : ab[i] = b[j])
  <2>1. CASE i <= m
    BY <1>1, <1>3, <2>1
  <2>2. CASE ~(i <= m)
    <3>1. i - m \in 1..n
      BY <1>1, <2>2
    <3> QED BY <1>3, <2>2, <3>1
  <2> QED BY <2>1, <2>2
<1> QED BY <1>1, <1>2, <1>3, <1>4, <1>5, <1>6 DEF Joins

LEMMA JoinedSets ==
    ASSUME NEW a, NEW b, NEW ab, Joins(ab, a, b)
    PROVE  ToSet(ab) = ToSet(a) \cup ToSet(b)
<1>1. ToSet(ab) \subseteq ToSet(a) \cup ToSet(b)
  BY DEF ToSet, Joins
<1>2. ToSet(a) \subseteq ToSet(ab)
  BY DEF ToSet, Joins
<1>3. ToSet(b) \subseteq ToSet(ab)
  BY DEF ToSet, Joins
<1> QED BY <1>1, <1>2, <1>3

-----------------------------------------------------------------------------
(* The DV of a segment after a list of updates. FoldLeft recurs over sets of *)
(* positions, from the highest down.                                         *)

Passed(updates, s, i, dv) == IF updates[i].seg = s THEN updates[i].dv ELSE dv

Folded(g, updates, s, old, positions) ==
    g = [ps \in SUBSET positions |->
            IF ps = {} THEN old ELSE Passed(updates, s, Max(ps), g[ps \ {Max(ps)}])]

LEMMA FoldedExists ==
    ASSUME NEW updates, NEW s, NEW old, NEW n \in Nat
    PROVE  \E g : Folded(g, updates, s, old, 1..n)
<1> DEFINE None == {k \in Nat : ~ \E g : Folded(g, updates, s, old, 1..k)}
<1>1. 0 \notin None
  <2> DEFINE g == [ps \in SUBSET (1..0) |-> old]
  <2>1. \A ps \in SUBSET (1..0) : ps = {}
    OBVIOUS
  <2>2. g = [ps \in SUBSET (1..0) |->
               IF ps = {} THEN old ELSE Passed(updates, s, Max(ps), g[ps \ {Max(ps)}])]
    BY <2>1
  <2> QED BY <2>2 DEF Folded
<1>2. ASSUME NEW k \in Nat, k \notin None PROVE k + 1 \notin None
  <2>1. PICK g : Folded(g, updates, s, old, 1..k)
    BY <1>2
  <2> DEFINE Step(i, dv) == Passed(updates, s, i, dv)
             h == [ps \in SUBSET (1..(k + 1)) |-> IF k + 1 \in ps THEN Step(k + 1, g[ps \ {k + 1}]) ELSE g[ps]]
  <2>2. \A ps \in SUBSET (1..k) : h[ps] = g[ps]
    BY <1>2
  <2>3. ASSUME NEW ps \in SUBSET (1..(k + 1))
        PROVE  h[ps] = IF ps = {} THEN old ELSE Step(Max(ps), h[ps \ {Max(ps)}])
    <3>1. CASE k + 1 \in ps
      <4>1. Max(ps) = k + 1
        <5>1. ps \subseteq Nat /\ \A j \in ps : j <= k + 1
          BY <1>2
        <5> QED BY <3>1, <5>1, MaxIs
      <4>2. ps \ {k + 1} \in SUBSET (1..k)
        BY <1>2
      <4>3. h[ps] = Step(k + 1, g[ps \ {k + 1}])
        BY <3>1
      <4> HIDE DEF h, Step
      <4> QED BY <2>2, <3>1, <4>1, <4>2, <4>3
    <3>2. CASE k + 1 \notin ps
      <4>1. \A i \in ps : i \in 1..k
        BY <1>2, <3>2
      <4>2. ps \in SUBSET (1..k) /\ ps \ {Max(ps)} \in SUBSET (1..k)
        BY <4>1
      <4>3. g[ps] = IF ps = {} THEN old ELSE Step(Max(ps), g[ps \ {Max(ps)}])
        BY <2>1, <4>2 DEF Folded
      <4> HIDE DEF h, Step
      <4> QED BY <2>2, <4>2, <4>3
    <3> QED BY <3>1, <3>2
  <2>4. h = [ps \in SUBSET (1..(k + 1)) |-> h[ps]]
    OBVIOUS
  <2> HIDE DEF h
  <2>5. Folded(h, updates, s, old, 1..(k + 1))
    BY <2>3, <2>4 DEF Folded
  <2> QED BY <2>5
<1> HIDE DEF None
<1>3. None = {}
  <2> SUFFICES ASSUME None # {} PROVE FALSE
    OBVIOUS
  <2>1. None \subseteq Nat
    BY DEF None
  <2>2. PICK i \in None : \A j \in None : i <= j
    BY <2>1, LeastOfSome
  <2>3. i \in Nat /\ i # 0 /\ i - 1 \in Nat /\ i - 1 \notin None
    BY <1>1, <2>1, <2>2
  <2> QED BY <1>2, <2>2, <2>3
<1> QED BY <1>3 DEF None

Named(updates, s, n) == {updates[i].dv : i \in {j \in 1..n : updates[j].seg = s}}

\* It is one of those the updates name for the segment, or the old one if there
\* is none.
LEMMA LastDVIs ==
    ASSUME NEW updates, IsSequence(updates), NEW s, NEW old
    PROVE  /\ (\A i \in DOMAIN updates : updates[i].seg # s) => LastDV(updates, s, old) = old
           /\ (\E i \in DOMAIN updates : updates[i].seg = s) =>
                  \E i \in DOMAIN updates : updates[i].seg = s /\ LastDV(updates, s, old) = updates[i].dv
<1> DEFINE n == Len(updates)
           iter == CHOOSE g : Folded(g, updates, s, old, 1..n)
           Right(k) == IF Named(updates, s, k) = {} THEN iter[1..k] = old ELSE iter[1..k] \in Named(updates, s, k)
           Wrong == {k \in 0..n : ~Right(k)}
<1>1. n \in Nat /\ DOMAIN updates = 1..n
  BY SequenceLength
<1>2. Folded(iter, updates, s, old, 1..n)
  BY <1>1, FoldedExists
<1>3. LastDV(updates, s, old) = iter[1..n]
  BY <1>1 DEF LastDV, FoldLeft, MapThenFoldSet, Folded, Passed
<1> HIDE DEF iter
<1>4. Wrong = {}
  <2> SUFFICES ASSUME Wrong # {} PROVE FALSE
    OBVIOUS
  <2>1. Wrong \subseteq Nat
    BY <1>1
  <2>2. PICK i \in Wrong : \A j \in Wrong : i <= j
    <3> HIDE DEF Wrong
    <3> QED BY <2>1, LeastOfSome
  <2>3. i # 0
    <3>1. 1..0 = {} /\ {} \in SUBSET (1..n)
      OBVIOUS
    <3>2. iter[1..0] = old /\ Named(updates, s, 0) = {}
      BY <1>2, <3>1 DEF Folded, Named
    <3> QED BY <3>2
  <2>4. i \in 1..n /\ i - 1 \in 0..n /\ Right(i - 1)
    <3>1. i \in 1..n /\ i - 1 \in 0..n /\ ~(i <= i - 1)
      BY <1>1, <2>3
    <3> QED BY <2>2, <3>1
  <2>5. 1..i \in SUBSET (1..n) /\ 1..i # {} /\ (1..i) \ {i} = 1..(i - 1) /\ Max(1..i) = i
    <3>1. \A j \in 1..i : j \in 1..n
      BY <1>1, <2>4
    <3>2. \A j : j \in (1..i) \ {i} <=> j \in 1..(i - 1)
      BY <1>1, <2>4
    <3>3. i \in 1..i /\ 1..i \subseteq Nat /\ \A j \in 1..i : j <= i
      BY <1>1, <2>4
    <3> QED BY <3>1, <3>2, <3>3, MaxIs
  <2>6. iter[1..i] = IF updates[i].seg = s THEN updates[i].dv ELSE iter[1..(i - 1)]
    BY <1>2, <2>5 DEF Folded, Passed
  <2>7. Named(updates, s, i) = IF updates[i].seg = s THEN Named(updates, s, i - 1) \cup {updates[i].dv}
                                                     ELSE Named(updates, s, i - 1)
    <3>1. 1..i = 1..(i - 1) \cup {i}
      BY <2>4
    <3> QED BY <3>1 DEF Named
  <2>8. Right(i)
    BY <2>4, <2>6, <2>7
  <2> QED BY <2>8
<1>5. Right(n)
  <2>1. n \in 0..n
    BY <1>1
  <2> QED BY <1>4, <2>1
<1> HIDE DEF n
<1> QED BY <1>1, <1>3, <1>5 DEF Named

-----------------------------------------------------------------------------
(* The rows of a view over any files *)

DeadIn(ds, d) == IF d = NoVector THEN {} ELSE ds[d]
LiveIn(fs, ds, v, s) == fs[s] \ DeadIn(ds, v[s])
RowsIn(fs, ds, v) == UNION {LiveIn(fs, ds, v, s) : s \in DOMAIN v}
Rows(v) == RowsIn(files, dvs, v)

\* Of a view v over files fs and DVs ds, the segments in hit lose the rows of keys
\* to a new DV; the rows go to the new segments.
Rewrites(fs, ds, v, gs, es, w, new, rows, keys, hit) ==
    /\ hit \subseteq DOMAIN v /\ DOMAIN w = DOMAIN v \cup new /\ new \cap DOMAIN v = {}
    /\ \A s \in DOMAIN v : gs[s] = fs[s]
    /\ \A s \in DOMAIN v \ hit : /\ w[s] = v[s] /\ (v[s] # NoVector => es[v[s]] = ds[v[s]])
                                 /\ \A r \in LiveIn(fs, ds, v, s) : r.key \notin keys
    /\ \A s \in hit : /\ w[s] # NoVector
                      /\ es[w[s]] = DeadIn(ds, v[s]) \cup {r \in LiveIn(fs, ds, v, s) : r.key \in keys}
    /\ \A s \in new : w[s] = NoVector /\ gs[s] = rows
    /\ new = {} => rows = {}

LEMMA RowsAfter ==
    ASSUME NEW fs, NEW ds, NEW gs, NEW es, NEW v, NEW w, NEW new, NEW rows, NEW keys, NEW hit,
           Rewrites(fs, ds, v, gs, es, w, new, rows, keys, hit)
    PROVE  RowsIn(gs, es, w) = {r \in RowsIn(fs, ds, v) : r.key \notin keys} \cup rows
<1>1. \A s \in DOMAIN v \ hit : LiveIn(gs, es, w, s) = {r \in LiveIn(fs, ds, v, s) : r.key \notin keys}
  <2> SUFFICES ASSUME NEW s \in DOMAIN v \ hit
               PROVE  LiveIn(gs, es, w, s) = {r \in LiveIn(fs, ds, v, s) : r.key \notin keys}
    OBVIOUS
  <2>1. LiveIn(gs, es, w, s) = LiveIn(fs, ds, v, s)
    BY DEF LiveIn, DeadIn, Rewrites
  <2> QED BY <2>1 DEF Rewrites
<1>2. \A s \in hit : LiveIn(gs, es, w, s) = {r \in LiveIn(fs, ds, v, s) : r.key \notin keys}
  BY DEF LiveIn, DeadIn, Rewrites
<1>3. \A s \in new : LiveIn(gs, es, w, s) = rows
  BY DEF LiveIn, DeadIn, Rewrites
<1>4. \A s \in DOMAIN v : LiveIn(gs, es, w, s) = {r \in LiveIn(fs, ds, v, s) : r.key \notin keys}
  BY <1>1, <1>2
<1> DEFINE of(V) == {LiveIn(gs, es, w, s) : s \in V}
           kept == {r \in RowsIn(fs, ds, v) : r.key \notin keys}
<1>5. RowsIn(gs, es, w) = UNION of(DOMAIN v \cup new) /\ of(DOMAIN v \cup new) = of(DOMAIN v) \cup of(new)
  BY DEF RowsIn, Rewrites
<1>6. UNION of(new) = rows
  <2> HIDE DEF LiveIn
  <2> QED BY <1>3 DEF Rewrites
<1>7. UNION of(DOMAIN v) = kept
  <2> HIDE DEF LiveIn
  <2> QED BY <1>4 DEF RowsIn
<1> HIDE DEF of, kept
<1>8. RowsIn(gs, es, w) = kept \cup rows
  BY <1>5, <1>6, <1>7
<1> QED BY <1>8 DEF kept

-----------------------------------------------------------------------------
(* The invariant *)

\* A statement writes its rows under its number, to files of its number.
FilesOK ==
    /\ ran \in 0..MaxStatements
    /\ DOMAIN files \subseteq 1..ran
    /\ \A s \in DOMAIN files : files[s] \subseteq Row /\ \A r \in files[s] : r.by = s
    /\ DOMAIN dvs \subseteq (1..ran) \X (1..MaxStatements)
    /\ \A d \in DOMAIN dvs : dvs[d] \subseteq Row

ViewOK ==
    /\ DOMAIN view \subseteq DOMAIN files
    /\ \A s \in DOMAIN view : view[s] = NoVector \/ view[s] \in DOMAIN dvs

PendingDVs == {tx.updates[i].dv : i \in DOMAIN tx.updates}

\* What is pending was not there before the Tx, and is in no view yet.
PendingOK ==
    /\ tx = [open |-> tx.open, adds |-> tx.adds, updates |-> tx.updates, found |-> tx.found,
             wasBlind |-> tx.wasBlind]
    /\ tx.open \in BOOLEAN
    /\ IsSequence(tx.adds) /\ IsSequence(tx.updates)
    /\ ~tx.open => tx.adds = <<>> /\ tx.updates = <<>>
    /\ ToSet(tx.adds) \subseteq DOMAIN files \ DOMAIN view
    /\ \A i \in DOMAIN tx.updates : tx.updates[i].seg \in DOMAIN view
    /\ PendingDVs \subseteq DOMAIN dvs
    /\ \A s \in DOMAIN view : view[s] \notin PendingDVs
    /\ tx.open => tx.found = <<DOMAIN files \ ToSet(tx.adds), DOMAIN dvs \ PendingDVs>>

\* The rows are the expected ones, unless a Tx did not look at its own changes.
RowsOK ==
    /\ expected \subseteq Row /\ committed \subseteq Row
    /\ blind \in BOOLEAN /\ tx.wasBlind \in BOOLEAN
    /\ tx.open /\ tx.wasBlind => blind
    /\ ~tx.open => expected = committed
    /\ tx.open /\ ~tx.wasBlind => Rows(view) = committed
    /\ ~tx.open /\ ~blind => Rows(view) = committed
    /\ tx.open /\ ~blind => Rows(Overlay(view, tx)) = expected

ShapeInv == FilesOK /\ ViewOK /\ PendingOK
TxInv == ShapeInv /\ RowsOK

\* A statement: its rows go to at most one new segment, and each segment it hits
\* gets a DV.
Writes(new, rows, hits, adds, updates) ==
    /\ ran < MaxStatements /\ ran' = ran + 1
    /\ new \in {{}, {ran + 1}} /\ (new = {} => rows = {})
    /\ rows \subseteq Row /\ \A r \in rows : r.by = ran + 1
    /\ DOMAIN hits \subseteq DOMAIN view /\ \A s \in DOMAIN hits : hits[s] \subseteq Row
    /\ IsSequence(adds) /\ ToSet(adds) = new
    /\ IsSequence(updates)
    /\ \A i \in DOMAIN updates : updates[i].seg \in DOMAIN hits /\ updates[i].dv = DVId(ran + 1, updates[i].seg)
    /\ \A s \in DOMAIN hits : \E i \in DOMAIN updates : updates[i].seg = s
    /\ DOMAIN files' = DOMAIN files \cup new
    /\ \A s \in DOMAIN files : s \notin new => files'[s] = files[s]
    /\ \A s \in new : files'[s] = rows
    /\ DOMAIN dvs' = DOMAIN dvs \cup {DVId(ran + 1, s) : s \in DOMAIN hits}
    /\ \A d \in DOMAIN dvs : d \notin {DVId(ran + 1, s) : s \in DOMAIN hits} => dvs'[d] = dvs[d]
    /\ \A s \in DOMAIN hits : dvs'[DVId(ran + 1, s)] = Dead(view[s]) \cup hits[s]
    /\ IF tx.open
       THEN /\ tx' = [tx EXCEPT !.adds = @ \o adds, !.updates = @ \o updates]
            /\ UNCHANGED <<view, committed>>
       ELSE /\ view' = Publish(view, adds, updates)
            /\ committed' = expected'
            /\ UNCHANGED tx

LEMMA StageWrites ==
    ASSUME NEW new, NEW rows, NEW hits, NEW adds, NEW updates, ran < MaxStatements,
           new \in {{}, {ran + 1}} /\ (new = {} => rows = {}),
           rows \subseteq Row /\ \A r \in rows : r.by = ran + 1,
           DOMAIN hits \subseteq DOMAIN view /\ \A s \in DOMAIN hits : hits[s] \subseteq Row,
           IsSequence(adds) /\ ToSet(adds) = new,
           IsSequence(updates),
           \A i \in DOMAIN updates : updates[i].seg \in DOMAIN hits /\ updates[i].dv = DVId(ran + 1, updates[i].seg),
           \A s \in DOMAIN hits : \E i \in DOMAIN updates : updates[i].seg = s,
           NEW newDVs, DOMAIN newDVs = {DVId(ran + 1, s) : s \in DOMAIN hits},
           \A s \in DOMAIN hits : newDVs[DVId(ran + 1, s)] = Dead(view[s]) \cup hits[s],
           Stage([s \in new |-> rows], newDVs, adds, updates)
    PROVE  Writes(new, rows, hits, adds, updates)
<1>1. DOMAIN files' = DOMAIN files \cup new /\ \A s \in DOMAIN files \cup new : files'[s] = IF s \in new THEN rows ELSE files[s]
  BY DEF Stage
<1>2. /\ DOMAIN dvs' = DOMAIN dvs \cup DOMAIN newDVs
      /\ \A d \in DOMAIN dvs \cup DOMAIN newDVs : dvs'[d] = IF d \in DOMAIN newDVs THEN newDVs[d] ELSE dvs[d]
  BY DEF Stage
<1>3. /\ ran' = ran + 1
      /\ IF tx.open
         THEN /\ tx' = [tx EXCEPT !.adds = @ \o adds, !.updates = @ \o updates]
              /\ UNCHANGED <<view, committed>>
         ELSE /\ view' = Publish(view, adds, updates)
              /\ committed' = expected'
              /\ UNCHANGED tx
  BY DEF Stage
<1>4. \A s \in DOMAIN hits : dvs'[DVId(ran + 1, s)] = Dead(view[s]) \cup hits[s]
  BY <1>2
<1> QED BY <1>1, <1>2, <1>3, <1>4 DEF Writes

\* The statement adds to what there was.
LEMMA WritesFresh ==
    ASSUME StatementsAssumption, ShapeInv, NEW new, NEW rows, NEW hits, NEW adds, NEW updates, Writes(new, rows, hits, adds, updates)
    PROVE  /\ ran + 1 \in 1..MaxStatements /\ ran' \in 0..MaxStatements
           /\ new \cap DOMAIN files = {}
           /\ \A s \in DOMAIN hits : s \in 1..MaxStatements
           /\ \A s \in DOMAIN hits : DVId(ran + 1, s) \notin DOMAIN dvs /\ DVId(ran + 1, s) # NoVector
           /\ \A s \in DOMAIN files : files'[s] = files[s]
           /\ \A d \in DOMAIN dvs : dvs'[d] = dvs[d] /\ d # NoVector
<1>1. ran \in Nat /\ ran + 1 \in 1..MaxStatements /\ ran + 1 \notin 1..ran /\ ran' \in 0..MaxStatements
      /\ 1..ran \subseteq 1..MaxStatements
  BY DEF StatementsAssumption, ShapeInv, FilesOK, Writes
<1>2. new \cap DOMAIN files = {}
  BY <1>1 DEF ShapeInv, FilesOK, Writes
<1>3. \A s \in DOMAIN hits : s \in 1..MaxStatements
  BY <1>1 DEF ShapeInv, FilesOK, ViewOK, Writes
<1>4. \A d \in DOMAIN dvs : d # NoVector
  BY DEF ShapeInv, FilesOK, NoVector
<1>5. \A s : DVId(ran + 1, s) \notin DOMAIN dvs /\ DVId(ran + 1, s) # NoVector
  BY <1>1 DEF ShapeInv, FilesOK, DVId, NoVector
<1>6. \A d \in DOMAIN dvs : d \notin {DVId(ran + 1, s) : s \in DOMAIN hits}
  BY <1>5
<1> QED BY <1>1, <1>2, <1>3, <1>4, <1>5, <1>6 DEF Writes

LEMMA WritesFiles ==
    ASSUME StatementsAssumption, ShapeInv, NEW new, NEW rows, NEW hits, NEW adds, NEW updates, Writes(new, rows, hits, adds, updates)
    PROVE  FilesOK'
<1>1. /\ ran + 1 \in 1..MaxStatements /\ ran' \in 0..MaxStatements
      /\ \A s \in DOMAIN hits : s \in 1..MaxStatements
      /\ \A s \in DOMAIN files : files'[s] = files[s]
      /\ \A d \in DOMAIN dvs : dvs'[d] = dvs[d]
  BY WritesFresh
<1>2. ran \in Nat /\ ran' = ran + 1 /\ 1..ran \subseteq 1..ran' /\ ran + 1 \in 1..ran'
  BY <1>1 DEF ShapeInv, FilesOK, Writes
<1>3. DOMAIN files' \subseteq 1..ran' /\ \A s \in DOMAIN files' : files'[s] \subseteq Row /\ \A r \in files'[s] : r.by = s
  <2> SUFFICES ASSUME NEW s \in DOMAIN files'
               PROVE  s \in 1..ran' /\ files'[s] \subseteq Row /\ \A r \in files'[s] : r.by = s
    OBVIOUS
  <2>1. CASE s \in DOMAIN files
    BY <1>1, <1>2, <2>1 DEF ShapeInv, FilesOK
  <2>2. CASE s \in new
    BY <1>2, <2>2 DEF Writes
  <2> QED BY <2>1, <2>2 DEF Writes
<1>4. DOMAIN dvs' \subseteq (1..ran') \X (1..MaxStatements) /\ \A d \in DOMAIN dvs' : dvs'[d] \subseteq Row
  <2> SUFFICES ASSUME NEW d \in DOMAIN dvs'
               PROVE  d \in (1..ran') \X (1..MaxStatements) /\ dvs'[d] \subseteq Row
    OBVIOUS
  <2>1. CASE d \in DOMAIN dvs
    <3>1. d \in (1..ran) \X (1..MaxStatements) /\ dvs'[d] \subseteq Row
      BY <1>1, <2>1 DEF ShapeInv, FilesOK
    <3> QED BY <1>2, <3>1
  <2>2. ASSUME NEW s \in DOMAIN hits, d = DVId(ran + 1, s)
        PROVE  d \in (1..ran') \X (1..MaxStatements) /\ dvs'[d] \subseteq Row
    <3>1. dvs'[d] = Dead(view[s]) \cup hits[s] /\ hits[s] \subseteq Row /\ s \in DOMAIN view
      BY <2>2 DEF Writes
    <3>2. Dead(view[s]) \subseteq Row
      BY <3>1 DEF Dead, ShapeInv, ViewOK, FilesOK
    <3> QED BY <1>1, <1>2, <2>2, <3>1, <3>2 DEF DVId
  <2> QED BY <2>1, <2>2 DEF Writes
<1> QED BY <1>1, <1>3, <1>4 DEF FilesOK

\* A statement outside a Tx is published.
LEMMA PublishedIs ==
    ASSUME StatementsAssumption, ShapeInv, NEW new, NEW rows, NEW hits, NEW adds, NEW updates, Writes(new, rows, hits, adds, updates),
           ~tx.open
    PROVE  /\ DOMAIN view' = DOMAIN view \cup new
           /\ \A s \in DOMAIN hits : view'[s] = DVId(ran + 1, s)
           /\ \A s \in DOMAIN view \ DOMAIN hits : view'[s] = view[s]
           /\ \A s \in new : view'[s] = NoVector
<1>1. view' = [s \in DOMAIN view \cup new |-> LastDV(updates, s, IF s \in DOMAIN view THEN view[s] ELSE NoVector)]
  BY DEF Writes, Publish
<1>2. /\ IsSequence(updates) /\ DOMAIN hits \subseteq DOMAIN view
      /\ \A i \in DOMAIN updates : updates[i].seg \in DOMAIN hits /\ updates[i].dv = DVId(ran + 1, updates[i].seg)
      /\ \A s \in DOMAIN hits : \E i \in DOMAIN updates : updates[i].seg = s
  BY DEF Writes
<1>3. new \cap DOMAIN view = {}
  BY WritesFresh DEF ShapeInv, ViewOK
<1>4. \A s \in DOMAIN hits : \A old : LastDV(updates, s, old) = DVId(ran + 1, s)
  BY <1>2, LastDVIs
<1>5. \A s : s \notin DOMAIN hits => \A old : LastDV(updates, s, old) = old
  BY <1>2, LastDVIs
<1> QED BY <1>1, <1>2, <1>3, <1>4, <1>5

LEMMA WritesShape ==
    ASSUME StatementsAssumption, ShapeInv, NEW new, NEW rows, NEW hits, NEW adds, NEW updates, Writes(new, rows, hits, adds, updates)
    PROVE  ShapeInv'
<1> DEFINE ids == {DVId(ran + 1, s) : s \in DOMAIN hits}
<1>1. /\ new \cap DOMAIN files = {} /\ ids \cap DOMAIN dvs = {} /\ NoVector \notin ids
      /\ DOMAIN files' = DOMAIN files \cup new /\ DOMAIN dvs' = DOMAIN dvs \cup ids
  <2>1. new \cap DOMAIN files = {} /\ \A s \in DOMAIN hits : DVId(ran + 1, s) \notin DOMAIN dvs /\ DVId(ran + 1, s) # NoVector
    BY WritesFresh
  <2>2. DOMAIN files' = DOMAIN files \cup new /\ DOMAIN dvs' = DOMAIN dvs \cup ids
    BY DEF Writes
  <2>3. ids \cap DOMAIN dvs = {} /\ NoVector \notin ids
    BY <2>1
  <2> QED BY <2>1, <2>2, <2>3
<1>2. FilesOK'
  BY WritesFiles
<1> HIDE DEF ids
<1>3. CASE tx.open
  <2>1. /\ tx' = [tx EXCEPT !.adds = tx.adds \o adds, !.updates = tx.updates \o updates]
        /\ UNCHANGED view
    BY <1>3 DEF Writes
  <2>2. /\ tx'.open = tx.open /\ tx'.wasBlind = tx.wasBlind /\ tx'.found = tx.found
        /\ tx'.adds = tx.adds \o adds /\ tx'.updates = tx.updates \o updates
        /\ tx' = [open |-> tx'.open, adds |-> tx'.adds, updates |-> tx'.updates, found |-> tx'.found,
                  wasBlind |-> tx'.wasBlind]
    BY <2>1 DEF ShapeInv, PendingOK
  <2>3. ViewOK'
    BY <1>1, <2>1 DEF ShapeInv, ViewOK
  <2>4. IsSequence(tx'.adds) /\ ToSet(tx'.adds) = ToSet(tx.adds) \cup new
    <3>1. IsSequence(tx.adds) /\ IsSequence(adds) /\ ToSet(adds) = new
      BY DEF ShapeInv, PendingOK, Writes
    <3>2. Joins(tx'.adds, tx.adds, adds)
      BY <2>2, <3>1, JoinedElements
    <3> QED BY <3>1, <3>2, JoinedSets DEF Joins
  <2>5. /\ IsSequence(tx'.updates)
        /\ \A i \in DOMAIN tx'.updates : \/ \E j \in DOMAIN tx.updates : tx'.updates[i] = tx.updates[j]
                                         \/ \E j \in DOMAIN updates : tx'.updates[i] = updates[j]
        /\ \A i \in DOMAIN tx.updates : \E j \in DOMAIN tx'.updates : tx'.updates[j] = tx.updates[i]
        /\ \A i \in DOMAIN updates : \E j \in DOMAIN tx'.updates : tx'.updates[j] = updates[i]
    <3>1. IsSequence(tx.updates) /\ IsSequence(updates)
      BY DEF ShapeInv, PendingOK, Writes
    <3>2. Joins(tx'.updates, tx.updates, updates)
      BY <2>2, <3>1, JoinedElements
    <3> QED BY <3>2 DEF Joins
  <2>6. PendingDVs' = PendingDVs \cup ids
    <3>1. \A i \in DOMAIN updates : updates[i].dv \in ids
      BY DEF Writes, ids
    <3>2. \A d \in ids : \E i \in DOMAIN updates : updates[i].dv = d
      BY DEF Writes, ids
    <3> QED BY <2>5, <3>1, <3>2 DEF PendingDVs
  <2>7. \A i \in DOMAIN tx'.updates : tx'.updates[i].seg \in DOMAIN view
    BY <2>5 DEF Writes, ShapeInv, PendingOK
  <2>8. tx'.found = <<DOMAIN files' \ ToSet(tx'.adds), DOMAIN dvs' \ PendingDVs'>>
    <3>1. tx'.found = <<DOMAIN files \ ToSet(tx.adds), DOMAIN dvs \ PendingDVs>>
      BY <1>3, <2>2 DEF ShapeInv, PendingOK
    <3>2. DOMAIN files' \ ToSet(tx'.adds) = DOMAIN files \ ToSet(tx.adds)
      BY <1>1, <2>4
    <3>3. DOMAIN dvs' \ PendingDVs' = DOMAIN dvs \ PendingDVs
      BY <1>1, <2>6
    <3> QED BY <3>1, <3>2, <3>3
  <2>9. ToSet(tx'.adds) \subseteq DOMAIN files' \ DOMAIN view
    BY <1>1, <2>4 DEF ShapeInv, PendingOK, ViewOK
  <2>10. \A s \in DOMAIN view : view[s] \notin PendingDVs'
    BY <1>1, <2>6 DEF ShapeInv, PendingOK, ViewOK
  <2>11. PendingDVs' \subseteq DOMAIN dvs'
    BY <1>1, <2>6 DEF ShapeInv, PendingOK
  <2>12. PendingOK'
    BY <1>3, <2>1, <2>2, <2>4, <2>5, <2>7, <2>8, <2>9, <2>10, <2>11 DEF PendingOK, ShapeInv
  <2> QED BY <1>2, <2>3, <2>12 DEF ShapeInv
<1>4. CASE ~tx.open
  <2>1. tx' = tx /\ tx.adds = <<>> /\ tx.updates = <<>> /\ PendingDVs = {} /\ ToSet(tx.adds) = {}
    BY <1>4 DEF Writes, ShapeInv, PendingOK, PendingDVs, ToSet
  <2>2. PendingDVs' = {} /\ ToSet(tx'.adds) = {} /\ DOMAIN tx'.updates = {}
    BY <2>1 DEF PendingDVs
  <2>3. ViewOK'
    <3>1. \A s \in DOMAIN hits : DVId(ran + 1, s) \in ids
      BY DEF ids
    <3>2. /\ DOMAIN view' = DOMAIN view \cup new
          /\ \A s \in DOMAIN hits : view'[s] = DVId(ran + 1, s)
          /\ \A s \in DOMAIN view \ DOMAIN hits : view'[s] = view[s]
          /\ \A s \in new : view'[s] = NoVector
      BY <1>4, PublishedIs
    <3>3. \A s \in DOMAIN view' : view'[s] = NoVector \/ view'[s] \in DOMAIN dvs'
      <4> SUFFICES ASSUME NEW s \in DOMAIN view' PROVE view'[s] = NoVector \/ view'[s] \in DOMAIN dvs'
        OBVIOUS
      <4>1. CASE s \in DOMAIN hits
        BY <1>1, <3>1, <3>2, <4>1
      <4>2. CASE s \in DOMAIN view \ DOMAIN hits
        BY <1>1, <3>2, <4>2 DEF ViewOK, ShapeInv
      <4> QED BY <3>2, <4>1, <4>2
    <3> QED BY <1>1, <3>2, <3>3 DEF ViewOK, ShapeInv
  <2>4. PendingOK'
    BY <1>4, <2>1, <2>2 DEF PendingOK, ShapeInv
  <2> QED BY <1>2, <2>3, <2>4 DEF ShapeInv
<1> QED BY <1>3, <1>4

-----------------------------------------------------------------------------
(* The rows after a statement *)

\* The rows of a view do not change by what is written for others.
LEMMA RowsKept ==
    ASSUME NEW fs, NEW ds, NEW gs, NEW es, NEW v, \A s \in DOMAIN v : gs[s] = fs[s],
           \A s \in DOMAIN v : v[s] # NoVector => es[v[s]] = ds[v[s]]
    PROVE  RowsIn(gs, es, v) = RowsIn(fs, ds, v)
BY DEF RowsIn, LiveIn, DeadIn

\* A Tx without changes sees the snapshot.
LEMMA NothingPending ==
    ASSUME NEW v, NEW t, t.adds = <<>>, t.updates = <<>>
    PROVE  RowsIn(files, dvs, Overlay(v, t)) = RowsIn(files, dvs, v)
<1>1. IsSequence(<<>>) /\ DOMAIN <<>> = {} /\ ToSet(<<>>) = {}
  BY DEF IsSequence, ToSet
<1>2. \A s, old : LastDV(<<>>, s, old) = old
  BY <1>1, LastDVIs
<1>3. DOMAIN Overlay(v, t) = DOMAIN v /\ \A s \in DOMAIN v : Overlay(v, t)[s] = v[s]
  BY <1>1, <1>2 DEF Overlay
<1> HIDE DEF Overlay
<1> QED BY <1>3 DEF RowsIn, LiveIn

\* Outside a Tx, a statement that hits the rows of keys.
LEMMA OutsideRows ==
    ASSUME StatementsAssumption, TxInv, ~tx.open,
           NEW new, NEW rows, NEW hits, NEW adds, NEW updates, Writes(new, rows, hits, adds, updates), NEW keys,
           \A s \in DOMAIN view \ DOMAIN hits : \A r \in LiveIn(files, dvs, view, s) : r.key \notin keys,
           \A s \in DOMAIN hits : hits[s] = {r \in LiveIn(files, dvs, view, s) : r.key \in keys},
           expected' \subseteq Row, blind' \in BOOLEAN, blind => blind',
           Rows(view) = expected => expected' = {r \in expected : r.key \notin keys} \cup rows
    PROVE  RowsOK'
<1>1. /\ DOMAIN view' = DOMAIN view \cup new
      /\ \A s \in DOMAIN hits : view'[s] = DVId(ran + 1, s)
      /\ \A s \in DOMAIN view \ DOMAIN hits : view'[s] = view[s]
      /\ \A s \in new : view'[s] = NoVector
  BY PublishedIs DEF TxInv
<1>2. /\ new \cap DOMAIN files = {}
      /\ \A s \in DOMAIN hits : DVId(ran + 1, s) # NoVector
      /\ \A s \in DOMAIN files : files'[s] = files[s]
      /\ \A d \in DOMAIN dvs : dvs'[d] = dvs[d]
  BY WritesFresh DEF TxInv
<1>3. /\ DOMAIN view \subseteq DOMAIN files
      /\ \A s \in DOMAIN view : view[s] = NoVector \/ view[s] \in DOMAIN dvs
  BY DEF TxInv, ShapeInv, ViewOK
<1>4. /\ new = {} => rows = {}
      /\ \A s \in new : files'[s] = rows
      /\ DOMAIN hits \subseteq DOMAIN view
      /\ \A s \in DOMAIN hits : dvs'[DVId(ran + 1, s)] = DeadIn(dvs, view[s]) \cup hits[s]
      /\ tx' = tx /\ committed' = expected'
  BY DEF Writes, Dead, DeadIn
<1>5. RowsIn(files', dvs', view') = {r \in RowsIn(files, dvs, view) : r.key \notin keys} \cup rows
  <2> DEFINE hit == DOMAIN hits
  <2>1. hit \in SUBSET DOMAIN view /\ new \cap DOMAIN view = {}
    BY <1>2, <1>3, <1>4
  <2>2. \A s \in DOMAIN view : files'[s] = files[s]
    BY <1>2, <1>3
  <2>3. \A s \in DOMAIN view \ hit : /\ view'[s] = view[s] /\ (view[s] # NoVector => dvs'[view[s]] = dvs[view[s]])
                                     /\ \A r \in LiveIn(files, dvs, view, s) : r.key \notin keys
    BY <1>1, <1>2, <1>3
  <2>4. \A s \in hit : /\ view'[s] # NoVector
                       /\ dvs'[view'[s]] = DeadIn(dvs, view[s]) \cup {r \in LiveIn(files, dvs, view, s) : r.key \in keys}
    BY <1>1, <1>2, <1>4
  <2>5. Rewrites(files, dvs, view, files', dvs', view', new, rows, keys, hit)
    <3> HIDE DEF hit
    <3> QED BY <1>1, <1>4, <2>1, <2>2, <2>3, <2>4 DEF Rewrites
  <2> QED BY <2>5, RowsAfter
<1>6. ~blind' => Rows(view)' = committed'
  <2>1. ~blind' => Rows(view) = expected
    BY DEF TxInv, RowsOK
  <2> QED BY <1>4, <1>5, <2>1 DEF Rows
<1> QED BY <1>4, <1>6 DEF TxInv, RowsOK

\* In a Tx that has changed nothing yet: as OutsideRows, but what the statement
\* does is pending.
LEMMA InsideRows ==
    ASSUME StatementsAssumption, TxInv, tx.open,
           NEW new, NEW rows, NEW hits, NEW adds, NEW updates, Writes(new, rows, hits, adds, updates), NEW keys,
           \A s \in DOMAIN view \ DOMAIN hits : \A r \in LiveIn(files, dvs, view, s) : r.key \notin keys,
           \A s \in DOMAIN hits : hits[s] = {r \in LiveIn(files, dvs, view, s) : r.key \in keys},
           expected' \subseteq Row, blind' \in BOOLEAN, blind => blind',
           ~blind' => tx.adds = <<>> /\ tx.updates = <<>>,
           Rows(view) = expected => expected' = {r \in expected : r.key \notin keys} \cup rows
    PROVE  RowsOK'
<1> DEFINE w == Overlay(view', tx')
<1>1. /\ tx'.open = tx.open /\ tx'.wasBlind = tx.wasBlind
      /\ tx'.adds = tx.adds \o adds /\ tx'.updates = tx.updates \o updates
      /\ view' = view /\ committed' = committed
  <2>1. /\ tx' = [tx EXCEPT !.adds = @ \o adds, !.updates = @ \o updates]
        /\ view' = view /\ committed' = committed
    BY DEF Writes
  <2>2. DOMAIN tx = {"open", "adds", "updates", "found", "wasBlind"}
    BY DEF TxInv, ShapeInv, PendingOK
  <2> QED BY ONLY <2>1, <2>2
<1>2. /\ new \cap DOMAIN files = {}
      /\ \A s \in DOMAIN hits : DVId(ran + 1, s) # NoVector
      /\ \A s \in DOMAIN files : files'[s] = files[s]
      /\ \A d \in DOMAIN dvs : dvs'[d] = dvs[d]
  BY WritesFresh DEF TxInv
<1>3. /\ DOMAIN view \subseteq DOMAIN files
      /\ \A s \in DOMAIN view : view[s] = NoVector \/ view[s] \in DOMAIN dvs
  BY DEF TxInv, ShapeInv, ViewOK
<1>4. /\ new = {} => rows = {}
      /\ \A s \in new : files'[s] = rows
      /\ DOMAIN hits \subseteq DOMAIN view
      /\ \A s \in DOMAIN hits : dvs'[DVId(ran + 1, s)] = DeadIn(dvs, view[s]) \cup hits[s]
      /\ IsSequence(adds) /\ ToSet(adds) = new /\ IsSequence(updates)
      /\ \A i \in DOMAIN updates : updates[i].seg \in DOMAIN hits /\ updates[i].dv = DVId(ran + 1, updates[i].seg)
      /\ \A s \in DOMAIN hits : \E i \in DOMAIN updates : updates[i].seg = s
  BY DEF Writes, Dead, DeadIn
<1>5. Rows(view)' = Rows(view)
  <2>1. \A s \in DOMAIN view : files'[s] = files[s]
    BY <1>2, <1>3
  <2>2. \A s \in DOMAIN view : view[s] # NoVector => dvs'[view[s]] = dvs[view[s]]
    BY <1>2, <1>3
  <2>3. RowsIn(files', dvs', view) = RowsIn(files, dvs, view)
    BY <2>1, <2>2, RowsKept
  <2> QED BY <1>1, <2>3 DEF Rows
<1>6. ASSUME ~blind' PROVE RowsIn(files', dvs', w) = expected'
  <2>1. tx.adds = <<>> /\ tx.updates = <<>> /\ IsSequence(<<>>) /\ DOMAIN <<>> = {} /\ ToSet(<<>>) = {}
    BY <1>6 DEF IsSequence, ToSet
  <2>2. Joins(tx'.adds, tx.adds, adds) /\ Joins(tx'.updates, tx.updates, updates)
    BY <1>1, <1>4, <2>1, JoinedElements
  <2>3. ToSet(tx'.adds) = new
    <3>1. ToSet(tx'.adds) = ToSet(tx.adds) \cup ToSet(adds)
      BY <2>2, JoinedSets
    <3>2. ToSet(tx.adds) = {}
      BY <2>1
    <3> QED BY <1>4, <3>1, <3>2
  <2>4. /\ IsSequence(tx'.updates)
        /\ \A i \in DOMAIN tx'.updates : /\ tx'.updates[i].seg \in DOMAIN hits
                                         /\ tx'.updates[i].dv = DVId(ran + 1, tx'.updates[i].seg)
        /\ \A s \in DOMAIN hits : \E i \in DOMAIN tx'.updates : tx'.updates[i].seg = s
    BY <1>4, <2>1, <2>2 DEF Joins
  <2>5. \A s \in DOMAIN hits : \A old : LastDV(tx'.updates, s, old) = DVId(ran + 1, s)
    BY <2>4, LastDVIs
  <2>6. \A s : s \notin DOMAIN hits => \A old : LastDV(tx'.updates, s, old) = old
    BY <2>4, LastDVIs
  <2>7. w = [s \in DOMAIN view \cup new |-> IF s \in DOMAIN view THEN LastDV(tx'.updates, s, view[s]) ELSE NoVector]
    BY <1>1, <2>3 DEF Overlay
  <2>8. new \cap DOMAIN view = {}
    BY <1>2, <1>3
  <2>9. /\ DOMAIN w = DOMAIN view \cup new
        /\ \A s \in DOMAIN hits : w[s] = DVId(ran + 1, s)
        /\ \A s \in DOMAIN view \ DOMAIN hits : w[s] = view[s]
        /\ \A s \in new : w[s] = NoVector
    BY <1>4, <2>5, <2>6, <2>7, <2>8
  <2> DEFINE hit == DOMAIN hits
  <2> HIDE DEF w
  <2>10. hit \in SUBSET DOMAIN view
    BY <1>4
  <2>11. \A s \in DOMAIN view : files'[s] = files[s]
    BY <1>2, <1>3
  <2>12. \A s \in DOMAIN view \ hit : /\ w[s] = view[s] /\ (view[s] # NoVector => dvs'[view[s]] = dvs[view[s]])
                                      /\ \A r \in LiveIn(files, dvs, view, s) : r.key \notin keys
    BY <1>2, <1>3, <2>9
  <2>13. \A s \in hit : /\ w[s] # NoVector
                        /\ dvs'[w[s]] = DeadIn(dvs, view[s]) \cup {r \in LiveIn(files, dvs, view, s) : r.key \in keys}
    BY <1>2, <1>4, <2>9
  <2> HIDE DEF hit
  <2>14. RowsIn(files', dvs', w) = {r \in RowsIn(files, dvs, view) : r.key \notin keys} \cup rows
    <3>1. Rewrites(files, dvs, view, files', dvs', w, new, rows, keys, hit)
      BY <1>4, <2>8, <2>9, <2>10, <2>11, <2>12, <2>13 DEF Rewrites
    <3> QED BY <3>1, RowsAfter
  <2>15. Rows(view) = expected
    <3>1. Rows(Overlay(view, tx)) = expected
      BY <1>6 DEF TxInv, RowsOK
    <3> QED BY <2>1, <3>1, NothingPending DEF Rows
  <2> QED BY <2>14, <2>15 DEF Rows
<1>7. ~blind' => Rows(Overlay(view, tx))' = expected'
  BY <1>6 DEF Rows
<1> HIDE DEF w
<1> QED BY <1>1, <1>5, <1>7 DEF TxInv, RowsOK

\* INSERT in a Tx, whatever it has changed.
LEMMA InsideInsertRows ==
    ASSUME StatementsAssumption, TxInv, tx.open,
           NEW new, NEW rows, NEW hits, NEW adds, NEW updates, Writes(new, rows, hits, adds, updates), updates = <<>>,
           expected' = expected \cup rows, blind' = blind
    PROVE  RowsOK'
<1> DEFINE w == Overlay(view', tx')
           v == Overlay(view, tx)
<1>1. /\ tx'.open = tx.open /\ tx'.wasBlind = tx.wasBlind
      /\ tx'.adds = tx.adds \o adds /\ tx'.updates = tx.updates
      /\ view' = view /\ committed' = committed
  <2>1. tx.updates \o <<>> = tx.updates
    BY DEF TxInv, ShapeInv, PendingOK, IsSequence
  <2>2. tx' = [tx EXCEPT !.adds = tx.adds \o adds, !.updates = tx.updates \o <<>>] /\ UNCHANGED <<view, committed>>
    BY DEF Writes
  <2>3. tx' = [tx EXCEPT !.adds = tx.adds \o adds, !.updates = tx.updates]
    BY <2>1, <2>2
  <2> QED BY <2>2, <2>3 DEF TxInv, ShapeInv, PendingOK
<1>2. /\ new \cap DOMAIN files = {}
      /\ \A s \in DOMAIN files : files'[s] = files[s]
      /\ \A d \in DOMAIN dvs : dvs'[d] = dvs[d]
  BY WritesFresh DEF TxInv
<1>3. /\ DOMAIN view \subseteq DOMAIN files
      /\ \A s \in DOMAIN view : view[s] = NoVector \/ view[s] \in DOMAIN dvs
  BY DEF TxInv, ShapeInv, ViewOK
<1>4. /\ new = {} => rows = {}
      /\ \A s \in new : files'[s] = rows
      /\ IsSequence(adds) /\ ToSet(adds) = new /\ rows \subseteq Row
  BY DEF Writes
<1>5. Rows(view)' = Rows(view)
  <2>1. \A s \in DOMAIN view : files'[s] = files[s]
    BY <1>2, <1>3
  <2>2. \A s \in DOMAIN view : view[s] # NoVector => dvs'[view[s]] = dvs[view[s]]
    BY <1>2, <1>3
  <2>3. RowsIn(files', dvs', view) = RowsIn(files, dvs, view)
    BY <2>1, <2>2, RowsKept
  <2> QED BY <1>1, <2>3 DEF Rows
<1>6. ASSUME ~blind' PROVE RowsIn(files', dvs', w) = expected'
  <2>1. IsSequence(tx.adds) /\ ToSet(tx.adds) \subseteq DOMAIN files \ DOMAIN view
    BY DEF TxInv, ShapeInv, PendingOK
  <2>2. Joins(tx'.adds, tx.adds, adds)
    BY <1>1, <1>4, <2>1, JoinedElements
  <2>3. ToSet(tx'.adds) = ToSet(tx.adds) \cup new
    BY <1>4, <2>2, JoinedSets
  <2>4. /\ w = [s \in DOMAIN view \cup (ToSet(tx.adds) \cup new) |->
                  IF s \in DOMAIN view THEN LastDV(tx.updates, s, view[s]) ELSE NoVector]
        /\ v = [s \in DOMAIN view \cup ToSet(tx.adds) |->
                  IF s \in DOMAIN view THEN LastDV(tx.updates, s, view[s]) ELSE NoVector]
    BY <1>1, <2>3 DEF Overlay
  <2>5. DOMAIN v \subseteq DOMAIN files /\ new \cap DOMAIN v = {}
    BY <1>2, <1>3, <2>1, <2>4
  <2>6. /\ DOMAIN w = DOMAIN v \cup new
        /\ \A s \in DOMAIN v : w[s] = v[s]
        /\ \A s \in new : w[s] = NoVector
    BY <1>2, <1>3, <2>4
  <2>7. \A s \in DOMAIN v : v[s] = NoVector \/ v[s] \in DOMAIN dvs
    <3> SUFFICES ASSUME NEW s \in DOMAIN view
                 PROVE  LastDV(tx.updates, s, view[s]) = NoVector \/ LastDV(tx.updates, s, view[s]) \in DOMAIN dvs
      BY <2>4
    <3>1. LastDV(tx.updates, s, view[s]) = view[s] \/ LastDV(tx.updates, s, view[s]) \in PendingDVs
      <4>1. IsSequence(tx.updates)
        BY DEF TxInv, ShapeInv, PendingOK
      <4> QED BY <4>1, LastDVIs DEF PendingDVs
    <3> QED BY <1>3, <3>1 DEF TxInv, ShapeInv, PendingOK
  <2> HIDE DEF w, v
  <2>8. \A s \in DOMAIN v : files'[s] = files[s]
    BY <1>2, <2>5
  <2>9. \A s \in DOMAIN v \ {} : /\ w[s] = v[s] /\ (v[s] # NoVector => dvs'[v[s]] = dvs[v[s]])
                                 /\ \A r \in LiveIn(files, dvs, v, s) : r.key \notin {}
    BY <1>2, <2>6, <2>7
  <2>10. RowsIn(files', dvs', w) = {r \in RowsIn(files, dvs, v) : r.key \notin {}} \cup rows
    <3>1. Rewrites(files, dvs, v, files', dvs', w, new, rows, {}, {})
      BY <1>4, <2>5, <2>6, <2>8, <2>9 DEF Rewrites
    <3> QED BY <3>1, RowsAfter
  <2>11. RowsIn(files, dvs, v) = expected
    BY <1>6 DEF TxInv, RowsOK, Rows, v
  <2> QED BY <2>10, <2>11
<1>7. ~blind' => Rows(Overlay(view, tx))' = expected'
  BY <1>6 DEF Rows
<1> HIDE DEF w, v
<1>8. expected' \subseteq Row
  BY <1>4 DEF TxInv, RowsOK
<1> QED BY <1>1, <1>5, <1>7, <1>8 DEF TxInv, RowsOK

-----------------------------------------------------------------------------
(* The statements *)

\* What a WHERE over keys hits in the snapshot.
Hit(keys, hits) ==
    /\ DOMAIN hits \subseteq DOMAIN view /\ IsFiniteSet(DOMAIN hits)
    /\ \A s \in DOMAIN hits : hits[s] \subseteq Row
    /\ \A s \in DOMAIN view \ DOMAIN hits : \A r \in LiveIn(files, dvs, view, s) : r.key \notin keys
    /\ \A s \in DOMAIN hits : hits[s] = {r \in LiveIn(files, dvs, view, s) : r.key \in keys}

LEMMA HitsAre ==
    ASSUME StatementsAssumption, ShapeInv, NEW keys
    PROVE  Hit(keys, HitsOf(keys))
<1> DEFINE hits == HitsOf(keys)
<1>1. \A s \in DOMAIN view : LiveRows(view, s) = LiveIn(files, dvs, view, s)
  BY DEF LiveRows, LiveIn, Dead, DeadIn
<1>2. /\ DOMAIN hits = {s \in DOMAIN view : \E r \in LiveIn(files, dvs, view, s) : r.key \in keys}
      /\ \A s \in DOMAIN hits : hits[s] = {r \in LiveIn(files, dvs, view, s) : r.key \in keys}
  BY <1>1 DEF HitsOf
<1> HIDE DEF hits
<1>3. DOMAIN hits \subseteq 1..ran /\ ran \in Nat
  BY <1>2 DEF ShapeInv, ViewOK, FilesOK, StatementsAssumption
<1>4. IsFiniteSet(DOMAIN hits)
  <2>1. IsFiniteSet(1..ran)
    BY <1>3, FS_Interval
  <2>2. DOMAIN hits \in SUBSET (1..ran)
    BY <1>3
  <2> QED BY <2>1, <2>2, FS_Subset
<1>5. \A s \in DOMAIN hits : hits[s] \subseteq Row
  BY <1>2 DEF LiveIn, ShapeInv, ViewOK, FilesOK
<1>6. Hit(keys, hits)
  BY <1>2, <1>4, <1>5 DEF Hit
<1> QED BY <1>6 DEF hits

LEMMA UpdatesAre ==
    ASSUME NEW stmt, NEW hits, IsFiniteSet(DOMAIN hits), NEW updates, updates = Updates(stmt, hits)
    PROVE  /\ IsSequence(updates)
           /\ \A i \in DOMAIN updates : updates[i].seg \in DOMAIN hits /\ updates[i].dv = DVId(stmt, updates[i].seg)
           /\ \A s \in DOMAIN hits : \E i \in DOMAIN updates : updates[i].seg = s
<1> DEFINE segs == SetToSeq(DOMAIN hits)
           n == Len(segs)
<1>1. IsSequence(segs) /\ ToSet(segs) = DOMAIN hits
  BY ListedSet DEF Lists
<1>2. n \in Nat /\ DOMAIN segs = 1..n
  BY <1>1, SequenceLength
<1>3. updates = [i \in DOMAIN segs |-> [seg |-> segs[i], dv |-> DVId(stmt, segs[i])]]
  BY DEF Updates
<1>4. (\A i \in DOMAIN segs : segs[i] \in DOMAIN hits) /\ \A s \in DOMAIN hits : \E i \in DOMAIN segs : segs[i] = s
  BY <1>1 DEF ToSet
<1> HIDE DEF segs, n
<1>5. updates \in Seq({updates[i] : i \in DOMAIN updates})
  BY <1>2, <1>3
<1>6. \A i \in DOMAIN segs : updates[i].seg = segs[i] /\ updates[i].dv = DVId(stmt, segs[i])
  BY <1>3
<1> QED BY <1>3, <1>4, <1>5, <1>6 DEF IsSequence

LEMMA RewrittenAre ==
    ASSUME NEW stmt, NEW hits, NEW new, new = RewriteDVs(stmt, hits)
    PROVE  /\ DOMAIN new = {DVId(stmt, s) : s \in DOMAIN hits}
           /\ \A s \in DOMAIN hits : new[DVId(stmt, s)] = Dead(view[s]) \cup hits[s]
<1>1. \A s : DVId(stmt, s)[2] = s
  BY DEF DVId
<1> QED BY <1>1 DEF RewriteDVs

LEMMA InsertStep ==
    ASSUME StatementsAssumption, TxInv, NEW keys \in SUBSET FreshKeys, Insert(keys)
    PROVE  TxInv'
<1> DEFINE stmt == ran + 1
           rows == {[key |-> k, by |-> stmt] : k \in keys}
<1>1. /\ ran < MaxStatements /\ expected' = expected \cup rows /\ blind' = blind
      /\ Stage([s \in {stmt} |-> rows], <<>>, <<stmt>>, <<>>)
  BY DEF Insert
<1>2. stmt \in 1..MaxStatements
  BY <1>1 DEF TxInv, ShapeInv, FilesOK, StatementsAssumption
<1>3. rows \subseteq Row /\ \A r \in rows : r.by = stmt
  BY <1>2 DEF FreshKeys, Row
<1> HIDE DEF rows
<1>4. Writes({stmt}, rows, <<>>, <<stmt>>, <<>>)
  <2>1. IsSequence(<<>>) /\ DOMAIN <<>> = {}
    BY DEF IsSequence
  <2>2. IsSequence(<<stmt>>) /\ ToSet(<<stmt>>) = {stmt}
    BY DEF IsSequence, ToSet
  <2> QED BY <1>1, <1>3, <2>1, <2>2, StageWrites
<1>5. ShapeInv'
  BY <1>4, WritesShape DEF TxInv
<1>6. CASE tx.open
  BY <1>1, <1>4, <1>5, <1>6, InsideInsertRows DEF TxInv
<1>7. CASE ~tx.open
  <2>1. expected' \subseteq Row /\ blind' \in BOOLEAN /\ expected' = {r \in expected : r.key \notin {}} \cup rows
    BY <1>1, <1>3 DEF TxInv, RowsOK
  <2>2. DOMAIN <<>> = {}
    OBVIOUS
  <2>3. /\ \A s \in DOMAIN view \ DOMAIN <<>> : \A r \in LiveIn(files, dvs, view, s) : r.key \notin {}
        /\ \A s \in DOMAIN <<>> : <<>>[s] = {r \in LiveIn(files, dvs, view, s) : r.key \in {}}
    BY <2>2
  <2>4. RowsOK'
    BY <1>1, <1>4, <1>7, <2>1, <2>3, OutsideRows
  <2> QED BY <1>5, <2>4 DEF TxInv
<1> QED BY <1>6, <1>7

\* DELETE and UPDATE: what they hit goes, what they write comes.
LEMMA RewriteStep ==
    ASSUME StatementsAssumption, TxInv, NEW keys, NEW new, NEW rows, NEW hits, NEW adds, NEW updates,
           Writes(new, rows, hits, adds, updates), Hit(keys, hits), blind' = (blind \/ IsBlind), expected' \subseteq Row,
           Rows(view) = expected => expected' = {r \in expected : r.key \notin keys} \cup rows
    PROVE  TxInv'
<1>1. ShapeInv'
  BY WritesShape DEF TxInv
<1>2. blind' \in BOOLEAN /\ (blind => blind') /\ (~blind' => tx.adds = <<>> /\ tx.updates = <<>>)
  BY DEF TxInv, RowsOK, IsBlind
<1>3. /\ \A s \in DOMAIN view \ DOMAIN hits : \A r \in LiveIn(files, dvs, view, s) : r.key \notin keys
      /\ \A s \in DOMAIN hits : hits[s] = {r \in LiveIn(files, dvs, view, s) : r.key \in keys}
  BY DEF Hit
<1>4. CASE tx.open
  BY <1>1, <1>2, <1>3, <1>4, InsideRows DEF TxInv
<1>5. CASE ~tx.open
  BY <1>1, <1>2, <1>3, <1>5, OutsideRows DEF TxInv
<1> QED BY <1>4, <1>5

LEMMA DeleteStep ==
    ASSUME StatementsAssumption, TxInv, NEW keys \in SUBSET Keys, Delete(keys)
    PROVE  TxInv'
<1> DEFINE stmt == ran + 1
           hits == HitsOf(keys)
           newDVs == RewriteDVs(stmt, hits)
           updates == Updates(stmt, hits)
<1>1. /\ ran < MaxStatements /\ expected' = {r \in expected : r.key \notin keys} /\ blind' = (blind \/ IsBlind)
      /\ Stage(<<>>, newDVs, <<>>, updates)
  BY DEF Delete
<1>2. Hit(keys, hits)
  BY HitsAre DEF TxInv
<1> HIDE DEF hits
<1>3. /\ IsSequence(updates)
      /\ \A i \in DOMAIN updates : updates[i].seg \in DOMAIN hits /\ updates[i].dv = DVId(stmt, updates[i].seg)
      /\ \A s \in DOMAIN hits : \E i \in DOMAIN updates : updates[i].seg = s
  BY <1>2, UpdatesAre DEF Hit
<1>4. /\ DOMAIN newDVs = {DVId(stmt, s) : s \in DOMAIN hits}
      /\ \A s \in DOMAIN hits : newDVs[DVId(stmt, s)] = Dead(view[s]) \cup hits[s]
  <2>1. newDVs = RewriteDVs(stmt, hits)
    OBVIOUS
  <2> HIDE DEF newDVs, stmt
  <2> QED BY <2>1, RewrittenAre
<1> HIDE DEF newDVs, updates
<1>5. Writes({}, {}, hits, <<>>, updates)
  <2>1. IsSequence(<<>>) /\ ToSet(<<>>) = {} /\ <<>> = [s \in {} |-> {}]
    BY DEF IsSequence, ToSet
  <2>2. Stage([s \in {} |-> {}], newDVs, <<>>, updates)
    BY <1>1, <2>1
  <2> QED BY <1>1, <1>2, <1>3, <1>4, <2>1, <2>2, StageWrites DEF Hit
<1>6. expected' \subseteq Row
  BY <1>1 DEF TxInv, RowsOK
<1> QED BY <1>1, <1>2, <1>5, <1>6, RewriteStep

LEMMA UpdateStep ==
    ASSUME StatementsAssumption, TxInv, NEW keys \in SUBSET Keys, Update(keys)
    PROVE  TxInv'
<1> DEFINE stmt == ran + 1
           hits == HitsOf(keys)
           hitRows == UNION {hits[s] : s \in DOMAIN hits}
           rows == {[r EXCEPT !.by = stmt] : r \in hitRows}
           new == IF rows = {} THEN {} ELSE {stmt}
           adds == SetToSeq(new)
           newDVs == RewriteDVs(stmt, hits)
           updates == Updates(stmt, hits)
<1>1. /\ ran < MaxStatements /\ blind' = (blind \/ IsBlind)
      /\ expected' = {IF r.key \in keys THEN [r EXCEPT !.by = stmt] ELSE r : r \in expected}
      /\ Stage([s \in new |-> rows], newDVs, adds, updates)
  BY DEF Update
<1>2. Hit(keys, hits)
  BY HitsAre DEF TxInv
<1>3. stmt \in 1..MaxStatements
  BY <1>1 DEF TxInv, ShapeInv, FilesOK, StatementsAssumption
<1>4. \A r \in Row : [r EXCEPT !.by = stmt] \in Row /\ [r EXCEPT !.by = stmt].by = stmt
  BY <1>3 DEF Row
<1> HIDE DEF hits
<1>5. hitRows \subseteq Row
  BY <1>2 DEF Hit
<1>6. rows \subseteq Row /\ \A r \in rows : r.by = stmt
  BY <1>4, <1>5
<1>7. hitRows = {r \in Rows(view) : r.key \in keys}
  <2>1. Rows(view) = UNION {LiveIn(files, dvs, view, s) : s \in DOMAIN view}
    BY DEF Rows, RowsIn
  <2>2. \A s \in DOMAIN hits : s \in DOMAIN view /\ hits[s] = {r \in LiveIn(files, dvs, view, s) : r.key \in keys}
    BY <1>2 DEF Hit
  <2>3. \A s \in DOMAIN view : \A r \in LiveIn(files, dvs, view, s) : r.key \in keys => s \in DOMAIN hits
    BY <1>2 DEF Hit
  <2> QED BY <2>1, <2>2, <2>3
<1> HIDE DEF hitRows
<1>8. Rows(view) = expected => expected' = {r \in expected : r.key \notin keys} \cup rows
  BY <1>1, <1>7
<1>9. expected' \subseteq Row
  BY <1>1, <1>4 DEF TxInv, RowsOK
<1>10. /\ IsSequence(updates)
       /\ \A i \in DOMAIN updates : updates[i].seg \in DOMAIN hits /\ updates[i].dv = DVId(stmt, updates[i].seg)
       /\ \A s \in DOMAIN hits : \E i \in DOMAIN updates : updates[i].seg = s
  BY <1>2, UpdatesAre DEF Hit
<1>11. /\ DOMAIN newDVs = {DVId(stmt, s) : s \in DOMAIN hits}
       /\ \A s \in DOMAIN hits : newDVs[DVId(stmt, s)] = Dead(view[s]) \cup hits[s]
  <2>1. newDVs = RewriteDVs(stmt, hits)
    OBVIOUS
  <2> HIDE DEF newDVs, stmt
  <2> QED BY <2>1, RewrittenAre
<1> HIDE DEF newDVs, updates, rows
<1>12. new \in {{}, {stmt}} /\ (new = {} => rows = {})
  OBVIOUS
<1>13. IsFiniteSet(new)
  BY <1>12, FS_EmptySet, FS_Singleton
<1> HIDE DEF new
<1>14. IsSequence(adds) /\ ToSet(adds) = new
  BY <1>13, ListedSet DEF Lists
<1> HIDE DEF adds
<1>15. Writes(new, rows, hits, adds, updates)
  BY <1>1, <1>2, <1>6, <1>10, <1>11, <1>12, <1>14, StageWrites DEF Hit
<1> QED BY <1>1, <1>2, <1>8, <1>9, <1>15, RewriteStep

-----------------------------------------------------------------------------
(* Begin, Commit, Rollback *)

\* The DVs of a view and of its overlay are there, and so are its files.
LEMMA OverlayShape ==
    ASSUME ShapeInv, NEW v, v = Overlay(view, tx)
    PROVE  /\ DOMAIN v \subseteq DOMAIN files
           /\ \A s \in DOMAIN v : v[s] = NoVector \/ v[s] \in DOMAIN dvs
<1>1. v = [s \in DOMAIN view \cup ToSet(tx.adds) |->
             IF s \in DOMAIN view THEN LastDV(tx.updates, s, view[s]) ELSE NoVector]
  BY DEF Overlay
<1>2. IsSequence(tx.updates) /\ ToSet(tx.adds) \subseteq DOMAIN files /\ DOMAIN view \subseteq DOMAIN files
      /\ PendingDVs \subseteq DOMAIN dvs
  BY DEF ShapeInv, PendingOK, ViewOK
<1>3. \A s, old : LastDV(tx.updates, s, old) = old \/ LastDV(tx.updates, s, old) \in PendingDVs
  BY <1>2, LastDVIs DEF PendingDVs
<1>4. \A s \in DOMAIN view : view[s] = NoVector \/ view[s] \in DOMAIN dvs
  BY DEF ShapeInv, ViewOK
<1>5. ASSUME NEW s \in DOMAIN v PROVE v[s] = NoVector \/ v[s] \in DOMAIN dvs
  <2>1. CASE s \in DOMAIN view
    <3>1. v[s] = LastDV(tx.updates, s, view[s])
      BY <1>1, <2>1
    <3> QED BY <1>2, <1>3, <1>4, <2>1, <3>1
  <2>2. CASE s \notin DOMAIN view
    BY <1>1, <2>2
  <2> QED BY <2>1, <2>2
<1> QED BY <1>1, <1>2, <1>5

\* No update of the Tx is of a segment of the Tx.
LEMMA PublishIsOverlay ==
    ASSUME ShapeInv
    PROVE  Publish(view, tx.adds, tx.updates) = Overlay(view, tx)
<1>1. /\ IsSequence(tx.updates) /\ ToSet(tx.adds) \cap DOMAIN view = {}
      /\ \A i \in DOMAIN tx.updates : tx.updates[i].seg \in DOMAIN view
  BY DEF ShapeInv, PendingOK
<1>2. \A s \in ToSet(tx.adds) : LastDV(tx.updates, s, NoVector) = NoVector
  BY <1>1, LastDVIs
<1>3. \A s \in DOMAIN view \cup ToSet(tx.adds) :
        LastDV(tx.updates, s, IF s \in DOMAIN view THEN view[s] ELSE NoVector)
          = IF s \in DOMAIN view THEN LastDV(tx.updates, s, view[s]) ELSE NoVector
  BY <1>2
<1> QED BY <1>3 DEF Publish, Overlay

LEMMA InitTx == ASSUME StatementsAssumption, TxInit PROVE TxInv
<1>1. /\ files = <<>> /\ dvs = <<>> /\ view = <<>> /\ tx = NoTx /\ expected = {} /\ committed = {}
      /\ blind = FALSE /\ ran = 0 /\ DOMAIN <<>> = {} /\ ToSet(<<>>) = {} /\ IsSequence(<<>>)
  BY DEF TxInit, ToSet, IsSequence
<1>2. FilesOK /\ ViewOK
  BY <1>1 DEF FilesOK, ViewOK, StatementsAssumption
<1>3. PendingOK
  BY <1>1 DEF PendingOK, PendingDVs, NoTx
<1>4. Rows(view) = {}
  BY <1>1 DEF Rows, RowsIn
<1>5. RowsOK
  BY <1>1, <1>4 DEF RowsOK, NoTx
<1> QED BY <1>2, <1>3, <1>5 DEF TxInv, ShapeInv

LEMMA BeginStep == ASSUME TxInv, BeginTx PROVE TxInv'
<1>1. /\ tx' = [open |-> TRUE, adds |-> <<>>, updates |-> <<>>, found |-> Files, wasBlind |-> blind]
      /\ ~tx.open /\ UNCHANGED <<files, dvs, view, expected, committed, blind, ran>>
  BY DEF BeginTx, NoTx
<1>2. ToSet(<<>>) = {} /\ IsSequence(<<>>) /\ DOMAIN <<>> = {}
  BY DEF ToSet, IsSequence
<1>3. FilesOK' /\ ViewOK'
  BY <1>1 DEF TxInv, ShapeInv, FilesOK, ViewOK
<1>4. tx'.adds = <<>> /\ tx'.updates = <<>> /\ PendingDVs' = {} /\ tx'.open /\ tx'.wasBlind = blind
  BY <1>1, <1>2 DEF PendingDVs
<1>5. PendingOK'
  <2>1. tx'.found = <<DOMAIN files' \ ToSet(tx'.adds), DOMAIN dvs' \ PendingDVs'>>
    BY <1>1, <1>2, <1>4 DEF Files
  <2> QED BY <1>1, <1>2, <1>4, <2>1 DEF PendingOK
<1>6. Rows(view)' = Rows(view)
  BY <1>1 DEF Rows
<1>7. RowsIn(files, dvs, Overlay(view, tx')) = RowsIn(files, dvs, view)
  BY <1>4, NothingPending
<1>8. Rows(Overlay(view, tx))' = Rows(view)
  BY <1>1, <1>7 DEF Rows
<1>9. RowsOK'
  BY <1>1, <1>4, <1>6, <1>8 DEF TxInv, RowsOK
<1> QED BY <1>3, <1>5, <1>9 DEF TxInv, ShapeInv

\* A closed Tx holds nothing.
LEMMA ClosedTx == ASSUME tx' = NoTx PROVE PendingOK' /\ tx'.open = FALSE /\ tx'.wasBlind = FALSE
<1>1. ToSet(<<>>) = {} /\ IsSequence(<<>>) /\ DOMAIN <<>> = {}
  BY DEF ToSet, IsSequence
<1>2. tx'.adds = <<>> /\ tx'.updates = <<>> /\ tx'.open = FALSE /\ tx'.wasBlind = FALSE
  BY DEF NoTx
<1>3. PendingDVs' = {}
  BY <1>1, <1>2 DEF PendingDVs
<1> QED BY <1>1, <1>2, <1>3 DEF PendingOK, NoTx

LEMMA CommitStep == ASSUME TxInv, CommitTx PROVE TxInv'
<1>1. /\ tx.open /\ view' = Overlay(view, tx) /\ committed' = expected /\ tx' = NoTx
      /\ UNCHANGED <<files, dvs, expected, blind, ran>>
  BY PublishIsOverlay DEF CommitTx, TxInv
<1>2. FilesOK' /\ ViewOK'
  BY <1>1, OverlayShape DEF TxInv, ShapeInv, FilesOK, ViewOK
<1>3. PendingOK' /\ tx'.open = FALSE /\ tx'.wasBlind = FALSE
  BY <1>1, ClosedTx
<1>4. ~blind => Rows(view)' = expected
  <2>1. Rows(view)' = Rows(Overlay(view, tx))
    BY <1>1 DEF Rows
  <2> QED BY <1>1, <2>1 DEF TxInv, RowsOK
<1>5. RowsOK'
  BY <1>1, <1>3, <1>4 DEF TxInv, RowsOK
<1> QED BY <1>2, <1>3, <1>5 DEF TxInv, ShapeInv

LEMMA RollbackStep == ASSUME TxInv, Rollback PROVE TxInv'
<1>1. /\ tx.open /\ tx' = NoTx /\ expected' = committed /\ blind' = tx.wasBlind
      /\ view' = view /\ committed' = committed /\ ran' = ran
      /\ files' = [s \in DOMAIN files \ ToSet(tx.adds) |-> files[s]]
      /\ dvs' = [d \in DOMAIN dvs \ PendingDVs |-> dvs[d]]
  BY DEF Rollback, PendingDVs
<1>2. /\ DOMAIN view \subseteq DOMAIN files' /\ \A s \in DOMAIN view : view[s] = NoVector \/ view[s] \in DOMAIN dvs'
  BY <1>1 DEF TxInv, ShapeInv, ViewOK, PendingOK
<1>3. /\ \A s \in DOMAIN files' : s \in DOMAIN files /\ files'[s] = files[s]
      /\ \A d \in DOMAIN dvs' : d \in DOMAIN dvs /\ dvs'[d] = dvs[d]
  BY <1>1
<1>4. FilesOK'
  BY <1>1, <1>3 DEF TxInv, ShapeInv, FilesOK
<1>5. ViewOK'
  BY <1>1, <1>2 DEF ViewOK
<1>6. PendingOK' /\ tx'.open = FALSE /\ tx'.wasBlind = FALSE
  BY <1>1, ClosedTx
<1>7. RowsIn(files', dvs', view) = RowsIn(files, dvs, view)
  <2>1. \A s \in DOMAIN view : files'[s] = files[s]
    BY <1>2, <1>3
  <2>2. \A s \in DOMAIN view : view[s] # NoVector => dvs'[view[s]] = dvs[view[s]]
    BY <1>2, <1>3
  <2> QED BY <2>1, <2>2, RowsKept
<1>8. Rows(view)' = Rows(view)
  BY <1>1, <1>7 DEF Rows
<1>9. RowsOK'
  BY <1>1, <1>6, <1>8 DEF TxInv, RowsOK
<1> QED BY <1>4, <1>5, <1>6, <1>9 DEF TxInv, ShapeInv

LEMMA NextTx == ASSUME StatementsAssumption, TxInv, [TxNext]_txVars PROVE TxInv'
<1>1. ASSUME NEW keys \in SUBSET FreshKeys, Insert(keys) PROVE TxInv'
  BY <1>1, InsertStep
<1>2. ASSUME NEW keys \in SUBSET Keys, Delete(keys) PROVE TxInv'
  BY <1>2, DeleteStep
<1>3. ASSUME NEW keys \in SUBSET Keys, Update(keys) PROVE TxInv'
  BY <1>3, UpdateStep
<1>4. CASE BeginTx
  BY <1>4, BeginStep
<1>5. CASE CommitTx
  BY <1>5, CommitStep
<1>6. CASE Rollback
  BY <1>6, RollbackStep
<1>7. CASE UNCHANGED txVars
  <2>1. FilesOK' /\ ViewOK' /\ PendingOK'
    BY <1>7 DEF txVars, TxInv, ShapeInv, FilesOK, ViewOK, PendingOK, PendingDVs
  <2>2. Rows(view)' = Rows(view) /\ Rows(Overlay(view, tx))' = Rows(Overlay(view, tx))
    BY <1>7 DEF txVars, Rows
  <2>3. RowsOK'
    BY <1>7, <2>2 DEF txVars, TxInv, RowsOK
  <2> QED BY <2>1, <2>3 DEF TxInv, ShapeInv
<1> QED BY <1>1, <1>2, <1>3, <1>4, <1>5, <1>6, <1>7 DEF TxNext, Statement, ClientsDone

LEMMA TxInvariance == ASSUME StatementsAssumption PROVE TxSpec => []TxInv
<1>1. TxInit => TxInv
  BY InitTx
<1>2. TxInv /\ [TxNext]_txVars => TxInv'
  BY NextTx
<1> QED BY <1>1, <1>2, PTL DEF TxSpec

\* The types, for any keys: what a statement writes, it writes under a number no
\* other statement has.
THEOREM TransactionsTypes == ASSUME StatementsAssumption PROVE TxSpec => []TxTypeOK
<1>1. TxInv => TxTypeOK
  <2> SUFFICES ASSUME TxInv PROVE TxTypeOK
    OBVIOUS
  <2>1. 1..ran \subseteq 1..MaxStatements
    BY DEF TxInv, ShapeInv, FilesOK, StatementsAssumption
  <2>2. \A s \in DOMAIN files : s \in 1..MaxStatements /\ files[s] \subseteq Row
    BY <2>1 DEF TxInv, ShapeInv, FilesOK
  <2> QED BY <2>2 DEF TxInv, ShapeInv, FilesOK, ViewOK, PendingOK, RowsOK, TxTypeOK
<1> QED BY <1>1, TxInvariance, PTL

-----------------------------------------------------------------------------
(* What queries see *)

LEMMA RowsFinite == ASSUME KeysAssumption, StatementsAssumption PROVE IsFiniteSet(Row)
<1> DEFINE numbers == 1..MaxStatements
           f == [r \in Row |-> <<r.key, r.by>>]
<1>1. IsFiniteSet(numbers)
  BY FS_Interval DEF StatementsAssumption
<1> HIDE DEF numbers
<1>2. IsFiniteSet(Keys \X numbers)
  BY <1>1, FS_Product DEF KeysAssumption
<1>3. \A r \in Row : r = [key |-> r.key, by |-> r.by] /\ r.key \in Keys /\ r.by \in numbers
  BY DEF Row, numbers
<1>4. f \in [Row -> Keys \X numbers]
  BY <1>3
<1>5. \A q, r \in Row : f[q] = f[r] => q = r
  <2> SUFFICES ASSUME NEW q \in Row, NEW r \in Row, f[q] = f[r] PROVE q = r
    OBVIOUS
  <2>1. <<q.key, q.by>> = <<r.key, r.by>>
    OBVIOUS
  <2>2. q.key = r.key /\ q.by = r.by
    BY <2>1
  <2> QED BY <1>3, <2>2
<1> HIDE DEF f
<1>6. f \in Injection(Row, Keys \X numbers)
  BY <1>4, <1>5 DEF Injection, IsInjective
<1> QED BY <1>2, <1>6, FS_Injection

\* No two segments have a row of the same statement, so that each row is read
\* from one segment.
LEMMA ReadIsExact ==
    ASSUME KeysAssumption, StatementsAssumption, FilesOK, NEW v, DOMAIN v \subseteq DOMAIN files
    PROVE  Exactly(Read(v), Rows(v))
<1> DEFINE rows == Rows(v)
           read == Read(v)
           f == [r \in rows |-> <<r.by, r>>]
<1>1. \A s \in DOMAIN v : LiveRows(v, s) = LiveIn(files, dvs, v, s)
  BY DEF LiveRows, LiveIn, Dead, DeadIn
<1>2. \A s \in DOMAIN v : \A r \in LiveIn(files, dvs, v, s) : r \in Row /\ r.by = s
  BY DEF LiveIn, FilesOK
<1>3. rows \subseteq Row /\ \A r \in rows : r.by \in DOMAIN v /\ r \in LiveIn(files, dvs, v, r.by)
  BY <1>2 DEF Rows, RowsIn
<1>4. \A s \in DOMAIN v : \A r \in LiveIn(files, dvs, v, s) : r \in rows
  BY DEF Rows, RowsIn
<1>5. \A x : x \in read <=> \E s \in DOMAIN v : \E r \in LiveIn(files, dvs, v, s) : x = <<s, r>>
  BY <1>1 DEF Read
<1> HIDE DEF rows, read
<1>6. \A r \in rows : <<r.by, r>> \in read
  BY <1>3, <1>5
<1>7. \A x \in read : \E r \in rows : x = <<r.by, r>> /\ x[2] = r
  BY <1>2, <1>4, <1>5
<1>8. {x[2] : x \in read} = rows
  BY <1>6, <1>7
<1>9. f \in [rows -> read]
  BY <1>6
<1>10. \A q, r \in rows : f[q] = f[r] => q = r
  OBVIOUS
<1>11. \A x \in read : \E r \in rows : f[r] = x
  BY <1>7
<1> HIDE DEF f
<1>12. f \in Bijection(rows, read)
  BY <1>9, <1>10, <1>11 DEF Bijection, Injection, Surjection, IsInjective
<1>13. ExistsBijection(rows, read)
  BY <1>12 DEF ExistsBijection
<1>14. IsFiniteSet(rows)
  BY <1>3, RowsFinite, FS_Subset
<1>15. Cardinality(read) = Cardinality(rows)
  BY <1>13, <1>14, FS_Bijection
<1>16. Exactly(read, rows)
  BY <1>8, <1>15 DEF Exactly
<1> QED BY <1>16 DEF rows, read

\* Queries see the statements in their order, those of the open Tx included and
\* each row from one segment, as long as no DELETE or UPDATE of a Tx comes after
\* another change of the Tx: then it would read the snapshot and miss it
\* (delete.go, update.go and tx.go resolve the committed segments only).
THEOREM QueriesSeeTheStatements ==
    ASSUME KeysAssumption, StatementsAssumption
    PROVE  TxSpec => []OneRewriteExact
<1>1. TxInv => OneRewriteExact
  <2> SUFFICES ASSUME TxInv, ~blind PROVE ReadYourWrites /\ (~tx.open => Exactly(Read(view), committed))
    BY DEF OneRewriteExact
  <2>1. ASSUME tx.open PROVE Exactly(Read(Overlay(view, tx)), expected)
    <3>1. Exactly(Read(Overlay(view, tx)), Rows(Overlay(view, tx)))
      BY OverlayShape, ReadIsExact DEF TxInv, ShapeInv
    <3> QED BY <2>1, <3>1 DEF TxInv, RowsOK
  <2>2. ASSUME ~tx.open PROVE Exactly(Read(view), committed)
    <3>1. Exactly(Read(view), Rows(view))
      BY ReadIsExact DEF TxInv, ShapeInv, ViewOK
    <3> QED BY <2>2, <3>1 DEF TxInv, RowsOK
  <2> QED BY <2>1, <2>2 DEF ReadYourWrites
<1> QED BY <1>1, TxInvariance, PTL

-----------------------------------------------------------------------------
(* What a Tx does at its end *)

\* A statement in a Tx neither ends it nor changes the snapshot.
LEMMA StatementStays ==
    ASSUME TxInv, tx.open, Statement
    PROVE  tx'.open /\ view' = view
<1>1. ASSUME NEW newSegs, NEW newDVs, NEW adds, NEW updates, Stage(newSegs, newDVs, adds, updates)
      PROVE  tx'.open /\ view' = view
  BY <1>1 DEF Stage, TxInv, ShapeInv, PendingOK
<1> QED BY <1>1 DEF Statement, Insert, Delete, Update

\* Commit publishes what the Tx last saw, its rows and their segments, whatever
\* its statements did to each other: Tx.resolveSegments and the manifest lay the
\* same changes over the snapshot.
THEOREM CommitPublishesWhatTheTxSaw ==
    ASSUME StatementsAssumption PROVE TxSpec => CommitPublishesOverlay
<1>1. TxInv /\ [TxNext]_txVars => [(tx.open /\ view' # view) => Read(view)' = Read(Overlay(view, tx))]_txVars
  <2> SUFFICES ASSUME TxInv, TxNext, tx.open, view' # view PROVE Read(view)' = Read(Overlay(view, tx))
    OBVIOUS
  <2>1. CommitTx
    BY StatementStays DEF TxNext, BeginTx, Rollback, ClientsDone, txVars
  <2>2. view' = Overlay(view, tx) /\ files' = files /\ dvs' = dvs
    BY <2>1, PublishIsOverlay DEF CommitTx, TxInv
  <2> QED BY <2>2 DEF Read, LiveRows, Dead
<1> QED BY <1>1, TxInvariance, PTL DEF TxSpec, CommitPublishesOverlay

\* The DVs and segments of an unpublished Tx are gone with it: what is left are
\* the files it found, also when it commits no change.
THEOREM RollbackRemovesItsFiles ==
    ASSUME StatementsAssumption PROVE TxSpec => RollbackLeavesNoFile
<1>1. TxInv /\ [TxNext]_txVars => [(tx.open /\ ~tx'.open /\ view' = view) => Files' = tx.found]_txVars
  <2> SUFFICES ASSUME TxInv, TxNext, tx.open, ~tx'.open, view' = view PROVE Files' = tx.found
    OBVIOUS
  <2>1. tx.found = <<DOMAIN files \ ToSet(tx.adds), DOMAIN dvs \ PendingDVs>>
    BY DEF TxInv, ShapeInv, PendingOK
  <2>2. CASE Rollback
    BY <2>1, <2>2 DEF Rollback, PendingDVs, Files
  <2>3. CASE CommitTx
    <3>1. view = Overlay(view, tx) /\ files' = files /\ dvs' = dvs
      BY <2>3, PublishIsOverlay DEF CommitTx, TxInv
    <3>2. /\ DOMAIN view = DOMAIN view \cup ToSet(tx.adds)
          /\ \A s \in DOMAIN view : view[s] = LastDV(tx.updates, s, view[s])
      BY <3>1 DEF Overlay
    <3>3. /\ ToSet(tx.adds) \subseteq DOMAIN files \ DOMAIN view /\ IsSequence(tx.updates)
          /\ \A i \in DOMAIN tx.updates : tx.updates[i].seg \in DOMAIN view
          /\ \A s \in DOMAIN view : view[s] \notin PendingDVs
      BY DEF TxInv, ShapeInv, PendingOK
    <3>4. ToSet(tx.adds) = {}
      BY <3>2, <3>3
    <3>5. PendingDVs = {}
      <4> SUFFICES ASSUME NEW i \in DOMAIN tx.updates PROVE FALSE
        BY DEF PendingDVs
      <4> DEFINE s == tx.updates[i].seg
      <4>1. \E j \in DOMAIN tx.updates : tx.updates[j].seg = s /\ LastDV(tx.updates, s, view[s]) = tx.updates[j].dv
        BY <3>3, LastDVIs
      <4>2. view[s] \in PendingDVs
        BY <3>2, <3>3, <4>1 DEF PendingDVs
      <4> QED BY <3>3, <4>2
    <3> QED BY <2>1, <3>1, <3>4, <3>5 DEF Files
  <2> QED BY <2>2, <2>3, StatementStays DEF TxNext, BeginTx, ClientsDone
<1> QED BY <1>1, TxInvariance, PTL DEF TxSpec, RollbackLeavesNoFile

=============================================================================
