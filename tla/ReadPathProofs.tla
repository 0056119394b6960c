--------------------------- MODULE ReadPathProofs ---------------------------
(***************************************************************************)
(* What a query reads, from the engine to the workers of a scan.           *)
(*                                                                         *)
(* The scans of a query read the snapshots their references name, for any  *)
(* tables and queries, whatever the cache holds, evicts or is resized to   *)
(* meanwhile; no file is open outside the cache; and eviction spares what  *)
(* the query was given. Over the segments a scan was given, ScanOp         *)
(* implements a batch source, for any segments and any parallelism. And    *)
(* what is concluded from statistics and encoded values is true of the     *)
(* rows, for any segments, literals and widths of words: of one comparison *)
(* on one segment, and of a table under any statements and ALTERs, whose   *)
(* pages ORDER BY ... LIMIT may leave out and whose aggregates may be      *)
(* answered without reading a row.                                         *)
(***************************************************************************)
EXTENDS SegmentCache, ScanWorkers, StoredTable, SequenceFacts

-----------------------------------------------------------------------------
(* The snapshots a query reads                                               *)

Plans == [from : Seq(References), correlated : Seq(References)]

KeysOf(hs) == [i \in DOMAIN hs |-> hs[i].key]

SnapshotsOK ==
    /\ IsSequence(snapshots) /\ Len(snapshots) >= 1
    /\ \A i \in DOMAIN snapshots : /\ snapshots[i] = [t \in Tables |-> snapshots[i][t]]
                                   /\ \A t \in Tables : IsSequence(snapshots[i][t])

\* Where a query is: nothing was opened or given while there is none.
QueryOK ==
    /\ query \in Seq(Plans) /\ readTs \in Nat
    /\ ~Idle => at \in DOMAIN query
    /\ Idle => opened = <<>> /\ held = <<>>

\* A table was resolved by one of the references, and every scan of it was given
\* what that one got.
ResolvedOK ==
    /\ IsSequence(held)
    /\ \A t \in DOMAIN opened : \E ref \in Refs : /\ ref.table = t
                                                  /\ KeysOf(opened[t]) = EntriesAt(t, TsOf(ref))
    /\ \A k \in DOMAIN held : /\ held[k].ref \in Refs
                              /\ held[k].ref.table \in DOMAIN opened
                              /\ held[k].handles = opened[held[k].ref.table]

ReadInv == SnapshotsOK /\ QueryOK /\ ResolvedOK

-----------------------------------------------------------------------------
(* Sequences and minima *)

LEMMA MinOfSome ==
    ASSUME NEW S, S \subseteq Nat, S # {}
    PROVE  Min(S) \in S
BY LeastOfSome DEF Min

LEMMA LeastOfTwo ==
    ASSUME NEW a \in Nat, NEW b \in Nat
    PROVE  Min({a, b}) \in 0..b
<1>1. \E i \in {a, b} : \A j \in {a, b} : i <= j
  OBVIOUS
<1>2. Min({a, b}) \in {a, b} /\ Min({a, b}) <= b
  BY <1>1 DEF Min
<1> QED BY <1>2

-----------------------------------------------------------------------------
(* Resolving a reference *)

LEMMA HandleOfKey == ASSUME NEW key PROVE HandleFor(key).key = key
<1> DEFINE cached == {h \in ToSet(lru) : h.key = key}
<1>1. CASE cached = {}
  BY <1>1 DEF HandleFor
<1>2. CASE cached # {}
  <2>1. (CHOOSE h \in cached : TRUE) \in cached
    BY <1>2
  <2>2. HandleFor(key) = CHOOSE h \in cached : TRUE
    BY <1>2 DEF HandleFor
  <2> QED BY <2>1, <2>2
<1> QED BY <1>1, <1>2

LEMMA OpenableLength ==
    ASSUME NEW keys, IsSequence(keys)
    PROVE  Openable(keys) \in 0..Len(keys)
<1> DEFINE lost == {i \in DOMAIN keys : keys[i].path \notin stored /\ \A h \in ToSet(lru) : h.key # keys[i]}
<1>1. Len(keys) \in Nat /\ DOMAIN keys = 1..Len(keys)
  BY SequenceLength
<1>2. CASE lost = {}
  BY <1>1, <1>2 DEF Openable
<1>3. CASE lost # {}
  <2>1. lost \subseteq 1..Len(keys)
    BY <1>1
  <2>2. Openable(keys) = Min(lost) - 1
    BY <1>3 DEF Openable
  <2> HIDE DEF lost
  <2>3. Min(lost) \in lost
    <3>1. lost \subseteq Nat
      BY <2>1
    <3> QED BY <1>3, <3>1, MinOfSome
  <2>4. Min(lost) \in 1..Len(keys)
    BY <2>1, <2>3
  <2> QED BY <1>1, <2>2, <2>4
<1> QED BY <1>2, <1>3

\* Handles that were opened for all entries of a snapshot are those of its entries.
LEMMA OpenedKeys ==
    ASSUME NEW keys, IsSequence(keys), NEW got,
           got = [i \in 1..Openable(keys) |-> HandleFor(keys[i])], Len(got) = Len(keys)
    PROVE  KeysOf(got) = keys
<1>1. Len(keys) \in Nat /\ DOMAIN keys = 1..Len(keys) /\ Openable(keys) \in Nat
  BY SequenceLength, OpenableLength
<1>2. DOMAIN got = 1..Openable(keys) /\ Len(got) = Openable(keys)
  BY <1>1
<1>3. DOMAIN got = DOMAIN keys
  BY <1>1, <1>2
<1>4. \A i \in DOMAIN got : got[i].key = keys[i]
  BY <1>2, HandleOfKey
<1>5. keys = [i \in DOMAIN keys |-> keys[i]]
  BY DEF IsSequence
<1> QED BY <1>3, <1>4, <1>5 DEF KeysOf

LEMMA SnapshotIsSequence ==
    ASSUME SnapshotsOK, NEW t \in Tables, NEW ts \in Nat
    PROVE  IsSequence(EntriesAt(t, ts))
<1>1. Len(snapshots) \in Nat /\ DOMAIN snapshots = 1..Len(snapshots) /\ Now \in Nat
  BY SequenceLength DEF SnapshotsOK, Now
<1>2. Min({ts, Now}) + 1 \in DOMAIN snapshots
  <2>1. Min({ts, Now}) \in 0..Now
    BY <1>1, LeastOfTwo
  <2> QED BY <1>1, <2>1 DEF Now
<1> QED BY <1>2 DEF SnapshotsOK, EntriesAt

\* The references of a plan are among those of its query.
LEMMA PlanRefs ==
    ASSUME QueryOK, ~Idle
    PROVE  /\ Refs \subseteq References
           /\ \A i \in 1..Len(Plan.from) : Plan.from[i] \in Refs
           /\ \A i \in DOMAIN Plan.correlated : Plan.correlated[i] \in Refs
           /\ Len(Plan.from) \in Nat
<1>1. \A p \in DOMAIN query : /\ query[p].from \in Seq(References)
                              /\ query[p].correlated \in Seq(References)
  <2>1. \A p \in DOMAIN query : query[p] \in Plans
    BY DEF QueryOK
  <2> QED BY <2>1 DEF Plans
<1>2. ASSUME NEW a \in Seq(References), NEW b \in Seq(References)
      PROVE  /\ \A i \in DOMAIN a : a[i] \in ToSet(a \o b)
             /\ \A i \in DOMAIN b : b[i] \in ToSet(a \o b)
             /\ ToSet(a \o b) \subseteq References
  <2>1. /\ a \o b \in Seq(References) /\ Len(a \o b) = Len(a) + Len(b)
        /\ Len(a) \in Nat /\ Len(b) \in Nat
        /\ \A i \in 1..Len(a) : (a \o b)[i] = a[i]
        /\ \A i \in 1..Len(b) : (a \o b)[Len(a) + i] = b[i]
    BY Concatenation
  <2>2. DOMAIN (a \o b) = 1..(Len(a) + Len(b)) /\ DOMAIN a = 1..Len(a) /\ DOMAIN b = 1..Len(b)
    BY <2>1
  <2>3. \A i \in 1..Len(a) : i \in DOMAIN (a \o b)
    BY <2>1, <2>2
  <2>4. \A i \in 1..Len(b) : Len(a) + i \in DOMAIN (a \o b)
    BY <2>1, <2>2
  <2>5. \A i \in DOMAIN a : a[i] \in ToSet(a \o b)
    BY <2>1, <2>2, <2>3 DEF ToSet
  <2>6. \A i \in DOMAIN b : b[i] \in ToSet(a \o b)
    BY <2>1, <2>2, <2>4 DEF ToSet
  <2>7. ToSet(a \o b) \subseteq References
    BY <2>1 DEF ToSet
  <2> QED BY <2>5, <2>6, <2>7
<1>3. Refs \subseteq References
  BY <1>1, <1>2 DEF Refs
<1>4. at \in DOMAIN query
  BY DEF QueryOK
<1>5. ToSet(query[at].from \o query[at].correlated) \subseteq Refs
  BY <1>4 DEF Refs
<1>6. Len(Plan.from) \in Nat /\ DOMAIN Plan.from = 1..Len(Plan.from)
  BY <1>1, <1>4 DEF Plan
<1> QED BY <1>1, <1>2, <1>3, <1>4, <1>5, <1>6 DEF Plan

LEMMA NowIsSequence ==
    ASSUME SnapshotsOK, NEW t \in Tables
    PROVE  IsSequence(snapshots[Now + 1][t])
<1>1. Now + 1 \in DOMAIN snapshots
  BY SequenceLength DEF SnapshotsOK, Now
<1> QED BY <1>1 DEF SnapshotsOK

\* A query that has opened nothing.
LEMMA NothingGiven ==
    ASSUME SnapshotsOK', opened' = <<>>, held' = <<>>, query' \in Seq(Plans), readTs' \in Nat,
           ~Idle' => at' \in DOMAIN query'
    PROVE  ReadInv'
<1>1. IsSequence(<<>>) /\ DOMAIN <<>> = {}
  BY DEF IsSequence
<1>2. QueryOK'
  BY DEF QueryOK
<1>3. ResolvedOK'
  BY <1>1 DEF ResolvedOK
<1> QED BY <1>2, <1>3 DEF ReadInv

LEMMA EndInv == ASSUME SnapshotsOK', NEW how, EndQuery(how) PROVE ReadInv'
<1>1. query' = <<>> /\ readTs' = 0 /\ opened' = <<>> /\ held' = <<>>
  BY DEF EndQuery
<1>2. query' \in Seq(Plans) /\ readTs' \in Nat /\ Idle'
  BY <1>1 DEF Idle
<1> QED BY <1>1, <1>2, NothingGiven

\* A scan is given handles, which the resolver had or has now.
LEMMA GivenInv ==
    ASSUME ReadInv, SnapshotsOK', ~Idle, NEW ref \in Refs, NEW got, snapshots' = snapshots,
           UNCHANGED <<query, at, readTs>>,
           held' = Append(held, [ref |-> ref, handles |-> got]),
           \/ opened' = opened /\ ref.table \in DOMAIN opened /\ got = opened[ref.table]
           \/ /\ ref.table \notin DOMAIN opened
              /\ DOMAIN opened' = DOMAIN opened \cup {ref.table} /\ opened'[ref.table] = got
              /\ \A u \in DOMAIN opened : opened'[u] = opened[u]
              /\ KeysOf(got) = EntriesAt(ref.table, TsOf(ref))
    PROVE  ReadInv'
<1>1. Refs' = Refs /\ \A t, r : EntriesAt(t, TsOf(r))' = EntriesAt(t, TsOf(r))
  BY DEF Refs, EntriesAt, TsOf, Now
<1>2. QueryOK'
  BY DEF ReadInv, QueryOK, Idle
<1>3. /\ IsSequence(held') /\ DOMAIN held' = 1..(Len(held) + 1)
      /\ Len(held) \in Nat /\ DOMAIN held = 1..Len(held)
      /\ \A k \in 1..Len(held) : held'[k] = held[k]
      /\ held'[Len(held) + 1] = [ref |-> ref, handles |-> got]
  BY Appending, SequenceLength DEF ReadInv, ResolvedOK
<1>4. ASSUME NEW t \in DOMAIN opened'
      PROVE  \E r \in Refs : r.table = t /\ KeysOf(opened'[t]) = EntriesAt(t, TsOf(r))
  BY DEF ReadInv, ResolvedOK
<1>5. ASSUME NEW k \in DOMAIN held'
      PROVE  /\ held'[k].ref \in Refs /\ held'[k].ref.table \in DOMAIN opened'
             /\ held'[k].handles = opened'[held'[k].ref.table]
  <2>1. CASE k = Len(held) + 1
    BY <1>3, <2>1
  <2>2. CASE k \in DOMAIN held
    BY <1>3, <2>2 DEF ReadInv, ResolvedOK
  <2> QED BY <1>3, <2>1, <2>2
<1>6. ResolvedOK'
  <2>1. \A t \in DOMAIN opened' : KeysOf(opened[t])' = KeysOf(opened'[t])
    BY DEF KeysOf
  <2> QED BY <1>1, <1>3, <1>4, <1>5, <2>1 DEF ResolvedOK
<1> QED BY <1>2, <1>6 DEF ReadInv

\* A resolver that answers for the first time gives the snapshot of its
\* reference, and afterwards what it gave before.
LEMMA ResolveInv ==
    ASSUME ReadInv, ~Idle, NEW ref \in Refs, ResolveScan(ref), snapshots' = snapshots
    PROVE  ReadInv'
<1> DEFINE t == ref.table
           keys == EntriesAt(t, TsOf(ref))
           got == [i \in 1..Openable(keys) |-> HandleFor(keys[i])]
<1>1. ref \in References /\ ref.table \in Tables /\ ref.asOf \in Nat
  BY PlanRefs DEF ReadInv, References
<1>2. TsOf(ref) \in Nat
  BY <1>1 DEF TsOf, ReadInv, QueryOK
<1>3. IsSequence(keys)
  BY <1>1, <1>2, SnapshotIsSequence DEF ReadInv
<1>4. SnapshotsOK'
  BY DEF ReadInv, SnapshotsOK
<1>5. CASE t \in DOMAIN opened
  <2>1. /\ held' = Append(held, [ref |-> ref, handles |-> opened[t]])
        /\ UNCHANGED <<query, at, readTs, opened>>
    BY <1>5 DEF ResolveScan
  <2> DEFINE had == opened[t]
  <2>2. had = opened[ref.table] /\ ref.table \in DOMAIN opened
    BY <1>5
  <2>3. held' = Append(held, [ref |-> ref, handles |-> had])
    BY <2>1
  <2> HIDE DEF had, t, keys, got
  <2> QED BY <1>4, <2>1, <2>2, <2>3, GivenInv
<1>6. CASE t \notin DOMAIN opened /\ Len(got) = Len(keys)
  <2>1. /\ opened' = [u \in DOMAIN opened \cup {t} |-> IF u = t THEN got ELSE opened[u]]
        /\ held' = Append(held, [ref |-> ref, handles |-> got])
        /\ UNCHANGED <<query, at, readTs>>
    BY <1>6 DEF ResolveScan
  <2>2. KeysOf(got) = keys
    BY <1>3, <1>6, OpenedKeys
  <2> HIDE DEF got
  <2>3. DOMAIN opened' = DOMAIN opened \cup {t} /\ opened'[t] = got
        /\ \A u \in DOMAIN opened : opened'[u] = opened[u]
    BY <1>6, <2>1
  <2>4. /\ ref.table \notin DOMAIN opened
        /\ DOMAIN opened' = DOMAIN opened \cup {ref.table} /\ opened'[ref.table] = got
        /\ KeysOf(got) = EntriesAt(ref.table, TsOf(ref))
    BY <1>6, <2>2, <2>3
  <2> HIDE DEF t, keys
  <2> QED BY <1>4, <2>1, <2>3, <2>4, GivenInv
<1>7. CASE t \notin DOMAIN opened /\ Len(got) # Len(keys)
  <2>1. EndQuery("error")
    BY <1>7 DEF ResolveScan
  <2> QED BY <1>4, <2>1, EndInv
<1> QED BY <1>5, <1>6, <1>7

-----------------------------------------------------------------------------
(* The steps *)

LEMMA InitReadInv == ASSUME CacheInit PROVE ReadInv
<1>1. IsSequence(<<>>) /\ DOMAIN <<>> = {}
  BY DEF IsSequence
<1>2. SnapshotsOK
  <2> DEFINE none == [t \in Tables |-> <<>>]
  <2>1. snapshots = <<none>>
    BY DEF CacheInit
  <2>2. IsSequence(snapshots) /\ Len(snapshots) = 1 /\ DOMAIN snapshots = {1} /\ snapshots[1] = none
    <3> HIDE DEF none
    <3>1. <<none>> \in Seq({none}) /\ Len(<<none>>) = 1 /\ <<none>>[1] = none
      OBVIOUS
    <3>2. IsSequence(<<none>>)
      BY <3>1, AnySequence
    <3>3. DOMAIN <<none>> = {1}
      BY <3>1
    <3> QED BY <2>1, <3>1, <3>2, <3>3
  <2> QED BY <1>1, <2>2 DEF SnapshotsOK
<1>3. QueryOK
  BY DEF CacheInit, QueryOK, Idle
<1>4. ResolvedOK
  BY <1>1 DEF CacheInit, ResolvedOK
<1> QED BY <1>2, <1>3, <1>4 DEF ReadInv

\* Statements commit while no query runs.
LEMMA CommitInv ==
    ASSUME ReadInv, Idle, NEW t, NEW entries, IsSequence(entries), CommitEntries(t, entries), UNCHANGED run
    PROVE  ReadInv'
<1> DEFINE now == snapshots[Now + 1]
           next == [now EXCEPT ![t] = entries]
<1>1. Len(snapshots) \in Nat /\ Len(snapshots) >= 1 /\ DOMAIN snapshots = 1..Len(snapshots)
      /\ Now + 1 = Len(snapshots)
  BY SequenceLength DEF ReadInv, SnapshotsOK, Now
<1>2. now = [u \in Tables |-> now[u]] /\ \A u \in Tables : IsSequence(now[u])
  BY <1>1 DEF ReadInv, SnapshotsOK
<1> HIDE DEF now
<1>3. next = [u \in Tables |-> next[u]] /\ \A u \in Tables : IsSequence(next[u])
  BY <1>2
<1>4. snapshots' = Append(snapshots, next)
  BY DEF CommitEntries, now
<1> HIDE DEF next
<1>5. SnapshotsOK'
  <2>1. /\ IsSequence(snapshots') /\ Len(snapshots') = Len(snapshots) + 1
        /\ DOMAIN snapshots' = 1..(Len(snapshots) + 1)
        /\ \A i \in 1..Len(snapshots) : snapshots'[i] = snapshots[i]
        /\ snapshots'[Len(snapshots) + 1] = next
    BY <1>4, Appending DEF ReadInv, SnapshotsOK
  <2>2. \A i \in DOMAIN snapshots' : i \in DOMAIN snapshots \/ i = Len(snapshots) + 1
    BY <1>1, <2>1
  <2> QED BY <1>1, <1>3, <2>1, <2>2 DEF ReadInv, SnapshotsOK
<1>6. opened' = <<>> /\ held' = <<>> /\ query' = query /\ at' = at /\ readTs' = readTs /\ Idle'
  BY DEF run, Idle, ReadInv, QueryOK
<1> QED BY <1>5, <1>6, NothingGiven DEF ReadInv, QueryOK, Idle

LEMMA InsertReadInv == ASSUME ReadInv, NEW t \in Tables, InsertSegment(t) PROVE ReadInv'
<1>1. PICK e : Idle /\ UNCHANGED run /\ CommitEntries(t, Append(snapshots[Now + 1][t], e))
  BY DEF InsertSegment
<1>2. IsSequence(snapshots[Now + 1][t])
  BY NowIsSequence DEF ReadInv
<1> QED BY <1>1, <1>2, Appending, CommitInv

LEMMA DeleteReadInv ==
    ASSUME ReadInv, NEW t \in Tables, NEW i \in DOMAIN snapshots[Now + 1][t], DeleteRows(t, i)
    PROVE  ReadInv'
<1> DEFINE s == snapshots[Now + 1][t]
<1>1. PICK e : Idle /\ UNCHANGED run /\ CommitEntries(t, [s EXCEPT ![i] = e])
  BY DEF DeleteRows
<1>2. IsSequence(s)
  BY NowIsSequence DEF ReadInv
<1> HIDE DEF s
<1>3. IsSequence([s EXCEPT ![i] = e])
  <2> DEFINE S == {s[k] : k \in DOMAIN s} \cup {e}
  <2>1. s \in Seq(S) /\ e \in S /\ Len(s) \in Nat
    BY <1>2, SequenceLength DEF IsSequence
  <2> HIDE DEF S
  <2>2. [s EXCEPT ![i] = e] \in [1..Len(s) -> S]
    <3>1. s \in [1..Len(s) -> S]
      BY <2>1
    <3> QED BY <2>1, <3>1
  <2>3. [s EXCEPT ![i] = e] \in Seq(S)
    BY <2>1, <2>2
  <2> QED BY <2>3, AnySequence
<1> QED BY <1>1, <1>3, CommitInv

LEMMA RetireReadInv ==
    ASSUME ReadInv, NEW t \in Tables, NEW i \in DOMAIN snapshots[Now + 1][t], RetireSegment(t, i)
    PROVE  ReadInv'
<1> DEFINE s == snapshots[Now + 1][t]
<1>1. Idle /\ UNCHANGED run /\ CommitEntries(t, RemoveAt(s, i))
  BY DEF RetireSegment, run
<1>2. IsSequence(s)
  BY NowIsSequence DEF ReadInv
<1>3. i \in DOMAIN s
  OBVIOUS
<1> HIDE DEF s
<1>4. IsSequence(RemoveAt(s, i))
  <2> DEFINE S == {s[k] : k \in DOMAIN s}
             a == SubSeq(s, 1, i - 1)
             b == SubSeq(s, i + 1, Len(s))
  <2>1. s \in Seq(S) /\ Len(s) \in Nat /\ i \in 1..Len(s)
    BY <1>2, <1>3, SequenceLength DEF IsSequence
  <2> HIDE DEF S
  <2>2. a \in Seq(S) /\ b \in Seq(S)
    BY <2>1
  <2> HIDE DEF a, b
  <2>3. a \o b \in Seq(S)
    BY <2>2
  <2> QED BY <2>3, AnySequence DEF RemoveAt, a, b
<1> QED BY <1>1, <1>4, CommitInv

\* Steps that neither commit nor resolve.
LEMMA StillReads ==
    ASSUME ReadInv, UNCHANGED <<snapshots, run>>
    PROVE  ReadInv'
<1>1. SnapshotsOK'
  BY DEF ReadInv, SnapshotsOK
<1>2. UNCHANGED <<query, at, readTs, opened, held>>
  BY DEF run
<1>3. Refs' = Refs /\ \A t, ref : EntriesAt(t, TsOf(ref))' = EntriesAt(t, TsOf(ref))
  BY <1>2 DEF Refs, EntriesAt, TsOf, Now
<1>4. QueryOK'
  BY <1>2 DEF ReadInv, QueryOK, Idle
<1>5. ResolvedOK'
  BY <1>2, <1>3 DEF ReadInv, ResolvedOK, KeysOf
<1> QED BY <1>1, <1>4, <1>5 DEF ReadInv

LEMMA StartQueryReadInv ==
    ASSUME QueriesAssumption, ReadInv, NEW q \in Queries, NEW ts \in 0..Now, StartQuery(q, ts)
    PROVE  ReadInv'
<1>1. /\ query' = q /\ at' = 1 /\ readTs' = ts /\ opened' = <<>> /\ held' = <<>> /\ snapshots' = snapshots
  BY DEF StartQuery, store
<1>2. SnapshotsOK'
  BY <1>1 DEF ReadInv, SnapshotsOK
<1>3. q \in Seq(Plans)
  BY DEF QueriesAssumption, Plans
<1>4. q # <<>> => 1 \in DOMAIN q
  BY <1>3
<1>5. Len(snapshots) \in Nat /\ ts \in Nat
  BY SequenceLength DEF ReadInv, SnapshotsOK, Now
<1> QED BY <1>1, <1>2, <1>3, <1>4, <1>5, NothingGiven DEF Idle

LEMMA BuildScanReadInv == ASSUME ReadInv, BuildScan PROVE ReadInv'
<1> DEFINE n == Len(held) + 1
<1>1. ~Idle /\ ~Built /\ ResolveScan(Plan.from[n]) /\ snapshots' = snapshots
  BY DEF BuildScan, store
<1>2. Len(held) \in Nat /\ Len(Plan.from) \in Nat
  BY <1>1, PlanRefs, SequenceLength DEF ReadInv, ResolvedOK
<1>3. n \in 1..Len(Plan.from)
  BY <1>1, <1>2 DEF Built
<1>4. Plan.from[n] \in Refs
  BY <1>1, <1>3, PlanRefs DEF ReadInv
<1> QED BY <1>1, <1>4, ResolveInv

LEMMA BuildCorrelatedReadInv ==
    ASSUME ReadInv, NEW i \in DOMAIN Plan.correlated, BuildCorrelated(i)
    PROVE  ReadInv'
<1>1. ~Idle /\ ResolveScan(Plan.correlated[i]) /\ snapshots' = snapshots
  BY DEF BuildCorrelated, store
<1>2. Plan.correlated[i] \in Refs
  BY <1>1, PlanRefs DEF ReadInv
<1> QED BY <1>1, <1>2, ResolveInv

LEMMA ReadFailsReadInv == ASSUME ReadInv, ReadFails PROVE ReadInv'
<1>1. EndQuery("error") /\ snapshots' = snapshots
  BY DEF ReadFails, store
<1>2. SnapshotsOK'
  BY <1>1 DEF ReadInv, SnapshotsOK
<1> QED BY <1>1, <1>2, EndInv

\* The next plan of a query starts with nothing, but keeps the resolver.
LEMMA FinishPlanReadInv == ASSUME ReadInv, FinishPlan PROVE ReadInv'
<1>1. snapshots' = snapshots /\ ~Idle
  BY DEF FinishPlan, store
<1>2. SnapshotsOK'
  BY <1>1 DEF ReadInv, SnapshotsOK
<1>3. CASE at = Len(query)
  <2>1. EndQuery("rows")
    BY <1>3 DEF FinishPlan
  <2> QED BY <1>2, <2>1, EndInv
<1>4. CASE at # Len(query)
  <2>1. at' = at + 1 /\ held' = <<>> /\ UNCHANGED <<query, readTs, opened>>
    BY <1>4 DEF FinishPlan
  <2>2. Refs' = Refs /\ \A t, ref : EntriesAt(t, TsOf(ref))' = EntriesAt(t, TsOf(ref))
    BY <1>1, <2>1 DEF Refs, EntriesAt, TsOf, Now
  <2>3. Len(query) \in Nat /\ DOMAIN query = 1..Len(query) /\ at \in DOMAIN query
    BY <1>1 DEF ReadInv, QueryOK
  <2>4. at + 1 \in DOMAIN query
    BY <1>4, <2>3
  <2>5. QueryOK'
    BY <1>1, <2>1, <2>4 DEF ReadInv, QueryOK, Idle
  <2>6. IsSequence(<<>>) /\ DOMAIN <<>> = {}
    BY DEF IsSequence
  <2>7. ResolvedOK'
    BY <2>1, <2>2, <2>6 DEF ReadInv, ResolvedOK, KeysOf
  <2> QED BY <1>2, <2>5, <2>7 DEF ReadInv
<1> QED BY <1>3, <1>4

LEMMA NextReadInv == ASSUME QueriesAssumption, ReadInv, [CacheNext]_cacheVars PROVE ReadInv'
<1>1. CASE UNCHANGED cacheVars \/ \E n \in CacheSizes : SetCacheSize(n)
  BY <1>1, StillReads DEF cacheVars, store, SetCacheSize
<1> QED BY <1>1, InsertReadInv, DeleteReadInv, RetireReadInv, StartQueryReadInv, BuildScanReadInv,
           BuildCorrelatedReadInv, ReadFailsReadInv, FinishPlanReadInv DEF CacheNext

-----------------------------------------------------------------------------
\* A scan reads the snapshot its reference names, if the query names its table
\* at one timestamp only, for any tables and queries: later commits, handles that
\* are cached, evictions and changes of the limit never get in between
\* (cachedSegmentResolver, openSegmentsAt and segmentCache.touch).
THEOREM ScansReadTheirSnapshot == ASSUME QueriesAssumption PROVE CacheSpec => []OneSnapshotRead
<1>1. CacheInit => ReadInv
  BY InitReadInv
<1>2. ReadInv /\ [CacheNext]_cacheVars => ReadInv'
  BY NextReadInv
<1>3. ReadInv => OneSnapshotRead
  <2> SUFFICES ASSUME ReadInv, NEW k \in DOMAIN held,
                      \A ref \in Refs : ref.table = held[k].ref.table => ref.asOf = held[k].ref.asOf
               PROVE  ReadsAt(k)
    BY DEF OneSnapshotRead
  <2> DEFINE ref == held[k].ref
  <2>1. /\ ref \in Refs /\ ref.table \in DOMAIN opened /\ held[k].handles = opened[ref.table]
    BY DEF ReadInv, ResolvedOK
  <2>2. PICK first \in Refs : /\ first.table = ref.table
                              /\ KeysOf(opened[ref.table]) = EntriesAt(ref.table, TsOf(first))
    BY <2>1 DEF ReadInv, ResolvedOK
  <2>3. TsOf(first) = TsOf(ref)
    BY <2>2 DEF TsOf
  <2>4. KeysOf(held[k].handles) = EntriesAt(ref.table, TsOf(ref))
    BY <2>1, <2>2, <2>3
  <2> QED BY <2>4 DEF ReadsAt, KeysOf
<1> QED BY <1>1, <1>2, <1>3, PTL DEF CacheSpec
-----------------------------------------------------------------------------
(* Sequences without repetition, and what Without leaves of them *)

\* The recursion of Without, and that there is a function it describes.
Keeping(f, s, gone, n) ==
    f = [i \in 0..n |-> IF i = 0 THEN <<>>
                        ELSE IF s[i] \in gone THEN f[i - 1] ELSE Append(f[i - 1], s[i])]

LEMMA KeepingExists ==
    ASSUME NEW s, NEW gone, NEW n \in Nat
    PROVE  \E f : Keeping(f, s, gone, n)
<1> DEFINE None == {k \in Nat : ~ \E f : Keeping(f, s, gone, k)}
<1>1. 0 \notin None
  <2> DEFINE f == [i \in 0..0 |-> <<>>]
  <2>1. f = [i \in 0..0 |-> IF i = 0 THEN <<>>
                            ELSE IF s[i] \in gone THEN f[i - 1] ELSE Append(f[i - 1], s[i])]
    OBVIOUS
  <2> QED BY <2>1 DEF Keeping
<1>2. ASSUME NEW k \in Nat, k \notin None PROVE k + 1 \notin None
  <2>1. PICK f : Keeping(f, s, gone, k)
    BY <1>2
  <2> DEFINE g == [i \in 0..(k + 1) |-> IF i <= k THEN f[i]
                      ELSE IF s[k + 1] \in gone THEN f[k] ELSE Append(f[k], s[k + 1])]
  <2>2. ASSUME NEW i \in 0..(k + 1)
        PROVE  g[i] = IF i = 0 THEN <<>>
                      ELSE IF s[i] \in gone THEN g[i - 1] ELSE Append(g[i - 1], s[i])
    <3>1. CASE i = k + 1
      <4>1. i # 0 /\ ~(i <= k) /\ i - 1 = k /\ k \in 0..(k + 1) /\ k <= k
        BY <1>2, <3>1
      <4>2. g[i] = IF s[k + 1] \in gone THEN f[k] ELSE Append(f[k], s[k + 1])
        BY <4>1
      <4>3. g[k] = f[k]
        BY <4>1
      <4> HIDE DEF g
      <4> QED BY <3>1, <4>1, <4>2, <4>3
    <3>2. CASE i \in 0..k
      <4>1. f[i] = IF i = 0 THEN <<>>
                   ELSE IF s[i] \in gone THEN f[i - 1] ELSE Append(f[i - 1], s[i])
        BY <2>1, <3>2 DEF Keeping
      <4>2. g[i] = f[i] /\ (i # 0 => g[i - 1] = f[i - 1])
        BY <1>2, <3>2
      <4> HIDE DEF g
      <4> QED BY <4>1, <4>2
    <3> QED BY <1>2, <3>1, <3>2
  <2>3. g = [i \in 0..(k + 1) |-> g[i]]
    OBVIOUS
  <2> HIDE DEF g
  <2>4. Keeping(g, s, gone, k + 1)
    BY <2>2, <2>3 DEF Keeping
  <2> QED BY <2>4
<1> HIDE DEF None
<1>3. None = {}
  <2> SUFFICES ASSUME None # {} PROVE FALSE
    OBVIOUS
  <2>1. None \subseteq Nat
    BY DEF None
  <2>2. PICK i \in None : \A j \in None : i <= j
    BY <2>1, LeastOfSome
  <2>3. i \in Nat /\ i # 0 /\ i - 1 \in Nat /\ i - 1 \notin None
    BY <1>1, <2>1, <2>2
  <2> QED BY <1>2, <2>2, <2>3
<1> QED BY <1>3 DEF None

\* The elements of w come from the first n of s, in their order.
Picked(w, s, gone, n) ==
    /\ IsSequence(w)
    /\ ToSet(w) = {s[j] : j \in 1..n} \ gone
    /\ \A a, b \in DOMAIN w : a < b => \E c, d \in 1..n : c < d /\ w[a] = s[c] /\ w[b] = s[d]

LEMMA PickedOneMore ==
    ASSUME NEW w, NEW s, NEW gone, NEW n \in Nat, Picked(w, s, gone, n)
    PROVE  Picked(IF s[n + 1] \in gone THEN w ELSE Append(w, s[n + 1]), s, gone, n + 1)
<1>1. 1..n \subseteq 1..(n + 1) /\ n + 1 \in 1..(n + 1) /\ \A j \in 1..(n + 1) : j \in 1..n \/ j = n + 1
  OBVIOUS
<1>2. {s[j] : j \in 1..(n + 1)} = {s[j] : j \in 1..n} \cup {s[n + 1]}
  BY <1>1
<1>3. CASE s[n + 1] \in gone
  BY <1>1, <1>2, <1>3 DEF Picked
<1>4. CASE s[n + 1] \notin gone
  <2> DEFINE v == Append(w, s[n + 1])
  <2>1. /\ IsSequence(w) /\ Len(w) \in Nat /\ DOMAIN w = 1..Len(w)
        /\ IsSequence(v) /\ DOMAIN v = 1..(Len(w) + 1)
        /\ \A i \in 1..Len(w) : v[i] = w[i]
        /\ v[Len(w) + 1] = s[n + 1]
    BY SequenceLength, Appending DEF Picked
  <2> HIDE DEF v
  <2>2. ToSet(v) = ToSet(w) \cup {s[n + 1]}
    <3>1. \A i \in DOMAIN v : i \in DOMAIN w \/ i = Len(w) + 1
      BY <2>1
    <3>2. DOMAIN w \subseteq DOMAIN v /\ Len(w) + 1 \in DOMAIN v
      BY <2>1
    <3> QED BY <2>1, <3>1, <3>2 DEF ToSet
  <2>3. ASSUME NEW a \in DOMAIN v, NEW b \in DOMAIN v, a < b
        PROVE  \E c, d \in 1..(n + 1) : c < d /\ v[a] = s[c] /\ v[b] = s[d]
    <3>1. a \in DOMAIN w /\ v[a] = w[a]
      BY <2>1, <2>3
    <3>2. CASE b \in DOMAIN w
      <4>1. v[b] = w[b]
        BY <2>1, <3>2
      <4>2. PICK c, d \in 1..n : c < d /\ w[a] = s[c] /\ w[b] = s[d]
        BY <2>3, <3>1, <3>2 DEF Picked
      <4> QED BY <1>1, <3>1, <4>1, <4>2
    <3>3. CASE b = Len(w) + 1
      <4>1. w[a] \in ToSet(w)
        BY <3>1 DEF ToSet
      <4>2. PICK c \in 1..n : w[a] = s[c]
        BY <4>1 DEF Picked
      <4>3. c < n + 1
        OBVIOUS
      <4> QED BY <1>1, <2>1, <3>1, <3>3, <4>2, <4>3
    <3> QED BY <2>1, <3>2, <3>3
  <2>4. Picked(v, s, gone, n + 1)
    BY <1>2, <1>4, <2>1, <2>2, <2>3 DEF Picked
  <2> QED BY <1>4, <2>4 DEF v
<1> QED BY <1>3, <1>4

LEMMA WithoutPicks ==
    ASSUME NEW s, IsSequence(s), NEW gone
    PROVE  Picked(Without(s, gone), s, gone, Len(s))
<1> DEFINE n == Len(s)
           f == CHOOSE g : Keeping(g, s, gone, n)
           Fails == {i \in 0..n : ~Picked(f[i], s, gone, i)}
<1>1. n \in Nat
  BY SequenceLength
<1>2. Keeping(f, s, gone, n)
  BY <1>1, KeepingExists
<1>3. Without(s, gone) = f[n]
  BY DEF Without, Keeping
<1> HIDE DEF f
<1>4. Fails = {}
  <2> SUFFICES ASSUME Fails # {} PROVE FALSE
    OBVIOUS
  <2>1. Fails \subseteq Nat
    BY <1>1
  <2>2. PICK i \in Fails : \A j \in Fails : i <= j
    <3> HIDE DEF Fails
    <3> QED BY <2>1, LeastOfSome
  <2>3. i \in 0..n /\ ~Picked(f[i], s, gone, i)
    OBVIOUS
  <2>4. i # 0
    <3>1. f[0] = <<>>
      BY <1>1, <1>2 DEF Keeping
    <3>2. IsSequence(<<>>) /\ DOMAIN <<>> = {} /\ 1..0 = {}
      BY DEF IsSequence
    <3>3. Picked(<<>>, s, gone, 0)
      BY <3>2 DEF Picked, ToSet
    <3> QED BY <2>3, <3>1, <3>3
  <2>5. i - 1 \in 0..n /\ i - 1 \in Nat /\ ~(i <= i - 1) /\ (i - 1) + 1 = i
    BY <1>1, <2>3, <2>4
  <2>6. Picked(f[i - 1], s, gone, i - 1)
    BY <2>2, <2>5
  <2>7. f[i] = IF s[i] \in gone THEN f[i - 1] ELSE Append(f[i - 1], s[i])
    BY <1>2, <2>3, <2>4 DEF Keeping
  <2>8. Picked(IF s[i] \in gone THEN f[i - 1] ELSE Append(f[i - 1], s[i]), s, gone, i)
    <3> DEFINE k == i - 1
               w == f[k]
    <3>1. k \in Nat /\ k + 1 = i /\ Picked(w, s, gone, k)
      BY <2>5, <2>6
    <3> HIDE DEF k, w
    <3>2. Picked(IF s[k + 1] \in gone THEN w ELSE Append(w, s[k + 1]), s, gone, k + 1)
      BY <3>1, PickedOneMore
    <3> QED BY <3>1, <3>2 DEF w, k
  <2> QED BY <2>3, <2>7, <2>8
<1>5. n \in 0..n
  BY <1>1
<1> QED BY <1>3, <1>4, <1>5

LEMMA WithoutIs ==
    ASSUME NEW s, IsSequence(s), NEW gone
    PROVE  /\ IsSequence(Without(s, gone))
           /\ ToSet(Without(s, gone)) = ToSet(s) \ gone
           /\ \A a, b \in DOMAIN Without(s, gone) : a < b =>
                  \E c, d \in DOMAIN s : c < d /\ Without(s, gone)[a] = s[c] /\ Without(s, gone)[b] = s[d]
           /\ Distinct(s) => Distinct(Without(s, gone))
<1> DEFINE w == Without(s, gone)
<1>1. Picked(w, s, gone, Len(s))
  BY WithoutPicks
<1>2. Len(s) \in Nat /\ DOMAIN s = 1..Len(s)
  BY SequenceLength
<1> HIDE DEF w
<1>3. /\ IsSequence(w) /\ ToSet(w) = ToSet(s) \ gone
      /\ \A a, b \in DOMAIN w : a < b => \E c, d \in DOMAIN s : c < d /\ w[a] = s[c] /\ w[b] = s[d]
  <2>1. ToSet(s) = {s[j] : j \in 1..Len(s)}
    BY ONLY <1>2 DEF ToSet
  <2>2. IsSequence(w) /\ ToSet(w) = {s[j] : j \in 1..Len(s)} \ gone
    BY ONLY <1>1 DEF Picked
  <2>3. \A a, b \in DOMAIN w : a < b => \E c, d \in 1..Len(s) : c < d /\ w[a] = s[c] /\ w[b] = s[d]
    BY ONLY <1>1 DEF Picked
  <2> QED BY ONLY <1>2, <2>1, <2>2, <2>3
<1>4. ASSUME Distinct(s) PROVE Distinct(w)
  <2>1. ASSUME NEW a \in DOMAIN w, NEW b \in DOMAIN w, a < b PROVE w[a] # w[b]
    <3>1. PICK c, d \in DOMAIN s : c < d /\ w[a] = s[c] /\ w[b] = s[d]
      BY <1>3, <2>1
    <3>2. c # d
      BY <1>2, <3>1
    <3> QED BY <1>4, <3>1, <3>2 DEF Distinct
  <2>2. DOMAIN w \subseteq Nat
    <3>1. DOMAIN w = 1..Len(w) /\ Len(w) \in Nat
      BY <1>3, SequenceLength
    <3> QED BY <3>1
  <2>3. ASSUME NEW a \in DOMAIN w, NEW b \in DOMAIN w, w[a] = w[b] PROVE a = b
    <3>1. a \in Nat /\ b \in Nat /\ ~(a < b) /\ ~(b < a)
      BY <2>1, <2>2, <2>3
    <3> QED BY <3>1
  <2> QED BY <2>3 DEF Distinct
<1> QED BY <1>3, <1>4 DEF w

LEMMA JoinedDistinct ==
    ASSUME NEW a, NEW b, IsSequence(a), IsSequence(b), Distinct(a), Distinct(b),
           ToSet(a) \cap ToSet(b) = {}
    PROVE  Distinct(a \o b)
<1> DEFINE ab == a \o b
           m == Len(a)
           n == Len(b)
<1>1. /\ m \in Nat /\ n \in Nat /\ DOMAIN a = 1..m /\ DOMAIN b = 1..n /\ DOMAIN ab = 1..(m + n)
      /\ \A i \in 1..m : ab[i] = a[i]
      /\ \A i \in 1..n : ab[m + i] = b[i]
  BY Joined, SequenceLength
<1> HIDE DEF ab, m, n
<1>2. ASSUME NEW i \in 1..(m + n), NEW j \in 1..(m + n), ab[i] = ab[j] PROVE i = j
  <2>1. ASSUME NEW k \in 1..(m + n)
        PROVE  \/ k \in 1..m /\ ab[k] = a[k] /\ ab[k] \in ToSet(a)
               \/ k - m \in 1..n /\ ab[k] = b[k - m] /\ ab[k] \in ToSet(b)
    <3>1. CASE k \in 1..m
      BY <1>1, <3>1 DEF ToSet
    <3>2. CASE k \notin 1..m
      <4>1. k - m \in 1..n /\ m + (k - m) = k
        BY <1>1, <3>2
      <4> QED BY <1>1, <4>1 DEF ToSet
    <3> QED BY <3>1, <3>2
  <2>2. CASE i \in 1..m /\ ab[i] = a[i] /\ ab[i] \in ToSet(a)
    <3>1. j \in 1..m /\ ab[j] = a[j]
      BY <1>2, <2>1, <2>2
    <3> QED BY <1>1, <1>2, <2>2, <3>1 DEF Distinct
  <2>3. CASE i - m \in 1..n /\ ab[i] = b[i - m] /\ ab[i] \in ToSet(b)
    <3>1. j - m \in 1..n /\ ab[j] = b[j - m]
      BY <1>2, <2>1, <2>3
    <3>2. i - m = j - m
      BY <1>1, <1>2, <2>3, <3>1 DEF Distinct
    <3> QED BY <1>1, <3>2
  <2> QED BY <2>1, <2>2, <2>3
<1> QED BY <1>1, <1>2 DEF Distinct, ab

LEMMA IntervalCount == ASSUME NEW n \in Nat PROVE IsFiniteSet(1..n) /\ Cardinality(1..n) = n
<1>1. /\ IsFiniteSet(1..n)
      /\ Cardinality(1..n) = IF 1 > n THEN 0 ELSE n - 1 + 1
  BY FS_Interval
<1>2. 1 > n => n = 0
  OBVIOUS
<1> QED BY <1>1, <1>2

\* As many positions as elements.
LEMMA PositionCount ==
    ASSUME NEW s, IsSequence(s), Distinct(s), NEW positions \in SUBSET DOMAIN s
    PROVE  /\ IsFiniteSet(positions) /\ Cardinality(positions) \in Nat
           /\ IsFiniteSet({s[i] : i \in positions})
           /\ Cardinality({s[i] : i \in positions}) = Cardinality(positions)
<1> DEFINE T == {s[i] : i \in positions}
           f == [i \in positions |-> s[i]]
<1>1. IsFiniteSet(positions)
  <2>1. Len(s) \in Nat /\ DOMAIN s = 1..Len(s)
    BY SequenceLength
  <2>2. IsFiniteSet(DOMAIN s)
    BY <2>1, IntervalCount
  <2> QED BY <2>2, FS_Subset
<1>2. f \in Bijection(positions, T)
  <2>1. f \in Injection(positions, T)
    BY DEF Injection, Distinct, IsInjective
  <2>2. f \in Surjection(positions, T)
    BY DEF Surjection
  <2> QED BY <2>1, <2>2 DEF Bijection
<1>3. ExistsBijection(positions, T)
  BY <1>2 DEF ExistsBijection
<1> HIDE DEF f, T
<1>4. IsFiniteSet(T) /\ Cardinality(T) = Cardinality(positions)
  BY <1>1, <1>3, FS_Bijection
<1> QED BY <1>1, <1>4, FS_CardinalityType DEF T

-----------------------------------------------------------------------------
(* What evictExcept closes *)

ColdIn(w, keys) == {i \in DOMAIN w : w[i].key \notin keys}

\* Either all that is outside the working set, or enough.
LEMMA ColdestEnough ==
    ASSUME NEW w, IsSequence(w), Distinct(w), NEW keys, limit \in Nat
    PROVE  /\ \A h \in Coldest(w, keys) : h \in ToSet(w) /\ h.key \notin keys
           /\ \/ \A h \in ToSet(w) : h.key \notin keys => h \in Coldest(w, keys)
              \/ Cardinality(ToSet(w) \ Coldest(w, keys)) <= limit
<1> DEFINE cold == ColdIn(w, keys)
           m == Len(w) - limit
           rank(j) == Cardinality({k \in cold : k <= j})
           chosen == {j \in cold : rank(j) <= m}
           gone == {w[i] : i \in chosen}
<1>1. Coldest(w, keys) = gone
  BY DEF Coldest, ColdIn
<1>2. Len(w) \in Nat /\ DOMAIN w = 1..Len(w) /\ m \in Int /\ cold \subseteq DOMAIN w /\ cold \subseteq Nat
  BY SequenceLength DEF ColdIn
<1>3. \A h \in gone : h \in ToSet(w) /\ h.key \notin keys
  BY DEF ToSet, ColdIn
<1>4. CASE chosen = cold
  BY <1>1, <1>3, <1>4 DEF ToSet, ColdIn
<1>5. CASE chosen # cold
  <2> DEFINE spared == cold \ chosen
  <2>1. spared \subseteq Nat /\ spared # {}
    BY <1>2, <1>5
  <2>2. PICK first \in spared : \A j \in spared : first <= j
    <3> HIDE DEF spared
    <3> QED BY <2>1, LeastOfSome
  <2>3. first \in cold /\ first \in Nat /\ rank(first) > m
    <3>1. first \in cold /\ ~(rank(first) <= m)
      OBVIOUS
    <3>2. rank(first) \in Nat
      <4>1. {k \in cold : k <= first} \in SUBSET DOMAIN w
        BY <1>2
      <4> QED BY <4>1, PositionCount
    <3> QED BY <1>2, <3>1, <3>2
  <2> DEFINE before == {k \in cold : k < first}
  <2>4. before \subseteq chosen
    <3> SUFFICES ASSUME NEW k \in before, k \notin chosen PROVE FALSE
      OBVIOUS
    <3>1. k \in spared /\ k < first /\ k \in Nat
      BY <1>2
    <3>2. first <= k
      BY <2>2, <3>1
    <3> QED BY <2>3, <3>1, <3>2
  <2>5. {k \in cold : k <= first} = before \cup {first} /\ first \notin before
    BY <1>2, <2>3
  <2>6. before \in SUBSET DOMAIN w /\ chosen \in SUBSET DOMAIN w
    BY <1>2
  <2> HIDE DEF before, cold, chosen
  <2>7. /\ IsFiniteSet(before) /\ Cardinality(before) \in Nat
        /\ IsFiniteSet(chosen) /\ Cardinality(chosen) \in Nat
        /\ IsFiniteSet(gone) /\ Cardinality(gone) = Cardinality(chosen)
    BY <2>6, PositionCount
  <2>8. Cardinality(before) + 1 > m
    <3>1. Cardinality(before \cup {first}) = Cardinality(before) + 1
      BY <2>5, <2>7, FS_AddElement
    <3> QED BY <2>3, <2>5, <3>1
  <2>9. Cardinality(before) <= Cardinality(chosen)
    BY <2>4, <2>7, FS_Subset
  <2>10. /\ IsFiniteSet(ToSet(w)) /\ Cardinality(ToSet(w)) = Len(w)
    BY SequenceFinite, DistinctCount
  <2>11. ToSet(w) \cap gone = gone
    BY <1>3
  <2>12. Cardinality(ToSet(w) \ gone) = Len(w) - Cardinality(gone)
    <3> HIDE DEF gone
    <3>1. Cardinality(ToSet(w) \ gone) = Cardinality(ToSet(w)) - Cardinality(ToSet(w) \cap gone)
      BY ONLY <2>10, FS_Difference
    <3> QED BY ONLY <2>10, <2>11, <3>1
  <2>13. Cardinality(ToSet(w) \ gone) <= limit
    <3> DEFINE c == Cardinality(gone)
               d == Cardinality(ToSet(w) \ gone)
               b == Cardinality(before)
               l == Len(w)
    <3>1. c \in Nat /\ b \in Nat /\ l \in Nat /\ limit \in Nat /\ b <= c /\ b + 1 > l - limit /\ d = l - c
      BY <1>2, <2>7, <2>8, <2>9, <2>12
    <3> HIDE DEF b, c, d, l
    <3>2. d <= limit
      BY <3>1
    <3> QED BY <3>2 DEF d
  <2> QED BY <1>1, <1>3, <2>13
<1> QED BY <1>4, <1>5

\* Nothing of a set that fits, is the warmest there is and holds the working set.
LEMMA ColdestSpares ==
    ASSUME NEW w, IsSequence(w), Distinct(w), NEW keys, limit \in Nat,
           NEW spared \in SUBSET ToSet(w), Cardinality(spared) <= limit,
           \A a, b \in DOMAIN w : a < b /\ w[a] \in spared => w[b] \in spared,
           \A h \in ToSet(w) : h.key \in keys => h \in spared
    PROVE  Coldest(w, keys) \cap spared = {}
<1> SUFFICES ASSUME NEW h \in Coldest(w, keys), h \in spared PROVE FALSE
  OBVIOUS
<1> DEFINE cold == ColdIn(w, keys)
           outside == {k \in DOMAIN w : w[k] \notin spared}
           inside == {k \in DOMAIN w : w[k] \in spared}
<1>1. PICK j \in cold : w[j] = h /\ Cardinality({k \in cold : k <= j}) <= Len(w) - limit
  BY DEF Coldest, ColdIn
<1>2. Len(w) \in Nat /\ DOMAIN w = 1..Len(w) /\ j \in DOMAIN w /\ cold \in SUBSET DOMAIN w
  BY SequenceLength DEF ColdIn
<1>3. ASSUME NEW k \in outside PROVE k \in cold /\ k < j
  <2>1. k \in cold
    BY DEF ColdIn, ToSet
  <2>2. k # j /\ ~(j < k)
    BY <1>1, <1>2
  <2> QED BY <1>2, <2>1, <2>2
<1>4. outside \cup {j} \subseteq {k \in cold : k <= j} /\ j \notin outside
  BY <1>1, <1>2, <1>3
<1>5. {w[k] : k \in inside} = spared
  BY DEF ToSet
<1>6. inside \in SUBSET DOMAIN w /\ outside \in SUBSET DOMAIN w /\ {k \in cold : k <= j} \in SUBSET DOMAIN w
  BY <1>2
<1>7. inside \cup outside = DOMAIN w /\ inside \cap outside = {}
  OBVIOUS
<1> HIDE DEF inside, outside, cold
<1>8. /\ IsFiniteSet(inside) /\ IsFiniteSet(outside) /\ IsFiniteSet({k \in cold : k <= j})
      /\ Cardinality(inside) \in Nat /\ Cardinality(outside) \in Nat
      /\ Cardinality({k \in cold : k <= j}) \in Nat
      /\ Cardinality(inside) = Cardinality(spared)
  BY <1>5, <1>6, PositionCount
<1>9. Cardinality(outside) + 1 <= Cardinality({k \in cold : k <= j})
  <2>1. IsFiniteSet(outside \cup {j}) /\ Cardinality(outside \cup {j}) = Cardinality(outside) + 1
    BY <1>4, <1>8, FS_AddElement
  <2> QED BY <1>4, <1>8, <2>1, FS_Subset
<1>10. Len(w) = Cardinality(inside) + Cardinality(outside)
  <2>1. Cardinality(DOMAIN w) = Len(w)
    BY <1>2, IntervalCount
  <2>2. Cardinality(inside \cup outside) =
            Cardinality(inside) + Cardinality(outside) - Cardinality(inside \cap outside)
    BY <1>8, FS_Union
  <2>3. Cardinality(inside \cap outside) = 0
    BY <1>7, FS_EmptySet
  <2>4. Cardinality(DOMAIN w) = Cardinality(inside) + Cardinality(outside) - 0
    BY <1>7, <2>2, <2>3
  <2> QED BY <1>8, <2>1, <2>4
<1> DEFINE i == Cardinality(inside)
           o == Cardinality(outside)
           r == Cardinality({k \in cold : k <= j})
           l == Len(w)
<1>11. i \in Nat /\ o \in Nat /\ r \in Nat /\ l = i + o /\ o + 1 <= r /\ r <= l - limit /\ i <= limit
  BY <1>1, <1>8, <1>9, <1>10
<1> HIDE DEF i, o, r, l
<1> QED BY <1>11

-----------------------------------------------------------------------------
(* The entries of the snapshots: a path names one segment for ever *)

EntriesOK(s) ==
    /\ s \in Seq(CacheKeys)
    /\ \A a, b \in DOMAIN s : s[a].path = s[b].path => a = b

PathsIn(s) == {key.path : key \in ToSet(s)}
PathsUpTo(t, n) == {<<t, j>> : j \in 1..n}

KeysInv ==
    /\ \A i \in DOMAIN snapshots : \A t \in Tables : EntriesOK(snapshots[i][t])
    /\ \A t \in Tables : \E n \in Nat : PathsOf(t) = PathsUpTo(t, n)

LEMMA PathCount == ASSUME NEW t, NEW n \in Nat PROVE Cardinality(PathsUpTo(t, n)) = n
<1> DEFINE s == [j \in 1..n |-> <<t, j>>]
<1>1. IsSequence(s) /\ Len(s) = n
  <2> DEFINE S == {<<t, j>> : j \in 1..n}
  <2>1. s \in [1..n -> S]
    OBVIOUS
  <2> HIDE DEF s, S
  <2>2. s \in Seq(S) /\ Len(s) = n
    BY <2>1
  <2> QED BY <2>2, AnySequence
<1>2. Distinct(s) /\ ToSet(s) = PathsUpTo(t, n)
  BY DEF Distinct, ToSet, PathsUpTo
<1> HIDE DEF s
<1> QED BY <1>1, <1>2, DistinctCount

LEMMA CommitKeys ==
    ASSUME SnapshotsOK, KeysInv, NEW t \in Tables, NEW entries, CommitEntries(t, entries),
           EntriesOK(entries),
           NEW n \in Nat, PathsOf(t) \cup PathsIn(entries) = PathsUpTo(t, n)
    PROVE  KeysInv'
<1> DEFINE now == snapshots[Now + 1]
           next == [now EXCEPT ![t] = entries]
<1>1. /\ IsSequence(snapshots) /\ Len(snapshots) \in Nat /\ Len(snapshots) >= 1
      /\ DOMAIN snapshots = 1..Len(snapshots) /\ Now + 1 = Len(snapshots)
  BY SequenceLength DEF SnapshotsOK, Now
<1>2. Now + 1 \in DOMAIN snapshots /\ now = [u \in Tables |-> now[u]]
  BY <1>1 DEF SnapshotsOK
<1>3. snapshots' = Append(snapshots, next)
  BY DEF CommitEntries
<1>4. \A u \in Tables : next[u] = IF u = t THEN entries ELSE now[u]
  BY <1>2
<1> HIDE DEF next
<1>5. /\ DOMAIN snapshots' = 1..(Len(snapshots) + 1)
      /\ \A i \in 1..Len(snapshots) : snapshots'[i] = snapshots[i]
      /\ snapshots'[Len(snapshots) + 1] = next
  BY <1>1, <1>3, Appending
<1>6. ASSUME NEW i \in DOMAIN snapshots', NEW u \in Tables PROVE EntriesOK(snapshots'[i][u])
  <2>1. CASE i = Len(snapshots) + 1
    <3>1. EntriesOK(now[u])
      BY <1>2 DEF KeysInv
    <3> QED BY <1>4, <1>5, <2>1, <3>1
  <2>2. CASE i \in DOMAIN snapshots
    BY <1>1, <1>5, <2>2 DEF KeysInv
  <2> QED BY <1>1, <1>5, <2>1, <2>2
<1>7. ASSUME NEW u \in Tables PROVE PathsOf(u)' = PathsOf(u) \cup PathsIn(next[u])
  <2> DEFINE old == {PathsIn(snapshots[i][u]) : i \in DOMAIN snapshots}
             all == {PathsIn(snapshots'[i][u]) : i \in DOMAIN snapshots'}
  <2>1. PathsOf(u) = UNION old /\ PathsOf(u)' = UNION all
    BY DEF PathsOf, PathsIn
  <2>2. all = old \cup {PathsIn(next[u])}
    <3>1. \A i \in DOMAIN snapshots' : i \in DOMAIN snapshots \/ i = Len(snapshots) + 1
      BY <1>1, <1>5
    <3>2. DOMAIN snapshots \subseteq DOMAIN snapshots' /\ Len(snapshots) + 1 \in DOMAIN snapshots'
      BY <1>1, <1>5
    <3> QED BY <1>1, <1>5, <3>1, <3>2
  <2> QED BY <2>1, <2>2
<1>8. ASSUME NEW u \in Tables PROVE \E k \in Nat : PathsOf(u)' = PathsUpTo(u, k)
  <2>1. CASE u = t
    BY <1>4, <1>7, <2>1
  <2>2. CASE u # t
    <3>1. PathsIn(next[u]) \subseteq PathsOf(u)
      BY <1>2, <1>4, <2>2 DEF PathsOf, PathsIn
    <3>2. PathsOf(u)' = PathsOf(u)
      BY <1>7, <3>1
    <3> QED BY <3>2 DEF KeysInv
  <2> QED BY <2>1, <2>2
<1>9. /\ \A i \in DOMAIN snapshots' : \A u \in Tables : EntriesOK(snapshots'[i][u])
      /\ \A u \in Tables : \E k \in Nat : PathsOf(u)' = PathsUpTo(u, k)
  BY <1>6, <1>8
<1> QED BY <1>9 DEF KeysInv

\* The present entries of a table.
LEMMA NowKeys ==
    ASSUME SnapshotsOK, KeysInv, NEW t \in Tables
    PROVE  /\ EntriesOK(snapshots[Now + 1][t])
           /\ PathsIn(snapshots[Now + 1][t]) \subseteq PathsOf(t)
<1>1. Now + 1 \in DOMAIN snapshots
  BY SequenceLength DEF SnapshotsOK, Now
<1> QED BY <1>1 DEF KeysInv, PathsOf, PathsIn

LEMMA InsertKeys ==
    ASSUME SnapshotsOK, KeysInv, NEW t \in Tables, InsertSegment(t)
    PROVE  KeysInv'
<1> DEFINE s == snapshots[Now + 1][t]
           path == <<t, Cardinality(PathsOf(t)) + 1>>
           entry == [path |-> path, dv |-> 0]
           entries == Append(s, entry)
<1>1. CommitEntries(t, entries)
  BY DEF InsertSegment
<1>2. PICK n \in Nat : PathsOf(t) = PathsUpTo(t, n)
  BY DEF KeysInv
<1>3. path = <<t, n + 1>>
  BY <1>2, PathCount
<1>4. EntriesOK(s) /\ PathsIn(s) \subseteq PathsOf(t)
  BY NowKeys
<1>5. entry \in CacheKeys /\ entry.path = <<t, n + 1>>
  BY <1>3 DEF CacheKeys
<1> HIDE DEF s, entry, path
<1>6. /\ s \in Seq(CacheKeys) /\ Len(s) \in Nat /\ DOMAIN s = 1..Len(s)
      /\ entries \in Seq(CacheKeys) /\ DOMAIN entries = 1..(Len(s) + 1)
      /\ \A i \in 1..Len(s) : entries[i] = s[i]
      /\ entries[Len(s) + 1] = entry
  BY <1>4, <1>5 DEF EntriesOK
<1> HIDE DEF entries
<1>7. \A i \in DOMAIN s : s[i].path # entry.path
  <2> SUFFICES ASSUME NEW i \in DOMAIN s, s[i].path = <<t, n + 1>> PROVE FALSE
    BY <1>5
  <2>1. <<t, n + 1>> \in PathsUpTo(t, n)
    BY <1>2, <1>4 DEF PathsIn, ToSet
  <2>2. PICK j \in 1..n : <<t, n + 1>> = <<t, j>>
    BY <2>1 DEF PathsUpTo
  <2> QED BY <2>2
<1>8. EntriesOK(entries)
  <2> SUFFICES ASSUME NEW a \in DOMAIN entries, NEW b \in DOMAIN entries, entries[a].path = entries[b].path
               PROVE  a = b
    BY <1>6 DEF EntriesOK
  <2>1. \A i \in DOMAIN entries : i \in DOMAIN s \/ i = Len(s) + 1
    BY <1>6
  <2> QED BY <1>4, <1>6, <1>7, <2>1 DEF EntriesOK
<1>9. PathsOf(t) \cup PathsIn(entries) = PathsUpTo(t, n + 1)
  <2>1. PathsIn(entries) = PathsIn(s) \cup {entry.path}
    <3>1. \A i \in DOMAIN entries : i \in DOMAIN s \/ i = Len(s) + 1
      BY <1>6
    <3>2. DOMAIN s \subseteq DOMAIN entries /\ Len(s) + 1 \in DOMAIN entries
      BY <1>6
    <3>3. ToSet(entries) = ToSet(s) \cup {entry}
      BY <1>6, <3>1, <3>2 DEF ToSet
    <3> QED BY <3>3 DEF PathsIn
  <2>2. PathsUpTo(t, n + 1) = PathsUpTo(t, n) \cup {<<t, n + 1>>}
    <3>1. 1..(n + 1) = 1..n \cup {n + 1}
      OBVIOUS
    <3> QED BY <3>1 DEF PathsUpTo
  <2> QED BY <1>2, <1>4, <1>5, <2>1, <2>2
<1> QED BY <1>1, <1>8, <1>9, CommitKeys

\* Entries under paths that were there before.
LEMMA SamePathsKeys ==
    ASSUME SnapshotsOK, KeysInv, NEW t \in Tables, NEW entries, CommitEntries(t, entries),
           EntriesOK(entries),
           \A i \in DOMAIN entries : \E j \in DOMAIN snapshots[Now + 1][t] :
               entries[i].path = snapshots[Now + 1][t][j].path
    PROVE  KeysInv'
<1>1. PathsIn(entries) \subseteq PathsIn(snapshots[Now + 1][t])
  BY DEF PathsIn, ToSet
<1>2. PathsOf(t) \cup PathsIn(entries) = PathsOf(t)
  BY <1>1, NowKeys
<1>3. PICK n \in Nat : PathsOf(t) = PathsUpTo(t, n)
  BY DEF KeysInv
<1> QED BY <1>2, <1>3, CommitKeys

LEMMA DeleteKeys ==
    ASSUME SnapshotsOK, KeysInv, NEW t \in Tables, NEW i \in DOMAIN snapshots[Now + 1][t], DeleteRows(t, i)
    PROVE  KeysInv'
<1> DEFINE s == snapshots[Now + 1][t]
           entries == [s EXCEPT ![i].dv = Now + 1]
<1>1. CommitEntries(t, entries)
  BY DEF DeleteRows
<1>2. s \in Seq(CacheKeys) /\ \A a, b \in DOMAIN s : s[a].path = s[b].path => a = b
  BY NowKeys DEF EntriesOK
<1>3. i \in DOMAIN s /\ Now + 1 \in Nat
  BY SequenceLength DEF SnapshotsOK, Now
<1> HIDE DEF s
<1>4. /\ DOMAIN entries = DOMAIN s /\ entries \in Seq(CacheKeys)
      /\ \A k \in DOMAIN s : entries[k].path = s[k].path
  <2> DEFINE e == [s[i] EXCEPT !.dv = Now + 1]
  <2>1. s[i] \in CacheKeys
    BY <1>2, <1>3
  <2>2. e \in CacheKeys /\ e.path = s[i].path
    BY <1>3, <2>1 DEF CacheKeys
  <2>3. entries = [s EXCEPT ![i] = e]
    OBVIOUS
  <2> HIDE DEF e
  <2>4. entries \in Seq(CacheKeys)
    <3>1. Len(s) \in Nat /\ s \in [1..Len(s) -> CacheKeys]
      BY <1>2
    <3>2. [s EXCEPT ![i] = e] \in [1..Len(s) -> CacheKeys]
      BY <2>2, <3>1
    <3> QED BY <2>3, <3>1, <3>2
  <2> QED BY <1>3, <2>2, <2>3, <2>4
<1> HIDE DEF entries
<1>5. EntriesOK(entries)
  BY <1>2, <1>4 DEF EntriesOK
<1> QED BY <1>1, <1>4, <1>5, SamePathsKeys DEF s

LEMMA RetireKeys ==
    ASSUME SnapshotsOK, KeysInv, NEW t \in Tables, NEW i \in DOMAIN snapshots[Now + 1][t], RetireSegment(t, i)
    PROVE  KeysInv'
<1> DEFINE s == snapshots[Now + 1][t]
           entries == RemoveAt(s, i)
<1>1. CommitEntries(t, entries)
  BY DEF RetireSegment
<1>2. s \in Seq(CacheKeys) /\ \A a, b \in DOMAIN s : s[a].path = s[b].path => a = b
  BY NowKeys DEF EntriesOK
<1>3. i \in DOMAIN s
  OBVIOUS
<1> HIDE DEF s
<1>4. /\ entries \in Seq(CacheKeys)
      /\ \A k \in DOMAIN entries : LET j == IF k < i THEN k ELSE k + 1
                                   IN  j \in DOMAIN s /\ entries[k] = s[j]
  BY <1>2, <1>3, RemovedAt DEF entries
<1> HIDE DEF entries
<1>5. EntriesOK(entries)
  <2> SUFFICES ASSUME NEW a \in DOMAIN entries, NEW b \in DOMAIN entries, entries[a].path = entries[b].path
               PROVE  a = b
    BY <1>4 DEF EntriesOK
  <2>1. (IF a < i THEN a ELSE a + 1) = (IF b < i THEN b ELSE b + 1)
    BY <1>2, <1>4
  <2>2. a \in Nat /\ b \in Nat /\ i \in Nat
    BY <1>2, <1>3, <1>4
  <2> QED BY <2>1, <2>2
<1>6. \A k \in DOMAIN entries : \E j \in DOMAIN s : entries[k].path = s[j].path
  BY <1>4
<1> QED BY <1>1, <1>5, <1>6, SamePathsKeys DEF s

-----------------------------------------------------------------------------
(* The handles *)

LEMMA MostOfTwo ==
    ASSUME NEW a \in Nat, NEW b \in Nat
    PROVE  Max({a, b}) \in Nat /\ a <= Max({a, b}) /\ b <= Max({a, b})
<1>1. \E i \in {a, b} : \A j \in {a, b} : i >= j
  OBVIOUS
<1>2. Max({a, b}) \in {a, b} /\ \A j \in {a, b} : Max({a, b}) >= j
  BY <1>1 DEF Max
<1> QED BY <1>2

OneEach(hs) == \A g, h \in hs : g.key = h.key => g = h

\* The cache knows every open handle, once, and has one of each entry.
HandlesInv ==
    /\ limit \in Nat /\ room \in Nat
    /\ IsSequence(lru) /\ Distinct(lru) /\ open = ToSet(lru) /\ OneEach(open)
    /\ Len(lru) <= room

\* The handles that openSegmentsAt gets are new or those of the cache.
LEMMA GotHandles ==
    ASSUME OneEach(ToSet(lru)), NEW keys, IsSequence(keys), Distinct(keys), NEW got,
           got = [i \in 1..Openable(keys) |-> HandleFor(keys[i])]
    PROVE  /\ IsSequence(got) /\ Len(got) \in 0..Len(keys) /\ Distinct(got)
           /\ \A h \in ToSet(got) : h.key \in ToSet(keys)
           /\ OneEach(ToSet(lru) \cup ToSet(got))
           /\ Len(got) = Len(keys) =>
                  \A h \in ToSet(lru) \cup ToSet(got) : h.key \in ToSet(keys) => h \in ToSet(got)
<1> DEFINE m == Openable(keys)
<1>1. /\ Len(keys) \in Nat /\ DOMAIN keys = 1..Len(keys) /\ m \in 0..Len(keys) /\ m \in Nat
      /\ 1..m \subseteq DOMAIN keys
  BY SequenceLength, OpenableLength
<1> HIDE DEF m
<1>2. /\ DOMAIN got = 1..m
      /\ \A i \in 1..m : got[i] = HandleFor(keys[i])
  BY DEF m
<1>3. IsSequence(got) /\ Len(got) = m
  <2>1. got = [i \in 1..m |-> got[i]]
    BY DEF m
  <2> QED BY <1>1, <2>1, Listing
<1>4. \A i \in 1..m : got[i].key = keys[i]
  BY <1>2, HandleOfKey
<1>5. ASSUME NEW i \in 1..m, NEW h \in ToSet(lru), h.key = keys[i]
      PROVE  got[i] \in ToSet(lru)
  <2> DEFINE cached == {c \in ToSet(lru) : c.key = keys[i]}
  <2>1. cached # {}
    BY <1>5
  <2>2. HandleFor(keys[i]) = CHOOSE c \in cached : TRUE
    BY <2>1 DEF HandleFor
  <2> QED BY <1>2, <2>1, <2>2
<1>6. Distinct(got) /\ \A i, j \in 1..m : got[i].key = got[j].key => i = j
  <2>1. ASSUME NEW i \in 1..m, NEW j \in 1..m, got[i].key = got[j].key PROVE i = j
    <3>1. keys[i] = keys[j] /\ i \in DOMAIN keys /\ j \in DOMAIN keys
      BY <1>1, <1>4, <2>1
    <3> QED BY <3>1 DEF Distinct
  <2> QED BY <1>2, <2>1 DEF Distinct
<1>7. \A h \in ToSet(got) : \E i \in 1..m : h = got[i] /\ h.key = keys[i]
  <2>1. \A h \in ToSet(got) : \E i \in 1..m : h = got[i]
    BY ONLY <1>2 DEF ToSet
  <2> QED BY ONLY <1>4, <2>1
<1>8. \A h \in ToSet(got) : h.key \in ToSet(keys)
  BY <1>1, <1>7 DEF ToSet
<1>9. ASSUME NEW g \in ToSet(lru), NEW h \in ToSet(got), g.key = h.key PROVE g = h
  <2>1. PICK i \in 1..m : h = got[i] /\ h.key = keys[i]
    BY <1>7
  <2>2. h \in ToSet(lru)
    BY <1>5, <1>9, <2>1
  <2> QED BY <1>9, <2>2 DEF OneEach
<1>10. ASSUME NEW g \in ToSet(got), NEW h \in ToSet(got), g.key = h.key PROVE g = h
  <2>1. PICK i \in 1..m : g = got[i] /\ g.key = keys[i]
    BY <1>7
  <2>2. PICK j \in 1..m : h = got[j] /\ h.key = keys[j]
    BY <1>7
  <2> QED BY <1>6, <1>10, <2>1, <2>2
<1>11. OneEach(ToSet(lru) \cup ToSet(got))
  <2> SUFFICES ASSUME NEW g \in ToSet(lru) \cup ToSet(got), NEW h \in ToSet(lru) \cup ToSet(got), g.key = h.key
               PROVE  g = h
    BY DEF OneEach
  <2>1. CASE g \in ToSet(lru) /\ h \in ToSet(lru)
    BY <2>1 DEF OneEach
  <2> QED BY <1>9, <1>10, <2>1
<1>12. ASSUME m = Len(keys), NEW h \in ToSet(lru) \cup ToSet(got), h.key \in ToSet(keys)
       PROVE  h \in ToSet(got)
  <2>1. PICK i \in 1..m : h.key = keys[i]
    BY <1>1, <1>12 DEF ToSet
  <2>2. got[i] \in ToSet(got) /\ got[i].key = h.key
    BY <1>2, <1>4, <2>1 DEF ToSet
  <2> QED BY <1>11, <2>2 DEF OneEach
<1> QED BY <1>1, <1>3, <1>6, <1>8, <1>11, <1>12

\* The list after touch: all handles once, those that are used last.
LEMMA WarmedIs ==
    ASSUME IsSequence(lru), Distinct(lru), NEW got, IsSequence(got), Distinct(got)
    PROVE  /\ IsSequence(Warmed(got)) /\ Distinct(Warmed(got))
           /\ ToSet(Warmed(got)) = ToSet(lru) \cup ToSet(got)
           /\ \A a, b \in DOMAIN Warmed(got) : a < b =>
                  \/ Warmed(got)[b] \in ToSet(got)
                  \/ /\ Warmed(got)[a] \notin ToSet(got)
                     /\ \E c, d \in DOMAIN lru : c < d /\ Warmed(got)[a] = lru[c] /\ Warmed(got)[b] = lru[d]
<1> DEFINE cold == Without(lru, ToSet(got))
           w == cold \o got
           m == Len(cold)
           n == Len(got)
<1>1. /\ IsSequence(cold) /\ Distinct(cold) /\ ToSet(cold) = ToSet(lru) \ ToSet(got)
      /\ \A a, b \in DOMAIN cold : a < b => \E c, d \in DOMAIN lru : c < d /\ cold[a] = lru[c] /\ cold[b] = lru[d]
  BY WithoutIs
<1>2. Warmed(got) = w
  BY DEF Warmed
<1> HIDE DEF cold
<1>3. /\ IsSequence(w) /\ DOMAIN w = 1..(m + n) /\ ToSet(w) = ToSet(cold) \cup ToSet(got)
      /\ \A i \in 1..m : w[i] = cold[i]
      /\ \A i \in 1..n : w[m + i] = got[i]
      /\ m \in Nat /\ n \in Nat /\ DOMAIN cold = 1..m /\ DOMAIN got = 1..n
  BY <1>1, Joined, SequenceLength
<1>4. Distinct(w)
  <2>1. ToSet(cold) \cap ToSet(got) = {}
    BY <1>1
  <2> QED BY <1>1, <2>1, JoinedDistinct
<1> HIDE DEF w, m, n
<1>5. ASSUME NEW a \in DOMAIN w, NEW b \in DOMAIN w, a < b, w[b] \notin ToSet(got)
      PROVE  /\ w[a] \notin ToSet(got)
             /\ \E c, d \in DOMAIN lru : c < d /\ w[a] = lru[c] /\ w[b] = lru[d]
  <2>1. b \in 1..m
    <3> SUFFICES ASSUME b \notin 1..m PROVE FALSE
      OBVIOUS
    <3>1. b - m \in 1..n /\ m + (b - m) = b
      BY <1>3
    <3>2. w[b] = got[b - m]
      BY <1>3, <3>1
    <3> QED BY <1>3, <1>5, <3>1, <3>2 DEF ToSet
  <2>2. a \in 1..m
    BY <1>3, <1>5, <2>1
  <2>3. w[a] = cold[a] /\ w[b] = cold[b] /\ w[a] \in ToSet(cold)
    BY <1>3, <2>1, <2>2 DEF ToSet
  <2> QED BY <1>1, <1>3, <1>5, <2>1, <2>2, <2>3
<1>6. ToSet(w) = ToSet(lru) \cup ToSet(got)
  BY <1>1, <1>3
<1> QED BY <1>2, <1>3, <1>4, <1>5, <1>6

LEMMA OpenSegmentsInv ==
    ASSUME HandlesInv, NEW keys, IsSequence(keys), Distinct(keys), NEW got,
           got = [i \in 1..Openable(keys) |-> HandleFor(keys[i])], OpenSegments(keys, got),
           limit' = limit
    PROVE  HandlesInv'
<1> DEFINE w == Warmed(got)
           all == ToSet(lru) \cup ToSet(got)
           gone == IF Len(got) = Len(keys) THEN Coldest(w, ToSet(keys)) ELSE {}
<1>1. /\ IsSequence(got) /\ Len(got) \in 0..Len(keys) /\ Distinct(got) /\ OneEach(all)
      /\ Len(got) = Len(keys) => \A h \in all : h.key \in ToSet(keys) => h \in ToSet(got)
  BY GotHandles DEF HandlesInv
<1>2. IsSequence(w) /\ Distinct(w) /\ ToSet(w) = all
  BY <1>1, WarmedIs DEF HandlesInv
<1>3. Len(keys) \in Nat /\ Len(w) \in Nat /\ limit \in Nat /\ room \in Nat
  BY <1>2, SequenceLength DEF HandlesInv
<1>4. /\ lru' = Without(w, gone) /\ open' = all \ gone
      /\ room' = IF Len(got) = Len(keys) THEN Max({limit, Len(keys)}) ELSE Max({room, Len(w)})
  BY DEF OpenSegments, HandlesInv
<1>5. Len(got) = Len(keys) =>
          \/ \A h \in all : h.key \notin ToSet(keys) => h \in gone
          \/ Cardinality(all \ gone) <= limit
  <2> HIDE DEF w, all
  <2>1. ASSUME Len(got) = Len(keys)
        PROVE  \/ \A h \in ToSet(w) : h.key \notin ToSet(keys) => h \in Coldest(w, ToSet(keys))
               \/ Cardinality(ToSet(w) \ Coldest(w, ToSet(keys))) <= limit
    BY <1>2, <1>3, ColdestEnough
  <2> QED BY <1>2, <2>1
<1>6. Len(got) # Len(keys) => gone = {}
  OBVIOUS
<1> HIDE DEF gone, w, all
<1>7. IsSequence(lru') /\ Distinct(lru') /\ ToSet(lru') = all \ gone
  BY <1>2, <1>4, WithoutIs
<1>8. OneEach(open')
  BY <1>1, <1>4 DEF OneEach
<1>9. Len(lru') = Cardinality(all \ gone) /\ Len(lru') \in Nat
  BY <1>7, DistinctCount, SequenceLength
<1>10. CASE Len(got) = Len(keys)
  <2>1. room' \in Nat /\ limit <= room' /\ Len(keys) <= room'
    BY <1>3, <1>4, <1>10, MostOfTwo
  <2>2. ASSUME Cardinality(all \ gone) <= limit PROVE Len(lru') <= room'
    BY <1>3, <1>9, <2>1, <2>2
  <2>3. ASSUME \A h \in all : h.key \notin ToSet(keys) => h \in gone PROVE Len(lru') <= room'
    <3>1. all \ gone \subseteq ToSet(got)
      BY <1>1, <1>10, <2>3
    <3>2. IsFiniteSet(ToSet(got)) /\ Cardinality(ToSet(got)) \in Nat /\ Cardinality(ToSet(got)) <= Len(got)
      BY <1>1, SequenceFinite
    <3>3. Cardinality(all \ gone) <= Cardinality(ToSet(got))
      BY <3>1, <3>2, FS_Subset
    <3>4. Len(lru') <= Len(keys)
      <4> DEFINE c == Cardinality(ToSet(got))
                 l == Len(lru')
      <4>1. c \in Nat /\ l \in Nat /\ Len(keys) \in Nat /\ c <= Len(keys) /\ l <= c
        BY <1>3, <1>9, <1>10, <3>2, <3>3
      <4> HIDE DEF c, l
      <4>2. l <= Len(keys)
        BY <4>1
      <4> QED BY <4>2 DEF l
    <3> QED BY <1>3, <1>9, <2>1, <3>4
  <2>4. Len(lru') <= room'
    BY <1>5, <1>10, <2>2, <2>3
  <2> QED BY <1>3, <1>4, <1>7, <1>8, <2>1, <2>4 DEF HandlesInv
<1>11. CASE Len(got) # Len(keys)
  <2>1. room' \in Nat /\ Len(w) <= room'
    BY <1>3, <1>4, <1>11, MostOfTwo
  <2>2. all \ gone = ToSet(w)
    BY <1>2, <1>6, <1>11
  <2>3. Len(lru') = Len(w)
    BY <1>2, <1>9, <2>2, DistinctCount
  <2> QED BY <1>3, <1>4, <1>7, <1>8, <2>1, <2>3 DEF HandlesInv
<1> QED BY <1>10, <1>11

\* Steps that open and close nothing.
LEMMA StillHandled ==
    ASSUME HandlesInv, UNCHANGED handles, limit' \in Nat
    PROVE  HandlesInv'
BY DEF HandlesInv, handles, IsSequence, Distinct, ToSet, OneEach

LEMMA RetireHandles ==
    ASSUME HandlesInv, NEW t, NEW i, RetireSegment(t, i)
    PROVE  HandlesInv'
<1>1. PICK gone : /\ lru' = Without(lru, gone) /\ open' = open \ gone
                  /\ UNCHANGED <<room, limit>>
  BY DEF RetireSegment
<1>2. /\ IsSequence(lru') /\ Distinct(lru') /\ ToSet(lru') = ToSet(lru) \ gone
  BY <1>1, WithoutIs DEF HandlesInv
<1>3. Len(lru') <= Len(lru) /\ Len(lru) \in Nat /\ Len(lru') \in Nat
  <2>1. Len(lru') = Cardinality(ToSet(lru')) /\ Len(lru) = Cardinality(ToSet(lru))
    BY <1>2, DistinctCount DEF HandlesInv
  <2>2. IsFiniteSet(ToSet(lru))
    BY SequenceFinite DEF HandlesInv
  <2>3. Cardinality(ToSet(lru')) <= Cardinality(ToSet(lru))
    BY <1>2, <2>2, FS_Subset
  <2> QED BY <1>2, <2>1, <2>3, SequenceLength DEF HandlesInv
<1>4. OneEach(open')
  BY <1>1 DEF HandlesInv, OneEach
<1>5. open' = ToSet(lru') /\ limit' \in Nat /\ room' \in Nat
  BY <1>1, <1>2 DEF HandlesInv
<1>6. Len(lru') <= room'
  BY <1>1, <1>3 DEF HandlesInv
<1> QED BY <1>2, <1>4, <1>5, <1>6 DEF HandlesInv

\* What is warm stays warm: from the first handle of hs on, all are in hs.
WarmFrom(s, hs) == \A a, b \in DOMAIN s : a < b /\ s[a] \in hs => s[b] \in hs

\* What a query was given is, as long as it fits, the warmest part of the cache.
SparedInv ==
    /\ smallest \in Nat /\ (~Idle => smallest <= limit)
    /\ IsFiniteSet(DOMAIN opened) /\ IsFiniteSet(Given)
    /\ Fits => Given \subseteq open /\ WarmFrom(lru, Given)

\* A query that has opened nothing.
LEMMA NothingSpared ==
    ASSUME opened' = <<>>, smallest' \in Nat, ~Idle' => smallest' <= limit'
    PROVE  SparedInv'
<1>1. DOMAIN opened' = {} /\ Given' = {}
  BY DEF Given
<1>2. IsFiniteSet({})
  BY FS_EmptySet
<1>3. WarmFrom(lru', {})
  BY DEF WarmFrom
<1> QED BY <1>1, <1>2, <1>3 DEF SparedInv

LEMMA OpenSegmentsSpare ==
    ASSUME HandlesInv, SparedInv, ~Idle, NEW keys, IsSequence(keys), Distinct(keys), NEW got,
           got = [i \in 1..Openable(keys) |-> HandleFor(keys[i])], OpenSegments(keys, got),
           Len(got) = Len(keys), NEW t, t \notin DOMAIN opened,
           DOMAIN opened' = DOMAIN opened \cup {t} /\ opened'[t] = got,
           \A u \in DOMAIN opened : opened'[u] = opened[u],
           UNCHANGED <<limit, smallest>>
    PROVE  SparedInv'
<1> DEFINE w == Warmed(got)
           all == ToSet(lru) \cup ToSet(got)
           gone == Coldest(w, ToSet(keys))
           given == Given \cup ToSet(got)
<1>1. /\ IsSequence(got) /\ Distinct(got) /\ \A h \in ToSet(got) : h.key \in ToSet(keys)
      /\ \A h \in all : h.key \in ToSet(keys) => h \in ToSet(got)
  BY GotHandles DEF HandlesInv
<1>2. /\ IsSequence(w) /\ Distinct(w) /\ ToSet(w) = all
      /\ \A a, b \in DOMAIN w : a < b =>
             \/ w[b] \in ToSet(got)
             \/ /\ w[a] \notin ToSet(got)
                /\ \E c, d \in DOMAIN lru : c < d /\ w[a] = lru[c] /\ w[b] = lru[d]
  BY <1>1, WarmedIs DEF HandlesInv
<1>3. lru' = Without(w, gone) /\ open' = all \ gone
  BY DEF OpenSegments, HandlesInv
<1>4. Given' = given
  <2>1. DOMAIN opened' = DOMAIN opened \cup {t} /\ opened'[t] = got
        /\ \A u \in DOMAIN opened : opened'[u] = opened[u]
    OBVIOUS
  <2>2. ASSUME NEW h \in Given' PROVE h \in given
    <3>1. PICK u \in DOMAIN opened' : h \in ToSet(opened'[u])
      BY DEF Given
    <3>2. CASE u = t
      BY <2>1, <3>1, <3>2
    <3>3. CASE u \in DOMAIN opened
      BY <2>1, <3>1, <3>3 DEF Given
    <3> QED BY <2>1, <3>2, <3>3
  <2>3. ASSUME NEW h \in Given PROVE h \in Given'
    <3>1. PICK u \in DOMAIN opened : h \in ToSet(opened[u])
      BY DEF Given
    <3>2. u \in DOMAIN opened' /\ h \in ToSet(opened'[u])
      BY <2>1, <3>1
    <3> QED BY <3>2 DEF Given
  <2>4. ASSUME NEW h \in ToSet(got) PROVE h \in Given'
    <3>1. t \in DOMAIN opened' /\ h \in ToSet(opened'[t])
      BY <2>1
    <3> QED BY <3>1 DEF Given
  <2> QED BY <2>2, <2>3, <2>4
<1>5. IsFiniteSet(DOMAIN opened') /\ Cardinality(DOMAIN opened') = Cardinality(DOMAIN opened) + 1
      /\ Cardinality(DOMAIN opened) \in Nat
  BY FS_AddElement, FS_CardinalityType DEF SparedInv
<1>6. IsFiniteSet(given)
  BY <1>1, SequenceFinite, FS_Union DEF SparedInv
<1>7. smallest' \in Nat /\ smallest <= limit /\ limit \in Nat /\ smallest' = smallest /\ limit' = limit
  BY DEF SparedInv, HandlesInv
<1> HIDE DEF w, all
<1>8. \A h \in gone : h \in ToSet(w) /\ h.key \notin ToSet(keys)
  BY <1>2, <1>7, ColdestEnough
<1>9. gone \cap ToSet(got) = {}
  BY <1>1, <1>8
<1>10. ASSUME Fits' PROVE Given' \subseteq open' /\ WarmFrom(lru', Given')
  <2>1. Given \subseteq ToSet(lru) /\ WarmFrom(lru, Given) /\ (Given = {} \/ Cardinality(given) <= smallest)
    <3>1. CASE Cardinality(given) <= smallest
      <4>1. Cardinality(Given) \in Nat /\ Cardinality(given) \in Nat /\ Cardinality(Given) <= Cardinality(given)
        BY <1>6, FS_Subset, FS_CardinalityType DEF SparedInv
      <4>2. Cardinality(Given) <= smallest
        BY <1>7, <3>1, <4>1
      <4> QED BY <3>1, <4>2 DEF Fits, SparedInv, HandlesInv
    <3>2. CASE Cardinality(DOMAIN opened') <= 1
      <4>1. Cardinality(DOMAIN opened) = 0
        BY <1>5, <3>2
      <4>2. DOMAIN opened = {}
        BY <4>1, FS_EmptySet DEF SparedInv
      <4>3. Given = {}
        BY <4>2 DEF Given
      <4> QED BY <4>3 DEF WarmFrom
    <3> QED BY <1>4, <1>7, <1>10, <3>1, <3>2 DEF Fits
  <2>2. given \subseteq ToSet(w)
    BY <1>2, <2>1 DEF all
  <2>3. WarmFrom(w, given)
    <3> SUFFICES ASSUME NEW a \in DOMAIN w, NEW b \in DOMAIN w, a < b, w[a] \in given, w[b] \notin ToSet(got)
                 PROVE  w[b] \in Given
      BY DEF WarmFrom
    <3>1. PICK c, d \in DOMAIN lru : c < d /\ w[a] = lru[c] /\ w[b] = lru[d]
      BY <1>2
    <3>2. w[a] \in Given
      BY <1>2
    <3> QED BY <2>1, <3>1, <3>2 DEF WarmFrom
  <2>4. gone \cap given = {}
    <3>1. CASE Given = {}
      BY <1>9, <3>1
    <3>2. CASE Cardinality(given) <= smallest
      <4>1. Cardinality(given) <= limit
        BY <1>6, <1>7, <3>2, FS_CardinalityType
      <4>2. \A h \in ToSet(w) : h.key \in ToSet(keys) => h \in given
        BY <1>1, <1>2
      <4>3. \A a, b \in DOMAIN w : a < b /\ w[a] \in given => w[b] \in given
        BY <2>3 DEF WarmFrom
      <4> HIDE DEF given
      <4> QED BY <1>2, <1>7, <2>2, <4>1, <4>2, <4>3, ColdestSpares
    <3> QED BY <2>1, <3>1, <3>2
  <2>5. given \subseteq open'
    BY <1>2, <1>3, <2>2, <2>4
  <2> HIDE DEF given, gone
  <2>6. WarmFrom(lru', given)
    <3> SUFFICES ASSUME NEW a \in DOMAIN lru', NEW b \in DOMAIN lru', a < b, lru'[a] \in given
                 PROVE  lru'[b] \in given
      BY DEF WarmFrom
    <3>1. PICK c, d \in DOMAIN w : c < d /\ lru'[a] = w[c] /\ lru'[b] = w[d]
      BY <1>2, <1>3, WithoutIs
    <3> QED BY <2>3, <3>1 DEF WarmFrom
  <2> QED BY <1>4, <2>5, <2>6
<1> QED BY <1>4, <1>5, <1>6, <1>7, <1>10 DEF SparedInv

\* The entries of a snapshot differ.
LEMMA SnapshotIsDistinct ==
    ASSUME SnapshotsOK, KeysInv, NEW t \in Tables, NEW ts \in Nat
    PROVE  Distinct(EntriesAt(t, ts))
<1>1. Len(snapshots) \in Nat /\ DOMAIN snapshots = 1..Len(snapshots) /\ Now \in Nat
  BY SequenceLength DEF SnapshotsOK, Now
<1>2. Min({ts, Now}) + 1 \in DOMAIN snapshots
  <2>1. Min({ts, Now}) \in 0..Now
    BY <1>1, LeastOfTwo
  <2> QED BY <1>1, <2>1 DEF Now
<1>3. EntriesOK(EntriesAt(t, ts))
  BY <1>2 DEF KeysInv, EntriesAt
<1> QED BY <1>3 DEF EntriesOK, Distinct

OpenInv == ReadInv /\ KeysInv /\ HandlesInv /\ SparedInv

\* A reference resolved: the first of its table opens, the others are given the same.
LEMMA ResolveOpen ==
    ASSUME OpenInv, ~Idle, NEW ref \in Refs, ResolveScan(ref), UNCHANGED <<store, limit, smallest>>
    PROVE  OpenInv'
<1> DEFINE t == ref.table
           keys == EntriesAt(t, TsOf(ref))
           got == [i \in 1..Openable(keys) |-> HandleFor(keys[i])]
<1>1. ReadInv'
  BY ResolveInv DEF OpenInv, store
<1>2. KeysInv'
  <2>1. snapshots' = snapshots /\ KeysInv
    BY DEF OpenInv, store
  <2> QED BY ONLY <2>1 DEF KeysInv, PathsOf
<1>3. t \in Tables /\ TsOf(ref) \in Nat
  <2>1. ref \in References
    BY PlanRefs DEF OpenInv, ReadInv
  <2> QED BY <2>1 DEF References, TsOf, OpenInv, ReadInv, QueryOK
<1>4. IsSequence(keys) /\ Distinct(keys)
  BY <1>3, SnapshotIsSequence, SnapshotIsDistinct DEF OpenInv, ReadInv
<1>5. CASE t \in DOMAIN opened
  <2>1. UNCHANGED <<lru, open, room, query, opened>>
    BY <1>5 DEF ResolveScan, handles
  <2>2. HandlesInv'
    BY <2>1, StillHandled DEF OpenInv, HandlesInv, handles
  <2>3. SparedInv'
    BY <2>1 DEF OpenInv, SparedInv, Fits, Given, Idle, WarmFrom
  <2> QED BY <1>1, <1>2, <2>2, <2>3 DEF OpenInv
<1>6. CASE t \notin DOMAIN opened
  <2>1. OpenSegments(keys, got)
    BY <1>6 DEF ResolveScan
  <2>2. HandlesInv'
    <3> DEFINE g == got
    <3>1. g = [i \in 1..Openable(keys) |-> HandleFor(keys[i])] /\ OpenSegments(keys, g)
      BY <2>1
    <3> HIDE DEF g, keys
    <3> QED BY <1>4, <3>1, OpenSegmentsInv DEF OpenInv
  <2>3. SparedInv'
    <3>1. CASE Len(got) = Len(keys)
      <4>1. opened' = [u \in DOMAIN opened \cup {t} |-> IF u = t THEN got ELSE opened[u]]
        BY <1>6, <3>1 DEF ResolveScan
      <4> DEFINE g == got
      <4>2. g = [i \in 1..Openable(keys) |-> HandleFor(keys[i])] /\ OpenSegments(keys, g) /\ Len(g) = Len(keys)
        BY <2>1, <3>1
      <4>3. opened' = [u \in DOMAIN opened \cup {t} |-> IF u = t THEN g ELSE opened[u]]
        BY <4>1
      <4> HIDE DEF g, keys, t
      <4>4. DOMAIN opened' = DOMAIN opened \cup {t} /\ opened'[t] = g
            /\ \A u \in DOMAIN opened : opened'[u] = opened[u]
        BY <1>6, <4>3
      <4> QED BY <1>4, <1>6, <4>2, <4>4, OpenSegmentsSpare DEF OpenInv
    <3>2. CASE Len(got) # Len(keys)
      <4>1. EndQuery("error")
        BY <1>6, <3>2 DEF ResolveScan
      <4> QED BY <4>1, NothingSpared DEF EndQuery, Idle, OpenInv, SparedInv
    <3> QED BY <3>1, <3>2
  <2> QED BY <1>1, <1>2, <2>2, <2>3 DEF OpenInv
<1> QED BY <1>5, <1>6

LEMMA InitOpenInv == ASSUME CacheAssumption, CacheInit PROVE OpenInv
<1>1. ReadInv
  BY InitReadInv
<1>2. KeysInv
  <2> DEFINE none == [t \in Tables |-> <<>>]
  <2>1. snapshots = <<none>> /\ DOMAIN <<none>> = {1} /\ <<none>>[1] = none
    BY DEF CacheInit
  <2>2. EntriesOK(<<>>)
    BY DEF EntriesOK
  <2>3. \A t \in Tables : PathsOf(t) = {}
    BY <2>1 DEF PathsOf, ToSet
  <2>4. \A t : PathsUpTo(t, 0) = {}
    BY DEF PathsUpTo
  <2>5. \A i \in DOMAIN snapshots : \A t \in Tables : snapshots[i][t] = <<>>
    BY <2>1
  <2> QED BY <2>2, <2>3, <2>4, <2>5 DEF KeysInv
<1>3. limit \in Nat /\ smallest = limit
  BY DEF CacheInit, CacheAssumption
<1>4. HandlesInv
  <2>1. lru = <<>> /\ open = {} /\ room = 0
    BY DEF CacheInit
  <2>2. IsSequence(<<>>) /\ Len(<<>>) = 0 /\ DOMAIN <<>> = {}
    BY DEF IsSequence
  <2> QED BY <1>3, <2>1, <2>2 DEF HandlesInv, Distinct, ToSet, OneEach
<1>5. SparedInv
  <2>1. opened = <<>> /\ DOMAIN opened = {} /\ Given = {}
    BY DEF CacheInit, Given
  <2> QED BY <1>3, <2>1, FS_EmptySet DEF SparedInv, WarmFrom
<1> QED BY <1>1, <1>2, <1>4, <1>5 DEF OpenInv

\* Statements: no query runs, and only RetireSegment touches the cache.
LEMMA StatementOpenInv ==
    ASSUME OpenInv, NEW t \in Tables,
           \/ InsertSegment(t)
           \/ \E i \in DOMAIN snapshots[Now + 1][t] : DeleteRows(t, i) \/ RetireSegment(t, i)
    PROVE  OpenInv'
<1>1. ReadInv'
  BY InsertReadInv, DeleteReadInv, RetireReadInv DEF OpenInv
<1>2. KeysInv'
  BY InsertKeys, DeleteKeys, RetireKeys DEF OpenInv, ReadInv
<1>3. Idle /\ UNCHANGED <<limit, run, smallest>>
  BY DEF InsertSegment, DeleteRows, RetireSegment
<1>4. HandlesInv'
  <2>1. CASE UNCHANGED handles
    BY <1>3, <2>1, StillHandled DEF OpenInv, HandlesInv
  <2>2. CASE \E i \in DOMAIN snapshots[Now + 1][t] : RetireSegment(t, i)
    BY <2>2, RetireHandles DEF OpenInv
  <2> QED BY <2>1, <2>2 DEF InsertSegment, DeleteRows
<1>5. opened' = <<>> /\ Idle'
  BY <1>3 DEF OpenInv, ReadInv, QueryOK, run, Idle
<1>6. SparedInv'
  BY <1>3, <1>5, NothingSpared DEF OpenInv, SparedInv
<1> QED BY <1>1, <1>2, <1>4, <1>6 DEF OpenInv

\* SetCacheSize closes nothing, and lowers what the running query may count on.
LEMMA SetCacheSizeOpenInv ==
    ASSUME CacheAssumption, OpenInv, NEW n \in CacheSizes, SetCacheSize(n)
    PROVE  OpenInv'
<1>1. n \in Nat /\ limit' = n /\ smallest' = IF Idle THEN n ELSE Min({smallest, n})
  BY DEF CacheAssumption, SetCacheSize
<1>2. UNCHANGED <<snapshots, stored, handles, lru, open, room, query, at, readTs, opened, held, ended>>
  BY DEF SetCacheSize, store, handles, run
<1>3. ReadInv' /\ KeysInv' /\ HandlesInv'
  <2>1. ReadInv'
    BY <1>2, StillReads DEF OpenInv, run
  <2>2. KeysInv'
    BY <1>2 DEF OpenInv, KeysInv, PathsOf
  <2> QED BY <1>1, <1>2, <2>1, <2>2, StillHandled DEF OpenInv
<1>4. SparedInv'
  <2>1. CASE Idle
    <3>1. opened' = <<>> /\ Idle'
      BY <1>2, <2>1 DEF OpenInv, ReadInv, QueryOK, Idle
    <3> QED BY <1>1, <2>1, <3>1, NothingSpared
  <2>2. CASE ~Idle
    <3>1. smallest' \in Nat /\ smallest' <= n /\ smallest' <= smallest /\ smallest \in Nat
      <4>1. smallest \in Nat /\ smallest' = Min({smallest, n}) /\ Min({smallest, n}) = Min({n, smallest})
        BY <1>1, <2>2 DEF OpenInv, SparedInv
      <4>2. Min({smallest, n}) \in 0..n /\ Min({n, smallest}) \in 0..smallest
        BY <1>1, <4>1, LeastOfTwo
      <4> QED BY <1>1, <4>1, <4>2
    <3>2. Given' = Given /\ IsFiniteSet(Given) /\ IsFiniteSet(DOMAIN opened)
      BY <1>2 DEF Given, OpenInv, SparedInv
    <3>3. Fits' => Fits
      BY <1>2, <3>1, <3>2, FS_CardinalityType DEF Fits
    <3> QED BY <1>1, <1>2, <3>1, <3>2, <3>3 DEF OpenInv, SparedInv, WarmFrom
  <2> QED BY <2>1, <2>2
<1> QED BY <1>3, <1>4 DEF OpenInv

\* Steps of a query that open and close nothing.
LEMMA QueryOpenInv ==
    ASSUME QueriesAssumption, OpenInv,
           (\E q \in Queries, ts \in 0..Now : StartQuery(q, ts)) \/ ReadFails \/ FinishPlan
    PROVE  OpenInv'
<1>1. ReadInv'
  BY StartQueryReadInv, ReadFailsReadInv, FinishPlanReadInv DEF OpenInv
<1>2. UNCHANGED <<snapshots, handles, lru, open, room, limit>>
  BY DEF StartQuery, ReadFails, FinishPlan, store, handles
<1>3. KeysInv'
  BY <1>2 DEF OpenInv, KeysInv, PathsOf
<1>4. HandlesInv'
  BY <1>2, StillHandled DEF OpenInv, HandlesInv
<1>5. SparedInv'
  <2>1. CASE \E q \in Queries, ts \in 0..Now : StartQuery(q, ts)
    <3>1. opened' = <<>> /\ smallest' = limit /\ limit \in Nat
      BY <2>1 DEF StartQuery, OpenInv, HandlesInv
    <3> QED BY <1>2, <3>1, NothingSpared
  <2>2. CASE \E how : EndQuery(how) /\ UNCHANGED smallest
    BY <2>2, NothingSpared DEF EndQuery, Idle, OpenInv, SparedInv
  <2>3. CASE UNCHANGED <<query, opened, smallest>>
    BY <1>2, <2>3 DEF OpenInv, SparedInv, Fits, Given, Idle, WarmFrom
  <2> QED BY <2>1, <2>2, <2>3 DEF ReadFails, FinishPlan
<1> QED BY <1>1, <1>3, <1>4, <1>5 DEF OpenInv

LEMMA NextOpenInv ==
    ASSUME QueriesAssumption, CacheAssumption, OpenInv, [CacheNext]_cacheVars
    PROVE  OpenInv'
<1>1. CASE UNCHANGED cacheVars
  <2>1. UNCHANGED <<snapshots, stored, handles, lru, open, room, query, at, readTs, opened, held, ended, limit, smallest>>
    BY <1>1 DEF cacheVars, store, handles, run
  <2>2. ReadInv'
    BY <2>1, StillReads DEF OpenInv, run
  <2>3. KeysInv'
    BY <2>1 DEF OpenInv, KeysInv, PathsOf
  <2>4. HandlesInv'
    BY <2>1, StillHandled DEF OpenInv, HandlesInv
  <2>5. SparedInv'
    BY <2>1 DEF OpenInv, SparedInv, Fits, Given, Idle, WarmFrom
  <2> QED BY <2>2, <2>3, <2>4, <2>5 DEF OpenInv
<1>2. CASE BuildScan
  <2> DEFINE n == Len(held) + 1
  <2>1. ~Idle /\ ~Built /\ ResolveScan(Plan.from[n]) /\ UNCHANGED <<store, limit, smallest>>
    BY <1>2 DEF BuildScan
  <2>2. Len(held) \in Nat /\ Len(Plan.from) \in Nat
    BY <2>1, PlanRefs, SequenceLength DEF OpenInv, ReadInv, ResolvedOK
  <2>3. n \in 1..Len(Plan.from)
    BY <2>1, <2>2 DEF Built
  <2>4. Plan.from[n] \in Refs
    BY <2>1, <2>3, PlanRefs DEF OpenInv, ReadInv
  <2> QED BY <2>1, <2>4, ResolveOpen
<1>3. ASSUME NEW i \in DOMAIN Plan.correlated, BuildCorrelated(i) PROVE OpenInv'
  <2>1. ~Idle /\ ResolveScan(Plan.correlated[i]) /\ UNCHANGED <<store, limit, smallest>>
    BY <1>3 DEF BuildCorrelated
  <2>2. Plan.correlated[i] \in Refs
    BY <2>1, PlanRefs DEF OpenInv, ReadInv
  <2> QED BY <2>1, <2>2, ResolveOpen
<1> QED BY <1>1, <1>2, <1>3, StatementOpenInv, SetCacheSizeOpenInv, QueryOpenInv DEF CacheNext

\* The cache is all there is of open files, each of them once, and never more
\* than the limit or one snapshot (or one snapshot that could not be opened to its
\* end) needs: for any tables, queries and limits (segmentCache.add,
\* evictExcept and removeByPath under openSegmentsAt and SetCacheSize).
THEOREM OpenFilesAreCached ==
    ASSUME QueriesAssumption, CacheAssumption PROVE CacheSpec => []OpenHandlesBounded
<1>1. CacheInit => OpenInv
  BY InitOpenInv
<1>2. OpenInv /\ [CacheNext]_cacheVars => OpenInv'
  BY NextOpenInv
<1>3. OpenInv => OpenHandlesBounded
  BY DistinctCount DEF OpenInv, HandlesInv, OneEach, OpenHandlesBounded
<1> QED BY <1>1, <1>2, <1>3, PTL DEF CacheSpec

\* No handle of a running plan is closed before it is read, whatever a later
\* reference, a correlated subquery or SetCacheSize evicts, as long as what the
\* query was given fits the least limit there was meanwhile (evictExcept).
THEOREM EvictionSparesTheQuery ==
    ASSUME QueriesAssumption, CacheAssumption PROVE CacheSpec => []HandlesStayOpen
<1>1. CacheInit => OpenInv
  BY InitOpenInv
<1>2. OpenInv /\ [CacheNext]_cacheVars => OpenInv'
  BY NextOpenInv
<1>3. OpenInv => HandlesStayOpen
  <2> SUFFICES ASSUME OpenInv, Fits, NEW k \in DOMAIN held
               PROVE  ToSet(held[k].handles) \subseteq open
    BY DEF HandlesStayOpen
  <2>1. held[k].ref.table \in DOMAIN opened /\ held[k].handles = opened[held[k].ref.table]
    BY DEF OpenInv, ReadInv, ResolvedOK
  <2>2. ToSet(held[k].handles) \subseteq Given
    BY <2>1 DEF Given
  <2> QED BY <2>2 DEF OpenInv, SparedInv
<1> QED BY <1>1, <1>2, <1>3, PTL DEF CacheSpec

-----------------------------------------------------------------------------
(* The types of the cache *)

\* What the shapes of CacheTypeOK rest on that OpenInv does not say.
ShapesInv ==
    /\ stored \subseteq Tables \X Nat /\ open \subseteq CachedHandles
    /\ limit \in CacheSizes /\ smallest \in CacheSizes
    /\ readTs \in 0..Now /\ at \in 0..Len(query)
    /\ DOMAIN opened \subseteq Tables /\ \A t \in DOMAIN opened : opened[t] \in Seq(CachedHandles)
    /\ ended \in {"none", "rows", "error"}

\* One generation more than there are handles: one of them is unused.
LEMMA HandleTypes ==
    ASSUME IsFiniteSet(Known), open = ToSet(lru), open \subseteq CachedHandles, NEW key \in CacheKeys
    PROVE  HandleFor(key) \in CachedHandles
<1> DEFINE cached == {h \in ToSet(lru) : h.key = key}
           n == Cardinality(Known)
           handle(g) == [key |-> key, gen |-> g]
           unused == {g \in 0..n : handle(g) \notin Known}
<1>1. CASE cached # {}
  <2>1. (CHOOSE h \in cached : TRUE) \in cached
    BY <1>1
  <2>2. HandleFor(key) = CHOOSE h \in cached : TRUE
    BY <1>1 DEF HandleFor
  <2> QED BY <2>1, <2>2
<1>2. CASE cached = {}
  <2>1. HandleFor(key) = [key |-> key, gen |-> Min(unused)]
    BY <1>2 DEF HandleFor
  <2>2. n \in Nat
    BY FS_CardinalityType
  <2>3. unused # {}
    <3> SUFFICES ASSUME \A g \in 0..n : handle(g) \in Known PROVE FALSE
      OBVIOUS
    <3> DEFINE s == [j \in 1..(n + 1) |-> handle(j - 1)]
    <3>1. s = [j \in 1..(n + 1) |-> s[j]] /\ n + 1 \in Nat
      BY <2>2
    <3>2. IsSequence(s) /\ Len(s) = n + 1
      <4> HIDE DEF s, n
      <4> QED BY <3>1, Listing
    <3>3. Distinct(s)
      <4> SUFFICES ASSUME NEW a \in 1..(n + 1), NEW b \in 1..(n + 1), s[a] = s[b] PROVE a = b
        BY DEF Distinct
      <4>1. handle(a - 1).gen = handle(b - 1).gen
        OBVIOUS
      <4> QED BY <2>2, <4>1
    <3>4. ToSet(s) \subseteq Known
      <4> SUFFICES ASSUME NEW j \in 1..(n + 1) PROVE handle(j - 1) \in Known
        BY DEF ToSet
      <4>1. j - 1 \in 0..n
        BY <2>2
      <4> QED BY <4>1
    <3> HIDE DEF s
    <3>5. Cardinality(ToSet(s)) <= Cardinality(Known)
      BY <3>4, FS_Subset
    <3>6. Cardinality(ToSet(s)) = n + 1
      BY <3>2, <3>3, DistinctCount
    <3> QED BY <2>2, <3>5, <3>6
  <2>4. unused \subseteq Nat
    BY <2>2
  <2> HIDE DEF unused
  <2>5. Min(unused) \in Nat
    BY <2>3, <2>4, MinOfSome
  <2> QED BY <2>1, <2>5 DEF CachedHandles
<1> QED BY <1>1, <1>2

LEMMA KnownFinite == ASSUME OpenInv PROVE IsFiniteSet(Known)
<1>1. IsFiniteSet(open) /\ IsFiniteSet(Given)
  BY SequenceFinite DEF OpenInv, HandlesInv, SparedInv
<1> QED BY <1>1, FS_Union DEF Known

\* The entries of a snapshot, and what was opened of them.
LEMMA OpenedTypes ==
    ASSUME OpenInv, open \subseteq CachedHandles, NEW t \in Tables, NEW ts \in Nat,
           NEW keys, keys = EntriesAt(t, ts),
           NEW got, got = [i \in 1..Openable(keys) |-> HandleFor(keys[i])]
    PROVE  got \in Seq(CachedHandles)
<1>1. Len(snapshots) \in Nat /\ DOMAIN snapshots = 1..Len(snapshots) /\ Now \in Nat
  BY SequenceLength DEF OpenInv, ReadInv, SnapshotsOK, Now
<1>2. Min({ts, Now}) + 1 \in DOMAIN snapshots
  <2>1. Min({ts, Now}) \in 0..Now
    BY <1>1, LeastOfTwo
  <2> QED BY <1>1, <2>1 DEF Now
<1>3. keys \in Seq(CacheKeys)
  BY <1>2 DEF OpenInv, KeysInv, EntriesOK, EntriesAt
<1>4. Openable(keys) \in 0..Len(keys) /\ Len(keys) \in Nat /\ DOMAIN keys = 1..Len(keys)
  BY <1>3, AnySequence, OpenableLength
<1>5. \A i \in 1..Openable(keys) : HandleFor(keys[i]) \in CachedHandles
  <2> SUFFICES ASSUME NEW i \in 1..Openable(keys) PROVE HandleFor(keys[i]) \in CachedHandles
    OBVIOUS
  <2>1. keys[i] \in CacheKeys
    BY <1>3, <1>4
  <2> QED BY <2>1, KnownFinite, HandleTypes DEF OpenInv, HandlesInv
<1>6. got \in [1..Openable(keys) -> CachedHandles] /\ Openable(keys) \in Nat
  BY <1>4, <1>5
<1> QED BY <1>6

\* A query that ended or has not begun to open.
LEMMA NothingShaped ==
    ASSUME OpenInv, ShapesInv, open' \subseteq CachedHandles, UNCHANGED <<snapshots, stored, limit>>,
           smallest' \in CacheSizes, opened' = <<>>, readTs' \in 0..Now, at' \in 0..Len(query'),
           ended' \in {"none", "rows", "error"}
    PROVE  ShapesInv'
<1>1. DOMAIN opened' = {}
  OBVIOUS
<1> QED BY <1>1 DEF ShapesInv, Now

LEMMA EndShapes ==
    ASSUME OpenInv, ShapesInv, open' \subseteq CachedHandles, UNCHANGED <<snapshots, stored, limit, smallest>>,
           NEW how \in {"rows", "error"}, EndQuery(how)
    PROVE  ShapesInv'
<1>1. Now \in Nat
  BY SequenceLength DEF OpenInv, ReadInv, SnapshotsOK, Now
<1>2. opened' = <<>> /\ readTs' = 0 /\ at' = 0 /\ Len(query') = 0 /\ ended' = how
  BY DEF EndQuery
<1> QED BY <1>1, <1>2, NothingShaped DEF ShapesInv

LEMMA ResolveShapes ==
    ASSUME OpenInv, ShapesInv, ~Idle, NEW ref \in Refs, ResolveScan(ref), UNCHANGED <<store, limit, smallest>>
    PROVE  ShapesInv'
<1> DEFINE t == ref.table
           keys == EntriesAt(t, TsOf(ref))
           got == [i \in 1..Openable(keys) |-> HandleFor(keys[i])]
<1>1. t \in Tables /\ TsOf(ref) \in Nat
  <2>1. ref \in References
    BY PlanRefs DEF OpenInv, ReadInv
  <2> QED BY <2>1 DEF References, TsOf, OpenInv, ReadInv, QueryOK
<1>2. UNCHANGED <<snapshots, stored, limit, smallest>> /\ Now' = Now
  BY DEF store, Now
<1>3. CASE t \in DOMAIN opened
  <2>1. UNCHANGED <<open, query, at, readTs, opened, ended>>
    BY <1>3 DEF ResolveScan, handles
  <2> QED BY <1>2, <2>1 DEF ShapesInv
<1>4. CASE t \notin DOMAIN opened
  <2>1. got \in Seq(CachedHandles)
    BY <1>1, OpenedTypes DEF ShapesInv
  <2>2. OpenSegments(keys, got)
    BY <1>4 DEF ResolveScan
  <2>3. open' \subseteq CachedHandles
    <3>1. open' \subseteq open \cup ToSet(got)
      BY <2>2 DEF OpenSegments
    <3>2. ToSet(got) \subseteq CachedHandles
      <4> HIDE DEF got
      <4> QED BY <2>1 DEF ToSet
    <3> QED BY <3>1, <3>2 DEF ShapesInv
  <2>4. CASE Len(got) = Len(keys)
    <3>1. /\ opened' = [u \in DOMAIN opened \cup {t} |-> IF u = t THEN got ELSE opened[u]]
          /\ UNCHANGED <<query, at, readTs, ended>>
      BY <1>4, <2>4 DEF ResolveScan
    <3> HIDE DEF got, t
    <3> QED BY <1>1, <1>2, <2>1, <2>3, <3>1 DEF ShapesInv
  <2>5. CASE Len(got) # Len(keys)
    <3>1. EndQuery("error")
      BY <1>4, <2>5 DEF ResolveScan
    <3> QED BY <1>2, <2>3, <3>1, EndShapes
  <2> QED BY <2>4, <2>5
<1> QED BY <1>3, <1>4

LEMMA StatementShapes ==
    ASSUME OpenInv, ShapesInv, NEW t \in Tables,
           \/ InsertSegment(t)
           \/ \E i \in DOMAIN snapshots[Now + 1][t] : DeleteRows(t, i) \/ RetireSegment(t, i)
    PROVE  ShapesInv'
<1>1. PICK entries : CommitEntries(t, entries)
  BY DEF InsertSegment, DeleteRows, RetireSegment
<1>2. UNCHANGED <<limit, smallest, query, at, readTs, opened, ended>> /\ open' \subseteq open
  BY DEF InsertSegment, DeleteRows, RetireSegment, run, handles
<1>3. Now \in Nat /\ Now' \in Nat /\ Now <= Now'
  <2>1. IsSequence(snapshots) /\ Len(snapshots) \in Nat /\ Len(snapshots) >= 1
    BY SequenceLength DEF OpenInv, ReadInv, SnapshotsOK
  <2>2. Len(snapshots') = Len(snapshots) + 1
    BY <1>1, <2>1, Appending DEF CommitEntries
  <2> QED BY <2>1, <2>2 DEF Now
<1>4. stored' \subseteq Tables \X Nat
  <2>1. CASE InsertSegment(t)
    <3>1. PICK n \in Nat : PathsOf(t) = PathsUpTo(t, n)
      BY DEF OpenInv, KeysInv
    <3>2. stored' = stored \cup {<<t, n + 1>>}
      BY <2>1, <3>1, PathCount DEF InsertSegment
    <3> QED BY <3>2 DEF ShapesInv
  <2>2. CASE ~InsertSegment(t)
    <3>1. stored' \subseteq stored
      BY <2>2 DEF DeleteRows, RetireSegment
    <3> QED BY <3>1 DEF ShapesInv
  <2> QED BY <2>1, <2>2
<1> QED BY <1>2, <1>3, <1>4 DEF ShapesInv

LEMMA SetCacheSizeShapes ==
    ASSUME CacheAssumption, OpenInv, ShapesInv, NEW n \in CacheSizes, SetCacheSize(n)
    PROVE  ShapesInv'
<1>1. limit' = n /\ smallest' \in {n, Min({smallest, n})}
  BY DEF SetCacheSize
<1>2. smallest' \in CacheSizes
  <2>1. {smallest, n} \subseteq Nat /\ {smallest, n} # {} /\ {smallest, n} \subseteq CacheSizes
    BY DEF ShapesInv, CacheAssumption
  <2>2. Min({smallest, n}) \in {smallest, n}
    BY <2>1, MinOfSome
  <2> QED BY <1>1, <2>1, <2>2
<1>3. UNCHANGED <<snapshots, stored, open, query, at, readTs, opened, ended>>
  BY DEF SetCacheSize, store, handles, run
<1> QED BY <1>1, <1>2, <1>3 DEF ShapesInv, Now

\* Steps of a query that open and close nothing.
LEMMA QueryShapes ==
    ASSUME QueriesAssumption, OpenInv, ShapesInv,
           (\E q \in Queries, ts \in 0..Now : StartQuery(q, ts)) \/ ReadFails \/ FinishPlan
    PROVE  ShapesInv'
<1>1. UNCHANGED <<snapshots, stored, open, limit>>
  BY DEF StartQuery, ReadFails, FinishPlan, store, handles
<1>2. ASSUME NEW q \in Queries, NEW ts \in 0..Now, StartQuery(q, ts) PROVE ShapesInv'
  <2>1. query' = q /\ at' = 1 /\ readTs' = ts /\ opened' = <<>> /\ ended' = "none" /\ smallest' = limit
    BY <1>2 DEF StartQuery
  <2>2. 1 \in 0..Len(q)
    BY DEF QueriesAssumption
  <2> QED BY <1>1, <2>1, <2>2, NothingShaped DEF ShapesInv
<1>3. ASSUME NEW how \in {"rows", "error"}, EndQuery(how), UNCHANGED smallest PROVE ShapesInv'
  BY <1>1, <1>3, EndShapes DEF ShapesInv
<1>4. ASSUME ~Idle, at # Len(query), at' = at + 1, UNCHANGED <<query, readTs, opened, ended, smallest>>
      PROVE  ShapesInv'
  <2>1. Len(query) \in Nat /\ at \in 1..Len(query)
    BY <1>4 DEF OpenInv, ReadInv, QueryOK
  <2>2. at' \in 0..Len(query')
    BY <1>4, <2>1
  <2> QED BY <1>1, <1>4, <2>2 DEF ShapesInv, Now
<1> QED BY <1>2, <1>3, <1>4 DEF ReadFails, FinishPlan

LEMMA NextShapes ==
    ASSUME QueriesAssumption, CacheAssumption, OpenInv, ShapesInv, [CacheNext]_cacheVars
    PROVE  ShapesInv'
<1>1. CASE UNCHANGED cacheVars
  <2>1. UNCHANGED <<snapshots, stored, open, query, at, readTs, opened, ended, limit, smallest>>
    BY <1>1 DEF cacheVars, store, handles, run
  <2> QED BY <2>1 DEF ShapesInv, Now
<1>2. CASE BuildScan
  <2> DEFINE n == Len(held) + 1
  <2>1. ~Idle /\ ~Built /\ ResolveScan(Plan.from[n]) /\ UNCHANGED <<store, limit, smallest>>
    BY <1>2 DEF BuildScan
  <2>2. Len(held) \in Nat /\ Len(Plan.from) \in Nat
    BY <2>1, PlanRefs, SequenceLength DEF OpenInv, ReadInv, ResolvedOK
  <2>3. n \in 1..Len(Plan.from)
    BY <2>1, <2>2 DEF Built
  <2>4. Plan.from[n] \in Refs
    BY <2>1, <2>3, PlanRefs DEF OpenInv, ReadInv
  <2> QED BY <2>1, <2>4, ResolveShapes
<1>3. ASSUME NEW i \in DOMAIN Plan.correlated, BuildCorrelated(i) PROVE ShapesInv'
  <2>1. ~Idle /\ ResolveScan(Plan.correlated[i]) /\ UNCHANGED <<store, limit, smallest>>
    BY <1>3 DEF BuildCorrelated
  <2>2. Plan.correlated[i] \in Refs
    BY <2>1, PlanRefs DEF OpenInv, ReadInv
  <2> QED BY <2>1, <2>2, ResolveShapes
<1> QED BY <1>1, <1>2, <1>3, StatementShapes, SetCacheSizeShapes, QueryShapes DEF CacheNext

\* The cache, the snapshots and the resolver keep their types: in particular
\* a query stands at one of its plans and reads at a timestamp that was
\* committed, and a handle it was given is one of a segment file (OpenSegmentWithDV,
\* cachedSegmentResolver and SetCacheSize).
THEOREM CacheTypes == ASSUME QueriesAssumption, CacheAssumption PROVE CacheSpec => []CacheTypeOK
<1>1. CacheInit => OpenInv /\ ShapesInv
  <2> SUFFICES ASSUME CacheInit PROVE OpenInv /\ ShapesInv
    OBVIOUS
  <2>1. OpenInv
    BY InitOpenInv
  <2>2. Len(snapshots) \in Nat /\ Len(snapshots) >= 1 /\ Now \in Nat
    BY <2>1, SequenceLength DEF OpenInv, ReadInv, SnapshotsOK, Now
  <2>3. query = <<>> /\ opened = <<>> /\ DOMAIN opened = {} /\ Len(query) = 0
    BY DEF CacheInit
  <2> QED BY <2>1, <2>2, <2>3 DEF CacheInit, ShapesInv
<1>2. (OpenInv /\ ShapesInv) /\ [CacheNext]_cacheVars => (OpenInv /\ ShapesInv)'
  BY NextOpenInv, NextShapes
<1>3. OpenInv /\ ShapesInv => CacheTypeOK
  <2> SUFFICES ASSUME OpenInv, ShapesInv PROVE CacheTypeOK
    OBVIOUS
  <2>1. snapshots \in Seq([Tables -> Seq(CacheKeys)]) /\ Now >= 0
    <3>1. ASSUME NEW i \in DOMAIN snapshots PROVE snapshots[i] \in [Tables -> Seq(CacheKeys)]
      BY DEF OpenInv, ReadInv, SnapshotsOK, KeysInv, EntriesOK
    <3> QED BY <3>1, SequenceOver, SequenceLength DEF OpenInv, ReadInv, SnapshotsOK, Now
  <2>2. lru \in Seq(CachedHandles)
    <3>1. \A i \in DOMAIN lru : lru[i] \in CachedHandles
      BY DEF OpenInv, HandlesInv, ShapesInv, ToSet
    <3> QED BY <3>1, SequenceOver DEF OpenInv, HandlesInv
  <2>3. \A k \in DOMAIN held : held[k].handles \in Seq(CachedHandles)
    BY DEF OpenInv, ReadInv, ResolvedOK, ShapesInv
  <2> QED BY <2>1, <2>2, <2>3 DEF OpenInv, HandlesInv, ShapesInv, CacheTypeOK
<1> QED BY <1>1, <1>2, <1>3, PTL DEF CacheSpec

-----------------------------------------------------------------------------
(* The workers of a scan: the inductive invariant                            *)

\* Segments of a share are read one after the other, none past its end.
InTurn == \A s \in DOMAIN Segments :
             /\ taken[s] <= sent[s] /\ sent[s] <= Segments[s]
             /\ sent[s] > 0 => \A r \in Earlier(s) : sent[r] = Segments[r]

\* While the consumer pulls, the channel holds exactly what was sent and not
\* taken, in the order of each share.
Queued == pc = "pulling" =>
    /\ \A i \in 1..Len(out) : taken[out[i][1]] < out[i][2] /\ out[i][2] <= sent[out[i][1]]
    /\ \A i, j \in 1..Len(out) : i < j =>
          /\ out[i][1] = out[j][1] => out[i][2] < out[j][2]
          /\ WorkerOf(out[i][1]) = WorkerOf(out[j][1]) => out[i][1] <= out[j][1]
    /\ \A s \in DOMAIN Segments : \A k \in (taken[s] + 1)..sent[s] :
          \E i \in 1..Len(out) : out[i][1] = s /\ out[i][2] = k

\* A worker that is gone has sent its share, or its error waits to be read.
Accounted ==
    /\ \A w \in errs : status[w] = "returned"
    /\ outClosed => \A w \in Workers : status[w] = "returned"
    /\ pc = "pulling" =>
          /\ outcome = "none"
          /\ \A w \in Workers : status[w] = "returned" =>
                w \in errs \/ \A s \in DOMAIN Segments : WorkerOf(s) = w => sent[s] = Segments[s]
          /\ failed => errs # {} \/ \E w \in Workers : status[w] = "reporting"
    /\ errs # {} \/ (\E w \in Workers : status[w] = "reporting") => failed \/ cancelled

\* What Next said remains true.
Answered == outcome = "end" =>
    /\ ~failed /\ outClosed
    /\ \A s \in DOMAIN Segments : taken[s] = Segments[s]

IInv == TypeOK /\ InTurn /\ Queued /\ Accounted /\ Answered

-----------------------------------------------------------------------------
(* Workers and segments *)

LEMMA CountFact == /\ Count \in Nat /\ IsFiniteSet(Workers) /\ Cardinality(Workers) = Count
                   /\ \A s \in DOMAIN Segments : WorkerOf(s) \in Workers
                   /\ \A s \in DOMAIN Segments : Segments[s] \in Nat /\ s \in Nat
<1>1. Len(Segments) \in Nat /\ DOMAIN Segments = 1..Len(Segments)
  BY SegmentsAssumption
<1>2. Count \in Nat /\ (Len(Segments) > 0 => Count > 0)
  BY <1>1, ParallelismAssumption, TopKAssumption DEF Count, Wanted
<1>3. IsFiniteSet(Workers) /\ Cardinality(Workers) = Count
  <2>1. 0 \in Int /\ Count - 1 \in Int
    BY <1>2
  <2>2. /\ IsFiniteSet(0..(Count - 1))
        /\ Cardinality(0..(Count - 1)) = IF 0 > Count - 1 THEN 0 ELSE (Count - 1) - 0 + 1
    BY <2>1, FS_Interval
  <2> QED
    BY <1>2, <2>2 DEF Workers
<1>4. ASSUME NEW s \in DOMAIN Segments PROVE WorkerOf(s) \in Workers
  <2>1. s \in Int /\ Count \in Nat /\ Count > 0
    BY <1>1, <1>2
  <2>2. (s - 1) % Count \in 0..(Count - 1)
    BY <2>1
  <2> QED
    BY <2>2 DEF WorkerOf, Workers
<1> QED
  BY <1>1, <1>2, <1>3, <1>4, SegmentsAssumption

\* The error channel has room for a worker whose error it does not hold.
LEMMA RoomForError ==
    ASSUME NEW E \in SUBSET Workers, NEW w \in Workers, w \notin E
    PROVE  Cardinality(E) < Count
<1>1. E \subseteq Workers /\ E # Workers /\ IsFiniteSet(Workers)
  BY CountFact
<1>2. Cardinality(E) < Cardinality(Workers)
  BY <1>1, FS_Subset, FS_CardinalityType
<1> QED
  BY <1>2, CountFact

-----------------------------------------------------------------------------
(* The channel *)

\* The oldest batch is the next one of its segment, and the earlier segments of
\* the share have all been taken.
LEMMA HeadIsNext ==
    ASSUME IInv, pc = "pulling", out # <<>>
    PROVE  LET b == Head(out) IN
           /\ b[1] \in DOMAIN Segments /\ b[2] = taken[b[1]] + 1
           /\ b[2] <= Segments[b[1]]
           /\ \A r \in Earlier(b[1]) : taken[r] = Segments[r]
<1> DEFINE s == out[1][1]
           k == out[1][2]
<1>1. /\ Len(out) \in Nat /\ Len(out) >= 1 /\ Head(out) = out[1]
      /\ \A i \in 1..Len(out) : out[i][1] \in DOMAIN Segments /\ out[i][2] \in Nat
  BY DEF IInv, TypeOK
<1>2. s \in DOMAIN Segments /\ k \in Nat
  BY <1>1
<1>3. /\ \A x \in DOMAIN Segments : taken[x] \in Nat /\ sent[x] \in Nat
      /\ \A i \in 1..Len(out) : taken[out[i][1]] < out[i][2] /\ out[i][2] <= sent[out[i][1]]
      /\ \A i, j \in 1..Len(out) : i < j =>
             /\ out[i][1] = out[j][1] => out[i][2] < out[j][2]
             /\ WorkerOf(out[i][1]) = WorkerOf(out[j][1]) => out[i][1] <= out[j][1]
      /\ \A x \in DOMAIN Segments : \A n \in (taken[x] + 1)..sent[x] :
             \E i \in 1..Len(out) : out[i][1] = x /\ out[i][2] = n
  BY DEF IInv, TypeOK, Queued
<1>4. k = taken[s] + 1
  <2>1. taken[s] < k /\ k <= sent[s] /\ taken[s] + 1 \in (taken[s] + 1)..sent[s]
    BY <1>1, <1>2, <1>3
  <2>2. PICK i \in 1..Len(out) : out[i][1] = s /\ out[i][2] = taken[s] + 1
    BY <1>2, <1>3, <2>1
  <2>3. CASE i = 1
    BY <2>2, <2>3
  <2>4. CASE i # 1
    <3>1. 1 \in 1..Len(out) /\ 1 < i
      BY <1>1, <2>4
    <3>2. k < taken[s] + 1
      BY <1>3, <2>2, <3>1
    <3> QED
      BY <1>2, <1>3, <2>1, <3>2
  <2> QED
    BY <2>3, <2>4
<1>5. k <= sent[s] /\ sent[s] <= Segments[s] /\ sent[s] > 0
  BY <1>1, <1>2, <1>3 DEF IInv, InTurn
<1>6. ASSUME NEW r \in Earlier(s) PROVE taken[r] = Segments[r]
  <2>1. r \in DOMAIN Segments /\ r < s /\ WorkerOf(r) = WorkerOf(s) /\ r \in Nat /\ s \in Nat
    BY <1>2, CountFact DEF Earlier
  <2>2. sent[r] = Segments[r] /\ taken[r] <= sent[r]
    BY <1>2, <1>5, <2>1 DEF IInv, InTurn
  <2>3. SUFFICES ASSUME taken[r] < sent[r] PROVE FALSE
    BY <1>3, <2>1, <2>2
  <2>4. PICK i \in 1..Len(out) : out[i][1] = r
    <3>1. sent[r] \in (taken[r] + 1)..sent[r]
      BY <1>3, <2>1, <2>3
    <3> QED
      BY <1>3, <2>1, <3>1
  <2>5. i # 1
    BY <2>1, <2>4
  <2>6. 1 \in 1..Len(out) /\ 1 < i
    BY <1>1, <2>5
  <2>7. s <= r
    BY <1>3, <2>1, <2>4, <2>6
  <2> QED
    BY <2>1, <2>7
<1> QED
  BY <1>1, <1>2, <1>3, <1>4, <1>5, <1>6, CountFact

-----------------------------------------------------------------------------
(* The invariant is inductive *)

LEMMA InitIInv == Init => IInv
<1> SUFFICES ASSUME Init PROVE IInv
  OBVIOUS
<1> USE CountFact DEF Init
<1>1. TypeOK
  <2>1. out \in Seq((DOMAIN Segments) \X Nat) /\ Len(out) = 0
    OBVIOUS
  <2>2. Len(out) <= Count /\ loaded \subseteq Workers /\ errs \subseteq Workers
    BY <2>1
  <2>3. /\ sent \in [DOMAIN Segments -> Nat] /\ taken \in [DOMAIN Segments -> Nat]
        /\ status \in [Workers -> {"running", "reporting", "returned"}]
    OBVIOUS
  <2> QED
    BY <2>1, <2>2, <2>3 DEF TypeOK
<1>2. InTurn
  BY DEF InTurn
<1>3. Queued
  BY DEF Queued
<1>4. Accounted
  BY DEF Accounted
<1>5. Answered
  BY DEF Answered
<1> QED
  BY <1>1, <1>2, <1>3, <1>4, <1>5 DEF IInv

\* Sending appends the next batch of a segment whose share is read up to it.
LEMMA SendIInv == ASSUME IInv, NEW w \in Workers, Send(w) PROVE IInv'
<1> USE CountFact
<1>1. PICK s \in DOMAIN Segments :
        /\ At(w, s)
        /\ out' = Append(out, <<s, sent[s] + 1>>)
        /\ sent' = [sent EXCEPT ![s] = @ + 1]
  BY DEF Send
<1> DEFINE n == Len(out) + 1
<1>0. /\ out \in Seq((DOMAIN Segments) \X Nat) /\ Len(out) < Count
      /\ sent \in [DOMAIN Segments -> Nat]
  BY DEF IInv, TypeOK, Send
<1>2. /\ Len(out) \in Nat
      /\ \A x \in DOMAIN Segments : sent[x] \in Nat /\ taken[x] \in Nat
  BY <1>0 DEF IInv, TypeOK
<1>3. /\ Len(out') = n /\ \A i \in 1..Len(out) : out'[i] = out[i]
      /\ out'[n][1] = s /\ out'[n][2] = sent[s] + 1
      /\ sent'[s] = sent[s] + 1 /\ \A x \in DOMAIN Segments : x # s => sent'[x] = sent[x]
      /\ \A x \in DOMAIN Segments : sent'[x] \in Nat /\ sent[x] <= sent'[x]
      /\ \A i \in 1..Len(out) : out[i][1] \in DOMAIN Segments /\ out[i][2] \in Nat
  <2>1. \A i \in 1..Len(out) : out[i] \in (DOMAIN Segments) \X Nat
    BY <1>0
  <2>2. Len(out') = n /\ (\A i \in 1..Len(out) : out'[i] = out[i]) /\ out'[n] = <<s, sent[s] + 1>>
    BY <1>0, <1>1
  <2>3. sent'[s] = sent[s] + 1 /\ \A x \in DOMAIN Segments : x # s => sent'[x] = sent[x]
    BY <1>0, <1>1
  <2>4. \A x \in DOMAIN Segments : sent'[x] \in Nat /\ sent[x] <= sent'[x]
    BY <1>2, <2>3
  <2>5. \A i \in 1..Len(out) : out[i][1] \in DOMAIN Segments /\ out[i][2] \in Nat
    BY <2>1
  <2>6. out'[n][1] = s /\ out'[n][2] = sent[s] + 1
    BY <2>2
  <2> QED
    BY <2>2, <2>3, <2>4, <2>5, <2>6
<1>4. /\ WorkerOf(s) = w /\ sent[s] < Segments[s]
      /\ \A r \in Earlier(s) : sent[r] = Segments[r]
  BY <1>1 DEF At
<1>5. TypeOK'
  <2>1. out' \in Seq((DOMAIN Segments) \X Nat) /\ Len(out') <= Count
    BY <1>0, <1>1, <1>2
  <2>2. sent' \in [DOMAIN Segments -> Nat]
    BY <1>0, <1>1
  <2> QED
    BY <2>1, <2>2 DEF IInv, TypeOK, Send, consumerVars
<1>6. InTurn'
  <2>1. ASSUME NEW x \in DOMAIN Segments, NEW r \in Earlier(x), sent'[x] > 0
        PROVE  sent'[r] = Segments[r]
    <3>1. r \in DOMAIN Segments /\ r < x /\ WorkerOf(r) = WorkerOf(x)
      BY DEF Earlier
    <3>2. CASE x = s
      <4>1. r \in Earlier(s) /\ r # s
        BY <3>1, <3>2
      <4> QED
        BY <1>3, <1>4, <3>1, <4>1
    <3>3. CASE x # s
      <4>1. sent[r] = Segments[r]
        BY <1>3, <2>1, <3>3 DEF IInv, InTurn
      <4> QED
        BY <1>3, <1>4, <3>1, <4>1
    <3> QED
      BY <3>2, <3>3
  <2>2. ASSUME NEW x \in DOMAIN Segments
        PROVE  taken'[x] <= sent'[x] /\ sent'[x] <= Segments[x]
    BY <1>2, <1>3, <1>4 DEF IInv, InTurn, Send, consumerVars
  <2> QED
    BY <2>1, <2>2 DEF InTurn, Earlier
<1>7. Queued'
  <2> SUFFICES ASSUME pc' = "pulling" PROVE Queued'
    BY DEF Queued
  <2>1. pc = "pulling" /\ taken' = taken
    BY DEF Send, consumerVars
  <2>2. /\ \A i \in 1..Len(out) : taken[out[i][1]] < out[i][2] /\ out[i][2] <= sent[out[i][1]]
        /\ \A i, j \in 1..Len(out) : i < j =>
              /\ out[i][1] = out[j][1] => out[i][2] < out[j][2]
              /\ WorkerOf(out[i][1]) = WorkerOf(out[j][1]) => out[i][1] <= out[j][1]
        /\ \A x \in DOMAIN Segments : \A k \in (taken[x] + 1)..sent[x] :
              \E i \in 1..Len(out) : out[i][1] = x /\ out[i][2] = k
    BY <2>1 DEF IInv, Queued
  <2>3. taken[s] <= sent[s]
    BY DEF IInv, InTurn
  <2>4. ASSUME NEW i \in 1..Len(out')
        PROVE  taken'[out'[i][1]] < out'[i][2] /\ out'[i][2] <= sent'[out'[i][1]]
    <3>1. CASE i = n
      BY <1>2, <1>3, <2>1, <2>3, <3>1
    <3>2. CASE i \in 1..Len(out)
      <4>1. out'[i] = out[i] /\ out[i][1] \in DOMAIN Segments /\ out[i][2] \in Nat
        BY <1>3, <3>2
      <4>2. taken[out[i][1]] < out[i][2] /\ out[i][2] <= sent[out[i][1]]
        BY <2>2, <3>2
      <4>3. /\ sent[out[i][1]] <= sent'[out[i][1]]
            /\ sent[out[i][1]] \in Nat /\ sent'[out[i][1]] \in Nat
        BY <1>2, <1>3, <4>1
      <4> QED
        BY <2>1, <4>1, <4>2, <4>3
    <3> QED
      BY <1>2, <1>3, <3>1, <3>2
  <2>5. ASSUME NEW i \in 1..Len(out), out[i][1] = s PROVE out[i][2] < sent[s] + 1
    <3>1. out[i][2] <= sent[out[i][1]] /\ out[i][2] \in Nat
      BY <1>3, <2>2
    <3> QED
      BY <1>2, <2>5, <3>1
  <2>6. ASSUME NEW i \in 1..Len(out), WorkerOf(out[i][1]) = WorkerOf(s) PROVE out[i][1] <= s
    <3>0. out[i][1] \in DOMAIN Segments /\ out[i][1] \in Nat /\ s \in Nat
      BY <1>3
    <3>1. SUFFICES ASSUME s < out[i][1] PROVE FALSE
      BY <3>0
    <3>2. s \in Earlier(out[i][1])
      BY <2>6, <3>1 DEF Earlier
    <3>3. sent[out[i][1]] > 0
      <4>1. /\ out[i][1] \in DOMAIN Segments /\ out[i][2] \in Nat
            /\ taken[out[i][1]] < out[i][2] /\ out[i][2] <= sent[out[i][1]]
        BY <1>3, <2>2
      <4>2. sent[out[i][1]] \in Nat /\ taken[out[i][1]] \in Nat
        BY <1>2, <4>1
      <4> QED
        BY <4>1, <4>2
    <3>4. sent[s] = Segments[s]
      BY <1>3, <3>2, <3>3 DEF IInv, InTurn
    <3> QED
      BY <1>2, <1>4, <3>4
  <2>7. ASSUME NEW i \in 1..Len(out'), NEW j \in 1..Len(out'), i < j
        PROVE  /\ out'[i][1] = out'[j][1] => out'[i][2] < out'[j][2]
               /\ WorkerOf(out'[i][1]) = WorkerOf(out'[j][1]) => out'[i][1] <= out'[j][1]
    <3>1. i \in 1..Len(out) /\ out'[i] = out[i]
      BY <1>2, <1>3, <2>7
    <3>2. CASE j = n
      BY <1>3, <2>5, <2>6, <3>1, <3>2
    <3>3. CASE j \in 1..Len(out)
      BY <1>3, <2>2, <2>7, <3>1, <3>3
    <3> QED
      BY <1>2, <1>3, <3>2, <3>3
  <2>8. ASSUME NEW x \in DOMAIN Segments, NEW k \in (taken'[x] + 1)..sent'[x]
        PROVE  \E i \in 1..Len(out') : out'[i][1] = x /\ out'[i][2] = k
    <3>1. CASE k \in (taken[x] + 1)..sent[x]
      <4>1. PICK i \in 1..Len(out) : out[i][1] = x /\ out[i][2] = k
        BY <2>2, <3>1
      <4>2. i \in 1..Len(out') /\ out'[i] = out[i]
        BY <1>2, <1>3
      <4> QED
        BY <4>1, <4>2
    <3>2. CASE x = s /\ k = sent[s] + 1
      <4>1. n \in 1..Len(out') /\ out'[n][1] = x /\ out'[n][2] = k
        BY <1>2, <1>3, <3>2
      <4> QED
        BY <4>1
    <3> QED
      BY <1>2, <1>3, <2>1, <3>1, <3>2
  <2> QED
    BY <2>4, <2>7, <2>8 DEF Queued
<1>8. Accounted'
  <2>1. /\ errs' = errs /\ status' = status /\ outClosed' = outClosed /\ pc' = pc
        /\ outcome' = outcome /\ failed' = failed /\ cancelled' = cancelled
        /\ status[w] = "running"
    BY DEF Send, Running, consumerVars
  <2>2. ASSUME NEW v \in Workers, status'[v] = "returned",
               \A x \in DOMAIN Segments : WorkerOf(x) = v => sent[x] = Segments[x]
        PROVE  \A x \in DOMAIN Segments : WorkerOf(x) = v => sent'[x] = Segments[x]
    BY <1>3, <1>4, <2>1, <2>2
  <2> QED
    BY <2>1, <2>2 DEF IInv, Accounted
<1>9. Answered'
  <2>1. outcome' = outcome /\ failed' = failed /\ outClosed' = outClosed /\ taken' = taken
    BY DEF Send, consumerVars
  <2> QED
    BY <2>1 DEF IInv, Answered
<1> QED
  BY <1>5, <1>6, <1>7, <1>8, <1>9 DEF IInv

LEMMA ReceiveIInv == ASSUME IInv, Receive PROVE IInv'
<1> USE CountFact
<1> DEFINE s == Head(out)[1]
<1>1. /\ pc = "pulling" /\ out # <<>> /\ out' = Tail(out)
      /\ taken' = [taken EXCEPT ![Head(out)[1]] = Head(out)[2]]
      /\ sent' = sent /\ loaded' = loaded /\ status' = status /\ errs' = errs
      /\ outClosed' = outClosed /\ cancelled' = cancelled /\ pc' = pc /\ outcome' = outcome
      /\ failed' = failed
  BY DEF Receive, workerVars
<1>2. s \in DOMAIN Segments /\ Head(out)[2] = taken[s] + 1 /\ Head(out) = out[1]
  BY <1>1, HeadIsNext DEF IInv, TypeOK
<1>0. /\ out \in Seq((DOMAIN Segments) \X Nat) /\ Len(out) <= Count
      /\ taken \in [DOMAIN Segments -> Nat]
  BY DEF IInv, TypeOK
<1>3. /\ Len(out) \in Nat /\ Len(out) >= 1
      /\ \A x \in DOMAIN Segments : sent[x] \in Nat /\ taken[x] \in Nat
  BY <1>0, <1>1 DEF IInv, TypeOK
<1>4. /\ Len(out') = Len(out) - 1
      /\ \A i \in 1..Len(out') : out'[i] = out[i + 1] /\ i + 1 \in 1..Len(out)
      /\ taken'[s] = taken[s] + 1 /\ \A x \in DOMAIN Segments : x # s => taken'[x] = taken[x]
      /\ \A i \in 1..Len(out) : out[i][1] \in DOMAIN Segments /\ out[i][2] \in Nat
  <2>1. \A i \in 1..Len(out) : out[i] \in (DOMAIN Segments) \X Nat
    BY <1>0
  <2>2. Len(out') = Len(out) - 1 /\ \A i \in 1..Len(out') : out'[i] = out[i + 1]
    BY <1>0, <1>1
  <2>3. taken'[s] = taken[s] + 1 /\ \A x \in DOMAIN Segments : x # s => taken'[x] = taken[x]
    BY <1>0, <1>1, <1>2
  <2>4. \A i \in 1..Len(out) : out[i][1] \in DOMAIN Segments /\ out[i][2] \in Nat
    BY <2>1
  <2>5. \A i \in 1..Len(out') : i + 1 \in 1..Len(out)
    BY <1>3, <2>2
  <2> QED
    BY <2>2, <2>3, <2>4, <2>5
<1>5. /\ \A i \in 1..Len(out) : taken[out[i][1]] < out[i][2] /\ out[i][2] <= sent[out[i][1]]
      /\ \A i, j \in 1..Len(out) : i < j =>
            /\ out[i][1] = out[j][1] => out[i][2] < out[j][2]
            /\ WorkerOf(out[i][1]) = WorkerOf(out[j][1]) => out[i][1] <= out[j][1]
      /\ \A x \in DOMAIN Segments : \A k \in (taken[x] + 1)..sent[x] :
            \E i \in 1..Len(out) : out[i][1] = x /\ out[i][2] = k
  BY <1>1 DEF IInv, Queued
<1>6. TypeOK'
  <2>1. taken' \in [DOMAIN Segments -> Nat]
    BY <1>0, <1>1, <1>2
  <2>2. out' \in Seq((DOMAIN Segments) \X Nat) /\ Len(out') <= Count
    BY <1>0, <1>1
  <2> QED
    BY <1>1, <2>1, <2>2 DEF IInv, TypeOK
<1>7. InTurn'
  <2>1. \A x \in DOMAIN Segments : taken'[x] <= sent[x]
    <3>1. 1 \in 1..Len(out) /\ taken[s] + 1 <= sent[s]
      BY <1>2, <1>3, <1>5
    <3> QED
      BY <1>3, <1>4, <3>1 DEF IInv, InTurn
  <2> QED
    BY <1>1, <2>1 DEF IInv, InTurn, Earlier
<1>8. Queued'
  <2>1. ASSUME NEW i \in 1..Len(out')
        PROVE  taken'[out'[i][1]] < out'[i][2] /\ out'[i][2] <= sent'[out'[i][1]]
    <3>1. /\ out'[i] = out[i + 1] /\ i + 1 \in 1..Len(out) /\ 1 \in 1..Len(out) /\ 1 < i + 1
      BY <1>3, <1>4
    <3>2. taken[out[i + 1][1]] < out[i + 1][2] /\ out[i + 1][2] <= sent[out[i + 1][1]]
      BY <1>5, <3>1
    <3>3. CASE out[i + 1][1] = s
      <4>1. out[1][2] < out[i + 1][2]
        BY <1>2, <1>5, <3>1, <3>3
      <4> QED
        BY <1>1, <1>2, <1>3, <1>4, <3>1, <3>2, <3>3, <4>1
    <3>4. CASE out[i + 1][1] # s
      BY <1>1, <1>4, <3>1, <3>2, <3>4
    <3> QED
      BY <3>3, <3>4
  <2>2. ASSUME NEW i \in 1..Len(out'), NEW j \in 1..Len(out'), i < j
        PROVE  /\ out'[i][1] = out'[j][1] => out'[i][2] < out'[j][2]
               /\ WorkerOf(out'[i][1]) = WorkerOf(out'[j][1]) => out'[i][1] <= out'[j][1]
    <3>1. /\ out'[i] = out[i + 1] /\ i + 1 \in 1..Len(out)
          /\ out'[j] = out[j + 1] /\ j + 1 \in 1..Len(out) /\ i + 1 < j + 1
      <4>1. i \in Nat /\ j \in Nat /\ i + 1 < j + 1
        BY <1>4, <2>2
      <4>2. \A k \in 1..Len(out') : out'[k] = out[k + 1] /\ k + 1 \in 1..Len(out)
        BY <1>4
      <4> QED BY <4>1, <4>2
    <3> QED
      BY <1>5, <3>1
  <2>3. ASSUME NEW x \in DOMAIN Segments, NEW k \in (taken'[x] + 1)..sent'[x]
        PROVE  \E i \in 1..Len(out') : out'[i][1] = x /\ out'[i][2] = k
    <3>1. k \in (taken[x] + 1)..sent[x] /\ (x = s => k # taken[s] + 1)
      BY <1>1, <1>3, <1>4
    <3>2. PICK i \in 1..Len(out) : out[i][1] = x /\ out[i][2] = k
      BY <1>5, <3>1
    <3>3. i # 1
      BY <1>2, <3>1, <3>2
    <3>4. i - 1 \in 1..Len(out') /\ (i - 1) + 1 = i
      BY <1>3, <1>4, <3>3
    <3> QED
      BY <1>4, <3>2, <3>4
  <2> QED
    BY <2>1, <2>2, <2>3 DEF Queued
<1>9. Accounted'
  BY <1>1 DEF IInv, Accounted
<1>10. Answered'
  BY <1>1 DEF IInv, Accounted, Answered
<1> QED
  BY <1>6, <1>7, <1>8, <1>9, <1>10 DEF IInv

\* The other actions leave the segments' counters alone.
LEMMA WorkerIInv ==
    ASSUME IInv, NEW w \in Workers, Load(w) \/ SeeCancel(w) \/ Fail(w) \/ Report(w) \/ Finish(w)
    PROVE  IInv'
<1>1. /\ sent' = sent /\ out' = out /\ outClosed' = outClosed /\ cancelled' = cancelled
      /\ pc' = pc /\ outcome' = outcome /\ taken' = taken
  BY DEF Load, SeeCancel, Fail, Report, Finish, consumerVars
<1>2. TypeOK'
  BY <1>1 DEF IInv, TypeOK, Load, SeeCancel, Fail, Report, Finish
<1>3. InTurn'
  BY <1>1 DEF IInv, InTurn, Earlier
<1>4. Queued'
  BY <1>1 DEF IInv, Queued
<1>5. Accounted'
  <2>1. status \in [Workers -> {"running", "reporting", "returned"}] /\ errs \subseteq Workers
    BY DEF IInv, TypeOK
  <2>2. CASE Load(w)
    BY <1>1, <2>2 DEF IInv, Accounted, Load
  <2>3. CASE SeeCancel(w)
    BY <1>1, <2>1, <2>3 DEF IInv, Accounted, SeeCancel, Running
  <2>4. CASE Fail(w)
    BY <1>1, <2>1, <2>4 DEF IInv, Accounted, Fail, Running
  <2>5. CASE Report(w)
    <3>1. w \notin errs
      BY <2>5 DEF IInv, Accounted, Report
    <3>2. errs' = errs \cup {w} /\ failed' = failed
      BY <2>1, <2>5, <3>1, RoomForError DEF Report
    <3> QED
      BY <1>1, <2>1, <2>5, <3>2 DEF IInv, Accounted, Report
  <2>6. CASE Finish(w)
    BY <1>1, <2>1, <2>6 DEF IInv, Accounted, Finish, Running
  <2> QED
    BY <2>2, <2>3, <2>4, <2>5, <2>6
<1>6. Answered'
  <2>1. outcome = "end" => failed' = failed
    BY DEF IInv, Answered, Accounted, Load, SeeCancel, Fail, Report, Finish, Running
  <2> QED
    BY <1>1, <2>1 DEF IInv, Answered
<1> QED
  BY <1>2, <1>3, <1>4, <1>5, <1>6 DEF IInv

LEMMA ReceiveEndIInv == ASSUME IInv, ReceiveEnd PROVE IInv'
<1>1. /\ pc = "pulling" /\ out = <<>> /\ outClosed /\ pc' = "answered"
      /\ sent' = sent /\ loaded' = loaded /\ status' = status /\ out' = out
      /\ outClosed' = outClosed /\ cancelled' = cancelled /\ taken' = taken /\ failed' = failed
      /\ errs' \subseteq errs /\ outcome' \in {"end", "error"}
      /\ outcome' = "end" => errs = {}
  BY DEF ReceiveEnd
<1>2. TypeOK'
  BY <1>1 DEF IInv, TypeOK
<1>3. InTurn'
  BY <1>1 DEF IInv, InTurn, Earlier
<1>4. Queued'
  BY <1>1 DEF Queued
<1>5. Accounted'
  BY <1>1 DEF IInv, Accounted
<1>6. Answered'
  <2> SUFFICES ASSUME outcome' = "end"
               PROVE  ~failed /\ \A s \in DOMAIN Segments : taken[s] = Segments[s]
    BY <1>1 DEF Answered
  <2>1. ~failed
    BY <1>1 DEF IInv, Accounted
  <2>2. ASSUME NEW s \in DOMAIN Segments PROVE taken[s] = Segments[s]
    <3>1. WorkerOf(s) \in Workers /\ taken[s] \in Nat /\ sent[s] \in Nat /\ Segments[s] \in Nat
      BY CountFact DEF IInv, TypeOK
    <3>2. sent[s] = Segments[s] /\ taken[s] <= sent[s]
      BY <1>1, <3>1 DEF IInv, Accounted, InTurn
    <3>3. SUFFICES ASSUME taken[s] < sent[s] PROVE FALSE
      BY <3>1, <3>2
    <3>4. sent[s] \in (taken[s] + 1)..sent[s]
      BY <3>1, <3>3
    <3>5. \E i \in 1..Len(out) : out[i][1] = s
      BY <1>1, <3>4 DEF IInv, Queued
    <3> QED
      BY <1>1, <3>5
  <2> QED
    BY <2>1, <2>2
<1> QED
  BY <1>2, <1>3, <1>4, <1>5, <1>6 DEF IInv

LEMMA OtherIInv ==
    ASSUME IInv, CloseOut \/ ReceiveCancelled \/ Close \/ Drain \/ DrainEnd \/ CancelQuery
    PROVE  IInv'
<1>1. sent' = sent /\ loaded' = loaded /\ status' = status /\ errs' = errs /\ taken' = taken
      /\ failed' = failed
  BY DEF CloseOut, ReceiveCancelled, Close, Drain, DrainEnd, CancelQuery, workerVars, consumerVars
<1>2. TypeOK'
  <2>1. out' \in Seq((DOMAIN Segments) \X Nat) /\ Len(out') <= Count
    <3>1. CASE Drain
      BY <3>1, CountFact DEF IInv, TypeOK, Drain
    <3>2. CASE ~Drain
      BY <3>2 DEF IInv, TypeOK, CloseOut, ReceiveCancelled, Close, DrainEnd, CancelQuery
    <3> QED
      BY <3>1, <3>2
  <2> QED
    BY <1>1, <2>1 DEF IInv, TypeOK, CloseOut, ReceiveCancelled, Close, Drain, DrainEnd,
                      CancelQuery, consumerVars
<1>3. InTurn'
  BY <1>1 DEF IInv, InTurn, Earlier
<1>4. Queued'
  <2>1. pc' = "pulling" => pc = "pulling" /\ out' = out
    BY DEF CloseOut, ReceiveCancelled, Close, Drain, DrainEnd, CancelQuery, consumerVars
  <2> QED
    BY <1>1, <2>1 DEF IInv, Queued
<1>5. Accounted'
  <2>1. /\ outClosed' => \A w \in Workers : status[w] = "returned"
        /\ pc' = "pulling" => pc = "pulling" /\ outcome' = outcome
        /\ cancelled => cancelled'
    BY DEF IInv, Accounted, CloseOut, ReceiveCancelled, Close, Drain, DrainEnd, CancelQuery,
           consumerVars
  <2> QED
    BY <1>1, <2>1 DEF IInv, Accounted
<1>6. Answered'
  <2>1. (outcome' = "end" => outcome = "end") /\ (outClosed => outClosed')
    BY DEF CloseOut, ReceiveCancelled, Close, Drain, DrainEnd, CancelQuery, consumerVars
  <2> QED
    BY <1>1, <2>1 DEF IInv, Answered
<1> QED
  BY <1>2, <1>3, <1>4, <1>5, <1>6 DEF IInv

LEMMA NextIInv == IInv /\ [Next]_vars => IInv'
<1> SUFFICES ASSUME IInv, [Next]_vars PROVE IInv'
  OBVIOUS
<1>1. ASSUME NEW w \in Workers, Worker(w) PROVE IInv'
  BY <1>1, SendIInv, WorkerIInv DEF Worker
<1>2. CASE CloseOut \/ Consumer \/ CancelQuery
  BY <1>2, ReceiveIInv, ReceiveEndIInv, OtherIInv DEF Consumer
<1>3. CASE UNCHANGED vars
  BY <1>3 DEF vars, IInv, TypeOK, InTurn, Earlier, Queued, Accounted, Answered
<1> QED
  BY <1>1, <1>2, <1>3 DEF Next

-----------------------------------------------------------------------------
(* Theorems about the workers                                                *)

THEOREM WorkersInvariance == Spec => []IInv
<1> QED
  BY InitIInv, NextIInv, PTL DEF Spec

\* The channels hold what they are made for and no more.
THEOREM WorkersTypes == Spec => []TypeOK
<1>1. IInv => TypeOK
  BY DEF IInv
<1> QED
  BY <1>1, WorkersInvariance, PTL

\* Next ends cleanly only after the last batch of the last segment, and never
\* when a worker failed.
THEOREM CleanEndIsComplete == Spec => []EndIsComplete
<1>1. IInv => EndIsComplete
  BY DEF IInv, Answered, EndIsComplete
<1> QED
  BY <1>1, WorkersInvariance, PTL

\* Workers, channels and consumer together are a batch source: every step is
\* one of its steps or none.
THEOREM ImplementsBatchSource == Spec => ImplementsSource
<1>1. Init => Source!Init
  BY DEF Init, Source!Init
<1>2. IInv /\ [Next]_vars => [Source!Next]_(Source!vars)
  <2> SUFFICES ASSUME IInv, [Next]_vars PROVE [Source!Next]_(Source!vars)
    OBVIOUS
  <2> USE DEF Source!vars
  <2>1. ASSUME NEW w \in Workers, Worker(w) PROVE [Source!Next]_(Source!vars)
    <3>1. CASE Fail(w)
      BY <3>1 DEF Fail, consumerVars, Source!Next, Source!Break, IInv, TypeOK
    <3>2. CASE ~Fail(w)
      BY <2>1, <3>2 DEF Worker, Load, Send, SeeCancel, Report, Finish, consumerVars
    <3> QED
      BY <3>1, <3>2
  <2>2. CASE Receive
    <3>1. /\ Head(out)[1] \in DOMAIN Segments /\ Head(out)[2] = taken[Head(out)[1]] + 1
          /\ Head(out)[2] <= Segments[Head(out)[1]]
          /\ \A r \in Earlier(Head(out)[1]) : taken[r] = Segments[r]
      BY <2>2, HeadIsNext DEF Receive
    <3>2. /\ taken' = [taken EXCEPT ![Head(out)[1]] = taken[Head(out)[1]] + 1]
          /\ failed' = failed /\ cancelled' = cancelled /\ outcome' = outcome
          /\ outcome = "none"
      BY <2>2, <3>1 DEF Receive, IInv, Accounted
    <3>3. taken[Head(out)[1]] # Segments[Head(out)[1]]
      BY <3>1, CountFact DEF IInv, TypeOK
    <3>4. Source!Deliver
      BY <3>1, <3>2, <3>3 DEF Source!Deliver, Source!Complete
    <3> QED
      BY <3>4 DEF Source!Next
  <2>3. CASE ReceiveEnd
    <3>1. /\ outcome = "none" /\ outcome' \in {"end", "error"}
          /\ taken' = taken /\ failed' = failed /\ cancelled' = cancelled
      BY <2>3 DEF ReceiveEnd, IInv, Accounted
    <3>2. CASE outcome' = "end"
      <4>1. Answered'
        BY <2>3, ReceiveEndIInv DEF IInv
      <4>2. Source!End
        BY <3>1, <3>2, <4>1 DEF Answered, Source!End, Source!Answer, Source!Complete
      <4> QED
        BY <4>2 DEF Source!Next
    <3>3. CASE outcome' = "error"
      <4>1. errs # {}
        BY <2>3, <3>3 DEF ReceiveEnd
      <4>2. failed \/ cancelled
        BY <4>1 DEF IInv, Accounted
      <4> QED
        BY <3>1, <3>3, <4>2 DEF Source!Next, Source!Error, Source!Answer
    <3> QED
      BY <3>1, <3>2, <3>3
  <2>4. CASE ReceiveCancelled
    BY <2>4 DEF ReceiveCancelled, Source!Next, Source!Error, Source!Answer, IInv, Accounted
  <2>5. CASE Close
    BY <2>5 DEF Close, Source!Next, Source!Stop, IInv, TypeOK
  <2>6. CASE CancelQuery
    BY <2>6 DEF CancelQuery, consumerVars, Source!Next, Source!Stop
  <2>7. CASE CloseOut \/ Drain \/ DrainEnd
    BY <2>7 DEF CloseOut, Drain, DrainEnd, consumerVars
  <2>8. CASE UNCHANGED vars
    BY <2>8 DEF vars
  <2> QED
    BY <2>1, <2>2, <2>3, <2>4, <2>5, <2>6, <2>7, <2>8 DEF Next, Consumer
<1> QED
  BY <1>1, <1>2, WorkersInvariance, PTL DEF Spec, ImplementsSource, Source!Spec

-----------------------------------------------------------------------------
(* Powers of two, words and bounds                                           *)

Doubling(f, k) == IF k = 0 THEN 1 ELSE 2 * f[k - 1]
Doubles(f, n) == f = [k \in 0..n |-> Doubling(f, k)]

LEMMA DoublesExist == ASSUME NEW n \in Nat PROVE \E f : Doubles(f, n)
<1> DEFINE Unreached == {k \in 0..n : ~ \E f : Doubles(f, k)}
<1>1. 0 \notin Unreached
  <2> DEFINE f == [k \in 0..0 |-> 1]
  <2>1. \A k \in 0..0 : f[k] = 1 /\ Doubling(f, k) = 1
    BY DEF Doubling
  <2>2. Doubles(f, 0)
    BY <2>1 DEF Doubles
  <2> QED BY <2>2
<1>2. ASSUME NEW k \in 1..n, k - 1 \notin Unreached PROVE k \notin Unreached
  <2>1. k \in Nat /\ k - 1 \in 0..n
    OBVIOUS
  <2>2. PICK f : Doubles(f, k - 1)
    BY <1>2, <2>1
  <2> DEFINE g == [i \in 0..k |-> IF i = k THEN Doubling(f, k) ELSE f[i]]
  <2>3. ASSUME NEW i \in 0..k PROVE g[i] = Doubling(g, i)
    <3>1. i # 0 => g[i - 1] = f[i - 1]
      BY <2>1
    <3>2. g[i] = Doubling(f, i)
      <4>1. i = k \/ i \in 0..(k - 1)
        BY <2>1
      <4>2. i # k => f[i] = Doubling(f, i)
        BY <2>2, <4>1 DEF Doubles
      <4> QED BY <4>1, <4>2
    <3> HIDE DEF g
    <3> QED BY <3>1, <3>2 DEF Doubling
  <2>4. g = [i \in 0..k |-> g[i]]
    OBVIOUS
  <2> HIDE DEF g
  <2>5. Doubles(g, k)
    BY <2>3, <2>4 DEF Doubles
  <2> QED BY <2>5
<1>3. Unreached \in SUBSET (0..n)
  OBVIOUS
<1> HIDE DEF Unreached
<1>4. Unreached = {}
  BY <1>1, <1>2, <1>3, NoneOf
<1>5. n \in 0..n
  OBVIOUS
<1> QED BY <1>4, <1>5 DEF Unreached

LEMMA Powers ==
    ASSUME WidthAssumption
    PROVE  /\ WordBits \in Nat \ {0}
           /\ \A n \in 0..WordBits : TwoTo[n] = IF n = 0 THEN 1 ELSE 2 * TwoTo[n - 1]
           /\ \A n \in 0..WordBits : TwoTo[n] \in Nat \ {0}
<1> DEFINE Fold(g) == g = [n \in 0..WordBits |-> IF n = 0 THEN 1 ELSE 2 * g[n - 1]]
           Bad == {n \in 0..WordBits : TwoTo[n] \notin Nat \ {0}}
<1>1. WordBits \in Nat \ {0}
  BY DEF WidthAssumption
<1>2. \A g : Fold(g) <=> Doubles(g, WordBits)
  BY DEF Doubles, Doubling
<1>3. TwoTo = CHOOSE g : Fold(g)
  BY DEF TwoTo
<1> HIDE DEF Fold
<1>4. \E g : Fold(g)
  BY <1>1, <1>2, DoublesExist
<1>5. Doubles(TwoTo, WordBits)
  BY <1>2, <1>3, <1>4
<1>6. \A n \in 0..WordBits : TwoTo[n] = IF n = 0 THEN 1 ELSE 2 * TwoTo[n - 1]
  BY <1>5 DEF Doubles, Doubling
<1>7. 0 \notin Bad
  BY <1>1, <1>6
<1>8. ASSUME NEW n \in 1..WordBits, n - 1 \notin Bad PROVE n \notin Bad
  <2>1. n - 1 \in 0..WordBits /\ n # 0 /\ n \in 0..WordBits
    BY <1>1
  <2>2. TwoTo[n - 1] \in Nat \ {0} /\ TwoTo[n] = 2 * TwoTo[n - 1]
    BY <1>6, <1>8, <2>1
  <2> QED BY <2>2
<1>9. Bad \in SUBSET (0..WordBits)
  OBVIOUS
<1> HIDE DEF Bad
<1>10. Bad = {}
  BY <1>1, <1>7, <1>8, <1>9, NoneOf
<1> QED BY <1>1, <1>6, <1>10 DEF Bad

LEMMA PowersGrow ==
    ASSUME WidthAssumption, NEW n \in 0..WordBits, NEW m \in 0..n
    PROVE  TwoTo[m] <= TwoTo[n]
<1> DEFINE Bad == {k \in 0..(n - m) : ~(TwoTo[m] <= TwoTo[m + k])}
<1>1. WordBits \in Nat /\ n \in Nat /\ m \in Nat /\ n - m \in Nat /\ m + 0 = m /\ m + (n - m) = n
  BY Powers
<1>2. TwoTo[m] \in Nat
  BY <1>1, Powers
<1>3. 0 \notin Bad
  BY <1>1, <1>2
<1>4. ASSUME NEW k \in 1..(n - m), k - 1 \notin Bad PROVE k \notin Bad
  <2>1. /\ k - 1 \in 0..(n - m) /\ m + k \in 0..WordBits /\ m + (k - 1) \in 0..WordBits
        /\ m + k # 0 /\ (m + k) - 1 = m + (k - 1)
    BY <1>1
  <2>2. TwoTo[m + k] = 2 * TwoTo[m + (k - 1)]
    BY <2>1, Powers
  <2>3. TwoTo[m + (k - 1)] \in Nat
    BY <2>1, Powers
  <2>4. TwoTo[m] <= TwoTo[m + (k - 1)]
    BY <1>4, <2>1
  <2> QED BY <1>2, <2>2, <2>3, <2>4
<1>5. Bad \in SUBSET (0..(n - m))
  OBVIOUS
<1> HIDE DEF Bad
<1>6. Bad = {}
  BY <1>1, <1>3, <1>4, <1>5, NoneOf
<1>7. n - m \in 0..(n - m)
  BY <1>1
<1> QED BY <1>1, <1>6, <1>7 DEF Bad

\* The words: as many below zero as from zero on.
LEMMA Words ==
    ASSUME WidthAssumption
    PROVE  /\ MinWord \in Int /\ MaxWord \in Nat /\ MinWord = -(MaxWord + 1)
           /\ TwoTo[WordBits] = 2 * (MaxWord + 1)
<1>1. WordBits \in 0..WordBits /\ WordBits # 0 /\ WordBits - 1 \in 0..WordBits
  BY Powers
<1>2. TwoTo[WordBits - 1] \in Nat \ {0} /\ TwoTo[WordBits] = 2 * TwoTo[WordBits - 1]
  BY <1>1, Powers
<1> QED BY <1>2 DEF MinWord, MaxWord

\* A difference that is a word is what it is.
LEMMA WrapKeepsWords ==
    ASSUME WidthAssumption, NEW n \in MinWord..MaxWord
    PROVE  Wrap(n) = n
<1> DEFINE h == MaxWord + 1
           m == n - MinWord
<1>1. h \in Nat \ {0} /\ MinWord = -h /\ TwoTo[WordBits] = 2 * h /\ n \in Int
  BY Words
<1> HIDE DEF h
<1>2. m \in 0..(2 * h - 1)
  BY <1>1, Words DEF h
<1>3. m + MinWord = n
  BY <1>1
<1> HIDE DEF m
<1>4. m % (2 * h) = m
  BY <1>1, <1>2
<1>5. Wrap(n) = (m % TwoTo[WordBits]) + MinWord
  BY DEF Wrap, m
<1> QED BY <1>1, <1>3, <1>4, <1>5

\* bits.Len64 gives the bits that suffice.
LEMMA BitsSuffice ==
    ASSUME WidthAssumption, NEW n \in Nat, n < TwoTo[WordBits]
    PROVE  BitLength(n) \in 0..WordBits /\ n < TwoTo[BitLength(n)]
<1> DEFINE S == {w \in 0..WordBits : TwoTo[w] > n}
           Enough(w) == TwoTo[w] > n /\ (w > 0 => TwoTo[w - 1] <= n)
<1>1. S \subseteq Nat /\ WordBits \in S
  BY Powers
<1>2. PICK w \in S : \A v \in S : w <= v
  BY <1>1, LeastOfSome
<1>3. w \in 0..WordBits /\ TwoTo[w] > n
  OBVIOUS
<1>4. w > 0 => TwoTo[w - 1] <= n
  <2> SUFFICES ASSUME w > 0 PROVE TwoTo[w - 1] <= n
    OBVIOUS
  <2>1. w - 1 \in 0..WordBits /\ ~(w <= w - 1)
    BY <1>3, Powers
  <2>2. ~(TwoTo[w - 1] > n) /\ TwoTo[w - 1] \in Nat
    BY <1>2, <2>1, Powers
  <2> QED BY <2>2
<1>5. \E x \in 0..WordBits : Enough(x)
  BY <1>3, <1>4
<1>6. BitLength(n) = CHOOSE x \in 0..WordBits : Enough(x)
  BY DEF BitLength
<1> HIDE DEF Enough
<1>7. BitLength(n) \in 0..WordBits /\ Enough(BitLength(n))
  BY <1>5, <1>6
<1>8. TwoTo[BitLength(n)] > n
  BY <1>7 DEF Enough
<1>9. TwoTo[BitLength(n)] \in Nat
  BY <1>7, Powers
<1> QED BY <1>7, <1>8, <1>9

LEMMA LeastAndGreatest ==
    ASSUME NEW lo \in Int, NEW hi \in Int, NEW S \in SUBSET (lo..hi), S # {}
    PROVE  /\ Min(S) \in S /\ Max(S) \in S
           /\ \A x \in S : Min(S) <= x /\ x <= Max(S)
<1> DEFINE Below == {x - lo : x \in S}
           Above == {hi - x : x \in S}
<1>1. Below \subseteq Nat /\ Below # {} /\ Above \subseteq Nat /\ Above # {}
  <2>1. \A x \in S : x - lo \in Nat /\ hi - x \in Nat
    OBVIOUS
  <2> QED BY <2>1
<1>2. PICK i \in Below : \A j \in Below : i <= j
  BY <1>1, LeastOfSome
<1>3. PICK a \in S : i = a - lo
  OBVIOUS
<1>4. \A x \in S : a <= x
  <2> SUFFICES ASSUME NEW x \in S PROVE a <= x
    OBVIOUS
  <2>1. a - lo <= x - lo
    BY <1>2, <1>3
  <2> QED BY <2>1
<1>5. PICK k \in Above : \A j \in Above : k <= j
  BY <1>1, LeastOfSome
<1>6. PICK b \in S : k = hi - b
  OBVIOUS
<1>7. \A x \in S : b >= x
  <2> SUFFICES ASSUME NEW x \in S PROVE b >= x
    OBVIOUS
  <2>1. hi - b <= hi - x
    BY <1>5, <1>6
  <2> QED BY <2>1
<1>8. Min(S) \in S /\ \A y \in S : Min(S) <= y
  BY <1>4 DEF Min
<1>9. Max(S) \in S /\ \A y \in S : Max(S) >= y
  BY <1>7 DEF Max
<1>10. \A x \in S : x \in Int
  OBVIOUS
<1> HIDE DEF Min, Max
<1>11. \A x \in S : x <= Max(S)
  BY <1>9, <1>10
<1> QED BY <1>8, <1>9, <1>11

-----------------------------------------------------------------------------
(* What a comparison concludes about a page or a segment without decoding it *)

LEMMA StorableWords ==
    ASSUME NullAssumption, WidthAssumption, NEW kind
    PROVE  /\ Storable(kind) \ {Null} \subseteq Int
           /\ kind \in IntKinds => Storable(kind) \ {Null} \subseteq MinWord..MaxWord
<1> DEFINE b == KindBits(kind) - 1
<1>1. b \in 0..(WordBits - 1) /\ WordBits - 1 \in 0..WordBits /\ b \in 0..WordBits
  BY DEF KindBits, WidthAssumption
<1>2. TwoTo[b] <= TwoTo[WordBits - 1]
  BY <1>1, PowersGrow
<1>3. TwoTo[b] \in Nat /\ TwoTo[WordBits - 1] \in Nat
  BY <1>1, Powers
<1>4. Storable(kind) = (IF kind \in IntKinds THEN -TwoTo[b]..(TwoTo[b] - 1) ELSE Int) \cup {Null}
  BY DEF Storable
<1> HIDE DEF b
<1> QED BY <1>2, <1>3, <1>4 DEF MinWord, MaxWord

\* A segment as the writer leaves it.
SegmentOK(seg) ==
    /\ IsSequence(seg.cols)
    /\ \A i \in DOMAIN seg.cols : /\ seg.cols[i].kind \in Kinds
                                  /\ seg.cols[i].pages \in Seq(Seq(Storable(seg.cols[i].kind)))

\* A comparison as it is pushed down, with any literal: also one just past the
\* words, and one that no value of the column can reach.
LeafOK(leaf) ==
    /\ leaf.lit \in Int /\ leaf.kind \in {"int64", "text"}
    /\ leaf.op \in {"eq", "lt", "gt"} \/ (leaf.kind = "text" /\ leaf.op \in {"le", "ge"})

\* The comparison of a page of a segment it may be made on.
Asks(seg, leaf) == NullAssumption /\ WidthAssumption /\ SegmentOK(seg) /\ LeafOK(leaf)

LEMMA Found ==
    ASSUME NEW seg, NEW leaf, SegmentOK(seg)
    PROVE  /\ Find(seg, leaf) # 0 => Find(seg, leaf) \in DOMAIN seg.cols
           /\ ByName(seg, leaf.name) # 0 => ByName(seg, leaf.name) \in DOMAIN seg.cols
<1> DEFINE Named == {i \in DOMAIN seg.cols : seg.cols[i].name = leaf.name}
           WithId == {i \in DOMAIN seg.cols : seg.cols[i].id = leaf.id}
<1>1. DOMAIN seg.cols \subseteq Nat
  BY SequenceLength DEF SegmentOK
<1>2. Named \subseteq DOMAIN seg.cols /\ WithId \subseteq DOMAIN seg.cols
  OBVIOUS
<1>3. ByName(seg, leaf.name) = First(Named) /\ ById(seg, leaf.id) = First(WithId)
  BY DEF ByName, ById
<1> HIDE DEF Named, WithId
<1>4. ASSUME NEW S, S \subseteq DOMAIN seg.cols, First(S) # 0 PROVE First(S) \in DOMAIN seg.cols
  <2>1. S # {} /\ First(S) = Min(S)
    BY <1>4 DEF First
  <2>2. S \subseteq Nat
    BY <1>1, <1>4
  <2>3. Min(S) \in S
    BY <2>1, <2>2, MinOfSome
  <2> QED BY <1>4, <2>1, <2>3
<1> QED BY <1>2, <1>3, <1>4 DEF Find

LEMMA PageCells ==
    ASSUME NullAssumption, WidthAssumption, NEW seg, SegmentOK(seg),
           NEW i \in DOMAIN seg.cols, NEW p \in DOMAIN seg.cols[i].pages
    PROVE  LET col == seg.cols[i]
               page == col.pages[p]
           IN /\ Values(page) \subseteq Int
              /\ \A r \in DOMAIN page : page[r] # Null => page[r] \in Values(page)
              /\ AllValid(page) => \A r \in DOMAIN page : page[r] # Null
              /\ col.kind \in IntKinds => Values(page) \subseteq MinWord..MaxWord
<1> DEFINE col == seg.cols[i]
           page == col.pages[p]
           C == Storable(col.kind)
<1>1. col.kind \in Kinds /\ col.pages \in Seq(Seq(C))
  BY DEF SegmentOK
<1> HIDE DEF C
<1>2. page \in Seq(C)
  BY <1>1
<1>3. \A r \in DOMAIN page : page[r] \in C
  BY <1>2
<1>4. Values(page) \subseteq C \ {Null}
  BY <1>3 DEF Values
<1>5. C \ {Null} \subseteq Int /\ (col.kind \in IntKinds => C \ {Null} \subseteq MinWord..MaxWord)
  BY StorableWords DEF C
<1>6. \A r \in DOMAIN page : page[r] # Null => page[r] \in Values(page)
  BY DEF Values
<1>7. AllValid(page) => \A r \in DOMAIN page : page[r] # Null
  BY DEF AllValid
<1> HIDE DEF page, col
<1>8. Values(page) \subseteq Int /\ (col.kind \in IntKinds => Values(page) \subseteq MinWord..MaxWord)
  BY <1>4, <1>5
<1> QED BY <1>6, <1>7, <1>8 DEF page, col

\* The bounds of a set of words.
LEMMA BoundsHold ==
    ASSUME WidthAssumption, NEW S \in SUBSET (MinWord..MaxWord), S # {}
    PROVE  /\ LowHigh(S).min \in S /\ LowHigh(S).max \in S
           /\ LowHigh(S).min = Min(S) /\ LowHigh(S).max = Max(S)
           /\ \A x \in S : LowHigh(S).min <= x /\ x <= LowHigh(S).max
<1>1. MinWord \in Int /\ MaxWord \in Int
  BY Words
<1>2. Min(S) \in S /\ Max(S) \in S /\ \A x \in S : Min(S) <= x /\ x <= Max(S)
  BY <1>1, LeastAndGreatest
<1>3. LowHigh(S).min = Min(S) /\ LowHigh(S).max = Max(S)
  BY DEF LowHigh
<1> QED BY <1>2, <1>3

\* What bounds say of a value within them.
LEMMA WithinBounds ==
    ASSUME NEW leaf, LeafOK(leaf), leaf.kind = "int64",
           NEW stats, stats.min \in Int, stats.max \in Int,
           NEW v \in Int, v # Null, stats.min <= v, v <= stats.max
    PROVE  /\ leaf.op = "eq" /\ leaf.lit \notin stats.min..stats.max => ~EvalLeaf(leaf, v)
           /\ leaf.op = "lt" /\ stats.min >= leaf.lit => ~EvalLeaf(leaf, v)
           /\ leaf.op = "gt" /\ stats.max <= leaf.lit => ~EvalLeaf(leaf, v)
           /\ BoundsSatisfy(stats, leaf) => EvalLeaf(leaf, v)
<1>1. leaf.lit \in Int /\ leaf.op \in {"eq", "lt", "gt"}
  BY DEF LeafOK
<1>2. /\ leaf.op = "eq" => (EvalLeaf(leaf, v) <=> v = leaf.lit)
      /\ leaf.op = "lt" => (EvalLeaf(leaf, v) <=> v < leaf.lit)
      /\ leaf.op = "gt" => (EvalLeaf(leaf, v) <=> v > leaf.lit)
  BY DEF EvalLeaf, Compares
<1>3. BoundsSatisfy(stats, leaf) => EvalLeaf(leaf, v)
  BY <1>1, <1>2 DEF BoundsSatisfy
<1> QED BY <1>1, <1>2, <1>3

\* PrunePage: no row of a page that is skipped satisfies the comparison, for any
\* widths, pages with and without NULLs, and columns of any kind.
THEOREM SkippedPagesHoldNothing ==
    ASSUME NEW seg, NEW leaf, Asks(seg, leaf), NEW p \in DOMAIN seg.cols[Find(seg, leaf)].pages,
           LeafSkipsPage(seg, p, leaf)
    PROVE  LET page == seg.cols[Find(seg, leaf)].pages[p]
           IN  \A r \in DOMAIN page : ~EvalLeaf(leaf, page[r])
<1> DEFINE i == Find(seg, leaf)
           col == seg.cols[i]
           page == col.pages[p]
           stats == PageStats(col, p)
<1> SUFFICES ASSUME NEW r \in DOMAIN page, EvalLeaf(leaf, page[r]) PROVE FALSE
  OBVIOUS
<1>1. i \in DOMAIN seg.cols
  BY Found DEF LeafSkipsPage, Asks
<1>2. page[r] # Null
  BY DEF EvalLeaf
<1>3. page[r] \in Values(page) /\ Values(page) \subseteq Int
  BY <1>1, <1>2, PageCells DEF Asks
<1>4. col.kind \in IntKinds => Values(page) \subseteq MinWord..MaxWord
  BY <1>1, PageCells DEF Asks
<1>5. CASE leaf.kind = "text"
  <2>1. leaf.op = "eq" /\ (AllNull(page) \/ leaf.lit \notin Values(page))
    BY <1>5 DEF LeafSkipsPage
  <2>2. page[r] = leaf.lit
    BY <2>1 DEF EvalLeaf, Compares
  <2> QED BY <1>3, <2>1, <2>2 DEF AllNull
<1>6. CASE leaf.kind = "int64"
  <2>1. /\ HasPageStats(col, p)
        /\ \/ leaf.op = "eq" /\ leaf.lit \notin stats.min..stats.max
           \/ leaf.op = "lt" /\ stats.min >= leaf.lit
           \/ leaf.op = "gt" /\ stats.max <= leaf.lit
    BY <1>6 DEF LeafSkipsPage
  <2>2. Values(page) \in SUBSET (MinWord..MaxWord) /\ Values(page) # {}
    BY <1>4, <2>1 DEF HasPageStats, AllNull
  <2>3. stats = LowHigh(Values(page))
    BY DEF PageStats
  <2> HIDE DEF i, col, page, stats
  <2>4. stats.min \in Int /\ stats.max \in Int /\ stats.min <= page[r] /\ page[r] <= stats.max
    BY <1>3, <2>2, <2>3, BoundsHold DEF Asks
  <2>5. page[r] \in Int
    BY <1>3
  <2>6. ~EvalLeaf(leaf, page[r])
    BY <1>2, <1>6, <2>1, <2>4, <2>5, WithinBounds DEF Asks
  <2> QED BY <2>6
<1> QED BY <1>5, <1>6 DEF Asks, LeafOK

\* childAlwaysMatchesPage: every row of a page that is taken as a whole satisfies
\* the comparison.
THEOREM CertainPagesHoldAll ==
    ASSUME NEW seg, NEW leaf, Asks(seg, leaf), NEW p \in DOMAIN seg.cols[Find(seg, leaf)].pages,
           LeafHoldsOnPage(seg, p, leaf)
    PROVE  LET page == seg.cols[Find(seg, leaf)].pages[p]
           IN  \A r \in DOMAIN page : EvalLeaf(leaf, page[r])
<1> DEFINE i == Find(seg, leaf)
           col == seg.cols[i]
           page == col.pages[p]
           stats == PageStats(col, p)
<1> SUFFICES ASSUME NEW r \in DOMAIN page PROVE EvalLeaf(leaf, page[r])
  OBVIOUS
<1>1. /\ i # 0 /\ leaf.kind = "int64" /\ AllValid(page)
      /\ HasPageStats(col, p) /\ BoundsSatisfy(stats, leaf)
  BY DEF LeafHoldsOnPage
<1>2. i \in DOMAIN seg.cols
  BY <1>1, Found DEF Asks
<1>3. page[r] # Null /\ page[r] \in Values(page) /\ Values(page) \subseteq Int
  BY <1>1, <1>2, PageCells DEF Asks
<1>4. Values(page) \in SUBSET (MinWord..MaxWord) /\ Values(page) # {}
  BY <1>1, <1>2, PageCells DEF Asks, HasPageStats, AllNull
<1>5. stats = LowHigh(Values(page))
  BY DEF PageStats
<1> HIDE DEF i, col, page, stats
<1>6. stats.min \in Int /\ stats.max \in Int /\ stats.min <= page[r] /\ page[r] <= stats.max
  BY <1>3, <1>4, <1>5, BoundsHold DEF Asks
<1>7. page[r] \in Int
  BY <1>3
<1>8. EvalLeaf(leaf, page[r])
  BY <1>1, <1>3, <1>6, <1>7, WithinBounds DEF Asks
<1> QED BY <1>8 DEF page, col, i

\* The residuals of a FOR page tell what its values tell, for a literal within
\* the bounds of the page: the literal moved by the base stays a word.
LEMMA ResidualsTell ==
    ASSUME NullAssumption, WidthAssumption, NEW leaf, LeafOK(leaf), leaf.kind = "int64",
           NEW page, Values(page) \in SUBSET (MinWord..MaxWord), Values(page) # {},
           ForWidth(page) \in 1..(WordBits - 1),
           leaf.op = "eq" => leaf.lit \in Min(Values(page))..Max(Values(page)),
           leaf.op = "lt" => Min(Values(page)) < leaf.lit /\ leaf.lit <= Max(Values(page)),
           leaf.op = "gt" => Min(Values(page)) <= leaf.lit /\ leaf.lit < Max(Values(page)),
           NEW v \in Values(page)
    PROVE  ForAccepts(leaf, page, v) <=> EvalLeaf(leaf, v)
<1> DEFINE base == Min(Values(page))
           top == Max(Values(page))
           span == top - base
           lit == leaf.lit
           w == ForWidth(page)
           residual == v - base
           most == TwoTo[w] - 1
<1>1. MinWord \in Int /\ MaxWord \in Nat /\ MinWord = -(MaxWord + 1) /\ TwoTo[WordBits] = 2 * (MaxWord + 1)
  BY Words
<1>2. base \in Values(page) /\ top \in Values(page) /\ base <= v /\ v <= top
  <2>1. MinWord \in Int /\ MaxWord \in Int
    BY <1>1
  <2> QED BY <2>1, LeastAndGreatest
<1>3. lit \in Int /\ leaf.op \in {"eq", "lt", "gt"}
  BY DEF LeafOK
<1> HIDE DEF base, top
<1>4. v \in MinWord..MaxWord /\ base \in MinWord..MaxWord /\ top \in MinWord..MaxWord
  BY <1>2
<1>5. span \in Nat /\ span < TwoTo[WordBits]
  BY <1>1, <1>2, <1>4
<1>6. w = BitLength(span)
  BY DEF ForWidth, base, top
<1> HIDE DEF span
<1>7. span < TwoTo[w]
  BY <1>5, <1>6, BitsSuffice
<1>8. w \in 0..(WordBits - 1) /\ WordBits - 1 \in 0..WordBits
  BY Powers
<1>9. TwoTo[w] <= TwoTo[WordBits - 1]
  BY <1>8, PowersGrow
<1>10. TwoTo[w] \in Nat /\ TwoTo[WordBits - 1] \in Nat
  BY <1>8, Powers
<1> HIDE DEF w
<1>11. most \in Int /\ span <= most /\ most <= MaxWord
  BY <1>5, <1>7, <1>9, <1>10 DEF MaxWord
<1> HIDE DEF most
<1>12. base <= lit /\ lit <= top
  BY <1>2, <1>3, <1>4 DEF base, top
<1>13. lit - base \in 0..most /\ lit - base \in MinWord..MaxWord
  BY <1>1, <1>3, <1>4, <1>11, <1>12 DEF span
<1>14. Wrap(lit - base) = lit - base
  BY <1>13, WrapKeepsWords
<1>15. /\ leaf.op = "eq" => (ForAccepts(leaf, page, v) <=> lit - base \in 0..most /\ residual = lit - base)
       /\ leaf.op = "lt" => (ForAccepts(leaf, page, v) <=> /\ lit - base > 0
                                                           /\ lit - base > most \/ residual < lit - base)
       /\ leaf.op = "gt" => (ForAccepts(leaf, page, v) <=> \/ lit - base < 0
                                                           \/ lit - base < most /\ residual > lit - base)
  BY <1>14 DEF ForAccepts, base, most, w
<1>16. v # Null /\ v \in Int
  BY <1>4, Words DEF NullAssumption
<1>17. /\ leaf.op = "eq" => (EvalLeaf(leaf, v) <=> v = lit)
       /\ leaf.op = "lt" => (EvalLeaf(leaf, v) <=> v < lit)
       /\ leaf.op = "gt" => (EvalLeaf(leaf, v) <=> v > lit)
  BY <1>16 DEF EvalLeaf, Compares
<1>18. CASE leaf.op = "eq"
  BY <1>3, <1>4, <1>13, <1>15, <1>16, <1>17, <1>18
<1>19. CASE leaf.op = "lt"
  <2>1. lit - base > 0
    BY <1>3, <1>4, <1>19 DEF base
  <2>2. ~(lit - base > most)
    BY <1>11, <1>13
  <2>3. residual < lit - base <=> v < lit
    BY <1>3, <1>4, <1>16
  <2> QED BY <1>15, <1>17, <1>19, <2>1, <2>2, <2>3
<1>20. CASE leaf.op = "gt"
  <2>1. ~(lit - base < 0)
    BY <1>13
  <2>2. lit < top
    BY <1>20 DEF top
  <2>3. lit - base < most
    BY <1>3, <1>4, <1>11, <2>2 DEF span
  <2>4. residual > lit - base <=> v > lit
    BY <1>3, <1>4, <1>16
  <2> QED BY <1>15, <1>17, <1>20, <2>1, <2>3, <2>4
<1> QED BY <1>3, <1>18, <1>19, <1>20

\* EvalEncoded: where scanSegment looks at the encoded values of a page (it is
\* neither skipped nor taken as a whole, and the name of the column leads to the
\* column that its id leads to), it finds the rows that the values tell.
THEOREM EncodedValuesTell ==
    ASSUME NEW seg, NEW leaf, Asks(seg, leaf), NEW p \in DOMAIN seg.cols[Find(seg, leaf)].pages,
           Find(seg, leaf) = ByName(seg, leaf.name), Handles(seg, p, leaf),
           ~LeafSkipsPage(seg, p, leaf), ~LeafHoldsOnPage(seg, p, leaf)
    PROVE  LET page == seg.cols[Find(seg, leaf)].pages[p]
           IN  EncodedRows(seg, p, leaf) = {r \in DOMAIN page : EvalLeaf(leaf, page[r])}
<1> DEFINE i == Find(seg, leaf)
           col == seg.cols[i]
           page == col.pages[p]
           stats == PageStats(col, p)
<1>1. i \in DOMAIN seg.cols /\ i # 0
  BY Found DEF Handles, Asks
<1>2. AllValid(page)
  BY DEF Handles, IsFOR, IsDict
<1>3. ASSUME NEW r \in DOMAIN page
      PROVE  page[r] # Null /\ page[r] \in Values(page)
  BY <1>1, <1>2, PageCells DEF Asks
<1>4. EncodedRows(seg, p, leaf) = {r \in DOMAIN page : IF leaf.kind = "int64" THEN ForAccepts(leaf, page, page[r])
                                                       ELSE Compares(leaf.op, page[r], leaf.lit)}
  BY DEF EncodedRows
<1>5. ASSUME leaf.kind = "int64", NEW r \in DOMAIN page
      PROVE  ForAccepts(leaf, page, page[r]) <=> EvalLeaf(leaf, page[r])
  <2>1. col.kind \in IntKinds /\ ForWidth(page) \in 1..(KindBits(col.kind) - 1)
    BY <1>5 DEF Handles, IsFOR
  <2>2. Values(page) \in SUBSET (MinWord..MaxWord) /\ Values(page) # {}
    BY <1>1, <1>3, <2>1, PageCells DEF Asks
  <2>3. HasPageStats(col, p) /\ stats = LowHigh(Values(page))
    BY <2>1, <2>2 DEF HasPageStats, PageStats, AllNull
  <2>4. /\ leaf.op = "eq" => leaf.lit \in stats.min..stats.max
        /\ leaf.op = "lt" => ~(stats.min >= leaf.lit)
        /\ leaf.op = "gt" => ~(stats.max <= leaf.lit)
    BY <1>1, <1>5, <2>3 DEF LeafSkipsPage
  <2>5. ~BoundsSatisfy(stats, leaf)
    BY <1>1, <1>2, <1>5, <2>3 DEF LeafHoldsOnPage
  <2>6. ForWidth(page) \in 1..(WordBits - 1)
    <3>1. KindBits(col.kind) \in Nat /\ KindBits(col.kind) <= WordBits /\ WordBits \in Nat
      BY DEF KindBits, Asks, WidthAssumption
    <3> HIDE DEF col, page
    <3> QED BY <2>1, <3>1
  <2> HIDE DEF i, col, page, stats
  <2>7. stats.min = Min(Values(page)) /\ stats.max = Max(Values(page)) /\ stats.min \in Values(page) /\ stats.max \in Values(page)
    BY <2>2, <2>3, BoundsHold DEF Asks
  <2>8. stats.min \in Int /\ stats.max \in Int /\ leaf.lit \in Int
    BY <2>2, <2>7 DEF Asks, LeafOK
  <2>9. /\ leaf.op = "eq" => leaf.lit \in Min(Values(page))..Max(Values(page))
        /\ leaf.op = "lt" => Min(Values(page)) < leaf.lit /\ leaf.lit <= Max(Values(page))
        /\ leaf.op = "gt" => Min(Values(page)) <= leaf.lit /\ leaf.lit < Max(Values(page))
    BY <2>4, <2>5, <2>7, <2>8 DEF BoundsSatisfy
  <2> QED BY <1>3, <1>5, <2>2, <2>6, <2>9, ResidualsTell DEF Asks
<1>6. ASSUME leaf.kind # "int64", NEW r \in DOMAIN page
      PROVE  Compares(leaf.op, page[r], leaf.lit) <=> EvalLeaf(leaf, page[r])
  BY <1>3 DEF EvalLeaf
<1> HIDE DEF page
<1>7. EncodedRows(seg, p, leaf) = {r \in DOMAIN page : EvalLeaf(leaf, page[r])}
  BY <1>4, <1>5, <1>6
<1> QED BY <1>7 DEF page

\* The rows of a column are finitely many, and what they hold.
LEMMA RowsFinite ==
    ASSUME NEW seg, SegmentOK(seg), NEW i \in DOMAIN seg.cols
    PROVE  IsFiniteSet(Rows(seg.cols[i]))
<1> DEFINE pages == seg.cols[i].pages
           D == DOMAIN pages
           f == [p \in D |-> {p} \X DOMAIN pages[p]]
           Image == {f[p] : p \in D}
<1>1. pages \in Seq(Seq(Storable(seg.cols[i].kind)))
  BY DEF SegmentOK
<1> HIDE DEF pages
<1>2. Len(pages) \in Nat /\ D = 1..Len(pages)
  BY <1>1
<1>3. IsFiniteSet(D)
  BY <1>2, FS_Interval
<1>4. ASSUME NEW p \in D
      PROVE  IsFiniteSet({p} \X DOMAIN pages[p])
  <2>1. Len(pages[p]) \in Nat /\ DOMAIN pages[p] = 1..Len(pages[p])
    BY <1>1
  <2>2. IsFiniteSet(DOMAIN pages[p])
    BY <2>1, FS_Interval
  <2>3. IsFiniteSet({p})
    BY FS_Singleton
  <2> QED BY <2>2, <2>3, FS_Product
<1>5. IsFiniteSet(Image)
  <2>1. f \in Surjection(D, Image)
    BY DEF Surjection
  <2> QED BY <1>3, <2>1, FS_Surjection
<1>6. \A S \in Image : IsFiniteSet(S)
  BY <1>4
<1>7. IsFiniteSet(UNION Image)
  BY <1>5, <1>6, FS_UNION
<1>8. Rows(seg.cols[i]) = UNION Image
  BY DEF Rows, pages
<1> QED BY <1>7, <1>8

LEMMA RowCells ==
    ASSUME NullAssumption, WidthAssumption, NEW seg, SegmentOK(seg), NEW i \in DOMAIN seg.cols,
           NEW pos \in Rows(seg.cols[i])
    PROVE  LET col == seg.cols[i]
               page == col.pages[pos[1]]
           IN  /\ Cell(col, pos) # Null => Cell(col, pos) \in Int /\ ~AllNull(page)
               /\ AllValid(page) => Cell(col, pos) # Null /\ Cell(col, pos) \in Analyzed(col)
               /\ col.kind \in IntKinds => Analyzed(col) \in SUBSET (MinWord..MaxWord)
<1> DEFINE col == seg.cols[i]
<1>1. \A x \in Rows(col) : x[1] \in DOMAIN col.pages /\ x[2] \in DOMAIN col.pages[x[1]]
  BY DEF Rows
<1>2. ASSUME NEW x \in Rows(col)
      PROVE  LET page == col.pages[x[1]]
             IN  /\ Cell(col, x) # Null => Cell(col, x) \in Int /\ Cell(col, x) \in Values(page)
                 /\ AllValid(page) => Cell(col, x) # Null
                 /\ col.kind \in IntKinds => Values(page) \subseteq MinWord..MaxWord
  BY <1>1, PageCells DEF Cell
<1>3. ASSUME col.kind \in IntKinds
      PROVE  Analyzed(col) \in SUBSET (MinWord..MaxWord)
  <2> SUFFICES ASSUME NEW x \in AnalyzedRows(col) PROVE Cell(col, x) \in MinWord..MaxWord
    BY DEF Analyzed
  <2>1. x \in Rows(col) /\ AllValid(col.pages[x[1]])
    BY DEF AnalyzedRows
  <2> QED BY <1>2, <1>3, <2>1
<1>4. AllValid(col.pages[pos[1]]) => Cell(col, pos) \in Analyzed(col)
  BY DEF Analyzed, AnalyzedRows
<1>5. Cell(col, pos) # Null => ~AllNull(col.pages[pos[1]])
  BY <1>2 DEF AllNull
<1> QED BY <1>2, <1>3, <1>4, <1>5

\* A column whose statistics cover its values, and are read as they were written.
Covered(col, leaf) ==
    /\ \A p \in DOMAIN col.pages : ~Mixed(col.pages[p])
    /\ leaf.kind = "int64" => col.kind = "int64"

\* PruneSegment: a segment that is skipped for a column of int64 or text, none of
\* whose pages mixes NULLs with values, has no row that satisfies the comparison.
\* With such a page it may have one: see SkipsSound in Scan.
THEOREM SkippedSegmentsHoldNothing ==
    ASSUME NEW seg, NEW leaf, Asks(seg, leaf), Covered(seg.cols[Find(seg, leaf)], leaf),
           LeafSkipsSegment(seg, leaf)
    PROVE  LET col == seg.cols[Find(seg, leaf)]
           IN  \A pos \in Rows(col) : ~EvalLeaf(leaf, Cell(col, pos))
<1> DEFINE i == Find(seg, leaf)
           col == seg.cols[i]
           stats == StatsReadAsInt64(col)
<1> SUFFICES ASSUME NEW pos \in Rows(col), EvalLeaf(leaf, Cell(col, pos)) PROVE FALSE
  OBVIOUS
<1> DEFINE v == Cell(col, pos)
<1>1. i \in DOMAIN seg.cols
  BY Found DEF LeafSkipsSegment, Asks
<1>2. v # Null
  BY DEF EvalLeaf
<1>3. v \in Int /\ ~AllNull(col.pages[pos[1]])
  BY <1>1, <1>2, RowCells DEF Asks
<1>4. pos[1] \in DOMAIN col.pages
  BY DEF Rows
<1>5. AllValid(col.pages[pos[1]])
  BY <1>3, <1>4 DEF Covered, Mixed
<1>6. v \in Analyzed(col)
  BY <1>1, <1>5, RowCells DEF Asks
<1>7. CASE leaf.kind = "text"
  <2> DEFINE S == {x \in AnalyzedRows(col) : Cell(col, x) = leaf.lit}
  <2>1. leaf.op = "eq" /\ Cardinality(S) = 0
    BY <1>7 DEF LeafSkipsSegment, Histogram
  <2>2. pos \in S
    BY <1>5, <2>1 DEF EvalLeaf, Compares, AnalyzedRows
  <2>3. S \subseteq Rows(col)
    BY DEF AnalyzedRows
  <2>4. IsFiniteSet(S)
    BY <1>1, <2>3, RowsFinite, FS_Subset DEF Asks
  <2> HIDE DEF S
  <2>5. S = {}
    BY <2>1, <2>4, FS_EmptySet
  <2> QED BY <2>2, <2>5
<1>8. CASE leaf.kind = "int64"
  <2>1. col.kind = "int64"
    BY <1>8 DEF Covered
  <2>2. stats = LowHigh(Analyzed(col))
    BY <2>1 DEF StatsReadAsInt64, ColumnStats
  <2>3. Analyzed(col) \in SUBSET (MinWord..MaxWord) /\ Analyzed(col) # {}
    BY <1>1, <1>6, <2>1, RowCells DEF Asks, IntKinds
  <2>4. \/ leaf.op = "eq" /\ (leaf.lit \notin stats.min..stats.max \/ leaf.lit \notin Analyzed(col))
        \/ leaf.op = "lt" /\ stats.min >= leaf.lit
        \/ leaf.op = "gt" /\ stats.max <= leaf.lit
    BY <1>8 DEF LeafSkipsSegment, IntFilterRejects
  <2>5. leaf.op = "eq" => v = leaf.lit
    BY DEF EvalLeaf, Compares
  <2>6. EvalLeaf(leaf, v)
    OBVIOUS
  <2> HIDE DEF i, col, stats, v
  <2>7. stats.min \in Int /\ stats.max \in Int /\ stats.min <= v /\ v <= stats.max
    BY <1>6, <2>2, <2>3, BoundsHold DEF Asks
  <2>8. CASE leaf.op = "eq" /\ leaf.lit \notin Analyzed(col)
    BY <1>6, <2>5, <2>8
  <2>9. CASE ~(leaf.op = "eq" /\ leaf.lit \notin Analyzed(col))
    BY <1>2, <1>3, <1>8, <2>4, <2>6, <2>7, <2>9, WithinBounds DEF Asks
  <2> QED BY <2>8, <2>9
<1> QED BY <1>7, <1>8 DEF Asks, LeafOK

\* childAlwaysMatchesSegment: every row of a segment that is taken as a whole
\* satisfies the comparison, for a column of int64.
THEOREM CertainSegmentsHoldAll ==
    ASSUME NEW seg, NEW leaf, Asks(seg, leaf), seg.cols[Find(seg, leaf)].kind = "int64",
           LeafHoldsOnSegment(seg, leaf)
    PROVE  LET col == seg.cols[Find(seg, leaf)]
           IN  \A pos \in Rows(col) : EvalLeaf(leaf, Cell(col, pos))
<1> DEFINE i == Find(seg, leaf)
           col == seg.cols[i]
           stats == StatsReadAsInt64(col)
<1> SUFFICES ASSUME NEW pos \in Rows(col) PROVE EvalLeaf(leaf, Cell(col, pos))
  OBVIOUS
<1> DEFINE v == Cell(col, pos)
<1>1. i # 0 /\ leaf.kind = "int64" /\ NullRows(col) = {} /\ BoundsSatisfy(stats, leaf)
  BY DEF LeafHoldsOnSegment
<1>2. i \in DOMAIN seg.cols
  BY <1>1, Found DEF Asks
<1>3. \A x \in Rows(col) : Cell(col, x) # Null
  BY <1>1 DEF NullRows
<1>4. pos[1] \in DOMAIN col.pages
  BY DEF Rows
<1>5. AllValid(col.pages[pos[1]])
  <2> DEFINE page == col.pages[pos[1]]
  <2> SUFFICES ASSUME NEW r \in DOMAIN page PROVE page[r] # Null
    BY DEF AllValid
  <2>1. <<pos[1], r>> \in Rows(col)
    BY <1>4 DEF Rows
  <2>2. Cell(col, <<pos[1], r>>) = page[r]
    BY DEF Cell
  <2> QED BY <1>3, <2>1, <2>2
<1>6. v \in Analyzed(col) /\ v # Null /\ v \in Int
  BY <1>2, <1>3, <1>5, RowCells DEF Asks
<1>7. Analyzed(col) \in SUBSET (MinWord..MaxWord) /\ Analyzed(col) # {}
  BY <1>2, <1>6, RowCells DEF Asks, IntKinds
<1>8. stats = LowHigh(Analyzed(col))
  BY DEF StatsReadAsInt64, ColumnStats
<1> HIDE DEF i, col, stats, v
<1>9. stats.min \in Int /\ stats.max \in Int /\ stats.min <= v /\ v <= stats.max
  BY <1>6, <1>7, <1>8, BoundsHold DEF Asks
<1>10. EvalLeaf(leaf, v)
  BY <1>1, <1>6, <1>9, WithinBounds DEF Asks
<1> QED BY <1>10 DEF v, col, i

-----------------------------------------------------------------------------
(* The table and its segments, under the statements and ALTERs               *)

ColumnsOK ==
    /\ columns \in Seq(Column) /\ columns # <<>> /\ nextId \in Nat
    /\ \A i, j \in DOMAIN columns : i # j =>
          columns[i].id # columns[j].id /\ columns[i].name # columns[j].name
    /\ \A i \in DOMAIN columns : columns[i].id < nextId

\* A segment on its own: pages of the same sizes in all columns, each cell one
\* that was inserted, and none but its own rows deleted.
Shaped(seg) ==
    /\ IsSequence(seg.cols) /\ 1 \in DOMAIN seg.cols
    /\ \A i \in DOMAIN seg.cols :
          /\ seg.cols[i].kind \in Kinds /\ seg.cols[i].id \in Nat
          /\ seg.cols[i].pages \in Seq(Seq(CellsOf[seg.cols[i].kind]))
          /\ DOMAIN seg.cols[i].pages = DOMAIN seg.cols[1].pages
          /\ \A p \in DOMAIN seg.cols[1].pages :
                DOMAIN seg.cols[i].pages[p] = DOMAIN seg.cols[1].pages[p]
    /\ \A i, j \in DOMAIN seg.cols : i # j => seg.cols[i].id # seg.cols[j].id
    /\ seg.dead \subseteq SegRows(seg)

\* Between the definition of the table now and a column written under an older
\* one: ids are not given twice, and only an int32 has another kind since.
Descends(col) ==
    /\ col.id < nextId
    /\ \A j \in DOMAIN columns : columns[j].id = col.id =>
          \/ columns[j].kind = col.kind
          \/ col.kind = "int32" /\ columns[j].kind = "int64"

SegmentsOK ==
    /\ IsSequence(segments)
    /\ \A s \in DOMAIN segments :
          /\ Shaped(segments[s])
          /\ \A i \in DOMAIN segments[s].cols : Descends(segments[s].cols[i])

TableInv == ColumnsOK /\ SegmentsOK /\ alters \in 0..MaxAlters

LEMMA TableInitInv == ASSUME TableAssumption, TableInit PROVE TableInv
<1>1. /\ columns \in FirstColumns /\ segments = <<>> /\ nextId = Len(columns) + 1 /\ alters = 0
  BY DEF TableInit
<1>2. columns \in Seq(Column) /\ MaxAlters \in Nat
  BY <1>1 DEF TableAssumption
<1>3. Len(columns) \in Nat /\ nextId \in Nat
  BY <1>1, <1>2
<1>4. /\ columns # <<>> /\ \A i \in DOMAIN columns : columns[i].id <= Len(columns)
      /\ \A i, j \in DOMAIN columns : i # j => columns[i].id # columns[j].id /\ columns[i].name # columns[j].name
  BY <1>1 DEF TableAssumption
<1>5. \A i \in DOMAIN columns : columns[i].id \in Nat
  <2>1. \A i \in DOMAIN columns : columns[i] \in Column
    BY <1>2
  <2> QED BY <2>1 DEF Column
<1>6. \A i \in DOMAIN columns : columns[i].id < nextId
  BY <1>1, <1>3, <1>4, <1>5
<1>7. ColumnsOK
  BY <1>2, <1>3, <1>4, <1>6 DEF ColumnsOK
<1>8. SegmentsOK
  BY <1>1, EmptySequence DEF SegmentsOK
<1> QED BY <1>1, <1>2, <1>7, <1>8 DEF TableInv

\* The pages that are written for a column.
LEMMA PagesWritten ==
    ASSUME NEW k \in Nat, NEW sizes, DOMAIN sizes = 1..k, \A p \in 1..k : sizes[p] \in Nat,
           NEW kind, NEW pages \in PagesOf(kind, sizes)
    PROVE  /\ pages \in Seq(Seq(CellsOf[kind])) /\ DOMAIN pages = 1..k
           /\ \A p \in 1..k : DOMAIN pages[p] = 1..sizes[p]
<1> DEFINE C == CellsOf[kind]
<1>1. /\ pages \in [1..k -> UNION {[1..sizes[p] -> C] : p \in 1..k}]
      /\ \A p \in 1..k : Len(pages[p]) = sizes[p]
  BY DEF PagesOf
<1> HIDE DEF C
<1>2. ASSUME NEW p \in 1..k
      PROVE  pages[p] \in Seq(C) /\ DOMAIN pages[p] = 1..sizes[p]
  <2>1. PICK q \in 1..k : pages[p] \in [1..sizes[q] -> C]
    BY <1>1
  <2>2. sizes[q] \in Nat
    OBVIOUS
  <2>3. pages[p] \in Seq(C) /\ Len(pages[p]) = sizes[q]
    BY <2>1, <2>2
  <2> QED BY <1>1, <2>1, <2>3
<1>3. pages \in [1..k -> Seq(C)]
  BY <1>1, <1>2
<1> QED BY <1>2, <1>3 DEF C

LEMMA InsertInv == ASSUME TableAssumption, TableInv, Insert PROVE TableInv'
<1>1. PICK n \in 1..(MaxRows - RowCount) : \E sizes \in PageSizes(n), packed \in BOOLEAN :
         \E pages \in [DOMAIN columns -> UNION {PagesOf(columns[i].kind, sizes) : i \in DOMAIN columns}] :
            /\ \A i \in DOMAIN columns : pages[i] \in PagesOf(columns[i].kind, sizes)
            /\ segments' = Append(segments, Written(pages, packed))
  BY DEF Insert
<1>2. PICK sizes \in PageSizes(n), packed \in BOOLEAN :
         \E pages \in [DOMAIN columns -> UNION {PagesOf(columns[i].kind, sizes) : i \in DOMAIN columns}] :
            /\ \A i \in DOMAIN columns : pages[i] \in PagesOf(columns[i].kind, sizes)
            /\ segments' = Append(segments, Written(pages, packed))
  BY <1>1
<1>3. PICK pages : /\ \A i \in DOMAIN columns : pages[i] \in PagesOf(columns[i].kind, sizes)
                   /\ segments' = Append(segments, Written(pages, packed))
  BY <1>2
<1>4. UNCHANGED <<columns, nextId, alters>>
  BY DEF Insert
<1>5. PICK k \in 1..MaxPages : sizes \in [1..k -> 1..n]
  BY DEF PageSizes
<1>6. k \in Nat /\ DOMAIN sizes = 1..k /\ \A p \in 1..k : sizes[p] \in Nat
  <2>1. MaxPages \in Nat /\ n \in Int
    BY DEF TableAssumption
  <2> QED BY <1>5, <2>1
<1> DEFINE seg == Written(pages, packed)
           m == Len(columns)
<1>7. m \in Nat \ {0} /\ DOMAIN columns = 1..m /\ \A i \in 1..m : columns[i] \in Column
  BY DEF TableInv, ColumnsOK
<1>8. /\ seg.cols = [i \in 1..m |-> [name |-> columns[i].name, id |-> columns[i].id, kind |-> columns[i].kind,
                                    pages |-> pages[i], packed |-> packed]]
      /\ seg.dead = {}
  BY <1>7 DEF Written
<1> HIDE DEF seg, m
<1>9. /\ IsSequence(seg.cols) /\ DOMAIN seg.cols = 1..m
      /\ \A i \in 1..m : /\ seg.cols[i].kind = columns[i].kind /\ seg.cols[i].id = columns[i].id
                         /\ seg.cols[i].pages = pages[i]
  <2> DEFINE cols == seg.cols
  <2>1. cols = [i \in 1..m |-> cols[i]]
    BY <1>8
  <2> HIDE DEF cols
  <2>2. IsSequence(cols)
    BY <1>7, <2>1, Listing
  <2> QED BY <1>8, <2>2 DEF cols
<1>10. ASSUME NEW i \in 1..m
       PROVE  /\ pages[i] \in Seq(Seq(CellsOf[columns[i].kind])) /\ DOMAIN pages[i] = 1..k
              /\ \A p \in 1..k : DOMAIN pages[i][p] = 1..sizes[p]
  <2> DEFINE kind == columns[i].kind
             own == pages[i]
  <2>1. own \in PagesOf(kind, sizes)
    BY <1>3, <1>7
  <2> HIDE DEF kind, own
  <2>2. /\ own \in Seq(Seq(CellsOf[kind])) /\ DOMAIN own = 1..k
        /\ \A p \in 1..k : DOMAIN own[p] = 1..sizes[p]
    BY <1>6, <2>1, PagesWritten
  <2> QED BY <2>2 DEF kind, own
<1>11. Shaped(seg)
  <2>1. 1 \in 1..m
    BY <1>7
  <2>2. \A i \in 1..m : columns[i].kind \in Kinds /\ columns[i].id \in Nat
    BY <1>7 DEF Column
  <2>3. \A i, j \in 1..m : i # j => columns[i].id # columns[j].id
    BY <1>7 DEF TableInv, ColumnsOK
  <2>4. seg.dead \subseteq SegRows(seg)
    BY <1>8
  <2>5. ASSUME NEW i \in DOMAIN seg.cols
        PROVE  /\ seg.cols[i].kind \in Kinds /\ seg.cols[i].id \in Nat
               /\ seg.cols[i].pages \in Seq(Seq(CellsOf[seg.cols[i].kind]))
               /\ DOMAIN seg.cols[i].pages = DOMAIN seg.cols[1].pages
               /\ \A p \in DOMAIN seg.cols[1].pages :
                     DOMAIN seg.cols[i].pages[p] = DOMAIN seg.cols[1].pages[p]
    <3>1. /\ seg.cols[i].kind = columns[i].kind /\ seg.cols[i].id = columns[i].id
          /\ seg.cols[i].pages = pages[i] /\ seg.cols[1].pages = pages[1] /\ i \in 1..m
      BY <1>9, <2>1
    <3>2. /\ pages[i] \in Seq(Seq(CellsOf[columns[i].kind])) /\ DOMAIN pages[i] = DOMAIN pages[1]
          /\ \A p \in DOMAIN pages[1] : DOMAIN pages[i][p] = DOMAIN pages[1][p]
      BY <1>10, <2>1, <3>1
    <3> QED BY <2>2, <3>1, <3>2
  <2>6. \A i, j \in DOMAIN seg.cols : i # j => seg.cols[i].id # seg.cols[j].id
    BY <1>9, <2>3
  <2> QED BY <1>9, <2>1, <2>4, <2>5, <2>6 DEF Shaped
<1>12. \A i \in DOMAIN seg.cols : Descends(seg.cols[i])
  <2> SUFFICES ASSUME NEW i \in 1..m, NEW j \in 1..m, columns[j].id = columns[i].id
               PROVE  columns[j].kind = columns[i].kind
    BY <1>7, <1>9 DEF TableInv, ColumnsOK, Descends
  <2> QED BY <1>7 DEF TableInv, ColumnsOK
<1>13. SegmentsOK'
  <2>1. IsSequence(segments)
    BY DEF TableInv, SegmentsOK
  <2>2. /\ IsSequence(segments') /\ DOMAIN segments = 1..Len(segments)
        /\ DOMAIN segments' = 1..(Len(segments) + 1)
        /\ \A s \in 1..Len(segments) : segments'[s] = segments[s]
        /\ segments'[Len(segments) + 1] = seg /\ Len(segments) \in Nat
    BY <1>3, <2>1, Appending, SequenceLength DEF seg
  <2>3. ASSUME NEW s \in DOMAIN segments'
        PROVE  Shaped(segments'[s]) /\ \A i \in DOMAIN segments'[s].cols : Descends(segments'[s].cols[i])
    <3>1. CASE s \in 1..Len(segments)
      BY <2>2, <3>1 DEF TableInv, SegmentsOK
    <3>2. CASE s = Len(segments) + 1
      BY <1>11, <1>12, <2>2, <3>2
    <3> QED BY <2>2, <3>1, <3>2
  <2> QED BY <1>4, <2>2, <2>3 DEF SegmentsOK, Shaped, Descends
<1> QED BY <1>4, <1>13 DEF TableInv, ColumnsOK

LEMMA DeleteInv == ASSUME TableInv, Delete PROVE TableInv'
<1>1. PICK s \in DOMAIN segments : \E hits \in SUBSET LiveRows(segments[s]) :
         segments' = [segments EXCEPT ![s].dead = @ \cup hits]
  BY DEF Delete
<1>2. PICK hits \in SUBSET LiveRows(segments[s]) : segments' = [segments EXCEPT ![s].dead = @ \cup hits]
  BY <1>1
<1>3. UNCHANGED <<columns, nextId, alters>>
  BY DEF Delete
<1> DEFINE seg == [segments[s] EXCEPT !.dead = @ \cup hits]
<1>4. seg.cols = segments[s].cols /\ seg.dead \subseteq segments[s].dead \cup hits
  OBVIOUS
<1>5. segments' = [segments EXCEPT ![s] = seg]
  BY <1>2
<1>6. Shaped(segments[s]) /\ \A i \in DOMAIN segments[s].cols : Descends(segments[s].cols[i])
  BY DEF TableInv, SegmentsOK
<1> HIDE DEF seg
<1>7. Shaped(seg)
  <2>1. SegRows(seg) = SegRows(segments[s]) /\ hits \subseteq SegRows(segments[s])
    BY <1>4 DEF SegRows, LiveRows
  <2> QED BY <1>4, <1>6, <2>1 DEF Shaped
<1>8. IsSequence(segments')
  <2> DEFINE n == Len(segments)
  <2>1. n \in Nat /\ DOMAIN segments = 1..n
    BY SequenceLength DEF TableInv, SegmentsOK
  <2> HIDE DEF n
  <2>2. segments' = [x \in 1..n |-> segments'[x]]
    BY <1>5, <2>1
  <2> QED BY <2>1, <2>2, Listing
<1>9. ASSUME NEW x \in DOMAIN segments'
      PROVE  Shaped(segments'[x]) /\ \A i \in DOMAIN segments'[x].cols : Descends(segments'[x].cols[i])
  <2>1. x \in DOMAIN segments /\ segments'[x] = IF x = s THEN seg ELSE segments[x]
    BY <1>5
  <2>2. CASE x = s
    BY <1>4, <1>6, <1>7, <2>1, <2>2
  <2>3. CASE x # s
    BY <2>1, <2>3 DEF TableInv, SegmentsOK
  <2> QED BY <2>2, <2>3
<1>10. SegmentsOK'
  BY <1>3, <1>8, <1>9 DEF SegmentsOK, Shaped, Descends
<1> QED BY <1>3, <1>10 DEF TableInv, ColumnsOK

\* A column keeps its kind, but for an int32 that becomes an int64.
Continues(new, old) == /\ new.id = old.id
                       /\ \/ new.kind = old.kind
                          \/ old.kind = "int32" /\ new.kind = "int64"

LEMMA AlterInv ==
    ASSUME TableAssumption, TableInv, Alter, ColumnsOK', nextId <= nextId',
           \A j \in DOMAIN columns' : columns'[j].id < nextId =>
              \E i \in DOMAIN columns : Continues(columns'[j], columns[i])
    PROVE  TableInv'
<1>1. UNCHANGED segments /\ alters' \in 0..MaxAlters
  BY DEF Alter, TableInv, TableAssumption
<1>2. nextId \in Nat /\ nextId' \in Nat
  BY DEF TableInv, ColumnsOK
<1>3. ASSUME NEW s \in DOMAIN segments, NEW i \in DOMAIN segments[s].cols
      PROVE  Descends(segments[s].cols[i])'
  <2> DEFINE col == segments[s].cols[i]
  <2>1. Descends(col) /\ col.id \in Nat
    BY DEF TableInv, SegmentsOK, Shaped
  <2>2. col.id < nextId'
    BY <1>2, <2>1 DEF Descends
  <2>3. ASSUME NEW j \in DOMAIN columns', columns'[j].id = col.id
        PROVE  \/ columns'[j].kind = col.kind
               \/ col.kind = "int32" /\ columns'[j].kind = "int64"
    <3>1. PICK c \in DOMAIN columns : Continues(columns'[j], columns[c])
      BY <2>1, <2>3 DEF Descends
    <3>2. columns[c].id = col.id
      BY <2>3, <3>1 DEF Continues
    <3>3. columns[c].kind = col.kind \/ (col.kind = "int32" /\ columns[c].kind = "int64")
      BY <2>1, <3>2 DEF Descends
    <3> HIDE DEF col
    <3> QED BY <3>1, <3>3 DEF Continues
  <2>4. UNCHANGED col
    BY <1>1
  <2> HIDE DEF col
  <2>5. Descends(col)'
    BY <2>2, <2>3, <2>4 DEF Descends
  <2> QED BY <2>5 DEF col
<1>4. SegmentsOK'
  <2>1. ASSUME NEW s \in DOMAIN segments' PROVE Shaped(segments'[s])
    BY <1>1 DEF TableInv, SegmentsOK
  <2>2. IsSequence(segments')
    BY <1>1 DEF TableInv, SegmentsOK
  <2> QED BY <1>1, <1>3, <2>1, <2>2 DEF SegmentsOK, Shaped
<1> QED BY <1>1, <1>4 DEF TableInv

LEMMA AddColumnInv == ASSUME TableAssumption, TableInv, AddColumn PROVE TableInv'
<1>1. PICK name \in Names, kind \in Kinds : \E default \in Defaults[kind] :
         /\ Unused(name)
         /\ columns' = Append(columns, [name |-> name, id |-> nextId, kind |-> kind, default |-> default])
  BY DEF AddColumn
<1>2. PICK default \in Defaults[kind] :
         /\ Unused(name)
         /\ columns' = Append(columns, [name |-> name, id |-> nextId, kind |-> kind, default |-> default])
  BY <1>1
<1> DEFINE new == [name |-> name, id |-> nextId, kind |-> kind, default |-> default]
           n == Len(columns)
<1>3. nextId \in Nat /\ columns \in Seq(Column) /\ columns # <<>>
  BY DEF TableInv, ColumnsOK
<1>4. new \in Column /\ new.id = nextId /\ new.name = name
  BY <1>3 DEF Column
<1>5. columns' = Append(columns, new)
  BY <1>2
<1> HIDE DEF new
<1>6. /\ columns' \in Seq(Column) /\ DOMAIN columns = 1..n /\ DOMAIN columns' = 1..(n + 1) /\ n \in Nat
      /\ \A i \in 1..n : columns'[i] = columns[i] /\ columns[i] \in Column
      /\ columns'[n + 1] = new
  BY <1>3, <1>4, <1>5
<1> HIDE DEF n
<1>7. nextId' = nextId + 1 /\ Alter
  BY DEF AddColumn
<1>8. columns' # <<>>
  BY <1>6
<1>9. \A i \in 1..n : columns[i].id \in Nat /\ columns[i].id < nextId /\ columns[i].name # name
  BY <1>2, <1>6 DEF Column, TableInv, ColumnsOK, Unused
<1>10. ASSUME NEW i \in DOMAIN columns', NEW j \in DOMAIN columns', i # j
       PROVE  columns'[i].id # columns'[j].id /\ columns'[i].name # columns'[j].name
  <2>1. CASE i \in 1..n /\ j \in 1..n
    BY <1>6, <1>10, <2>1 DEF TableInv, ColumnsOK
  <2>2. CASE i \in 1..n /\ j = n + 1
    BY <1>3, <1>4, <1>6, <1>9, <2>2
  <2>3. CASE i = n + 1 /\ j \in 1..n
    BY <1>3, <1>4, <1>6, <1>9, <2>3
  <2> QED BY <1>6, <1>10, <2>1, <2>2, <2>3
<1>11. \A i \in DOMAIN columns' : columns'[i].id < nextId'
  <2> SUFFICES ASSUME NEW i \in DOMAIN columns' PROVE columns'[i].id < nextId'
    OBVIOUS
  <2>1. i \in 1..n \/ i = n + 1
    BY <1>6
  <2> QED BY <1>3, <1>4, <1>6, <1>7, <1>9, <2>1
<1>12. ColumnsOK'
  BY <1>3, <1>6, <1>7, <1>8, <1>10, <1>11 DEF ColumnsOK
<1>13. \A j \in DOMAIN columns' : columns'[j].id < nextId => \E i \in DOMAIN columns : Continues(columns'[j], columns[i])
  <2> SUFFICES ASSUME NEW j \in DOMAIN columns', columns'[j].id < nextId
               PROVE  \E i \in DOMAIN columns : Continues(columns'[j], columns[i])
    OBVIOUS
  <2>1. j # n + 1
    BY <1>3, <1>4, <1>6
  <2>2. j \in DOMAIN columns /\ columns'[j] = columns[j]
    BY <1>6, <2>1
  <2> QED BY <2>2 DEF Continues
<1>14. nextId <= nextId'
  BY <1>3, <1>7
<1> QED BY <1>7, <1>12, <1>13, <1>14, AlterInv

\* One column is another record, under the same id.
LEMMA ColumnReplaced ==
    ASSUME TableAssumption, TableInv, Alter, UNCHANGED nextId, NEW i \in DOMAIN columns, NEW new \in Column,
           columns' = [columns EXCEPT ![i] = new], Continues(new, columns[i]),
           \A j \in DOMAIN columns : j # i => columns[j].name # new.name
    PROVE  TableInv'
<1>1. /\ columns \in Seq(Column) /\ columns # <<>> /\ nextId \in Nat
      /\ \A a, b \in DOMAIN columns : a # b => columns[a].id # columns[b].id /\ columns[a].name # columns[b].name
      /\ \A a \in DOMAIN columns : columns[a].id < nextId
  BY DEF TableInv, ColumnsOK
<1>2. columns' \in Seq(Column) /\ DOMAIN columns' = DOMAIN columns
  BY <1>1
<1>3. \A j \in DOMAIN columns : columns'[j] = IF j = i THEN new ELSE columns[j]
  BY <1>1
<1>4. columns' # <<>>
  <2>1. i \in DOMAIN columns'
    BY <1>2
  <2> QED BY <2>1
<1>5. new.id = columns[i].id
  BY DEF Continues
<1>6. ASSUME NEW a \in DOMAIN columns', NEW b \in DOMAIN columns', a # b
      PROVE  columns'[a].id # columns'[b].id /\ columns'[a].name # columns'[b].name
  BY <1>1, <1>2, <1>3, <1>5, <1>6
<1>7. \A a \in DOMAIN columns' : columns'[a].id < nextId'
  BY <1>1, <1>2, <1>3, <1>5
<1>8. ColumnsOK'
  BY <1>1, <1>2, <1>4, <1>6, <1>7 DEF ColumnsOK
<1>9. \A j \in DOMAIN columns' : \E k \in DOMAIN columns : Continues(columns'[j], columns[k])
  <2> SUFFICES ASSUME NEW j \in DOMAIN columns PROVE Continues(columns'[j], columns[j])
    BY <1>2
  <2> QED BY <1>3 DEF Continues
<1>10. nextId <= nextId'
  BY <1>1
<1> QED BY <1>8, <1>9, <1>10, AlterInv

LEMMA RenameColumnInv == ASSUME TableAssumption, TableInv, RenameColumn PROVE TableInv'
<1>1. PICK i \in DOMAIN columns, name \in Names :
         Unused(name) /\ columns' = [columns EXCEPT ![i].name = name]
  BY DEF RenameColumn
<1> DEFINE new == [columns[i] EXCEPT !.name = name]
<1>2. columns[i] \in Column
  BY DEF TableInv, ColumnsOK
<1>3. new \in Column /\ Continues(new, columns[i]) /\ new.name = name
  BY <1>2 DEF Column, Continues
<1>4. columns' = [columns EXCEPT ![i] = new]
  BY <1>1
<1>5. Alter /\ UNCHANGED nextId
  BY DEF RenameColumn
<1> HIDE DEF new
<1>6. \A j \in DOMAIN columns : j # i => columns[j].name # new.name
  BY <1>1, <1>3 DEF Unused
<1> QED BY <1>3, <1>4, <1>5, <1>6, ColumnReplaced

LEMMA WidenColumnInv == ASSUME TableAssumption, TableInv, WidenColumn PROVE TableInv'
<1>1. PICK i \in DOMAIN columns :
         columns[i].kind = "int32" /\ columns' = [columns EXCEPT ![i].kind = "int64"]
  BY DEF WidenColumn
<1> DEFINE new == [columns[i] EXCEPT !.kind = "int64"]
<1>2. columns[i] \in Column
  BY DEF TableInv, ColumnsOK
<1>3. new \in Column /\ Continues(new, columns[i]) /\ new.name = columns[i].name
  BY <1>1, <1>2 DEF Column, Continues, Kinds
<1>4. columns' = [columns EXCEPT ![i] = new]
  BY <1>1
<1>5. Alter /\ UNCHANGED nextId
  BY DEF WidenColumn
<1> HIDE DEF new
<1>6. \A j \in DOMAIN columns : j # i => columns[j].name # new.name
  BY <1>3 DEF TableInv, ColumnsOK
<1> QED BY <1>3, <1>4, <1>5, <1>6, ColumnReplaced

LEMMA DropColumnInv == ASSUME TableAssumption, TableInv, DropColumn PROVE TableInv'
<1>1. PICK i \in DOMAIN columns : columns' = RemoveAt(columns, i)
  BY DEF DropColumn
<1>2. Len(columns) > 1 /\ Alter /\ UNCHANGED nextId
  BY DEF DropColumn
<1> DEFINE n == Len(columns)
<1>3. /\ columns \in Seq(Column) /\ nextId \in Nat /\ DOMAIN columns = 1..n /\ n \in Nat
      /\ \A a, b \in DOMAIN columns : a # b => columns[a].id # columns[b].id /\ columns[a].name # columns[b].name
      /\ \A a \in DOMAIN columns : columns[a].id < nextId
  BY DEF TableInv, ColumnsOK
<1>4. /\ columns' \in Seq(Column) /\ DOMAIN columns' = 1..(n - 1)
      /\ \A k \in DOMAIN columns' : LET j == IF k < i THEN k ELSE k + 1
                                    IN  j \in DOMAIN columns /\ columns'[k] = columns[j]
  BY <1>1, <1>3, RemovedAt
<1> HIDE DEF n
<1>5. columns' # <<>>
  <2>1. 1 \in DOMAIN columns'
    BY <1>2, <1>3, <1>4 DEF n
  <2> QED BY <2>1
<1>6. ASSUME NEW a \in DOMAIN columns', NEW b \in DOMAIN columns', a # b
      PROVE  columns'[a].id # columns'[b].id /\ columns'[a].name # columns'[b].name
  <2> DEFINE j(k) == IF k < i THEN k ELSE k + 1
  <2>1. a \in Nat /\ b \in Nat /\ i \in Nat
    BY <1>3, <1>4
  <2>2. j(a) # j(b)
    BY <1>6, <2>1
  <2>3. j(a) \in DOMAIN columns /\ j(b) \in DOMAIN columns /\ columns'[a] = columns[j(a)] /\ columns'[b] = columns[j(b)]
    BY <1>4
  <2> HIDE DEF j
  <2> QED BY <1>3, <2>2, <2>3
<1>7. \A a \in DOMAIN columns' : columns'[a].id < nextId'
  BY <1>2, <1>3, <1>4
<1>8. ColumnsOK'
  BY <1>2, <1>3, <1>4, <1>5, <1>6, <1>7 DEF ColumnsOK
<1>9. \A k \in DOMAIN columns' : \E j \in DOMAIN columns : Continues(columns'[k], columns[j])
  BY <1>4 DEF Continues
<1>10. nextId <= nextId'
  BY <1>2, <1>3
<1> QED BY <1>2, <1>8, <1>9, <1>10, AlterInv

LEMMA TableStep == ASSUME TableAssumption, TableInv, [TableNext]_tableVars PROVE TableInv'
<1>1. CASE UNCHANGED tableVars
  <2>1. UNCHANGED <<columns, segments, nextId, alters>>
    BY <1>1 DEF tableVars
  <2> QED BY <2>1 DEF TableInv, ColumnsOK, SegmentsOK, Shaped, Descends
<1>2. CASE TableNext
  BY <1>2, InsertInv, DeleteInv, AddColumnInv, RenameColumnInv, DropColumnInv, WidenColumnInv DEF TableNext
<1> QED BY <1>1, <1>2

\* The rows of a segment, as every column of it has them.
LEMMA SameRows ==
    ASSUME NEW seg, Shaped(seg), NEW i \in DOMAIN seg.cols
    PROVE  Rows(seg.cols[i]) = SegRows(seg)
<1>1. /\ DOMAIN seg.cols[i].pages = DOMAIN seg.cols[1].pages
      /\ \A p \in DOMAIN seg.cols[1].pages : DOMAIN seg.cols[i].pages[p] = DOMAIN seg.cols[1].pages[p]
  BY DEF Shaped
<1>2. ASSUME NEW p \in DOMAIN seg.cols[1].pages
      PROVE  {p} \X DOMAIN seg.cols[i].pages[p] = {p} \X DOMAIN seg.cols[1].pages[p]
  BY <1>1
<1> QED BY <1>1, <1>2 DEF Rows, SegRows

LEMMA TableInvTypes == ASSUME TableInv PROVE TableTypeOK
<1>1. ASSUME NEW s \in DOMAIN segments
      PROVE  LET seg == segments[s]
             IN /\ \A i, j \in DOMAIN seg.cols :
                      /\ Rows(seg.cols[i]) = Rows(seg.cols[j])
                      /\ i # j => seg.cols[i].id # seg.cols[j].id
                /\ \A i \in DOMAIN seg.cols : /\ seg.cols[i].id < nextId
                                              /\ \A pos \in Rows(seg.cols[i]) :
                                                    Cell(seg.cols[i], pos) \in CellsOf[seg.cols[i].kind]
                /\ seg.dead \subseteq SegRows(seg)
  <2> DEFINE seg == segments[s]
  <2>1. Shaped(seg) /\ \A i \in DOMAIN seg.cols : seg.cols[i].id < nextId
    BY DEF TableInv, SegmentsOK, Descends
  <2> HIDE DEF seg
  <2>2. \A i, j \in DOMAIN seg.cols : Rows(seg.cols[i]) = Rows(seg.cols[j])
    BY <2>1, SameRows
  <2>3. ASSUME NEW i \in DOMAIN seg.cols, NEW pos \in Rows(seg.cols[i])
        PROVE  Cell(seg.cols[i], pos) \in CellsOf[seg.cols[i].kind]
    <3> DEFINE C == CellsOf[seg.cols[i].kind]
               pages == seg.cols[i].pages
    <3>1. pages \in Seq(Seq(C))
      BY <2>1 DEF Shaped
    <3>2. pos[1] \in DOMAIN pages /\ pos[2] \in DOMAIN pages[pos[1]]
      BY DEF Rows
    <3> HIDE DEF C, pages
    <3>3. pages[pos[1]] \in Seq(C)
      BY <3>1, <3>2
    <3>4. pages[pos[1]][pos[2]] \in C
      BY <3>2, <3>3
    <3> QED BY <3>4 DEF C, pages, Cell
  <2>4. (\A i, j \in DOMAIN seg.cols : i # j => seg.cols[i].id # seg.cols[j].id) /\ seg.dead \subseteq SegRows(seg)
    BY <2>1 DEF Shaped
  <2> QED BY <2>1, <2>2, <2>3, <2>4 DEF seg
<1> QED BY <1>1 DEF TableInv, ColumnsOK, TableTypeOK

LEMMA TableInvariance == ASSUME TableAssumption PROVE TableSpec => []TableInv
<1>1. TableInit => TableInv
  BY TableInitInv
<1>2. TableInv /\ [TableNext]_tableVars => TableInv'
  BY TableStep
<1> QED BY <1>1, <1>2, PTL DEF TableSpec

\* The columns of the table keep distinct names and ids below the counter, those
\* of a segment line up, and deletion vectors kill rows that exist, for any
\* inserts, deletes and ALTERs.
THEOREM TableTypes == ASSUME TableAssumption PROVE TableSpec => []TableTypeOK
<1>1. TableInv => TableTypeOK
  BY TableInvTypes
<1> QED BY <1>1, TableInvariance, PTL

-----------------------------------------------------------------------------
(* Finding a column in the segments, and the rows there are                  *)

Premises == TableAssumption /\ NullAssumption /\ WidthAssumption

LEMMA FirstIs ==
    ASSUME NEW S, S \subseteq Nat \ {0}
    PROVE  /\ First(S) # 0 <=> S # {}
           /\ S # {} => First(S) \in S
<1>1. CASE S = {}
  BY <1>1 DEF First
<1>2. CASE S # {}
  <2>1. S \subseteq Nat
    OBVIOUS
  <2>2. Min(S) \in S
    BY <1>2, <2>1, MinOfSome
  <2>3. First(S) = Min(S)
    BY <1>2 DEF First
  <2> HIDE DEF First
  <2> QED BY <1>2, <2>2, <2>3
<1> QED BY <1>1, <1>2

LEMMA ShapedSegment ==
    ASSUME Premises, NEW seg, Shaped(seg)
    PROVE  SegmentOK(seg)
<1> SUFFICES ASSUME NEW i \in DOMAIN seg.cols PROVE seg.cols[i].pages \in Seq(Seq(Storable(seg.cols[i].kind)))
  BY DEF Shaped, SegmentOK
<1> DEFINE kind == seg.cols[i].kind
           pages == seg.cols[i].pages
           C == CellsOf[kind]
           D == Storable(kind)
<1>1. kind \in Kinds /\ pages \in Seq(Seq(C))
  BY DEF Shaped
<1>2. C \subseteq D
  BY <1>1 DEF Premises, TableAssumption
<1> HIDE DEF kind, pages, C, D
<1>3. \A x \in Seq(C) : x \in Seq(D)
  BY <1>2
<1>4. pages \in Seq(Seq(D))
  BY <1>1, <1>3
<1> QED BY <1>4 DEF kind, pages, D

LEMMA ColumnIs ==
    ASSUME TableInv, NEW id \in ColumnIds
    PROVE  \E i \in DOMAIN columns : ColumnOf(id) = columns[i] /\ columns[i].id = id
<1>1. \E c \in {columns[i] : i \in DOMAIN columns} : c.id = id
  BY DEF ColumnIds
<1>2. ColumnOf(id) \in {columns[i] : i \in DOMAIN columns} /\ ColumnOf(id).id = id
  BY <1>1 DEF ColumnOf
<1> QED BY <1>2

\* Every lookup finds the one column with the id, or the first with the name.
LEMMA Lookups ==
    ASSUME NEW seg, Shaped(seg), NEW id, NEW name
    PROVE  /\ ById(seg, id) # 0 => ById(seg, id) \in DOMAIN seg.cols /\ seg.cols[ById(seg, id)].id = id
           /\ ByName(seg, name) # 0 => ByName(seg, name) \in DOMAIN seg.cols /\ seg.cols[ByName(seg, name)].name = name
           /\ \A i \in DOMAIN seg.cols : seg.cols[i].id = id => ById(seg, id) = i
           /\ \A i \in DOMAIN seg.cols : seg.cols[i].name = name => ByName(seg, name) # 0
<1> DEFINE Named == {i \in DOMAIN seg.cols : seg.cols[i].name = name}
           WithId == {i \in DOMAIN seg.cols : seg.cols[i].id = id}
<1>1. DOMAIN seg.cols \subseteq Nat \ {0}
  <2>1. Len(seg.cols) \in Nat /\ DOMAIN seg.cols = 1..Len(seg.cols)
    BY SequenceLength DEF Shaped
  <2> QED BY <2>1
<1>2. ById(seg, id) = First(WithId) /\ ByName(seg, name) = First(Named)
  BY DEF ById, ByName
<1>3. Named \subseteq Nat \ {0} /\ WithId \subseteq Nat \ {0}
  BY <1>1
<1>4. /\ First(WithId) # 0 => First(WithId) \in WithId
      /\ First(Named) # 0 => First(Named) \in Named
      /\ Named # {} => First(Named) # 0
      /\ WithId # {} => First(WithId) \in WithId
  <2> HIDE DEF Named, WithId
  <2> QED BY <1>3, FirstIs
<1>5. \A i \in WithId : First(WithId) = i
  BY <1>4 DEF Shaped
<1> QED BY <1>2, <1>4, <1>5

\* A column nothing shadows is the same by name and by id.
LEMMA KnownColumn ==
    ASSUME TableInv, NEW id \in ColumnIds, NotShadowed(id), NEW s \in DOMAIN segments,
           ByName(segments[s], ColumnOf(id).name) # 0
    PROVE  /\ ByName(segments[s], ColumnOf(id).name) \in DOMAIN segments[s].cols
           /\ ById(segments[s], id) = ByName(segments[s], ColumnOf(id).name)
           /\ ById(segments[s], id) # 0
           /\ ColOf(s, ColumnOf(id).name) = segments[s].cols[ById(segments[s], id)]
<1> DEFINE name == ColumnOf(id).name
           seg == segments[s]
           i == ByName(seg, name)
<1>1. Shaped(seg)
  BY DEF TableInv, SegmentsOK
<1>2. i \in DOMAIN seg.cols /\ seg.cols[i].name = name
  <2> HIDE DEF seg, name
  <2> QED BY <1>1, Lookups DEF name, seg
<1>3. seg.cols[i].id = id
  BY <1>2 DEF NotShadowed
<1>4. ById(seg, id) = i
  <2> HIDE DEF seg, i
  <2> QED BY <1>1, <1>2, <1>3, Lookups
<1>5. ById(seg, id) # 0 /\ ColOf(s, name) = seg.cols[i]
  BY <1>4 DEF ColOf
<1> QED BY <1>2, <1>4, <1>5

LEMMA Tagged ==
    ASSUME NEW s, NEW L, IsFiniteSet(L)
    PROVE  IsFiniteSet({s} \X L) /\ Cardinality({s} \X L) = Cardinality(L)
<1>1. IsFiniteSet({s}) /\ Cardinality({s}) = 1
  BY FS_Singleton
<1>2. IsFiniteSet({s} \X L) /\ Cardinality({s} \X L) = Cardinality({s}) * Cardinality(L)
  BY <1>1, FS_Product
<1>3. Cardinality(L) \in Nat
  BY FS_CardinalityType
<1> QED BY <1>1, <1>2, <1>3

\* Rows by segment.
LiveAt == [s \in DOMAIN segments |-> {s} \X LiveRows(segments[s])]

LEMMA PositionsAre ==
    ASSUME Premises, TableInv
    PROVE  /\ IsFiniteSet(DOMAIN segments) /\ IsFiniteSet(Positions)
           /\ Apart(LiveAt, DOMAIN segments)
           /\ Positions = UNION {LiveAt[s] : s \in DOMAIN segments}
           /\ \A s \in DOMAIN segments : /\ IsFiniteSet(SegRows(segments[s])) /\ IsFiniteSet(LiveRows(segments[s]))
                                         /\ IsFiniteSet(LiveAt[s])
                                         /\ Cardinality(LiveAt[s]) = Cardinality(LiveRows(segments[s]))
<1> DEFINE D == DOMAIN segments
<1>1. IsFiniteSet(D)
  <2>1. Len(segments) \in Nat /\ D = 1..Len(segments)
    BY SequenceLength DEF TableInv, SegmentsOK
  <2> QED BY <2>1, FS_Interval
<1>2. ASSUME NEW s \in D
      PROVE  IsFiniteSet(SegRows(segments[s])) /\ IsFiniteSet(LiveRows(segments[s]))
  <2>1. Shaped(segments[s])
    BY DEF TableInv, SegmentsOK
  <2>2. SegmentOK(segments[s])
    BY <2>1, ShapedSegment
  <2>3. 1 \in DOMAIN segments[s].cols
    BY <2>1 DEF Shaped
  <2>4. IsFiniteSet(SegRows(segments[s]))
    BY <2>2, <2>3, RowsFinite DEF SegRows
  <2>5. LiveRows(segments[s]) \in SUBSET SegRows(segments[s])
    BY DEF LiveRows
  <2> QED BY <2>4, <2>5, FS_Subset
<1>3. ASSUME NEW s \in D
      PROVE  IsFiniteSet(LiveAt[s]) /\ Cardinality(LiveAt[s]) = Cardinality(LiveRows(segments[s]))
  <2> DEFINE L == LiveRows(segments[s])
  <2>1. LiveAt[s] = {s} \X L /\ IsFiniteSet(L)
    BY <1>2 DEF LiveAt
  <2> HIDE DEF L
  <2>2. IsFiniteSet({s} \X L) /\ Cardinality({s} \X L) = Cardinality(L)
    BY <2>1, Tagged
  <2> QED BY <2>1, <2>2 DEF L
<1>4. Apart(LiveAt, D)
  BY DEF Apart, LiveAt
<1>5. Positions = UNION {LiveAt[s] : s \in D}
  BY DEF Positions, LiveAt
<1>6. IsFiniteSet(Positions)
  <2> DEFINE size == [s \in D |-> Cardinality(LiveAt[s])]
  <2>1. \A s \in D : size[s] = Cardinality(LiveAt[s])
    OBVIOUS
  <2>2. \A s \in D : IsFiniteSet(LiveAt[s])
    BY <1>3
  <2> HIDE DEF D, size
  <2>3. IsFiniteSet(UNION {LiveAt[s] : s \in D})
    BY <1>1, <1>4, <2>1, <2>2, SizeOfParts
  <2> QED BY <1>5, <2>3
<1> QED BY <1>1, <1>2, <1>3, <1>4, <1>5, <1>6

\* What a row holds in a column that its segment has.
LEMMA ValueIs ==
    ASSUME Premises, TableInv, NEW id \in ColumnIds, NEW pos \in Positions, ById(segments[pos[1]], id) # 0
    PROVE  LET seg == segments[pos[1]]
               col == seg.cols[ById(seg, id)]
           IN  /\ pos[1] \in DOMAIN segments /\ Shaped(seg) /\ ById(seg, id) \in DOMAIN seg.cols
               /\ Value(pos, id) = Cell(col, pos[2]) /\ pos[2] \in Rows(col) /\ pos[2] \notin seg.dead
               /\ Value(pos, id) \in Int \cup {Null}
               /\ pos[2][1] \in DOMAIN col.pages /\ pos[2][2] \in DOMAIN col.pages[pos[2][1]]
               /\ Value(pos, id) = col.pages[pos[2][1]][pos[2][2]]
<1> DEFINE seg == segments[pos[1]]
           i == ById(seg, id)
           col == seg.cols[i]
<1>1. pos[1] \in DOMAIN segments /\ pos[2] \in LiveRows(seg)
  BY DEF Positions
<1>2. Shaped(seg)
  BY <1>1 DEF TableInv, SegmentsOK
<1>3. i \in DOMAIN seg.cols
  <2> HIDE DEF seg
  <2> QED BY <1>2, Lookups DEF seg
<1>4. Value(pos, id) = Cell(col, pos[2])
  BY DEF Value
<1>5. pos[2] \in Rows(col) /\ pos[2] \notin seg.dead
  <2>1. Rows(col) = SegRows(seg)
    <3> HIDE DEF seg, i
    <3> QED BY <1>2, <1>3, SameRows
  <2> QED BY <1>1, <2>1 DEF LiveRows
<1>6. pos[2][1] \in DOMAIN col.pages /\ pos[2][2] \in DOMAIN col.pages[pos[2][1]]
  BY <1>5 DEF Rows
<1>7. Cell(col, pos[2]) \in Int \cup {Null}
  <2>1. SegmentOK(seg)
    BY <1>2, ShapedSegment
  <2> HIDE DEF seg, i
  <2> QED BY <1>3, <1>5, <2>1, RowCells DEF Premises
<1> QED BY <1>1, <1>2, <1>3, <1>4, <1>5, <1>6, <1>7 DEF Cell

-----------------------------------------------------------------------------
(* ORDER BY ... LIMIT leaves out only pages with enough rows before them     *)

\* What TopKPages computes of the pages of the column with the name.
StatsOf(name) == [page \in AllPages |-> PageStats(ColOf(page[1], name), page[2])]
SizesOf(name) == [page \in AllPages |-> Len(ColOf(page[1], name).pages[page[2]])]
RowsOf(name) == [page \in AllPages |-> {page[1]} \X ({page[2]} \X DOMAIN ColOf(page[1], name).pages[page[2]])]

\* Every segment has the column, of integers and without NULLs, and all its rows.
Prunable(id) ==
    /\ id \in ColumnIds /\ NotShadowed(id)
    /\ \A s \in DOMAIN segments : /\ segments[s].dead = {}
                                  /\ ByName(segments[s], ColumnOf(id).name) # 0
                                  /\ ColOf(s, ColumnOf(id).name).kind \in IntKinds
                                  /\ NullRows(ColOf(s, ColumnOf(id).name)) = {}

LEMMA PrunablePages ==
    ASSUME Premises, TableInv, NEW id, Prunable(id)
    PROVE  LET name == ColumnOf(id).name
           IN  /\ IsFiniteSet(AllPages) /\ Apart(RowsOf(name), AllPages)
               /\ \A page \in AllPages :
                     /\ StatsOf(name)[page].min \in Int /\ StatsOf(name)[page].max \in Int
                     /\ StatsOf(name)[page].min <= StatsOf(name)[page].max
                     /\ IsFiniteSet(RowsOf(name)[page])
                     /\ SizesOf(name)[page] = Cardinality(RowsOf(name)[page])
                     /\ \A pos \in RowsOf(name)[page] : pos \in Positions /\ <<pos[1], pos[2][1]>> = page
               /\ \A pos \in Positions :
                     /\ <<pos[1], pos[2][1]>> \in AllPages /\ Value(pos, id) \in Int
                     /\ StatsOf(name)[<<pos[1], pos[2][1]>>].min <= Value(pos, id)
                     /\ Value(pos, id) <= StatsOf(name)[<<pos[1], pos[2][1]>>].max
<1> DEFINE name == ColumnOf(id).name
           stats == StatsOf(name)
           rows == RowsOf(name)
           D == DOMAIN segments
           col(s) == ColOf(s, name)
<1>1. ASSUME NEW s \in D
      PROVE  /\ Shaped(segments[s]) /\ SegmentOK(segments[s])
             /\ ById(segments[s], id) # 0 /\ ById(segments[s], id) \in DOMAIN segments[s].cols
             /\ col(s) = segments[s].cols[ById(segments[s], id)]
             /\ DOMAIN col(s).pages = DOMAIN segments[s].cols[1].pages
  <2>1. Shaped(segments[s])
    BY DEF TableInv, SegmentsOK
  <2>2. SegmentOK(segments[s])
    BY <2>1, ShapedSegment
  <2>3. /\ ById(segments[s], id) # 0 /\ ById(segments[s], id) \in DOMAIN segments[s].cols
        /\ col(s) = segments[s].cols[ById(segments[s], id)]
    BY KnownColumn DEF Prunable
  <2> HIDE DEF col
  <2>4. DOMAIN col(s).pages = DOMAIN segments[s].cols[1].pages
    BY <2>1, <2>3 DEF Shaped
  <2> QED BY <2>1, <2>2, <2>3, <2>4
<1>2. \A page \in AllPages : page[1] \in D /\ page[2] \in DOMAIN col(page[1]).pages /\ page = <<page[1], page[2]>>
  BY <1>1 DEF AllPages
<1>3. IsFiniteSet(AllPages)
  <2> DEFINE part == [s \in D |-> {s} \X DOMAIN segments[s].cols[1].pages]
             size == [s \in D |-> Cardinality(part[s])]
  <2>1. ASSUME NEW s \in D PROVE IsFiniteSet(part[s])
    <3> DEFINE pages == segments[s].cols[1].pages
    <3>1. pages \in Seq(Seq(CellsOf[segments[s].cols[1].kind]))
      BY <1>1 DEF Shaped
    <3>2. Len(pages) \in Nat /\ DOMAIN pages = 1..Len(pages)
      BY <3>1
    <3> HIDE DEF pages
    <3>3. IsFiniteSet(DOMAIN pages)
      BY <3>2, FS_Interval
    <3>4. IsFiniteSet({s} \X DOMAIN pages)
      BY <3>3, FS_Singleton, FS_Product
    <3> QED BY <3>4 DEF pages
  <2>2. IsFiniteSet(D)
    BY PositionsAre
  <2>3. Apart(part, D)
    BY DEF Apart
  <2>4. AllPages = UNION {part[s] : s \in D}
    BY DEF AllPages
  <2>5. \A s \in D : size[s] = Cardinality(part[s])
    OBVIOUS
  <2> HIDE DEF part, size, D
  <2>6. IsFiniteSet(UNION {part[s] : s \in D})
    BY <2>1, <2>2, <2>3, <2>5, SizeOfParts
  <2> QED BY <2>4, <2>6
<1>4. Apart(rows, AllPages)
  <2> SUFFICES ASSUME NEW p \in AllPages, NEW q \in AllPages, p # q PROVE rows[p] \cap rows[q] = {}
    BY DEF Apart
  <2>1. p[1] # q[1] \/ p[2] # q[2]
    BY <1>2
  <2> QED BY <2>1 DEF RowsOf
<1>5. ASSUME NEW s \in D, NEW p \in DOMAIN col(s).pages
      PROVE  LET page == col(s).pages[p]
             IN  /\ Len(page) \in Nat /\ DOMAIN page = 1..Len(page)
                 /\ LowHigh(Values(page)).min \in Int /\ LowHigh(Values(page)).max \in Int
                 /\ LowHigh(Values(page)).min <= LowHigh(Values(page)).max
                 /\ \A r \in DOMAIN page : /\ page[r] \in Int
                                           /\ LowHigh(Values(page)).min <= page[r]
                                           /\ page[r] <= LowHigh(Values(page)).max
  <2> DEFINE page == col(s).pages[p]
             c == col(s)
             i == ById(segments[s], id)
             seg == segments[s]
  <2>1. c = seg.cols[i] /\ i \in DOMAIN seg.cols /\ SegmentOK(seg)
    BY <1>1
  <2>2. c.kind \in IntKinds /\ NullRows(c) = {}
    BY DEF Prunable
  <2>3. c.pages \in Seq(Seq(Storable(c.kind)))
    BY <2>1 DEF SegmentOK
  <2>4. Len(page) \in Nat /\ DOMAIN page = 1..Len(page)
    BY <2>3
  <2>5. Values(page) \in SUBSET (MinWord..MaxWord) /\ \A r \in DOMAIN page : page[r] # Null => page[r] \in Values(page)
    <3>1. p \in DOMAIN seg.cols[i].pages
      BY <2>1
    <3>2. LET k == seg.cols[i]
              g == k.pages[p]
          IN  /\ \A r \in DOMAIN g : g[r] # Null => g[r] \in Values(g)
              /\ k.kind \in IntKinds => Values(g) \subseteq MinWord..MaxWord
      <4> HIDE DEF seg, i
      <4> QED BY <2>1, <3>1, PageCells DEF Premises
    <3> QED BY <2>1, <2>2, <3>2
  <2>6. ASSUME NEW r \in DOMAIN page PROVE page[r] \in Values(page)
    <3>1. <<p, r>> \in Rows(c)
      BY DEF Rows
    <3>2. page[r] # Null
      BY <2>2, <3>1 DEF NullRows, Cell
    <3> QED BY <2>5, <3>2
  <2> HIDE DEF page, c, col
  <2>7. CASE Values(page) = {}
    <3>1. LowHigh(Values(page)).min = 0 /\ LowHigh(Values(page)).max = 0
      BY <2>7 DEF LowHigh
    <3> QED BY <2>4, <2>6, <2>7, <3>1 DEF page
  <2>8. CASE Values(page) # {}
    <3> DEFINE V == Values(page)
    <3>1. LowHigh(V).min \in V /\ LowHigh(V).max \in V /\ \A x \in V : LowHigh(V).min <= x /\ x <= LowHigh(V).max
      BY <2>5, <2>8, BoundsHold DEF Premises
    <3>2. \A x \in V : x \in Int
      BY <2>5, Words DEF Premises
    <3> HIDE DEF V
    <3>3. LowHigh(V).min \in Int /\ LowHigh(V).max \in Int /\ LowHigh(V).min <= LowHigh(V).max
      BY <3>1, <3>2
    <3> QED BY <2>4, <2>6, <3>1, <3>2, <3>3 DEF V, page
  <2> QED BY <2>7, <2>8
<1>6. ASSUME NEW page \in AllPages
      PROVE  /\ stats[page].min \in Int /\ stats[page].max \in Int /\ stats[page].min <= stats[page].max
             /\ IsFiniteSet(rows[page]) /\ SizesOf(name)[page] = Cardinality(rows[page])
             /\ \A pos \in rows[page] : pos \in Positions /\ <<pos[1], pos[2][1]>> = page
  <2> DEFINE s == page[1]
             p == page[2]
             cells == col(s).pages[p]
  <2>1. s \in D /\ p \in DOMAIN col(s).pages /\ page = <<s, p>>
    BY <1>2
  <2>2. /\ stats[page] = LowHigh(Values(cells)) /\ SizesOf(name)[page] = Len(cells)
        /\ rows[page] = {s} \X ({p} \X DOMAIN cells)
    BY DEF StatsOf, PageStats, SizesOf, RowsOf
  <2>3. /\ Len(cells) \in Nat /\ DOMAIN cells = 1..Len(cells)
        /\ LowHigh(Values(cells)).min \in Int /\ LowHigh(Values(cells)).max \in Int
        /\ LowHigh(Values(cells)).min <= LowHigh(Values(cells)).max
    BY <1>5, <2>1
  <2>4. IsFiniteSet({s} \X ({p} \X (1..Len(cells)))) /\ Cardinality({s} \X ({p} \X (1..Len(cells)))) = Len(cells)
    <3> DEFINE n == Len(cells)
               I == 1..n
    <3>1. n \in Nat
      BY <2>3
    <3> HIDE DEF n
    <3>2. IsFiniteSet(I) /\ Cardinality(I) = n
      BY <3>1, IntervalCount
    <3> HIDE DEF I, s, p
    <3>3. IsFiniteSet({p} \X I) /\ Cardinality({p} \X I) = n
      BY <3>2, Tagged
    <3>4. IsFiniteSet({s} \X ({p} \X I)) /\ Cardinality({s} \X ({p} \X I)) = n
      BY <3>3, Tagged
    <3> QED BY <3>4 DEF I, n
  <2>5. ASSUME NEW pos \in rows[page]
        PROVE  pos \in Positions /\ <<pos[1], pos[2][1]>> = page
    <3>1. pos[1] = s /\ pos[2][1] = p /\ pos[2][2] \in DOMAIN cells /\ pos = <<pos[1], pos[2]>> /\ pos[2] = <<pos[2][1], pos[2][2]>>
      BY <2>2
    <3>2. pos[2] \in Rows(col(s))
      BY <2>1, <3>1 DEF Rows
    <3>3. Rows(col(s)) = SegRows(segments[s])
      <4> HIDE DEF col, s
      <4> QED BY <1>1, <2>1, SameRows
    <3>4. pos[2] \in LiveRows(segments[s])
      BY <2>1, <3>2, <3>3 DEF LiveRows, Prunable
    <3> QED BY <2>1, <3>1, <3>4 DEF Positions
  <2> HIDE DEF cells, stats, rows
  <2> QED BY <2>2, <2>3, <2>4, <2>5
<1>7. ASSUME NEW pos \in Positions
      PROVE  LET page == <<pos[1], pos[2][1]>>
             IN  /\ page \in AllPages /\ Value(pos, id) \in Int
                 /\ stats[page].min <= Value(pos, id) /\ Value(pos, id) <= stats[page].max
  <2> DEFINE s == pos[1]
             p == pos[2][1]
             r == pos[2][2]
  <2>1. s \in D
    BY DEF Positions
  <2>2. id \in ColumnIds
    BY DEF Prunable
  <2>3. p \in DOMAIN col(s).pages /\ r \in DOMAIN col(s).pages[p] /\ Value(pos, id) = col(s).pages[p][r]
    BY <1>1, <2>1, <2>2, ValueIs
  <2>4. <<s, p>> \in AllPages
    BY <1>1, <2>1, <2>3 DEF AllPages
  <2>5. stats[<<s, p>>] = LowHigh(Values(col(s).pages[p]))
    BY <2>4 DEF StatsOf, PageStats
  <2> HIDE DEF s, p, r, stats, col
  <2>6. /\ Value(pos, id) \in Int
        /\ stats[<<s, p>>].min <= Value(pos, id) /\ Value(pos, id) <= stats[<<s, p>>].max
    BY <1>5, <2>1, <2>3, <2>5
  <2> QED BY <2>4, <2>6 DEF s, p
<1> QED BY <1>3, <1>4, <1>6, <1>7

\* Bounds as statistics hold them.
Bounds(stats, A) ==
    /\ A = DOMAIN stats
    /\ \A p \in A : stats[p].min \in Int /\ stats[p].max \in Int /\ stats[p].min <= stats[p].max

LEMMA BetterIsOrder ==
    ASSUME NEW stats, NEW A, Bounds(stats, A), NEW desc, NEW q \in A, NEW p \in BetterPages(stats, q, desc)
    PROVE  /\ p \in A /\ p \notin BetterPages(stats, p, desc)
           /\ BetterPages(stats, p, desc) \subseteq BetterPages(stats, q, desc)
<1>1. \A x \in A : stats[x].min \in Int /\ stats[x].max \in Int /\ stats[x].min <= stats[x].max
  BY DEF Bounds
<1>2. p \in A /\ IF desc THEN stats[p].min > stats[q].max ELSE stats[p].max < stats[q].min
  BY DEF Bounds, BetterPages
<1>3. p \notin BetterPages(stats, p, desc)
  BY <1>1, <1>2 DEF BetterPages
<1>4. ASSUME NEW x \in BetterPages(stats, p, desc) PROVE x \in BetterPages(stats, q, desc)
  <2>1. x \in A /\ IF desc THEN stats[x].min > stats[p].max ELSE stats[x].max < stats[p].min
    BY DEF Bounds, BetterPages
  <2>2. IF desc THEN stats[x].min > stats[q].max ELSE stats[x].max < stats[q].min
    BY <1>1, <1>2, <2>1
  <2> QED BY <2>1, <2>2 DEF Bounds, BetterPages
<1> QED BY <1>2, <1>3, <1>4

\* Of the pages left out, one has no page left out before it: among those before
\* a given one, the one with the fewest pages before it.
LEMMA FirstLeftOut ==
    ASSUME NEW stats, NEW A, Bounds(stats, A), IsFiniteSet(A), NEW desc, NEW kept, NEW page \in A, page \notin kept
    PROVE  \E q \in A : /\ q \notin kept
                        /\ BetterPages(stats, q, desc) \subseteq kept
                        /\ BetterPages(stats, q, desc) \subseteq BetterPages(stats, page, desc)
<1> DEFINE Before(q) == BetterPages(stats, q, desc)
           Out == {q \in Before(page) \cup {page} : q \notin kept}
           Counts == {Cardinality(Before(q)) : q \in Out}
<1>1. \A q \in A : Before(q) \subseteq A
  BY DEF BetterPages, Bounds
<1>2. \A q \in A : \A p \in Before(q) : p \notin Before(p) /\ Before(p) \subseteq Before(q)
  BY BetterIsOrder
<1> HIDE DEF Before
<1>3. page \in Out /\ \A q \in Out : q \in A /\ Before(q) \subseteq Before(page)
  BY <1>1, <1>2
<1>4. \A q \in A : IsFiniteSet(Before(q)) /\ Cardinality(Before(q)) \in Nat
  BY <1>1, FS_Subset, FS_CardinalityType
<1>5. Counts \subseteq Nat /\ Counts # {}
  BY <1>3, <1>4
<1>6. PICK n \in Counts : \A k \in Counts : n <= k
  BY <1>5, LeastOfSome
<1>7. PICK q \in Out : n = Cardinality(Before(q))
  OBVIOUS
<1>8. ASSUME NEW p \in Before(q), p \notin kept PROVE FALSE
  <2>1. p \in A /\ p \in Out
    BY <1>1, <1>3, <1>8
  <2>2. Before(p) \subseteq Before(q) /\ Before(p) # Before(q)
    BY <1>2, <1>3
  <2>3. Cardinality(Before(p)) <= Cardinality(Before(q)) /\ Cardinality(Before(p)) # Cardinality(Before(q))
    BY <1>3, <1>4, <2>2, FS_Subset
  <2>4. Cardinality(Before(q)) <= Cardinality(Before(p))
    BY <1>6, <1>7, <2>1
  <2>5. Cardinality(Before(q)) \in Nat /\ Cardinality(Before(p)) \in Nat
    BY <1>3, <1>4, <2>1
  <2> QED BY <2>3, <2>4, <2>5
<1> QED BY <1>3, <1>8 DEF Before

\* What TopKPages comes to when it leaves a row out.
LEMMA LeavingOut ==
    ASSUME TableInv, NEW id \in ColumnIds, NotShadowed(id), NEW desc, NEW need, NEW pos \in Positions,
           <<pos[1], pos[2][1]>> \notin TopKPages(ColumnOf(id).name, desc, need)
    PROVE  /\ Prunable(id) /\ <<pos[1], pos[2][1]>> \in AllPages
           /\ TopKPages(ColumnOf(id).name, desc, need) =
                 {page \in AllPages :
                    SumFunctionOnSet(SizesOf(ColumnOf(id).name),
                                     BetterPages(StatsOf(ColumnOf(id).name), page, desc)) < need}
<1> DEFINE name == ColumnOf(id).name
           Speaks == \E s \in DOMAIN segments : \/ segments[s].dead # {}
                                                \/ ByName(segments[s], name) = 0
                                                \/ ColOf(s, name).kind \notin IntKinds
                                                \/ NullRows(ColOf(s, name)) # {}
           Few == SumFunctionOnSet(SizesOf(name), AllPages) <= need
           Kept == {page \in AllPages : SumFunctionOnSet(SizesOf(name), BetterPages(StatsOf(name), page, desc)) < need}
<1>1. TopKPages(name, desc, need) = IF Speaks \/ Few THEN AllPages ELSE Kept
  BY DEF TopKPages, SizesOf, StatsOf, ColOf
<1>2. <<pos[1], pos[2][1]>> \in AllPages
  BY DEF Positions, LiveRows, SegRows, Rows, AllPages
<1>3. ~Speaks
  <2> HIDE DEF Few, Kept, Speaks
  <2> QED BY <1>1, <1>2
<1>4. TopKPages(name, desc, need) = Kept
  <2> HIDE DEF Few, Kept, Speaks
  <2> QED BY <1>1, <1>2
<1>5. Prunable(id)
  BY <1>3 DEF Prunable
<1> QED BY <1>2, <1>4, <1>5

\* SelectTopKPages: whatever pages ORDER BY key LIMIT leaves out, a row of them
\* has as many rows strictly before it in the pages that are read as the query
\* asks for. By way of a page that is left out with none before it left out: the
\* rows of the pages before it are enough, and they are all read.
THEOREM TopKIsExact == ASSUME Premises PROVE TableSpec => []TopKExact
<1>1. ASSUME TableInv PROVE TopKExact
  <2> SUFFICES ASSUME NEW id \in IdsOf(IntKinds), NotShadowed(id), NEW desc \in BOOLEAN, NEW need \in 1..3,
                      NEW pos \in Positions,
                      <<pos[1], pos[2][1]>> \notin TopKPages(ColumnOf(id).name, desc, need)
               PROVE  Cardinality({x \in Positions :
                                     /\ <<x[1], x[2][1]>> \in TopKPages(ColumnOf(id).name, desc, need)
                                     /\ IF desc THEN Value(x, id) > Value(pos, id) ELSE Value(x, id) < Value(pos, id)})
                        >= need
    BY DEF TopKExact
  <2> DEFINE name == ColumnOf(id).name
             kept == TopKPages(name, desc, need)
             stats == StatsOf(name)
             size == SizesOf(name)
             rows == RowsOf(name)
             here == <<pos[1], pos[2][1]>>
             Before(q) == BetterPages(stats, q, desc)
             Ahead == {x \in Positions :
                          /\ <<x[1], x[2][1]>> \in kept
                          /\ IF desc THEN Value(x, id) > Value(pos, id) ELSE Value(x, id) < Value(pos, id)}
  <2>1. id \in ColumnIds
    BY DEF IdsOf
  <2>2. /\ Prunable(id) /\ here \in AllPages
        /\ kept = {page \in AllPages : SumFunctionOnSet(size, Before(page)) < need}
    BY <1>1, <2>1, LeavingOut
  <2>3. /\ IsFiniteSet(AllPages) /\ Apart(rows, AllPages)
        /\ \A page \in AllPages :
              /\ stats[page].min \in Int /\ stats[page].max \in Int /\ stats[page].min <= stats[page].max
              /\ IsFiniteSet(rows[page]) /\ size[page] = Cardinality(rows[page])
              /\ \A x \in rows[page] : x \in Positions /\ <<x[1], x[2][1]>> = page
        /\ \A x \in Positions :
              /\ Value(x, id) \in Int
              /\ stats[<<x[1], x[2][1]>>].min <= Value(x, id) /\ Value(x, id) <= stats[<<x[1], x[2][1]>>].max
    BY <1>1, <2>2, PrunablePages
  <2>4. Bounds(stats, AllPages)
    BY <2>3 DEF Bounds, StatsOf
  <2> HIDE DEF kept, stats, size, rows
  <2>5. PICK q \in AllPages : q \notin kept /\ Before(q) \subseteq kept /\ Before(q) \subseteq Before(here)
    <3>1. here \notin kept
      BY DEF kept
    <3>2. here \in AllPages /\ IsFiniteSet(AllPages)
      BY <2>2, <2>3
    <3> HIDE DEF here
    <3>3. \E q \in AllPages : /\ q \notin kept
                              /\ BetterPages(stats, q, desc) \subseteq kept
                              /\ BetterPages(stats, q, desc) \subseteq BetterPages(stats, here, desc)
      BY <2>4, <3>1, <3>2, FirstLeftOut
    <3> QED BY <3>3
  <2>6. Before(q) \subseteq AllPages
    BY <2>4 DEF BetterPages, Bounds
  <2> DEFINE B == Before(q)
             Whole == UNION {rows[p] : p \in B}
  <2>7. IsFiniteSet(Whole) /\ Cardinality(Whole) = SumFunctionOnSet(size, B) /\ Cardinality(Whole) \in Nat
    <3>1. IsFiniteSet(B)
      BY <2>3, <2>6, FS_Subset
    <3>2. Apart(rows, B) /\ (\A p \in B : IsFiniteSet(rows[p])) /\ (\A p \in B : size[p] = Cardinality(rows[p]))
      BY <2>3, <2>6 DEF Apart
    <3> HIDE DEF B
    <3>3. IsFiniteSet(Whole) /\ Cardinality(Whole) = SumFunctionOnSet(size, B)
      BY <3>1, <3>2, SizeOfParts
    <3> QED BY <3>3, FS_CardinalityType
  <2>8. Cardinality(Whole) >= need
    <3>1. ~(SumFunctionOnSet(size, B) < need)
      BY <2>2, <2>5
    <3> HIDE DEF B, Whole
    <3> QED BY <2>7, <3>1
  <2>9. ASSUME NEW x \in Whole PROVE x \in Ahead
    <3>1. PICK p \in B : x \in rows[p]
      OBVIOUS
    <3>2. p \in AllPages /\ p \in kept /\ p \in Before(here)
      BY <2>5, <2>6
    <3>3. x \in Positions /\ <<x[1], x[2][1]>> = p
      BY <2>3, <3>1, <3>2
    <3>4. IF desc THEN stats[p].min > stats[here].max ELSE stats[p].max < stats[here].min
      BY <3>2 DEF BetterPages
    <3> DEFINE v == Value(x, id)
               w == Value(pos, id)
    <3>5. /\ v \in Int /\ stats[p].min <= v /\ v <= stats[p].max
          /\ w \in Int /\ stats[here].min <= w /\ w <= stats[here].max
      BY <2>3, <3>3
    <3>6. /\ stats[p].min \in Int /\ stats[p].max \in Int
          /\ stats[here].min \in Int /\ stats[here].max \in Int
      BY <2>2, <2>3, <3>2
    <3> HIDE DEF v, w, here
    <3>7. IF desc THEN v > w ELSE v < w
      BY <3>4, <3>5, <3>6
    <3> QED BY <3>2, <3>3, <3>7 DEF v, w
  <2>10. IsFiniteSet(Ahead)
    <3>1. IsFiniteSet(Positions)
      BY <1>1, PositionsAre
    <3> QED BY <3>1, FS_Subset
  <2> HIDE DEF B, Whole, Ahead
  <2>11. Whole \subseteq Ahead
    BY <2>9
  <2>12. Cardinality(Whole) <= Cardinality(Ahead) /\ Cardinality(Ahead) \in Nat
    BY <2>10, <2>11, FS_Subset, FS_CardinalityType
  <2>13. Cardinality(Ahead) >= need
    BY <2>7, <2>8, <2>12
  <2> QED BY <2>13 DEF Ahead, kept
<1>2. TableSpec => []TableInv
  BY TableInvariance DEF Premises
<1> QED BY <1>1, <1>2, PTL

-----------------------------------------------------------------------------
(* Aggregates answered from metadata are those of all rows                   *)

\* Per segment, some of its rows and how many they are.
Counts(size, found) ==
    /\ DOMAIN size = DOMAIN segments
    /\ \A s \in DOMAIN segments : /\ found[s] \subseteq LiveRows(segments[s])
                                  /\ size[s] = Cardinality(found[s])

LEMMA CountBySegment ==
    ASSUME Premises, TableInv, NEW size, NEW found, Counts(size, found)
    PROVE  SumFunction(size) = Cardinality({pos \in Positions : pos[2] \in found[pos[1]]})
<1> DEFINE D == DOMAIN segments
           part == [s \in D |-> {s} \X found[s]]
<1>1. IsFiniteSet(D) /\ \A s \in D : IsFiniteSet(LiveRows(segments[s]))
  BY PositionsAre
<1>2. \A s \in D : found[s] \subseteq LiveRows(segments[s]) /\ size[s] = Cardinality(found[s])
  BY DEF Counts
<1>3. ASSUME NEW s \in D PROVE IsFiniteSet(part[s]) /\ size[s] = Cardinality(part[s])
  <2>1. IsFiniteSet(found[s])
    BY <1>1, <1>2, FS_Subset
  <2>2. IsFiniteSet({s} \X found[s]) /\ Cardinality({s} \X found[s]) = Cardinality(found[s])
    BY <2>1, Tagged
  <2> QED BY <1>2, <2>2
<1>4. Apart(part, D)
  BY DEF Apart
<1>5. UNION {part[s] : s \in D} = {pos \in Positions : pos[2] \in found[pos[1]]}
  BY <1>2 DEF Positions
<1>6. SumFunction(size) = SumFunctionOnSet(size, D)
  BY DEF SumFunction, Counts
<1> HIDE DEF part, D
<1>7. Cardinality(UNION {part[s] : s \in D}) = SumFunctionOnSet(size, D)
  BY <1>1, <1>3, <1>4, SizeOfParts
<1> QED BY <1>5, <1>6, <1>7

LEMMA AllRowsCounted == ASSUME Premises, TableInv PROVE CountRows = {Cardinality(Positions)}
<1> DEFINE D == DOMAIN segments
           size == [s \in D |-> Cardinality(SegRows(segments[s])) - Cardinality(segments[s].dead)]
           found == [s \in D |-> LiveRows(segments[s])]
<1>1. ASSUME NEW s \in D PROVE size[s] = Cardinality(found[s])
  <2> DEFINE R == SegRows(segments[s])
             K == segments[s].dead
  <2>1. IsFiniteSet(R)
    BY PositionsAre
  <2>2. K \subseteq R
    BY DEF TableInv, SegmentsOK, Shaped
  <2>3. LiveRows(segments[s]) = R \ K
    BY DEF LiveRows
  <2> HIDE DEF R, K
  <2>4. Cardinality(R \ K) = Cardinality(R) - Cardinality(R \cap K)
    BY <2>1, FS_Difference
  <2>5. R \cap K = K
    BY <2>2
  <2> QED BY <2>3, <2>4, <2>5 DEF R, K
<1>2. Counts(size, found)
  BY <1>1 DEF Counts
<1>3. {pos \in Positions : pos[2] \in found[pos[1]]} = Positions
  BY DEF Positions
<1>4. CountRows = {SumFunction(size)}
  BY DEF CountRows
<1> HIDE DEF size, found
<1>5. SumFunction(size) = Cardinality(Positions)
  BY <1>2, <1>3, CountBySegment
<1> QED BY <1>4, <1>5

\* A segment without a deletion vector that holds the column under its name.
Plain(id, s) ==
    /\ Premises /\ TableInv /\ id \in ColumnIds /\ NotShadowed(id) /\ ~HasDV
    /\ s \in Holding(ColumnOf(id).name)

\* The values of a column.
NonNullRows(col) == {x \in Rows(col) : Cell(col, x) # Null}

LEMMA PlainSegment ==
    ASSUME NEW id, NEW s, Plain(id, s)
    PROVE  LET seg == segments[s]
               col == ColOf(s, ColumnOf(id).name)
           IN  /\ s \in DOMAIN segments /\ ById(seg, id) # 0 /\ SegmentOK(seg)
               /\ ById(seg, id) \in DOMAIN seg.cols /\ col = seg.cols[ById(seg, id)] /\ col.id = id
               /\ Rows(col) = LiveRows(seg) /\ IsFiniteSet(Rows(col))
               /\ \A x \in Rows(col) : <<s, x>> \in Positions /\ Value(<<s, x>>, id) = Cell(col, x)
<1> DEFINE seg == segments[s]
           name == ColumnOf(id).name
           i == ById(seg, id)
           col == ColOf(s, name)
<1>1. Premises /\ TableInv /\ id \in ColumnIds /\ NotShadowed(id) /\ ~HasDV /\ s \in DOMAIN segments /\ ByName(seg, name) # 0
  BY DEF Plain, Holding
<1>2. Shaped(seg)
  BY <1>1 DEF TableInv, SegmentsOK
<1>3. SegmentOK(seg)
  <2> HIDE DEF seg
  <2> QED BY <1>1, <1>2, ShapedSegment
<1>4. i # 0 /\ i \in DOMAIN seg.cols /\ col = seg.cols[i]
  <2>1. /\ ByName(seg, name) \in DOMAIN seg.cols /\ i = ByName(seg, name) /\ i # 0 /\ col = seg.cols[i]
    BY <1>1, KnownColumn
  <2> HIDE DEF i, col
  <2> QED BY <2>1
<1>5. seg.cols[i].id = id
  <2> HIDE DEF seg
  <2> QED BY <1>2, <1>4, Lookups
<1>6. Rows(seg.cols[i]) = SegRows(seg) /\ IsFiniteSet(Rows(seg.cols[i]))
  <2> HIDE DEF seg, i, col
  <2> QED BY <1>2, <1>3, <1>4, SameRows, RowsFinite
<1>7. LiveRows(seg) = SegRows(seg)
  BY <1>1 DEF LiveRows, HasDV
<1>8. \A x \in LiveRows(seg) : <<s, x>> \in Positions
  BY <1>1 DEF Positions
<1>9. \A x : Value(<<s, x>>, id) = Cell(seg.cols[i], x)
  BY <1>4 DEF Value
<1> HIDE DEF i, col, seg
<1>10. i \in DOMAIN seg.cols /\ col = seg.cols[i] /\ col.id = id
  BY <1>4, <1>5
<1>11. Rows(col) = LiveRows(seg) /\ IsFiniteSet(Rows(col)) /\ \A x : Value(<<s, x>>, id) = Cell(col, x)
  BY <1>4, <1>6, <1>7, <1>9
<1>12. \A x \in Rows(col) : <<s, x>> \in Positions /\ Value(<<s, x>>, id) = Cell(col, x)
  BY <1>8, <1>11
<1>13. s \in DOMAIN segments /\ ById(seg, id) # 0
  BY <1>1, <1>4 DEF i
<1> QED BY <1>3, <1>10, <1>11, <1>12, <1>13 DEF i, seg, col, name

LEMMA PlainCells ==
    ASSUME NEW id, NEW s, Plain(id, s)
    PROVE  LET col == ColOf(s, ColumnOf(id).name)
           IN  /\ ColumnOf(id).kind \in IntKinds => col.kind \in IntKinds
               /\ ColumnOf(id).kind = "text" => col.kind = "text"
               /\ \A x \in Rows(col) : Cell(col, x) \in CellsOf[col.kind]
               /\ \A x \in NonNullRows(col) : /\ Cell(col, x) \in Int
                                              /\ col.kind \in IntKinds => Cell(col, x) \in MinWord..MaxWord
               /\ FullyAnalyzed(id) => AnalyzedRows(col) = NonNullRows(col)
<1> DEFINE seg == segments[s]
           col == ColOf(s, ColumnOf(id).name)
           C == CellsOf[col.kind]
<1>1. Premises /\ TableInv /\ id \in ColumnIds
  BY DEF Plain
<1>2. /\ s \in DOMAIN segments /\ ById(seg, id) # 0 /\ SegmentOK(seg)
      /\ ById(seg, id) \in DOMAIN seg.cols /\ col = seg.cols[ById(seg, id)] /\ col.id = id
  BY PlainSegment
<1>3. PICK j \in DOMAIN columns : ColumnOf(id) = columns[j] /\ columns[j].id = id
  BY <1>1, ColumnIs
<1>4. col.kind = ColumnOf(id).kind \/ (col.kind = "int32" /\ ColumnOf(id).kind = "int64")
  <2>1. Descends(seg.cols[ById(seg, id)])
    BY <1>1, <1>2 DEF TableInv, SegmentsOK
  <2> HIDE DEF col, seg
  <2>2. Descends(col)
    BY <1>2, <2>1
  <2> QED BY <1>2, <1>3, <2>2 DEF Descends
<1>5. col.kind \in Kinds /\ col.pages \in Seq(Seq(C))
  <2>1. Shaped(seg)
    BY <1>1, <1>2 DEF TableInv, SegmentsOK
  <2> HIDE DEF seg, col
  <2> QED BY <1>2, <2>1 DEF Shaped
<1>6. C \subseteq Storable(col.kind)
  <2> HIDE DEF col
  <2> QED BY <1>1, <1>5 DEF Premises, TableAssumption
<1>7. Storable(col.kind) \ {Null} \subseteq Int /\ (col.kind \in IntKinds => Storable(col.kind) \ {Null} \subseteq MinWord..MaxWord)
  <2> HIDE DEF col
  <2> QED BY <1>1, StorableWords DEF Premises
<1>8. FullyAnalyzed(id) => \A p \in DOMAIN col.pages : ~Mixed(col.pages[p])
  BY <1>2 DEF FullyAnalyzed
<1> HIDE DEF col, seg
<1>9. ASSUME NEW x \in Rows(col)
      PROVE  /\ x[1] \in DOMAIN col.pages /\ x[2] \in DOMAIN col.pages[x[1]]
             /\ Cell(col, x) = col.pages[x[1]][x[2]] /\ Cell(col, x) \in C
  <2>1. x[1] \in DOMAIN col.pages /\ x[2] \in DOMAIN col.pages[x[1]]
    BY DEF Rows
  <2> HIDE DEF C
  <2>2. col.pages[x[1]] \in Seq(C)
    BY <1>5, <2>1
  <2>3. col.pages[x[1]][x[2]] \in C
    BY <2>1, <2>2
  <2> QED BY <2>1, <2>3 DEF Cell
<1>10. ASSUME NEW x \in NonNullRows(col)
       PROVE  /\ Cell(col, x) \in Int
              /\ col.kind \in IntKinds => Cell(col, x) \in MinWord..MaxWord
  <2>1. x \in Rows(col) /\ Cell(col, x) # Null
    BY DEF NonNullRows
  <2>2. Cell(col, x) \in Storable(col.kind) \ {Null}
    BY <1>6, <1>9, <2>1
  <2> QED BY <1>7, <2>2
<1>11. ASSUME FullyAnalyzed(id), NEW x \in Rows(col)
       PROVE  x \in AnalyzedRows(col) <=> x \in NonNullRows(col)
  <2> DEFINE page == col.pages[x[1]]
  <2>1. x[2] \in DOMAIN page /\ Cell(col, x) = page[x[2]] /\ ~Mixed(page)
    BY <1>8, <1>9, <1>11
  <2>2. (x \in AnalyzedRows(col) <=> AllValid(page)) /\ (x \in NonNullRows(col) <=> Cell(col, x) # Null)
    BY DEF AnalyzedRows, NonNullRows
  <2> HIDE DEF page
  <2>3. AllValid(page) => page[x[2]] # Null
    BY <2>1 DEF AllValid
  <2>4. page[x[2]] # Null => ~AllNull(page)
    BY <2>1 DEF AllNull, Values
  <2> QED BY <2>1, <2>2, <2>3, <2>4 DEF Mixed
<1>12. FullyAnalyzed(id) => AnalyzedRows(col) = NonNullRows(col)
  BY <1>11 DEF AnalyzedRows, NonNullRows
<1> HIDE DEF C
<1>13. \A x \in Rows(col) : Cell(col, x) \in C
  BY <1>9
<1> QED BY <1>4, <1>10, <1>12, <1>13 DEF col, C, IntKinds

LEMMA PlainPosition ==
    ASSUME NEW id, NEW pos \in Positions, Plain(id, pos[1])
    PROVE  LET col == ColOf(pos[1], ColumnOf(id).name)
           IN  /\ pos = <<pos[1], pos[2]>> /\ pos[2] \in Rows(col) /\ Value(pos, id) = Cell(col, pos[2])
<1> DEFINE s == pos[1]
           x == pos[2]
           col == ColOf(s, ColumnOf(id).name)
<1>1. pos = <<s, x>> /\ x \in LiveRows(segments[s])
  BY DEF Positions
<1> HIDE DEF s, x
<1>2. Rows(col) = LiveRows(segments[s]) /\ \A y \in Rows(col) : Value(<<s, y>>, id) = Cell(col, y)
  BY PlainSegment DEF s
<1> HIDE DEF col
<1>3. x \in Rows(col) /\ Value(pos, id) = Cell(col, x)
  BY <1>1, <1>2
<1> QED BY <1>1, <1>3 DEF s, x, col

LEMMA ColumnCounted ==
    ASSUME Premises, TableInv, NEW id \in ColumnIds, NotShadowed(id)
    PROVE  CountColumn(ColumnOf(id).name) \subseteq {Cardinality(NonNull(id))}
<1> DEFINE name == ColumnOf(id).name
           D == DOMAIN segments
           col(s) == ColOf(s, name)
           size == [s \in D |-> Cardinality(Rows(col(s)) \ NullRows(col(s)))]
           found == [s \in D |-> Rows(col(s)) \ NullRows(col(s))]
<1> SUFFICES ASSUME ~HasDV, Holding(name) = D PROVE SumFunction(size) = Cardinality(NonNull(id))
  BY DEF CountColumn
<1>1. \A s \in D : Plain(id, s)
  BY DEF Plain
<1>2. Counts(size, found)
  <2>1. ASSUME NEW s \in D PROVE found[s] \subseteq LiveRows(segments[s]) /\ size[s] = Cardinality(found[s])
    <3>1. Rows(col(s)) = LiveRows(segments[s])
      BY <1>1, PlainSegment
    <3> QED BY <3>1
  <2> QED BY <2>1 DEF Counts
<1>3. ASSUME NEW pos \in Positions PROVE pos[2] \in found[pos[1]] <=> Value(pos, id) # Null
  <2>1. pos[1] \in D
    BY DEF Positions
  <2>2. pos[2] \in Rows(col(pos[1])) /\ Value(pos, id) = Cell(col(pos[1]), pos[2])
    BY <1>1, <2>1, PlainPosition
  <2> HIDE DEF col
  <2> QED BY <2>1, <2>2 DEF NullRows
<1>4. {pos \in Positions : pos[2] \in found[pos[1]]} = NonNull(id)
  BY <1>3 DEF NonNull
<1> HIDE DEF found, size
<1> QED BY <1>2, <1>4, CountBySegment

\* Sets of words, none of them empty.
WordSets(part, J) == \A j \in J : part[j] \in SUBSET (MinWord..MaxWord) /\ part[j] # {}
SameEnds(part, J) ==
    /\ Max({LowHigh(part[j]).max : j \in J}) = Max(UNION {part[j] : j \in J})
    /\ Min({LowHigh(part[j]).min : j \in J}) = Min(UNION {part[j] : j \in J})

\* The bounds of a union are the bounds of the bounds.
LEMMA BoundsOfParts ==
    ASSUME WidthAssumption, NEW J, J # {}, NEW part, WordSets(part, J)
    PROVE  SameEnds(part, J)
<1> DEFINE whole == UNION {part[j] : j \in J}
           highs == {LowHigh(part[j]).max : j \in J}
           lows == {LowHigh(part[j]).min : j \in J}
<1>1. MinWord \in Int /\ MaxWord \in Int
  BY Words
<1>2. \A j \in J : /\ LowHigh(part[j]).min \in part[j] /\ LowHigh(part[j]).max \in part[j]
                   /\ \A x \in part[j] : LowHigh(part[j]).min <= x /\ x <= LowHigh(part[j]).max
  BY BoundsHold DEF WordSets
<1>3. /\ whole \in SUBSET (MinWord..MaxWord) /\ highs \subseteq whole /\ lows \subseteq whole
      /\ highs # {} /\ lows # {} /\ whole # {}
  BY <1>2 DEF WordSets
<1>4. /\ \A x \in whole : \E h \in highs : x <= h
      /\ \A x \in whole : \E h \in lows : h <= x
  BY <1>2
<1> HIDE DEF whole, highs, lows
<1>5. /\ Max(highs) \in highs /\ (\A x \in highs : x <= Max(highs))
      /\ Min(lows) \in lows /\ (\A x \in lows : Min(lows) <= x)
  <2>1. highs \in SUBSET (MinWord..MaxWord) /\ lows \in SUBSET (MinWord..MaxWord)
    BY <1>3
  <2> QED BY <1>1, <1>3, <2>1, LeastAndGreatest
<1>6. Max(whole) \in whole /\ Min(whole) \in whole /\ \A x \in whole : Min(whole) <= x /\ x <= Max(whole)
  BY <1>1, <1>3, LeastAndGreatest
<1>7. \A x \in whole : x \in Int
  BY <1>1, <1>3
<1> DEFINE a == Max(highs)
           b == Max(whole)
           c == Min(lows)
           d == Min(whole)
<1>8. a \in Int /\ b \in Int /\ c \in Int /\ d \in Int /\ a <= b /\ d <= c
  BY <1>3, <1>5, <1>6, <1>7
<1>9. PICK h \in highs : b <= h
  BY <1>4, <1>6
<1>10. PICK l \in lows : l <= d
  BY <1>4, <1>6
<1>11. h \in Int /\ l \in Int /\ h <= a /\ c <= l
  BY <1>3, <1>5, <1>7
<1> HIDE DEF a, b, c, d
<1>12. a = b /\ c = d
  BY <1>8, <1>9, <1>10, <1>11
<1> QED BY <1>12 DEF a, b, c, d, highs, lows, whole, SameEnds

\* Statistics under the name are those of the column, and cover it.
Covering(id) ==
    /\ Premises /\ TableInv /\ id \in IdsOf(IntKinds) /\ NotShadowed(id) /\ NotRenamed(id) /\ FullyAnalyzed(id)
    /\ Lacking(id) # {} => ColumnOf(id).default = Null
    /\ ~HasDV

LEMMA CoveredRows ==
    ASSUME NEW id, Covering(id)
    PROVE  LET name == ColumnOf(id).name
           IN  /\ \A s \in Holding(name) : Plain(id, s)
               /\ \A pos \in NonNull(id) : /\ pos[1] \in Holding(name) /\ pos = <<pos[1], pos[2]>>
                                           /\ pos[2] \in NonNullRows(ColOf(pos[1], name))
                                           /\ Value(pos, id) = Cell(ColOf(pos[1], name), pos[2])
               /\ \A s \in Holding(name) : \A x \in NonNullRows(ColOf(s, name)) :
                     <<s, x>> \in NonNull(id) /\ Value(<<s, x>>, id) = Cell(ColOf(s, name), x)
<1> DEFINE name == ColumnOf(id).name
<1>1. /\ Premises /\ TableInv /\ id \in ColumnIds /\ NotShadowed(id) /\ NotRenamed(id) /\ ~HasDV
      /\ Lacking(id) # {} => ColumnOf(id).default = Null
  BY DEF Covering, IdsOf
<1>2. \A s \in Holding(name) : Plain(id, s)
  BY <1>1 DEF Plain
<1>3. ASSUME NEW pos \in NonNull(id)
      PROVE  /\ pos[1] \in Holding(name) /\ pos = <<pos[1], pos[2]>>
             /\ pos[2] \in NonNullRows(ColOf(pos[1], name)) /\ Value(pos, id) = Cell(ColOf(pos[1], name), pos[2])
  <2> DEFINE s == pos[1]
             seg == segments[s]
  <2>1. pos \in Positions /\ Value(pos, id) # Null
    BY DEF NonNull
  <2>2. s \in DOMAIN segments
    BY <2>1 DEF Positions
  <2>3. ById(seg, id) # 0
    <3> SUFFICES ASSUME ById(seg, id) = 0 PROVE FALSE
      OBVIOUS
    <3>1. ColumnOf(id).default = Null
      BY <1>1, <2>2 DEF Lacking
    <3>2. Value(pos, id) = ColumnOf(id).default
      BY DEF Value
    <3> QED BY <2>1, <3>1, <3>2
  <2>4. ByName(seg, name) # 0
    <3>1. Shaped(seg)
      BY <1>1, <2>2 DEF TableInv, SegmentsOK
    <3>2. seg.cols[ById(seg, id)].name = name
      BY <1>1, <2>2, <2>3 DEF NotRenamed
    <3> HIDE DEF seg, name
    <3> QED BY <2>3, <3>1, <3>2, Lookups
  <2>5. s \in Holding(name)
    BY <2>2, <2>4 DEF Holding
  <2> HIDE DEF s, seg
  <2>6. pos = <<s, pos[2]>> /\ pos[2] \in Rows(ColOf(s, name)) /\ Value(pos, id) = Cell(ColOf(s, name), pos[2])
    BY <1>2, <2>1, <2>5, PlainPosition DEF s
  <2> QED BY <2>1, <2>5, <2>6 DEF NonNullRows, s
<1>4. ASSUME NEW s \in Holding(name), NEW x \in NonNullRows(ColOf(s, name))
      PROVE  <<s, x>> \in NonNull(id) /\ Value(<<s, x>>, id) = Cell(ColOf(s, name), x)
  <2>1. x \in Rows(ColOf(s, name)) /\ Cell(ColOf(s, name), x) # Null
    BY DEF NonNullRows
  <2>2. <<s, x>> \in Positions /\ Value(<<s, x>>, id) = Cell(ColOf(s, name), x)
    BY <1>2, <2>1, PlainSegment
  <2> QED BY <2>1, <2>2 DEF NonNull
<1> QED BY <1>2, <1>3, <1>4

LEMMA BoundsMerged ==
    ASSUME NEW id, Covering(id), NEW wantMax \in BOOLEAN
    PROVE  MinOrMax(ColumnOf(id).name, wantMax) =
              {IF ValuesAt(id) = {} THEN Null ELSE IF wantMax THEN Max(ValuesAt(id)) ELSE Min(ValuesAt(id))}
<1> DEFINE name == ColumnOf(id).name
           J == Bounded(name)
           part == [s \in J |-> Analyzed(ColOf(s, name))]
           stats == {ColumnStats(ColOf(s, name)) : s \in J}
           whole == UNION {part[s] : s \in J}
<1>1. /\ Premises /\ ~HasDV /\ FullyAnalyzed(id) /\ ColumnOf(id).kind \in IntKinds
  BY DEF Covering, IdsOf
<1>2. ASSUME NEW s \in Holding(name)
      PROVE  /\ Analyzed(ColOf(s, name)) = {Cell(ColOf(s, name), x) : x \in NonNullRows(ColOf(s, name))}
             /\ Analyzed(ColOf(s, name)) \in SUBSET (MinWord..MaxWord)
             /\ s \in J <=> Analyzed(ColOf(s, name)) # {}
  <2> DEFINE col == ColOf(s, name)
  <2>1. Plain(id, s)
    BY CoveredRows
  <2>2. /\ AnalyzedRows(col) = NonNullRows(col)
        /\ \A x \in NonNullRows(col) : Cell(col, x) \in MinWord..MaxWord
    BY <1>1, <2>1, PlainCells
  <2>3. s \in J <=> NonNullRows(col) # {}
    BY DEF Bounded, NonNullRows, NullRows
  <2> HIDE DEF col, J
  <2>4. Analyzed(col) = {Cell(col, x) : x \in NonNullRows(col)}
    BY <2>2 DEF Analyzed
  <2> QED BY <2>2, <2>3, <2>4 DEF col
<1>3. J \subseteq Holding(name)
  BY DEF Bounded
<1>4. WordSets(part, J)
  BY <1>2, <1>3 DEF WordSets
<1>5. whole = ValuesAt(id)
  <2>1. ASSUME NEW s \in J, NEW v \in part[s] PROVE v \in ValuesAt(id)
    <3>1. PICK x \in NonNullRows(ColOf(s, name)) : v = Cell(ColOf(s, name), x)
      BY <1>2, <1>3
    <3>2. <<s, x>> \in NonNull(id) /\ Value(<<s, x>>, id) = v
      BY <1>3, <3>1, CoveredRows
    <3> QED BY <3>2 DEF ValuesAt
  <2>2. ASSUME NEW pos \in NonNull(id) PROVE Value(pos, id) \in whole
    <3>1. /\ pos[1] \in Holding(name) /\ pos[2] \in NonNullRows(ColOf(pos[1], name))
          /\ Value(pos, id) = Cell(ColOf(pos[1], name), pos[2])
      BY CoveredRows
    <3>2. Value(pos, id) \in Analyzed(ColOf(pos[1], name))
      BY <1>2, <3>1
    <3>3. pos[1] \in J
      BY <1>2, <3>1, <3>2
    <3> QED BY <3>2, <3>3
  <2>3. whole \subseteq ValuesAt(id)
    BY <2>1
  <2> HIDE DEF whole
  <2> QED BY <2>2, <2>3 DEF ValuesAt
<1>6. /\ {x.max : x \in stats} = {LowHigh(part[s]).max : s \in J}
      /\ {x.min : x \in stats} = {LowHigh(part[s]).min : s \in J}
      /\ stats = {} <=> J = {}
  BY DEF ColumnStats
<1>7. MinOrMax(name, wantMax) = CASE HasDV -> {}
                                  [] ~HasDV /\ stats = {} -> {Null}
                                  [] OTHER -> IF wantMax THEN {Max({x.max : x \in stats})} ELSE {Min({x.min : x \in stats})}
  BY DEF MinOrMax
<1> HIDE DEF J, part, stats, name
<1>8. CASE J = {}
  <2>1. whole = {}
    BY <1>8
  <2> HIDE DEF whole
  <2> QED BY <1>1, <1>5, <1>6, <1>7, <1>8, <2>1 DEF name
<1>9. CASE J # {}
  <2>1. whole # {}
    BY <1>4, <1>9 DEF WordSets
  <2>2. /\ Max({LowHigh(part[s]).max : s \in J}) = Max(whole)
        /\ Min({LowHigh(part[s]).min : s \in J}) = Min(whole)
    <3>1. WidthAssumption
      BY <1>1 DEF Premises
    <3>2. SameEnds(part, J)
      BY <1>4, <1>9, <3>1, BoundsOfParts
    <3> QED BY <3>2 DEF SameEnds
  <2> HIDE DEF whole
  <2>3. MinOrMax(name, wantMax) = IF wantMax THEN {Max({x.max : x \in stats})} ELSE {Min({x.min : x \in stats})}
    BY <1>1, <1>6, <1>7, <1>9
  <2> QED BY <1>5, <1>6, <2>1, <2>2, <2>3 DEF name
<1> QED BY <1>8, <1>9

LEMMA SumTotalled ==
    ASSUME NEW id, Covering(id), SumColumn(ColumnOf(id).name) # {}
    PROVE  SumColumn(ColumnOf(id).name) = {SumFunction([pos \in NonNull(id) |-> Value(pos, id)])}
<1> DEFINE name == ColumnOf(id).name
           D == DOMAIN segments
           col(s) == ColOf(s, name)
           g == [pos \in NonNull(id) |-> Value(pos, id)]
           part == [s \in D |-> {s} \X NonNullRows(col(s))]
           total == [s \in D |-> Sum(col(s))]
<1>1. Premises /\ TableInv /\ FullyAnalyzed(id) /\ ColumnOf(id).kind \in IntKinds
  BY DEF Covering, IdsOf
<1>2. D = 1..Len(segments)
  BY <1>1, SequenceLength DEF TableInv, SegmentsOK
<1>3. SumColumn(name) = {SumFunction(total)} /\ \A s \in D : s \in Holding(name)
  <2>1. SumColumn(name) = {SumFunction([s \in 1..Len(segments) |-> Sum(ColOf(s, name))])}
    BY DEF SumColumn
  <2>2. \A s \in D : s \in Holding(name)
    BY DEF SumColumn
  <2> QED BY <1>2, <2>1, <2>2
<1>4. ASSUME NEW s \in D
      PROVE  /\ IsFiniteSet(NonNullRows(col(s))) /\ total[s] = SumFunction([x \in NonNullRows(col(s)) |-> Cell(col(s), x)])
             /\ \A x \in NonNullRows(col(s)) : /\ Cell(col(s), x) \in Int
                                               /\ <<s, x>> \in NonNull(id) /\ g[<<s, x>>] = Cell(col(s), x)
  <2>1. Plain(id, s)
    BY <1>3, CoveredRows
  <2>2. AnalyzedRows(col(s)) = NonNullRows(col(s)) /\ \A x \in NonNullRows(col(s)) : Cell(col(s), x) \in Int
    BY <1>1, <2>1, PlainCells
  <2>3. IsFiniteSet(NonNullRows(col(s)))
    <3>1. IsFiniteSet(Rows(col(s)))
      BY <2>1, PlainSegment
    <3>2. NonNullRows(col(s)) \in SUBSET Rows(col(s))
      BY DEF NonNullRows
    <3> QED BY <3>1, <3>2, FS_Subset
  <2>4. \A x \in NonNullRows(col(s)) : <<s, x>> \in NonNull(id) /\ Value(<<s, x>>, id) = Cell(col(s), x)
    BY <1>3, CoveredRows
  <2>5. total[s] = SumFunction([x \in NonNullRows(col(s)) |-> Cell(col(s), x)])
    BY <2>2 DEF Sum, SumOver
  <2> QED BY <2>2, <2>3, <2>4, <2>5
<1>5. UNION {part[s] : s \in D} = NonNull(id)
  <2>1. ASSUME NEW pos \in NonNull(id) PROVE pos \in UNION {part[s] : s \in D}
    <3>1. pos[1] \in Holding(name) /\ pos = <<pos[1], pos[2]>> /\ pos[2] \in NonNullRows(col(pos[1]))
      BY CoveredRows
    <3>2. pos[1] \in D
      BY <3>1 DEF Holding
    <3> HIDE DEF col
    <3>3. pos \in part[pos[1]]
      BY <3>1, <3>2
    <3> QED BY <3>2, <3>3
  <2>2. ASSUME NEW s \in D, NEW pos \in part[s] PROVE pos \in NonNull(id)
    <3>1. PICK x \in NonNullRows(col(s)) : pos = <<s, x>>
      BY DEF part
    <3>2. <<s, x>> \in NonNull(id)
      BY <1>4
    <3> QED BY <3>1, <3>2
  <2> HIDE DEF part
  <2> QED BY <2>1, <2>2
<1>6. Apart(part, D)
  BY DEF Apart
<1>7. IsFiniteSet(D)
  BY <1>1, PositionsAre
<1>8. ASSUME NEW s \in D
      PROVE  IsFiniteSet(part[s]) /\ total[s] = SumFunctionOnSet(g, part[s])
  <2> DEFINE S == NonNullRows(col(s))
             h == [x \in S |-> Cell(col(s), x)]
             r == [x \in S |-> <<s, x>>]
  <2>1. IsFiniteSet(S) /\ total[s] = SumFunctionOnSet(h, S) /\ part[s] = {s} \X S
    BY <1>4 DEF SumFunction
  <2>2. Integral(h, S)
    BY <1>4 DEF Integral
  <2>3. (\A x \in S : h[x] = g[r[x]]) /\ (\A x, y \in S : r[x] = r[y] => x = y)
    BY <1>4
  <2>4. {r[x] : x \in S} = {s} \X S
    <3> HIDE DEF S
    <3> QED OBVIOUS
  <2> HIDE DEF S, h, r, g, part, total, col
  <2>5. SumFunctionOnSet(h, S) = SumFunctionOnSet(g, {r[x] : x \in S})
    BY <2>1, <2>2, <2>3, SumRenamed
  <2>6. IsFiniteSet({s} \X S)
    BY <2>1, Tagged
  <2> QED BY <2>1, <2>4, <2>5, <2>6
<1>9. Integral(g, UNION {part[s] : s \in D})
  <2>1. ASSUME NEW pos \in NonNull(id) PROVE g[pos] \in Int
    <3>1. /\ pos[1] \in Holding(name) /\ pos[2] \in NonNullRows(col(pos[1]))
          /\ Value(pos, id) = Cell(col(pos[1]), pos[2])
      BY CoveredRows
    <3>2. pos[1] \in D
      BY <3>1 DEF Holding
    <3>3. Value(pos, id) \in Int
      <4> HIDE DEF col, g
      <4> QED BY <1>4, <3>1, <3>2
    <3> QED BY <3>3
  <2> HIDE DEF g, part
  <2> QED BY <1>5, <2>1 DEF Integral
<1>10. DOMAIN g = NonNull(id) /\ DOMAIN total = D
  OBVIOUS
<1> HIDE DEF g, part, total, D, name
<1>11. SumFunctionOnSet(g, UNION {part[s] : s \in D}) = SumFunctionOnSet(total, D)
  BY <1>6, <1>7, <1>8, <1>9, SumOfParts
<1>12. SumFunction(total) = SumFunction(g)
  BY <1>5, <1>10, <1>11 DEF SumFunction
<1> QED BY <1>3, <1>12 DEF g, name

\* Every segment holds the text column and its histogram covers it.
Histograms(id) ==
    /\ Premises /\ TableInv /\ id \in IdsOf({"text"}) /\ NotShadowed(id) /\ FullyAnalyzed(id) /\ ~HasDV
    /\ DOMAIN segments \subseteq Holding(ColumnOf(id).name)

LEMMA EqualCounted ==
    ASSUME NEW id, Histograms(id), NEW v, v # Null
    PROVE  SumFunction([s \in DOMAIN segments |-> Histogram(ColOf(s, ColumnOf(id).name), v)]) =
              Cardinality({pos \in Positions : Value(pos, id) = v})
<1> DEFINE name == ColumnOf(id).name
           D == DOMAIN segments
           col(s) == ColOf(s, name)
           size == [s \in D |-> Histogram(col(s), v)]
           found == [s \in D |-> {x \in AnalyzedRows(col(s)) : Cell(col(s), x) = v}]
<1>1. Premises /\ TableInv /\ FullyAnalyzed(id) /\ \A s \in D : Plain(id, s)
  BY DEF Histograms, Plain, IdsOf
<1>2. ASSUME NEW s \in D
      PROVE  Rows(col(s)) = LiveRows(segments[s]) /\ AnalyzedRows(col(s)) = NonNullRows(col(s))
  BY <1>1, PlainSegment, PlainCells
<1>3. Counts(size, found)
  <2>1. ASSUME NEW s \in D PROVE found[s] \subseteq LiveRows(segments[s]) /\ size[s] = Cardinality(found[s])
    <3>1. AnalyzedRows(col(s)) \subseteq LiveRows(segments[s])
      BY <1>2 DEF AnalyzedRows
    <3>2. size[s] = Cardinality(found[s])
      BY DEF Histogram
    <3> QED BY <3>1, <3>2
  <2> QED BY <2>1 DEF Counts
<1>4. ASSUME NEW pos \in Positions PROVE pos[2] \in found[pos[1]] <=> Value(pos, id) = v
  <2>1. pos[1] \in D
    BY DEF Positions
  <2>2. pos[2] \in Rows(col(pos[1])) /\ Value(pos, id) = Cell(col(pos[1]), pos[2])
    BY <1>1, <2>1, PlainPosition
  <2>3. AnalyzedRows(col(pos[1])) = NonNullRows(col(pos[1]))
    BY <1>2, <2>1
  <2> HIDE DEF col
  <2> QED BY <2>1, <2>2, <2>3 DEF NonNullRows
<1>5. {pos \in Positions : pos[2] \in found[pos[1]]} = {pos \in Positions : Value(pos, id) = v}
  BY <1>4
<1> HIDE DEF found, size
<1>6. SumFunction(size) = Cardinality({pos \in Positions : Value(pos, id) = v})
  BY <1>1, <1>3, <1>5, CountBySegment
<1> QED BY <1>6 DEF size

GroupsAgree(id) ==
    LET n(v) == SumFunction([s \in DOMAIN segments |-> Histogram(ColOf(s, ColumnOf(id).name), v)])
        texts == CellsOf["text"] \ {Null}
    IN {<<v, n(v)>> : v \in {x \in texts : n(x) > 0}} =
          {<<v, Cardinality({pos \in Positions : Value(pos, id) = v})>> : v \in ValuesAt(id)}

\* A group is counted if and only if a row is in it.
LEMMA GroupsCounted ==
    ASSUME NEW id, Histograms(id), NonNull(id) = Positions
    PROVE  GroupsAgree(id)
<1> DEFINE n(v) == SumFunction([s \in DOMAIN segments |-> Histogram(ColOf(s, ColumnOf(id).name), v)])
           holders(v) == {pos \in Positions : Value(pos, id) = v}
           texts == CellsOf["text"] \ {Null}
<1>1. Premises /\ TableInv /\ ColumnOf(id).kind = "text" /\ \A s \in DOMAIN segments : Plain(id, s)
  BY DEF Histograms, Plain, IdsOf
<1>2. \A v \in texts : n(v) = Cardinality(holders(v))
  BY EqualCounted
<1>3. \A v : Cardinality(holders(v)) > 0 <=> holders(v) # {}
  <2> SUFFICES ASSUME NEW v PROVE Cardinality(holders(v)) > 0 <=> holders(v) # {}
    OBVIOUS
  <2> DEFINE S == holders(v)
  <2>1. IsFiniteSet(Positions)
    BY <1>1, PositionsAre
  <2>2. IsFiniteSet(S)
    BY <2>1, FS_Subset
  <2> HIDE DEF S
  <2>3. Cardinality(S) \in Nat /\ (Cardinality(S) = 0 <=> S = {})
    BY <2>2, FS_CardinalityType, FS_EmptySet
  <2>4. Cardinality(S) > 0 <=> S # {}
    BY <2>3
  <2> QED BY <2>4 DEF S
<1>4. ASSUME NEW pos \in Positions PROVE Value(pos, id) \in texts
  <2> DEFINE col == ColOf(pos[1], ColumnOf(id).name)
  <2>1. Plain(id, pos[1])
    BY <1>1 DEF Positions
  <2>2. pos[2] \in Rows(col) /\ Value(pos, id) = Cell(col, pos[2])
    BY <2>1, PlainPosition
  <2>3. col.kind = "text" /\ \A x \in Rows(col) : Cell(col, x) \in CellsOf[col.kind]
    BY <1>1, <2>1, PlainCells
  <2> HIDE DEF col
  <2>4. Value(pos, id) # Null
    BY DEF NonNull
  <2> QED BY <2>2, <2>3, <2>4
<1>5. ValuesAt(id) = {v \in texts : holders(v) # {}}
  BY <1>4 DEF ValuesAt
<1> HIDE DEF n, holders, texts
<1>6. {x \in texts : n(x) > 0} = ValuesAt(id)
  BY <1>2, <1>3, <1>5
<1>7. \A v \in ValuesAt(id) : n(v) = Cardinality(holders(v))
  BY <1>2, <1>5
<1>8. {<<v, n(v)>> : v \in {x \in texts : n(x) > 0}} = {<<v, Cardinality(holders(v))>> : v \in ValuesAt(id)}
  BY <1>6, <1>7
<1> QED BY <1>8 DEF n, holders, texts, GroupsAgree

\* tryAggregateMetadata: an aggregate that is answered from row counts, bounds,
\* sums and histograms is the one that reading every row gives, where the column
\* is the one the segments hold under the name and its statistics cover it; a
\* count of rows is exact with deletion vectors too.
THEOREM MetadataIsExact == ASSUME Premises PROVE TableSpec => []MetadataExact
<1>1. ASSUME TableInv PROVE MetadataExact
  <2>1. CountRows = {Cardinality(Positions)}
    BY <1>1, AllRowsCounted
  <2>2. ASSUME NEW id \in ColumnIds, NotShadowed(id)
        PROVE  CountColumn(ColumnOf(id).name) \subseteq {Cardinality(NonNull(id))}
    BY <1>1, <2>2, ColumnCounted
  <2>3. ASSUME NEW id \in IdsOf(IntKinds), NotShadowed(id), NotRenamed(id), FullyAnalyzed(id),
               Lacking(id) # {} => ColumnOf(id).default = Null
        PROVE  /\ MinOrMax(ColumnOf(id).name, TRUE) \subseteq {IF ValuesAt(id) = {} THEN Null ELSE Max(ValuesAt(id))}
               /\ MinOrMax(ColumnOf(id).name, FALSE) \subseteq {IF ValuesAt(id) = {} THEN Null ELSE Min(ValuesAt(id))}
               /\ SumColumn(ColumnOf(id).name) \subseteq {SumFunction([pos \in NonNull(id) |-> Value(pos, id)])}
    <3> DEFINE name == ColumnOf(id).name
    <3>1. CASE HasDV
      <4>1. MinOrMax(name, TRUE) = {} /\ MinOrMax(name, FALSE) = {}
        BY <3>1 DEF MinOrMax
      <4>2. SumColumn(name) = {}
        BY <3>1 DEF SumColumn
      <4> QED BY <4>1, <4>2
    <3>2. CASE ~HasDV
      <4>1. Covering(id)
        BY <1>1, <2>3, <3>2 DEF Covering
      <4>2. \A wantMax \in BOOLEAN :
               MinOrMax(name, wantMax) =
                  {IF ValuesAt(id) = {} THEN Null ELSE IF wantMax THEN Max(ValuesAt(id)) ELSE Min(ValuesAt(id))}
        BY <4>1, BoundsMerged
      <4>3. /\ MinOrMax(name, TRUE) = {IF ValuesAt(id) = {} THEN Null ELSE Max(ValuesAt(id))}
            /\ MinOrMax(name, FALSE) = {IF ValuesAt(id) = {} THEN Null ELSE Min(ValuesAt(id))}
        BY <4>2
      <4>4. SumColumn(name) \subseteq {SumFunction([pos \in NonNull(id) |-> Value(pos, id)])}
        BY <4>1, SumTotalled
      <4> QED BY <4>3, <4>4
    <3> QED BY <3>1, <3>2
  <2>4. ASSUME NEW id \in IdsOf({"text"}), NotShadowed(id), FullyAnalyzed(id)
        PROVE  LET name == ColumnOf(id).name
                   count(v) == Cardinality({pos \in Positions : Value(pos, id) = v})
                   texts == CellsOf["text"] \ {Null}
               IN  /\ \A v \in texts : CountEqual(name, v) \subseteq {count(v)}
                   /\ NonNull(id) = Positions =>
                         GroupCounts(name, texts) \subseteq {{<<v, count(v)>> : v \in ValuesAt(id)}}
    <3> DEFINE name == ColumnOf(id).name
               count(v) == Cardinality({pos \in Positions : Value(pos, id) = v})
               texts == CellsOf["text"] \ {Null}
               n(v) == SumFunction([s \in DOMAIN segments |-> Histogram(ColOf(s, name), v)])
               Gives == HasDV \/ \E s \in DOMAIN segments : s \notin Holding(name) \/ ~HasHistogram(ColOf(s, name))
    <3>1. /\ \A v : CountEqual(name, v) = IF Gives THEN {} ELSE {n(v)}
          /\ GroupCounts(name, texts) = IF Gives THEN {} ELSE {{<<v, n(v)>> : v \in {x \in texts : n(x) > 0}}}
      BY DEF CountEqual, GroupCounts
    <3>2. ASSUME ~Gives PROVE Histograms(id)
      BY <1>1, <2>4, <3>2 DEF Histograms
    <3>3. ASSUME ~Gives, NEW v \in texts PROVE n(v) = count(v)
      <4>1. v # Null
        OBVIOUS
      <4> QED BY <3>2, <3>3, <4>1, EqualCounted
    <3>4. ASSUME ~Gives, NonNull(id) = Positions
          PROVE  {<<v, n(v)>> : v \in {x \in texts : n(x) > 0}} = {<<v, count(v)>> : v \in ValuesAt(id)}
      <4>1. Histograms(id)
        BY <3>2, <3>4
      <4>2. GroupsAgree(id)
        BY <3>4, <4>1, GroupsCounted
      <4> HIDE DEF Gives
      <4> QED BY <4>2 DEF GroupsAgree
    <3> HIDE DEF Gives, n, count, texts, name
    <3>5. \A v \in texts : CountEqual(name, v) \subseteq {count(v)}
      BY <3>1, <3>3
    <3>6. NonNull(id) = Positions => GroupCounts(name, texts) \subseteq {{<<v, count(v)>> : v \in ValuesAt(id)}}
      BY <3>1, <3>4
    <3> QED BY <3>5, <3>6 DEF count, texts, name
  <2> QED BY <2>1, <2>2, <2>3, <2>4 DEF MetadataExact
<1>2. TableSpec => []TableInv
  BY TableInvariance DEF Premises
<1> QED BY <1>1, <1>2, PTL
=============================================================================
