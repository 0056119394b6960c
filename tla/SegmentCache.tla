---------------------------- MODULE SegmentCache ----------------------------
(***************************************************************************)
(* Which segments the operators of a query read: every reference to a      *)
(* table is resolved to open handles, through a resolver of the query and  *)
(* the LRU cache of the database, and the handles are read afterwards.     *)
(*                                                                         *)
(* A query is a sequence of plans: its uncorrelated subqueries, each       *)
(* built and drained before the next, and the SELECT itself. A plan is     *)
(* [from, correlated]: the references its scans make, left to right, and   *)
(* those of correlated subqueries, made while rows are read. A reference   *)
(* is [table, asOf]; asOf is Unnamed without an AS OF clause.              *)
(*                                                                         *)
(* db.mu keeps statements and queries apart; SetCacheSize does not take it. *)
(***************************************************************************)
EXTENDS Integers, Sequences, FiniteSets, SequencesExt, FiniteSetsExt

CONSTANTS
    Tables,
    Queries,    \* the queries that are asked
    CacheSizes, \* what SetCacheSize may set
    MaxTs       \* bound: commits

Unnamed == 0

CacheAssumption == CacheSizes \subseteq Nat \ {0} /\ MaxTs \in Nat

References == [table : Tables, asOf : Nat]
QueriesAssumption ==
    Queries \subseteq Seq([from : Seq(References), correlated : Seq(References)]) \ {<<>>}

VARIABLES
    snapshots, \* snapshots[ts + 1][t]: the keys of table t after commit ts
    stored,    \* the segment files, by path
    lru,       \* segmentCache: handles [key, gen], the coldest first
    open,      \* the handles that are not closed
    limit,     \* cacheSize
    query,     \* the query that runs
    at,        \* which of its plans runs
    readTs,    \* the timestamp of the query
    opened,    \* the map of its resolver: table -> handles
    held,      \* what the scans of the running plan were given: [ref, handles]
    ended,    \* how the last query ended: "none", "rows" or "error"
    room,      \* history: how many handles the last openSegmentsAt may leave
    smallest   \* history: the least limit since the query began

store == <<snapshots, stored>>
handles == <<lru, open, room>>
run == <<query, at, readTs, opened, held, ended>>
cacheVars == <<store, handles, limit, run, smallest>>

Now == Len(snapshots) - 1
Idle == query = <<>>
Plan == query[at]

CacheInit == /\ snapshots = <<[t \in Tables |-> <<>>]>> /\ stored = {}
             /\ lru = <<>> /\ open = {} /\ room = 0
             /\ limit \in CacheSizes /\ smallest = limit
             /\ query = <<>> /\ at = 0 /\ readTs = 0 /\ opened = <<>> /\ held = <<>> /\ ended = "none"

-----------------------------------------------------------------------------
(* segmentCache *)

\* The handles somebody refers to.
Given == UNION {ToSet(opened[t]) : t \in DOMAIN opened}
Known == open \cup Given

\* Mutant: a handle is found by the path of its segment alone.
HandleForBug(key) ==
    LET cached == {h \in ToSet(lru) : h.key.path = key.path}
        unused == {g \in 0..Cardinality(Known) : [key |-> key, gen |-> g] \notin Known}
    IN IF cached # {} THEN CHOOSE h \in cached : TRUE ELSE [key |-> key, gen |-> Min(unused)]

\* touch or OpenSegmentWithDV
HandleFor(key) ==
    LET cached == {h \in ToSet(lru) : h.key = key}
        unused == {g \in 0..Cardinality(Known) : [key |-> key, gen |-> g] \notin Known}
    IN IF cached # {} THEN CHOOSE h \in cached : TRUE ELSE [key |-> key, gen |-> Min(unused)]

\* The entries that are not gone, in their order.
Without(entries, gone) ==
    LET kept[i \in 0..Len(entries)] ==
            IF i = 0 THEN <<>>
            ELSE IF entries[i] \in gone THEN kept[i - 1]
            ELSE Append(kept[i - 1], entries[i])
    IN kept[Len(entries)]

Warmed(used) == Without(lru, ToSet(used)) \o used

\* Mutant: the working set is not spared.
ColdestBug(entries, keys) == {entries[i] : i \in {j \in DOMAIN entries : j <= Len(entries) - limit}}

\* evictExcept closes the coldest entries outside the working set until the rest fits.
Coldest(entries, keys) ==
    LET cold == {i \in DOMAIN entries : entries[i].key \notin keys}
    IN {entries[i] : i \in {j \in cold : Cardinality({k \in cold : k <= j}) <= Len(entries) - limit}}

-----------------------------------------------------------------------------
(* Statements *)

PathsOf(t) == UNION {{key.path : key \in ToSet(snapshots[i][t])} : i \in DOMAIN snapshots}
CommitEntries(t, entries) == snapshots' = Append(snapshots, [snapshots[Now + 1] EXCEPT ![t] = entries])

InsertSegment(t) ==
    /\ Idle /\ Now < MaxTs
    /\ LET path == <<t, Cardinality(PathsOf(t)) + 1>>
       IN /\ CommitEntries(t, Append(snapshots[Now + 1][t], [path |-> path, dv |-> 0]))
          /\ stored' = stored \cup {path}
    /\ UNCHANGED <<handles, limit, run, smallest>>

\* DELETE of rows of the i-th segment, which gets a new deletion vector.
DeleteRows(t, i) ==
    /\ Idle /\ Now < MaxTs
    /\ CommitEntries(t, [snapshots[Now + 1][t] EXCEPT ![i].dv = Now + 1])
    /\ UNCHANGED <<stored, handles, limit, run, smallest>>

\* Mutant: the handles of the file are kept.
RetireBug(t, i) ==
    /\ Idle /\ Now < MaxTs
    /\ snapshots[Now + 1][t][i].dv # 0
    /\ LET path == snapshots[Now + 1][t][i].path
           gone == {h \in ToSet(lru) : h.key.path = path}
       IN /\ lru' = Without(lru, gone) /\ UNCHANGED open
          /\ stored' = stored \ {path}
    /\ CommitEntries(t, RemoveAt(snapshots[Now + 1][t], i))
    /\ UNCHANGED <<room, limit, run, smallest>>

\* VacuumRetention of a segment whose rows are all deleted: removeByPath, then
\* the manifest, then the file.
RetireSegment(t, i) ==
    /\ Idle /\ Now < MaxTs
    /\ snapshots[Now + 1][t][i].dv # 0
    /\ LET path == snapshots[Now + 1][t][i].path
           gone == {h \in ToSet(lru) : h.key.path = path}
       IN /\ lru' = Without(lru, gone) /\ open' = open \ gone
          /\ stored' = stored \ {path}
    /\ CommitEntries(t, RemoveAt(snapshots[Now + 1][t], i))
    /\ UNCHANGED <<room, limit, run, smallest>>

SetCacheSize(n) ==
    /\ limit' = n
    /\ smallest' = IF Idle THEN n ELSE Min({smallest, n})
    /\ UNCHANGED <<store, handles, run>>

-----------------------------------------------------------------------------
(* A query *)

\* Query, and QueryAt for an earlier ts.
StartQuery(q, ts) ==
    /\ Idle
    /\ query' = q /\ at' = 1 /\ readTs' = ts /\ opened' = <<>> /\ held' = <<>> /\ ended' = "none"
    /\ smallest' = limit
    /\ UNCHANGED <<store, handles, limit>>

\* Mutant: the position in the plans stays.
EndQueryBug(how) == /\ query' = <<>> /\ readTs' = 0 /\ opened' = <<>> /\ held' = <<>>
                    /\ ended' = how /\ UNCHANGED at

EndQuery(how) == /\ query' = <<>> /\ at' = 0 /\ readTs' = 0 /\ opened' = <<>> /\ held' = <<>>
                 /\ ended' = how

TsOf(ref) == IF ref.asOf = Unnamed THEN readTs ELSE ref.asOf
EntriesAt(t, ts) == snapshots[Min({ts, Now}) + 1][t]

\* The entries of a snapshot are opened one by one, up to the first whose file is gone.
Openable(keys) ==
    LET lost == {i \in DOMAIN keys : keys[i].path \notin stored /\ \A h \in ToSet(lru) : h.key # keys[i]}
    IN IF lost = {} THEN Len(keys) ELSE Min(lost) - 1

\* openSegmentsAt, with the handles it got. Only a complete list evicts.
OpenSegments(keys, got) ==
    LET warmed == Warmed(got)
        gone == IF Len(got) = Len(keys) THEN Coldest(warmed, ToSet(keys)) ELSE {}
    IN /\ lru' = Without(warmed, gone)
       /\ open' = (open \cup ToSet(got)) \ gone
       /\ room' = IF Len(got) = Len(keys) THEN Max({limit, Len(keys)}) ELSE Max({room, Len(warmed)})

\* cachedSegmentResolver goes by the name of the table.
ResolveScan(ref) ==
    LET t == ref.table
        keys == EntriesAt(t, TsOf(ref))
        got == [i \in 1..Openable(keys) |-> HandleFor(keys[i])]
    IN IF t \in DOMAIN opened
       THEN /\ held' = Append(held, [ref |-> ref, handles |-> opened[t]])
            /\ UNCHANGED <<handles, query, at, readTs, opened, ended>>
       ELSE /\ OpenSegments(keys, got)
            /\ IF Len(got) = Len(keys)
               THEN /\ opened' = [u \in DOMAIN opened \cup {t} |-> IF u = t THEN got ELSE opened[u]]
                    /\ held' = Append(held, [ref |-> ref, handles |-> got])
                    /\ UNCHANGED <<query, at, readTs, ended>>
               ELSE EndQuery("error")

Built == Len(held) >= Len(Plan.from)

\* buildRel reaches the next scan.
BuildScan ==
    /\ ~Idle /\ ~Built
    /\ ResolveScan(Plan.from[Len(held) + 1])
    /\ UNCHANGED <<store, limit, smallest>>

Readable(h) == h \in open

\* A row of the plan makes a correlated subquery build its own scans.
BuildCorrelated(i) ==
    /\ ~Idle /\ Built
    /\ \E k \in DOMAIN held : \E h \in ToSet(held[k].handles) : Readable(h)
    /\ \A k \in (Len(Plan.from) + 1)..Len(held) : held[k].ref # Plan.correlated[i]
    /\ ResolveScan(Plan.correlated[i])
    /\ UNCHANGED <<store, limit, smallest>>

\* A scan reads a page through a handle that was closed meanwhile.
ReadFails ==
    /\ ~Idle /\ Built
    /\ \E k \in DOMAIN held : \E h \in ToSet(held[k].handles) : ~Readable(h)
    /\ EndQuery("error")
    /\ UNCHANGED <<store, handles, limit, smallest>>

\* The plan is drained, or as far as LIMIT or EXISTS asks.
FinishPlan ==
    /\ ~Idle /\ Built
    /\ IF at = Len(query) THEN EndQuery("rows")
       ELSE at' = at + 1 /\ held' = <<>> /\ UNCHANGED <<query, readTs, opened, ended>>
    /\ UNCHANGED <<store, handles, limit, smallest>>

CacheNext == \/ \E t \in Tables : InsertSegment(t)
             \/ \E t \in Tables : \E i \in DOMAIN snapshots[Now + 1][t] : DeleteRows(t, i)
             \/ \E t \in Tables : \E i \in DOMAIN snapshots[Now + 1][t] : RetireSegment(t, i)
             \/ \E n \in CacheSizes : SetCacheSize(n)
             \/ \E q \in Queries, ts \in 0..Now : StartQuery(q, ts)
             \/ BuildScan
             \/ ~Idle /\ \E i \in DOMAIN Plan.correlated : BuildCorrelated(i)
             \/ ReadFails
             \/ FinishPlan

CacheSpec == CacheInit /\ [][CacheNext]_cacheVars

-----------------------------------------------------------------------------
(* Properties *)

CacheKeys == [path : Tables \X Nat, dv : Nat]
CachedHandles == [key : CacheKeys, gen : Nat]

CacheTypeOK ==
    /\ snapshots \in Seq([Tables -> Seq(CacheKeys)]) /\ Now >= 0
    /\ stored \subseteq Tables \X Nat
    /\ lru \in Seq(CachedHandles) /\ open \subseteq CachedHandles
    /\ limit \in CacheSizes /\ smallest \in CacheSizes
    /\ room \in Nat /\ readTs \in 0..Now /\ at \in 0..Len(query)
    /\ DOMAIN opened \subseteq Tables /\ \A t \in DOMAIN opened : opened[t] \in Seq(CachedHandles)
    /\ \A k \in DOMAIN held : held[k].handles \in Seq(CachedHandles)
    /\ ended \in {"none", "rows", "error"}

\* The cache is all there is of open files, so that Close closes them, each file
\* is open once, and after a snapshot was opened they are as many as
\* SetCacheSize allows or that snapshot alone needs.
OpenHandlesBounded ==
    /\ open = ToSet(lru) /\ Cardinality(open) = Len(lru)
    /\ \A g, h \in open : g.key = h.key => g = h
    /\ Len(lru) <= room

\* What a query was given fits the cache, or is one snapshot.
Fits == Cardinality(Given) <= smallest \/ Cardinality(DOMAIN opened) <= 1

\* No handle of a running plan is closed before it is read: what a later
\* reference or a correlated subquery opens evicts none of them.
HandlesStayOpen == Fits => \A k \in DOMAIN held : ToSet(held[k].handles) \subseteq open

ReadsAt(k) == [i \in DOMAIN held[k].handles |-> held[k].handles[i].key] = EntriesAt(held[k].ref.table, TsOf(held[k].ref))

\* Every scan reads the snapshot its reference names.
AsOfPerReference == \A k \in DOMAIN held : ReadsAt(k)

Refs == UNION {ToSet(query[p].from \o query[p].correlated) : p \in DOMAIN query}

\* As AsOfPerReference, of tables a query names at one timestamp only: later
\* commits, cached handles and evictions never get in between.
OneSnapshotRead ==
    \A k \in DOMAIN held :
        (\A ref \in Refs : ref.table = held[k].ref.table => ref.asOf = held[k].ref.asOf) => ReadsAt(k)
=============================================================================
