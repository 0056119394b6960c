----------------------------- MODULE TimeTravel -----------------------------
(***************************************************************************)
(* One table over many commits: what a query of the latest snapshot and a  *)
(* query AS OF an earlier commit read, while Compact rewrites segments,    *)
(* Vacuum and VacuumRetention remove files, the cache of open segments     *)
(* keeps handles, and the process restarts.                                *)
(*                                                                         *)
(* Every operation runs under db.mu and is one step. A commit is atomic    *)
(* here: its steps and crashes are the subject of CommitLog. Entries,      *)
(* deletion vectors (DVs) and the resolution of a snapshot are those of    *)
(* Manifest. A row is a number, given out once.                            *)
(***************************************************************************)
EXTENDS Naturals, Sequences, FiniteSets, SequencesExt

CONSTANTS
    MaxCommits,   \* bound: commit timestamps drawn
    MaxRows,      \* bound: rows inserted
    MaxReopens,   \* bound: restarts
    Maintenance   \* what is run besides statements: subset of AllMaintenance

AllMaintenance == {"compact", "vacuum", "retention"}

TravelAssumption == MaxCommits \in Nat /\ MaxRows \in Nat /\ MaxReopens \in Nat
MaintenanceAssumption == Maintenance \subseteq AllMaintenance

VARIABLES
    manifest,   \* its records
    segments,   \* segment files: id -> rows
    dvFiles,    \* DV files: id -> rows marked deleted
    cache,      \* open segments: <<segment id, DV id>> -> rows and dead rows
    segCount,   \* the next segment id
    nextCommitTs, \* the last timestamp drawn
    cleaned,    \* history: the horizon, the earliest timestamp whose rows the
                \* removal of files has promised to keep
    history,    \* history: commit timestamp -> rows of the table then
    inserted, reopens

travelVars == <<manifest, segments, dvFiles, cache, segCount, nextCommitTs, cleaned,
                history, inserted, reopens>>

NoMarks == <<>>

-----------------------------------------------------------------------------
(* Snapshots *)

PublishRecord(v, rec) ==
    [s \in (DOMAIN v \cup rec.adds) \ rec.removes |->
        LET e == IF s \in rec.adds THEN [dv |-> NoMarks, ts |-> rec.ts, dvTs |-> 0]
                 ELSE v[s]
        IN  IF s \in DOMAIN rec.marks
            THEN [dv |-> rec.marks[s], ts |-> e.ts, dvTs |-> rec.ts] ELSE e]

TableAt(ts) ==
    FoldLeft(LAMBDA v, r : IF r.ts <= ts THEN PublishRecord(v, r) ELSE v, <<>>, manifest)

TableNow == TableAt(nextCommitTs)

-----------------------------------------------------------------------------
(* Reading *)

\* loadDVAtPath: a DV file that is not there is no DV.
DeadOnDisk(dv) == IF dv \in DOMAIN dvFiles THEN dvFiles[dv] ELSE {}

\* What a query gets for an entry: the open handle, or the files as they are.
Opened(s, dv) ==
    IF <<s, dv>> \in DOMAIN cache THEN cache[<<s, dv>>]
    ELSE [rows |-> segments[s], dead |-> DeadOnDisk(dv)]

\* openSegmentsAt fails when a segment that is not in the cache has no file.
Opens(v) == \A s \in DOMAIN v : <<s, v[s].dv>> \in DOMAIN cache \/ s \in DOMAIN segments

RowsRead(v) == UNION {LET h == Opened(s, v[s].dv) IN h.rows \ h.dead : s \in DOMAIN v}

\* The statements and Compact open the files themselves.
RowsLeft(v, s) == segments[s] \ DeadOnDisk(v[s].dv)

-----------------------------------------------------------------------------
TravelInit ==
    /\ manifest = <<>> /\ segments = <<>> /\ dvFiles = <<>> /\ cache = <<>>
    /\ segCount = 0 /\ nextCommitTs = 0 /\ cleaned = 0
    /\ history = [ts \in {0} |-> {}]
    /\ inserted = 0 /\ reopens = 0

Remember(ts, rows) ==
    history' = [u \in DOMAIN history \cup {ts} |-> IF u = ts THEN rows ELSE history[u]]

Written(files, new) == [f \in DOMAIN files \cup DOMAIN new |->
                        IF f \in DOMAIN new THEN new[f] ELSE files[f]]
Removed(files, gone) == [f \in DOMAIN files \ gone |-> files[f]]

InsertInto(n) ==
    LET rows == {inserted + i : i \in 1 .. n}
        ts == nextCommitTs + 1
    IN  /\ ts <= MaxCommits /\ inserted + n <= MaxRows
        /\ segments' = Written(segments, [s \in {segCount} |-> rows])
        /\ manifest' = Append(manifest, [ts |-> ts, adds |-> {segCount},
                                       marks |-> <<>>, removes |-> {}])
        /\ segCount' = segCount + 1 /\ nextCommitTs' = ts /\ inserted' = inserted + n
        /\ Remember(ts, history[nextCommitTs] \cup rows)
        /\ UNCHANGED <<dvFiles, cache, cleaned, reopens>>

\* DV ids: the path of a DV names its segment and the time it was written.
DVPath(s, ts) == <<s, ts>>

\* A DELETE that matches nothing still draws a timestamp, and writes no record.
DeleteFrom(rows) ==
    LET ts == nextCommitTs + 1
        hit == {s \in DOMAIN TableNow : RowsLeft(TableNow, s) \cap rows # {}}
    IN  /\ ts <= MaxCommits
        /\ DOMAIN TableNow \subseteq DOMAIN segments
        /\ dvFiles' = Written(dvFiles, [d \in {DVPath(s, ts) : s \in hit} |->
              DeadOnDisk(TableNow[d[1]].dv) \cup (segments[d[1]] \cap rows)])
        /\ manifest' = IF hit = {} THEN manifest
                      ELSE Append(manifest, [ts |-> ts, adds |-> {}, removes |-> {},
                                            marks |-> [s \in hit |-> DVPath(s, ts)]])
        /\ nextCommitTs' = ts
        /\ Remember(ts, history[nextCommitTs] \ rows)
        /\ UNCHANGED <<segments, cache, segCount, cleaned, inserted, reopens>>

\* A query opens the segments of its snapshot through the cache, and the cache
\* may drop any handles the query does not use.
QueryAt(ts) ==
    LET v == TableAt(ts)
        used == {<<s, v[s].dv>> : s \in DOMAIN v}
    IN  /\ Opens(v)
        /\ \E kept \in SUBSET (DOMAIN cache \ used) :
              cache' = [k \in kept \cup used |-> Opened(k[1], k[2])]
        /\ UNCHANGED <<manifest, segments, dvFiles, segCount, nextCommitTs, cleaned,
                       history, inserted, reopens>>

-----------------------------------------------------------------------------
(* Compact: each segment with a DV and at most half of its rows live, and    *)
(* each that holds a dropped column or has no table id, is rewritten by one  *)
(* commit that adds the live rows as a new segment and gives the old one a   *)
(* DV that kills every row.                                                  *)

HalfDeleted(v, s) ==
    /\ v[s].dv \in DOMAIN dvFiles
    /\ 2 * Cardinality(RowsLeft(v, s)) <= Cardinality(segments[s])

\* readSegmentLiveRows.
Rewritten(v, s) == RowsLeft(v, s)

\* Mutant: the rewritten segment is not killed.
RewriteRecordBug(s, new, ts) ==
    [ts |-> ts, adds |-> {new}, removes |-> {}, marks |-> <<>>]

RewriteRecord(s, new, ts) ==
    [ts |-> ts, adds |-> {new}, removes |-> {}, marks |-> [x \in {s} |-> DVPath(s, ts)]]

\* hasDroppedColumn and isLegacy are about what a segment stores besides its rows:
\* altered is any set of segments of which one of them holds. Reading the live rows
\* of a segment that has none is an error, and Compact returns it, keeping the
\* rewrites it has committed so far. The order is that of the snapshot in the code
\* and an arbitrary one here; it decides which rewrites come before the error.
Compact(altered) ==
    LET v == TableNow
        todo == SetToSeq({s \in DOMAIN v : s \in altered \/ HalfDeleted(v, s)})
        dead == {i \in DOMAIN todo : RowsLeft(v, todo[i]) = {}}
        n == IF dead = {} THEN Len(todo) ELSE Min(dead) - 1
    IN  /\ "compact" \in Maintenance
        /\ DOMAIN v \subseteq DOMAIN segments
        /\ nextCommitTs + n <= MaxCommits
        /\ segments' = Written(segments, [s \in segCount .. (segCount + n - 1) |->
                                         Rewritten(v, todo[s - segCount + 1])])
        /\ dvFiles' = Written(dvFiles,
              [d \in {DVPath(todo[i], nextCommitTs + i) : i \in 1 .. n} |-> segments[d[1]]])
        /\ manifest' = manifest \o [i \in 1 .. n |->
                        RewriteRecord(todo[i], segCount + i - 1, nextCommitTs + i)]
        /\ segCount' = segCount + n /\ nextCommitTs' = nextCommitTs + n
        /\ history' = Written(history, [ts \in (nextCommitTs + 1) .. (nextCommitTs + n) |->
                                       history[nextCommitTs]])
        \* The segments of the snapshot are opened through the cache.
        /\ cache' = Written(cache, [k \in {<<s, v[s].dv>> : s \in DOMAIN v} |->
                                   Opened(k[1], k[2])])
        /\ UNCHANGED <<cleaned, inserted, reopens>>

-----------------------------------------------------------------------------
\* vacuumTableLocked: DV files that the latest snapshot does not refer to. An
\* earlier snapshot may refer to them, so the horizon is now the present.
Vacuum ==
    /\ "vacuum" \in Maintenance
    /\ cleaned' = nextCommitTs
    /\ dvFiles' = Removed(dvFiles, DOMAIN dvFiles \ {TableNow[s].dv : s \in DOMAIN TableNow})
    /\ UNCHANGED <<manifest, segments, cache, segCount, nextCommitTs, history,
                   inserted, reopens>>

\* Mutant: the timestamp of the DV is not looked at.
RetirableBug(v, s, cutoff) ==
    /\ v[s].ts < cutoff
    /\ v[s].dv # NoMarks
    /\ RowsLeft(v, s) = {}

\* retireFullyDeletedSegments: added and killed below the cutoff, fully dead.
Retirable(v, s, cutoff) ==
    /\ (IF v[s].dvTs > v[s].ts THEN v[s].dvTs ELSE v[s].ts) < cutoff
    /\ v[s].dv # NoMarks
    /\ RowsLeft(v, s) = {}

\* VacuumRetention(cutoff): no Tx is open while it holds db.mu, so no pin
\* lowers the cutoff. The record is durable before the files are removed. The
\* horizon rises to the cutoff, not to the record that retires the segments.
VacuumRetention(cutoff) ==
    LET v == TableNow
        gone == {s \in DOMAIN v : Retirable(v, s, cutoff)}
        ts == nextCommitTs + 1
    IN  /\ "retention" \in Maintenance
        /\ cutoff # 0 /\ DOMAIN v \subseteq DOMAIN segments
        /\ IF gone = {} THEN UNCHANGED <<manifest, segments, dvFiles, cache, nextCommitTs,
                                         cleaned, history>>
           ELSE /\ ts <= MaxCommits
                /\ manifest' = Append(manifest, [ts |-> ts, adds |-> {},
                                               marks |-> <<>>, removes |-> gone])
                /\ segments' = Removed(segments, gone)
                /\ dvFiles' = Removed(dvFiles, {v[s].dv : s \in gone})
                /\ cache' = Removed(cache, {k \in DOMAIN cache : k[1] \in gone})
                /\ nextCommitTs' = ts /\ cleaned' = Max({cleaned, cutoff})
                /\ Remember(ts, history[nextCommitTs])
        /\ UNCHANGED <<segCount, inserted, reopens>>

\* manifestFor: segment ids go on after the highest live one.
NextSegmentId(v) == IF DOMAIN v = {} THEN 0 ELSE Max(DOMAIN v) + 1

\* The process stops and opens the database again. The horizon is never later
\* than the latest timestamp.
Reopen ==
    /\ reopens < MaxReopens
    /\ reopens' = reopens + 1
    /\ cache' = <<>>
    /\ nextCommitTs' = Max({0} \cup {manifest[i].ts : i \in DOMAIN manifest})
    /\ segCount' = NextSegmentId(TableAt(nextCommitTs'))
    /\ history' = [ts \in {u \in DOMAIN history : u <= nextCommitTs'} |-> history[ts]]
    /\ cleaned' = Min({cleaned, nextCommitTs'})
    /\ UNCHANGED <<manifest, segments, dvFiles, inserted>>

TravelNext ==
    \/ \E n \in 1 .. 2 : InsertInto(n)
    \/ \E rows \in SUBSET history[nextCommitTs] : DeleteFrom(rows)
    \/ \E ts \in 0 .. nextCommitTs : QueryAt(ts)
    \/ \E altered \in SUBSET DOMAIN segments : Compact(altered)
    \/ Vacuum
    \/ \E cutoff \in 1 .. nextCommitTs + 1 : VacuumRetention(cutoff)
    \/ Reopen

TravelSpec == TravelInit /\ [][TravelNext]_travelVars

-----------------------------------------------------------------------------
(* Properties *)

TravelTypeOK ==
    /\ DOMAIN TableNow \subseteq 0 .. segCount - 1
    /\ nextCommitTs \in 0 .. MaxCommits /\ inserted \in 0 .. MaxRows
    /\ DOMAIN history \subseteq 0 .. nextCommitTs

\* The segments a later record retired: their files are gone.
RetiredSince(ts) ==
    UNION {manifest[i].removes : i \in {j \in DOMAIN manifest : manifest[j].ts > ts}}

\* What is left of the snapshot of ts: all of it when nothing was retired since.
KeptAt(ts) == Removed(TableAt(ts), RetiredSince(ts))

ReadsExactly(ts) == Opens(KeptAt(ts)) /\ RowsRead(KeptAt(ts)) = history[ts]

\* No row is read twice, once from the segment Compact rewrote and once from
\* its replacement.
NoRowTwice ==
    LET v == TableNow
        LiveOf(q) == LET h == Opened(q, v[q].dv) IN h.rows \ h.dead
    IN  \A s, u \in DOMAIN v : s # u => LiveOf(s) \cap LiveOf(u) = {}

\* No row the table had at a timestamp at or above the horizon is lost: the
\* segments of that snapshot that were not retired since hold exactly the rows of
\* the table then, so that a retired one had none of them, whatever was compacted,
\* cached, vacuumed, restarted or given the path of a retired segment
\* (compact.go: "Retention is safe only when"). Where none was retired since, that
\* is what the query AS OF the timestamp reads; where one was, the query also
\* opens the path of the retired segment, at which there is no file or a later one.
SinceCleanupExact == \A ts \in DOMAIN history : ts >= cleaned => ReadsExactly(ts)
=============================================================================
