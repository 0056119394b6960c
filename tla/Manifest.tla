------------------------------ MODULE Manifest ------------------------------
(***************************************************************************)
(* One table's manifest: an append-only file of records, its copy in       *)
(* memory, and the views resolved from it. A record publishes segments,    *)
(* replaces deletion vectors (DVs) and removes segments.                   *)
(*                                                                         *)
(* Line framing and checksums are abstracted: a line is whole or Torn, and *)
(* load stops at a torn one. Row counts, hashes and schema generations ride *)
(* along with the path in the code and are left out.                       *)
(***************************************************************************)
EXTENDS Naturals, Sequences, FiniteSets, SequencesExt

CONSTANTS
    Paths,        \* segment paths
    DVPaths,      \* deletion vector paths
    MaxRecords,   \* bound: records appended
    MaxTrouble    \* bound: failed appends and crashes

ASSUME PathsAssumption == IsFiniteSet(Paths) /\ IsFiniteSet(DVPaths)
ASSUME BoundsAssumption == MaxRecords \in Nat /\ MaxTrouble \in Nat

VARIABLES
    records,   \* Manifest.records: what the process knows
    version,   \* Manifest.version
    file,      \* the lines on disk, the last one possibly torn
    handle,    \* "open", "poisoned" after an append that could not be undone,
               \* "closed" while no process has the file
    commitTs,  \* the engine's commit timestamp counter
    trouble,   \* failed appends and crashes so far
    seen       \* history: the latest view when each timestamp was current

vars == <<records, version, file, handle, commitTs, trouble, seen>>

NoDV == "none"
NoPath == ""

\* A segment's path is the name of its file, never empty.
ASSUME NoPathAssumption == NoPath \notin Paths

\* Adds in the order listed; each DVUpdate and each removal names one segment.
Record(v, ts, adds, dvs, removes) ==
    [version |-> v, commitTs |-> ts, adds |-> adds, dvs |-> dvs, removes |-> removes]

\* A line that fails to decode.
Torn == Record(0, 0, <<>>, <<>>, <<>>)

-----------------------------------------------------------------------------
(* resolveLockedFiltered: one pass over the records, with an index from a    *)
(* path to its entry, then the blanked entries are squeezed out.             *)

\* An entry: where a segment is, since when, and its last deletion vector.
Entry(p, ts, dv, dvTs) == [path |-> p, commitTs |-> ts, dv |-> dv, dvTs |-> dvTs]

ApplyAdd(rec, st, p) ==
    [st EXCEPT !.idx = [q \in DOMAIN @ \cup {p} |-> IF q = p THEN Len(st.out) + 1 ELSE @[q]],
               !.out = Append(@, Entry(p, rec.commitTs, NoDV, 0))]

ApplyDV(rec, st, upd) ==
    IF upd.seg \notin DOMAIN st.idx THEN st
    ELSE [st EXCEPT !.out[st.idx[upd.seg]] = Entry(@.path, @.commitTs, upd.dv, rec.commitTs)]

ApplyRemove(st, p) ==
    IF p \notin DOMAIN st.idx THEN st
    ELSE [st EXCEPT !.out[st.idx[p]].path = NoPath,
                    !.idx = [q \in DOMAIN @ \ {p} |-> @[q]]]

\* Mutant: a record newer than the snapshot still removes segments.
ApplyRecordBug(st, rec, upTo, maxTs) ==
    IF rec.version > upTo THEN st
    ELSE IF rec.commitTs > maxTs THEN FoldLeft(ApplyRemove, st, rec.removes)
    ELSE FoldLeft(ApplyRemove,
           FoldLeft(LAMBDA s, u : ApplyDV(rec, s, u),
             FoldLeft(LAMBDA s, p : ApplyAdd(rec, s, p), st, rec.adds),
             rec.dvs),
           rec.removes)

ApplyRecord(st, rec, upTo, maxTs) ==
    IF rec.version > upTo \/ rec.commitTs > maxTs THEN st
    ELSE FoldLeft(ApplyRemove,
           FoldLeft(LAMBDA s, u : ApplyDV(rec, s, u),
             FoldLeft(LAMBDA s, p : ApplyAdd(rec, s, p), st, rec.adds),
             rec.dvs),
           rec.removes)

\* The entries that were not blanked, in their order.
Squeezed(out) ==
    LET compact[i \in 0 .. Len(out)] ==
            IF i = 0 THEN <<>>
            ELSE IF out[i].path = NoPath THEN compact[i - 1] ELSE Append(compact[i - 1], out[i])
    IN  compact[Len(out)]

Resolve(recs, upTo, maxTs) ==
    Squeezed(FoldLeft(LAMBDA st, rec : ApplyRecord(st, rec, upTo, maxTs),
                      [out |-> <<>>, idx |-> <<>>], recs).out)

Infinity == MaxRecords + MaxTrouble + 1

Snapshot == Resolve(records, version, Infinity)
SnapshotAt(ts) == Resolve(records, version, ts)
At(v) == Resolve(records, IF v < version THEN v ELSE version, Infinity)

\* Mutant: the counter restarts from the last record only when it added segments.
MaxCommitTsBug(recs) ==
    IF recs # <<>> /\ Last(recs).adds = <<>> THEN 0
    ELSE IF recs = <<>> THEN 0 ELSE Last(recs).commitTs

MaxCommitTs(recs) ==
    CHOOSE m \in {0} \cup {recs[i].commitTs : i \in DOMAIN recs} :
        \A i \in DOMAIN recs : recs[i].commitTs <= m

LivePaths == {Snapshot[i].path : i \in DOMAIN Snapshot}

-----------------------------------------------------------------------------
Init ==
    /\ records = <<>> /\ version = 0 /\ file = <<>>
    /\ handle = "open" /\ commitTs = 0 /\ trouble = 0
    /\ seen = [ts \in {0} |-> Snapshot]

\* The record and its fsync succeed.
Appended(rec) ==
    /\ file' = Append(file, rec)
    /\ records' = Append(records, rec)
    /\ version' = version + 1
    /\ UNCHANGED <<handle, trouble>>

\* Mutant: the version counter moves although the record was rolled back.
RolledBackBug(rec) ==
    /\ trouble < MaxTrouble /\ trouble' = trouble + 1
    /\ version' = version + 1
    /\ UNCHANGED <<records, file, handle>>

\* The write or its fsync fails, and truncating back succeeds.
RolledBack(rec) ==
    /\ trouble < MaxTrouble /\ trouble' = trouble + 1
    /\ UNCHANGED <<records, version, file, handle>>

\* Truncating back fails too: the line, or a piece of it, stays in the file and
\* the handle is given up.
Poisoned(rec) ==
    /\ trouble < MaxTrouble /\ trouble' = trouble + 1
    /\ \E rest \in {<<>>, <<Torn>>, <<rec>>} : file' = file \o rest
    /\ handle' = "poisoned"
    /\ UNCHANGED <<records, version>>

\* The process dies during the append.
CrashIn(rec) ==
    /\ trouble < MaxTrouble /\ trouble' = trouble + 1
    /\ \E rest \in {<<>>, <<Torn>>, <<rec>>} : file' = file \o rest
    /\ handle' = "closed" /\ records' = <<>> /\ version' = 0

\* appendRecord, for Commit and Retire. The caller has drawn a timestamp. In
\* seen, a timestamp whose record was not reported written is left out.
AppendRecord(adds, dvs, removes) ==
    LET rec == Record(version + 1, commitTs + 1, adds, dvs, removes)
    IN  /\ handle = "open" /\ Len(file) < MaxRecords
        /\ commitTs' = commitTs + 1
        /\ \/ /\ Appended(rec)
              /\ seen' = [ts \in DOMAIN seen \cup {rec.commitTs} |->
                            IF ts = rec.commitTs THEN Snapshot' ELSE seen[ts]]
           \/ (RolledBack(rec) \/ Poisoned(rec) \/ CrashIn(rec)) /\ UNCHANGED seen

\* A statement publishes segments under paths that are not in use and gives
\* live segments new deletion vectors.
Commit(adds, dvs) ==
    /\ adds # <<>> \/ dvs # <<>>
    /\ AppendRecord(adds, dvs, <<>>)

\* Retention removes live segments.
Retire(paths) ==
    /\ paths # <<>>
    /\ AppendRecord(<<>>, <<>>, paths)

\* Close, or a crash between appends.
Close ==
    /\ handle # "closed"
    /\ handle' = "closed" /\ records' = <<>> /\ version' = 0
    /\ UNCHANGED <<file, commitTs, trouble, seen>>

\* OpenManifest: load reads up to the first torn line and truncates there; the
\* engine restarts its counter from MaxCommitTs.
Load ==
    /\ handle = "closed"
    /\ LET bad == {i \in DOMAIN file : file[i] = Torn}
           good == IF bad = {} THEN file
                   ELSE SubSeq(file, 1, (CHOOSE i \in bad : \A j \in bad : i <= j) - 1)
       IN  /\ records' = good /\ file' = good
           /\ version' = IF good = <<>> THEN 0 ELSE Last(good).version
           /\ commitTs' = MaxCommitTs(good)
    /\ handle' = "open"
    /\ UNCHANGED <<trouble, seen>>

-----------------------------------------------------------------------------
\* The inputs of the engine: at most two segments and two DV updates a record.
Next ==
    \/ \E adds \in SetToAllKPermutations(Paths \ LivePaths),
          dvs \in BoundedSeq([seg : LivePaths, dv : DVPaths], 2) : Commit(adds, dvs)
    \/ \E gone \in SUBSET LivePaths : Retire(SetToSeq(gone))
    \/ Close
    \/ Load

Spec == Init /\ [][Next]_vars

-----------------------------------------------------------------------------
(* Properties *)

TypeOK ==
    /\ \A i \in DOMAIN records : records[i].commitTs \in 1 .. commitTs
    /\ version \in 0 .. MaxRecords /\ Len(file) <= MaxRecords
    /\ handle \in {"open", "poisoned", "closed"}
    /\ commitTs \in Nat /\ trouble \in 0 .. MaxTrouble
    /\ LivePaths \subseteq Paths

\* What a snapshot should hold, without the pass over the records: the records
\* it includes decide, the last one to mention a segment wins.
Included(i, upTo, maxTs) ==
    i \in DOMAIN records /\ records[i].version <= upTo /\ records[i].commitTs <= maxTs

Adds(i, p) == \E k \in DOMAIN records[i].adds : records[i].adds[k] = p
Removes(i, p) == \E k \in DOMAIN records[i].removes : records[i].removes[k] = p
Redirects(i, p) == {k \in DOMAIN records[i].dvs : records[i].dvs[k].seg = p}

SetMax(S) == CHOOSE m \in S : \A n \in S : n <= m

\* The record that added the segment p of a snapshot; 0 when p is not in it.
AddedBy(p, upTo, maxTs) ==
    LET adding == {i \in DOMAIN records : Included(i, upTo, maxTs) /\ Adds(i, p)}
    IN  IF adding = {} THEN 0
        ELSE IF \E j \in DOMAIN records : /\ j >= SetMax(adding)
                                          /\ Included(j, upTo, maxTs) /\ Removes(j, p)
             THEN 0 ELSE SetMax(adding)

ExpectedEntry(p, upTo, maxTs) ==
    LET from == AddedBy(p, upTo, maxTs)
        updates == {j \in DOMAIN records : /\ j >= from /\ Included(j, upTo, maxTs)
                                           /\ Redirects(j, p) # {}}
        last == SetMax(updates)
    IN  IF updates = {} THEN Entry(p, records[from].commitTs, NoDV, 0)
        ELSE Entry(p, records[from].commitTs, records[last].dvs[SetMax(Redirects(last, p))].dv,
                   records[last].commitTs)

ExpectedView(upTo, maxTs) ==
    {ExpectedEntry(p, upTo, maxTs) :
        p \in {q \in Paths : AddedBy(q, upTo, maxTs) # 0}}

\* The one-pass resolution yields, at every version and timestamp, exactly one
\* entry for each segment that is live there, with its latest deletion vector.
ViewsAgree ==
    \A v \in 0 .. version, ts \in 0 .. commitTs :
        LET view == Resolve(records, v, ts)
        IN  /\ ToSet(view) = ExpectedView(v, ts)
            /\ Len(view) = Cardinality(ToSet(view))

\* A committed timestamp always resolves to the view its commit produced,
\* whatever is appended, fails, crashes or is reloaded later.
SnapshotsStable ==
    handle # "closed" => \A ts \in DOMAIN seen : SnapshotAt(ts) = seen[ts]

\* At(version) reads a prefix of the records: the version of a record is its
\* position, although failed appends used the same number before it.
VersionsConsecutive ==
    /\ \A i \in DOMAIN records : records[i].version = i
    /\ version = Len(records)
=============================================================================
