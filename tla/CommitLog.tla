----------------------------- MODULE CommitLog -----------------------------
(***************************************************************************)
(* The commit path of the engine, one file operation per step: the files a *)
(* statement stages, the write-ahead log, one manifest per table, and what *)
(* Open does with them after a crash.                                      *)
(*                                                                         *)
(* A transaction is the one statement of an auto-commit Exec, or a Tx.     *)
(* db.mu serializes them, so there is never more than one, and the only    *)
(* other actor is the environment: a process crash, a power loss or a      *)
(* failing write between any two steps.                                    *)
(*                                                                         *)
(* A segment holds one row. A row is named by the stamp of the statement   *)
(* that wrote it, so that two files written at one path can be told apart. *)
(* A deletion vector (DV) kills the row of its segment. The path of a DV   *)
(* names the segment and the time it was written; the DVs of a statement   *)
(* share its stamp.                                                        *)
(***************************************************************************)
EXTENDS Naturals, Sequences, FiniteSets

CONSTANTS
    Tables,       \* the tables of the database
    Kinds,        \* the statements clients run: a subset of AllKinds
    MultiTable,   \* TRUE when a Tx may write more than one table
    PowerLoss,    \* TRUE when a crash may lose what was never fsynced
    FaultAt,      \* the commit steps at which an I/O error may be returned
    MaxClock,     \* bound: transactions begun
    MaxCrashes,   \* bound: crashes
    MaxFaults     \* bound: I/O errors

AllKinds == {"insert", "update", "delete"}
CommitSteps == {"intent", "manifest", "record", "truncate"}

ASSUME TablesAssumption == IsFiniteSet(Tables) /\ Tables # {}
ASSUME KindsAssumption == Kinds \subseteq AllKinds
ASSUME FlagsAssumption ==
    /\ MultiTable \in BOOLEAN
    /\ PowerLoss \in BOOLEAN
    /\ FaultAt \subseteq CommitSteps
ASSUME BoundsAssumption ==
    /\ MaxClock \in Nat
    /\ MaxCrashes \in Nat
    /\ MaxFaults \in Nat

VARIABLES
    wal,        \* the records of the log file that the open handle counts
    walTail,    \* what a failed append left in the file after them
    walDisk,    \* the contents a power loss may leave the log file with
    manifest,   \* per table, the latest Snapshot: segment path -> entry
    manifestTs, \* per table, the highest CommitTs of its records
    manifestFile, \* per table, what load would make of the manifest file now
    manifestDisk, \* per table, what load may make of it after a power loss
    poisoned,   \* tables whose manifest handle a failed append closed
    failed,     \* history: <<table, stamp>> of each failed manifest append
    segFiles,   \* segment files on disk: path -> the row in the file
    dvFiles,    \* deletion vector files on disk
    softDVs,    \* deletion vectors whose data no fsync has forced to disk
    tornDVs,    \* deletion vectors a power loss left short
    pc,         \* where the one thread of control is
    nextTxnID, nextCommitTs, segCount,   \* counters of the DB value
    txn,        \* the transaction being executed
    pending,    \* log positions recovery has still to look at
    group,      \* log positions of the group recovery works on
    clock,      \* time.Now(): stamps DV paths and rows
    crashes, faults,
    begun       \* history: the parts of every transaction that began to commit

walVars == <<wal, walTail, walDisk>>
manifestVars == <<manifest, manifestTs, manifestFile, manifestDisk, poisoned, failed>>
fileVars == <<segFiles, dvFiles, softDVs, tornDVs>>
memVars == <<nextTxnID, nextCommitTs, segCount>>
recVars == <<pending, group>>
vars == <<walVars, manifestVars, fileVars, pc, memVars, txn, recVars, clock,
          crashes, faults, begun>>

-----------------------------------------------------------------------------
(* Paths, entries and records *)

SegPath == Tables \X Nat               \* <<table, segment id>>
DVPath == SegPath \X Nat               \* <<segment path, UnixNano>>
NoDV == <<>>

Entry == [dv : DVPath \cup {NoDV}, row : Nat]

\* What a transaction does to one table: the new segments, the segments that
\* get a new DV, and the stamp of their rows and DVs.
Part == [adds : SUBSET SegPath, marks : SUBSET SegPath, stamp : Nat]

Intent(id, ts, t, part) ==
    [kind |-> "intent", txnID |-> id, commitTs |-> ts, table |-> t, part |-> part]
CommitRecord(id) == [kind |-> "commit", txnID |-> id]

NewDVs(part) == {<<s, part.stamp>> : s \in part.marks}

\* Manifest.Commit followed by Snapshot: adds become entries, then the DV of
\* each known segment is replaced.
Publish(view, part) ==
    [s \in DOMAIN view \cup part.adds |->
        [dv  |-> IF s \in part.marks THEN <<s, part.stamp>>
                 ELSE IF s \in part.adds THEN NoDV ELSE view[s].dv,
         row |-> IF s \in part.adds THEN part.stamp ELSE view[s].row]]

\* Manifest.Commit writes nothing when there is nothing to publish.
IsEmptyPart(part) == part.adds = {} /\ part.marks = {}

\* What a manifest file says: its latest view, and its highest CommitTs.
Recorded(view, ts) == [view |-> view, ts |-> ts]

\* The manifest of table t with one record more.
Extended(t, part, ts) == Recorded(Publish(manifest[t], part), ts)

Live(t) == DOMAIN manifest[t]

\* A DV file that is not there reads as "every row is live".
IsDead(entry) == entry.dv # NoDV /\ entry.dv \in dvFiles
VisibleSegs(t) == {s \in Live(t) : ~IsDead(manifest[t][s])}

NoTxn == [isTx |-> FALSE, parts |-> <<>>, toWrite |-> {}, toMark |-> {},
          left |-> {}, cur |-> "none", id |-> 0, ts |-> 0]

\* Mutant: commit records are not looked at.
PendingIntentsBug(log) == {i \in DOMAIN log : log[i].kind = "intent"}

\* PendingTxnGroups: a commit record drops every intent of its TxnID seen so far.
PendingIntents(log) ==
    {i \in DOMAIN log :
        /\ log[i].kind = "intent"
        /\ \A j \in DOMAIN log :
              (j > i /\ log[j].kind = "commit") => log[j].txnID # log[i].txnID}

\* Mutant: recovery believes the log, where the commit record is missing.
IsCommittedBug(intent) == FALSE

\* An intent counts as committed when one of its new segments is in the manifest.
IsCommitted(intent) == intent.part.adds \cap Live(intent.table) # {}

\* Mutant: the counter restarts at the highest id, not beyond it.
SegCountFromBug(view) == CHOOSE n \in {0} \cup {s[2] : s \in DOMAIN view} :
                            \A s \in DOMAIN view : s[2] <= n

\* manifestFor: segment ids go on after the highest one in the latest snapshot.
SegCountFrom(view) == CHOOSE n \in {0} \cup {s[2] + 1 : s \in DOMAIN view} :
                         \A s \in DOMAIN view : s[2] < n

\* Mutant: the timestamp of the table that is furthest behind.
MaxManifestTsBug == CHOOSE m \in {manifestFile[t].ts : t \in Tables} :
                       \A t \in Tables : m <= manifestFile[t].ts

MaxManifestTs == CHOOSE m \in {manifestFile[t].ts : t \in Tables} :
                    \A t \in Tables : manifestFile[t].ts <= m

-----------------------------------------------------------------------------
(* Files: an fsync leaves one possible content, a plain write or truncate   *)
(* adds one more.                                                            *)

\* Mutant: the record stays in a buffer of the process.
AppendSyncedBug(recs) == /\ wal' = wal \o recs /\ walTail' = <<>>
                         /\ UNCHANGED walDisk

\* An append goes where the last acknowledged record ends, over the tail.
AppendSynced(recs) == /\ wal' = wal \o recs /\ walTail' = <<>>
                      /\ walDisk' = {wal'}
AppendNoSync(recs) == /\ wal' = wal \o recs /\ walTail' = <<>>
                      /\ walDisk' = walDisk \cup {wal'}
TruncateToHeader == /\ wal' = <<>> /\ walTail' = <<>>
                    /\ walDisk' = walDisk \cup {wal'}

\* appendRecord: the line is written and fsynced, and the records in memory grow.
AppendLine(t, content) ==
    /\ manifest' = [manifest EXCEPT ![t] = content.view]
    /\ manifestTs' = [manifestTs EXCEPT ![t] = content.ts]
    /\ manifestFile' = [manifestFile EXCEPT ![t] = content]
    /\ manifestDisk' = [manifestDisk EXCEPT ![t] = {content}]
    /\ UNCHANGED <<poisoned, failed>>

-----------------------------------------------------------------------------
Init ==
    /\ wal = <<>> /\ walTail = <<>> /\ walDisk = {<<>>}
    /\ manifest = [t \in Tables |-> <<>>]
    /\ manifestTs = [t \in Tables |-> 0]
    /\ manifestFile = [t \in Tables |-> Recorded(<<>>, 0)]
    /\ manifestDisk = [t \in Tables |-> {Recorded(<<>>, 0)}]
    /\ poisoned = {} /\ failed = {}
    /\ segFiles = <<>> /\ dvFiles = {} /\ softDVs = {} /\ tornDVs = {}
    /\ pc = "idle"
    /\ nextTxnID = 0 /\ nextCommitTs = 0 /\ segCount = [t \in Tables |-> 0]
    /\ txn = NoTxn
    /\ pending = {} /\ group = {}
    /\ clock = 0 /\ crashes = 0 /\ faults = 0 /\ begun = {}

-----------------------------------------------------------------------------
(* Executing statements: what they write before they commit *)

\* The part a statement of this kind stages when its WHERE matches the rows of
\* segments hit. An UPDATE that matches nothing writes no segment.
StagedPart(kind, t, hit) ==
    [adds  |-> IF kind = "insert" \/ (kind = "update" /\ hit # {})
               THEN {<<t, segCount[t]>>} ELSE {},
     marks |-> hit,
     stamp |-> clock]

\* A statement (or the statements of a Tx) picks its rows in the latest
\* snapshot and takes the segment ids it needs.
Execute(isTx, kinds, hits) ==
    LET parts == [t \in DOMAIN kinds |-> StagedPart(kinds[t], t, hits[t])]
    IN  /\ pc = "idle"
        /\ clock < MaxClock
        /\ clock' = clock + 1
        /\ txn' = [NoTxn EXCEPT
                     !.isTx = isTx,
                     !.parts = parts,
                     !.toWrite = UNION {parts[t].adds : t \in DOMAIN parts},
                     !.toMark = UNION {NewDVs(parts[t]) : t \in DOMAIN parts}]
        /\ segCount' = [t \in Tables |->
                          IF t \in DOMAIN parts
                          THEN segCount[t] + Cardinality(parts[t].adds)
                          ELSE segCount[t]]
        /\ pc' = "stage"
        /\ UNCHANGED <<walVars, manifestVars, fileVars, nextTxnID,
                       nextCommitTs, recVars, crashes, faults, begun>>

\* WriteSegment: temporary file, fsync, rename, directory fsync.
WriteSegment(s) ==
    /\ pc = "stage" /\ s \in txn.toWrite
    /\ segFiles' = [p \in DOMAIN segFiles \cup {s} |->
                      IF p = s THEN txn.parts[s[1]].stamp ELSE segFiles[p]]
    /\ txn' = [txn EXCEPT !.toWrite = @ \ {s}]
    /\ UNCHANGED <<walVars, manifestVars, dvFiles, softDVs, tornDVs, pc,
                   memVars, recVars, clock, crashes, faults, begun>>

\* WriteDVAtPath: temporary file, rename, directory fsync, but no fsync of the
\* file, whose data may still be only in memory.
WriteDVAtPath(d) ==
    /\ pc = "stage" /\ d \in txn.toMark
    /\ dvFiles' = dvFiles \cup {d}
    /\ softDVs' = softDVs \cup {d}
    /\ txn' = [txn EXCEPT !.toMark = @ \ {d}]
    /\ UNCHANGED <<walVars, manifestVars, segFiles, tornDVs, pc, memVars,
                   recVars, clock, crashes, faults, begun>>

\* Tx.Rollback removes what the transaction staged.
Rollback ==
    /\ pc = "stage" /\ txn.isTx /\ txn.toWrite = {} /\ txn.toMark = {}
    /\ LET adds == UNION {txn.parts[t].adds : t \in DOMAIN txn.parts}
           marks == UNION {NewDVs(txn.parts[t]) : t \in DOMAIN txn.parts}
       IN  /\ segFiles' = [p \in DOMAIN segFiles \ adds |-> segFiles[p]]
           /\ dvFiles' = dvFiles \ marks
           /\ softDVs' = softDVs \ marks
    /\ pc' = "idle" /\ txn' = NoTxn
    /\ UNCHANGED <<walVars, manifestVars, tornDVs, memVars, recVars, clock,
                   crashes, faults, begun>>

-----------------------------------------------------------------------------
(* Committing: for each table in turn intent, manifest record, commit        *)
(* record; then the log is truncated and the caller told.                    *)

\* commitManifestTxn and Tx.Commit draw one TxnID and one CommitTs.
BeginCommit ==
    /\ pc = "stage" /\ txn.toWrite = {} /\ txn.toMark = {}
    /\ nextTxnID' = nextTxnID + 1
    /\ nextCommitTs' = nextCommitTs + 1
    /\ txn' = [txn EXCEPT !.left = DOMAIN txn.parts,
                          !.id = nextTxnID', !.ts = nextCommitTs']
    /\ begun' = begun \cup {txn.parts}
    /\ pc' = "intent"
    /\ UNCHANGED <<walVars, manifestVars, fileVars, segCount, recVars, clock,
                   crashes, faults>>

\* Tx.Commit ranges over a map: the tables come in any order.
AppendIntent(t) ==
    /\ pc = "intent" /\ t \in txn.left
    /\ AppendSynced(<<Intent(txn.id, txn.ts, t, txn.parts[t])>>)
    /\ txn' = [txn EXCEPT !.cur = t]
    /\ pc' = "manifest"
    /\ UNCHANGED <<manifestVars, fileVars, memVars, recVars, clock, crashes,
                   faults, begun>>

\* Manifest.Commit appends one line and fsyncs it: a crash leaves it whole or
\* drops it, because load truncates a line that is cut short.
CommitManifest ==
    /\ pc = "manifest"
    /\ LET t == txn.cur
           part == txn.parts[t]
       IN  \/ /\ IsEmptyPart(part)
              /\ UNCHANGED manifestVars
           \/ /\ ~IsEmptyPart(part) /\ t \notin poisoned
              /\ AppendLine(t, Extended(t, part, txn.ts))
    /\ pc' = "record"
    /\ UNCHANGED <<walVars, fileVars, memVars, txn, recVars, clock, crashes,
                   faults, begun>>

AppendCommitRecord ==
    /\ pc = "record"
    /\ AppendNoSync(<<CommitRecord(txn.id)>>)
    /\ txn' = [txn EXCEPT !.left = @ \ {txn.cur}, !.cur = "none"]
    /\ pc' = IF txn.left = {txn.cur} THEN "truncate" ELSE "intent"
    /\ UNCHANGED <<manifestVars, fileVars, memVars, recVars, clock, crashes,
                   faults, begun>>

Acknowledge ==
    /\ pc = "truncate"
    /\ TruncateToHeader
    /\ pc' = "idle" /\ txn' = NoTxn
    /\ UNCHANGED <<manifestVars, fileVars, memVars, recVars, clock, crashes,
                   faults, begun>>

-----------------------------------------------------------------------------
(* Errors: a write of the commit path fails and the statement returns *)

\* What the caller of a failed commit removes: insert its segment, update its
\* segments and DVs, delete and Tx.Commit nothing.
CleanupAdds ==
    IF txn.isTx THEN {} ELSE UNION {txn.parts[t].adds : t \in DOMAIN txn.parts}
CleanupMarks ==
    IF txn.isTx THEN {}
    ELSE UNION {NewDVs(txn.parts[t]) :
                    t \in {u \in DOMAIN txn.parts : txn.parts[u].adds # {}}}

\* The statement returns its error: the files go and the transaction is over.
Abandon ==
    /\ segFiles' = [p \in DOMAIN segFiles \ CleanupAdds |-> segFiles[p]]
    /\ dvFiles' = dvFiles \ CleanupMarks
    /\ softDVs' = softDVs \ CleanupMarks
    /\ pc' = "idle" /\ txn' = NoTxn
    /\ UNCHANGED <<tornDVs, memVars, recVars, clock, crashes, begun>>

Fault == pc \in FaultAt /\ faults < MaxFaults /\ faults' = faults + 1

\* The records the current step appends to the log.
NextRecords == CASE pc = "intent" -> {Intent(txn.id, txn.ts, t, txn.parts[t]) : t \in txn.left}
                 [] pc = "record" -> {CommitRecord(txn.id)}
                 [] OTHER -> {}

\* A log write fails. The handle does not count the record, but nothing takes it
\* out of the file: unless the write itself was short, a restart finds it there.
\* If nothing was written, the file still ends with what was there before.
FailLog ==
    /\ Fault /\ pc # "manifest"
    /\ walTail' \in {<<>>, walTail} \cup {<<r>> : r \in NextRecords}
    /\ walDisk' = walDisk \cup {wal \o walTail'}
    /\ Abandon
    /\ UNCHANGED <<wal, manifestVars>>

\* The manifest write or its fsync fails. rollbackOrPoison truncates the file to
\* its old end, which no fsync makes sure of; if that fails it closes the handle
\* and the line stays as far as it was written. Either way a power loss may
\* leave the line or not.
FailManifest ==
    /\ Fault /\ pc = "manifest"
    /\ LET t == txn.cur
           part == txn.parts[t]
           line == Extended(t, part, txn.ts)
       IN  /\ ~IsEmptyPart(part) /\ t \notin poisoned
           /\ \E rolledBack \in BOOLEAN, found \in {manifestFile[t], line} :
                 /\ rolledBack => found = manifestFile[t]
                 /\ manifestFile' = [manifestFile EXCEPT ![t] = found]
                 /\ poisoned' = IF rolledBack THEN poisoned ELSE poisoned \cup {t}
           /\ manifestDisk' = [manifestDisk EXCEPT ![t] = @ \cup {line}]
           /\ failed' = failed \cup {<<t, part.stamp>>}
    /\ Abandon
    /\ UNCHANGED <<walVars, manifest, manifestTs>>

\* "manifest: closed": after that no commit to the table gets through any more.
ManifestClosed ==
    /\ pc = "manifest"
    /\ txn.cur \in poisoned /\ ~IsEmptyPart(txn.parts[txn.cur])
    /\ Abandon
    /\ UNCHANGED <<walVars, manifestVars, faults>>

-----------------------------------------------------------------------------
(* Crashes and recovery *)

LoseMemory ==
    /\ pc # "down" /\ crashes < MaxCrashes
    /\ crashes' = crashes + 1
    /\ pc' = "down"
    /\ txn' = NoTxn /\ pending' = {} /\ group' = {}
    /\ nextTxnID' = 0 /\ nextCommitTs' = 0 /\ segCount' = [t \in Tables |-> 0]
    /\ walTail' = <<>> /\ poisoned' = {}
    /\ UNCHANGED <<manifest, manifestTs, failed, segFiles, clock, faults, begun>>

\* The process dies. The kernel still holds every write.
ProcessCrash ==
    /\ LoseMemory
    /\ wal' = wal \o walTail
    /\ UNCHANGED <<walDisk, manifestFile, manifestDisk, dvFiles, softDVs, tornDVs>>

\* The machine dies. The log and each manifest keep some content they had since
\* their last fsync, and any DV whose data was not forced to disk may be cut
\* short.
PowerCrash(log, files, torn) ==
    /\ PowerLoss
    /\ LoseMemory
    /\ wal' = log /\ walDisk' = {log}
    /\ manifestFile' = files
    /\ manifestDisk' = [t \in Tables |-> {files[t]}]
    /\ tornDVs' = tornDVs \cup torn
    /\ softDVs' = {}
    /\ UNCHANGED dvFiles

\* Open: the manifests are loaded, counters come from them, and the log is
\* replayed. Until then manifest is what the last process knew.
Open ==
    /\ pc = "down"
    /\ manifest' = [t \in Tables |-> manifestFile[t].view]
    /\ manifestTs' = [t \in Tables |-> manifestFile[t].ts]
    /\ nextTxnID' = 0
    /\ nextCommitTs' = MaxManifestTs
    /\ segCount' = [t \in Tables |-> SegCountFrom(manifestFile[t].view)]
    /\ pending' = PendingIntents(wal)
    /\ pc' = "recover"
    /\ UNCHANGED <<walVars, manifestFile, manifestDisk, poisoned, failed, fileVars,
                   txn, group, clock, crashes, faults, begun>>

\* recoverTxnGroup looks at the intents of the first pending TxnID and rolls
\* the group forward when any of them reached its manifest.
RecoverGroup(i) ==
    /\ pc = "recover"
    /\ i \in pending /\ \A j \in pending : i <= j
    /\ LET same == {j \in pending : wal[j].txnID = wal[i].txnID}
       IN  /\ group' = same
           /\ pending' = pending \ same
           /\ pc' = IF \E j \in same : IsCommitted(wal[j])
                    THEN "roll" ELSE "unwind"
    /\ UNCHANGED <<walVars, manifestVars, fileVars, memVars, txn, clock,
                   crashes, faults, begun>>

\* A committed intent only gets its commit record, any other is committed again.
RollForward(i) ==
    /\ pc = "roll"
    /\ i \in group /\ \A j \in group : i <= j
    /\ LET intent == wal[i]
           t == intent.table
           done == IsCommitted(intent)
       IN  /\ IF done \/ IsEmptyPart(intent.part) THEN UNCHANGED manifestVars
              ELSE AppendLine(t, Extended(t, intent.part, intent.commitTs))
           /\ AppendNoSync(IF done THEN <<CommitRecord(intent.txnID)>>
                           ELSE <<intent, CommitRecord(intent.txnID)>>)
    /\ group' = group \ {i}
    /\ pc' = IF group = {i} THEN "recover" ELSE "roll"
    /\ UNCHANGED <<fileVars, memVars, txn, pending, clock, crashes, faults, begun>>

\* Nothing of the group committed: the files of each intent are removed,
RemoveOrphans(i) ==
    /\ pc = "unwind"
    /\ i \in group /\ \A j \in group : i <= j
    /\ LET part == wal[i].part
       IN  /\ segFiles' = [p \in DOMAIN segFiles \ part.adds |-> segFiles[p]]
           /\ dvFiles' = dvFiles \ NewDVs(part)
           /\ softDVs' = softDVs \ NewDVs(part)
    /\ pc' = "mark"
    /\ UNCHANGED <<walVars, manifestVars, tornDVs, memVars, txn, recVars,
                   clock, crashes, faults, begun>>

\* and the intent is marked resolved.
MarkIntentResolved(i) ==
    /\ pc = "mark"
    /\ i \in group /\ \A j \in group : i <= j
    /\ AppendNoSync(<<CommitRecord(wal[i].txnID)>>)
    /\ group' = group \ {i}
    /\ pc' = IF group = {i} THEN "recover" ELSE "unwind"
    /\ UNCHANGED <<manifestVars, fileVars, memVars, txn, pending, clock,
                   crashes, faults, begun>>

\* Mutant: Open goes on only with an empty log.
FinishOpenBug ==
    /\ pc = "recover" /\ wal = <<>>
    /\ pc' = "idle"
    /\ UNCHANGED <<walVars, manifestVars, fileVars, memVars, txn, recVars,
                   clock, crashes, faults, begun>>

FinishOpen ==
    /\ pc = "recover" /\ pending = {}
    /\ pc' = "idle"
    /\ UNCHANGED <<walVars, manifestVars, fileVars, memVars, txn, recVars,
                   clock, crashes, faults, begun>>

-----------------------------------------------------------------------------
\* UPDATE and DELETE open every live segment with its DV, INSERT opens none.
Readable(t) == \A s \in Live(t) : /\ s \in DOMAIN segFiles
                                  /\ manifest[t][s].dv \notin tornDVs

\* The segments whose row a statement of this kind may pick.
Hits(kind, t) ==
    CASE kind = "insert" -> {{}}
      [] kind # "insert" /\ Readable(t) -> SUBSET VisibleSegs(t)
      [] OTHER -> {}

Statement(t, kind) == \E hit \in Hits(kind, t) :
    Execute(FALSE, [u \in {t} |-> kind], [u \in {t} |-> hit])

\* A Tx runs one statement on each table of ts.
Transaction(ts) ==
    /\ ts # {} /\ (MultiTable \/ Cardinality(ts) = 1)
    /\ \E kinds \in [ts -> Kinds] :
       \E hits \in [ts -> SUBSET UNION {Live(t) : t \in ts}] :
          /\ \A t \in ts : hits[t] \in Hits(kinds[t], t)
          /\ Execute(TRUE, kinds, hits)

Client ==
    \/ \E t \in Tables, kind \in Kinds : Statement(t, kind)
    \/ \E ts \in SUBSET Tables : Transaction(ts)

Engine ==
    \/ \E s \in txn.toWrite : WriteSegment(s)
    \/ \E d \in txn.toMark : WriteDVAtPath(d)
    \/ BeginCommit
    \/ \E t \in txn.left : AppendIntent(t)
    \/ CommitManifest
    \/ ManifestClosed
    \/ AppendCommitRecord
    \/ Acknowledge

Recovery ==
    \/ Open
    \/ \E i \in pending : RecoverGroup(i)
    \/ \E i \in group : RollForward(i) \/ RemoveOrphans(i) \/ MarkIntentResolved(i)
    \/ FinishOpen

Environment ==
    \/ FailLog
    \/ FailManifest
    \/ ProcessCrash
    \/ \E log \in walDisk, torn \in SUBSET softDVs,
          files \in [Tables -> UNION {manifestDisk[t] : t \in Tables}] :
          /\ \A t \in Tables : files[t] \in manifestDisk[t]
          /\ PowerCrash(log, files, torn)

\* The bound on transactions is reached and no client calls any more.
ClientsDone == pc = "idle" /\ clock = MaxClock /\ UNCHANGED vars

Next == Client \/ Engine \/ Rollback \/ Recovery \/ Environment \/ ClientsDone

Spec == Init /\ [][Next]_vars

\* Somebody opens the database again after a crash, and Open runs to its end.
FairSpec == Spec /\ WF_vars(Recovery)

-----------------------------------------------------------------------------
(* Properties *)

Up == pc \notin {"down", "recover", "roll", "unwind", "mark"}

LogRecord ==
    [kind : {"intent"}, txnID : Nat, commitTs : Nat, table : Tables, part : Part]
        \cup [kind : {"commit"}, txnID : Nat]

\* A transaction whose parts are the ones given.
TxnOf(parts) ==
    [isTx : BOOLEAN, parts : {parts}, toWrite : SUBSET SegPath,
     toMark : SUBSET DVPath, left : SUBSET DOMAIN parts,
     cur : Tables \cup {"none"}, id : Nat, ts : Nat]

\* The views of table t that are in memory, or that a restart may find.
Views(t) == {manifest[t]} \cup {c.view : c \in manifestDisk[t]}

\* The shape of every variable, counters within the bounds of the model.
TypeOK ==
    /\ {wal, wal \o walTail} \subseteq walDisk /\ walDisk \subseteq Seq(LogRecord)
    /\ DOMAIN manifest = Tables /\ manifestTs \in [Tables -> Nat]
    /\ DOMAIN manifestFile = Tables /\ DOMAIN manifestDisk = Tables
    /\ \A t \in Tables :
          /\ manifestFile[t] \in manifestDisk[t]
          /\ \A c \in manifestDisk[t] : c.ts \in Nat
          /\ \A view \in Views(t) : \A s \in DOMAIN view :
                s \in SegPath /\ s[1] = t /\ view[s] \in Entry
    /\ poisoned \subseteq Tables /\ failed \subseteq Tables \X Nat
    /\ DOMAIN segFiles \subseteq SegPath
    /\ \A s \in DOMAIN segFiles : segFiles[s] \in Nat
    /\ softDVs \subseteq DVPath /\ dvFiles \subseteq DVPath /\ tornDVs \subseteq DVPath
    /\ pc \in CommitSteps \cup {"idle", "stage", "down", "recover", "roll",
                                "unwind", "mark"}
    /\ txn \in TxnOf(txn.parts) /\ DOMAIN txn.parts \subseteq Tables
    /\ \A t \in DOMAIN txn.parts : txn.parts[t] \in Part
    /\ segCount \in [Tables -> Nat] /\ nextTxnID \in Nat /\ nextCommitTs \in Nat
    /\ pending \subseteq DOMAIN wal /\ group \subseteq DOMAIN wal
    /\ clock \in 0 .. MaxClock /\ crashes \in 0 .. MaxCrashes /\ faults \in 0 .. MaxFaults

\* A failed manifest append has promised nothing, although a restart may find
\* its line, and the caller removed the files it names.
Promised(t, stamp) == <<t, stamp>> \notin failed

\* Every segment the manifest has from an append that did not fail is on disk,
\* with the content that was committed under its path.
SegmentsKept ==
    \A t \in Tables : \A s \in Live(t) :
        Promised(t, manifest[t][s].row) =>
            s \in DOMAIN segFiles /\ segFiles[s] = manifest[t][s].row

\* Every deletion vector it has from such an append is on disk: if it were not,
\* the rows it deletes would be read as live.
DeletionsKept ==
    \A t \in Tables : \A s \in Live(t) :
        LET d == manifest[t][s].dv
        IN  d # NoDV /\ Promised(t, d[2]) => d \in dvFiles

\* Whatever crashed, failed or was recovered, the files of what was committed
\* are there. A vector cut short by a power loss is there too: it is found, and
\* the statement that reads it fails.
SnapshotIntact == SegmentsKept /\ DeletionsKept

\* A commit timestamp is above every one that any manifest holds, also after a
\* restart that computed the counter from the manifests alone.
CommitTsFresh ==
    pc \in {"intent", "manifest"} =>
        \A t \in txn.left : manifestTs[t] < txn.ts

\* The tables whose part of the transaction is not in the manifest yet.
Unpublished == CASE pc = "stage" -> DOMAIN txn.parts
                 [] pc \in {"intent", "manifest"} -> txn.left
                 [] OTHER -> {}

\* A statement never stages a segment under a path a manifest already uses,
\* although the counter behind the paths restarts with the process.
StagedPathsFresh ==
    \A t \in Unpublished : txn.parts[t].adds \cap Live(t) = {}

Published(part, t) ==
    /\ part.adds \subseteq Live(t)
    /\ \A s \in part.adds : manifest[t][s].row = part.stamp
    /\ \A s \in part.marks : manifest[t][s].dv = <<s, part.stamp>>

\* When the engine is between transactions, each one that began to commit is in
\* all of its tables or in none of them.
TxnAtomic ==
    pc = "idle" => \A parts \in begun :
        \/ \A t \in DOMAIN parts : Published(parts[t], t)
        \/ \A t \in DOMAIN parts :
              IsEmptyPart(parts[t]) \/ ~Published(parts[t], t)

\* Recovery never has more than one intent to decide about: the group that the
\* forward-roll is for cannot arise.
GroupsAreSingletons == Cardinality(group) <= 1

\* Every crash is followed by an Open that succeeds, unless another one comes.
RecoveryCompletes == (pc = "down") ~> (pc = "idle")

(* What a query would read, as the state of the abstract store. *)

RowsOf(segs) == {segFiles[s] : s \in segs \cap DOMAIN segFiles}

StoreContents == [t \in Tables |-> RowsOf(VisibleSegs(t))]

StorePhase == CASE pc \in {"stage", "intent", "manifest"} -> "pending"
                [] pc \in {"record", "truncate"} -> "applied"
                [] OTHER -> "none"

StoreChange == [t \in Tables |->
    IF t \in DOMAIN txn.parts
    THEN [gone |-> RowsOf(txn.parts[t].marks),
          new  |-> IF txn.parts[t].adds = {} THEN {} ELSE {txn.parts[t].stamp}]
    ELSE [gone |-> {}, new |-> {}]]

\* Where two views of a table differ.
Differing(v, w) == {s \in DOMAIN v \cup DOMAIN w :
                       ~(s \in DOMAIN v \cap DOMAIN w /\ v[s].dv = w[s].dv)}

\* The rows that a restart may bring in or take away.
StoreDoubt == [t \in Tables |->
    RowsOf(UNION {Differing(manifest[t], c.view) : c \in manifestDisk[t]})]

Store == INSTANCE AtomicStore
         WITH Rows <- 0 .. MaxClock, contents <- StoreContents, phase <- StorePhase,
              change <- StoreChange, doubt <- StoreDoubt

\* With transactions of one table the commit path implements the atomic store,
\* through crashes, power losses, restarts and failing intent or manifest
\* writes. The contents of a table are those its manifest and its files name: one
\* whose manifest names a missing segment or a torn DV cannot be read or
\* rewritten at all, and that is no step of the store.
ImplementsAtomicStore == Store!StoreSpec

=============================================================================
