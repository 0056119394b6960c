-------------------------- MODULE CommitLogProofs --------------------------
(***************************************************************************)
(* The safety of the commit path, for any tables, bounds and kinds of      *)
(* crash, under the workload of CommitLogInv, and that it implements the   *)
(* atomic store as long as every transaction is of one table.              *)
(***************************************************************************)
EXTENDS CommitLogInv, SequenceFacts

-----------------------------------------------------------------------------
(* The log *)

\* An appended intent is pending, and what was pending remains so.
LEMMA PendingAfterIntent ==
    ASSUME NEW log \in Seq(LogRecord), NEW r \in LogRecord, r.kind = "intent"
    PROVE  LET next == log \o <<r>> IN
           /\ next \in Seq(LogRecord)
           /\ PendingIntents(next) = PendingIntents(log) \cup {Len(log) + 1}
           /\ \A i \in PendingIntents(log) : next[i] = log[i] /\ i # Len(log) + 1
           /\ next[Len(log) + 1] = r
<1> DEFINE next == log \o <<r>>
<1>1. /\ next \in Seq(LogRecord)
      /\ Len(next) = Len(log) + 1
      /\ DOMAIN next = 1 .. Len(log) + 1
      /\ \A i \in 1 .. Len(log) : next[i] = log[i]
      /\ next[Len(log) + 1] = r
      /\ DOMAIN log = 1 .. Len(log)
      /\ Len(log) \in Nat
  OBVIOUS
<1> HIDE DEF next
<1>2. r.kind # "commit"
  OBVIOUS
<1>3. PendingIntents(next) = PendingIntents(log) \cup {Len(log) + 1}
  BY <1>1, <1>2 DEF PendingIntents
<1> QED
  BY <1>1, <1>3 DEF PendingIntents, next

\* An appended commit record resolves the intents of its TxnID and no other.
LEMMA PendingAfterCommit ==
    ASSUME NEW log \in Seq(LogRecord), NEW id \in Nat
    PROVE  LET next == log \o <<CommitRecord(id)>> IN
           /\ next \in Seq(LogRecord)
           /\ PendingIntents(next) =
                {i \in PendingIntents(log) : log[i].txnID # id}
           /\ \A i \in PendingIntents(log) : next[i] = log[i]
<1> DEFINE r == CommitRecord(id)
<1> DEFINE next == log \o <<r>>
<1>1. /\ r \in LogRecord /\ r.kind = "commit" /\ r.txnID = id
  BY DEF CommitRecord, LogRecord
<1> HIDE DEF r
<1>2. /\ next \in Seq(LogRecord)
      /\ Len(next) = Len(log) + 1
      /\ DOMAIN next = 1 .. Len(log) + 1
      /\ \A i \in 1 .. Len(log) : next[i] = log[i]
      /\ next[Len(log) + 1] = r
      /\ DOMAIN log = 1 .. Len(log)
      /\ Len(log) \in Nat
  BY <1>1
<1> HIDE DEF next
<1>3. PendingIntents(next) = {i \in PendingIntents(log) : log[i].txnID # id}
  BY <1>1, <1>2 DEF PendingIntents
<1> QED
  BY <1>2, <1>3 DEF PendingIntents, next, r

\* An empty log has nothing pending.
LEMMA PendingEmpty == PendingIntents(<<>>) = {}
BY DEF PendingIntents

LEMMA PathIsADV == \A s, n : <<s, n>> # NoDV
BY DEF NoDV

LEMMA ClockIsNat ==
    ASSUME TypeOK
    PROVE  clock \in Nat
BY BoundsAssumption DEF TypeOK

-----------------------------------------------------------------------------
(* What stays as it is while the manifests do *)

LEMMA ViewsFrame ==
    ASSUME UNCHANGED <<manifest, manifestDisk>>
    PROVE  /\ \A t \in Tables : Views(t)' = Views(t) /\ Live(t)' = Live(t)
           /\ \A d : Referenced(d)' <=> Referenced(d)
BY DEF Views, Live, Referenced

LEMMA ResolvableFrame ==
    ASSUME NEW intent, Resolvable(intent), Views(intent.table)' = Views(intent.table)
    PROVE  Resolvable(intent)'
BY DEF Resolvable

\* The log fares well while the views become no more and the clock does not go
\* back.
LEMMA LogFrame ==
    ASSUME LogInv, TypeOK, \A t \in Tables : Views(t)' \subseteq Views(t),
           walDisk' \subseteq walDisk, clock' \in Nat, clock <= clock'
    PROVE  LogInv'
<1> SUFFICES ASSUME NEW log \in walDisk, NEW i \in PendingIntents(log)
             PROVE  /\ log[i].part.stamp < clock'
                    /\ Resolvable(log[i])'
  BY DEF LogInv
<1>1. log[i].part.stamp \in Nat /\ log[i].part.stamp < clock /\ Resolvable(log[i])
  BY DEF LogInv, PartOf, Part
<1>2. log[i].table \in Tables /\ clock \in Nat
  BY BoundsAssumption DEF TypeOK, PendingIntents, LogRecord
<1> QED
  BY <1>1, <1>2 DEF Resolvable

\* The files the views need are not touched.
FilesStay ==
    \A t \in Tables : \A view \in Views(t) : \A s \in DOMAIN view :
        /\ Promised(t, view[s].row) /\ s \in DOMAIN segFiles =>
              s \in DOMAIN segFiles' /\ segFiles'[s] = segFiles[s]
        /\ LET d == view[s].dv
           IN  d # NoDV /\ Promised(t, d[2]) /\ d \in dvFiles => d \in dvFiles'

LEMMA FilesFrame ==
    ASSUME FilesInv, FilesStay, failed \subseteq failed',
           \A t \in Tables : Views(t)' \subseteq Views(t)
    PROVE  FilesInv'
<1> SUFFICES ASSUME NEW t \in Tables
             PROVE  /\ \A view \in Views(t)' : HasFiles(t, view)'
                    /\ Settled(t)'
  BY DEF FilesInv
<1>1. \A n : Promised(t, n)' => Promised(t, n)
  BY DEF Promised
<1>2. ASSUME NEW view \in Views(t)'
      PROVE  HasFiles(t, view)'
  <2>1. view \in Views(t) /\ HasFiles(t, view)
    BY DEF FilesInv
  <2> QED
    BY <1>1, <2>1 DEF HasFiles, FilesStay
<1>3. Settled(t)'
  BY <1>1 DEF FilesInv, Settled
<1> QED
  BY <1>2, <1>3

LEMMA SameFiles ==
    ASSUME FilesInv, UNCHANGED <<segFiles, dvFiles>>, failed \subseteq failed',
           \A t \in Tables : Views(t)' \subseteq Views(t)
    PROVE  FilesInv'
<1>1. FilesStay
  BY DEF FilesStay
<1> QED
  BY <1>1, FilesFrame

\* What a view has at a path that the manifest does not came from a failed append.
LEMMA NotPromised ==
    ASSUME FilesInv, NEW t \in Tables, NEW view \in Views(t),
           NEW s \in DOMAIN view, s \notin Live(t)
    PROVE  ~Promised(t, view[s].row)
BY DEF FilesInv, Settled, Views, Live

\* Files the manifests do not need may go.
LEMMA RemovalStays ==
    ASSUME FilesInv, NEW adds, NEW marks,
           \A s \in adds : \A t \in Tables : s \notin Live(t),
           \A d \in marks : ~Referenced(d),
           segFiles' = [p \in DOMAIN segFiles \ adds |-> segFiles[p]],
           dvFiles' = dvFiles \ marks
    PROVE  FilesStay
<1> SUFFICES ASSUME NEW t \in Tables, NEW view \in Views(t), NEW s \in DOMAIN view
             PROVE  /\ Promised(t, view[s].row) => s \notin adds
                    /\ view[s].dv \notin marks
  BY DEF FilesStay
<1> QED
  BY NotPromised DEF Referenced

\* What is staged stays so while there is no more of it.
LEMMA StagedFrame ==
    ASSUME StagedInv, UNCHANGED <<segFiles, dvFiles, segCount>>,
           \A t \in Tables : Live(t)' = Live(t),
           \A d : Referenced(d)' <=> Referenced(d),
           txn'.parts = txn.parts, txn'.toWrite = txn.toWrite, txn'.toMark = txn.toMark,
           \A t \in Todo' : t \in Todo /\ t \in Tables
    PROVE  StagedInv'
<1> SUFFICES ASSUME NEW t \in Todo'
             PROVE  LET part == txn.parts[t] IN
                      /\ \A s \in part.adds :
                            /\ s \notin Live(t)' /\ s[2] < segCount[t]
                            /\ \/ s \in txn.toWrite
                               \/ s \in DOMAIN segFiles /\ segFiles[s] = part.stamp
                      /\ \A d \in NewDVs(part) : /\ ~Referenced(d)'
                                                 /\ d \in txn.toMark \cup dvFiles
  BY DEF StagedInv, NewDVs
<1>1. t \in Todo /\ Live(t)' = Live(t)
  OBVIOUS
<1> QED
  BY <1>1 DEF StagedInv

\* The part of TypeOK that is about the manifests.
ManifestType ==
    /\ DOMAIN manifest = Tables /\ manifestTs \in [Tables -> Nat]
    /\ DOMAIN manifestFile = Tables /\ DOMAIN manifestDisk = Tables
    /\ \A t \in Tables :
          /\ manifestFile[t] \in manifestDisk[t]
          /\ \A c \in manifestDisk[t] : c.ts \in Nat
          /\ \A view \in Views(t) : \A s \in DOMAIN view :
                s \in SegPath /\ s[1] = t /\ view[s] \in Entry
    /\ poisoned \subseteq Tables /\ failed \subseteq Tables \X Nat

LEMMA ManifestTypeFrame ==
    ASSUME TypeOK, UNCHANGED manifestVars
    PROVE  ManifestType'
BY DEF TypeOK, ManifestType, Views, manifestVars

LEMMA LivePaths ==
    ASSUME TypeOK, NEW t \in Tables, NEW s \in Live(t)
    PROVE  /\ s \in SegPath /\ s[1] = t /\ s \in DOMAIN manifest[t]
           /\ manifest[t][s] \in Entry
           /\ manifest[t] \in Views(t)
BY DEF TypeOK, Views, Live

-----------------------------------------------------------------------------
LEMMA InitInv == Workload /\ Init => IInv
<1> SUFFICES ASSUME Init PROVE IInv
  OBVIOUS
<1> USE DEF Init
<1>0. \A t \in Tables : /\ Views(t) = {<<>>} /\ Live(t) = {}
                        /\ manifestDisk[t] = {Recorded(<<>>, 0)}
  BY DEF Views, Live, Recorded
<1>1. TypeOK
  <2>1. <<>> \in Seq(LogRecord) /\ <<>> \o <<>> = <<>>
    OBVIOUS
  <2>2. txn \in TxnOf(txn.parts) /\ DOMAIN txn.parts = {}
    BY DEF TxnOf, NoTxn
  <2> QED
    BY <1>0, <2>1, <2>2, TablesAssumption, BoundsAssumption DEF TypeOK, Recorded
<1>2. FilesInv
  BY <1>0 DEF FilesInv, HasFiles, Settled
<1>3. ManifestInv
  BY <1>0 DEF ManifestInv, HasTop
<1>4. TimestampInv
  BY DEF TimestampInv, Committing
<1>5. PartsInv /\ StagedInv /\ ProgressInv
  BY DEF PartsInv, StagedInv, ProgressInv, Todo, Busy, Committing
<1>6. LogInv /\ PendingInv /\ RecoveryInv
  BY PendingEmpty DEF LogInv, PendingInv, RecoveryInv, Recovering
<1> QED
  BY <1>1, <1>2, <1>3, <1>4, <1>5, <1>6 DEF IInv

-----------------------------------------------------------------------------
(* Staging *)

LEMMA WriteSegmentInv ==
    ASSUME IInv, NEW s \in txn.toWrite, WriteSegment(s)
    PROVE  IInv' /\ FilesStay
<1> USE DEF WriteSegment, IInv
<1>0. /\ \A t \in Tables : Views(t)' = Views(t) /\ Live(t)' = Live(t)
      /\ \A d : Referenced(d)' <=> Referenced(d)
      /\ ManifestType'
  BY ViewsFrame, ManifestTypeFrame DEF manifestVars
<1>1. PICK t \in DOMAIN txn.parts : s \in txn.parts[t].adds
  BY DEF ProgressInv
<1>2. /\ t \in Tables /\ s[1] = t /\ s \in SegPath /\ s \notin Live(t)
      /\ txn.parts[t].stamp \in Nat
  BY <1>1 DEF PartsInv, PartOf, TypeOK, StagedInv, Todo, Busy, Part
<1>3. TypeOK'
  BY <1>0, <1>2 DEF TypeOK, TxnOf, ManifestType, walVars, memVars, recVars
<1>4. FilesStay
  <2> SUFFICES ASSUME NEW u \in Tables, NEW view \in Views(u), NEW x \in DOMAIN view,
                      Promised(u, view[x].row)
               PROVE  x # s
    BY DEF FilesStay
  <2> QED
    BY <1>2, NotPromised DEF TypeOK
<1>5. FilesInv' /\ ManifestInv' /\ TimestampInv'
  <2>1. FilesInv'
    BY <1>0, <1>4, FilesFrame DEF manifestVars
  <2>2. ManifestInv' /\ TimestampInv'
    BY <1>0 DEF ManifestInv, TimestampInv, Committing, manifestVars, memVars
  <2> QED
    BY <2>1, <2>2
<1>6. PartsInv' /\ ProgressInv'
  BY DEF PartsInv, ProgressInv, Busy, Committing, TypeOK, TxnOf
<1>7. StagedInv'
  BY <1>0, <1>2, SMTT(30) DEF StagedInv, Todo, PartsInv, PartOf, Busy, TypeOK, TxnOf, memVars
<1>8. LogInv' /\ PendingInv' /\ RecoveryInv'
  <2>1. LogInv'
    <3>1. LogInv /\ TypeOK /\ walDisk' = walDisk /\ clock' = clock
      BY DEF walVars
    <3>2. clock \in Nat
      BY ClockIsNat
    <3> HIDE DEF WriteSegment, IInv
    <3> QED
      BY <1>0, <3>1, <3>2, LogFrame
  <2>2. PendingInv' /\ RecoveryInv'
    BY DEF PendingInv, RecoveryInv, Recovering, walVars, recVars, memVars
  <2> QED
    BY <2>1, <2>2
<1> QED
  BY <1>3, <1>4, <1>5, <1>6, <1>7, <1>8

LEMMA WriteDVInv ==
    ASSUME IInv, NEW d \in txn.toMark, WriteDVAtPath(d)
    PROVE  IInv' /\ FilesStay
<1> USE DEF WriteDVAtPath, IInv
<1>0. /\ \A t \in Tables : Views(t)' = Views(t) /\ Live(t)' = Live(t)
      /\ \A e : Referenced(e)' <=> Referenced(e)
      /\ ManifestType'
  BY ViewsFrame, ManifestTypeFrame DEF manifestVars
<1>1. TypeOK'
  <2>1. txn' \in TxnOf(txn.parts) /\ txn'.parts = txn.parts
    BY DEF TypeOK, TxnOf
  <2>2. d \in DVPath
    BY DEF TypeOK, TxnOf
  <2>3. softDVs' \subseteq DVPath /\ dvFiles' \subseteq DVPath /\ tornDVs' \subseteq DVPath
    BY <2>2 DEF TypeOK
  <2>4. UNCHANGED <<wal, walTail, walDisk, segFiles, pc, segCount, nextTxnID,
                    nextCommitTs, pending, group, clock, crashes, faults>>
    BY DEF walVars, memVars, recVars
  <2> HIDE DEF WriteDVAtPath
  <2> QED
    BY <1>0, <2>1, <2>3, <2>4, SMTT(30) DEF TypeOK, ManifestType
<1>2. FilesStay
  BY DEF FilesStay
<1>3. FilesInv' /\ ManifestInv' /\ TimestampInv'
  <2>1. FilesInv'
    BY <1>0, <1>2, FilesFrame DEF manifestVars
  <2>2. ManifestInv' /\ TimestampInv'
    BY <1>0 DEF ManifestInv, TimestampInv, Committing, manifestVars, memVars
  <2> QED
    BY <2>1, <2>2
<1>4. PartsInv' /\ ProgressInv'
  BY DEF PartsInv, ProgressInv, Busy, Committing, TypeOK, TxnOf
<1>5. StagedInv'
  BY <1>0, SMTT(30) DEF StagedInv, Todo, TypeOK, TxnOf, memVars
<1>6. LogInv' /\ PendingInv' /\ RecoveryInv'
  <2>1. LogInv'
    <3>1. LogInv /\ TypeOK /\ walDisk' = walDisk /\ clock' = clock
      BY DEF walVars
    <3>2. clock \in Nat
      BY ClockIsNat
    <3> HIDE DEF WriteDVAtPath, IInv
    <3> QED
      BY <1>0, <3>1, <3>2, LogFrame
  <2>2. PendingInv' /\ RecoveryInv'
    BY DEF PendingInv, RecoveryInv, Recovering, walVars, recVars, memVars
  <2> QED
    BY <2>1, <2>2
<1> QED
  BY <1>1, <1>2, <1>3, <1>4, <1>5, <1>6

\* What the transaction staged is in no manifest.
LEMMA StagedIsFree ==
    ASSUME IInv, Busy, NEW ts, ts \subseteq Todo
    PROVE  /\ \A s \in UNION {txn.parts[t].adds : t \in ts} : \A t \in Tables : s \notin Live(t)
           /\ \A d \in UNION {NewDVs(txn.parts[t]) : t \in ts} : ~Referenced(d)
<1>1. ASSUME NEW u \in ts, NEW s \in txn.parts[u].adds, NEW t \in Tables
      PROVE  s \notin Live(t)
  <2>1. s \notin Live(u) /\ u \in DOMAIN txn.parts
    BY DEF IInv, StagedInv, Todo, TypeOK, TxnOf
  <2>2. s[1] = u
    BY <2>1 DEF IInv, PartsInv, PartOf
  <2> QED
    BY <2>1, <2>2, LivePaths DEF IInv
<1>2. ASSUME NEW u \in ts, NEW d \in NewDVs(txn.parts[u]) PROVE ~Referenced(d)
  BY DEF IInv, StagedInv
<1> QED
  BY <1>1, <1>2

LEMMA RollbackInv ==
    ASSUME IInv, Rollback
    PROVE  IInv' /\ FilesStay
<1> USE DEF Rollback, IInv
<1>0. /\ \A t \in Tables : Views(t)' = Views(t) /\ Live(t)' = Live(t)
      /\ ManifestType'
  BY ViewsFrame, ManifestTypeFrame DEF manifestVars
<1>1. TypeOK'
  BY <1>0 DEF TypeOK, TxnOf, NoTxn, ManifestType, walVars, memVars, recVars
<1>2. FilesStay
  <2> DEFINE adds == UNION {txn.parts[t].adds : t \in DOMAIN txn.parts}
             marks == UNION {NewDVs(txn.parts[t]) : t \in DOMAIN txn.parts}
  <2>1. /\ \A s \in adds : \A t \in Tables : s \notin Live(t)
        /\ \A d \in marks : ~Referenced(d)
    BY StagedIsFree DEF Busy, Todo
  <2>2. /\ segFiles' = [p \in DOMAIN segFiles \ adds |-> segFiles[p]]
        /\ dvFiles' = dvFiles \ marks
    OBVIOUS
  <2> HIDE DEF adds, marks, Rollback
  <2> QED
    BY <2>1, <2>2, RemovalStays
<1>3. FilesInv' /\ ManifestInv' /\ TimestampInv'
  <2>1. FilesInv'
    BY <1>0, <1>2, FilesFrame DEF manifestVars
  <2>2. ManifestInv' /\ TimestampInv'
    BY <1>0 DEF ManifestInv, TimestampInv, Committing, manifestVars, memVars
  <2> QED
    BY <2>1, <2>2
<1>4. PartsInv' /\ ProgressInv' /\ StagedInv'
  BY DEF PartsInv, ProgressInv, StagedInv, Todo, Busy, Committing
<1>5. LogInv' /\ PendingInv' /\ RecoveryInv'
  <2>1. LogInv'
    <3>1. LogInv /\ TypeOK /\ walDisk' = walDisk /\ clock' = clock
      BY DEF walVars
    <3>2. clock \in Nat
      BY ClockIsNat
    <3> HIDE DEF Rollback, IInv
    <3> QED
      BY <1>0, <3>1, <3>2, LogFrame
  <2>2. PendingInv' /\ RecoveryInv'
    BY DEF PendingInv, RecoveryInv, Recovering, walVars, recVars, memVars
  <2> QED
    BY <2>1, <2>2
<1> QED
  BY <1>1, <1>2, <1>3, <1>4, <1>5

LEMMA ExecuteInv ==
    ASSUME Workload, IInv,
           NEW isTx \in BOOLEAN, NEW ts \in SUBSET Tables,
           NEW kinds \in [ts -> Kinds], NEW hits,
           \A t \in ts : hits[t] \in Hits(kinds[t], t),
           isTx \/ \A t, u \in ts : t = u,
           Execute(isTx, kinds, hits)
    PROVE  IInv'
<1> DEFINE parts == [t \in ts |-> StagedPart(kinds[t], t, hits[t])]
<1>0. clock \in Nat /\ clock < MaxClock /\ segCount \in [Tables -> Nat]
  BY BoundsAssumption DEF IInv, TypeOK, Execute
<1>1. \A t \in ts : /\ hits[t] \subseteq Live(t) /\ hits[t] \subseteq SegPath
                    /\ \A s \in hits[t] : s[1] = t
                    /\ kinds[t] = "insert" => hits[t] = {}
                    /\ kinds[t] \in {"insert", "update"}
  BY LivePaths DEF Hits, VisibleSegs, Workload, IInv
<1>2. ASSUME NEW t \in ts
      PROVE  /\ PartOf(parts[t], t)
             /\ parts[t].stamp = clock
             /\ parts[t].adds = {} \/ parts[t].adds = {<<t, segCount[t]>>}
  <2>1. parts[t] = StagedPart(kinds[t], t, hits[t]) /\ t \in Tables
    OBVIOUS
  <2>2. <<t, segCount[t]>> \in SegPath
    BY <1>0, <2>1 DEF SegPath
  <2> HIDE DEF parts
  <2> QED
    BY <1>0, <1>1, <2>1, <2>2 DEF StagedPart, PartOf, Part
<1>3. ASSUME NEW t \in ts
      PROVE  /\ Cardinality(parts[t].adds) \in Nat
             /\ parts[t].adds # {} => Cardinality(parts[t].adds) = 1
  <2>1. Cardinality({}) = 0 /\ Cardinality({<<t, segCount[t]>>}) = 1
    BY FS_EmptySet, FS_Singleton
  <2> HIDE DEF parts
  <2>2. CASE parts[t].adds = {}
    <3>1. Cardinality(parts[t].adds) = 0
      BY <2>1, <2>2, Zenon
    <3> QED
      BY <2>2, <3>1
  <2>3. CASE parts[t].adds = {<<t, segCount[t]>>}
    <3>1. Cardinality(parts[t].adds) = 1
      BY <2>1, <2>3, Zenon
    <3> QED
      BY <3>1
  <2> QED
    BY <1>2, <2>2, <2>3
<1>4. /\ DOMAIN kinds = ts
      /\ pc = "idle" /\ pc' = "stage" /\ clock' = clock + 1 /\ clock < MaxClock
      /\ txn' = [NoTxn EXCEPT
                   !.isTx = isTx,
                   !.parts = parts,
                   !.toWrite = UNION {parts[t].adds : t \in ts},
                   !.toMark = UNION {NewDVs(parts[t]) : t \in ts}]
      /\ segCount' = [t \in Tables |->
                        IF t \in ts THEN segCount[t] + Cardinality(parts[t].adds)
                        ELSE segCount[t]]
      /\ UNCHANGED <<walVars, manifestVars, fileVars, nextTxnID, nextCommitTs,
                     recVars, crashes, faults, begun>>
  BY DEF Execute
<1> HIDE DEF parts
<1>5. /\ txn'.isTx = isTx /\ txn'.parts = parts /\ DOMAIN parts = ts
      /\ txn'.toWrite = UNION {parts[t].adds : t \in ts}
      /\ txn'.toMark = UNION {NewDVs(parts[t]) : t \in ts}
      /\ txn'.left = {} /\ txn'.cur = "none" /\ txn'.id = 0 /\ txn'.ts = 0
      /\ txn' = [isTx |-> isTx, parts |-> parts, toWrite |-> txn'.toWrite,
                 toMark |-> txn'.toMark, left |-> {}, cur |-> "none",
                 id |-> 0, ts |-> 0]
  BY <1>4 DEF NoTxn, parts
<1>6. segCount' \in [Tables -> Nat] /\ \A t \in Tables : segCount'[t] >= segCount[t]
  BY <1>3, <1>4 DEF IInv, TypeOK
<1> USE DEF IInv
<1>60. /\ \A t \in Tables : Views(t)' = Views(t) /\ Live(t)' = Live(t)
       /\ \A d : Referenced(d)' <=> Referenced(d)
       /\ ManifestType' /\ failed' = failed /\ manifestTs' = manifestTs
  BY <1>4, ViewsFrame, ManifestTypeFrame DEF manifestVars
<1>7. TypeOK'
  <2>1. txn' \in TxnOf(txn'.parts)
    <3>1. txn'.toWrite \subseteq SegPath /\ txn'.toMark \subseteq DVPath
      BY <1>2, <1>5 DEF PartOf, Part, NewDVs, DVPath
    <3> QED
      BY <1>5, <3>1 DEF TxnOf
  <2>2. clock' \in 0 .. MaxClock
    BY <1>4, BoundsAssumption DEF TypeOK
  <2> QED
    BY <1>2, <1>4, <1>5, <1>6, <1>60, <2>1, <2>2
       DEF TypeOK, ManifestType, PartOf, walVars, fileVars, recVars
<1>8. FilesInv'
  BY <1>4, <1>60, SameFiles DEF fileVars
<1>9. ManifestInv'
  <2>1. ASSUME NEW t \in Tables
        PROVE  \A s \in Live(t) : s[2] < segCount'[t]
    BY <1>0, <1>4, <1>6, LivePaths DEF ManifestInv, SegPath
  <2>2. ASSUME NEW t \in Tables, NEW view \in Views(t), NEW s \in DOMAIN view
        PROVE  LET d == view[s].dv IN d # NoDV => d[1] = s /\ d[2] < clock + 1
    <3>1. view[s].dv # NoDV => view[s].dv \in DVPath
      BY DEF TypeOK, Entry
    <3> QED
      BY <1>0, <3>1 DEF ManifestInv, DVPath
  <2> QED
    BY <1>4, <1>60, <2>1, <2>2 DEF ManifestInv
<1>10. TimestampInv' /\ PartsInv' /\ ProgressInv'
  BY <1>2, <1>4, <1>5, <1>60 DEF TimestampInv, PartsInv, ProgressInv, Busy, Committing, TypeOK
<1>11. StagedInv'
  <2>1. ASSUME NEW t \in ts, NEW s \in parts[t].adds
        PROVE  s \notin Live(t) /\ s[2] < segCount'[t] /\ s \in txn'.toWrite
    <3>1. s = <<t, segCount[t]>> /\ segCount'[t] = segCount[t] + 1
      BY <1>0, <1>2, <1>3, <1>4
    <3> QED
      BY <1>0, <1>4, <1>5, <3>1 DEF ManifestInv
  <2>2. ASSUME NEW t \in ts, NEW d \in NewDVs(parts[t])
        PROVE  ~Referenced(d) /\ d \in txn'.toMark
    <3>1. PICK s : d = <<s, clock>>
      BY <1>2 DEF NewDVs
    <3>2. d # NoDV /\ d[2] = clock
      BY <3>1, PathIsADV
    <3>3. ~Referenced(d)
      BY <1>0, <3>2 DEF ManifestInv, Referenced
    <3>4. d \in txn'.toMark
      BY <1>5, ZenonT(30)
    <3> QED
      BY <3>3, <3>4
  <2> QED
    BY <1>4, <1>5, <1>60, <2>1, <2>2 DEF StagedInv, Todo
<1>12. LogInv' /\ PendingInv' /\ RecoveryInv'
  <2>1. UNCHANGED <<wal, walDisk, nextTxnID, pending, group>>
    BY <1>4 DEF walVars, recVars
  <2>2. \A log \in walDisk : \A i \in PendingIntents(log) :
            log[i].part.stamp \in Nat /\ log[i].part.stamp < clock
    BY DEF LogInv, PartOf, Part
  <2>3. LogInv'
    BY <1>0, <1>4, <1>60, <2>1, LogFrame
  <2>4. PendingInv'
    BY <1>0, <1>4, <2>1, <2>2 DEF PendingInv, TypeOK
  <2>5. RecoveryInv'
    BY <1>4, <2>1 DEF RecoveryInv, Recovering
  <2> QED
    BY <2>3, <2>4, <2>5
<1> QED
  BY <1>7, <1>8, <1>9, <1>10, <1>11, <1>12

-----------------------------------------------------------------------------
(* Committing *)

LEMMA BeginCommitInv ==
    ASSUME IInv, BeginCommit
    PROVE  IInv'
<1> USE DEF BeginCommit, IInv
<1>1. /\ txn' = [txn EXCEPT !.left = DOMAIN txn.parts,
                            !.id = nextTxnID', !.ts = nextCommitTs']
      /\ txn \in TxnOf(txn.parts)
      /\ nextTxnID' = nextTxnID + 1 /\ nextTxnID \in Nat
      /\ nextCommitTs' = nextCommitTs + 1 /\ nextCommitTs \in Nat
  BY DEF TypeOK
<1>2. /\ txn' \in TxnOf(txn.parts) /\ txn'.parts = txn.parts /\ txn'.isTx = txn.isTx
      /\ txn'.toWrite = {} /\ txn'.toMark = {}
      /\ txn'.left = DOMAIN txn.parts /\ txn'.id = nextTxnID' /\ txn'.ts = nextCommitTs'
  <2>1. nextTxnID' \in Nat /\ nextCommitTs' \in Nat
    BY <1>1
  <2>2. txn.toWrite = {} /\ txn.toMark = {}
    OBVIOUS
  <2> HIDE DEF BeginCommit, IInv
  <2> QED
    BY <1>1, <2>1, <2>2 DEF TxnOf
<1>20. /\ \A t \in Tables : Views(t)' = Views(t) /\ Live(t)' = Live(t)
       /\ \A d : Referenced(d)' <=> Referenced(d)
       /\ ManifestType' /\ failed' = failed /\ manifestTs' = manifestTs
  BY ViewsFrame, ManifestTypeFrame DEF manifestVars
<1>3. TypeOK'
  <2>1. /\ pc' = "intent" /\ nextTxnID' \in Nat /\ nextCommitTs' \in Nat
        /\ UNCHANGED <<wal, walTail, walDisk, segFiles, dvFiles, softDVs, tornDVs, segCount,
                       pending, group, clock, crashes, faults>>
    BY <1>1 DEF walVars, fileVars, recVars
  <2>2. TypeOK
    OBVIOUS
  <2> HIDE DEF BeginCommit, IInv
  <2> QED
    BY <1>2, <1>20, <2>1, <2>2 DEF TypeOK, ManifestType, CommitSteps
<1>4. FilesInv'
  BY <1>20, SameFiles DEF fileVars
<1>5. ManifestInv'
  BY <1>20 DEF ManifestInv
<1>6. TimestampInv'
  BY <1>1, <1>2, <1>20 DEF TimestampInv, Todo, Committing, TypeOK
<1>7. PartsInv' /\ ProgressInv'
  BY <1>2 DEF PartsInv, ProgressInv, Busy, Committing
<1>8. StagedInv'
  <2>1. UNCHANGED <<segFiles, dvFiles, segCount>> /\ txn.toWrite = {} /\ txn.toMark = {}
    BY DEF fileVars
  <2>2. \A t \in Todo' : t \in Todo /\ t \in Tables
    BY <1>2 DEF Todo, TypeOK
  <2> HIDE DEF BeginCommit, IInv
  <2> QED
    BY <1>2, <1>20, <2>1, <2>2, StagedFrame DEF IInv
<1>9. LogInv' /\ RecoveryInv'
  <2>1. LogInv /\ TypeOK /\ walDisk' = walDisk /\ clock' = clock
    BY DEF walVars
  <2>4. clock \in Nat
    BY ClockIsNat
  <2>2. LogInv'
    BY <1>20, <2>1, <2>4, LogFrame
  <2>3. RecoveryInv'
    BY DEF RecoveryInv, Recovering, walVars, recVars
  <2> QED
    BY <2>2, <2>3
<1>10. PendingInv'
  <2>1. \A i \in PendingIntents(wal) : wal[i].txnID \in Nat
    BY DEF TypeOK, PendingIntents, LogRecord
  <2> QED
    BY <1>1, <1>2, <2>1 DEF PendingInv, Earlier, walVars
<1> QED
  BY <1>3, <1>4, <1>5, <1>6, <1>7, <1>8, <1>9, <1>10

\* The log is as sound with the intent of table t at its end as it was before.
LoggedFacts(t, r, log) ==
    /\ r \in LogRecord /\ r.kind = "intent" /\ r.txnID = txn.id
    /\ r.table = t /\ r.part = txn.parts[t]
    /\ log \in Seq(LogRecord)
    /\ PendingIntents(log) = PendingIntents(wal) \cup {Len(wal) + 1}
    /\ \A i \in PendingIntents(wal) : /\ log[i] = wal[i] /\ i # Len(wal) + 1
                                      /\ Earlier(wal[i]) /\ wal[i].txnID \in Nat
    /\ log[Len(wal) + 1] = r
    /\ \A i \in PendingIntents(log) :
         /\ PartOf(log[i].part, log[i].table)
         /\ log[i].part.stamp < clock
         /\ log[i].table \in Tables /\ Resolvable(log[i])
         /\ \A j \in PendingIntents(log) : log[j].txnID = log[i].txnID => j = i

LEMMA IntentLogged ==
    ASSUME IInv, pc = "intent", NEW t \in txn.left,
           NEW r, r = Intent(txn.id, txn.ts, t, txn.parts[t]),
           NEW log, log = wal \o <<r>>
    PROVE  LoggedFacts(t, r, log)
<1> USE DEF IInv
<1>1. /\ t \in Tables /\ t \in DOMAIN txn.parts
      /\ PartOf(txn.parts[t], t) /\ txn.parts[t].stamp + 1 = clock
  BY DEF PartsInv, Busy, Committing, TypeOK, TxnOf
<1>2. /\ r \in LogRecord /\ r.kind = "intent" /\ r.txnID = txn.id
      /\ r.table = t /\ r.part = txn.parts[t]
  BY <1>1 DEF Intent, LogRecord, PartOf, TypeOK, TxnOf
<1>3. wal \in Seq(LogRecord) /\ wal \in walDisk
  BY DEF TypeOK
<1>4. /\ log \in Seq(LogRecord)
      /\ PendingIntents(log) = PendingIntents(wal) \cup {Len(wal) + 1}
      /\ \A i \in PendingIntents(wal) : log[i] = wal[i] /\ i # Len(wal) + 1
      /\ log[Len(wal) + 1] = r
  BY <1>2, <1>3, PendingAfterIntent
<1>5. \A i \in PendingIntents(wal) : Earlier(wal[i]) /\ wal[i].txnID \in Nat
  BY <1>3 DEF PendingInv, PendingIntents, LogRecord
<1>6. Resolvable(r)
  <2>1. \A d \in NewDVs(r.part) : ~Referenced(d)
    BY <1>2 DEF StagedInv, Todo
  <2> QED
    BY <1>1, <1>2, <2>1 DEF Resolvable, Referenced
<1>7. ASSUME NEW i \in PendingIntents(log)
      PROVE  /\ PartOf(log[i].part, log[i].table)
             /\ log[i].part.stamp < clock
             /\ Resolvable(log[i])
  <2>1. CASE i \in PendingIntents(wal)
    BY <1>3, <1>4, <2>1 DEF LogInv
  <2>2. CASE i = Len(wal) + 1
    <3>1. log[i] = r /\ r.part.stamp < clock
      BY <1>1, <1>2, <1>4, <2>2 DEF PartOf, Part
    <3> QED
      BY <1>1, <1>2, <1>6, <3>1
  <2> QED
    BY <1>4, <2>1, <2>2
<1>8. ASSUME NEW i \in PendingIntents(log) PROVE  log[i].table \in Tables
  BY <1>4 DEF PendingIntents, LogRecord
<1>9. ASSUME NEW i \in PendingIntents(log), NEW j \in PendingIntents(log),
             log[j].txnID = log[i].txnID
      PROVE  j = i
  <2>1. txn.id \in Nat
    BY DEF TypeOK, TxnOf
  <2>2. ASSUME NEW k \in PendingIntents(wal) PROVE log[k].txnID # txn.id
    <3>1. log[k] = wal[k] /\ wal[k].txnID < txn.id /\ wal[k].txnID \in Nat
      BY <1>4, <1>5 DEF Earlier
    <3> QED
      BY ONLY <2>1, <3>1
  <2>3. CASE i = Len(wal) + 1 \/ j = Len(wal) + 1
    BY <1>2, <1>4, <1>9, <2>2, <2>3
  <2>4. CASE i \in PendingIntents(wal) /\ j \in PendingIntents(wal)
    BY <1>3, <1>4, <1>9, <2>4 DEF LogInv
  <2> QED
    BY <1>4, <2>3, <2>4
<1> HIDE DEF IInv
<1> QED
  BY <1>2, <1>4, <1>5, <1>7, <1>8, <1>9 DEF LoggedFacts

LEMMA AppendIntentInv ==
    ASSUME IInv, NEW t \in txn.left, AppendIntent(t)
    PROVE  IInv'
<1> SUFFICES ASSUME NEW r, r = Intent(txn.id, txn.ts, t, txn.parts[t]),
                    NEW log, log = wal \o <<r>>
             PROVE  IInv'
  OBVIOUS
<1> USE DEF IInv
<1>1. /\ pc = "intent" /\ pc' = "manifest"
      /\ wal' = log /\ walTail' = <<>> /\ walDisk' = {wal'}
      /\ txn' = [txn EXCEPT !.cur = t]
      /\ UNCHANGED <<segFiles, dvFiles, softDVs, tornDVs, nextTxnID, nextCommitTs,
                     segCount, pending, group, clock, crashes, faults, begun>>
  BY DEF AppendIntent, AppendSynced, fileVars, memVars, recVars
<1>2. /\ txn' \in TxnOf(txn.parts) /\ txn'.cur = t
      /\ txn'.parts = txn.parts /\ txn'.isTx = txn.isTx
      /\ txn'.toWrite = txn.toWrite /\ txn'.toMark = txn.toMark
      /\ txn'.left = txn.left /\ txn'.id = txn.id /\ txn'.ts = txn.ts
  <2>1. t \in Tables
    BY DEF TypeOK, TxnOf
  <2> QED
    BY <1>1, <2>1 DEF TypeOK, TxnOf
<1>3. /\ \A u \in Tables : Views(u)' = Views(u) /\ Live(u)' = Live(u)
      /\ \A d : Referenced(d)' <=> Referenced(d)
      /\ ManifestType' /\ failed' = failed /\ manifestTs' = manifestTs
  BY ViewsFrame, ManifestTypeFrame DEF AppendIntent, manifestVars
<1>4. /\ r.txnID = txn.id /\ r.table = t /\ r.part = txn.parts[t]
      /\ wal' \in Seq(LogRecord)
      /\ PendingIntents(wal') = PendingIntents(wal) \cup {Len(wal) + 1}
      /\ \A i \in PendingIntents(wal) : wal'[i] = wal[i] /\ Earlier(wal[i])
      /\ wal'[Len(wal) + 1] = r
  <2> HIDE DEF IInv
  <2>1. LoggedFacts(t, r, log)
    BY <1>1, IntentLogged
  <2>2. wal' = log
    BY <1>1
  <2>3. /\ r.txnID = txn.id /\ r.table = t /\ r.part = txn.parts[t]
        /\ log \in Seq(LogRecord)
        /\ PendingIntents(log) = PendingIntents(wal) \cup {Len(wal) + 1}
        /\ \A i \in PendingIntents(wal) : log[i] = wal[i] /\ Earlier(wal[i])
        /\ log[Len(wal) + 1] = r
    BY <2>1 DEF LoggedFacts
  <2> QED
    BY <2>2, <2>3
<1>13. \A i \in PendingIntents(log) :
          /\ PartOf(log[i].part, log[i].table)
          /\ log[i].part.stamp < clock
          /\ log[i].table \in Tables /\ Resolvable(log[i])
          /\ \A j \in PendingIntents(log) : log[j].txnID = log[i].txnID => j = i
  <2> HIDE DEF IInv
  <2>1. LoggedFacts(t, r, log)
    BY <1>1, IntentLogged
  <2> QED
    BY <2>1, Zenon DEF LoggedFacts
<1>5. TypeOK'
  <2>1. wal' \o walTail' = wal'
    BY <1>1, <1>4
  <2> QED
    BY <1>1, <1>2, <1>3, <1>4, <2>1
       DEF TypeOK, ManifestType, CommitSteps, RecoveryInv, Recovering
<1>6. FilesInv'
  BY <1>1, <1>3, SameFiles
<1>7. ManifestInv' /\ TimestampInv'
  BY <1>1, <1>2, <1>3 DEF ManifestInv, TimestampInv, Todo, Committing
<1>8. PartsInv' /\ ProgressInv'
  BY <1>1, <1>2 DEF PartsInv, ProgressInv, Busy, Committing
<1>9. StagedInv'
  <2>1. \A u \in Todo' : u \in Todo /\ u \in Tables
    BY <1>1, <1>2 DEF Todo, TypeOK, TxnOf
  <2> HIDE DEF IInv
  <2> QED
    BY <1>1, <1>2, <1>3, <2>1, StagedFrame DEF IInv
<1>10. LogInv'
  <2> SUFFICES ASSUME NEW l \in walDisk', NEW i \in PendingIntents(l)
               PROVE  /\ PartOf(l[i].part, l[i].table)
                      /\ l[i].part.stamp < clock'
                      /\ Resolvable(l[i])'
                      /\ \A j \in PendingIntents(l) : l[j].txnID = l[i].txnID => j = i
    BY Zenon DEF LogInv
  <2>1. l = log /\ clock' = clock
    BY <1>1
  <2>2. /\ PartOf(log[i].part, log[i].table) /\ log[i].part.stamp < clock
        /\ log[i].table \in Tables /\ Resolvable(log[i])
        /\ \A j \in PendingIntents(log) : log[j].txnID = log[i].txnID => j = i
    BY <1>13, <2>1
  <2>3. Views(log[i].table)' = Views(log[i].table)
    BY <1>3, <2>2
  <2>4. Resolvable(log[i])'
    BY <2>2, <2>3, ResolvableFrame
  <2> QED
    BY <2>1, <2>2, <2>4
<1>11. PendingInv'
  <2>1. /\ pc' = "manifest" /\ walDisk' = {wal'}
        /\ txn'.id = txn.id /\ txn'.cur = t /\ txn'.parts = txn.parts /\ clock' = clock
    BY <1>1, <1>2
  <2>2. ASSUME NEW i \in PendingIntents(wal) PROVE  Earlier(wal[i])'
    BY <1>4, <2>1 DEF Earlier
  <2>3. ASSUME NEW i, i = Len(wal) + 1 PROVE  Current(wal[i])'
    BY <1>4, <2>1, <2>3 DEF Current
  <2>4. \A i \in PendingIntents(wal') : Earlier(wal[i])' \/ Current(wal[i])'
    BY <1>4, <2>2, <2>3
  <2> QED
    BY <2>1, <2>4 DEF PendingInv
<1>12. RecoveryInv'
  BY <1>1 DEF RecoveryInv, Recovering
<1> QED
  BY <1>5, <1>6, <1>7, <1>8, <1>9, <1>10, <1>11, <1>12

LEMMA MarksOf ==
    \A view, part : \A s \in DOMAIN Publish(view, part) :
        Publish(view, part)[s].dv = IF s \in part.marks THEN <<s, part.stamp>>
                                    ELSE IF s \in part.adds THEN NoDV ELSE view[s].dv
BY DEF Publish

\* What publishing a part of the workload does to the manifest of its table.
LEMMA PublishFacts ==
    ASSUME NEW t \in Tables, NEW view, NEW part, PartOf(part, t)
    PROVE  LET new == Publish(view, part) IN
           /\ DOMAIN new = DOMAIN view \cup part.adds
           /\ \A s \in DOMAIN new :
                /\ new[s].row = IF s \in part.adds THEN part.stamp ELSE view[s].row
                /\ \/ new[s].dv = <<s, part.stamp>> /\ s \in part.marks
                   \/ new[s].dv = NoDV
                   \/ s \in DOMAIN view /\ new[s].dv = view[s].dv
                /\ new[s] = [dv |-> new[s].dv, row |-> new[s].row]
BY DEF Publish

\* The highest id is still one of the ids in use after a publication.
LEMMA PublishHasTop ==
    ASSUME NEW t \in Tables, NEW view, NEW part, PartOf(part, t),
           DOMAIN view \subseteq SegPath, HasTop(view)
    PROVE  HasTop(Publish(view, part))
<1> DEFINE new == Publish(view, part)
<1>1. DOMAIN new = DOMAIN view \cup part.adds
  BY PublishFacts
<1>2. PICK n \in {0} \cup {s[2] + 1 : s \in DOMAIN view} : \A s \in DOMAIN view : s[2] < n
  BY DEF HasTop
<1>3. n \in Nat /\ \A s \in DOMAIN new : s[2] \in Nat
  BY <1>1, <1>2 DEF SegPath, PartOf, Part
<1> HIDE DEF new
<1>4. CASE part.adds = {}
  BY <1>1, <1>2, <1>4 DEF HasTop, new
<1>5. ASSUME NEW a \in part.adds
      PROVE  HasTop(new)
  <2>1. \A s \in DOMAIN new : s \in DOMAIN view \/ s = a
    BY <1>1 DEF PartOf
  <2>2. CASE a[2] < n
    BY <1>1, <1>2, <2>1, <2>2 DEF HasTop
  <2>3. CASE ~(a[2] < n)
    <3>1. \A s \in DOMAIN new : s[2] < a[2] + 1
      BY <1>1, <1>2, <1>3, <2>1, <2>3
    <3>2. a[2] + 1 \in {s[2] + 1 : s \in DOMAIN new}
      BY <1>1
    <3> QED
      BY <3>1, <3>2 DEF HasTop
  <2> QED
    BY <2>2, <2>3
<1> QED
  BY <1>4, <1>5 DEF new

\* What there is to know of the view that the current step publishes, or is to
\* publish when its append fails.
ViewFacts(t, part, new) ==
    /\ t \in txn.left /\ t \in Tables /\ Todo = txn.left
    /\ PartOf(part, t) /\ part.stamp + 1 = clock /\ part.stamp \in Nat
    /\ DOMAIN new = Live(t) \cup part.adds
    /\ \A s \in part.adds : s \notin Live(t) /\ new[s].row = part.stamp
                            /\ s \in DOMAIN segFiles /\ segFiles[s] = part.stamp
    /\ \A s \in Live(t) : new[s].row = manifest[t][s].row
    /\ \A d \in NewDVs(part) : d \in dvFiles /\ ~Referenced(d)
    /\ \A s \in DOMAIN new : /\ s \in SegPath /\ s[1] = t /\ new[s] \in Entry
                             /\ s[2] < segCount[t]
                             /\ \/ new[s].dv \in NewDVs(part) /\ s \in part.marks
                                \/ new[s].dv = NoDV
                                \/ s \in Live(t) /\ new[s].dv = manifest[t][s].dv
                             /\ new[s].dv # NoDV =>
                                   new[s].dv[1] = s /\ new[s].dv[2] < clock
    /\ HasTop(new)

LEMMA NextView ==
    ASSUME IInv, pc = "manifest", NEW t, t = txn.cur,
           NEW part, part = txn.parts[t], NEW new, new = Publish(manifest[t], part)
    PROVE  ViewFacts(t, part, new)
<1> USE DEF IInv
<1>1. /\ t \in txn.left /\ t \in Tables /\ t \in DOMAIN txn.parts
      /\ PartOf(part, t) /\ part.stamp + 1 = clock /\ part.stamp \in Nat
      /\ Todo = txn.left /\ part \in Part
  <2>1. t \in txn.left /\ t \in DOMAIN txn.parts /\ t \in Tables /\ Todo = txn.left
    BY DEF ProgressInv, TypeOK, TxnOf, Todo
  <2>2. PartOf(part, t) /\ part.stamp + 1 = clock
    BY <2>1 DEF PartsInv, Busy, Committing
  <2> QED
    BY <2>1, <2>2 DEF PartOf, Part
<1>2. /\ DOMAIN new = Live(t) \cup part.adds
      /\ \A s \in DOMAIN new :
           /\ new[s].row = IF s \in part.adds THEN part.stamp ELSE manifest[t][s].row
           /\ \/ new[s].dv = <<s, part.stamp>> /\ s \in part.marks
              \/ new[s].dv = NoDV
              \/ s \in Live(t) /\ new[s].dv = manifest[t][s].dv
           /\ new[s] = [dv |-> new[s].dv, row |-> new[s].row]
  BY DEF Publish, Live
<1>3. \A s \in part.adds : s \notin Live(t) /\ s[2] < segCount[t]
                           /\ s \in DOMAIN segFiles /\ segFiles[s] = part.stamp
  BY <1>1 DEF StagedInv, ProgressInv, Committing
<1>4. \A d \in NewDVs(part) : ~Referenced(d) /\ d \in dvFiles
  BY <1>1 DEF StagedInv, ProgressInv, Committing
<1>5. HasTop(new)
  <2>1. DOMAIN manifest[t] \subseteq SegPath /\ HasTop(manifest[t])
    BY <1>1 DEF TypeOK, ManifestInv, Views
  <2> QED
    BY <1>1, <2>1, PublishHasTop
<1>6. ASSUME NEW s \in DOMAIN new
      PROVE  s \in SegPath /\ s[1] = t /\ s[2] < segCount[t]
  <2>1. CASE s \in part.adds
    BY <1>1, <1>3, <2>1 DEF PartOf, Part
  <2>2. CASE s \in Live(t)
    BY <1>1, <2>2, LivePaths DEF ManifestInv
  <2> QED
    BY <1>2, <2>1, <2>2
<1>7. ASSUME NEW s \in Live(t)
      PROVE  /\ manifest[t][s].row \in Nat
             /\ manifest[t][s].dv \in DVPath \cup {NoDV}
             /\ manifest[t][s].dv # NoDV =>
                   manifest[t][s].dv[1] = s /\ manifest[t][s].dv[2] < clock
  BY <1>1, LivePaths DEF Entry, ManifestInv
<1>8. ASSUME NEW s \in DOMAIN new
      PROVE  /\ new[s].dv \in DVPath \cup {NoDV}
             /\ new[s].dv # NoDV => new[s].dv[1] = s /\ new[s].dv[2] < clock
             /\ \/ new[s].dv \in NewDVs(part) /\ s \in part.marks
                \/ new[s].dv = NoDV
                \/ s \in Live(t) /\ new[s].dv = manifest[t][s].dv
  <2>1. CASE new[s].dv = <<s, part.stamp>> /\ s \in part.marks
    <3>1. new[s].dv \in DVPath /\ new[s].dv \in NewDVs(part)
      BY <1>1, <1>6, <2>1 DEF DVPath, NewDVs
    <3>2. new[s].dv[1] = s /\ new[s].dv[2] = part.stamp
      BY <2>1
    <3> QED
      BY <1>1, <2>1, <3>1, <3>2
  <2>2. CASE new[s].dv = NoDV
    BY <2>2
  <2>3. CASE s \in Live(t) /\ new[s].dv = manifest[t][s].dv
    BY <1>7, <2>3
  <2> QED
    BY <1>2, <2>1, <2>2, <2>3
<1>9. ASSUME NEW s \in DOMAIN new PROVE new[s] \in Entry
  <2> DEFINE v == new[s].dv  n == new[s].row
  <2>1. s \in part.adds \/ s \in Live(t)
    BY <1>2
  <2>2. n \in Nat
    BY <1>1, <1>2, <1>7, <2>1
  <2>3. new[s] = [dv |-> v, row |-> n] /\ v \in DVPath \cup {NoDV}
    BY <1>2, <1>8
  <2> HIDE DEF v, n
  <2> QED
    BY <2>2, <2>3 DEF Entry
<1>10. \A s \in Live(t) : new[s].row = manifest[t][s].row
  BY <1>2, <1>3
<1>11. \A s \in part.adds : new[s].row = part.stamp
  BY <1>2
<1> HIDE DEF IInv
<1> QED
  <2>1. \A s \in DOMAIN new : /\ s \in SegPath /\ s[1] = t /\ new[s] \in Entry
                              /\ s[2] < segCount[t]
                              /\ \/ new[s].dv \in NewDVs(part) /\ s \in part.marks
                                 \/ new[s].dv = NoDV
                                 \/ s \in Live(t) /\ new[s].dv = manifest[t][s].dv
                              /\ new[s].dv # NoDV =>
                                    new[s].dv[1] = s /\ new[s].dv[2] < clock
    BY <1>6, <1>8, <1>9
  <2>2. /\ \A s \in part.adds : s \notin Live(t) /\ new[s].row = part.stamp
                                /\ s \in DOMAIN segFiles /\ segFiles[s] = part.stamp
        /\ DOMAIN new = Live(t) \cup part.adds
    BY <1>2, <1>3, <1>11
  <2> QED
    BY <1>1, <1>4, <1>5, <1>10, <2>1, <2>2 DEF ViewFacts

\* The log can be resolved with that view as well as with those there are: the
\* intent just logged becomes a committed one, an earlier one has earlier DVs.
LEMMA NextViewResolvable ==
    ASSUME IInv, pc = "manifest", NEW t, t = txn.cur,
           NEW part, part = txn.parts[t], NEW new, new = Publish(manifest[t], part),
           NEW i \in PendingIntents(wal), wal[i].table = t,
           NEW x \in DOMAIN new, new[x].dv \in NewDVs(wal[i].part)
    PROVE  \E s \in wal[i].part.adds \cap DOMAIN new : new[s].row = wal[i].part.stamp
<1>1. /\ t \in Tables /\ PartOf(part, t) /\ part.stamp + 1 = clock /\ part.stamp \in Nat
      /\ DOMAIN new = Live(t) \cup part.adds
      /\ \A s \in part.adds : new[s].row = part.stamp
      /\ \A s \in Live(t) : new[s].row = manifest[t][s].row
      /\ \A s \in DOMAIN new : \/ new[s].dv \in NewDVs(part) /\ s \in part.marks
                               \/ new[s].dv = NoDV
                               \/ s \in Live(t) /\ new[s].dv = manifest[t][s].dv
  <2>1. ViewFacts(t, part, new)
    BY NextView
  <2> QED
    BY <2>1 DEF ViewFacts
<1>2. PartOf(wal[i].part, t) /\ Resolvable(wal[i])
  BY DEF IInv, LogInv, TypeOK
<1>3. CASE Current(wal[i])
  <2>1. wal[i].part = part
    BY <1>3 DEF Current
  <2>2. part.marks # {}
    BY <2>1 DEF NewDVs
  <2> QED
    BY <1>1, <2>1, <2>2 DEF PartOf
<1>4. CASE Earlier(wal[i])
  <2>1. PICK m \in wal[i].part.marks : new[x].dv = <<m, wal[i].part.stamp>>
    BY DEF NewDVs
  <2>2. wal[i].part.stamp \in Nat /\ wal[i].part.stamp + 1 < clock
    BY <1>2, <1>4 DEF Earlier, PartOf, Part
  <2>3. new[x].dv # NoDV /\ new[x].dv[2] # part.stamp
    <3>1. new[x].dv[2] = wal[i].part.stamp
      BY <2>1
    <3>4. part.stamp + 1 = clock /\ part.stamp \in Nat
      BY <1>1, Zenon
    <3>2. wal[i].part.stamp # part.stamp
      BY <2>2, <3>4
    <3>3. new[x].dv # NoDV
      BY <2>1, PathIsADV
    <3> QED
      BY <3>1, <3>2, <3>3
  <2>4. new[x].dv \notin NewDVs(part)
    BY <2>3 DEF NewDVs
  <2>5. x \in Live(t) /\ manifest[t][x].dv \in NewDVs(wal[i].part)
    BY <1>1, <2>3, <2>4
  <2>6. PICK s \in wal[i].part.adds \cap Live(t) : manifest[t][s].row = wal[i].part.stamp
    BY <1>2, <2>5 DEF Resolvable, Views, Live
  <2> QED
    BY <1>1, <2>6
<1> QED
  BY <1>3, <1>4 DEF IInv, PendingInv

\* Another table's DVs are not in it.
LEMMA NextViewOthers ==
    ASSUME IInv, pc = "manifest", NEW t, t = txn.cur,
           NEW part, part = txn.parts[t], NEW new, new = Publish(manifest[t], part),
           NEW u \in txn.left, u # t, NEW d \in NewDVs(txn.parts[u])
    PROVE  ~Referenced(d) /\ \A s \in DOMAIN new : new[s].dv # d
<1>1. /\ t \in Tables /\ Todo = txn.left
      /\ \A s \in DOMAIN new : /\ s[1] = t
                               /\ \/ new[s].dv \in NewDVs(part) /\ s \in part.marks
                                  \/ new[s].dv = NoDV
                                  \/ s \in Live(t) /\ new[s].dv = manifest[t][s].dv
                               /\ new[s].dv # NoDV => new[s].dv[1] = s
  <2>1. ViewFacts(t, part, new)
    BY NextView
  <2> QED
    BY <2>1 DEF ViewFacts
<1>2. ~Referenced(d) /\ PartOf(txn.parts[u], u)
  BY <1>1 DEF IInv, StagedInv, PartsInv, Busy, Committing, TypeOK, TxnOf
<1>3. PICK m \in txn.parts[u].marks : d = <<m, txn.parts[u].stamp>>
  BY DEF NewDVs
<1>4. d[1] = m /\ m[1] = u /\ d # NoDV
  BY <1>2, <1>3, PathIsADV DEF PartOf
<1> QED
  BY <1>1, <1>2, <1>4

LEMMA CommitManifestInv ==
    ASSUME IInv, CommitManifest
    PROVE  IInv'
<1> SUFFICES ASSUME NEW t, t = txn.cur, NEW part, part = txn.parts[t],
                    NEW new, new = Publish(manifest[t], part)
             PROVE  IInv'
  OBVIOUS
<1> USE DEF IInv
<1>1. /\ pc = "manifest" /\ pc' = "record"
      /\ \/ IsEmptyPart(part) /\ UNCHANGED manifestVars
         \/ AppendLine(t, Recorded(new, txn.ts))
      /\ UNCHANGED <<wal, walTail, walDisk, segFiles, dvFiles, softDVs, tornDVs,
                     nextTxnID, nextCommitTs, segCount, txn, pending, group, clock,
                     crashes, faults, begun>>
  BY DEF CommitManifest, Extended, walVars, fileVars, memVars, recVars
<1>0. ViewFacts(t, part, new)
  <2> HIDE DEF IInv
  <2> QED
    BY <1>1, NextView
<1>2. /\ t \in txn.left /\ t \in Tables /\ Todo = txn.left /\ PartOf(part, t)
      /\ txn.ts \in Nat /\ nextCommitTs = txn.ts
  BY <1>0, <1>1 DEF ViewFacts, TypeOK, TxnOf, TimestampInv, Committing
<1>3. Todo' = txn.left \ {t} /\ \A u \in Todo' : u \in Todo /\ u \in Tables /\ u # t
  BY <1>1, <1>2 DEF Todo, TypeOK, TxnOf
<1>4. PartsInv' /\ ProgressInv'
  BY <1>1 DEF PartsInv, ProgressInv, Busy, Committing
<1>5. PendingInv' /\ RecoveryInv'
  BY <1>1 DEF PendingInv, RecoveryInv, Recovering, Earlier, Current
\* Nothing to publish: the manifests stay.
<1>6. CASE UNCHANGED manifestVars
  <2>1. /\ \A u \in Tables : Views(u)' = Views(u) /\ Live(u)' = Live(u)
        /\ \A d : Referenced(d)' <=> Referenced(d)
        /\ ManifestType' /\ failed' = failed /\ manifestTs' = manifestTs
    BY <1>6, ViewsFrame, ManifestTypeFrame DEF manifestVars
  <2>2. TypeOK'
    BY <1>1, <2>1 DEF TypeOK, ManifestType, CommitSteps
  <2>3. FilesInv'
    BY <1>1, <2>1, SameFiles
  <2>4. ManifestInv' /\ TimestampInv'
    BY <1>1, <1>3, <2>1 DEF ManifestInv, TimestampInv, Committing
  <2>5. StagedInv'
    BY <1>1, <1>3, <2>1, StagedFrame
  <2>6. LogInv'
    BY <1>1, <2>1, LogFrame, BoundsAssumption DEF TypeOK
  <2> QED
    BY <1>4, <1>5, <2>2, <2>3, <2>4, <2>5, <2>6
\* One line more: a restart finds the new view and no other.
<1>7. CASE AppendLine(t, Recorded(new, txn.ts))
  <2>1. /\ manifestTs' = [manifestTs EXCEPT ![t] = txn.ts]
        /\ DOMAIN manifest' = Tables /\ manifest'[t] = new
        /\ DOMAIN manifestFile' = Tables /\ manifestFile'[t] = Recorded(new, txn.ts)
        /\ DOMAIN manifestDisk' = Tables /\ manifestDisk'[t] = {Recorded(new, txn.ts)}
        /\ \A u \in Tables \ {t} : /\ manifest'[u] = manifest[u]
                                   /\ manifestFile'[u] = manifestFile[u]
                                   /\ manifestDisk'[u] = manifestDisk[u]
        /\ UNCHANGED <<poisoned, failed>>
    BY <1>2, <1>7 DEF AppendLine, Recorded, TypeOK
  <2>2. /\ Views(t)' = {new} /\ Live(t)' = DOMAIN new
        /\ \A u \in Tables \ {t} : Views(u)' = Views(u) /\ Live(u)' = Live(u)
    <3>1. Recorded(new, txn.ts).view = new
      BY DEF Recorded
    <3>2. Views(t)' = {new} /\ Live(t)' = DOMAIN new
      BY <1>2, <2>1, <3>1 DEF Views, Live
    <3>3. ASSUME NEW u \in Tables \ {t}
          PROVE  Views(u)' = Views(u) /\ Live(u)' = Live(u)
      BY <2>1 DEF Views, Live
    <3> QED
      BY <3>2, <3>3
  <2>3. /\ part.stamp + 1 = clock /\ part.stamp \in Nat
        /\ DOMAIN new = Live(t) \cup part.adds
        /\ \A s \in part.adds : s \notin Live(t) /\ new[s].row = part.stamp
                                /\ s \in DOMAIN segFiles /\ segFiles[s] = part.stamp
        /\ \A s \in Live(t) : new[s].row = manifest[t][s].row
        /\ \A d \in NewDVs(part) : d \in dvFiles /\ ~Referenced(d)
        /\ \A s \in DOMAIN new : /\ s \in SegPath /\ s[1] = t /\ new[s] \in Entry
                                 /\ s[2] < segCount[t]
                                 /\ \/ new[s].dv \in NewDVs(part) /\ s \in part.marks
                                    \/ new[s].dv = NoDV
                                    \/ s \in Live(t) /\ new[s].dv = manifest[t][s].dv
                                 /\ new[s].dv # NoDV =>
                                       new[s].dv[1] = s /\ new[s].dv[2] < clock
        /\ HasTop(new)
    <3> HIDE DEF IInv
    <3> QED
      BY <1>0, Zenon DEF ViewFacts
  <2>4. TypeOK'
    <3>1. ManifestType'
      <4>1. manifestTs' \in [Tables -> Nat]
        BY <1>2, <2>1 DEF TypeOK
      <4>2. ASSUME NEW u \in Tables
            PROVE  /\ manifestFile'[u] \in manifestDisk'[u]
                   /\ \A c \in manifestDisk'[u] : c.ts \in Nat
                   /\ \A view \in Views(u)' : \A s \in DOMAIN view :
                         s \in SegPath /\ s[1] = u /\ view[s] \in Entry
        <5>1. CASE u = t
          <6>1. /\ Recorded(new, txn.ts).ts \in Nat /\ Views(u)' = {new}
                /\ manifestDisk'[u] = {Recorded(new, txn.ts)}
                /\ manifestFile'[u] = Recorded(new, txn.ts)
            BY <1>2, <2>1, <2>2, <5>1 DEF Recorded
          <6> QED
            BY <2>3, <5>1, <6>1
        <5>2. CASE u # t
          BY <2>1, <2>2, <5>2 DEF TypeOK
        <5> QED
          BY <5>1, <5>2
      <4> QED
        BY <2>1, <4>1, <4>2 DEF ManifestType, TypeOK
    <3> QED
      BY <1>1, <3>1 DEF TypeOK, ManifestType, CommitSteps
  <2>5. FilesInv'
    <3>1. \A u \in Tables : \A n : Promised(u, n)' <=> Promised(u, n)
      BY <2>1 DEF Promised
    <3>2. HasFiles(t, new)'
      <4>1. HasFiles(t, manifest[t])
        BY <1>2 DEF FilesInv, Views
      <4>4. /\ \A s \in Live(t) : Promised(t, manifest[t][s].row) =>
                  s \in DOMAIN segFiles /\ segFiles[s] = manifest[t][s].row
            /\ \A s \in Live(t) : manifest[t][s].dv # NoDV
                                 /\ Promised(t, manifest[t][s].dv[2]) =>
                  manifest[t][s].dv \in dvFiles
        BY <4>1 DEF HasFiles, Live
      <4>5. \A s \in part.adds : s \notin Live(t) /\ new[s].row = part.stamp
                                /\ s \in DOMAIN segFiles /\ segFiles[s] = part.stamp
        BY <2>3, Zenon
      <4>2. ASSUME NEW s \in DOMAIN new, Promised(t, new[s].row)
            PROVE  s \in DOMAIN segFiles /\ segFiles[s] = new[s].row
        <5>1. CASE s \in part.adds
          BY <4>5, <5>1
        <5>2. CASE s \in Live(t)
          <6>1. new[s].row = manifest[t][s].row
            BY <2>3, <5>2
          <6> QED
            BY <4>2, <4>4, <5>2, <6>1
        <5>3. s \in part.adds \/ s \in Live(t)
          BY <2>3
        <5> QED
          BY <5>1, <5>2, <5>3
      <4>3. ASSUME NEW s \in DOMAIN new, new[s].dv # NoDV, Promised(t, new[s].dv[2])
            PROVE  new[s].dv \in dvFiles
        <5>1. CASE new[s].dv \in NewDVs(part)
          BY <2>3, <5>1
        <5>2. CASE s \in Live(t) /\ new[s].dv = manifest[t][s].dv
          BY <4>3, <4>4, <5>2
        <5>3. new[s].dv \in NewDVs(part) \/ (s \in Live(t) /\ new[s].dv = manifest[t][s].dv)
          BY <2>3, <4>3
        <5> QED
          BY <5>1, <5>2, <5>3
      <4> QED
        <5>1. /\ segFiles' = segFiles /\ dvFiles' = dvFiles
              /\ \A n : Promised(t, n)' <=> Promised(t, n)
          BY <1>1, <1>2, <3>1
        <5> HIDE DEF IInv
        <5> QED
          BY <4>2, <4>3, <5>1 DEF HasFiles
    <3>3. ASSUME NEW u \in Tables
          PROVE  (\A view \in Views(u)' : HasFiles(u, view)') /\ Settled(u)'
      <4>1. CASE u = t
        <5>1. Views(u)' = {new} /\ HasFiles(u, new)'
          BY <2>2, <3>2, <4>1
        <5>2. Settled(u)'
          BY <5>1 DEF Settled
        <5>3. ASSUME NEW view \in Views(u)' PROVE HasFiles(u, view)'
          <6>1. view = new
            BY <5>1
          <6> QED
            BY <5>1, <6>1, Zenon
        <5> QED
          BY <5>2, <5>3
      <4>2. CASE u # t
        <5>1. Views(u)' = Views(u) /\ Settled(u) /\ \A view \in Views(u) : HasFiles(u, view)
          BY <2>2, <4>2 DEF FilesInv
        <5> QED
          BY <1>1, <3>1, <5>1 DEF HasFiles, Settled
      <4> QED
        BY <4>1, <4>2
    <3> QED
      BY <3>3 DEF FilesInv
  <2>6. ManifestInv'
    <3> SUFFICES ASSUME NEW u \in Tables
                 PROVE  /\ \A view \in Views(u)' :
                              /\ HasTop(view)
                              /\ \A s \in DOMAIN view :
                                    view[s].dv # NoDV => view[s].dv[1] = s /\ view[s].dv[2] < clock
                        /\ \A s \in Live(u)' : s[2] < segCount[u]
      BY <1>1 DEF ManifestInv
    <3>1. CASE u = t
      <4>1. Views(u)' = {new} /\ Live(u)' = DOMAIN new /\ u = t
        BY <2>2, <3>1
      <4> QED
        BY ONLY <2>3, <4>1
    <3>2. CASE u # t
      BY <1>1, <2>2, <3>2 DEF ManifestInv
    <3> QED
      BY <3>1, <3>2
  <2>7. TimestampInv'
    <3>1. /\ DOMAIN manifestTs = Tables
          /\ \A u \in Tables : manifestTs[u] \in Nat /\ manifestTs[u] <= txn.ts
      BY <1>1, <1>2 DEF TypeOK, TimestampInv
    <3> QED
      BY <1>1, <1>2, <1>3, <2>1, <3>1 DEF TimestampInv, Committing
  <2>8. StagedInv'
    <3>1. ASSUME NEW u \in Todo', NEW d \in NewDVs(txn.parts[u])
          PROVE  ~Referenced(d)'
      <4>1. ~Referenced(d) /\ \A s \in DOMAIN new : new[s].dv # d
        BY <1>1, <1>3, NextViewOthers
      <4> QED
        <5>1. \A v \in Tables : \A view \in Views(v)' : view = new \/ view \in Views(v)
          BY <2>2
        <5> QED
          BY <4>1, <5>1 DEF Referenced
    <3>2. \A u \in Todo' : u \in Todo /\ Live(u)' = Live(u)
      BY <1>3, <2>2
    <3> QED
      BY <1>1, <3>1, <3>2 DEF StagedInv
  <2>9. LogInv'
    <3> SUFFICES ASSUME NEW i \in PendingIntents(wal)
                 PROVE  Resolvable(wal[i])'
      BY <1>1 DEF LogInv, PendingInv
    <3>1. Resolvable(wal[i]) /\ wal[i].table \in Tables
      BY DEF LogInv, TypeOK, PendingIntents, LogRecord
    <3>2. CASE wal[i].table = t
      <4>1. ASSUME NEW x \in DOMAIN new, new[x].dv \in NewDVs(wal[i].part)
            PROVE  \E s \in wal[i].part.adds \cap DOMAIN new : new[s].row = wal[i].part.stamp
        <5> HIDE DEF IInv
        <5> QED
          BY <1>1, <3>2, <4>1, NextViewResolvable
      <4> QED
        BY <1>1, <2>2, <3>2, <4>1 DEF Resolvable
    <3>3. CASE wal[i].table # t
      BY <1>1, <2>2, <3>1, <3>3 DEF Resolvable
    <3> QED
      BY <3>2, <3>3
  <2> QED
    BY <1>4, <1>5, <2>4, <2>5, <2>6, <2>7, <2>8, <2>9
<1> QED
  BY <1>1, <1>6, <1>7

LEMMA AppendCommitRecordInv ==
    ASSUME IInv, AppendCommitRecord
    PROVE  IInv'
<1> USE DEF IInv
<1> DEFINE r == CommitRecord(txn.id)
<1>1. /\ pc = "record"
      /\ wal' = wal \o <<r>> /\ walTail' = <<>> /\ walDisk' = walDisk \cup {wal'}
      /\ txn' = [txn EXCEPT !.left = @ \ {txn.cur}, !.cur = "none"]
      /\ pc' = IF txn.left = {txn.cur} THEN "truncate" ELSE "intent"
      /\ UNCHANGED <<segFiles, dvFiles, softDVs, tornDVs, nextTxnID, nextCommitTs,
                     segCount, pending, group, clock, crashes, faults, begun>>
  BY DEF AppendCommitRecord, AppendNoSync, fileVars, memVars, recVars
<1>10. /\ \A u \in Tables : Views(u)' = Views(u) /\ Live(u)' = Live(u)
       /\ \A d : Referenced(d)' <=> Referenced(d)
       /\ ManifestType' /\ failed' = failed /\ manifestTs' = manifestTs
  BY ViewsFrame, ManifestTypeFrame DEF AppendCommitRecord, manifestVars
<1>2. /\ txn' \in TxnOf(txn.parts) /\ txn'.cur = "none"
      /\ txn'.parts = txn.parts /\ txn'.isTx = txn.isTx
      /\ txn'.toWrite = txn.toWrite /\ txn'.toMark = txn.toMark
      /\ txn'.left = txn.left \ {txn.cur} /\ txn'.id = txn.id /\ txn'.ts = txn.ts
  BY <1>1 DEF TypeOK, TxnOf
<1>3. txn.id \in Nat /\ txn.cur \in txn.left /\ txn.left \subseteq DOMAIN txn.parts
  BY <1>1 DEF TypeOK, TxnOf, ProgressInv
<1>4. wal \in Seq(LogRecord) /\ wal \in walDisk
  BY DEF TypeOK
<1>5. /\ wal' \in Seq(LogRecord)
      /\ PendingIntents(wal') = {i \in PendingIntents(wal) : wal[i].txnID # txn.id}
      /\ \A i \in PendingIntents(wal) : wal'[i] = wal[i]
  <2> DEFINE next == wal \o <<r>>
  <2>1. /\ next \in Seq(LogRecord)
        /\ PendingIntents(next) = {i \in PendingIntents(wal) : wal[i].txnID # txn.id}
        /\ \A i \in PendingIntents(wal) : next[i] = wal[i]
    BY <1>3, <1>4, PendingAfterCommit
  <2> QED
    BY <1>1, <2>1, Zenon
<1>6. Todo' = Todo
  BY <1>1, <1>2 DEF Todo
<1>7. TypeOK'
  <2>1. wal' \o walTail' = wal'
    BY <1>1, <1>5
  <2> QED
    BY <1>1, <1>2, <1>5, <1>10, <2>1
       DEF TypeOK, ManifestType, CommitSteps, RecoveryInv, Recovering
<1>8. FilesInv'
  BY <1>1, <1>10, SameFiles
<1>9. ManifestInv' /\ TimestampInv'
  BY <1>1, <1>2, <1>6, <1>10 DEF ManifestInv, TimestampInv, Committing
<1>16. PartsInv'
  BY <1>1, <1>2 DEF PartsInv, Busy, Committing
\* A statement has one table, so its commit record is the last step but one.
<1>11. ProgressInv'
  <2>1. pc' = "intent" => txn.isTx
    BY <1>1, <1>3 DEF PartsInv, Busy, Committing
  <2> QED
    BY <1>1, <1>2, <2>1 DEF ProgressInv, Committing
<1>12. StagedInv'
  <2>1. \A t \in Todo' : t \in Todo /\ t \in Tables
    BY <1>1, <1>2, <1>6 DEF Todo, TypeOK, TxnOf
  <2> HIDE DEF IInv
  <2> QED
    BY <1>1, <1>2, <1>10, <2>1, StagedFrame DEF IInv
<1>13. LogInv'
  <2> SUFFICES ASSUME NEW log \in walDisk \cup {wal'}, NEW i \in PendingIntents(log)
               PROVE  /\ PartOf(log[i].part, log[i].table)
                      /\ log[i].part.stamp < clock
                      /\ Resolvable(log[i])'
                      /\ \A j \in PendingIntents(log) :
                            log[j].txnID = log[i].txnID => j = i
    BY <1>1 DEF LogInv
  <2>1. /\ PartOf(log[i].part, log[i].table)
        /\ log[i].part.stamp < clock
        /\ Resolvable(log[i])
        /\ \A j \in PendingIntents(log) : log[j].txnID = log[i].txnID => j = i
    BY <1>4, <1>5 DEF LogInv
  <2>2. log[i].table \in Tables
    BY <1>5 DEF TypeOK, PendingIntents, LogRecord
  <2> QED
    BY <1>1, <1>10, <2>1, <2>2 DEF Resolvable
<1>14. PendingInv'
  <2>1. \A i \in PendingIntents(wal') : Earlier(wal'[i])
    BY <1>1, <1>5 DEF PendingInv, Earlier, Current
  <2>2. \A i \in PendingIntents(wal') : wal'[i].txnID \in Nat
    BY <1>5 DEF PendingIntents, LogRecord
  <2>3. txn.id = nextTxnID
    BY <1>1 DEF TimestampInv, Committing
  <2> QED
    <3>1. pc' = "truncate" \/ pc' = "intent"
      BY <1>1
    <3>2. \A i \in PendingIntents(wal') : wal'[i].txnID <= nextTxnID'
      <4>1. nextTxnID' = txn.id
        BY <1>1, <2>3
      <4> QED
        BY <1>3, <2>1, <2>2, <4>1 DEF Earlier
    <3> QED
      BY <1>1, <1>2, <2>1, <3>1, <3>2 DEF PendingInv, Earlier
<1>15. RecoveryInv'
  BY <1>1 DEF RecoveryInv, Recovering
<1> QED
  BY <1>7, <1>8, <1>9, <1>11, <1>12, <1>13, <1>14, <1>15, <1>16

LEMMA AcknowledgeInv ==
    ASSUME IInv, Acknowledge
    PROVE  IInv'
<1> USE DEF IInv
<1>1. /\ pc = "truncate" /\ pc' = "idle" /\ txn' = NoTxn
      /\ wal' = <<>> /\ walTail' = <<>> /\ walDisk' = walDisk \cup {<<>>}
      /\ UNCHANGED <<segFiles, dvFiles, softDVs, tornDVs, nextTxnID, nextCommitTs,
                     segCount, pending, group, clock, crashes, faults, begun>>
  BY DEF Acknowledge, TruncateToHeader, fileVars, memVars, recVars
<1>10. /\ \A u \in Tables : Views(u)' = Views(u) /\ Live(u)' = Live(u)
       /\ ManifestType' /\ failed' = failed /\ manifestTs' = manifestTs
  BY ViewsFrame, ManifestTypeFrame DEF Acknowledge, manifestVars
<1>2. NoTxn \in TxnOf(NoTxn.parts) /\ NoTxn.parts = <<>>
  BY DEF NoTxn, TxnOf
<1>3. pending = {} /\ group = {}
  BY <1>1 DEF RecoveryInv, Recovering
<1>4. TypeOK'
  <2>1. <<>> \in Seq(LogRecord) /\ <<>> \o <<>> = <<>>
    OBVIOUS
  <2> QED
    <3>1. {wal', wal' \o walTail'} \subseteq walDisk' /\ walDisk' \subseteq Seq(LogRecord)
      BY <1>1, <2>1 DEF TypeOK
    <3>2. pending' \subseteq DOMAIN wal' /\ group' \subseteq DOMAIN wal'
      BY <1>1, <1>3
    <3>3. /\ txn' \in TxnOf(txn'.parts) /\ DOMAIN txn'.parts \subseteq Tables
          /\ \A t \in DOMAIN txn'.parts : txn'.parts[t] \in Part
      BY <1>1, <1>2
    <3> QED
      BY <1>1, <1>10, <3>1, <3>2, <3>3 DEF TypeOK, ManifestType
<1>5. FilesInv'
  BY <1>1, <1>10, SameFiles
<1>6. ManifestInv' /\ TimestampInv'
  BY <1>1, <1>10 DEF ManifestInv, TimestampInv, Committing
<1>7. PartsInv' /\ ProgressInv' /\ StagedInv'
  BY <1>1 DEF PartsInv, ProgressInv, StagedInv, Todo, Busy, Committing
<1>8. LogInv'
  <2> SUFFICES ASSUME NEW log \in walDisk, NEW i \in PendingIntents(log)
               PROVE  Resolvable(log[i])'
    BY <1>1, PendingEmpty DEF LogInv
  <2> QED
    <3>1. log[i].table \in Tables /\ Resolvable(log[i])
      BY DEF LogInv, TypeOK, PendingIntents, LogRecord
    <3> QED
      BY <1>10, <3>1 DEF Resolvable
<1>9. PendingInv' /\ RecoveryInv'
  BY <1>1, <1>3, PendingEmpty DEF PendingInv, RecoveryInv, Recovering
<1> QED
  BY <1>4, <1>5, <1>6, <1>7, <1>8, <1>9

\* What the caller of a failed commit removes is in no manifest, and the end of
\* the transaction leaves nothing to ask of it.
LEMMA AbandonInv ==
    ASSUME IInv, pc \in {"intent", "manifest"}, Abandon, wal' = wal,
           {wal, wal \o walTail'} \subseteq walDisk', walDisk' \subseteq Seq(LogRecord),
           ManifestType', manifestTs' = manifestTs, faults' \in 0 .. MaxFaults,
           UNCHANGED recVars
    PROVE  /\ FilesStay /\ pc' = "idle"
           /\ UNCHANGED <<nextTxnID, nextCommitTs, segCount, clock>>
           /\ TypeOK' /\ TimestampInv' /\ PartsInv' /\ ProgressInv' /\ StagedInv'
           /\ PendingInv' /\ RecoveryInv'
<1> USE DEF IInv
<1>1. /\ pc' = "idle" /\ txn' = NoTxn
      /\ segFiles' = [p \in DOMAIN segFiles \ CleanupAdds |-> segFiles[p]]
      /\ dvFiles' = dvFiles \ CleanupMarks /\ softDVs' = softDVs \ CleanupMarks
      /\ UNCHANGED <<tornDVs, nextTxnID, nextCommitTs, segCount, pending, group, clock,
                     crashes, begun>>
  BY DEF Abandon, memVars, recVars
<1>2. NoTxn \in TxnOf(NoTxn.parts) /\ NoTxn.parts = <<>>
  BY DEF NoTxn, TxnOf
<1>3. FilesStay
  <2>1. ~txn.isTx => DOMAIN txn.parts \subseteq Todo
    BY DEF ProgressInv, Todo
  <2>2. /\ \A s \in CleanupAdds : \A t \in Tables : s \notin Live(t)
        /\ \A d \in CleanupMarks : ~Referenced(d)
    <3>1. CASE txn.isTx
      BY <3>1 DEF CleanupAdds, CleanupMarks
    <3>2. CASE ~txn.isTx
      <4> DEFINE adds == UNION {txn.parts[t].adds : t \in DOMAIN txn.parts}
                 marks == UNION {NewDVs(txn.parts[t]) : t \in DOMAIN txn.parts}
      <4>1. /\ \A s \in adds : \A t \in Tables : s \notin Live(t)
            /\ \A d \in marks : ~Referenced(d)
        BY <2>1, <3>2, StagedIsFree DEF Busy, Committing
      <4>2. CleanupAdds = adds /\ CleanupMarks \subseteq marks
        BY <3>2 DEF CleanupAdds, CleanupMarks
      <4> HIDE DEF adds, marks
      <4> QED
        BY <4>1, <4>2
    <3> QED
      BY <3>1, <3>2
  <2> HIDE DEF IInv
  <2> QED
    BY <1>1, <2>2, RemovalStays DEF IInv
<1>4. TypeOK'
  BY <1>1, <1>2 DEF TypeOK, ManifestType
<1>5. TimestampInv' /\ PartsInv' /\ ProgressInv' /\ StagedInv'
  BY <1>1 DEF TimestampInv, PartsInv, ProgressInv, StagedInv, Todo, Busy, Committing
<1>6. PendingInv' /\ RecoveryInv'
  <2>1. \A i \in PendingIntents(wal) : wal[i].txnID \in Nat
    BY DEF TypeOK, PendingIntents, LogRecord
  <2>2. txn.id = nextTxnID /\ nextTxnID \in Nat
    BY DEF TimestampInv, Committing, TypeOK
  <2> QED
    BY <1>1, <2>1, <2>2 DEF PendingInv, Earlier, Current, RecoveryInv, Recovering
<1> HIDE DEF IInv
<1> QED
  BY <1>1, <1>3, <1>4, <1>5, <1>6

LEMMA FaultFacts ==
    ASSUME Workload, TypeOK, Fault
    PROVE  pc \in {"intent", "manifest"} /\ faults' \in 0 .. MaxFaults
<1>1. faults \in Nat /\ faults < MaxFaults /\ faults' = faults + 1
  BY DEF Fault, TypeOK
<1>2. faults' \in 0 .. MaxFaults
  BY <1>1, BoundsAssumption
<1> QED
  BY <1>2 DEF Fault, Workload

\* The record of a failed append may be found after a restart: it is as sound as
\* one that was acknowledged.
LEMMA FailLogInv ==
    ASSUME Workload, IInv, FailLog
    PROVE  IInv'
<1>1. /\ pc = "intent" /\ faults' \in 0 .. MaxFaults /\ wal' = wal
      /\ walDisk' = walDisk \cup {wal \o walTail'}
      /\ Abandon /\ UNCHANGED manifestVars
  BY FaultFacts DEF FailLog, IInv
<1>2. UNCHANGED recVars
  BY <1>1 DEF Abandon
<1>3. /\ \A u \in Tables : Views(u)' = Views(u) /\ Live(u)' = Live(u)
      /\ ManifestType' /\ failed' = failed /\ manifestTs' = manifestTs
  BY <1>1, ViewsFrame, ManifestTypeFrame DEF manifestVars, IInv
<1>4. wal \in Seq(LogRecord) /\ wal \in walDisk /\ walDisk \subseteq Seq(LogRecord)
  BY DEF IInv, TypeOK
<1>5. CASE walTail' \in {<<>>, walTail}
  <2>1. wal \o walTail' \in walDisk /\ walDisk' = walDisk
    <3>1. wal \o <<>> = wal /\ wal \o walTail \in walDisk
      BY <1>4 DEF IInv, TypeOK
    <3>2. wal \o walTail' \in walDisk
      BY <1>4, <1>5, <3>1, Zenon
    <3> QED
      BY <1>1, <3>2
  <2>5. {wal, wal \o walTail'} \subseteq walDisk' /\ walDisk' \subseteq Seq(LogRecord)
    BY <1>4, <2>1
  <2>2. /\ FilesStay /\ pc' = "idle" /\ UNCHANGED <<segCount, clock>>
        /\ TypeOK' /\ TimestampInv' /\ PartsInv' /\ ProgressInv' /\ StagedInv'
        /\ PendingInv' /\ RecoveryInv'
    BY <1>1, <1>2, <1>3, <2>5, AbandonInv
  <2>3. FilesInv' /\ ManifestInv'
    BY <1>1, <1>3, <2>2, FilesFrame DEF IInv, ManifestInv
  <2>4. LogInv'
    BY <1>3, <2>1, <2>2, LogFrame, BoundsAssumption DEF IInv, TypeOK
  <2> QED
    BY <2>2, <2>3, <2>4 DEF IInv
<1>6. ASSUME NEW t \in txn.left, walTail' = <<Intent(txn.id, txn.ts, t, txn.parts[t])>>
      PROVE  IInv'
  <2> SUFFICES ASSUME NEW r, r = Intent(txn.id, txn.ts, t, txn.parts[t]),
                      NEW log, log = wal \o <<r>>
               PROVE  IInv'
    OBVIOUS
  <2>0. pc = "intent"
    BY <1>1
  <2>1. walDisk' = walDisk \cup {log} /\ wal \o walTail' = log
    BY <1>1, <1>6
  <2>7. LoggedFacts(t, r, log)
    BY <2>0, IntentLogged
  <2>2. log \in Seq(LogRecord)
    BY <2>7 DEF LoggedFacts
  <2>3. \A i \in PendingIntents(log) :
           /\ PartOf(log[i].part, log[i].table)
           /\ log[i].part.stamp < clock
           /\ log[i].table \in Tables /\ Resolvable(log[i])
           /\ \A j \in PendingIntents(log) : log[j].txnID = log[i].txnID => j = i
    BY <2>7 DEF LoggedFacts
  <2>8. {wal, wal \o walTail'} \subseteq walDisk' /\ walDisk' \subseteq Seq(LogRecord)
    BY <1>4, <2>1, <2>2
  <2>4. /\ FilesStay /\ pc' = "idle" /\ UNCHANGED <<segCount, clock>>
        /\ TypeOK' /\ TimestampInv' /\ PartsInv' /\ ProgressInv' /\ StagedInv'
        /\ PendingInv' /\ RecoveryInv'
    BY <1>1, <1>2, <1>3, <2>8, AbandonInv
  <2>5. FilesInv' /\ ManifestInv'
    BY <1>1, <1>3, <2>4, FilesFrame DEF IInv, ManifestInv
  <2>6. LogInv'
    <3> SUFFICES ASSUME NEW l \in walDisk \cup {log}, NEW i \in PendingIntents(l)
                 PROVE  /\ PartOf(l[i].part, l[i].table)
                        /\ l[i].part.stamp < clock
                        /\ Resolvable(l[i])'
                        /\ \A j \in PendingIntents(l) : l[j].txnID = l[i].txnID => j = i
      BY <2>1, <2>4 DEF LogInv
    <3>1. /\ PartOf(l[i].part, l[i].table)
          /\ l[i].part.stamp < clock
          /\ l[i].table \in Tables /\ Resolvable(l[i])
          /\ \A j \in PendingIntents(l) : l[j].txnID = l[i].txnID => j = i
      <4>1. CASE l \in walDisk
        <5>1. l[i].table \in Tables
          BY <1>4, <4>1 DEF PendingIntents, LogRecord
        <5> QED
          BY <4>1, <5>1 DEF IInv, LogInv
      <4>2. CASE l = log
        BY <2>3, <4>2
      <4> QED
        BY <4>1, <4>2
    <3> QED
      BY <1>3, <3>1 DEF Resolvable
  <2> QED
    BY <2>4, <2>5, <2>6 DEF IInv
<1> QED
  BY <1>1, <1>5, <1>6 DEF FailLog, NextRecords

\* A closed manifest turns the transaction away, and nothing is written.
LEMMA ManifestClosedInv ==
    ASSUME IInv, ManifestClosed
    PROVE  IInv'
<1>1. /\ pc = "manifest" /\ faults' = faults /\ UNCHANGED <<wal, walTail, walDisk>>
      /\ Abandon /\ UNCHANGED manifestVars
  BY DEF ManifestClosed, walVars
<1>2. UNCHANGED recVars
  BY <1>1 DEF Abandon
<1>3. /\ \A u \in Tables : Views(u)' = Views(u) /\ Live(u)' = Live(u)
      /\ ManifestType' /\ failed' = failed /\ manifestTs' = manifestTs
  BY <1>1, ViewsFrame, ManifestTypeFrame DEF manifestVars, IInv
<1>4. /\ {wal, wal \o walTail} \subseteq walDisk /\ walDisk \subseteq Seq(LogRecord)
      /\ faults \in 0 .. MaxFaults
  BY DEF IInv, TypeOK
<1>5. /\ FilesStay /\ pc' = "idle" /\ UNCHANGED <<segCount, clock>>
      /\ TypeOK' /\ TimestampInv' /\ PartsInv' /\ ProgressInv' /\ StagedInv'
      /\ PendingInv' /\ RecoveryInv'
  BY <1>1, <1>2, <1>3, <1>4, AbandonInv
<1>6. FilesInv' /\ ManifestInv'
  BY <1>1, <1>3, <1>5, FilesFrame DEF IInv, ManifestInv
<1>7. LogInv'
  BY <1>1, <1>3, <1>5, LogFrame, BoundsAssumption DEF IInv, TypeOK
<1> QED
  BY <1>5, <1>6, <1>7 DEF IInv

\* A manifest append that fails leaves one view more that a restart may find.
\* All it has of its own is not promised to anyone.
LEMMA FailManifestInv ==
    ASSUME Workload, IInv, FailManifest
    PROVE  IInv'
<1> SUFFICES ASSUME NEW t, t = txn.cur, NEW part, part = txn.parts[t],
                    NEW new, new = Publish(manifest[t], part)
             PROVE  IInv'
  OBVIOUS
<1>1. /\ pc = "manifest" /\ faults' \in 0 .. MaxFaults
      /\ UNCHANGED <<wal, walTail, walDisk, manifest, manifestTs>>
      /\ Abandon
  BY FaultFacts DEF FailManifest, IInv, walVars
<1>0. pc = "manifest"
  BY <1>1
<1>2. UNCHANGED recVars
  BY <1>1 DEF Abandon
<1>14. ViewFacts(t, part, new)
  BY <1>0, NextView
<1>3. /\ t \in Tables /\ PartOf(part, t) /\ part.stamp \in Nat
      /\ DOMAIN new = Live(t) \cup part.adds /\ HasTop(new)
  BY <1>14 DEF ViewFacts
<1>4. /\ \A s \in part.adds : new[s].row = part.stamp
      /\ \A s \in Live(t) : new[s].row = manifest[t][s].row
  BY <1>14 DEF ViewFacts
<1>5. \A s \in DOMAIN new : /\ s \in SegPath /\ s[1] = t /\ new[s] \in Entry
                            /\ s[2] < segCount[t]
                            /\ \/ new[s].dv \in NewDVs(part) /\ s \in part.marks
                               \/ new[s].dv = NoDV
                               \/ s \in Live(t) /\ new[s].dv = manifest[t][s].dv
                            /\ new[s].dv # NoDV =>
                                  new[s].dv[1] = s /\ new[s].dv[2] < clock
  <2> HIDE DEF IInv
  <2> QED
    BY <1>14, Zenon DEF ViewFacts
<1>6. /\ poisoned' \subseteq Tables
      /\ failed' = failed \cup {<<t, part.stamp>>}
      /\ DOMAIN manifestFile' = Tables
      /\ manifestFile'[t] \in {manifestFile[t], Recorded(new, txn.ts)}
      /\ DOMAIN manifestDisk' = Tables
      /\ manifestDisk'[t] = manifestDisk[t] \cup {Recorded(new, txn.ts)}
      /\ \A u \in Tables \ {t} : /\ manifestFile'[u] = manifestFile[u]
                                 /\ manifestDisk'[u] = manifestDisk[u]
  <2>1. Extended(t, part, txn.ts) = Recorded(new, txn.ts)
    BY DEF Extended
  <2>2. /\ DOMAIN manifestFile = Tables /\ DOMAIN manifestDisk = Tables
        /\ poisoned \subseteq Tables
    BY DEF IInv, TypeOK
  <2> QED
    BY <1>3, <2>1, <2>2 DEF FailManifest
<1>7. /\ Views(t)' = Views(t) \cup {new}
      /\ \A u \in Tables \ {t} : Views(u)' = Views(u)
      /\ \A u \in Tables : Live(u)' = Live(u)
  <2>1. Recorded(new, txn.ts).view = new
    BY DEF Recorded
  <2>2. Views(t)' = Views(t) \cup {new}
    BY <1>1, <1>6, <2>1 DEF Views
  <2> QED
    BY <1>1, <1>6, <2>2 DEF Views, Live
<1>8. ManifestType'
  <2>1. Recorded(new, txn.ts).ts \in Nat
    BY DEF Recorded, IInv, TypeOK, TxnOf
  <2>2. ASSUME NEW u \in Tables
        PROVE  /\ manifestFile'[u] \in manifestDisk'[u]
               /\ \A c \in manifestDisk'[u] : c.ts \in Nat
               /\ \A view \in Views(u)' : \A s \in DOMAIN view :
                     s \in SegPath /\ s[1] = u /\ view[s] \in Entry
    <3>1. /\ manifestFile[u] \in manifestDisk[u]
          /\ \A c \in manifestDisk[u] : c.ts \in Nat
          /\ \A view \in Views(u) : \A s \in DOMAIN view :
                s \in SegPath /\ s[1] = u /\ view[s] \in Entry
      BY DEF IInv, TypeOK
    <3>2. CASE u = t
      BY <1>5, <1>6, <1>7, <2>1, <3>1, <3>2
    <3>3. CASE u # t
      BY <1>6, <1>7, <3>1, <3>3
    <3> QED
      BY <3>2, <3>3
  <2>3. failed' \subseteq Tables \X Nat /\ manifestTs \in [Tables -> Nat] /\ DOMAIN manifest = Tables
    BY <1>3, <1>6 DEF IInv, TypeOK
  <2> QED
    BY <1>1, <1>6, <2>2, <2>3 DEF ManifestType
<1>9. /\ FilesStay /\ pc' = "idle" /\ UNCHANGED <<segCount, clock>>
      /\ TypeOK' /\ TimestampInv' /\ PartsInv' /\ ProgressInv' /\ StagedInv'
      /\ PendingInv' /\ RecoveryInv'
  <2>1. {wal, wal \o walTail} \subseteq walDisk /\ walDisk \subseteq Seq(LogRecord)
    BY DEF IInv, TypeOK
  <2> QED
    BY <1>1, <1>2, <1>8, <2>1, AbandonInv
<1>10. FilesInv'
  <2>1. /\ \A u \in Tables : \A n : Promised(u, n)' => Promised(u, n)
        /\ ~Promised(t, part.stamp)'
    BY <1>6 DEF Promised
  <2>2. ASSUME NEW u \in Tables, NEW view \in Views(u)
        PROVE  HasFiles(u, view)'
    <3>1. HasFiles(u, view)
      BY DEF IInv, FilesInv
    <3> QED
      BY <1>9, <2>1, <3>1 DEF HasFiles, FilesStay
  <2>3. HasFiles(t, new)'
    <3>1. HasFiles(t, manifest[t])' 
      <4>1. manifest[t] \in Views(t)
        BY DEF Views
      <4> QED
        BY <1>1, <1>3, <2>2, <4>1
    <3>2. ASSUME NEW s \in DOMAIN new, Promised(t, new[s].row)'
          PROVE  s \in DOMAIN segFiles' /\ segFiles'[s] = new[s].row
      <4>1. s \in Live(t) /\ new[s].row = manifest[t][s].row
        BY <1>3, <1>4, <2>1, <3>2
      <4> QED
        BY <1>1, <3>1, <3>2, <4>1 DEF HasFiles, Live
    <3>3. ASSUME NEW s \in DOMAIN new, new[s].dv # NoDV, Promised(t, new[s].dv[2])'
          PROVE  new[s].dv \in dvFiles'
      <4>1. new[s].dv \notin NewDVs(part)
        BY <2>1, <3>3 DEF NewDVs
      <4>2. s \in Live(t) /\ new[s].dv = manifest[t][s].dv
        BY <1>5, <3>3, <4>1
      <4> QED
        BY <1>1, <3>1, <3>3, <4>2 DEF HasFiles, Live
    <3> QED
      BY <3>2, <3>3 DEF HasFiles
  <2>4. Settled(t)'
    <3> SUFFICES ASSUME NEW v \in Views(t) \cup {new}, NEW w \in Views(t) \cup {new},
                        NEW s \in DOMAIN v, Promised(t, v[s].row)'
                 PROVE  s \in DOMAIN w
      BY <1>7 DEF Settled
    <3>1. Promised(t, v[s].row) /\ manifest[t] \in Views(t) /\ Settled(t)
      BY <1>3, <2>1 DEF Views, IInv, FilesInv
    <3>2. s \in Live(t)
      <4>1. CASE v = new
        BY <1>3, <1>4, <2>1, <4>1
      <4>2. CASE v \in Views(t)
        BY <3>1, <4>2 DEF Settled, Live
      <4> QED
        BY <4>1, <4>2
    <3>3. CASE w = new
      BY <1>3, <3>2, <3>3
    <3>4. CASE w \in Views(t)
      <4>1. CASE v = new
        <5>1. v[s].row = manifest[t][s].row
          BY <1>4, <3>2, <4>1
        <5> QED
          BY <3>1, <3>2, <3>4, <5>1 DEF Settled, Live
      <4>2. CASE v \in Views(t)
        BY <3>1, <3>4, <4>2 DEF Settled
      <4> QED
        BY <4>1, <4>2
    <3> QED
      BY <3>3, <3>4
  <2>5. ASSUME NEW u \in Tables \ {t}
        PROVE  Settled(u)'
    <3>1. Settled(u)
      BY DEF IInv, FilesInv
    <3> QED
      BY <1>7, <2>1, <3>1 DEF Settled
  <2>6. ASSUME NEW u \in Tables, NEW view \in Views(u)'
        PROVE  HasFiles(u, view)'
    <3>1. view \in Views(u) \/ (u = t /\ view = new)
      BY <1>7
    <3> QED
      BY <2>2, <2>3, <3>1
  <2> QED
    BY <2>4, <2>5, <2>6 DEF FilesInv
<1>11. ManifestInv'
  <2> SUFFICES ASSUME NEW u \in Tables
               PROVE  /\ \A view \in Views(u)' :
                            /\ HasTop(view)
                            /\ \A s \in DOMAIN view :
                                  view[s].dv # NoDV => view[s].dv[1] = s /\ view[s].dv[2] < clock
                      /\ \A s \in Live(u) : s[2] < segCount[u]
    BY <1>7, <1>9 DEF ManifestInv
  <2>1. /\ \A view \in Views(u) :
              /\ HasTop(view)
              /\ \A s \in DOMAIN view :
                    view[s].dv # NoDV => view[s].dv[1] = s /\ view[s].dv[2] < clock
        /\ \A s \in Live(u) : s[2] < segCount[u]
    BY <1>1 DEF IInv, ManifestInv
  <2>2. \A view \in Views(u)' : view \in Views(u) \/ view = new
    BY <1>7
  <2>3. /\ HasTop(new)
        /\ \A s \in DOMAIN new :
              new[s].dv # NoDV => new[s].dv[1] = s /\ new[s].dv[2] < clock
    BY <1>3, <1>5
  <2> QED
    BY <2>1, <2>2, <2>3
<1>12. LogInv'
  <2> SUFFICES ASSUME NEW i \in PendingIntents(wal)
               PROVE  Resolvable(wal[i])'
    BY <1>1, <1>9 DEF IInv, LogInv, PendingInv
  <2>1. Resolvable(wal[i]) /\ wal[i].table \in Tables
    BY DEF IInv, LogInv, TypeOK, PendingIntents, LogRecord
  <2> SUFFICES ASSUME NEW u, u = wal[i].table, NEW view \in Views(u)', NEW x \in DOMAIN view,
                      view[x].dv \in NewDVs(wal[i].part)
               PROVE  \E s \in wal[i].part.adds \cap DOMAIN view :
                         view[s].row = wal[i].part.stamp
    BY <1>1 DEF Resolvable
  <2>2. CASE u = t /\ view = new
    <3>1. wal[i].table = t /\ x \in DOMAIN new /\ new[x].dv \in NewDVs(wal[i].part)
      BY <2>2
    <3>2. \E s \in wal[i].part.adds \cap DOMAIN new : new[s].row = wal[i].part.stamp
      BY <1>0, <3>1, NextViewResolvable
    <3> QED
      BY <2>2, <3>2
  <2>3. CASE view \in Views(u)
    BY <2>1, <2>3 DEF Resolvable
  <2>4. view \in Views(u) \/ (u = t /\ view = new)
    BY <1>7, <2>1
  <2> QED
    BY <2>2, <2>3, <2>4
<1> QED
  BY <1>9, <1>10, <1>11, <1>12 DEF IInv

-----------------------------------------------------------------------------
(* Crashes and recovery *)

\* A crash makes the log and the manifests one of the contents they may have.
LEMMA CrashInv ==
    ASSUME IInv, LoseMemory,
           wal' \in walDisk', walDisk' \subseteq walDisk,
           DOMAIN manifestFile' = Tables, DOMAIN manifestDisk' = Tables,
           \A t \in Tables : /\ manifestFile'[t] \in manifestDisk'[t]
                             /\ manifestDisk'[t] \subseteq manifestDisk[t],
           dvFiles' = dvFiles, softDVs' \subseteq softDVs,
           tornDVs' \subseteq tornDVs \cup softDVs
    PROVE  IInv'
<1>1. /\ pc' = "down" /\ txn' = NoTxn /\ pending' = {} /\ group' = {}
      /\ nextTxnID' = 0 /\ nextCommitTs' = 0 /\ segCount' = [t \in Tables |-> 0]
      /\ walTail' = <<>> /\ poisoned' = {}
      /\ crashes' \in 0 .. MaxCrashes
      /\ UNCHANGED <<manifest, manifestTs, failed, segFiles, clock, faults, begun>>
  BY BoundsAssumption DEF LoseMemory, IInv, TypeOK
<1>2. NoTxn \in TxnOf(NoTxn.parts) /\ NoTxn.parts = <<>>
  BY DEF NoTxn, TxnOf
<1>3. \A t \in Tables : Views(t)' \subseteq Views(t) /\ Live(t)' = Live(t)
  BY <1>1 DEF Views, Live
<1>4. ManifestType'
  BY <1>1, <1>3 DEF ManifestType, IInv, TypeOK
<1>5. TypeOK'
  <2>1. wal' \in Seq(LogRecord) /\ wal' \o walTail' = wal'
    BY <1>1 DEF IInv, TypeOK
  <2>2. walDisk' \subseteq Seq(LogRecord)
    BY DEF IInv, TypeOK
  <2>3. /\ softDVs' \subseteq DVPath /\ dvFiles' \subseteq DVPath /\ tornDVs' \subseteq DVPath
        /\ DOMAIN segFiles' \subseteq SegPath /\ \A s \in DOMAIN segFiles' : segFiles'[s] \in Nat
        /\ clock' \in 0 .. MaxClock /\ faults' \in 0 .. MaxFaults
    BY <1>1 DEF IInv, TypeOK
  <2> QED
    BY <1>1, <1>2, <1>4, <2>1, <2>2, <2>3 DEF TypeOK, ManifestType
<1>6. FilesInv'
  BY <1>1, <1>3, SameFiles DEF IInv
<1>7. ManifestInv' /\ TimestampInv'
  BY <1>1, <1>3 DEF IInv, ManifestInv, TimestampInv, Committing
<1>8. PartsInv' /\ ProgressInv' /\ StagedInv'
  BY <1>1 DEF PartsInv, ProgressInv, StagedInv, Todo, Busy, Committing
<1>9. LogInv'
  BY <1>1, <1>3, LogFrame, BoundsAssumption DEF IInv, TypeOK
<1>10. PendingInv' /\ RecoveryInv'
  BY <1>1 DEF PendingInv, RecoveryInv, Recovering
<1> QED
  BY <1>5, <1>6, <1>7, <1>8, <1>9, <1>10 DEF IInv

LEMMA ProcessCrashInv ==
    ASSUME IInv, ProcessCrash
    PROVE  IInv'
<1>1. /\ LoseMemory /\ wal' = wal \o walTail
      /\ UNCHANGED <<walDisk, manifestFile, manifestDisk, dvFiles, softDVs, tornDVs>>
  BY DEF ProcessCrash
<1>2. /\ wal \o walTail \in walDisk
      /\ DOMAIN manifestFile = Tables /\ DOMAIN manifestDisk = Tables
      /\ \A t \in Tables : manifestFile[t] \in manifestDisk[t]
  BY DEF IInv, TypeOK
<1> QED
  BY <1>1, <1>2, CrashInv

LEMMA PowerCrashInv ==
    ASSUME IInv, NEW log \in walDisk, NEW torn \in SUBSET softDVs,
           NEW files \in [Tables -> UNION {manifestDisk[t] : t \in Tables}],
           \A t \in Tables : files[t] \in manifestDisk[t],
           PowerCrash(log, files, torn)
    PROVE  IInv'
<1>1. /\ LoseMemory /\ wal' = log /\ walDisk' = {log} /\ manifestFile' = files
      /\ manifestDisk' = [t \in Tables |-> {files[t]}]
      /\ dvFiles' = dvFiles /\ softDVs' = {} /\ tornDVs' = tornDVs \cup torn
  BY DEF PowerCrash
<1> QED
  BY <1>1, CrashInv

\* The counters Open computes are beyond every id and timestamp in use.
LEMMA OpenInv ==
    ASSUME IInv, Open
    PROVE  IInv'
<1>1. /\ pc = "down" /\ pc' = "recover"
      /\ manifest' = [t \in Tables |-> manifestFile[t].view]
      /\ manifestTs' = [t \in Tables |-> manifestFile[t].ts]
      /\ nextTxnID' = 0 /\ nextCommitTs' = MaxManifestTs
      /\ segCount' = [t \in Tables |-> SegCountFrom(manifestFile[t].view)]
      /\ pending' = PendingIntents(wal)
      /\ UNCHANGED <<wal, walTail, walDisk, manifestFile, manifestDisk, poisoned, failed,
                     segFiles, dvFiles, softDVs, tornDVs, txn, group, clock, crashes,
                     faults, begun>>
  BY DEF Open, walVars, fileVars
<1>2. /\ \A t \in Tables : /\ manifestFile[t] \in manifestDisk[t]
                           /\ manifestFile[t].ts \in Nat
                           /\ manifestFile[t].view \in Views(t)
      /\ DOMAIN manifestFile = Tables /\ DOMAIN manifestDisk = Tables
      /\ poisoned \subseteq Tables /\ failed \subseteq Tables \X Nat
  BY DEF IInv, TypeOK, Views
<1>3. \A t \in Tables : Views(t)' \subseteq Views(t) /\ Live(t)' = DOMAIN manifestFile[t].view
  BY <1>1, <1>2 DEF Views, Live
<1>4. MaxManifestTs \in Nat /\ \A t \in Tables : manifestFile[t].ts <= MaxManifestTs
  <2> DEFINE f == [t \in Tables |-> manifestFile[t].ts]
             all == {manifestFile[t].ts : t \in Tables}
  <2>1. \A t \in Tables : f[t] \in Nat /\ f[t] = manifestFile[t].ts
    BY <1>2
  <2> HIDE DEF f
  <2>2. PICK u \in Tables : \A t \in Tables : f[t] <= f[u]
    BY <2>1, TablesAssumption, GreatestOf
  <2>3. manifestFile[u].ts \in all /\ \A t \in Tables : manifestFile[t].ts <= manifestFile[u].ts
    BY <2>1, <2>2
  <2>4. MaxManifestTs \in all /\ \A t \in Tables : manifestFile[t].ts <= MaxManifestTs
    BY <2>3 DEF MaxManifestTs
  <2> QED
    BY <1>2, <2>4
<1>5. ASSUME NEW t \in Tables, NEW view, view = manifestFile[t].view
      PROVE  /\ SegCountFrom(view) \in Nat
             /\ \A s \in DOMAIN view : s[2] < SegCountFrom(view)
  <2>1. \E n \in {0} \cup {s[2] + 1 : s \in DOMAIN view} :
            \A s \in DOMAIN view : s[2] < n
    BY <1>2, <1>5 DEF IInv, ManifestInv, HasTop
  <2>2. \A s \in DOMAIN view : s[2] + 1 \in Nat
    BY <1>2, <1>5 DEF IInv, TypeOK, SegPath
  <2>3. /\ SegCountFrom(view) \in {0} \cup {s[2] + 1 : s \in DOMAIN view}
        /\ \A s \in DOMAIN view : s[2] < SegCountFrom(view)
    BY <2>1 DEF SegCountFrom
  <2> QED
    BY <2>2, <2>3
<1>6. group = {}
  BY <1>1 DEF IInv, RecoveryInv, Recovering
<1>7. ManifestType'
  <2>1. \A t \in Tables : /\ manifestFile'[t] \in manifestDisk'[t]
                          /\ \A c \in manifestDisk'[t] : c.ts \in Nat
                          /\ \A view \in Views(t)' : \A s \in DOMAIN view :
                                s \in SegPath /\ s[1] = t /\ view[s] \in Entry
    BY <1>1, <1>3 DEF IInv, TypeOK
  <2>2. DOMAIN manifest' = Tables /\ manifestTs' \in [Tables -> Nat]
    BY <1>1, <1>2
  <2> QED
    BY <1>1, <1>2, <2>1, <2>2 DEF ManifestType
<1>8. TypeOK'
  <2>1. segCount' \in [Tables -> Nat] /\ pending' \subseteq DOMAIN wal' /\ group' \subseteq DOMAIN wal'
    BY <1>1, <1>5, <1>6 DEF PendingIntents
  <2> QED
    BY <1>1, <1>4, <1>7, <2>1 DEF IInv, TypeOK, ManifestType
<1>9. FilesInv'
  BY <1>1, <1>3, SameFiles DEF IInv
<1>10. ManifestInv'
  <2>1. \A t \in Tables : \A s \in Live(t)' : s[2] < segCount'[t]
    BY <1>1, <1>3, <1>5
  <2> QED
    BY <1>1, <1>3, <2>1 DEF IInv, ManifestInv
<1>11. TimestampInv'
  BY <1>1, <1>4 DEF TimestampInv, Committing
<1>12. PartsInv' /\ ProgressInv' /\ StagedInv'
  BY <1>1 DEF PartsInv, ProgressInv, StagedInv, Todo, Busy, Committing
<1>13. LogInv'
  BY <1>1, <1>3, LogFrame, BoundsAssumption DEF IInv, TypeOK
<1>14. PendingInv' /\ RecoveryInv'
  BY <1>1, <1>6 DEF PendingInv, RecoveryInv, Recovering
<1> QED
  BY <1>8, <1>9, <1>10, <1>11, <1>12, <1>13, <1>14 DEF IInv

\* The views, and all that is said of them alone, when the manifests stay.
LEMMA ManifestsStay ==
    ASSUME IInv, UNCHANGED manifestVars
    PROVE  /\ \A t \in Tables : Views(t)' = Views(t) /\ Live(t)' = Live(t)
           /\ \A d : Referenced(d)' <=> Referenced(d)
           /\ ManifestType' /\ failed' = failed /\ manifest' = manifest /\ manifestTs' = manifestTs
BY ViewsFrame, ManifestTypeFrame DEF manifestVars, IInv

\* No two pending intents share a TxnID, so a group is one intent.
LEMMA RecoverGroupInv ==
    ASSUME IInv, NEW i \in pending, RecoverGroup(i)
    PROVE  IInv'
<1> USE DEF IInv
<1> DEFINE same == {j \in pending : wal[j].txnID = wal[i].txnID}
<1>1. /\ pc = "recover" /\ group' = same /\ pending' = pending \ same
      /\ pc' = IF \E j \in same : IsCommitted(wal[j]) THEN "roll" ELSE "unwind"
      /\ UNCHANGED <<wal, walTail, walDisk, segFiles, dvFiles, softDVs, tornDVs, nextTxnID,
                     nextCommitTs, segCount, txn, clock, crashes, faults, begun>>
  BY DEF RecoverGroup, walVars, fileVars, memVars
<1>20. /\ \A t \in Tables : Views(t)' = Views(t) /\ Live(t)' = Live(t)
       /\ ManifestType' /\ failed' = failed /\ manifest' = manifest /\ manifestTs' = manifestTs
  BY ManifestsStay DEF RecoverGroup
<1>2. PendingIntents(wal) = pending /\ wal \in walDisk
  <2>1. group = {} /\ PendingIntents(wal) = pending \cup group
    BY <1>1 DEF RecoveryInv, Recovering
  <2>2. wal \in walDisk
    BY DEF TypeOK
  <2> QED
    BY <2>1, <2>2
<1>3. same = {i}
  BY <1>2 DEF LogInv
<1>4. TypeOK'
  BY <1>1, <1>20 DEF TypeOK, ManifestType
<1>5. FilesInv'
  BY <1>1, <1>20, SameFiles
<1>6. ManifestInv' /\ TimestampInv'
  BY <1>1, <1>20 DEF ManifestInv, TimestampInv, Committing
<1>7. PartsInv' /\ ProgressInv' /\ StagedInv'
  BY <1>1 DEF PartsInv, ProgressInv, StagedInv, Todo, Busy, Committing
<1>8. LogInv'
  BY <1>1, <1>20, LogFrame, BoundsAssumption DEF TypeOK
<1>10. PendingInv'
  BY <1>1 DEF PendingInv
<1>9. RecoveryInv'
  <2>1. \A j \in same : IsCommitted(wal[j])' <=> IsCommitted(wal[j])
    BY <1>1, <1>20 DEF IsCommitted, Live
  <2> QED
    BY <1>1, <1>2, <1>3, <2>1 DEF RecoveryInv, Recovering
<1> QED
  BY <1>4, <1>5, <1>6, <1>7, <1>8, <1>9, <1>10

\* A log that gains a commit record says no more than before.
LEMMA LogAfterCommit ==
    ASSUME LogInv, walDisk \subseteq Seq(LogRecord), clock' = clock,
           \A t \in Tables : Views(t)' = Views(t),
           wal \in walDisk, wal \in Seq(LogRecord), NEW id \in Nat,
           wal' = wal \o <<CommitRecord(id)>>, walDisk' = walDisk \cup {wal'}
    PROVE  /\ LogInv'
           /\ wal' \in Seq(LogRecord)
           /\ DOMAIN wal \subseteq DOMAIN wal'
           /\ PendingIntents(wal') = {i \in PendingIntents(wal) : wal[i].txnID # id}
           /\ \A i \in PendingIntents(wal) : wal'[i] = wal[i]
<1>1. /\ wal' \in Seq(LogRecord)
      /\ PendingIntents(wal') = {i \in PendingIntents(wal) : wal[i].txnID # id}
      /\ \A i \in PendingIntents(wal) : wal'[i] = wal[i]
  <2> DEFINE next == wal \o <<CommitRecord(id)>>
  <2>1. /\ next \in Seq(LogRecord)
        /\ PendingIntents(next) = {i \in PendingIntents(wal) : wal[i].txnID # id}
        /\ \A i \in PendingIntents(wal) : next[i] = wal[i]
    BY PendingAfterCommit
  <2> QED
    BY <2>1, Zenon
<1>2. DOMAIN wal \subseteq DOMAIN wal'
  OBVIOUS
<1>3. LogInv'
  <2> SUFFICES ASSUME NEW log \in walDisk \cup {wal'}, NEW i \in PendingIntents(log)
               PROVE  /\ PartOf(log[i].part, log[i].table)
                      /\ log[i].part.stamp < clock
                      /\ Resolvable(log[i])'
                      /\ \A j \in PendingIntents(log) :
                            log[j].txnID = log[i].txnID => j = i
    BY DEF LogInv
  <2>1. /\ PartOf(log[i].part, log[i].table)
        /\ log[i].part.stamp < clock
        /\ Resolvable(log[i])
        /\ \A j \in PendingIntents(log) : log[j].txnID = log[i].txnID => j = i
    <3>1. CASE log \in walDisk
      BY <3>1 DEF LogInv
    <3>2. CASE log = wal'
      <4>1. i \in PendingIntents(wal) /\ wal'[i] = wal[i]
        BY <1>1, <3>2
      <4>2. \A j \in PendingIntents(wal') : j \in PendingIntents(wal) /\ wal'[j] = wal[j]
        BY <1>1
      <4> QED
        BY <3>2, <4>1, <4>2 DEF LogInv
    <3> QED
      BY <3>1, <3>2
  <2>2. log[i].table \in Tables
    <3>1. log \in Seq(LogRecord)
      BY <1>1
    <3> QED
      BY <3>1 DEF PendingIntents, LogRecord
  <2> QED
    BY <2>1, <2>2 DEF Resolvable
<1> QED
  BY <1>1, <1>2, <1>3

\* Recovery drops the intent it worked on when its commit record is appended.
LEMMA ResolveInv ==
    ASSUME IInv, NEW i \in group, pc \in {"roll", "mark"},
           AppendNoSync(<<CommitRecord(wal[i].txnID)>>),
           group' = group \ {i}, pc' = "recover",
           UNCHANGED <<manifestVars, segFiles, dvFiles, softDVs, tornDVs, nextTxnID,
                       nextCommitTs, segCount, txn, pending, clock, crashes, faults, begun>>
    PROVE  IInv'
<1> USE DEF IInv
<1>1. /\ PendingIntents(wal) = pending \cup group /\ pending \cap group = {}
      /\ group = {i} /\ wal \in walDisk /\ wal \in Seq(LogRecord)
  BY DEF RecoveryInv, Recovering, TypeOK
<1>10. /\ wal' = wal \o <<CommitRecord(wal[i].txnID)>> /\ walTail' = <<>>
       /\ walDisk' = walDisk \cup {wal'} /\ walDisk \subseteq Seq(LogRecord)
  BY DEF AppendNoSync, TypeOK
<1>20. /\ \A t \in Tables : Views(t)' = Views(t) /\ Live(t)' = Live(t)
       /\ ManifestType' /\ failed' = failed /\ manifest' = manifest /\ manifestTs' = manifestTs
  BY ManifestsStay
<1>2. wal[i].txnID \in Nat
  BY <1>1 DEF PendingIntents, LogRecord
<1>3. /\ LogInv'
      /\ wal' \in Seq(LogRecord)
      /\ DOMAIN wal \subseteq DOMAIN wal'
      /\ PendingIntents(wal') =
            {j \in PendingIntents(wal) : wal[j].txnID # wal[i].txnID}
  <2> HIDE DEF IInv
  <2> QED
    BY <1>1, <1>2, <1>10, <1>20, LogAfterCommit DEF IInv
<1>4. PendingIntents(wal') = pending
  <2>1. \A j \in PendingIntents(wal) : wal[j].txnID = wal[i].txnID => j = i
    BY <1>1 DEF LogInv
  <2> QED
    BY <1>1, <1>3, <2>1
<1>5. TypeOK'
  <2>1. wal' \o walTail' = wal'
    BY <1>3, <1>10
  <2> QED
    BY <1>3, <1>10, <1>20, <2>1 DEF TypeOK, ManifestType
<1>6. FilesInv'
  BY <1>20, SameFiles
<1>7. ManifestInv' /\ TimestampInv'
  BY <1>20 DEF ManifestInv, TimestampInv, Committing
<1>8. PartsInv' /\ ProgressInv' /\ StagedInv' /\ PendingInv'
  BY DEF PartsInv, ProgressInv, StagedInv, PendingInv, Todo, Busy, Committing
<1>9. RecoveryInv'
  BY <1>1, <1>4 DEF RecoveryInv, Recovering
<1> QED
  BY <1>3, <1>5, <1>6, <1>7, <1>8, <1>9

LEMMA RollForwardInv ==
    ASSUME IInv, NEW i \in group, RollForward(i)
    PROVE  IInv'
<1>1. IsCommitted(wal[i]) /\ group = {i}
  BY DEF IInv, RollForward, RecoveryInv
<1> QED
  BY <1>1, ResolveInv DEF RollForward, fileVars, memVars

LEMMA MarkIntentResolvedInv ==
    ASSUME IInv, NEW i \in group, MarkIntentResolved(i)
    PROVE  IInv'
<1>1. group = {i}
  BY DEF IInv, MarkIntentResolved, RecoveryInv
<1> QED
  BY <1>1, ResolveInv DEF MarkIntentResolved, fileVars, memVars

\* The files of an intent that did not commit are in no manifest.
LEMMA RemoveOrphansInv ==
    ASSUME IInv, NEW i \in group, RemoveOrphans(i)
    PROVE  IInv'
<1> USE DEF IInv
<1> DEFINE part == wal[i].part
<1>1. /\ pc = "unwind" /\ pc' = "mark"
      /\ segFiles' = [p \in DOMAIN segFiles \ part.adds |-> segFiles[p]]
      /\ dvFiles' = dvFiles \ NewDVs(part) /\ softDVs' = softDVs \ NewDVs(part)
      /\ UNCHANGED <<wal, walTail, walDisk, tornDVs, nextTxnID, nextCommitTs, segCount, txn,
                     pending, group, clock, crashes, faults, begun>>
  BY DEF RemoveOrphans, walVars, memVars, recVars
<1>20. /\ \A t \in Tables : Views(t)' = Views(t) /\ Live(t)' = Live(t)
       /\ ManifestType' /\ failed' = failed /\ manifest' = manifest /\ manifestTs' = manifestTs
  BY ManifestsStay DEF RemoveOrphans
<1>2. /\ i \in PendingIntents(wal) /\ wal \in walDisk /\ ~IsCommitted(wal[i])
      /\ wal[i].table \in Tables
  BY <1>1 DEF RecoveryInv, Recovering, TypeOK, PendingIntents, LogRecord
<1>3. PartOf(part, wal[i].table) /\ Resolvable(wal[i])
  BY <1>2 DEF LogInv
<1>4. FilesStay
  <2>1. \A s \in part.adds : \A t \in Tables : s \notin Live(t)
    BY <1>2, <1>3, LivePaths DEF PartOf, IsCommitted
  <2> SUFFICES ASSUME NEW t \in Tables, NEW view \in Views(t), NEW s \in DOMAIN view
               PROVE  /\ Promised(t, view[s].row) => s \notin part.adds
                      /\ LET d == view[s].dv
                         IN  d # NoDV /\ Promised(t, d[2]) => d \notin NewDVs(part)
    BY <1>1 DEF FilesStay
  <2>2. Promised(t, view[s].row) => s \notin part.adds
    BY <2>1, NotPromised
  <2>3. ASSUME view[s].dv \in NewDVs(part), Promised(t, view[s].dv[2])
        PROVE  FALSE
    <3>1. PICK m \in part.marks : view[s].dv = <<m, part.stamp>>
      BY <2>3 DEF NewDVs
    <3>2. view[s].dv[1] = m /\ view[s].dv[2] = part.stamp /\ view[s].dv # NoDV
      BY <3>1, PathIsADV
    <3>3. s[1] = t /\ s = m /\ wal[i].table = t
      BY <1>3, <3>2 DEF ManifestInv, TypeOK, PartOf
    <3>4. PICK a \in part.adds \cap DOMAIN view : view[a].row = part.stamp
      BY <1>3, <2>3, <3>3 DEF Resolvable
    <3> QED
      BY <2>1, <2>3, <3>2, <3>4, NotPromised
  <2> QED
    BY <2>2, <2>3
<1> HIDE DEF part
<1>5. TypeOK'
  BY <1>1, <1>20 DEF TypeOK, ManifestType
<1>6. FilesInv'
  <2> HIDE DEF IInv
  <2> QED
    BY <1>4, <1>20, FilesFrame DEF IInv
<1>7. ManifestInv' /\ TimestampInv'
  BY <1>1, <1>20 DEF ManifestInv, TimestampInv, Committing
<1>8. PartsInv' /\ ProgressInv' /\ StagedInv' /\ PendingInv'
  BY <1>1 DEF PartsInv, ProgressInv, StagedInv, PendingInv, Todo, Busy, Committing
<1>9. LogInv'
  BY <1>1, <1>20, LogFrame, BoundsAssumption DEF TypeOK
<1>10. RecoveryInv'
  BY <1>1, <1>20 DEF RecoveryInv, Recovering, IsCommitted
<1> QED
  BY <1>5, <1>6, <1>7, <1>8, <1>9, <1>10

LEMMA FinishOpenInv ==
    ASSUME IInv, FinishOpen
    PROVE  IInv'
<1> USE DEF IInv
<1>1. /\ pc = "recover" /\ pending = {} /\ pc' = "idle"
      /\ UNCHANGED <<wal, walTail, walDisk, segFiles, dvFiles, softDVs, tornDVs, nextTxnID,
                     nextCommitTs, segCount, txn, pending, group, clock, crashes, faults,
                     begun>>
  BY DEF FinishOpen, walVars, fileVars, memVars, recVars
<1>20. /\ \A t \in Tables : Views(t)' = Views(t) /\ Live(t)' = Live(t)
       /\ ManifestType' /\ failed' = failed /\ manifest' = manifest /\ manifestTs' = manifestTs
  BY ManifestsStay DEF FinishOpen
<1>2. PendingIntents(wal) = {} /\ group = {}
  BY <1>1 DEF RecoveryInv, Recovering
<1>3. TypeOK' /\ FilesInv'
  <2>1. TypeOK'
    BY <1>1, <1>20 DEF TypeOK, ManifestType
  <2>2. FilesInv'
    BY <1>1, <1>20, SameFiles
  <2> QED
    BY <2>1, <2>2
<1>4. ManifestInv' /\ TimestampInv'
  BY <1>1, <1>20 DEF ManifestInv, TimestampInv, Committing
<1>5. PartsInv' /\ ProgressInv' /\ StagedInv'
  BY <1>1 DEF PartsInv, ProgressInv, StagedInv, Todo, Busy, Committing
<1>6. LogInv'
  BY <1>1, <1>20, LogFrame, BoundsAssumption DEF TypeOK
<1>7. PendingInv' /\ RecoveryInv'
  BY <1>1, <1>2 DEF PendingInv, RecoveryInv, Recovering
<1> QED
  BY <1>3, <1>4, <1>5, <1>6, <1>7

LEMMA StutterInv ==
    ASSUME IInv, UNCHANGED vars
    PROVE  IInv'
<1> USE DEF IInv
<1>1. /\ UNCHANGED <<wal, walTail, walDisk, segFiles, dvFiles, softDVs, tornDVs, pc, nextTxnID,
                     nextCommitTs, segCount, txn, pending, group, clock, crashes, faults>>
      /\ UNCHANGED manifestVars
  BY DEF vars, walVars, fileVars, memVars, recVars
<1>20. /\ \A t \in Tables : Views(t)' = Views(t) /\ Live(t)' = Live(t)
       /\ \A d : Referenced(d)' <=> Referenced(d)
       /\ ManifestType' /\ failed' = failed /\ manifest' = manifest /\ manifestTs' = manifestTs
  BY <1>1, ManifestsStay
<1>2. Todo' = Todo /\ Todo \subseteq Tables
  BY <1>1 DEF Todo, TypeOK, TxnOf
<1>3. TypeOK'
  BY <1>1, <1>20 DEF TypeOK, ManifestType
<1>4. FilesInv'
  BY <1>1, <1>20, SameFiles
<1>5. ManifestInv' /\ TimestampInv'
  BY <1>1, <1>2, <1>20 DEF ManifestInv, TimestampInv, Committing
<1>6. PartsInv' /\ ProgressInv'
  BY <1>1 DEF PartsInv, ProgressInv, Busy, Committing
<1>7. StagedInv'
  BY <1>1, <1>2, <1>20, StagedFrame
<1>8. LogInv'
  BY <1>1, <1>20, LogFrame, BoundsAssumption DEF TypeOK
<1>9. PendingInv' /\ RecoveryInv'
  BY <1>1, <1>20 DEF PendingInv, Earlier, Current, RecoveryInv, Recovering, IsCommitted, Live
<1> QED
  BY <1>3, <1>4, <1>5, <1>6, <1>7, <1>8, <1>9

-----------------------------------------------------------------------------
(* The theorems *)

LEMMA ClientInv ==
    ASSUME Workload, IInv, Client
    PROVE  IInv'
<1>1. ASSUME NEW t \in Tables, NEW kind \in Kinds, Statement(t, kind)
      PROVE  IInv'
  <2>1. PICK hit \in Hits(kind, t) :
            Execute(FALSE, [u \in {t} |-> kind], [u \in {t} |-> hit])
    BY <1>1 DEF Statement
  <2> DEFINE kinds == [u \in {t} |-> kind]
             hits == [u \in {t} |-> hit]
  <2>2. kinds \in [{t} -> Kinds] /\ \A u \in {t} : hits[u] \in Hits(kinds[u], u)
    OBVIOUS
  <2>3. {t} \in SUBSET Tables /\ FALSE \in BOOLEAN /\ \A u, v \in {t} : u = v
    OBVIOUS
  <2> HIDE DEF kinds, hits
  <2> QED
    BY <2>1, <2>2, <2>3, ExecuteInv DEF kinds, hits
<1>2. ASSUME NEW ts \in SUBSET Tables, Transaction(ts)
      PROVE  IInv'
  <2>1. PICK kinds \in [ts -> Kinds] :
           \E hits \in [ts -> SUBSET UNION {Live(t) : t \in ts}] :
              /\ \A t \in ts : hits[t] \in Hits(kinds[t], t)
              /\ Execute(TRUE, kinds, hits)
    BY <1>2 DEF Transaction
  <2>2. PICK hits \in [ts -> SUBSET UNION {Live(t) : t \in ts}] :
              /\ \A t \in ts : hits[t] \in Hits(kinds[t], t)
              /\ Execute(TRUE, kinds, hits)
    BY <2>1
  <2> QED
    BY <2>2, ExecuteInv
<1> QED
  BY <1>1, <1>2 DEF Client

LEMMA EnvironmentInv ==
    ASSUME Workload, IInv, Environment
    PROVE  IInv'
<1>1. CASE FailLog
  BY <1>1, FailLogInv
<1>2. CASE FailManifest
  BY <1>2, FailManifestInv
<1>3. CASE ProcessCrash
  BY <1>3, ProcessCrashInv
<1>4. ASSUME NEW log \in walDisk, NEW torn \in SUBSET softDVs,
             NEW files \in [Tables -> UNION {manifestDisk[t] : t \in Tables}],
             \A t \in Tables : files[t] \in manifestDisk[t],
             PowerCrash(log, files, torn)
      PROVE  IInv'
  BY <1>4, PowerCrashInv
<1> QED
  BY <1>1, <1>2, <1>3, <1>4 DEF Environment

LEMMA NextInv ==
    ASSUME Workload, IInv, [Next]_vars
    PROVE  IInv'
<1>1. CASE Client
  BY <1>1, ClientInv
<1>2. CASE Engine
  BY <1>2, WriteSegmentInv, WriteDVInv, BeginCommitInv, AppendIntentInv,
     CommitManifestInv, ManifestClosedInv, AppendCommitRecordInv, AcknowledgeInv DEF Engine
<1>3. CASE Rollback
  BY <1>3, RollbackInv
<1>4. CASE Recovery
  BY <1>4, OpenInv, RecoverGroupInv, RollForwardInv, RemoveOrphansInv,
     MarkIntentResolvedInv, FinishOpenInv DEF Recovery
<1>5. CASE Environment
  BY <1>5, EnvironmentInv
<1>6. CASE ClientsDone \/ UNCHANGED vars
  BY <1>6, StutterInv DEF ClientsDone
<1> QED
  BY <1>1, <1>2, <1>3, <1>4, <1>5, <1>6 DEF Next

\* The invariant is inductive.
THEOREM Invariance == Workload => (Spec => []IInv)
<1> SUFFICES ASSUME Workload PROVE Spec => []IInv
  OBVIOUS
<1>1. Init => IInv
  BY InitInv
<1>2. IInv /\ [Next]_vars => IInv'
  BY NextInv
<1> QED
  BY <1>1, <1>2, PTL DEF Spec

\* Whatever crashes, fails or loses power, every variable keeps its shape.
THEOREM TypeCorrect == Workload => (Spec => []TypeOK)
<1>1. IInv => TypeOK
  BY DEF IInv
<1> QED
  BY <1>1, Invariance, PTL

\* The files of what was committed are there, with what was written, after any
\* sequence of process crashes, power losses, restarts, failing intent and
\* manifest writes (rolled back, or found again by a restart), and Txs over any
\* number of tables: the one thing no file is promised for is what a failed
\* manifest append named.
THEOREM CommittedDataSurvives == Workload => (Spec => []SnapshotIntact)
<1>1. IInv => SnapshotIntact
  BY DEF IInv, FilesInv, HasFiles, Views, SnapshotIntact, SegmentsKept, DeletionsKept, Live
<1> QED
  BY <1>1, Invariance, PTL

\* The commit timestamp counter never goes behind a manifest, although a
\* restart knows nothing but the manifests.
THEOREM TimestampsAdvance == Workload => (Spec => []CommitTsFresh)
<1>1. IInv => CommitTsFresh
  BY DEF IInv, TimestampInv, Committing, Todo, CommitTsFresh
<1> QED
  BY <1>1, Invariance, PTL

\* A restart may give out a segment path again only when no manifest has it.
THEOREM PathsNotReused == Workload => (Spec => []StagedPathsFresh)
<1>1. IInv => StagedPathsFresh
  BY DEF IInv, StagedInv, Todo, Unpublished, StagedPathsFresh
<1> QED
  BY <1>1, Invariance, PTL

\* Recovery never has a group of several intents to roll forward: each intent
\* of a Tx is resolved by its commit record before the next one is logged.
THEOREM NoGroupToRoll == Workload => (Spec => []GroupsAreSingletons)
<1>1. IInv => GroupsAreSingletons
  <2> SUFFICES ASSUME IInv PROVE GroupsAreSingletons
    OBVIOUS
  <2>1. CASE group = {}
    <3>1. Cardinality(group) = 0
      BY <2>1, FS_EmptySet, Zenon
    <3> QED
      BY <3>1 DEF GroupsAreSingletons
  <2>2. ASSUME NEW i \in group PROVE GroupsAreSingletons
    <3>1. group = {i}
      BY DEF IInv, RecoveryInv
    <3>2. Cardinality(group) = 1
      BY <3>1, FS_Singleton, Zenon
    <3> QED
      BY <3>2 DEF GroupsAreSingletons
  <2> QED
    BY <2>1, <2>2
<1> QED
  BY <1>1, Invariance, PTL
-----------------------------------------------------------------------------
(***************************************************************************)
(* The commit path of transactions of one table implements the atomic      *)
(* store, through crashes, power losses, recoveries and failing writes.    *)
(***************************************************************************)

-----------------------------------------------------------------------------
(* Files and rows *)

\* A step writes or removes no other files than these.
OnlyFiles(adds, marks) ==
    /\ \A s : s \notin adds => /\ s \in DOMAIN segFiles' <=> s \in DOMAIN segFiles
                               /\ s \in DOMAIN segFiles => segFiles'[s] = segFiles[s]
    /\ \A d : d \notin marks => (d \in dvFiles' <=> d \in dvFiles)

\* The manifests in memory name none of them.
Unnamed(adds, marks) ==
    \A t \in Tables : \A s \in Live(t) : s \notin adds /\ manifest[t][s].dv \notin marks

\* Files that no manifest in memory names do not matter to what is read.
LEMMA ReadFrame ==
    ASSUME NEW adds, NEW marks, OnlyFiles(adds, marks), Unnamed(adds, marks),
           manifest' = manifest
    PROVE  /\ \A t \in Tables : /\ Live(t)' = Live(t) /\ VisibleSegs(t)' = VisibleSegs(t)
                                /\ \A S \in SUBSET Live(t) : RowsOf(S)' = RowsOf(S)
           /\ StoreContents' = StoreContents
<1>1. ASSUME NEW t \in Tables
      PROVE  Live(t)' = Live(t) /\ VisibleSegs(t)' = VisibleSegs(t)
  <2>1. Live(t)' = Live(t)
    BY DEF Live
  <2>2. ASSUME NEW s \in Live(t)
        PROVE  IsDead(manifest[t][s])' <=> IsDead(manifest[t][s])
    BY DEF IsDead, OnlyFiles, Unnamed
  <2> QED
    BY <2>1, <2>2 DEF VisibleSegs
<1>2. ASSUME NEW t \in Tables, NEW S \in SUBSET Live(t)
      PROVE  RowsOf(S)' = RowsOf(S)
  BY DEF RowsOf, OnlyFiles, Unnamed
<1>3. ASSUME NEW t \in Tables
      PROVE  RowsOf(VisibleSegs(t))' = RowsOf(VisibleSegs(t))
  <2>1. PICK S : S = VisibleSegs(t)
    OBVIOUS
  <2>2. S \in SUBSET Live(t)
    BY <2>1 DEF VisibleSegs
  <2> QED
    BY <1>1, <1>2, <2>1, <2>2 DEF RowsOf
<1> QED
  BY <1>1, <1>2, <1>3 DEF StoreContents

LEMMA ChangeFrame ==
    ASSUME txn'.parts = txn.parts, DOMAIN txn.parts \subseteq Tables,
           \A t \in Tables : \A S \in SUBSET Live(t) : RowsOf(S)' = RowsOf(S),
           \A t \in DOMAIN txn.parts : txn.parts[t].marks \subseteq Live(t)
    PROVE  StoreChange' = StoreChange
<1>1. ASSUME NEW t \in DOMAIN txn.parts
      PROVE  RowsOf(txn.parts[t].marks)' = RowsOf(txn.parts[t].marks)
  <2>1. PICK S : S = txn.parts[t].marks
    OBVIOUS
  <2>2. RowsOf(S)' = RowsOf(S)
    BY <2>1
  <2> QED
    BY <2>1, <2>2 DEF RowsOf
<1> QED
  BY <1>1 DEF StoreChange

LEMMA NoChange == ASSUME DOMAIN txn.parts = {} PROVE StoreChange = Store!Nothing
BY DEF StoreChange, Store!Nothing

LEMMA NextNoChange == ASSUME txn' = NoTxn PROVE StoreChange' = Store!Nothing
<1>1. DOMAIN txn'.parts = {}
  BY DEF NoTxn
<1> QED
  BY <1>1 DEF StoreChange, Store!Nothing

\* The paths of table t that a restart may bring in or take away.
Doubtful(t) == UNION {Differing(manifest[t], c.view) : c \in manifestDisk[t]}

\* The step puts no row in doubt.
NoNewDoubt == \A t \in Tables : StoreDoubt'[t] \subseteq StoreDoubt[t]

LEMMA DoubtIs == \A t \in Tables : /\ StoreDoubt[t] = RowsOf(Doubtful(t))
                                   /\ StoreDoubt'[t] = RowsOf(Doubtful(t))'
BY DEF StoreDoubt, Doubtful

\* A step that only removes files.
Shrinking == \A s \in DOMAIN segFiles' : s \in DOMAIN segFiles /\ segFiles'[s] = segFiles[s]

LEMMA DoubtFrame ==
    ASSUME Shrinking, manifest' = manifest,
           \A t \in Tables : manifestDisk'[t] \subseteq manifestDisk[t]
    PROVE  NoNewDoubt
<1> SUFFICES ASSUME NEW t \in Tables
             PROVE  RowsOf(Doubtful(t))' \subseteq RowsOf(Doubtful(t))
  BY DoubtIs DEF NoNewDoubt
<1>1. Doubtful(t)' \subseteq Doubtful(t)
  BY DEF Doubtful, Differing
<1> QED
  BY <1>1 DEF RowsOf, Shrinking

\* RowsInv fares well while files only go and the clock does not go back.
LEMMA RowsFrame ==
    ASSUME TypeOK, RowsInv, Shrinking, clock' \in Nat, clock <= clock',
           \A t \in Todo' : /\ t \in Todo /\ txn'.parts[t] = txn.parts[t]
                            /\ VisibleSegs(t)' = VisibleSegs(t)
    PROVE  RowsInv'
<1>1. clock \in Nat /\ \A s \in DOMAIN segFiles : segFiles[s] \in Nat
  BY BoundsAssumption DEF TypeOK
<1>2. ASSUME NEW s \in DOMAIN segFiles'
      PROVE  /\ segFiles'[s] < clock'
             /\ \A u \in DOMAIN segFiles' : s[1] = u[1] /\ segFiles'[s] = segFiles'[u] => s = u
  BY <1>1 DEF RowsInv, Shrinking
<1>3. ASSUME NEW t \in Todo'
      PROVE  LET part == txn'.parts[t] IN
                /\ part.marks \subseteq VisibleSegs(t)'
                /\ \A s \in DOMAIN segFiles' :
                      s[1] = t /\ s \notin part.adds => segFiles'[s] < part.stamp
  BY DEF RowsInv, Shrinking
<1> QED
  BY <1>2, <1>3 DEF RowsInv

\* The tables of a transaction in flight.
LEMMA PartsOnTables ==
    ASSUME TypeOK
    PROVE  /\ txn.left \subseteq DOMAIN txn.parts /\ DOMAIN txn.parts \subseteq Tables
           /\ Todo \subseteq DOMAIN txn.parts
BY DEF TypeOK, TxnOf, Todo

\* What is marked of a table to be published is there to be read.
LEMMA MarksLive ==
    ASSUME RowsInv, Todo = DOMAIN txn.parts
    PROVE  \A t \in DOMAIN txn.parts : txn.parts[t].marks \subseteq Live(t)
BY DEF RowsInv, VisibleSegs

\* The DVs of a part are not named in memory when no view refers to them.
LEMMA UnnamedIf ==
    ASSUME NEW adds, NEW marks,
           \A s \in adds : \A t \in Tables : s \notin Live(t),
           \A d \in marks : ~Referenced(d)
    PROVE  Unnamed(adds, marks)
BY DEF Unnamed, Referenced, Views, Live

-----------------------------------------------------------------------------
(* Steps that write what is staged *)

LEMMA WriteSegmentStep ==
    ASSUME StoreInv, ~MultiTable, NEW s \in txn.toWrite, WriteSegment(s)
    PROVE  RowsInv' /\ PhaseInv' /\ Store!Proceed /\ Store!Doubting
<1>1. /\ manifest' = manifest /\ manifestDisk' = manifestDisk /\ clock' = clock
      /\ txn'.parts = txn.parts /\ txn'.toMark = txn.toMark /\ txn'.left = txn.left
      /\ pc = "stage" /\ pc' = "stage" /\ dvFiles' = dvFiles
      /\ segFiles' = [p \in DOMAIN segFiles \cup {s} |->
                         IF p = s THEN txn.parts[s[1]].stamp ELSE segFiles[p]]
  BY DEF WriteSegment, manifestVars, StoreInv, IInv, TypeOK, TxnOf
<1>2. Todo = DOMAIN txn.parts /\ Todo' = DOMAIN txn.parts
  BY <1>1 DEF Todo
<1>3. PICK t \in DOMAIN txn.parts : s \in txn.parts[t].adds
  BY <1>1 DEF StoreInv, IInv, ProgressInv
<1>4. /\ t \in Tables /\ s[1] = t /\ txn.parts[t].adds = {s}
      /\ txn.parts[t].stamp \in Nat /\ txn.parts[t].stamp + 1 = clock
      /\ \A u \in Tables : s \notin Live(u)
  <2>1. t \in Tables
    BY PartsOnTables DEF StoreInv, IInv
  <2>2. PartOf(txn.parts[t], t) /\ txn.parts[t].stamp + 1 = clock
    BY <1>1 DEF StoreInv, IInv, PartsInv, Busy
  <2>3. \A u \in Tables : s \notin Live(u)
    BY <1>1, <1>2, <1>3, StagedIsFree DEF Busy, StoreInv
  <2> QED
    BY <1>3, <2>1, <2>2, <2>3 DEF PartOf, Part
<1> SUFFICES ASSUME NEW n, n = txn.parts[t].stamp
             PROVE  RowsInv' /\ PhaseInv' /\ Store!Proceed /\ Store!Doubting
  OBVIOUS
<1>5. /\ DOMAIN segFiles' = DOMAIN segFiles \cup {s} /\ segFiles'[s] = n
      /\ \A p \in DOMAIN segFiles : p # s => segFiles'[p] = segFiles[p]
  BY <1>1, <1>4
<1>6. /\ \A u \in Tables : /\ Live(u)' = Live(u) /\ VisibleSegs(u)' = VisibleSegs(u)
                           /\ \A S \in SUBSET Live(u) : RowsOf(S)' = RowsOf(S)
      /\ StoreContents' = StoreContents
  <2>1. OnlyFiles({s}, {}) /\ Unnamed({s}, {})
    BY <1>1, <1>4, <1>5 DEF OnlyFiles, Unnamed
  <2> QED
    BY <1>1, <2>1, ReadFrame
<1>7. StoreChange' = StoreChange
  BY <1>1, <1>2, <1>6, ChangeFrame, MarksLive, PartsOnTables DEF StoreInv, IInv
<1>8. RowsInv'
  <2>1. clock \in Nat /\ n \in Nat /\ n + 1 = clock
    BY <1>4, BoundsAssumption DEF StoreInv, IInv, TypeOK
  <2>2. \A p \in DOMAIN segFiles : p[1] = t /\ p # s => segFiles[p] < n
    BY <1>2, <1>4 DEF StoreInv, RowsInv
  <2>3. \A p \in DOMAIN segFiles : segFiles[p] \in Nat /\ segFiles[p] < clock
    BY DEF StoreInv, RowsInv, IInv, TypeOK
  <2>4. ASSUME NEW p \in DOMAIN segFiles'
        PROVE  /\ segFiles'[p] < clock
               /\ \A u \in DOMAIN segFiles' : p[1] = u[1] /\ segFiles'[p] = segFiles'[u] => p = u
    <3>1. segFiles'[p] < clock
      BY <1>5, <2>1, <2>3
    <3>2. ASSUME NEW u \in DOMAIN segFiles', p[1] = u[1], segFiles'[p] = segFiles'[u], p # u
          PROVE  FALSE
      <4>1. CASE p # s /\ u # s
        BY <1>5, <3>2, <4>1 DEF StoreInv, RowsInv
      <4>2. CASE p = s
        <5>1. u \in DOMAIN segFiles /\ u[1] = t /\ u # s /\ segFiles[u] = n
          BY <1>4, <1>5, <3>2, <4>2
        <5> QED
          BY <2>1, <2>2, <2>3, <5>1
      <4>3. CASE u = s
        <5>1. p \in DOMAIN segFiles /\ p[1] = t /\ p # s /\ segFiles[p] = n
          BY <1>4, <1>5, <3>2, <4>3
        <5> QED
          BY <2>1, <2>2, <2>3, <5>1
      <4> QED
        BY <4>1, <4>2, <4>3
    <3> QED
      BY <3>1, <3>2
  <2>5. ASSUME NEW u \in DOMAIN txn.parts
        PROVE  LET part == txn.parts[u] IN
                  /\ part.marks \subseteq VisibleSegs(u)
                  /\ \A p \in DOMAIN segFiles' :
                        p[1] = u /\ p \notin part.adds => segFiles'[p] < part.stamp
    <3>1. /\ txn.parts[u].marks \subseteq VisibleSegs(u)
          /\ \A p \in DOMAIN segFiles :
                p[1] = u /\ p \notin txn.parts[u].adds => segFiles[p] < txn.parts[u].stamp
      BY <1>2 DEF StoreInv, RowsInv
    <3>2. s[1] = u => s \in txn.parts[u].adds
      BY <1>3, <1>4
    <3> QED
      BY <1>5, <3>1, <3>2
  <2>6. \A u \in DOMAIN txn.parts : VisibleSegs(u)' = VisibleSegs(u)
    BY <1>6, PartsOnTables DEF StoreInv, IInv
  <2>7. ASSUME NEW p \in DOMAIN segFiles'
        PROVE  /\ segFiles'[p] < clock'
               /\ \A u \in DOMAIN segFiles' : p[1] = u[1] /\ segFiles'[p] = segFiles'[u] => p = u
    BY <1>1, <2>4
  <2>8. ASSUME NEW u \in Todo'
        PROVE  LET part == txn'.parts[u] IN
                  /\ part.marks \subseteq VisibleSegs(u)'
                  /\ \A p \in DOMAIN segFiles' :
                        p[1] = u /\ p \notin part.adds => segFiles'[p] < part.stamp
    <3>1. u \in DOMAIN txn.parts /\ txn'.parts = txn.parts
      BY <1>1, <1>2
    <3>2. VisibleSegs(u)' = VisibleSegs(u)
      BY <2>6, <3>1
    <3> QED
      BY <2>5, <3>1, <3>2
  <2> QED
    BY <2>7, <2>8 DEF RowsInv
<1>9. PhaseInv'
  BY <1>1 DEF PhaseInv, StoreInv, StorePhase
<1>10. StorePhase = "pending" /\ StorePhase' = "pending"
  BY <1>1 DEF StorePhase
<1>11. n \in StoreChange[t].new
  BY <1>3, <1>4 DEF StoreChange
<1>12. Store!Doubting
  <2> SUFFICES ASSUME NEW u \in Tables
               PROVE  StoreDoubt'[u] \subseteq StoreDoubt[u] \cup StoreChange[u].new
    BY <1>10 DEF Store!Doubting, Store!Touched
  <2>1. Doubtful(u)' = Doubtful(u)
    BY <1>1 DEF Doubtful
  <2>2. s \in Doubtful(u) => u = t
    <3>1. \A p \in Doubtful(u) : \E view \in Views(u) : p \in DOMAIN view
      BY DEF Doubtful, Differing, Views
    <3> QED
      BY <1>4, <3>1 DEF StoreInv, IInv, TypeOK
  <2>3. RowsOf(Doubtful(u))' \subseteq RowsOf(Doubtful(u)) \cup StoreChange[u].new
    BY <1>5, <1>11, <2>1, <2>2 DEF RowsOf
  <2> QED
    BY <2>3, DoubtIs
<1> QED
  BY <1>6, <1>7, <1>8, <1>9, <1>10, <1>12 DEF Store!Proceed

\* The other steps on the way to the manifest leave the segments alone.
LEMMA ProceedStep ==
    ASSUME StoreInv, ~MultiTable,
           \/ \E d \in txn.toMark : WriteDVAtPath(d)
           \/ BeginCommit
           \/ \E t \in txn.left : AppendIntent(t)
    PROVE  RowsInv' /\ PhaseInv' /\ Store!Proceed /\ Store!Doubting
<1>1. /\ manifest' = manifest /\ manifestDisk' = manifestDisk /\ clock' = clock
      /\ segFiles' = segFiles /\ txn'.parts = txn.parts
      /\ pc \in {"stage", "intent"} /\ pc' \in {"stage", "intent", "manifest"}
      /\ pc' = "stage" => pc = "stage" /\ txn'.toMark \subseteq txn.toMark
      /\ pc' = "intent" => pc = "stage" /\ txn'.left = DOMAIN txn.parts
      /\ pc' = "manifest" => pc = "intent" /\ txn'.left = txn.left
  <2>1. txn \in TxnOf(txn.parts)
    BY DEF StoreInv, IInv, TypeOK
  <2>2. ASSUME NEW d \in txn.toMark, WriteDVAtPath(d)
        PROVE  /\ txn'.parts = txn.parts /\ txn'.toMark \subseteq txn.toMark
               /\ pc' = pc /\ pc = "stage" /\ segFiles' = segFiles
    BY <2>1, <2>2 DEF WriteDVAtPath, TxnOf
  <2>3. CASE BeginCommit
    <3>1. txn'.parts = txn.parts /\ txn'.left = DOMAIN txn.parts /\ pc = "stage" /\ pc' = "intent"
      BY <2>1, <2>3 DEF BeginCommit, TxnOf
    <3> QED
      BY <2>3, <3>1 DEF BeginCommit, manifestVars, fileVars
  <2>4. ASSUME NEW t \in txn.left, AppendIntent(t)
        PROVE  /\ txn'.parts = txn.parts /\ txn'.left = txn.left
               /\ pc = "intent" /\ pc' = "manifest" /\ segFiles' = segFiles
    BY <2>1, <2>4 DEF AppendIntent, TxnOf, fileVars
  <2> QED
    BY <2>2, <2>3, <2>4 DEF WriteDVAtPath, AppendIntent, manifestVars
<1>2. Todo = DOMAIN txn.parts /\ Todo' = DOMAIN txn.parts
  BY <1>1 DEF Todo, StoreInv, PhaseInv
<1>3. /\ \A u \in Tables : /\ Live(u)' = Live(u) /\ VisibleSegs(u)' = VisibleSegs(u)
                           /\ \A S \in SUBSET Live(u) : RowsOf(S)' = RowsOf(S)
      /\ StoreContents' = StoreContents
  <2>1. ASSUME NEW d \in txn.toMark, WriteDVAtPath(d)
        PROVE  OnlyFiles({}, {d}) /\ Unnamed({}, {d})
    <3>1. pc = "stage" /\ dvFiles' = dvFiles \cup {d}
      BY <2>1 DEF WriteDVAtPath
    <3>2. ~Referenced(d)
      BY <1>2, <3>1, StagedIsFree DEF StoreInv, PhaseInv, Busy
    <3> QED
      BY <1>1, <3>1, <3>2, UnnamedIf DEF OnlyFiles
  <2>2. ASSUME dvFiles' = dvFiles
        PROVE  OnlyFiles({}, {}) /\ Unnamed({}, {})
    BY <1>1, <2>2 DEF OnlyFiles, Unnamed
  <2>3. (\E d \in txn.toMark : WriteDVAtPath(d)) \/ dvFiles' = dvFiles
    BY DEF BeginCommit, AppendIntent, fileVars
  <2> QED
    BY <1>1, <2>1, <2>2, <2>3, ReadFrame
<1>4. Shrinking
  BY <1>1 DEF Shrinking
<1>5. RowsInv'
  BY <1>1, <1>2, <1>3, <1>4, RowsFrame, PartsOnTables, BoundsAssumption
     DEF StoreInv, IInv, TypeOK
<1>6. PhaseInv'
  BY <1>1 DEF PhaseInv, StoreInv, StorePhase
<1>7. StoreChange' = StoreChange
  BY <1>1, <1>2, <1>3, ChangeFrame, MarksLive, PartsOnTables DEF StoreInv, IInv
<1>8. StorePhase = "pending" /\ StorePhase' = "pending"
  BY <1>1 DEF StorePhase
<1>9. Store!Doubting
  BY <1>1, <1>4, DoubtFrame DEF Store!Doubting, NoNewDoubt
<1> QED
  BY <1>3, <1>5, <1>6, <1>7, <1>8, <1>9 DEF Store!Proceed


-----------------------------------------------------------------------------
(* Steps that end a transaction *)

StoreSame == UNCHANGED <<StoreContents, StorePhase, StoreChange, StoreDoubt>>

LEMMA AppendCommitRecordStep ==
    ASSUME StoreInv, ~MultiTable, AppendCommitRecord
    PROVE  RowsInv' /\ PhaseInv' /\ StoreSame
<1>1. /\ manifest' = manifest /\ manifestDisk' = manifestDisk
      /\ segFiles' = segFiles /\ dvFiles' = dvFiles /\ clock' = clock
      /\ txn'.parts = txn.parts /\ pc = "record"
      /\ pc' = IF txn.left = {txn.cur} THEN "truncate" ELSE "intent"
  BY DEF AppendCommitRecord, manifestVars, fileVars, StoreInv, IInv, TypeOK, TxnOf
<1>2. txn.left = {txn.cur}
  <2>1. txn.cur \in txn.left /\ \A t, u \in DOMAIN txn.parts : t = u
    BY <1>1 DEF StoreInv, PhaseInv, IInv, ProgressInv
  <2> QED
    BY <2>1, PartsOnTables DEF StoreInv, IInv
<1>3. pc' = "truncate" /\ Todo' = {}
  BY <1>1, <1>2 DEF Todo
<1>4. RowsInv'
  <2>1. Shrinking
    BY <1>1 DEF Shrinking
  <2> QED
    BY <1>1, <1>3, <2>1, RowsFrame, BoundsAssumption DEF StoreInv, IInv, TypeOK
<1>5. PhaseInv'
  BY <1>1, <1>3 DEF PhaseInv, StoreInv, StorePhase
<1>6. StoreContents' = StoreContents
  <2>1. OnlyFiles({}, {}) /\ Unnamed({}, {})
    BY <1>1 DEF OnlyFiles, Unnamed
  <2> QED
    BY <1>1, <2>1, ReadFrame
<1>7. StoreChange' = StoreChange /\ StorePhase' = StorePhase
  BY <1>1, <1>3 DEF StoreChange, StorePhase, RowsOf
<1>8. StoreDoubt' = StoreDoubt
  BY <1>1 DEF StoreDoubt, RowsOf
<1> QED
  BY <1>4, <1>5, <1>6, <1>7, <1>8 DEF StoreSame

\* Files nobody names may be removed; the rows read stay the same.
LEMMA RemovalFrame ==
    ASSUME NEW adds, NEW marks, Unnamed(adds, marks), manifest' = manifest,
           segFiles' = [p \in DOMAIN segFiles \ adds |-> segFiles[p]],
           dvFiles' = dvFiles \ marks
    PROVE  /\ Shrinking /\ StoreContents' = StoreContents
           /\ \A t \in Tables : VisibleSegs(t)' = VisibleSegs(t)
<1>1. OnlyFiles(adds, marks) /\ Shrinking
  BY DEF OnlyFiles, Shrinking
<1> QED
  BY <1>1, ReadFrame

\* A transaction is over: acknowledged, failed, rolled back or lost.
LEMMA TxnOver ==
    ASSUME StoreInv, txn' = NoTxn, pc' \in {"idle", "down"}, clock' = clock,
           Shrinking, StoreContents' = StoreContents, Store!Doubting
    PROVE  RowsInv' /\ PhaseInv' /\ Store!StoreNext
<1>1. Todo' = {} /\ StorePhase' = "none" /\ DOMAIN txn'.parts = {}
  BY DEF Todo, StorePhase, NoTxn
<1>2. RowsInv'
  BY <1>1, RowsFrame, BoundsAssumption DEF StoreInv, IInv, TypeOK
<1>3. PhaseInv'
  BY <1>1 DEF PhaseInv
<1>4. StoreChange' = Store!Nothing
  BY NextNoChange
<1>5. CASE StorePhase = "none"
  <2>1. StoreChange = Store!Nothing
    BY <1>5, NoChange DEF StoreInv, PhaseInv
  <2>2. Store!Restart
    BY <1>1, <1>4, <1>5, <2>1 DEF Store!Restart
  <2> QED
    BY <1>2, <1>3, <2>2 DEF Store!StoreNext
<1>6. CASE StorePhase # "none"
  BY <1>1, <1>2, <1>3, <1>4, <1>6 DEF Store!End, Store!StoreNext
<1> QED
  BY <1>5, <1>6

\* Without a new line that a restart may find, no row comes into doubt.
LEMMA TxnOverQuietly ==
    ASSUME StoreInv, txn' = NoTxn, pc' \in {"idle", "down"}, clock' = clock,
           NEW adds, NEW marks, Unnamed(adds, marks), manifest' = manifest,
           segFiles' = [p \in DOMAIN segFiles \ adds |-> segFiles[p]],
           dvFiles' = dvFiles \ marks,
           \A t \in Tables : manifestDisk'[t] \subseteq manifestDisk[t]
    PROVE  RowsInv' /\ PhaseInv' /\ Store!StoreNext
<1>1. Shrinking /\ StoreContents' = StoreContents
  BY RemovalFrame
<1>2. Store!Doubting
  BY <1>1, DoubtFrame DEF NoNewDoubt, Store!Doubting
<1> QED
  BY <1>1, <1>2, TxnOver

LEMMA RollbackStep ==
    ASSUME StoreInv, Rollback
    PROVE  RowsInv' /\ PhaseInv' /\ Store!StoreNext
<1> SUFFICES ASSUME NEW adds, adds = UNION {txn.parts[t].adds : t \in DOMAIN txn.parts},
                    NEW marks, marks = UNION {NewDVs(txn.parts[t]) : t \in DOMAIN txn.parts}
             PROVE  RowsInv' /\ PhaseInv' /\ Store!StoreNext
  OBVIOUS
<1>1. /\ pc = "stage" /\ pc' = "idle" /\ txn' = NoTxn /\ clock' = clock
      /\ manifest' = manifest /\ manifestDisk' = manifestDisk
      /\ segFiles' = [p \in DOMAIN segFiles \ adds |-> segFiles[p]]
      /\ dvFiles' = dvFiles \ marks
  BY DEF Rollback, manifestVars
<1>2. Unnamed(adds, marks)
  <2>1. Todo = DOMAIN txn.parts /\ Busy
    BY <1>1 DEF Todo, Busy
  <2>2. /\ \A s \in adds : \A t \in Tables : s \notin Live(t)
        /\ \A d \in marks : ~Referenced(d)
    BY <2>1, StagedIsFree DEF StoreInv
  <2> QED
    BY <2>2, UnnamedIf
<1> QED
  BY <1>1, <1>2, TxnOverQuietly

\* What a failed commit cleans up is in no manifest.
LEMMA CleanupUnnamed ==
    ASSUME StoreInv, pc \in {"intent", "manifest"}
    PROVE  Unnamed(CleanupAdds, CleanupMarks)
<1>1. ~txn.isTx => DOMAIN txn.parts \subseteq Todo
  BY DEF StoreInv, IInv, ProgressInv, Todo
<1>2. /\ \A s \in CleanupAdds : \A t \in Tables : s \notin Live(t)
      /\ \A d \in CleanupMarks : ~Referenced(d)
  <2>1. CASE txn.isTx
    BY <2>1 DEF CleanupAdds, CleanupMarks
  <2>2. CASE ~txn.isTx
    <3> DEFINE adds == UNION {txn.parts[t].adds : t \in DOMAIN txn.parts}
               marks == UNION {NewDVs(txn.parts[t]) : t \in DOMAIN txn.parts}
    <3>1. /\ \A s \in adds : \A t \in Tables : s \notin Live(t)
          /\ \A d \in marks : ~Referenced(d)
      BY <1>1, <2>2, StagedIsFree DEF Busy, Committing, StoreInv
    <3>2. CleanupAdds = adds /\ CleanupMarks \subseteq marks
      BY <2>2 DEF CleanupAdds, CleanupMarks
    <3> HIDE DEF adds, marks
    <3> QED
      BY <3>1, <3>2
  <2> QED
    BY <2>1, <2>2
<1> QED
  BY <1>2, UnnamedIf

LEMMA AbandonStep ==
    ASSUME Workload, StoreInv, FailLog \/ ManifestClosed
    PROVE  RowsInv' /\ PhaseInv' /\ Store!StoreNext
<1>1. /\ pc \in {"intent", "manifest"} /\ Abandon
      /\ manifest' = manifest /\ manifestDisk' = manifestDisk
  BY FaultFacts DEF FailLog, ManifestClosed, manifestVars, StoreInv, IInv
<1>2. /\ pc' = "idle" /\ txn' = NoTxn /\ clock' = clock
      /\ segFiles' = [p \in DOMAIN segFiles \ CleanupAdds |-> segFiles[p]]
      /\ dvFiles' = dvFiles \ CleanupMarks
  BY <1>1 DEF Abandon
<1>3. Unnamed(CleanupAdds, CleanupMarks)
  BY <1>1, CleanupUnnamed
<1> QED
  BY <1>1, <1>2, <1>3, TxnOverQuietly

LEMMA AcknowledgeStep ==
    ASSUME StoreInv, Acknowledge
    PROVE  RowsInv' /\ PhaseInv' /\ Store!StoreNext
<1>1. /\ pc' = "idle" /\ txn' = NoTxn /\ clock' = clock
      /\ manifest' = manifest /\ manifestDisk' = manifestDisk
      /\ segFiles' = segFiles /\ dvFiles' = dvFiles
  BY DEF Acknowledge, manifestVars, fileVars
<1>2. Shrinking /\ OnlyFiles({}, {}) /\ Unnamed({}, {})
  BY <1>1 DEF Shrinking, OnlyFiles, Unnamed
<1>3. StoreContents' = StoreContents /\ Store!Doubting
  BY <1>1, <1>2, ReadFrame, DoubtFrame DEF NoNewDoubt, Store!Doubting
<1> QED
  BY <1>1, <1>2, <1>3, TxnOver

LEMMA CrashStep ==
    ASSUME StoreInv, LoseMemory, dvFiles' = dvFiles,
           \A t \in Tables : manifestDisk'[t] \subseteq manifestDisk[t]
    PROVE  RowsInv' /\ PhaseInv' /\ Store!StoreNext
<1>1. /\ pc' = "down" /\ txn' = NoTxn /\ clock' = clock
      /\ manifest' = manifest /\ segFiles' = segFiles
  BY DEF LoseMemory
<1>2. Shrinking /\ OnlyFiles({}, {}) /\ Unnamed({}, {})
  BY <1>1 DEF Shrinking, OnlyFiles, Unnamed
<1>3. StoreContents' = StoreContents /\ Store!Doubting
  BY <1>1, <1>2, ReadFrame, DoubtFrame DEF NoNewDoubt, Store!Doubting
<1> QED
  BY <1>1, <1>2, <1>3, TxnOver

\* A failed manifest append puts the rows of its transaction in doubt: a restart
\* may find the line.
LEMMA FailManifestStep ==
    ASSUME Workload, StoreInv, ~MultiTable, FailManifest
    PROVE  RowsInv' /\ PhaseInv' /\ Store!StoreNext
<1> SUFFICES ASSUME NEW t, t = txn.cur, NEW part, part = txn.parts[t],
                    NEW new, new = Publish(manifest[t], part)
             PROVE  RowsInv' /\ PhaseInv' /\ Store!StoreNext
  OBVIOUS
<1>1. /\ pc = "manifest" /\ Abandon /\ manifest' = manifest
      /\ manifestDisk' = [manifestDisk EXCEPT ![t] = @ \cup {Recorded(new, txn.ts)}]
  <2>1. Extended(t, part, txn.ts) = Recorded(new, txn.ts)
    BY DEF Extended
  <2> QED
    BY <2>1, FaultFacts DEF FailManifest, StoreInv, IInv
<1>0. pc = "manifest"
  BY <1>1
<1>2. /\ pc' = "idle" /\ txn' = NoTxn /\ clock' = clock
      /\ segFiles' = [p \in DOMAIN segFiles \ CleanupAdds |-> segFiles[p]]
      /\ dvFiles' = dvFiles \ CleanupMarks
  BY <1>1 DEF Abandon
<1>3. Shrinking /\ StoreContents' = StoreContents
  BY <1>1, <1>2, CleanupUnnamed, RemovalFrame
<1>4. ViewFacts(t, part, new)
  BY <1>0, NextView DEF StoreInv
<1>5. t \in Tables /\ t \in txn.left /\ t \in DOMAIN txn.parts
  BY <1>4, PartsOnTables DEF ViewFacts, StoreInv, IInv
<1>6. Differing(manifest[t], new) \subseteq part.adds \cup part.marks
  <2>1. /\ DOMAIN new = Live(t) \cup part.adds
        /\ \A s \in DOMAIN new : \/ s \in part.marks
                                 \/ new[s].dv = NoDV
                                 \/ s \in Live(t) /\ new[s].dv = manifest[t][s].dv
    BY <1>4 DEF ViewFacts
  <2>2. \A s \in Live(t) : s \in part.adds \cup part.marks \/ new[s].dv = manifest[t][s].dv
    BY DEF Publish, Live
  <2> QED
    BY <2>1, <2>2 DEF Differing, Live
<1>7. \A s \in part.adds \cap DOMAIN segFiles : segFiles[s] \in StoreChange[t].new
  <2>1. \A s \in part.adds : segFiles[s] = part.stamp
    BY <1>4 DEF ViewFacts
  <2> QED
    BY <1>5, <2>1 DEF StoreChange
<1>8. \A s \in part.marks \cap DOMAIN segFiles : segFiles[s] \in StoreChange[t].gone
  BY <1>5 DEF StoreChange, RowsOf
<1>9. Store!Doubting
  <2>1. StorePhase = "pending"
    BY <1>1 DEF StorePhase
  <2> SUFFICES ASSUME NEW u \in Tables
               PROVE  StoreDoubt'[u] \subseteq StoreDoubt[u] \cup
                         (StoreChange[u].gone \cup StoreChange[u].new)
    BY <2>1 DEF Store!Doubting, Store!Touched
  <2>2. DOMAIN manifestDisk = Tables
    BY DEF StoreInv, IInv, TypeOK
  <2>3. CASE u = t
    <3>1. Recorded(new, txn.ts).view = new
      BY DEF Recorded
    <3>2. manifestDisk'[t] = manifestDisk[t] \cup {Recorded(new, txn.ts)}
      BY <1>1, <1>5, <2>2
    <3>3. Doubtful(t)' \subseteq Doubtful(t) \cup part.adds \cup part.marks
      <4> SUFFICES ASSUME NEW c \in manifestDisk'[t], NEW s \in Differing(manifest[t], c.view)
                   PROVE  s \in Doubtful(t) \cup part.adds \cup part.marks
        BY <1>1 DEF Doubtful, Differing
      <4>1. CASE c \in manifestDisk[t]
        BY <4>1 DEF Doubtful
      <4>2. CASE c = Recorded(new, txn.ts)
        BY <1>6, <3>1, <4>2
      <4> QED
        BY <3>2, <4>1, <4>2
    <3>4. RowsOf(Doubtful(t))' \subseteq RowsOf(Doubtful(t)) \cup
             (StoreChange[t].gone \cup StoreChange[t].new)
      BY <1>3, <1>7, <1>8, <3>3 DEF RowsOf, Shrinking
    <3> QED
      BY <1>5, <2>3, <3>4, DoubtIs
  <2>4. CASE u # t
    <3>1. manifestDisk'[u] = manifestDisk[u]
      BY <1>1, <2>2, <2>4
    <3>2. Doubtful(u)' = Doubtful(u)
      BY <1>1, <3>1 DEF Doubtful, Differing
    <3>3. RowsOf(Doubtful(u))' \subseteq RowsOf(Doubtful(u))
      BY <1>3, <3>2 DEF RowsOf, Shrinking
    <3> QED
      BY <3>3, DoubtIs
  <2> QED
    BY <2>3, <2>4
<1> QED
  BY <1>2, <1>3, <1>9, TxnOver

-----------------------------------------------------------------------------
(* Recovery *)

RecoveryPoints == {"down", "recover", "roll", "unwind", "mark"}

\* A step of recovery is a restart of the store, in which rows in doubt may be
\* seen or not.
LEMMA RestartStep ==
    ASSUME StoreInv, txn' = txn, clock' = clock,
           pc \in RecoveryPoints, pc' \in RecoveryPoints \cup {"idle"},
           Shrinking, Store!Doubting,
           \A t \in Tables : StoreContents'[t] \ StoreDoubt[t] = StoreContents[t] \ StoreDoubt[t]
    PROVE  RowsInv' /\ PhaseInv' /\ Store!StoreNext
<1>1. /\ Todo' = {} /\ StorePhase = "none" /\ StorePhase' = "none"
      /\ DOMAIN txn.parts = {} /\ DOMAIN txn'.parts = {}
  BY DEF RecoveryPoints, Todo, StorePhase, StoreInv, PhaseInv
<1>2. RowsInv'
  BY <1>1, RowsFrame, BoundsAssumption DEF StoreInv, IInv, TypeOK
<1>3. PhaseInv'
  BY <1>1 DEF PhaseInv, RecoveryPoints
<1>4. StoreChange' = StoreChange
  BY <1>1 DEF StoreChange
<1>5. Store!Restart
  BY <1>1, <1>4 DEF Store!Restart
<1> QED
  BY <1>2, <1>3, <1>5 DEF Store!StoreNext

\* Most of recovery changes nothing that is read.
LEMMA QuietRestart ==
    ASSUME StoreInv, txn' = txn, clock' = clock,
           pc \in RecoveryPoints, pc' \in RecoveryPoints \cup {"idle"},
           manifest' = manifest, manifestDisk' = manifestDisk,
           NEW adds, NEW marks, Unnamed(adds, marks),
           segFiles' = [p \in DOMAIN segFiles \ adds |-> segFiles[p]],
           dvFiles' = dvFiles \ marks
    PROVE  RowsInv' /\ PhaseInv' /\ Store!StoreNext
<1>1. Shrinking /\ StoreContents' = StoreContents
  BY RemovalFrame
<1>2. Store!Doubting
  BY <1>1, DoubtFrame DEF NoNewDoubt, Store!Doubting
<1> QED
  BY <1>1, <1>2, RestartStep

LEMMA SameFilesRestart ==
    ASSUME StoreInv, txn' = txn, clock' = clock,
           pc \in RecoveryPoints, pc' \in RecoveryPoints \cup {"idle"},
           manifest' = manifest, manifestDisk' = manifestDisk,
           segFiles' = segFiles, dvFiles' = dvFiles
    PROVE  RowsInv' /\ PhaseInv' /\ Store!StoreNext
<1>1. Shrinking /\ OnlyFiles({}, {}) /\ Unnamed({}, {})
  BY DEF Shrinking, OnlyFiles, Unnamed
<1>2. StoreContents' = StoreContents /\ Store!Doubting
  BY <1>1, ReadFrame, DoubtFrame DEF NoNewDoubt, Store!Doubting
<1> QED
  BY <1>1, <1>2, RestartStep

\* Recovery removes the files of an intent only when no manifest names them.
LEMMA RemoveOrphansStep ==
    ASSUME StoreInv, NEW i \in group, RemoveOrphans(i)
    PROVE  RowsInv' /\ PhaseInv' /\ Store!StoreNext
<1> SUFFICES ASSUME NEW intent, intent = wal[i], NEW part, part = intent.part
             PROVE  RowsInv' /\ PhaseInv' /\ Store!StoreNext
  OBVIOUS
<1>1. /\ pc = "unwind" /\ pc' = "mark" /\ txn' = txn /\ clock' = clock
      /\ manifest' = manifest /\ manifestDisk' = manifestDisk
      /\ segFiles' = [p \in DOMAIN segFiles \ part.adds |-> segFiles[p]]
      /\ dvFiles' = dvFiles \ NewDVs(part)
  BY DEF RemoveOrphans, manifestVars
<1>2. /\ i \in PendingIntents(wal) /\ wal \in walDisk /\ ~IsCommitted(intent)
      /\ intent.table \in Tables
  BY <1>1 DEF StoreInv, IInv, RecoveryInv, Recovering, TypeOK, PendingIntents, LogRecord
<1>3. PartOf(part, intent.table) /\ Resolvable(intent)
  BY <1>2 DEF StoreInv, IInv, LogInv
<1>4. \A s \in part.adds : \A t \in Tables : s \notin Live(t)
  BY <1>2, <1>3, LivePaths DEF PartOf, IsCommitted, StoreInv, IInv
<1>5. ASSUME NEW t \in Tables, NEW s \in Live(t), manifest[t][s].dv \in NewDVs(part)
      PROVE  FALSE
  <2>1. PICK m \in part.marks : manifest[t][s].dv = <<m, part.stamp>>
    BY <1>5 DEF NewDVs
  <2>2. manifest[t][s].dv[1] = m /\ manifest[t][s].dv # NoDV
    BY <2>1, PathIsADV
  <2>3. manifest[t] \in Views(t) /\ s[1] = t /\ s \in DOMAIN manifest[t]
    BY LivePaths DEF StoreInv, IInv
  <2>4. s = m
    BY <2>2, <2>3 DEF StoreInv, IInv, ManifestInv
  <2>5. t = intent.table
    BY <1>3, <2>3, <2>4 DEF PartOf
  <2>6. PICK a : a \in part.adds \cap DOMAIN manifest[t]
    BY <1>3, <1>5, <2>3, <2>5 DEF Resolvable
  <2> QED
    BY <1>4, <2>6 DEF Live
<1>6. Unnamed(part.adds, NewDVs(part))
  BY <1>4, <1>5 DEF Unnamed
<1> QED
  BY <1>1, <1>6, QuietRestart DEF RecoveryPoints

\* Of three views, two differ only where one of them differs from the third.
LEMMA DifferingOf ==
    ASSUME NEW v, NEW w, NEW x
    PROVE  Differing(w, x) \subseteq Differing(v, w) \cup Differing(v, x)
BY DEF Differing

\* Open takes what the manifest file says for what the last process knew: all
\* that this can change was in doubt.
LEMMA OpenStep ==
    ASSUME StoreInv, Open
    PROVE  RowsInv' /\ PhaseInv' /\ Store!StoreNext
<1>1. /\ pc = "down" /\ pc' = "recover" /\ txn' = txn /\ clock' = clock
      /\ manifest' = [t \in Tables |-> manifestFile[t].view]
      /\ manifestDisk' = manifestDisk /\ segFiles' = segFiles /\ dvFiles' = dvFiles
  BY DEF Open, fileVars
<1>2. Shrinking
  BY <1>1 DEF Shrinking
<1>3. ASSUME NEW t \in Tables
      PROVE  /\ StoreDoubt'[t] \subseteq StoreDoubt[t]
             /\ StoreContents'[t] \ StoreDoubt[t] = StoreContents[t] \ StoreDoubt[t]
  <2> SUFFICES ASSUME NEW old, old = manifest[t], NEW found, found = manifestFile[t].view
               PROVE  /\ StoreDoubt'[t] \subseteq StoreDoubt[t]
                      /\ StoreContents'[t] \ StoreDoubt[t] = StoreContents[t] \ StoreDoubt[t]
    OBVIOUS
  <2>1. manifest'[t] = found /\ manifestFile[t] \in manifestDisk[t]
    BY <1>1 DEF StoreInv, IInv, TypeOK
  <2>2. Differing(old, found) \subseteq Doubtful(t)
    BY <2>1 DEF Doubtful
  <2>3. Doubtful(t)' \subseteq Doubtful(t)
    <3> SUFFICES ASSUME NEW c \in manifestDisk[t]
                 PROVE  Differing(found, c.view) \subseteq Doubtful(t)
      BY <1>1, <2>1 DEF Doubtful
    <3>1. Differing(old, c.view) \subseteq Doubtful(t)
      BY DEF Doubtful
    <3> QED
      BY <2>2, <3>1, DifferingOf
  <2>4. StoreDoubt'[t] \subseteq StoreDoubt[t]
    BY <1>1, <2>3, DoubtIs DEF RowsOf
  <2>5. \A s : s \notin Doubtful(t) => (s \in VisibleSegs(t)' <=> s \in VisibleSegs(t))
    <3>1. VisibleSegs(t)' = {s \in DOMAIN found : ~IsDead(found[s])}
      BY <1>1, <2>1 DEF VisibleSegs, Live, IsDead
    <3>2. VisibleSegs(t) = {s \in DOMAIN old : ~IsDead(old[s])}
      BY DEF VisibleSegs, Live
    <3>3. \A s : s \notin Doubtful(t) =>
             \/ s \notin DOMAIN old \cup DOMAIN found
             \/ s \in DOMAIN old \cap DOMAIN found /\ old[s].dv = found[s].dv
      BY <2>2 DEF Differing
    <3> QED
      BY <3>1, <3>2, <3>3 DEF IsDead
  <2>6. RowsOf(VisibleSegs(t))' \ RowsOf(Doubtful(t)) = RowsOf(VisibleSegs(t)) \ RowsOf(Doubtful(t))
    BY <1>1, <2>5 DEF RowsOf
  <2> QED
    BY <2>4, <2>6, DoubtIs DEF StoreContents
<1>4. Store!Doubting
  BY <1>3 DEF Store!Doubting
<1> QED
  BY <1>1, <1>2, <1>3, <1>4, RestartStep DEF RecoveryPoints

LEMMA RecoveryStep ==
    ASSUME StoreInv, Recovery
    PROVE  RowsInv' /\ PhaseInv' /\ Store!StoreNext
<1>1. CASE Open
  BY <1>1, OpenStep
<1>2. ASSUME NEW i \in group, RemoveOrphans(i)
      PROVE  RowsInv' /\ PhaseInv' /\ Store!StoreNext
  BY <1>2, RemoveOrphansStep
<1>3. ASSUME NEW i \in group, RollForward(i)
      PROVE  RowsInv' /\ PhaseInv' /\ Store!StoreNext
  <2>1. pc = "roll" /\ IsCommitted(wal[i])
    BY <1>3 DEF RollForward, StoreInv, IInv, RecoveryInv
  <2>2. UNCHANGED manifestVars /\ UNCHANGED fileVars /\ txn' = txn /\ clock' = clock
    BY <1>3, <2>1 DEF RollForward
  <2>3. pc' \in {"recover", "roll"}
    BY <1>3 DEF RollForward
  <2> QED
    BY <2>1, <2>2, <2>3, SameFilesRestart DEF manifestVars, fileVars, RecoveryPoints
<1>4. ASSUME \/ \E i \in pending : RecoverGroup(i)
             \/ \E i \in group : MarkIntentResolved(i)
             \/ FinishOpen
      PROVE  RowsInv' /\ PhaseInv' /\ Store!StoreNext
  <2>1. /\ UNCHANGED manifestVars /\ UNCHANGED fileVars /\ txn' = txn /\ clock' = clock
        /\ pc \in RecoveryPoints /\ pc' \in RecoveryPoints \cup {"idle"}
    BY <1>4 DEF RecoverGroup, MarkIntentResolved, FinishOpen, RecoveryPoints
  <2> QED
    BY <2>1, SameFilesRestart DEF manifestVars, fileVars
<1> QED
  BY <1>1, <1>2, <1>3, <1>4 DEF Recovery

LEMMA StutterStep ==
    ASSUME StoreInv, UNCHANGED vars
    PROVE  RowsInv' /\ PhaseInv' /\ StoreSame
<1>1. UNCHANGED <<manifest, manifestDisk, segFiles, dvFiles, pc, txn, clock>>
  BY DEF vars, manifestVars, fileVars
<1>2. Todo' = Todo /\ StorePhase' = StorePhase
  BY <1>1 DEF Todo, StorePhase
<1>3. \A t \in Tables : VisibleSegs(t)' = VisibleSegs(t)
  BY <1>1 DEF VisibleSegs, IsDead, Live
<1>4. RowsInv'
  BY <1>1, <1>2, <1>3, PartsOnTables DEF RowsInv, StoreInv, IInv
<1>5. PhaseInv'
  BY <1>1, <1>2 DEF PhaseInv, StoreInv
<1>6. StoreContents' = StoreContents /\ StoreChange' = StoreChange /\ StoreDoubt' = StoreDoubt
  BY <1>1, <1>3 DEF StoreContents, StoreChange, StoreDoubt, RowsOf
<1> QED
  BY <1>2, <1>4, <1>5, <1>6 DEF StoreSame

-----------------------------------------------------------------------------
(* Steps that begin a transaction and make it visible *)

\* The statement of a transaction stages new rows, and kills rows that are read.
LEMMA ExecuteStep ==
    ASSUME Workload, StoreInv, ~MultiTable,
           NEW isTx \in BOOLEAN, NEW ts \in SUBSET Tables,
           NEW kinds \in [ts -> Kinds], NEW hits,
           \A t \in ts : hits[t] \in Hits(kinds[t], t),
           \A t, u \in ts : t = u,
           Execute(isTx, kinds, hits)
    PROVE  RowsInv' /\ PhaseInv' /\ Store!StoreNext
<1> DEFINE parts == [t \in ts |-> StagedPart(kinds[t], t, hits[t])]
<1>1. /\ pc = "idle" /\ pc' = "stage" /\ clock < MaxClock /\ clock' = clock + 1
      /\ manifest' = manifest /\ manifestDisk' = manifestDisk
      /\ segFiles' = segFiles /\ dvFiles' = dvFiles
      /\ txn'.parts = parts /\ txn'.toMark = UNION {NewDVs(parts[t]) : t \in ts}
  BY DEF Execute, NoTxn, manifestVars, fileVars
<1>2. /\ clock \in Nat /\ MaxClock \in Nat
      /\ \A s \in DOMAIN segFiles : segFiles[s] \in Nat /\ segFiles[s] < clock
  BY BoundsAssumption DEF StoreInv, IInv, TypeOK, RowsInv
<1>3. ASSUME NEW t \in ts
      PROVE  /\ parts[t].stamp = clock /\ parts[t].marks = hits[t]
             /\ hits[t] \subseteq VisibleSegs(t)
  BY DEF StagedPart, Hits
<1>4. DOMAIN parts = ts
  OBVIOUS
<1> HIDE DEF parts
<1>5. Todo' = ts
  BY <1>1, <1>4 DEF Todo
<1>6. /\ \A t \in Tables : VisibleSegs(t)' = VisibleSegs(t)
      /\ StoreContents' = StoreContents
  <2>1. OnlyFiles({}, {}) /\ Unnamed({}, {})
    BY <1>1 DEF OnlyFiles, Unnamed
  <2> QED
    BY <1>1, <2>1, ReadFrame
<1>7. RowsInv'
  <2>1. ASSUME NEW s \in DOMAIN segFiles'
        PROVE  /\ segFiles'[s] < clock'
               /\ \A u \in DOMAIN segFiles' : s[1] = u[1] /\ segFiles'[s] = segFiles'[u] => s = u
    BY <1>1, <1>2 DEF StoreInv, RowsInv
  <2>2. ASSUME NEW t \in Todo'
        PROVE  LET part == txn'.parts[t] IN
                  /\ part.marks \subseteq VisibleSegs(t)'
                  /\ \A s \in DOMAIN segFiles' :
                        s[1] = t /\ s \notin part.adds => segFiles'[s] < part.stamp
    <3>1. t \in ts /\ txn'.parts[t] = parts[t] /\ t \in Tables
      BY <1>1, <1>5
    <3>2. parts[t].stamp = clock /\ parts[t].marks \subseteq VisibleSegs(t)
      BY <1>3, <3>1
    <3> QED
      BY <1>1, <1>2, <1>6, <3>1, <3>2
  <2> QED
    BY <2>1, <2>2 DEF RowsInv
<1>8. PhaseInv'
  <2>1. \A d \in txn'.toMark : \E t \in DOMAIN txn'.parts : d \in NewDVs(txn'.parts[t])
    BY <1>1, <1>4
  <2> QED
    BY <1>1, <1>4, <2>1 DEF PhaseInv, StorePhase, NewDVs
<1>9. StorePhase = "none" /\ StorePhase' = "pending"
  BY <1>1 DEF StorePhase
<1>10. ASSUME NEW t \in Tables
       PROVE  /\ StoreChange'[t].gone \subseteq StoreContents[t]
              /\ StoreChange'[t].new \cap StoreContents[t] = {}
              /\ StoreChange'[t] \in [gone : SUBSET (0 .. MaxClock), new : SUBSET (0 .. MaxClock)]
  <2>1. /\ StoreContents[t] = RowsOf(VisibleSegs(t))
        /\ \A S : RowsOf(S) \subseteq 0 .. MaxClock /\ clock \notin RowsOf(S)
    BY <1>1, <1>2 DEF StoreContents, RowsOf
  <2>2. CASE t \in ts
    <3> SUFFICES ASSUME NEW p, p = parts[t], NEW h, h = hits[t]
                 PROVE  /\ StoreChange'[t].gone \subseteq StoreContents[t]
                        /\ StoreChange'[t].new \cap StoreContents[t] = {}
                        /\ StoreChange'[t] \in
                              [gone : SUBSET (0 .. MaxClock), new : SUBSET (0 .. MaxClock)]
      OBVIOUS
    <3>1. txn'.parts[t] = p /\ t \in DOMAIN txn'.parts /\ p.marks = h /\ p.stamp = clock
      BY <1>1, <1>3, <1>4, <2>2
    <3>2. StoreChange'[t] = [gone |-> RowsOf(h),
                             new |-> IF p.adds = {} THEN {} ELSE {clock}]
      BY <1>1, <3>1 DEF StoreChange, RowsOf
    <3>3. RowsOf(h) \subseteq RowsOf(VisibleSegs(t))
      BY <1>3, <2>2 DEF RowsOf
    <3>4. clock \in 0 .. MaxClock
      BY <1>1, <1>2
    <3> QED
      BY <2>1, <3>2, <3>3, <3>4
  <2>3. CASE t \notin ts
    BY <1>1, <1>4, <2>3 DEF StoreChange
  <2> QED
    BY <2>2, <2>3
<1>11. StoreChange' \in [Tables -> [gone : SUBSET (0 .. MaxClock), new : SUBSET (0 .. MaxClock)]]
  BY <1>10 DEF StoreChange
<1>12. Store!Doubting
  <2>1. Shrinking
    BY <1>1 DEF Shrinking
  <2> QED
    BY <1>1, <2>1, DoubtFrame DEF NoNewDoubt, Store!Doubting
<1>13. Store!Begin
  BY <1>6, <1>9, <1>10, <1>11 DEF Store!Begin
<1> QED
  BY <1>7, <1>8, <1>12, <1>13 DEF Store!StoreNext

\* A manifest line makes all that a transaction did to the table visible at once.
LEMMA PublishedRows ==
    ASSUME StoreInv, pc = "manifest", NEW t, t = txn.cur,
           NEW part, part = txn.parts[t], NEW new, new = Publish(manifest[t], part),
           manifest'[t] = new, segFiles' = segFiles, dvFiles' = dvFiles
    PROVE  RowsOf(VisibleSegs(t))' =
              (RowsOf(VisibleSegs(t)) \ RowsOf(part.marks)) \cup
                 (IF part.adds = {} THEN {} ELSE {part.stamp})
<1>1. ViewFacts(t, part, new)
  BY NextView DEF StoreInv
<1>2. /\ part.marks \subseteq VisibleSegs(t) /\ t \in Tables
      /\ DOMAIN new = Live(t) \cup part.adds
      /\ \A s \in part.adds : /\ s \notin Live(t) /\ s \in DOMAIN segFiles
                              /\ segFiles[s] = part.stamp
      /\ \A d \in NewDVs(part) : d \in dvFiles
  BY <1>1 DEF ViewFacts, StoreInv, RowsInv
<1>3. /\ \A s \in part.adds : new[s].dv = NoDV
      /\ \A s \in part.marks : new[s].dv = <<s, part.stamp>>
      /\ \A s \in Live(t) \ part.marks : new[s].dv = manifest[t][s].dv
  <2>1. \A s \in part.marks : s \in Live(t) /\ s \notin part.adds
    BY <1>2 DEF VisibleSegs
  <2>2. \A s \in DOMAIN new : new[s].dv = IF s \in part.marks THEN <<s, part.stamp>>
                                     ELSE IF s \in part.adds THEN NoDV
                                     ELSE manifest[t][s].dv
    BY MarksOf
  <2> QED
    BY <1>2, <2>1, <2>2
<1>4. VisibleSegs(t)' = {s \in DOMAIN new : ~(new[s].dv # NoDV /\ new[s].dv \in dvFiles)}
  BY DEF VisibleSegs, Live, IsDead
<1>5. VisibleSegs(t)' = (VisibleSegs(t) \ part.marks) \cup part.adds
  <2>1. \A s \in part.adds : s \in VisibleSegs(t)'
    BY <1>2, <1>3, <1>4
  <2>2. \A s \in part.marks : s \notin VisibleSegs(t)'
    <3>1. \A s \in part.marks : <<s, part.stamp>> \in dvFiles /\ <<s, part.stamp>> # NoDV
      BY <1>2, PathIsADV DEF NewDVs
    <3> QED
      BY <1>3, <1>4, <3>1
  <2>3. \A s \in Live(t) \ part.marks : s \in VisibleSegs(t)' <=> s \in VisibleSegs(t)
    BY <1>2, <1>3, <1>4 DEF VisibleSegs, IsDead
  <2> QED
    BY <1>2, <1>4, <2>1, <2>2, <2>3 DEF VisibleSegs
<1>6. \A s \in VisibleSegs(t) \cap DOMAIN segFiles : \A m \in part.marks \cap DOMAIN segFiles :
         segFiles[s] = segFiles[m] => s = m
  <2>1. \A s \in VisibleSegs(t) : s[1] = t
    BY <1>2, LivePaths DEF VisibleSegs, StoreInv, IInv
  <2> QED
    BY <1>2, <2>1 DEF StoreInv, RowsInv
<1>7. RowsOf(VisibleSegs(t) \ part.marks) = RowsOf(VisibleSegs(t)) \ RowsOf(part.marks)
  BY <1>6 DEF RowsOf
<1>8. RowsOf(part.adds) = IF part.adds = {} THEN {} ELSE {part.stamp}
  BY <1>2 DEF RowsOf
<1>9. RowsOf(VisibleSegs(t))' = RowsOf(VisibleSegs(t) \ part.marks) \cup RowsOf(part.adds)
  BY <1>5 DEF RowsOf
<1> QED
  BY <1>7, <1>8, <1>9

\* One line of the manifest makes all of a transaction visible at once, and
\* settles what earlier failures of the table had left in doubt.
LEMMA CommitManifestStep ==
    ASSUME StoreInv, ~MultiTable, CommitManifest
    PROVE  RowsInv' /\ PhaseInv' /\ Store!StoreNext
<1> SUFFICES ASSUME NEW t, t = txn.cur, NEW part, part = txn.parts[t],
                    NEW new, new = Publish(manifest[t], part)
             PROVE  RowsInv' /\ PhaseInv' /\ Store!StoreNext
  OBVIOUS
<1>1. /\ pc = "manifest" /\ pc' = "record" /\ txn' = txn /\ clock' = clock
      /\ segFiles' = segFiles /\ dvFiles' = dvFiles
  BY DEF CommitManifest, fileVars
<1>2. /\ txn.left = {t} /\ DOMAIN txn.parts = {t} /\ t \in Tables /\ Todo' = {}
  <2>1. t \in txn.left /\ txn.left = DOMAIN txn.parts /\ \A u, v \in DOMAIN txn.parts : u = v
    BY <1>1 DEF StoreInv, PhaseInv, IInv, ProgressInv
  <2>2. DOMAIN txn.parts = {t} /\ t \in Tables
    BY <2>1, PartsOnTables DEF StoreInv, IInv
  <2> QED
    BY <1>1, <2>1, <2>2 DEF Todo
<1>3. Shrinking
  BY <1>1 DEF Shrinking
<1>4. RowsInv'
  BY <1>1, <1>2, <1>3, RowsFrame, BoundsAssumption DEF StoreInv, IInv, TypeOK
<1>5. PhaseInv'
  BY <1>1 DEF PhaseInv, StoreInv, StorePhase
<1>6. StorePhase = "pending" /\ StorePhase' = "applied"
  BY <1>1 DEF StorePhase
<1>7. StoreChange' = StoreChange
  BY <1>1 DEF StoreChange, RowsOf
<1>8. /\ StoreChange[t].gone = RowsOf(part.marks)
      /\ StoreChange[t].new = IF part.adds = {} THEN {} ELSE {part.stamp}
      /\ \A u \in Tables \ {t} : StoreChange[u].gone = {} /\ StoreChange[u].new = {}
  BY <1>2 DEF StoreChange
<1>9. ASSUME manifest' = manifest, manifestDisk' = manifestDisk, IsEmptyPart(part)
      PROVE  Store!StoreNext
  <2>1. OnlyFiles({}, {}) /\ Unnamed({}, {})
    BY <1>1, <1>9 DEF OnlyFiles, Unnamed
  <2>2. StoreContents' = StoreContents
    BY <1>9, <2>1, ReadFrame
  <2>3. \A u \in Tables : StoreChange[u].gone = {} /\ StoreChange[u].new = {}
    BY <1>8, <1>9 DEF IsEmptyPart, RowsOf
  <2>4. StoreContents' = [u \in Tables |->
                            (StoreContents[u] \ StoreChange[u].gone) \cup StoreChange[u].new]
    BY <2>2, <2>3 DEF StoreContents
  <2>5. Store!Doubting
    BY <1>3, <1>9, DoubtFrame DEF NoNewDoubt, Store!Doubting
  <2> QED
    BY <1>6, <1>7, <2>3, <2>4, <2>5 DEF Store!Apply, Store!Touched, Store!StoreNext
<1>10. ASSUME AppendLine(t, Extended(t, part, txn.ts))
       PROVE  Store!StoreNext
  <2>1. Extended(t, part, txn.ts).view = new /\ DOMAIN manifest = Tables /\ DOMAIN manifestDisk = Tables
    BY DEF Extended, Recorded, StoreInv, IInv, TypeOK
  <2>2. /\ manifest'[t] = new /\ \A c \in manifestDisk'[t] : c.view = new
        /\ \A u \in Tables \ {t} : /\ manifest'[u] = manifest[u]
                                   /\ manifestDisk'[u] = manifestDisk[u]
    BY <1>2, <1>10, <2>1 DEF AppendLine
  <2>3. RowsOf(VisibleSegs(t))' =
           (RowsOf(VisibleSegs(t)) \ StoreChange[t].gone) \cup StoreChange[t].new
    BY <1>1, <1>8, <2>2, PublishedRows
  <2>4. \A u \in Tables \ {t} : RowsOf(VisibleSegs(u))' = RowsOf(VisibleSegs(u))
    BY <1>1, <2>2 DEF RowsOf, VisibleSegs, Live, IsDead
  <2>5. StoreContents' = [u \in Tables |->
                            (StoreContents[u] \ StoreChange[u].gone) \cup StoreChange[u].new]
    BY <1>8, <2>3, <2>4 DEF StoreContents
  <2>6. StoreDoubt'[t] = {}
    <3>1. Doubtful(t)' = {}
      BY <2>2 DEF Doubtful, Differing
    <3>2. RowsOf(Doubtful(t))' = {}
      BY <3>1 DEF RowsOf
    <3> QED
      BY <1>2, <3>2, DoubtIs
  <2>7. ASSUME NEW u \in Tables \ {t}
        PROVE  StoreDoubt'[u] = StoreDoubt[u]
    <3>1. Doubtful(u)' = Doubtful(u)
      BY <2>2 DEF Doubtful
    <3>2. RowsOf(Doubtful(u))' = RowsOf(Doubtful(u))
      BY <1>1, <3>1 DEF RowsOf
    <3> QED
      BY <3>2, DoubtIs
  <2>8. Store!Doubting
    BY <2>6, <2>7 DEF Store!Doubting
  <2>9. \A u \in Tables : Store!Touched(u) # {} => StoreDoubt'[u] = {}
    BY <1>8, <2>6 DEF Store!Touched
  <2> QED
    BY <1>6, <1>7, <2>5, <2>8, <2>9 DEF Store!Apply, Store!StoreNext
<1>11. \/ IsEmptyPart(part) /\ UNCHANGED manifestVars
       \/ AppendLine(t, Extended(t, part, txn.ts))
  BY DEF CommitManifest
<1> QED
  BY <1>4, <1>5, <1>9, <1>10, <1>11 DEF manifestVars

-----------------------------------------------------------------------------
(* The theorems *)

LEMMA InitStoreInv ==
    ASSUME Workload, Init
    PROVE  StoreInv /\ Store!StoreInit
<1>1. IInv
  BY InitInv
<1>2. Todo = {} /\ StorePhase = "none" /\ DOMAIN txn.parts = {}
  BY DEF Init, Todo, StorePhase, NoTxn
<1>3. \A t \in Tables : VisibleSegs(t) = {}
  BY DEF Init, Live, VisibleSegs
<1>4. StoreInv
  BY <1>1, <1>2, <1>3 DEF StoreInv, RowsInv, PhaseInv, Init
<1>5. StoreContents = [t \in Tables |-> {}]
  BY <1>3 DEF StoreContents, RowsOf
<1>6. StoreDoubt = [t \in Tables |-> {}]
  BY DEF Init, StoreDoubt, RowsOf
<1> QED
  BY <1>2, <1>4, <1>5, <1>6, NoChange DEF Store!StoreInit

\* Every step of the commit path is a step of the store or none of it.
LEMMA StoreStep ==
    ASSUME Workload, ~MultiTable, StoreInv, [Next]_vars
    PROVE  StoreInv' /\ [Store!StoreNext]_(Store!storeVars)
<1>1. IInv'
  BY NextInv DEF StoreInv
<1>2. SUFFICES RowsInv' /\ PhaseInv' /\ (StoreSame \/ Store!StoreNext)
  BY <1>1 DEF StoreInv, StoreSame, Store!storeVars
<1>3. ASSUME NEW t \in Tables, NEW kind \in Kinds, Statement(t, kind)
      PROVE  RowsInv' /\ PhaseInv' /\ Store!StoreNext
  <2>1. PICK hit \in Hits(kind, t) :
            Execute(FALSE, [u \in {t} |-> kind], [u \in {t} |-> hit])
    BY <1>3 DEF Statement
  <2> DEFINE kinds == [u \in {t} |-> kind]
             hits == [u \in {t} |-> hit]
  <2>2. kinds \in [{t} -> Kinds] /\ \A u \in {t} : hits[u] \in Hits(kinds[u], u)
    OBVIOUS
  <2>3. {t} \in SUBSET Tables /\ FALSE \in BOOLEAN /\ \A u, v \in {t} : u = v
    OBVIOUS
  <2> HIDE DEF kinds, hits
  <2> QED
    BY <2>1, <2>2, <2>3, ExecuteStep DEF kinds, hits
<1>4. ASSUME NEW ts \in SUBSET Tables, Transaction(ts)
      PROVE  RowsInv' /\ PhaseInv' /\ Store!StoreNext
  <2>1. \A t, u \in ts : t = u
    <3>1. IsFiniteSet(ts) /\ Cardinality(ts) = 1
      BY <1>4, TablesAssumption, FS_Subset DEF Transaction
    <3>2. PICK t : ts = {t}
      BY <3>1, FS_Singleton
    <3> QED
      BY <3>2
  <2>2. PICK kinds \in [ts -> Kinds] :
           \E hits \in [ts -> SUBSET UNION {Live(t) : t \in ts}] :
              /\ \A t \in ts : hits[t] \in Hits(kinds[t], t)
              /\ Execute(TRUE, kinds, hits)
    BY <1>4 DEF Transaction
  <2>3. PICK hits \in [ts -> SUBSET UNION {Live(t) : t \in ts}] :
              /\ \A t \in ts : hits[t] \in Hits(kinds[t], t)
              /\ Execute(TRUE, kinds, hits)
    BY <2>2
  <2> QED
    BY <2>1, <2>3, ExecuteStep
<1>5. CASE Client
  BY <1>3, <1>4, <1>5 DEF Client
<1>6. ASSUME NEW s \in txn.toWrite, WriteSegment(s)
      PROVE  RowsInv' /\ PhaseInv' /\ Store!StoreNext
  BY <1>6, WriteSegmentStep DEF Store!StoreNext
<1>7. CASE \/ \E d \in txn.toMark : WriteDVAtPath(d)
           \/ BeginCommit
           \/ \E t \in txn.left : AppendIntent(t)
  BY <1>7, ProceedStep DEF Store!StoreNext
<1>8. CASE Engine
  BY <1>6, <1>7, <1>8, CommitManifestStep, AbandonStep, AppendCommitRecordStep, AcknowledgeStep
     DEF Engine
<1>9. CASE Rollback
  BY <1>9, RollbackStep
<1>10. CASE Recovery
  BY <1>10, RecoveryStep
<1>11. CASE Environment
  <2>1. CASE FailLog \/ FailManifest
    BY <2>1, AbandonStep, FailManifestStep
  <2>2. CASE ProcessCrash
    BY <2>2, CrashStep DEF ProcessCrash
  <2>3. ASSUME NEW log \in walDisk, NEW torn \in SUBSET softDVs, NEW files,
               \A t \in Tables : files[t] \in manifestDisk[t],
               PowerCrash(log, files, torn)
        PROVE  RowsInv' /\ PhaseInv' /\ Store!StoreNext
    <3>1. /\ LoseMemory /\ dvFiles' = dvFiles
          /\ \A t \in Tables : manifestDisk'[t] \subseteq manifestDisk[t]
      BY <2>3 DEF PowerCrash
    <3> QED
      BY <3>1, CrashStep
  <2> QED
    BY <1>11, <2>1, <2>2, <2>3 DEF Environment
<1>12. CASE ClientsDone \/ UNCHANGED vars
  BY <1>12, StutterStep DEF ClientsDone
<1> QED
  BY <1>5, <1>8, <1>9, <1>10, <1>11, <1>12 DEF Next

\* The invariant of the refinement: no two segment files of a table hold one row,
\* and a pending transaction kills rows that can be read and adds one younger
\* than all there are.
THEOREM StoreInvariance == Workload /\ ~MultiTable => (Spec => []StoreInv)
<1> SUFFICES ASSUME Workload, ~MultiTable PROVE Spec => []StoreInv
  OBVIOUS
<1>1. Init => StoreInv
  BY InitStoreInv
<1>2. StoreInv /\ [Next]_vars => StoreInv'
  BY StoreStep
<1> QED
  BY <1>1, <1>2, PTL DEF Spec

\* Through crashes, power losses, recovery and failing writes of the intent or
\* the manifest line, a transaction of one table takes effect at one instant (the
\* fsync of its manifest line) and for good. One whose line failed may be shown
\* by a restart, in whole or in part, until the next line of the table is there:
\* the rows it was to add or remove, and no others, are in doubt.
THEOREM CommitPathIsAtomic == Workload /\ ~MultiTable => (Spec => ImplementsAtomicStore)
<1> SUFFICES ASSUME Workload, ~MultiTable PROVE Spec => ImplementsAtomicStore
  OBVIOUS
<1>1. Init => Store!StoreInit
  BY InitStoreInv
<1>2. StoreInv /\ [Next]_vars => [Store!StoreNext]_(Store!storeVars)
  BY StoreStep
<1>3. Spec => []StoreInv
  BY StoreInvariance
<1> QED
  BY <1>1, <1>2, <1>3, PTL DEF Spec, ImplementsAtomicStore, Store!StoreSpec
=============================================================================
