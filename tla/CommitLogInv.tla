---------------------------- MODULE CommitLogInv ----------------------------
(***************************************************************************)
(* The inductive invariant behind the safety of the commit path. It says   *)
(* of every intent that any crash could present to recovery, and of every  *)
(* manifest that it could present along with it, what makes the intent     *)
(* safe to resolve, and of the transaction in flight what makes it safe to *)
(* publish or to give up.                                                  *)
(***************************************************************************)
EXTENDS CommitLog

\* The workload the invariant holds for. A DELETE logs an intent without new
\* segments, and a failure after the manifest record makes the engine remove
\* files the manifest refers to: each breaks SnapshotIntact.
Workload == /\ Kinds \subseteq {"insert", "update"}
            /\ FaultAt \subseteq {"intent", "manifest"}

Recovering == pc \in {"recover", "roll", "unwind", "mark"}
Committing == pc \in {"intent", "manifest", "record"}
Busy == pc = "stage" \/ Committing

\* A part as a statement of the workload stages it for table t.
PartOf(part, t) ==
    /\ part \in Part
    /\ \A s \in part.adds \cup part.marks : s[1] = t
    /\ \A s, u \in part.adds : s = u
    /\ part.marks # {} => part.adds # {}

\* The DV is in use, or a restart may find that it is.
Referenced(d) == \E t \in Tables : \E view \in Views(t) :
                    \E s \in DOMAIN view : view[s].dv = d

\* The tables of the transaction that are still to be published.
Todo == CASE pc = "stage" -> DOMAIN txn.parts
          [] pc \in {"intent", "manifest"} -> txn.left
          [] pc = "record" -> txn.left \ {txn.cur}
          [] OTHER -> {}

-----------------------------------------------------------------------------
(* The manifests *)

\* The ids in use have an upper end, which is what Open looks for.
HasTop(view) == \E n \in {0} \cup {s[2] + 1 : s \in DOMAIN view} :
                   \A s \in DOMAIN view : s[2] < n

\* A DV belongs to its segment and is older than the next statement; the
\* counter is beyond every id in use, from the moment Open has computed it.
ManifestInv ==
    \A t \in Tables :
        /\ \A view \in Views(t) :
              /\ HasTop(view)
              /\ \A s \in DOMAIN view : LET d == view[s].dv
                                        IN  d # NoDV => d[1] = s /\ d[2] < clock
        /\ pc # "down" => \A s \in Live(t) : s[2] < segCount[t]

\* A view's entries from appends that did not fail have their files.
HasFiles(t, view) ==
    \A s \in DOMAIN view :
        /\ Promised(t, view[s].row) =>
              s \in DOMAIN segFiles /\ segFiles[s] = view[s].row
        /\ LET d == view[s].dv
           IN  d # NoDV /\ Promised(t, d[2]) => d \in dvFiles

\* What the views of a table do not have in common came from appends that
\* failed.
Settled(t) ==
    \A v, w \in Views(t) : \A s \in DOMAIN v :
        Promised(t, v[s].row) => s \in DOMAIN w

FilesInv == \A t \in Tables : /\ \A view \in Views(t) : HasFiles(t, view)
                              /\ Settled(t)

TimestampInv ==
    /\ pc # "down" => \A t \in Tables : manifestTs[t] <= nextCommitTs
    /\ Committing => /\ txn.id = nextTxnID /\ txn.ts = nextCommitTs
                     /\ \A t \in Todo : manifestTs[t] < txn.ts

-----------------------------------------------------------------------------
(* The transaction in flight *)

PartsInv ==
    Busy => /\ \A t \in DOMAIN txn.parts : /\ PartOf(txn.parts[t], t)
                                           /\ txn.parts[t].stamp + 1 = clock
            /\ ~txn.isTx => \A t, u \in DOMAIN txn.parts : t = u

\* What is still to be published is new to the manifest, and on disk unless it
\* is still to be written.
StagedInv ==
    \A t \in Todo : LET part == txn.parts[t] IN
        /\ \A s \in part.adds :
              /\ s \notin Live(t) /\ s[2] < segCount[t]
              /\ \/ s \in txn.toWrite
                 \/ s \in DOMAIN segFiles /\ segFiles[s] = part.stamp
        /\ \A d \in NewDVs(part) : /\ ~Referenced(d)
                                   /\ d \in txn.toMark \cup dvFiles

ProgressInv ==
    /\ pc = "stage" => \A s \in txn.toWrite : \E t \in DOMAIN txn.parts :
                          s \in txn.parts[t].adds
    /\ Committing => txn.toWrite = {} /\ txn.toMark = {}
    /\ pc \in {"manifest", "record"} => txn.cur \in txn.left
    /\ pc \in {"intent", "manifest"} /\ ~txn.isTx => txn.left = DOMAIN txn.parts

-----------------------------------------------------------------------------
(* The log *)

\* Whatever manifest recovery finds with the intent, and whatever it decides, it
\* removes nothing in use: with a DV of the intent goes its segment.
Resolvable(intent) ==
    \A view \in Views(intent.table) :
        (\E s \in DOMAIN view : view[s].dv \in NewDVs(intent.part)) =>
            \E s \in intent.part.adds \cap DOMAIN view :
                view[s].row = intent.part.stamp

\* This holds of every content a crash may leave the log with.
LogInv ==
    \A log \in walDisk : \A i \in PendingIntents(log) :
        /\ PartOf(log[i].part, log[i].table)
        /\ log[i].part.stamp < clock
        /\ Resolvable(log[i])
        /\ \A j \in PendingIntents(log) : log[j].txnID = log[i].txnID => j = i

\* An intent of an earlier transaction, and the one just logged.
Earlier(r) == r.txnID < txn.id /\ r.part.stamp + 1 < clock
Current(r) == /\ r.txnID = txn.id /\ r.table = txn.cur
              /\ r.part = txn.parts[txn.cur]

PendingInv ==
    /\ pc \in {"idle", "stage", "truncate"} =>
          \A i \in PendingIntents(wal) : wal[i].txnID <= nextTxnID
    /\ pc = "stage" => \A i \in PendingIntents(wal) : wal[i].part.stamp + 1 < clock
    /\ pc = "intent" => \A i \in PendingIntents(wal) : Earlier(wal[i])
    /\ pc \in {"manifest", "record"} =>
          \A i \in PendingIntents(wal) : Earlier(wal[i]) \/ Current(wal[i])
    /\ pc = "manifest" => walDisk = {wal}

RecoveryInv ==
    /\ Recovering => /\ PendingIntents(wal) = pending \cup group
                     /\ pending \cap group = {}
    /\ ~Recovering => pending = {} /\ group = {}
    /\ pc = "recover" => group = {}
    /\ \A i, j \in group : i = j
    /\ pc = "roll" => \A i \in group : IsCommitted(wal[i])
    /\ pc = "unwind" => \A i \in group : ~IsCommitted(wal[i])

IInv == /\ TypeOK /\ FilesInv
        /\ ManifestInv /\ TimestampInv
        /\ PartsInv /\ StagedInv /\ ProgressInv
        /\ LogInv /\ PendingInv /\ RecoveryInv

-----------------------------------------------------------------------------
(* The rows, for the refinement of AtomicStore *)

\* No two files of a table hold one row, and rows are older than the next
\* statement. What is still to be published kills visible rows only, and the row
\* it adds is younger than all there are.
RowsInv ==
    /\ \A s \in DOMAIN segFiles :
          /\ segFiles[s] < clock
          /\ \A u \in DOMAIN segFiles : s[1] = u[1] /\ segFiles[s] = segFiles[u] => s = u
    /\ \A t \in Todo : LET part == txn.parts[t] IN
          /\ part.marks \subseteq VisibleSegs(t)
          /\ \A s \in DOMAIN segFiles :
                s[1] = t /\ s \notin part.adds => segFiles[s] < part.stamp

\* There is a transaction only while it is pending or applied, the DVs it has
\* still to write are its own, and one of a single table has that table to
\* publish until it is published.
PhaseInv ==
    /\ StorePhase = "none" => DOMAIN txn.parts = {}
    /\ pc = "stage" => \A d \in txn.toMark : \E t \in DOMAIN txn.parts : d \in NewDVs(txn.parts[t])
    /\ ~MultiTable => /\ \A t, u \in DOMAIN txn.parts : t = u
                      /\ pc \in {"intent", "manifest"} => txn.left = DOMAIN txn.parts

StoreInv == IInv /\ RowsInv /\ PhaseInv
=============================================================================
