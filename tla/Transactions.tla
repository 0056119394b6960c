---------------------------- MODULE Transactions ----------------------------
(***************************************************************************)
(* What the statements of a Tx see and stage, on one table. INSERT, DELETE *)
(* and UPDATE are the same functions inside a Tx and outside it: they read *)
(* the committed snapshot and hand new segments and new deletion vectors   *)
(* (DVs) to a commit function, which publishes them at once or appends     *)
(* them to the pending lists of the Tx. A query of the Tx lays those lists *)
(* over the snapshot.                                                      *)
(*                                                                         *)
(* The Tx holds db.mu from BeginTx to its end, so nothing else runs while  *)
(* it is open and its read timestamp is the latest one. A row is a key and *)
(* the number of the statement that wrote it; a WHERE picks rows by key.   *)
(***************************************************************************)
EXTENDS Naturals, Sequences, FiniteSets, SequencesExt

CONSTANTS
    Keys,            \* row keys
    MaxStatements    \* bound: statements run

KeysAssumption == IsFiniteSet(Keys)
StatementsAssumption == MaxStatements \in Nat

VARIABLES
    files,      \* segment files: id -> the rows in the file
    dvs,        \* DV files: id -> the rows it marks deleted
    view,       \* the committed snapshot: segment id -> DV id or NoVector
    tx,         \* the open Tx, if any
    expected,   \* history: the rows the statements so far should leave
    committed,  \* history: expected, when the last commit was done
    blind,      \* history: a DELETE or UPDATE ran in a Tx that had already
                \* staged changes, which it does not look at
    ran         \* statements run: they name rows, segments and DVs

txVars == <<files, dvs, view, tx, expected, committed, blind, ran>>

NoVector == <<>>
Row == [key : Keys, by : 1 .. MaxStatements]

NoTx == [open |-> FALSE, adds |-> <<>>, updates |-> <<>>, found |-> {},
         wasBlind |-> FALSE]

-----------------------------------------------------------------------------
(* Views *)

Dead(dv) == IF dv = NoVector THEN {} ELSE dvs[dv]
LiveRows(v, s) == files[s] \ Dead(v[s])

\* The rows of a view, each with the segment it is read from.
Read(v) == UNION {{<<s, r>> : r \in LiveRows(v, s)} : s \in DOMAIN v}

\* The DV of segment s after a list of DV updates: the last one for it wins.
LastDV(updates, s, old) ==
    FoldLeft(LAMBDA dv, u : IF u.seg = s THEN u.dv ELSE dv, old, updates)

\* Mutant: the first DV update of a segment wins.
OverlayBug(v, t) ==
    [s \in DOMAIN v \cup ToSet(t.adds) |->
        IF s \in DOMAIN v THEN LastDV(Reverse(t.updates), s, v[s]) ELSE NoVector]

\* Tx.resolveSegments: the snapshot with pending DVs in place of its own, then
\* the pending files without a DV.
Overlay(v, t) ==
    [s \in DOMAIN v \cup ToSet(t.adds) |->
        IF s \in DOMAIN v THEN LastDV(t.updates, s, v[s]) ELSE NoVector]

\* Manifest.Commit and Snapshot: the adds enter the view, then each DV update
\* finds its segment.
Publish(v, adds, updates) ==
    [s \in DOMAIN v \cup ToSet(adds) |->
        LastDV(updates, s, IF s \in DOMAIN v THEN v[s] ELSE NoVector)]

-----------------------------------------------------------------------------
TxInit ==
    /\ files = <<>> /\ dvs = <<>> /\ view = <<>>
    /\ tx = NoTx /\ expected = {} /\ committed = {} /\ blind = FALSE /\ ran = 0

Files == <<DOMAIN files, DOMAIN dvs>>

BeginTx ==
    /\ ~tx.open
    /\ tx' = [NoTx EXCEPT !.open = TRUE, !.found = Files,
                          !.wasBlind = blind]
    /\ UNCHANGED <<files, dvs, view, expected, committed, blind, ran>>

\* Writes the files of a statement and calls its commit function: tx.commit,
\* which appends to the pending lists, or the one that publishes at once.
Stage(newSegs, newDVs, adds, updates) ==
    /\ files' = [s \in DOMAIN files \cup DOMAIN newSegs |->
                      IF s \in DOMAIN newSegs THEN newSegs[s] ELSE files[s]]
    /\ dvs' = [d \in DOMAIN dvs \cup DOMAIN newDVs |->
                 IF d \in DOMAIN newDVs THEN newDVs[d] ELSE dvs[d]]
    /\ IF tx.open
       THEN /\ tx' = [tx EXCEPT !.adds = @ \o adds, !.updates = @ \o updates]
            /\ UNCHANGED <<view, committed>>
       ELSE /\ view' = Publish(view, adds, updates)
            /\ committed' = expected'
            /\ UNCHANGED tx
    /\ ran' = ran + 1

Insert(keys) ==
    LET stmt == ran + 1
        rows == {[key |-> k, by |-> stmt] : k \in keys}
    IN  /\ ran < MaxStatements
        /\ keys # {}
        /\ expected' = expected \cup rows
        /\ Stage([s \in {stmt} |-> rows], <<>>, <<stmt>>, <<>>)
        /\ UNCHANGED blind

\* versionedDVPath: the path of a DV names its segment and when it was written.
DVId(stmt, s) == <<stmt, s>>

\* Mutant: the new DV marks only the rows this statement hits.
RewriteDVsBug(stmt, hits) ==
    [d \in {DVId(stmt, s) : s \in DOMAIN hits} |-> hits[d[2]]]

\* DELETE and UPDATE write a DV for each segment with rows they hit: the old
\* dead rows and the new ones.
RewriteDVs(stmt, hits) ==
    [d \in {DVId(stmt, s) : s \in DOMAIN hits} |-> Dead(view[d[2]]) \cup hits[d[2]]]

\* The DV updates of a statement: one for each segment, so that their order is
\* of no account.
Updates(stmt, hits) ==
    LET segs == SetToSeq(DOMAIN hits)
    IN  [i \in DOMAIN segs |-> [seg |-> segs[i], dv |-> DVId(stmt, segs[i])]]

\* The live rows of the committed snapshot that match, per segment with any.
HitsOf(keys) ==
    [s \in {s \in DOMAIN view : \E r \in LiveRows(view, s) : r.key \in keys} |->
        {r \in LiveRows(view, s) : r.key \in keys}]

IsBlind == tx.adds # <<>> \/ tx.updates # <<>>

Delete(keys) ==
    LET stmt == ran + 1
        hits == HitsOf(keys)
    IN  /\ ran < MaxStatements
        /\ expected' = {r \in expected : r.key \notin keys}
        /\ Stage(<<>>, RewriteDVs(stmt, hits), <<>>, Updates(stmt, hits))
        /\ blind' = (blind \/ IsBlind)

\* UPDATE also writes the new versions of the rows it hits to one new segment.
Update(keys) ==
    LET stmt == ran + 1
        hits == HitsOf(keys)
        rows == {[r EXCEPT !.by = stmt] : r \in UNION {hits[s] : s \in DOMAIN hits}}
        new == IF rows = {} THEN {} ELSE {stmt}
    IN  /\ ran < MaxStatements
        /\ expected' = {IF r.key \in keys THEN [r EXCEPT !.by = stmt] ELSE r :
                          r \in expected}
        /\ Stage([s \in new |-> rows], RewriteDVs(stmt, hits),
                 SetToSeq(new), Updates(stmt, hits))
        /\ blind' = (blind \/ IsBlind)

CommitTx ==
    /\ tx.open
    /\ view' = Publish(view, tx.adds, tx.updates)
    /\ committed' = expected
    /\ tx' = NoTx
    /\ UNCHANGED <<files, dvs, expected, blind, ran>>

\* Mutant: only the segments are removed.
RollbackBug ==
    /\ tx.open
    /\ files' = [s \in DOMAIN files \ ToSet(tx.adds) |-> files[s]]
    /\ tx' = NoTx
    /\ expected' = committed /\ blind' = tx.wasBlind
    /\ UNCHANGED <<dvs, view, committed, ran>>

\* Removes tx.files: every staged segment and every staged DV.
Rollback ==
    /\ tx.open
    /\ files' = [s \in DOMAIN files \ ToSet(tx.adds) |-> files[s]]
    /\ dvs' = [d \in DOMAIN dvs \ {tx.updates[i].dv : i \in DOMAIN tx.updates} |->
                 dvs[d]]
    /\ tx' = NoTx
    /\ expected' = committed /\ blind' = tx.wasBlind
    /\ UNCHANGED <<view, committed, ran>>

\* Inserted keys are new to the table, so that its rows form a set.
FreshKeys == Keys \ {r.key : r \in expected}

Statement ==
    \/ \E keys \in SUBSET FreshKeys : Insert(keys)
    \/ \E keys \in SUBSET Keys : Delete(keys)
    \/ \E keys \in SUBSET Keys : Update(keys)

\* The bound on statements is reached.
ClientsDone == ran = MaxStatements /\ ~tx.open /\ UNCHANGED txVars

TxNext == Statement \/ BeginTx \/ CommitTx \/ Rollback \/ ClientsDone

TxSpec == TxInit /\ [][TxNext]_txVars

-----------------------------------------------------------------------------
(* Properties *)

TxTypeOK ==
    /\ \A s \in DOMAIN files : s \in 1 .. MaxStatements /\ files[s] \subseteq Row
    /\ \A d \in DOMAIN dvs : dvs[d] \subseteq Row
    /\ DOMAIN view \subseteq DOMAIN files
    /\ \A s \in DOMAIN view : view[s] = NoVector \/ view[s] \in DOMAIN dvs
    /\ tx.open \in BOOLEAN
    /\ expected \subseteq Row /\ committed \subseteq Row

\* The rows read are the expected ones, each from one segment only.
Exactly(read, rows) == /\ {x[2] : x \in read} = rows
                       /\ Cardinality(read) = Cardinality(rows)

\* A query inside the Tx sees the rows its statements, run one after the other
\* on the table as it was, should have left.
ReadYourWrites == tx.open => Exactly(Read(Overlay(view, tx)), expected)

\* As long as no DELETE or UPDATE of a Tx came after another change of the Tx,
\* both hold: a query inside the Tx sees what its statements should have left,
\* and a query once no Tx is open what the committed statements, in their order,
\* should have left: none of a rolled back Tx, all of the others.
OneRewriteExact ==
    ~blind => /\ ReadYourWrites
              /\ ~tx.open => Exactly(Read(view), committed)

\* Whatever the statements of the Tx did to each other, Commit publishes what
\* the Tx itself last saw: the overlay and the manifest resolve alike.
CommitPublishesOverlay ==
    [][(tx.open /\ view' # view) => Read(view)' = Read(Overlay(view, tx))]_txVars

\* A Tx that ends without changing the snapshot leaves no file behind, unless
\* it committed statements that matched nothing.
RollbackLeavesNoFile ==
    [][(tx.open /\ ~tx'.open /\ view' = view) => Files' = tx.found]_txVars
=============================================================================
