----------------------------- MODULE MCQueries -----------------------------
(* Queries at three levels, one of them in a behaviour: the reading of one    *)
(* table with words of four bits, the goroutines of one scan, and the         *)
(* statements that are planned and run over inserted rows.                    *)
EXTENDS ScanWorkers, StoredTable

CONSTANTS Literals, Limits,                               \* of Scan
          Err, StatementNarrowBits, ChunkRows, HeapMax,   \* of Execution
          Catalog, Statements, Inserts, MaxSegments, FailsAfter

VARIABLES level, db, plan, answer

E == INSTANCE Execution WITH NarrowBits <- StatementNarrowBits
S == INSTANCE Samples WITH NarrowBits <- StatementNarrowBits, Catalog <- <<>> \* which no sample reads
R == INSTANCE Scan

ASSUME TableAssumptions == NullAssumption /\ WidthAssumption /\ TableAssumption
ASSUME StatementAssumptions == E!ValuesAssumption /\ E!WidthAssumption /\ E!ChunkAssumption

TwoTables == S!TwoTables
AllStatements == S!AllStatements
SomeInserts == S!SomeInserts
TwoAndOne == S!TwoAndOne

v == [name |-> "v", id |-> 1, kind |-> "int64", default |-> Null]
n == [name |-> "v", id |-> 1, kind |-> "int32", default |-> Null]
w == [name |-> "w", id |-> 2, kind |-> "text", default |-> Null]

MCFirstColumns == {<<v>>, <<n>>, <<v, w>>}
MCCellsOf == [int32 |-> {-2, Null}, int64 |-> {-8, -3, Null}, text |-> {0, 1, Null}]
MCDefaults == [int32 |-> {}, int64 |-> {Null, -3}, text |-> {Null, 1}]
MCLiterals == [int32 |-> {}, int64 |-> {-3}, text |-> {1}]
MCLimits == {<<"le", 7>>, <<"ge", -8>>, <<"eq", -8>>}

MCSegments == <<2, 1, 1, 1>>

statementVars == <<db, plan, answer>>
allVars == <<level, vars, statementVars, tableVars>>

Scans == level = "scan" /\ UNCHANGED <<level, statementVars, tableVars>>
Runs == level = "statement" /\ UNCHANGED <<level, vars, tableVars>>
Reads == level = "table" /\ UNCHANGED <<level, vars, statementVars>>

MCInit == /\ level \in {"scan", "statement", "table"}
          /\ Init /\ E!Init /\ TableInit
          /\ level # "table" => columns = <<v>>

MCNext ==
    \/ Scans /\ \E i \in Workers : Load(i)
    \/ Scans /\ \E i \in Workers : Send(i)
    \/ Scans /\ \E i \in Workers : SeeCancel(i)
    \/ Scans /\ \E i \in Workers : Fail(i)
    \/ Scans /\ \E i \in Workers : Report(i)
    \/ Scans /\ \E i \in Workers : Finish(i)
    \/ Scans /\ CloseOut
    \/ Scans /\ Receive
    \/ Scans /\ ReceiveEnd
    \/ Scans /\ ReceiveCancelled
    \/ Scans /\ Close
    \/ Scans /\ Drain
    \/ Scans /\ DrainEnd
    \/ Scans /\ CancelQuery
    \/ Runs /\ \E t \in DOMAIN Catalog : \E segment \in Inserts[t] : E!Insert(t, segment)
    \/ Runs /\ \E stmt \in Statements : E!Prepare(stmt)
    \/ Runs /\ E!Execute
    \/ Reads /\ Insert
    \/ Reads /\ Delete
    \/ Reads /\ AddColumn
    \/ Reads /\ RenameColumn
    \/ Reads /\ DropColumn
    \/ Reads /\ WidenColumn

\* The fairness of ScanWorkers!FairSpec.
MCSpec == /\ MCInit /\ [][MCNext]_allVars
          /\ \A i \in Workers : WF_allVars(Worker(i) /\ Scans)
          /\ WF_allVars(CloseOut /\ Scans)
          /\ WF_allVars((Receive \/ ReceiveEnd \/ ReceiveCancelled \/ Drain \/ DrainEnd) /\ Scans)
          /\ WF_allVars(pc = "answered" /\ Close /\ Scans)

\* Close of a scan always returns.
ScanCloseReturns == level = "scan" => CloseReturns
\* A statement answers with the rows it means, whichever way its plan takes.
AnswersExact == E!AnswersExact
\* A statement fails only when a read did or it has no value.
ErrorsAccounted == E!ErrorsAccounted
\* Skipping segments and pages and evaluating on encoded values loses no row and adds none.
ScanExact == level = "table" => R!ScanExact
=============================================================================
