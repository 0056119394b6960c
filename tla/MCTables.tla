------------------------------ MODULE MCTables ------------------------------
(* What several tables have to do with each other: a transaction commits to   *)
(* two of them through the log, or DDL changes the catalog that lists them.   *)
(* One of the two runs in a behaviour.                                        *)
EXTENDS Catalog, CommitLogInv, TLC

CONSTANTS t1, t2, x, y

VARIABLE level   \* which of them runs

MCTables == {t1, t2}
Symmetry == Permutations(MCTables)
EarlyFaults == {"intent", "manifest"}
InsertUpdate == {"insert", "update"}
TwoColumns == <<x, y>>

allVars == <<level, catalogVars, vars>>

Commits == level = "commits" /\ UNCHANGED <<level, catalogVars>>
Schema == level = "schema" /\ UNCHANGED <<level, vars>>

MCInit == /\ level \in {"commits", "schema"} /\ Init /\ CatalogInit
          /\ level = "commits" => disk.json = {}

MCNext ==
    \/ Commits /\ Next
    \/ Schema /\ \E n \in TypeNames : RegisterType(n)
    \/ Schema /\ \E t \in TableNames : RegisterTable(t)
    \/ Schema /\ \E t \in TableNames, n, to \in ColumnNames : RenameColumn(t, n, to)
    \/ Schema /\ \E t \in TableNames, n \in ColumnNames : DropColumn(t, n)
    \/ Schema /\ \E t \in TableNames, n \in ColumnNames, type \in {"int32"} \cup TypeNames : AddColumn(t, n, type)
    \/ Schema /\ \E t \in TableNames, n \in ColumnNames, type \in ColumnTypes : AlterColumnType(t, n, type)
    \/ Schema /\ WriteTmp
    \/ Schema /\ RenameToBak
    \/ Schema /\ RenameToTarget
    \/ Schema /\ SyncDirectory
    \/ Schema /\ SaveFault
    \/ Schema /\ OpenManifest
    \/ Schema /\ ManifestFails
    \/ Schema /\ \E t \in TableNames : Query(t)
    \/ Schema /\ \E t \in TableNames : Insert(t)
    \/ Schema /\ ProcessStop
    \/ Schema /\ LosePower
    \/ Schema /\ OpenDB

MCSpec == MCInit /\ [][MCNext]_allVars
=============================================================================
