---------------------------- MODULE MCCommitLog ----------------------------
(* CommitLog on small instances. The cfg files choose the statements, the    *)
(* kinds of crash and the steps that may fail.                               *)
EXTENDS CommitLogInv, TLC

CONSTANTS t1, t2

MCTables == {t1, t2}

\* The tables are interchangeable.
Symmetry == Permutations(MCTables)

NoFaults == {}
EarlyFaults == {"intent", "manifest"}

Inserts == {"insert"}
InsertUpdate == {"insert", "update"}
AllStatements == {"insert", "update", "delete"}
=============================================================================
