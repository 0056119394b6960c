--------------------------- MODULE MCTransactions ---------------------------
(* Transactions on three keys. *)
EXTENDS Transactions, TLC

CONSTANTS k1, k2, k3

MCKeys == {k1, k2, k3}
Symmetry == Permutations(MCKeys)
=============================================================================
