--------------------------- MODULE MCSegmentCache ---------------------------
(* One table, joined with itself at two timestamps. *)
EXTENDS SegmentCache

A == [table |-> "a", asOf |-> Unnamed]
Old == [table |-> "a", asOf |-> 1]

MCTables == {"a"}
MCQueries == {<<[from |-> <<A, Old>>, correlated |-> <<>>]>>}
=============================================================================
