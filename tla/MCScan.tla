------------------------------- MODULE MCScan -------------------------------
(* Scan with words of four bits, one or two columns and a few values at the   *)
(* limits of the words.                                                       *)
EXTENDS Scan

v == [name |-> "v", id |-> 1, kind |-> "int64", default |-> Null]
n == [name |-> "v", id |-> 1, kind |-> "int32", default |-> Null]
w == [name |-> "w", id |-> 2, kind |-> "text", default |-> Null]

MCFirstColumns == {<<v>>, <<n>>, <<v, w>>}
MCCellsOf == [int32 |-> {-2, Null}, int64 |-> {-8, -3, Null}, text |-> {0, 1, Null}]
MCDefaults == [int32 |-> {}, int64 |-> {Null, -3}, text |-> {Null, 1}]
MCLiterals == [int32 |-> {}, int64 |-> {-3}, text |-> {1}]
MCLimits == {<<"le", 7>>, <<"ge", -8>>, <<"eq", -8>>}
=============================================================================
