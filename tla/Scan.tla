-------------------------------- MODULE Scan --------------------------------
(***************************************************************************)
(* Reading a stored table with a WHERE clause: what of the clause is       *)
(* pushed into storage.Scan, which segments and pages it skips there, and  *)
(* what it does about columns a segment lacks. A query is an operator, and *)
(* the properties compare it with a plain reading of all rows.             *)
(***************************************************************************)
EXTENDS StoredTable, Predicate

CONSTANTS
    Literals,     \* per kind, what WHERE clauses compare a column with
    Limits        \* comparisons of an int64 column with limits of the words

-----------------------------------------------------------------------------
(* The WHERE clauses that are asked: every comparison, some negated, and some *)
(* pairs, of one column and of both.                                          *)

Asked(cols, ops) ==
    UNION {{Cmp(op, c, lit) : op \in ops, lit \in Literals[c.kind]} : c \in ToSet(cols)}

Wheres(cols) ==
    LET all == Asked(cols, {"eq", "ne", "lt", "le", "gt", "ge"})
        some == Asked(cols, {"lt", "ge"})
        pairs == {ab \in some \X some : IF ab[1].id = ab[2].id
                                        THEN ab[1].cmp = "lt" /\ ab[2].cmp = "ge"
                                        ELSE ab[1].id < ab[2].id /\ ab[1].cmp = "lt"}
    IN all \cup {Not(e) : e \in {x \in all : x.cmp \in {"eq", "ge"}}}
       \cup {Cmp(l[1], c, l[2]) : l \in Limits, c \in {x \in ToSet(cols) : x.kind = "int64"}}
       \cup UNION {{And(ab[1], ab[2]), Or(ab[1], ab[2]), Not(Or(ab[1], ab[2]))} : ab \in pairs}

-----------------------------------------------------------------------------
(* SELECT <outputs> WHERE <where>.                                            *)

Table == [pos \in Positions |-> [id \in ColumnIds |-> Value(pos, id)]]

\* The columns handed to Scan with kind and default: those only the predicate
\* reads are left out when all of the clause is pushed.
ScanColumns(where, outputs) ==
    IF where # Nothing /\ Residual(where) = <<>> THEN outputs ELSE outputs \cup ColumnsOf(where)

\* What a decoded batch holds: the cell, found by id, or the synthetic value.
Decoded(pos, given) ==
    [id \in ColumnIds |-> IF id \in given \/ ById(segments[pos[1]], id) # 0 THEN Value(pos, id) ELSE Null]

\* Which of its rows a page contributes: none, all, those the encoded values
\* tell, or those the decoded values tell. The encoded values are looked at
\* when that saves decoding a column, or a text is compared for equality.
PageRows(s, p, pred, given) ==
    LET seg == segments[s]
        rows == DOMAIN seg.cols[1].pages[p]
        worthIt == \/ \E leaf \in LeavesOf(pred) : leaf.id \notin given
                   \/ pred.op = "leaf" /\ pred.leaf.kind = "text" /\ pred.leaf.op = "eq"
        encoded == worthIt /\ pred.op = "leaf" /\ Handles(seg, p, pred.leaf)
    IN IF SkipsPage(seg, p, pred) THEN {}
       ELSE CASE MatchesPage(seg, p, pred) -> rows
              [] ~MatchesPage(seg, p, pred) /\ encoded -> EncodedRows(seg, p, pred.leaf)
              [] OTHER -> {r \in rows : Eval(pred, Decoded(<<s, <<p, r>>>>, given))}

SegmentRows(s, pred, given) ==
    LET seg == segments[s]
    IN IF Truth(seg, pred, [id \in given |-> ColumnOf(id).default]) = "false" \/ SkipsSegment(seg, pred)
       THEN {}
       ELSE {<<p, r>> \in LiveRows(seg) : r \in PageRows(s, p, pred, given)}

Select(where, given, outputs) ==
    LET pred == Pushed(where)
        residual == Residual(where)
        scanned == IF pred = Nothing THEN Positions
                   ELSE UNION {{s} \X SegmentRows(s, pred, given) : s \in DOMAIN segments}
    IN [pos \in {x \in scanned : \A i \in DOMAIN residual : Holds(residual[i], Decoded(x, given))} |->
           Restrict(Decoded(pos, given), outputs)]

-----------------------------------------------------------------------------
(* Where the shortcuts can be relied on, as in StoredTable.                   *)

Lacked == {id \in ColumnIds : Lacking(id) # {}}

\* A column some segment lacks: the predicate must find out that it is an
\* integer NULL even when it is not given its kind and default, and once there
\* is a predicate no other column may have to be made up.
AbsenceHandled(where, given) == where # Nothing =>
    /\ \A id \in Lacked \cap (ColumnsOf(where) \ given) :
          ColumnOf(id).default = Null /\ ColumnOf(id).kind # "text"
    /\ Pushed(where) # Nothing =>
          Lacked \cap given \subseteq {leaf.id : leaf \in LeavesOf(Pushed(where))}

Reliable == {id \in ColumnIds : FullyAnalyzed(id) /\ NotShadowed(id) /\ NotWidened(id)}

-----------------------------------------------------------------------------
(* Properties *)

\* Whatever is skipped, matched wholesale or evaluated on encoded values, a
\* SELECT returns the rows and values a plain reading returns.
ScanExact ==
    LET table == Table
        reliable == Reliable
    IN \A where \in {q \in Wheres(columns) \cup {Nothing} : ColumnsOf(q) \subseteq reliable} :
       LET kept == {pos \in DOMAIN table : where = Nothing \/ Holds(where, table[pos])}
       IN \A outputs \in SUBSET ColumnIds \ {{}} :
             LET given == ScanColumns(where, outputs)
             IN AbsenceHandled(where, given) =>
                   Select(where, given, outputs) = [pos \in kept |-> Restrict(table[pos], outputs)]

\* "Skips reports whether no row in seg can satisfy p" (storage/pred.go): a
\* segment that holds the columns of a predicate and is skipped has no row
\* that satisfies it. The code skips rows of pages that hold a NULL.
SkipsSound ==
    \A where \in Wheres(columns), s \in DOMAIN segments :
        LET seg == segments[s]
            pred == Pushed(where)
            row(pos) == [id \in ColumnIds |-> Cell(seg.cols[ById(seg, id)], pos)]
        IN /\ pred # Nothing
           /\ \A id \in ColumnIds : s \notin Lacking(id) /\ NotWidened(id)
           /\ SkipsSegment(seg, pred)
           => \A pos \in SegRows(seg) : ~Eval(pred, row(pos))
=============================================================================
