------------------------------- MODULE Stream ------------------------------
(***************************************************************************)
(* What flows between operators, and the operators that pass batches on.   *)
(*                                                                         *)
(* A stream is the batches that Next returns with a row selected, in       *)
(* order, and how it ends: "end" or "error". ProjectOp builds every batch  *)
(* in one array of columns: batches of one array that are kept until later *)
(* all show the columns written last.                                      *)
(***************************************************************************)
EXTENDS Filter

CONSTANTS ChunkRows \* vector.StandardBatchRows

ChunkAssumption == ChunkRows \in Nat \ {0}

\* The numbers of a set, from 1 up.
Ascending(S) == IF S = {} THEN <<>> ELSE SelectSeq([i \in 1..Max(S) |-> i], LAMBDA i : i \in S)

Stream(batches) == [batches |-> batches, end |-> "end"]
Broken(batches) == [batches |-> batches, end |-> "error"]

\* A stage that works batch by batch stops at the first that fails.
Staged(made, end) ==
    LET failed == {i \in DOMAIN made : made[i] = Err}
    IN IF failed = {} THEN [batches |-> made, end |-> end]
       ELSE Broken(SubSeq(made, 1, Min(failed) - 1))

\* One stream after the other, up to the first that fails.
UpTo(parts, last) == [batches |-> FlattenSeq([i \in 1..last |-> parts[i].batches]), end |-> parts[last].end]
Following(parts) == UpTo(parts, Min({Len(parts)} \cup {i \in DOMAIN parts : parts[i].end = "error"}))

NonEmpty(stream) == [stream EXCEPT !.batches = SelectSeq(@, LAMBDA b : b.sel # {})]

\* The batches as an operator that kept them finds them when all have arrived.
Held(batches) ==
    [i \in DOMAIN batches |->
        LET last == Max({j \in DOMAIN batches : batches[j].array = batches[i].array})
        IN IF batches[i].array = Own THEN batches[i]
           ELSE [batches[i] EXCEPT !.cols = batches[last].cols, !.rows = batches[last].rows]]

\* The selected rows of all batches as <<batch, row>>, in order of arrival.
Refs(batches) ==
    FlattenSeq([i \in DOMAIN batches |->
        LET sel == Ascending(batches[i].sel)
        IN [j \in DOMAIN sel |-> <<i, sel[j]>>]])

RefsFit(batches) == \A i \in DOMAIN batches : batches[i].sel \subseteq DOMAIN batches[i].rows
RowAt(batches, ref) == batches[ref[1]].rows[ref[2]]
ValueAt(e, batches, ref) == Eval(e, batches[ref[1]].cols, RowAt(batches, ref))

\* NewBatch refuses two columns of one name. Rows are cut into chunks.
Distinct(cols) == \A i, j \in DOMAIN cols : cols[i].name = cols[j].name => i = j
Chunks(rows) == [c \in 1..((Len(rows) + ChunkRows - 1) \div ChunkRows) |->
                    SubSeq(rows, (c - 1) * ChunkRows + 1, Min({c * ChunkRows, Len(rows)}))]
Emitted(cols, rows) ==
    IF rows = <<>> THEN Stream(<<>>)
    ELSE IF ~Distinct(cols) THEN Broken(<<>>)
    ELSE LET chunks == Chunks(rows) IN Stream([c \in DOMAIN chunks |-> Fresh(cols, chunks[c])])

-----------------------------------------------------------------------------
(* FilterOp *)

Filtered(source, e) ==
    NonEmpty(Staged([i \in DOMAIN source.batches |->
                        LET kept == Kept(e, source.batches[i])
                        IN IF kept = Err THEN Err ELSE [source.batches[i] EXCEPT !.sel = kept]],
                    source.end))

-----------------------------------------------------------------------------
(* LimitOp. n is -1 when there is no limit. *)

SeenBefore(batches, i) == MapThenSumSet(LAMBDA j : Cardinality(batches[j].sel), 1..(i - 1))
RankIn(batches, i, row) == SeenBefore(batches, i) + Cardinality({r \in batches[i].sel : r <= row})

\* Nothing is pulled once enough rows were sent, so a later failure is not seen.
Limited(source, n, offset) ==
    LET batches == source.batches
        kept == [i \in DOMAIN batches |-> [batches[i] EXCEPT !.sel = {row \in @ :
                    /\ RankIn(batches, i, row) > offset
                    /\ n >= 0 => RankIn(batches, i, row) <= offset + n}]]
        enough == n = 0 \/ (n > 0 /\ SeenBefore(batches, Len(batches) + 1) >= offset + n)
    IN NonEmpty([batches |-> kept, end |-> IF enough THEN "end" ELSE source.end])

-----------------------------------------------------------------------------
(* UnionOp: the first batch gives the names, the left side's unless it is empty. *)

Unioned(left, right) ==
    LET all == left.batches \o right.batches
        names == all[1].cols
        named == [i \in DOMAIN all |-> [all[i] EXCEPT !.cols = [c \in DOMAIN @ |->
                     IF c <= Len(names) THEN [@[c] EXCEPT !.name = names[c].name] ELSE @[c]]]]
    IN IF left.end = "error" THEN left ELSE [batches |-> named, end |-> right.end]

-----------------------------------------------------------------------------
(* ProjectOp. An output is [alias, expr]; the alias is NoName for none. *)

NoName == <<>>
OutputName(o) == CASE o.alias # NoName -> o.alias
                   [] o.expr.op = "column" -> o.expr.name
                   [] OTHER -> NoName

RECURSIVE KindOf(_)
\* BoundExpr.Type
KindOf(e) == CASE e.op = "column" -> e.kind
               [] e.op \in {"coalesce", "nullif", "abs"} -> KindOf(e.args[1])
               [] e.op \in {"add", "sub", "mul"} ->
                     IF \E i \in 1..2 : KindOf(e.args[i]) = "float" THEN "float" ELSE "int"
               [] e.op = "case" -> KindOf(e.args[2])
               [] e.op \in Comparisons \cup {"and", "or", "not", "in", "between",
                                             "in_subquery", "exists"} -> "bool"
               [] OTHER -> "int"

Zero(kind) == IF kind = "bool" THEN FALSE ELSE 0

\* A computed column is worked out for the selected rows only.
ProjectedBatch(batch, outputs, path) ==
    LET names == [i \in DOMAIN outputs |->
                     LET o == outputs[i]
                     IN [name |-> OutputName(o),
                         kind |-> IF o.expr.op = "column" THEN batch.cols[IndexOf(batch.cols, o.expr.name)].kind
                                  ELSE KindOf(o.expr)]]
        cell(o, row) == IF o.expr.op # "column" /\ row \notin batch.sel THEN Zero(KindOf(o.expr))
                        ELSE Eval(o.expr, batch.cols, batch.rows[row])
    IN IF \E i \in DOMAIN outputs :
             \/ outputs[i].expr.op = "column" /\ ~HasColumn(batch.cols, outputs[i].expr.name)
             \/ Fails(outputs[i].expr, batch, batch.sel)
       THEN Err
       ELSE [batch EXCEPT !.cols = names, !.array = path,
                          !.rows = [row \in DOMAIN @ |-> [i \in DOMAIN outputs |-> cell(outputs[i], row)]]]

Projected(source, outputs, path) ==
    Staged([i \in DOMAIN source.batches |-> ProjectedBatch(source.batches[i], outputs, path)], source.end)
=============================================================================
