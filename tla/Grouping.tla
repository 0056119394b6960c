----------------------------- MODULE Grouping ------------------------------
(***************************************************************************)
(* AggregateOp: GROUP BY, aggregates and HAVING. A spec is [func, star,    *)
(* arg, alias]: arg is a column name, alias is NoName for none.            *)
(***************************************************************************)
EXTENDS Stream

FuncName(func) == <<"", func>>
SpecName(spec) == IF spec.alias # NoName THEN spec.alias ELSE FuncName(spec.func)
AllColumns(exprs) == \A i \in DOMAIN exprs : exprs[i].op = "column"

ColumnKind(cols, name) == cols[IndexOf(cols, name)].kind
Summable == {"int", "int32", "float"}

\* A row with a NULL in its key belongs to no group. A float has no group key
\* alone, and all floats have the same one as part of a longer key.
GroupKey(groupBy, cols, row) ==
    LET values == [i \in DOMAIN groupBy |-> row[IndexOf(cols, groupBy[i].name)]]
        float(i) == ColumnKind(cols, groupBy[i].name) = "float"
    IN IF \E i \in DOMAIN values : values[i] = Null THEN Null
       ELSE IF Len(groupBy) = 1 /\ float(1) THEN Null
       ELSE [i \in DOMAIN values |-> IF float(i) THEN 0 ELSE values[i]]

\* The keys in the order in which each was first met.
GroupsOf(keys) ==
    LET firsts == Ascending({i \in DOMAIN keys : keys[i] # Null /\ \A j \in 1..(i - 1) : keys[j] # keys[i]})
    IN [g \in DOMAIN firsts |-> keys[firsts[g]]]

SumOf(values) == FoldLeft(LAMBDA acc, v : Wrap(acc + v), 0, values)

\* updateAccumFast and buildAggregateVec: an aggregate of the values of a group.
Accumulated(func, values) ==
    LET known == SelectSeq(values, LAMBDA v : v # Null)
    IN CASE func = "count" -> Len(known)
         [] known = <<>> -> Null
         [] func = "sum" -> SumOf(known)
         [] func = "min" -> Min(ToSet(known))
         [] func = "max" -> Max(ToSet(known))

\* What refuses an aggregate: a value that is no number, and count of a float.
Refused(spec, cols, rows) ==
    /\ ~spec.star
    /\ LET at == IndexOf(cols, spec.arg)
       IN \/ spec.func = "count" /\ cols[at].kind = "float"
          \/ /\ spec.func # "count" /\ cols[at].kind \notin Summable
             /\ \E i \in DOMAIN rows : rows[i][at] # Null

Cell(spec, cols, rows) ==
    IF spec.star THEN Len(rows)
    ELSE Accumulated(spec.func, [i \in DOMAIN rows |-> rows[i][IndexOf(cols, spec.arg)]])

ResultKind(spec, cols) ==
    IF cols # <<>> /\ ~spec.star /\ spec.func # "count" /\ ColumnKind(cols, spec.arg) = "float"
    THEN "float" ELSE "int"

\* Columns are looked up in the first batch.
Missing(cols, groupBy, specs) ==
    cols # <<>> /\ (\/ \E i \in DOMAIN groupBy : ~HasColumn(cols, groupBy[i].name)
                    \/ \E i \in DOMAIN specs : ~specs[i].star /\ ~HasColumn(cols, specs[i].arg))

OutColumns(cols, groupBy, specs) ==
    [i \in DOMAIN groupBy |-> [name |-> groupBy[i].name, kind |-> groupBy[i].kind]]
    \o [i \in DOMAIN specs |-> [name |-> SpecName(specs[i]), kind |-> ResultKind(specs[i], cols)]]

\* materializeChunk: groups are pairs of the values of the key and the rows.
Chunked(cols, groups, groupBy, specs) ==
    IF \/ \E i \in DOMAIN specs, g \in DOMAIN groups : cols # <<>> /\ Refused(specs[i], cols, groups[g].rows)
       \/ groups # <<>> /\ \E i \in DOMAIN groupBy : groupBy[i].kind = "float"
    THEN Broken(<<>>)
    ELSE Emitted(OutColumns(cols, groupBy, specs),
                 [g \in DOMAIN groups |->
                     groups[g].key \o [i \in DOMAIN specs |-> Cell(specs[i], cols, groups[g].rows)]])

Members(rows, keys, key) ==
    LET mine == Ascending({i \in DOMAIN rows : keys[i] = key}) IN [i \in DOMAIN mine |-> rows[mine[i]]]
GroupsIn(rows, keys, groupBy) ==
    IF groupBy = <<>> THEN <<[key |-> <<>>, rows |-> rows]>>
    ELSE LET found == GroupsOf(keys)
         IN [g \in DOMAIN found |-> [key |-> found[g], rows |-> Members(rows, keys, found[g])]]
GroupedBatches(cols, rows, groupBy, specs) ==
    IF Missing(cols, groupBy, specs) THEN Broken(<<>>)
    ELSE Chunked(cols, GroupsIn(rows, [i \in DOMAIN rows |-> GroupKey(groupBy, cols, rows[i])], groupBy), groupBy, specs)

RowsIn(batches, refs) == [i \in DOMAIN refs |-> RowAt(batches, refs[i])]

\* build: rows are counted as their batch arrives.
Aggregated(source, groupBy, specs, having) ==
    IF ~AllColumns(groupBy) \/ source.end = "error" THEN Broken(<<>>)
    ELSE LET groups == GroupedBatches(IF source.batches = <<>> THEN <<>> ELSE source.batches[1].cols,
                                      RowsIn(source.batches, Refs(source.batches)), groupBy, specs)
         IN IF having.op = "none" THEN groups ELSE Filtered(groups, having)
=============================================================================
