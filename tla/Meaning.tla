------------------------------ MODULE Meaning ------------------------------
(***************************************************************************)
(* What a SELECT means, clause by clause over whole sequences of rows: the *)
(* reference for the answers of plans. It knows nothing of batches, pushed *)
(* predicates, narrowed columns or streams.                                *)
(*                                                                         *)
(* A table is [cols, rows]; tables maps the names in scope to tables.      *)
(* NOT keeps the rows that its operand does not keep (see Keeps). A value  *)
(* that cannot be worked out is Err.                                       *)
(***************************************************************************)
EXTENDS Planner

Aliased(table, alias) ==
    [table EXCEPT !.cols = [i \in DOMAIN @ |-> [name |-> <<alias, @[i].name[2]>>, kind |-> @[i].kind]]]

\* The rows of both sides that agree on every key, then those without a
\* partner. partners holds the pairs of indices that agree.
Pairs(left, right, on) ==
    {p \in (DOMAIN left.rows) \X (DOMAIN right.rows) : \A k \in DOMAIN on :
        LET a == Eval(on[k].left, left.cols, left.rows[p[1]])
        IN a # Null /\ a = Eval(on[k].right, right.cols, right.rows[p[2]])}
SideBySide(left, right, kind, partners) ==
    LET ofLeft(i) ==
            IF KeepsLeft(kind) /\ \A p \in partners : p[1] # i THEN <<left.rows[i] \o Nulls(right.cols)>>
            ELSE LET js == Ascending({j \in DOMAIN right.rows : <<i, j>> \in partners})
                 IN [n \in DOMAIN js |-> left.rows[i] \o right.rows[js[n]]]
        lone == Ascending({j \in DOMAIN right.rows : KeepsRight(kind) /\ \A p \in partners : p[2] # j})
    IN FlattenSeq([i \in DOMAIN left.rows |-> ofLeft(i)])
       \o [n \in DOMAIN lone |-> Nulls(left.cols) \o right.rows[lone[n]]]
JoinedTables(left, right, join) ==
    [cols |-> left.cols \o right.cols, rows |-> SideBySide(left, right, join.kind, Pairs(left, right, join.on))]

FromMeaning(stmt, tables) ==
    LET named(from) == Aliased(tables[from.table], AliasOf(from))
    IN IF stmt.joins = <<>> THEN Aliased(tables[stmt.from.table], "")
       ELSE FoldLeft(LAMBDA left, join : JoinedTables(left, named(join), join), named(stmt.from), stmt.joins)

\* One group for every list of values the rows have, in order of appearance.
GroupedMeaning(table, group) ==
    LET key(row) == [i \in DOMAIN group |-> Eval(group[i], table.cols, row)]
        firsts == SelectSeq([i \in DOMAIN table.rows |-> i],
                            LAMBDA i : \A j \in 1..(i - 1) : key(table.rows[j]) # key(table.rows[i]))
    IN IF group = <<>> THEN <<table.rows>>
       ELSE [n \in DOMAIN firsts |->
                SelectSeq(table.rows, LAMBDA row : key(row) = key(table.rows[firsts[n]]))]

\* An aggregate of the values at the indices known.
SummedUp(func, known, args) ==
    CASE func = "count" -> Cardinality(known)
      [] func # "count" /\ known = {} -> Null
      [] func = "sum" /\ known # {} -> Wrap(MapThenSumSet(LAMBDA i : args[i], known))
      [] func = "min" /\ known # {} -> Min({args[i] : i \in known})
      [] func = "max" /\ known # {} -> Max({args[i] : i \in known})

AggregateMeaning(call, table, rows) ==
    IF call.star THEN Len(rows)
    ELSE LET arg == [i \in DOMAIN rows |-> Eval(Col(call.arg, "int"), table.cols, rows[i])]
         IN SummedUp(call.func, {i \in DOMAIN rows : arg[i] # Null}, arg)

RECURSIVE OverGroup(_, _, _)
\* An expression over a group: its aggregates by their values, the rest by its first row.
OverGroup(e, table, rows) ==
    CASE e.op = "agg" -> Lit(AggregateMeaning(e, table, rows))
      [] e.op = "column" -> Lit(IF rows = <<>> THEN Null ELSE Eval(e, table.cols, rows[1]))
      [] e.op \in {"literal", "none"} -> e
      [] OTHER -> [e EXCEPT !.args = [i \in DOMAIN @ |-> OverGroup(@[i], table, rows)]]

\* The rows i of mine that count for a row: orders holds what each row is
\* ordered by, rank its place among mine. Without a frame the rows up to this
\* one count when there is an order, and all otherwise.
Within(frame, offset) == /\ frame.start = "current" => offset >= 0
                         /\ frame.start = "offset" => offset >= -frame.preceding
                         /\ frame.end = "current" => offset <= 0
                         /\ frame.end = "offset" => offset <= frame.following
Distance(frame, from, to) == IF frame.desc THEN from[1] - to[1] ELSE to[1] - from[1]
Counted(w, mine, orders, rank, at) ==
    CASE w.frame # NoExpr /\ w.frame.range -> {i \in mine : Within(w.frame, Distance(w.frame, orders[at], orders[i]))}
      [] w.frame # NoExpr /\ ~w.frame.range -> {i \in mine : Within(w.frame, rank[i] - rank[at])}
      [] w.frame = NoExpr -> {i \in mine : w.order # <<>> => rank[i] <= rank[at]}

Ranked(w, mine, orders, rank, at) ==
    LET before == {i \in mine : orders[i] # orders[at] /\ rank[i] < rank[at]}
    IN CASE w.func = "row_number" -> rank[at]
         [] w.func = "rank" -> Cardinality(before) + 1
         [] w.func = "dense_rank" -> Cardinality({orders[i] : i \in before}) + 1

WindowAt(w, mine, orders, rank, args, at) ==
    IF w.func \in Ranking THEN Ranked(w, mine, orders, rank, at)
    ELSE SummedUp(w.func, {i \in Counted(w, mine, orders, rank, at) : args[i] # Null}, args)

RanksAmong(w, mine, orders) ==
    [i \in mine |-> Cardinality({j \in mine : j = i \/ SortsBefore(w.order, orders, j, i)})]
WindowOver(w, mine, orders, args, at) == WindowAt(w, mine, orders, RanksAmong(w, mine, orders), args, at)

\* A window function at a row of a table.
WindowMeaning(w, table, at) ==
    LET of(e, i) == Eval(e, table.cols, table.rows[i])
    IN WindowOver(w,
           {i \in DOMAIN table.rows : \A k \in DOMAIN w.partition : of(w.partition[k], i) = of(w.partition[k], at)},
           [i \in DOMAIN table.rows |-> [k \in DOMAIN w.order |-> of(w.order[k].expr, i)]],
           [i \in DOMAIN table.rows |-> IF w.arg = NoExpr THEN 0 ELSE of(w.arg, i)], at)

\* A subquery by the rows it means.
ValueOfRows(e, rows) ==
    CASE e.op = "subquery" -> Lit(IF rows = <<>> THEN Null ELSE IF Len(rows) = 1 THEN rows[1][1] ELSE Err)
      [] e.op = "in_subquery" -> In(e.args[1], [i \in DOMAIN rows |-> Lit(rows[i][1])], e.negated)
      [] e.op = "exists" -> Lit((rows # <<>>) # e.negated)

RECURSIVE MeaningOf(_, _)
RECURSIVE ValuedIn(_, _)
\* An expression with its subqueries replaced by what they mean.
ValuedIn(e, tables) ==
    CASE e.op \in Subqueries -> ValueOfRows(e, MeaningOf(e.query, tables).rows)
      [] e.op \in {"literal", "column", "none", "agg", "window"} -> e
      [] OTHER -> [e EXCEPT !.args = [i \in DOMAIN @ |-> ValuedIn(@[i], tables)]]

\* ORDER BY, LIMIT and OFFSET, with the values of the keys of every row at hand.
OrderedMeaning(stmt, rows, values) ==
    LET order == SortedBy(stmt.order, values)
        first == Max({stmt.offset, 0}) + 1
        last == IF stmt.limit < 0 THEN Len(order) ELSE Min({first + stmt.limit - 1, Len(order)})
        cut == SubSeq(order, first, last)
    IN [i \in DOMAIN cut |-> rows[cut[i]]]

\* The value of an ORDER BY item: an output of that name comes first.
KeyMeaning(item, outputs, row, otherwise) ==
    LET named == {i \in DOMAIN outputs : item.expr.op = "column" /\ OutputName(outputs[i]) = item.expr.name}
    IN IF named = {} THEN otherwise ELSE row[Min(named)]

DistinctRows(rows) == SelectSeq([i \in DOMAIN rows |-> IF \E j \in 1..(i - 1) : rows[j] = rows[i] THEN <<>> ELSE rows[i]],
                                LAMBDA row : row # <<>>)

Grouped(stmt) == stmt.group # <<>> \/ \E i \in DOMAIN stmt.select : IsAgg(stmt.select[i])
Selected(table, where) ==
    IF where = NoExpr THEN table
    ELSE [table EXCEPT !.rows = SelectSeq(@, LAMBDA row : Keeps(where, table.cols, row))]
\* The units a row of the answer stands for are rows or groups.
UnitsOf(stmt, table) ==
    IF ~Grouped(stmt) THEN [i \in DOMAIN table.rows |-> <<table.rows[i]>>]
    ELSE SelectSeq(GroupedMeaning(table, stmt.group), LAMBDA rows :
             stmt.having = NoExpr \/ Keeps(OverGroup(stmt.having, table, rows), <<>>, <<>>))
OutputsOf(stmt, cols) ==
    IF stmt.select # <<>> THEN stmt.select
    ELSE [i \in DOMAIN cols |-> [alias |-> NoName, expr |-> Col(cols[i].name, cols[i].kind)]]
\* An expression at the i-th unit.
UnitValue(e, table, tables, units, i) ==
    CASE e.op = "window" -> WindowMeaning(e, table, i)
      [] e.op # "window" -> Eval(OverGroup(ValuedIn(e, tables), table, units[i]), <<>>, <<>>)

AnswerRows(stmt, table, tables, units, outputs, rows) ==
    OrderedMeaning(stmt, rows, [i \in DOMAIN units |-> [k \in DOMAIN stmt.order |->
        KeyMeaning(stmt.order[k], outputs, rows[i], UnitValue(stmt.order[k].expr, table, tables, units, i))]])
AnswerOver(stmt, table, tables, units, outputs) ==
    [cols |-> [k \in DOMAIN outputs |->
                  [name |-> IF IsAgg(outputs[k]) THEN SpecName(SpecOf(outputs[k])) ELSE OutputName(outputs[k]),
                   kind |-> KindOf(outputs[k].expr)]],
     rows |-> AnswerRows(stmt, table, tables, units, outputs,
                  [i \in DOMAIN units |-> [k \in DOMAIN outputs |->
                      UnitValue(outputs[k].expr, table, tables, units, i)]])]
SelectOver(stmt, table, tables) == AnswerOver(stmt, table, tables, UnitsOf(stmt, table), OutputsOf(stmt, table.cols))

\* A single SELECT.
SelectMeaning(stmt, tables) ==
    SelectOver(stmt, Selected(FromMeaning(stmt, tables), ValuedIn(stmt.where, tables)), tables)

UnionMeaning(stmt, tables) ==
    LET left == MeaningOf(Alone(stmt), tables)
        all == left.rows \o MeaningOf(stmt.union.right, tables).rows
        rows == IF stmt.union.all THEN all ELSE DistinctRows(all)
        keys == [i \in DOMAIN rows |-> [k \in DOMAIN stmt.order |-> Eval(stmt.order[k].expr, left.cols, rows[i])]]
    IN [left EXCEPT !.rows = OrderedMeaning(stmt, rows, keys)]

MeaningOf(stmt, tables) ==
    CASE stmt.with # <<>> ->
            MeaningOf([stmt EXCEPT !.with = <<>>],
                      FoldLeft(LAMBDA known, cte : (cte.name :> MeaningOf(cte.query, known)) @@ known,
                               tables, stmt.with))
      [] stmt.with = <<>> /\ stmt.union # NoUnion -> UnionMeaning(stmt, tables)
      [] stmt.with = <<>> /\ stmt.union = NoUnion /\ stmt.distinct ->
            MeaningOf([stmt EXCEPT !.distinct = FALSE, !.group = Exprs(stmt.select)], tables)
      [] OTHER -> SelectMeaning(stmt, tables)

RECURSIVE HoldsErr(_)
\* A subquery of the expression has no value.
HoldsErr(e) == CASE e.op = "literal" -> e.lit = Err
                 [] e.op \in {"column", "none"} -> FALSE
                 [] OTHER -> \E i \in DOMAIN e.args : HoldsErr(e.args[i])

LacksValue(where, from, answer) ==
    \/ \E i \in DOMAIN answer.rows : \E k \in DOMAIN answer.rows[i] : answer.rows[i][k] = Err
    \/ HoldsErr(where)
    \/ where # NoExpr /\ \E i \in DOMAIN from.rows : Eval(where, from.cols, from.rows[i]) = Err

\* Whether the meaning of a statement needs a value that cannot be worked out.
MeaningFails(stmt, tables) ==
    LacksValue(IF stmt.with = <<>> /\ stmt.union = NoUnion THEN ValuedIn(stmt.where, tables) ELSE NoExpr,
               FromMeaning(stmt, tables), MeaningOf(stmt, tables))
=============================================================================
