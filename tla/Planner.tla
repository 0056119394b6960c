------------------------------ MODULE Planner ------------------------------
(***************************************************************************)
(* Planner: a parsed SELECT becomes a tree of relations.                   *)
(*                                                                         *)
(* A statement is a record of its clauses; a clause that is not written is *)
(* <<>>, NoExpr, NoUnion or -1. Column names come resolved: <<"", c>> over *)
(* one table, <<alias, c>> over a join. Besides the operators of Expr a    *)
(* SELECT list may hold [op |-> "agg", func, star, arg] and                *)
(* [op |-> "window", func, arg, partition, order, frame], and a predicate  *)
(* "subquery", "in_subquery" and "exists" with a query, which reads no     *)
(* column of the statement around it.                                      *)
(***************************************************************************)
EXTENDS Windowing, Joining

CONSTANTS Catalog \* the columns of every table: a sequence of [name, kind]

NoUnion == [right |-> <<>>]
ColumnOf(alias, column) == Col(<<alias, column.name>>, column.kind)

RECURSIVE NamesOf(_)
\* idSet.walk: the columns an expression reads. It does not look into a subquery.
NamesOf(e) == CASE e.op = "column" -> {e.name}
                [] e.op \in {"literal", "none", "subquery", "exists"} -> {}
                [] OTHER -> UNION {NamesOf(e.args[i]) : i \in DOMAIN e.args}
NamesOfAll(exprs) == UNION {NamesOf(exprs[i]) : i \in DOMAIN exprs}
Exprs(items) == [i \in DOMAIN items |-> items[i].expr]

-----------------------------------------------------------------------------
(* planFrom *)

ScanRel(table, alias, columns) ==
    [op |-> "scan", inputs |-> <<>>, table |-> table, alias |-> alias, columns |-> columns,
     outputs |-> [i \in DOMAIN columns |-> [alias |-> NoName, expr |-> ColumnOf(alias, columns[i])]],
     where |-> NoExpr, predicateOnly |-> {}]

JoinRel(left, right, join) ==
    [op |-> "join", inputs |-> <<left, right>>, outputs |-> left.outputs \o right.outputs,
     kind |-> join.kind, keys |-> join.on]

\* Names of CTEs come before those of tables.
DefOf(table, ctes) == IF table \in DOMAIN ctes THEN ctes[table].columns ELSE Catalog[table]
AliasOf(from) == IF from.alias = "" THEN from.table ELSE from.alias

PlanFrom(stmt, ctes) ==
    LET scan(from) == ScanRel(from.table, AliasOf(from), DefOf(from.table, ctes))
    IN IF stmt.joins = <<>> THEN ScanRel(stmt.from.table, "", DefOf(stmt.from.table, ctes))
       ELSE FoldLeft(LAMBDA left, join : JoinRel(left, scan(join), join), scan(stmt.from), stmt.joins)

-----------------------------------------------------------------------------
(* Columns that are read. narrowScanColumns leaves a scan of which nothing *)
(* is read as it is.                                                       *)

NarrowScan(scan, names) ==
    LET kept == SelectSeq(scan.columns, LAMBDA c : <<scan.alias, c.name>> \in names)
    IN IF kept = <<>> THEN scan
       ELSE [ScanRel(scan.table, scan.alias, kept) EXCEPT !.where = scan.where, !.predicateOnly = scan.predicateOnly]

RECURSIVE NamesRead(_)
\* The names a tree of relations reads, as pruneJoinedScans collects them.
NamesRead(rel) ==
    UNION {NamesRead(rel.inputs[i]) : i \in DOMAIN rel.inputs} \cup
    CASE rel.op = "project" -> NamesOfAll(Exprs(rel.outputs))
      [] rel.op = "filter" -> NamesOf(rel.predicate)
      [] rel.op = "sort" -> NamesOfAll(Exprs(rel.keys))
      [] rel.op = "join" -> UNION {{rel.keys[i].left.name, rel.keys[i].right.name} : i \in DOMAIN rel.keys}
      [] rel.op = "aggregate" ->
            LET specs == SelectSeq(rel.specs \o rel.hidden, LAMBDA s : ~s.star)
            IN NamesOfAll(rel.group) \cup NamesOf(rel.having) \cup {specs[i].arg : i \in DOMAIN specs}
      [] OTHER -> {}

RECURSIVE PruneScans(_, _)
PruneScans(rel, names) ==
    IF rel.op = "scan" THEN (IF rel.alias = "" THEN rel ELSE NarrowScan(rel, names))
    ELSE [rel EXCEPT !.inputs = [i \in DOMAIN @ |-> PruneScans(@[i], names)]]

-----------------------------------------------------------------------------
(* applyOrderLimit: Sort below Project, LIMIT and OFFSET fused into the sort *)
(* when both ORDER BY and LIMIT are there.                                   *)

\* An ORDER BY item is the name of an output or an expression.
SortKey(item, outputs) ==
    LET named == {i \in DOMAIN outputs : item.expr.op = "column" /\ OutputName(outputs[i]) = item.expr.name}
    IN [expr |-> IF named = {} THEN item.expr ELSE outputs[Min(named)].expr, desc |-> item.desc]

NarrowedFor(src, used) ==
    IF src.op # "scan" THEN src
    ELSE [NarrowScan(src, used \cup NamesOf(src.where)) EXCEPT !.predicateOnly = NamesOf(src.where) \ used]
SortRel(src, keys, k, offset) ==
    [op |-> "sort", inputs |-> <<src>>, outputs |-> src.outputs, keys |-> keys, k |-> k, offset |-> offset]
ProjectRel(src, outputs) == [op |-> "project", inputs |-> <<src>>, outputs |-> outputs]
LimitRel(src, outputs, n, offset) ==
    IF n = -1 /\ offset = -1 THEN src
    ELSE [op |-> "limit", inputs |-> <<src>>, outputs |-> outputs, n |-> n, offset |-> Max({offset, 0})]

OrderAndLimit(src, stmt, outputs, keys) ==
    IF keys = <<>> THEN LimitRel(ProjectRel(src, outputs), outputs, stmt.limit, stmt.offset)
    ELSE IF stmt.limit >= 0
    THEN ProjectRel(SortRel(src, keys, stmt.limit, Max({stmt.offset, 0})), outputs)
    ELSE LimitRel(ProjectRel(SortRel(src, keys, 0, 0), outputs), outputs, -1, stmt.offset)

OrderedBy(src, stmt, outputs, keys) ==
    OrderAndLimit(NarrowedFor(src, NamesOfAll(Exprs(outputs)) \cup NamesOfAll(Exprs(keys))), stmt, outputs, keys)
ApplyOrderLimit(src, stmt, outputs) ==
    OrderedBy(src, stmt, outputs, [i \in DOMAIN stmt.order |-> SortKey(stmt.order[i], outputs)])

-----------------------------------------------------------------------------
(* planQuery and its two tails *)

IsAgg(item) == item.expr.op = "agg"
IsWindow(item) == item.expr.op = "window"

SpecOf(item) == [func |-> item.expr.func, star |-> item.expr.star, arg |-> item.expr.arg, alias |-> item.alias]
HiddenName(call) == <<call.func, IF call.star THEN "*" ELSE call.arg[2]>>
SameCall(spec, call) == spec.func = call.func /\ spec.star = call.star /\ (call.star \/ spec.arg = call.arg)

RECURSIVE CallsOf(_)
CallsOf(e) == CASE e.op = "agg" -> <<e>>
                [] e.op \in {"literal", "column", "none"} -> <<>>
                [] OTHER -> FlattenSeq([i \in DOMAIN e.args |-> CallsOf(e.args[i])])

RECURSIVE BindHaving(_, _)
\* An aggregate in HAVING is one of the SELECT list, or a hidden one.
BindHaving(e, specs) ==
    CASE e.op = "agg" -> LET same == {i \in DOMAIN specs : SameCall(specs[i], e)}
                         IN Col(IF same = {} THEN HiddenName(e) ELSE SpecName(specs[Min(same)]), "int")
      [] e.op \in {"literal", "column", "none"} -> e
      [] OTHER -> [e EXCEPT !.args = [i \in DOMAIN @ |-> BindHaving(@[i], specs)]]

HiddenSpecs(having, specs) ==
    LET calls == SelectSeq(CallsOf(having), LAMBDA c : \A i \in DOMAIN specs : ~SameCall(specs[i], c))
        firsts == {i \in DOMAIN calls : \A j \in 1..(i - 1) : calls[j] # calls[i]}
        order == Ascending(firsts)
    IN [i \in DOMAIN order |-> LET c == calls[order[i]]
                               IN [func |-> c.func, star |-> c.star, arg |-> c.arg, alias |-> HiddenName(c)]]

\* bindSelectAggregates. The outputs of the scan stay what they were.
ReadBy(group, specs) ==
    NamesOfAll(group) \cup LET args == SelectSeq(specs, LAMBDA s : ~s.star) IN {args[i].arg : i \in DOMAIN args}
ScanOnly(src, names) ==
    IF src.op # "scan" THEN src
    ELSE [src EXCEPT !.columns = SelectSeq(@, LAMBDA c : <<"", c.name>> \in names \cup NamesOf(src.where))]
AggregateOver(stmt, src, outputs, specs, hidden) ==
    ApplyOrderLimit([op |-> "aggregate", inputs |-> <<ScanOnly(src, ReadBy(stmt.group, specs \o hidden))>>,
                     outputs |-> outputs, group |-> stmt.group, specs |-> specs, hidden |-> hidden,
                     having |-> BindHaving(stmt.having, specs)],
                    stmt, outputs)

\* The SELECT list is the GROUP BY list followed by aggregates.
PlanAggregate(stmt, src) ==
    LET keys == Len(stmt.group)
        specs == [i \in 1..(Len(stmt.select) - keys) |-> SpecOf(stmt.select[keys + i])]
        outputs == [i \in DOMAIN stmt.select |->
                       LET item == stmt.select[i]
                       IN [alias |-> item.alias,
                           expr |-> IF i <= keys THEN stmt.group[i] ELSE Col(SpecName(SpecOf(item)), "int")]]
    IN AggregateOver(stmt, src, outputs, specs, HiddenSpecs(stmt.having, specs))

\* extractWindowFuncs: a call becomes a column of the window below.
FuncOf(item) == [func |-> item.expr.func, arg |-> item.expr.arg, alias |-> item.alias,
                 partition |-> item.expr.partition, order |-> item.expr.order, frame |-> item.expr.frame]
WindowRel(src, funcs) ==
    IF funcs = <<>> THEN src
    ELSE [op |-> "window", inputs |-> <<src>>, funcs |-> funcs,
          outputs |-> src.outputs \o
              [i \in DOMAIN funcs |-> [alias |-> funcs[i].alias, expr |-> Col(funcs[i].alias, "int")]]]
WindowsOf(items) == LET windows == SelectSeq(items, IsWindow) IN [i \in DOMAIN windows |-> FuncOf(windows[i])]
Chosen(item, joined) == CASE IsWindow(item) -> [item EXCEPT !.expr = Col(item.alias, "int")]
                          [] ~IsWindow(item) /\ joined -> [item EXCEPT !.alias = OutputName(item)]
                          [] OTHER -> item

PlanScan(stmt, src) ==
    ApplyOrderLimit(WindowRel(src, WindowsOf(stmt.select)), stmt,
                    IF stmt.select = <<>> THEN src.outputs
                    ELSE [i \in DOMAIN stmt.select |-> Chosen(stmt.select[i], stmt.joins # <<>>)])

PlanQuery(stmt, src) ==
    LET filtered == IF stmt.where = NoExpr THEN src
                    ELSE IF src.op = "scan" THEN [src EXCEPT !.where = stmt.where]
                    ELSE [op |-> "filter", inputs |-> <<src>>, outputs |-> src.outputs, predicate |-> stmt.where]
    IN IF stmt.group # <<>> \/ \E i \in DOMAIN stmt.select : IsAgg(stmt.select[i])
       THEN PlanAggregate(stmt, filtered) ELSE PlanScan(stmt, filtered)

-----------------------------------------------------------------------------
(* planSelect: CTEs, then UNION, then DISTINCT, then the query itself *)

DedupRel(rel) ==
    LET columns == [i \in DOMAIN rel.outputs |-> Col(OutputName(rel.outputs[i]), KindOf(rel.outputs[i].expr))]
    IN [op |-> "aggregate", inputs |-> <<rel>>, group |-> columns, specs |-> <<>>, hidden |-> <<>>,
        having |-> NoExpr, outputs |-> [i \in DOMAIN columns |-> [alias |-> columns[i].name, expr |-> columns[i]]]]

Alone(stmt) == [stmt EXCEPT !.union = NoUnion, !.order = <<>>, !.limit = -1, !.offset = -1]

CteOf(rel) == [rel |-> rel, columns |-> [i \in DOMAIN rel.outputs |->
                  [name |-> OutputName(rel.outputs[i])[2], kind |-> KindOf(rel.outputs[i].expr)]]]

RECURSIVE SubstituteCtes(_, _)
\* A scan of a CTE gives way to the CTE's own tree; its WHERE goes with it, and
\* the CTE's tree is taken as it is.
SubstituteCtes(rel, ctes) ==
    IF rel.op = "scan"
    THEN IF rel.table \in DOMAIN ctes
         THEN [op |-> "cte", inputs |-> <<ctes[rel.table].rel>>, outputs |-> rel.outputs] ELSE rel
    ELSE [rel EXCEPT !.inputs = [i \in DOMAIN @ |-> SubstituteCtes(@[i], ctes)]]

Subqueries == {"subquery", "in_subquery", "exists"}

RECURSIVE PlanSelect(_, _)
RECURSIVE BindSubqueries(_, _)
\* bindExpr plans a subquery on the spot; SubstituteCtes never gets to its plan.
BindSubqueries(e, ctes) ==
    CASE e.op \in Subqueries -> ("plan" :> PlanSelect(e.query, ctes)) @@ e
      [] e.op \in {"literal", "column", "none", "agg", "window"} -> e
      [] OTHER -> [e EXCEPT !.args = [i \in DOMAIN @ |-> BindSubqueries(@[i], ctes)]]

Bound(stmt, ctes) ==
    [stmt EXCEPT !.where = BindSubqueries(@, ctes),
                 !.select = [i \in DOMAIN @ |-> [@[i] EXCEPT !.expr = BindSubqueries(@, ctes)]]]

PlanSelect(stmt, ctes) ==
    CASE stmt.with # <<>> ->
            LET all == FoldLeft(LAMBDA known, cte :
                           (cte.name :> CteOf(PlanSelect(cte.query, known))) @@ known, ctes, stmt.with)
            IN SubstituteCtes(PlanSelect([stmt EXCEPT !.with = <<>>], all), all)
      [] stmt.with = <<>> /\ stmt.union # NoUnion ->
            LET left == PlanSelect(Alone(stmt), ctes)
                both == [op |-> "union", outputs |-> left.outputs,
                         inputs |-> <<left, PlanSelect(stmt.union.right, ctes)>>]
                root == IF stmt.union.all THEN both ELSE DedupRel(both)
            IN IF stmt.order = <<>> /\ stmt.limit = -1 /\ stmt.offset = -1 THEN root
               ELSE ApplyOrderLimit(root, stmt, root.outputs)
      [] OTHER ->
            LET lowered == Bound(IF stmt.distinct THEN [stmt EXCEPT !.group = Exprs(stmt.select)] ELSE stmt, ctes)
                rel == PlanQuery(lowered, PlanFrom(lowered, ctes))
            IN PruneScans(rel, NamesRead(rel))
=============================================================================
