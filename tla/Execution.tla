----------------------------- MODULE Execution -----------------------------
(***************************************************************************)
(* The executor: a cached plan is run again and again while rows are       *)
(* inserted between the runs.                                              *)
(*                                                                         *)
(* Before a run, every subquery in the plan is run and replaced, in the    *)
(* cached plan itself, by its value. Then operators are built over the     *)
(* relations and drained. The segments of a table that is read by several  *)
(* workers arrive in any order; a read may fail after some of them.        *)
(***************************************************************************)
EXTENDS Meaning

CONSTANTS
    Statements,  \* the statements that are asked
    Inserts,     \* Inserts[t]: the segments that INSERTs into table t make
    MaxSegments, \* MaxSegments[t]: bound on the segments of table t
    FailsAfter   \* after how many segments of a table a read may fail

VARIABLES
    db,     \* the segments of every table
    plan,   \* the plan in the cache: [stmt, rel, valued]
    answer  \* of the last run: [names, rows], a Failure or NoAnswer

vars == <<db, plan, answer>>

NoPlan == [stmt |-> <<>>]
NoAnswer == [rows |-> <<>>]
Failure(broken) == [rows |-> Err, broken |-> broken]
NotValued == <<>>

Tables == DOMAIN Catalog
\* How a run reads: in which order segments arrive, and after how many a read fails.
Arrivals == [t \in Tables |-> {p \in [DOMAIN db[t] -> DOMAIN db[t]] : IsInjective(p)}]
Worlds == {[order |-> order, fails |-> fails] :
              order \in {o \in [Tables -> UNION {Arrivals[t] : t \in Tables}] : \A t \in Tables : o[t] \in Arrivals[t]},
              fails \in {f \in [Tables -> FailsAfter \cup {-1}] : Cardinality({t \in Tables : f[t] >= 0}) <= 1}}

-----------------------------------------------------------------------------
(* Predicates that go down into the scan *)

RECURSIVE Conjuncts(_)
Conjuncts(e) == CASE e.op = "none" -> <<>>
                  [] e.op = "and" -> Conjuncts(e.args[1]) \o Conjuncts(e.args[2])
                  [] OTHER -> <<e>>

Flip(op) == CASE op = "lt" -> "gt" [] op = "gt" -> "lt" [] op = "le" -> "ge" [] op = "ge" -> "le" [] OTHER -> op
Turned(e) == IF e.args[1].op = "literal" /\ e.args[2].op = "column"
             THEN Cmp(Flip(e.op), e.args[2], e.args[1]) ELSE e

\* The literals of an integer or a text column.
LowersColumn(e) == e.op = "column" /\ e.kind \in {"int", "text"}

\* Mutant: <= of any integer is lowered.
LowersComparisonBug(e) == LowersColumn(Turned(e).args[1]) /\ IsLiteral(Turned(e).args[2])

\* loweredComparison: <= and >= of an integer become < and > of the next one,
\* if there is one; <> of a text stays where it is.
LowersComparison(e) ==
    LET c == Turned(e)
    IN /\ LowersColumn(c.args[1]) /\ IsLiteral(c.args[2])
       /\ c.args[1].kind = "text" => c.op # "ne"
       /\ c.args[1].kind = "int" => ~(c.op = "le" /\ c.args[2].lit = MaxWord) /\ ~(c.op = "ge" /\ c.args[2].lit = MinWord)

RECURSIVE Lowers(_)
\* loweredPredicate
Lowers(e) ==
    CASE e.op \in {"and", "or", "not"} -> \A i \in DOMAIN e.args : Lowers(e.args[i])
      [] e.op \in Comparisons -> LowersComparison(e)
      [] e.op = "between" -> /\ LowersComparison(Cmp("ge", e.args[1], e.args[2]))
                             /\ LowersComparison(Cmp("le", e.args[1], e.args[3]))
      [] e.op = "in" -> LowersColumn(e.args[1]) /\ Len(e.args) > 1 /\ \A i \in 2..Len(e.args) : IsLiteral(e.args[i])
      [] OTHER -> FALSE

\* A comparison in the scan. Of an integer, <= and >= are < and > of the next one.
Picks(op, v, lit, text) ==
    CASE op = "eq" -> v = lit
      [] op = "ne" -> v # lit
      [] op = "lt" -> v # Null /\ v < lit
      [] op = "gt" -> v # Null /\ v > lit
      [] op = "le" -> v # Null /\ (IF text THEN v <= lit ELSE v < Wrap(lit + 1))
      [] op = "ge" -> v # Null /\ (IF text THEN v >= lit ELSE v > Wrap(lit - 1))
PicksBy(c, cols, row) == Picks(c.op, Eval(c.args[1], cols, row), c.args[2].lit, c.args[1].kind = "text")

RECURSIVE Selects(_, _, _)
\* What the scan keeps under a lowered predicate: <> and NOT are the complement.
Selects(e, cols, row) ==
    CASE e.op = "and" -> \A i \in DOMAIN e.args : Selects(e.args[i], cols, row)
      [] e.op = "or" -> \E i \in DOMAIN e.args : Selects(e.args[i], cols, row)
      [] e.op = "not" -> ~Selects(e.args[1], cols, row)
      [] e.op = "between" -> \A c \in {Cmp("ge", e.args[1], e.args[2]), Cmp("le", e.args[1], e.args[3])} : PicksBy(c, cols, row)
      [] e.op = "in" -> (\E i \in 2..Len(e.args) : Eval(e.args[1], cols, row) = e.args[i].lit) # e.negated
      [] e.op \in Comparisons -> PicksBy(Turned(e), cols, row)

\* splitWhere
Pushed(where) == SelectSeq(Conjuncts(where), Lowers)
Residual(where) ==
    LET rest == SelectSeq(Conjuncts(where), LAMBDA e : ~Lowers(e))
    IN IF rest = <<>> THEN NoExpr ELSE FoldLeft(And, rest[1], Tail(rest))

-----------------------------------------------------------------------------
(* Operators *)

NamesIn(rel) == [i \in DOMAIN rel.columns |-> [name |-> <<rel.alias, rel.columns[i].name>>, kind |-> rel.columns[i].kind]]

\* The columns a scan emits: those read by WHERE alone go when all of it is pushed.
Emits(rel) ==
    SelectSeq(NamesIn(rel), LAMBDA c : /\ Pushed(rel.where) # <<>> /\ Residual(rel.where) = NoExpr
                                       => c.name \notin rel.predicateOnly)

StoredNames(rel) ==
    [i \in DOMAIN Catalog[rel.table] |->
        [name |-> <<rel.alias, Catalog[rel.table][i].name>>, kind |-> Catalog[rel.table][i].kind]]

\* The rows of a segment, cut to the columns cols of all it has.
BatchOf(rows, cols, all, pushed) ==
    [Fresh(cols, [r \in DOMAIN rows |-> [c \in DOMAIN cols |-> rows[r][IndexOf(all, cols[c].name)]]]) EXCEPT
        !.sel = {r \in @ : \A i \in DOMAIN pushed : Selects(pushed[i], all, rows[r])}]

\* A read fails after the first failed segments; with -1 none does.
ReadUpTo(batches, failed) ==
    NonEmpty(IF failed = -1 THEN Stream(batches) ELSE Broken(SubSeq(batches, 1, Min({failed, Len(batches)}))))
SegmentBatches(rel, cols, world, stored) ==
    ReadUpTo([i \in DOMAIN db[rel.table] |->
                 BatchOf(db[rel.table][IF stored THEN i ELSE world.order[rel.table][i]],
                         cols, StoredNames(rel), Pushed(rel.where))],
             world.fails[rel.table])

FilteredBy(stream, e) == IF e = NoExpr THEN stream ELSE Filtered(stream, e)
BuildScan(rel, world, stored) == FilteredBy(SegmentBatches(rel, Emits(rel), world, stored), Residual(rel.where))

IsIdentityProject(rel) ==
    LET below == rel.inputs[1].outputs
    IN /\ Len(rel.outputs) = Len(below)
       /\ \A i \in DOMAIN below : /\ rel.outputs[i].expr.op = "column" /\ below[i].expr.op = "column"
                                  /\ rel.outputs[i].expr.name = below[i].expr.name
                                  /\ rel.outputs[i].alias \in {NoName, below[i].alias}

\* A sort straight over a scan may take its top rows there, in storage order.
PushesTopK(rel) == LET scan == rel.inputs[1]
                   IN scan.op = "scan" /\ scan.where = NoExpr /\ rel.k > 0 /\ FastInt(rel.keys)
BuildSort(rel, world, input) ==
    LET scan == rel.inputs[1]
    IN IF PushesTopK(rel) /\ scan.alias = "" /\ TakesLate(rel.keys, rel.k, rel.offset)
       THEN TopKScanned(SegmentBatches(scan, StoredNames(scan), world, TRUE),
                        NamesIn(scan), rel.keys, rel.k, rel.offset)
       ELSE Sorted(IF PushesTopK(rel) THEN BuildScan(scan, world, TRUE) ELSE input, rel.keys, rel.k, rel.offset)

RECURSIVE BuildRel(_, _, _)
\* path names the place of an operator in the tree, and its array of columns.
BuildRel(rel, world, path) ==
    LET input(i) == BuildRel(rel.inputs[i], world, Append(path, i))
    IN CASE rel.op = "scan" -> BuildScan(rel, world, FALSE)
         [] rel.op = "cte" -> input(1)
         [] rel.op = "union" -> Unioned(input(1), input(2))
         [] rel.op = "window" -> Windowed(input(1), rel.funcs)
         [] rel.op = "project" -> IF IsIdentityProject(rel) THEN input(1) ELSE Projected(input(1), rel.outputs, path)
         [] rel.op = "limit" -> Limited(input(1), rel.n, rel.offset)
         [] rel.op = "aggregate" -> Aggregated(input(1), rel.group, rel.specs \o rel.hidden, rel.having)
         [] rel.op = "filter" -> Filtered(input(1), rel.predicate)
         [] rel.op = "join" -> Joined(input(1), input(2), rel.kind, rel.keys, rel.inputs[1].outputs, rel.inputs[2].outputs)
         [] rel.op = "sort" -> BuildSort(rel, world, input(1))

RECURSIVE Rels(_)
Rels(rel) == <<rel>> \o FlattenSeq([i \in DOMAIN rel.inputs |-> Rels(rel.inputs[i])])
HasRel(rel, Test(_)) == \E i \in DOMAIN Rels(rel) : Test(Rels(rel)[i])

\* Building fails when a relation scans what is no table.
Unbuildable(rel) == HasRel(rel, LAMBDA r : r.op = "scan" /\ r.table \notin Tables)
Drained(rel, world) == IF Unbuildable(rel) THEN Broken(<<>>) ELSE BuildRel(rel, world, <<0>>)
RowsOf(stream) == RowsIn(stream.batches, Refs(stream.batches))

-----------------------------------------------------------------------------
(* materializeSubqueries *)

\* drainScalar, drainValues and drainAny

\* Mutant: a scalar subquery must have a row.
ScalarInBug(rows, end) ==
    IF end = "error" \/ Len(rows) # 1 THEN Err ELSE IF Len(rows[1]) # 1 THEN Err ELSE Lit(rows[1][1])
ScalarIn(rows, end) ==
    IF end = "error" \/ Len(rows) > 1 THEN Err
    ELSE IF rows = <<>> THEN Lit(Null) ELSE IF Len(rows[1]) # 1 THEN Err ELSE Lit(rows[1][1])
ScalarOf(stream) == ScalarIn(RowsOf(stream), stream.end)
ValuesOf(stream, e) ==
    LET rows == RowsOf(stream)
    IN IF stream.end = "error" \/ \E i \in DOMAIN rows : Len(rows[i]) # 1 THEN Err
       ELSE In(e.args[1], [i \in DOMAIN rows |-> Lit(rows[i][1])], e.negated)
AnyOf(stream, e) == IF RowsOf(stream) = <<>> /\ stream.end = "error" THEN Err
                    ELSE Lit((RowsOf(stream) # <<>>) # e.negated)

\* A subquery by the rows its plan gives; the plan is Err when a subquery of its own failed.
ValueIn(e, stream) == CASE e.op = "subquery" -> ScalarOf(stream)
                        [] e.op = "in_subquery" -> ValuesOf(stream, e)
                        [] e.op = "exists" -> AnyOf(stream, e)
ValuedBy(e, inner, world) == IF inner = Err THEN Err ELSE ValueIn(e, Drained(inner, world))
WithArgs(e, args) == IF \E i \in DOMAIN args : args[i] = Err THEN Err ELSE [e EXCEPT !.args = args]

PredicateOf(rel) == CASE rel.op = "scan" -> "where" [] rel.op = "filter" -> "predicate"
                      [] rel.op = "aggregate" -> "having" [] OTHER -> "op"
RelWith(rel, inputs, outputs, predicate) ==
    IF predicate = Err \/ (\E i \in DOMAIN inputs : inputs[i] = Err) \/ \E i \in DOMAIN outputs : outputs[i] = Err
    THEN Err
    ELSE [rel EXCEPT !.inputs = inputs, ![PredicateOf(rel)] = predicate,
                     !.outputs = [i \in DOMAIN @ |-> [@[i] EXCEPT !.expr = outputs[i]]]]

RECURSIVE Materialized(_, _)
RECURSIVE MaterializedRel(_, _)
Materialized(e, world) ==
    CASE e.op \in Subqueries -> ValuedBy(e, MaterializedRel(e.plan, world), world)
      [] e.op \in {"literal", "column", "none"} -> e
      [] OTHER -> WithArgs(e, [i \in DOMAIN e.args |-> Materialized(e.args[i], world)])

\* The predicates and outputs of a tree of relations; the first failure is that of the run.
MaterializedRel(rel, world) ==
    RelWith(rel, [i \in DOMAIN rel.inputs |-> MaterializedRel(rel.inputs[i], world)],
            [i \in DOMAIN rel.outputs |-> Materialized(rel.outputs[i].expr, world)],
            IF PredicateOf(rel) = "op" THEN rel.op ELSE Materialized(rel[PredicateOf(rel)], world))

-----------------------------------------------------------------------------
(* Actions *)

Init == db = [t \in Tables |-> <<>>] /\ plan = NoPlan /\ answer = NoAnswer

Insert(t, segment) ==
    /\ Len(db[t]) < MaxSegments[t]
    /\ db' = [db EXCEPT ![t] = Append(@, segment)]
    /\ answer' = NoAnswer
    /\ UNCHANGED plan

\* planForQuery, when the cache has no plan yet.
Prepare(stmt) ==
    /\ plan = NoPlan
    /\ plan' = [stmt |-> stmt, rel |-> PlanSelect(stmt, <<>>), valued |-> NotValued]
    /\ UNCHANGED <<db, answer>>

HasSubquery(rel) ==
    LET holds(e) == \E c \in ToSet(Conjuncts(e)) : c.op \in Subqueries \/ (c.op \notin {"literal", "column", "none"}
                                                    /\ \E i \in DOMAIN c.args : c.args[i].op \in Subqueries)
    IN HasRel(rel, LAMBDA r : \/ r.op = "scan" /\ holds(r.where)
                              \/ r.op = "filter" /\ holds(r.predicate)
                              \/ \E i \in DOMAIN r.outputs : r.outputs[i].expr.op \in Subqueries)

\* planOutputNames
OutputNames(rel) == [i \in DOMAIN rel.outputs |-> OutputName(rel.outputs[i])]

\* runQueryWith: the plan is kept with its subqueries valued.
AnswerOf(stream, rel, failure) == IF stream.end = "error" THEN failure ELSE [names |-> OutputNames(rel), rows |-> RowsOf(stream)]
Ran(rel, world, failure) ==
    IF rel = Err THEN answer' = failure /\ UNCHANGED plan
    ELSE /\ answer' = AnswerOf(Drained(rel, world), rel, failure)
         /\ plan' = [plan EXCEPT !.rel = rel, !.valued = IF HasSubquery(plan.rel) THEN db ELSE @]

Execute ==
    /\ plan # NoPlan
    /\ answer = NoAnswer
    /\ \E world \in Worlds :
          Ran(MaterializedRel(plan.rel, world), world, Failure(\E t \in Tables : world.fails[t] >= 0))
    /\ UNCHANGED db

Next == \/ \E t \in Tables : \E segment \in Inserts[t] : Insert(t, segment)
        \/ \E stmt \in Statements : Prepare(stmt)
        \/ Execute

Spec == Init /\ [][Next]_vars

-----------------------------------------------------------------------------
(* Statements and rows on which the code is known to answer something else. *)
(* Each is a place in the code, named in the README.                        *)

RECURSIVE ColumnsIn(_)
ColumnsIn(e) == CASE e.op = "column" -> {[name |-> e.name, kind |-> e.kind]}
                  [] e.op \in {"literal", "none"} \cup Subqueries -> {}
                  [] OTHER -> UNION {ColumnsIn(e.args[i]) : i \in DOMAIN e.args}
MasksOf(rel) == CASE rel.op = "scan" -> Residual(rel.where)
                  [] rel.op = "filter" -> rel.predicate
                  [] rel.op = "aggregate" -> rel.having
                  [] OTHER -> NoExpr
SharesMasks(rel) == HasRel(rel, LAMBDA r : /\ MasksOf(r) # NoExpr
                                           /\ ~ScratchSafe(MasksOf(r), SetToSeq(ColumnsIn(MasksOf(r))), FALSE))

RECURSIVE NarrowedIn(_, _)
NarrowedIn(e, cols) == IF e.op \in {"and", "or", "not"} THEN \E i \in DOMAIN e.args : NarrowedIn(e.args[i], cols)
                       ELSE IsLeaf(e, cols) /\ Narrowed(e, cols) # e
NarrowsLiteral(rel) ==
    HasRel(rel, LAMBDA r : MasksOf(r) # NoExpr /\ NarrowedIn(MasksOf(r), SetToSeq(ColumnsIn(MasksOf(r)))))

\* A NULL somewhere in a column of the name; of a name no table has, anywhere.
NullIn(column) ==
    \E t \in Tables : \E c \in DOMAIN Catalog[t] :
        /\ Catalog[t][c].name = column \/ \A d \in DOMAIN Catalog[t] : Catalog[t][d].name # column
        /\ \E s \in DOMAIN db[t] : \E r \in DOMAIN db[t][s] : db[t][s][r][c] = Null

RECURSIVE Negated(_)
Negated(e) == CASE e.op = "ne" \/ (e.op = "in" /\ e.negated) -> {n[2] : n \in NamesOf(e)}
                [] e.op \in {"and", "or", "not"} -> UNION {Negated(e.args[i]) : i \in DOMAIN e.args}
                [] OTHER -> {}
NegationMeetsNull(rel) ==
    HasRel(rel, LAMBDA r : r.op = "scan" /\ \E e \in ToSet(Pushed(r.where)) : \E c \in Negated(e) : NullIn(c))

NullKeys(rel) ==
    HasRel(rel, LAMBDA r : /\ r.op = "aggregate"
                           /\ \/ \E i \in DOMAIN r.group : NullIn(r.group[i].name[2])
                              \/ r.group # <<>> /\ HasRel(r, LAMBDA j : j.op = "join" /\ j.kind # "inner"))

HeapExceeded(rel) == HasRel(rel, LAMBDA r : r.op = "sort" /\ r.k + r.offset > HeapMax)
HiddenAggregate(rel) == HasRel(rel, LAMBDA r : r.op = "aggregate" /\ r.hidden # <<>>)
BufferedProject(rel) ==
    HasRel(rel, LAMBDA r : /\ r.op \in {"sort", "window", "join"}
                           /\ HasRel(r, LAMBDA p : p.op = "project" /\ ~IsIdentityProject(p)))
RenamesUnion(rel) ==
    HasRel(rel, LAMBDA r : r.op = "union" /\ \/ OutputNames(r.inputs[1]) # OutputNames(r.inputs[2])
                                             \/ rel.op # "union" /\ \E i \in DOMAIN r.outputs :
                                                   r.outputs[i].expr.op # "column" \/ r.outputs[i].alias # NoName)
FloatKeys(rel) == HasRel(rel, LAMBDA r : r.op = "aggregate" /\ \E i \in DOMAIN r.group : r.group[i].kind = "float")
CountsFloat(rel) ==
    HasRel(rel, LAMBDA r : r.op = "aggregate" /\ \E i \in DOMAIN r.specs : \E t \in Tables : \E c \in DOMAIN Catalog[t] :
        /\ r.specs[i].func = "count" /\ r.specs[i].arg[2] = Catalog[t][c].name /\ Catalog[t][c].kind = "float")
NamesTwice(rel) == HasRel(rel, LAMBDA r : r.op = "aggregate" /\ ~IsInjective(OutputNames(r)))
CteShape(stmt) == /\ stmt.with # <<>>
                  /\ \/ stmt.where # NoExpr \/ stmt.joins # <<>>
                     \/ \E i \in DOMAIN stmt.select : ~IsAgg(stmt.select[i])

RECURSIVE PlansIn(_)
PlansIn(e) == CASE e.op \in Subqueries -> <<e.plan>>
                [] e.op \in {"literal", "column", "none", "agg"} -> <<>>
                [] OTHER -> FlattenSeq([i \in DOMAIN e.args |-> PlansIn(e.args[i])])
LosesCte(rel) ==
    HasRel(rel, LAMBDA r : \/ r.op = "scan" /\ r.table \notin Tables
                           \/ r.op = "scan" /\ \E p \in ToSet(PlansIn(r.where)) : Unbuildable(p))

Departs(stmt, rel) ==
    \/ stmt.order # <<>> /\ stmt.limit = 0
    \/ CteShape(stmt)
    \/ NegationMeetsNull(rel) \/ NullKeys(rel) \/ HeapExceeded(rel) \/ HiddenAggregate(rel)
    \/ NarrowsLiteral(rel) \/ FloatKeys(rel) \/ CountsFloat(rel)
    \/ BufferedProject(rel) \/ RenamesUnion(rel) \/ NamesTwice(rel) \/ LosesCte(rel)

\* The value a subquery had at the first run is the value at this one.
Current == plan.valued \in {NotValued, db}

-----------------------------------------------------------------------------
(* Properties *)

Answered == plan # NoPlan /\ answer # NoAnswer /\ answer.rows # Err

\* What the statement means over the tables, with their segments in this order.
TablesIn(order) ==
    [t \in Tables |->
        [cols |-> [c \in DOMAIN Catalog[t] |-> [name |-> <<"", Catalog[t][c].name>>, kind |-> Catalog[t][c].kind]],
         rows |-> FlattenSeq([i \in DOMAIN order[t] |-> db[t][order[t][i]]])]]
ArrivalOrders == {world.order : world \in Worlds}
AnswersAs(meanings) == /\ answer.rows \in {m.rows : m \in meanings}
                       /\ \A m \in meanings : answer.names = [i \in DOMAIN m.cols |-> m.cols[i].name]
IsMeant == AnswersAs({MeaningOf(plan.stmt, TablesIn(order)) : order \in ArrivalOrders})

\* An answer is exactly the rows the statement means, in an order and with ties
\* decided as one order of arrival of the segments has it, whether or not a
\* read failed on the way.
AnswersExact ==
    Answered /\ Current /\ ~SharesMasks(plan.rel) /\ ~Departs(plan.stmt, plan.rel) => IsMeant

\* A statement fails only if a read did, or what it means has no value.
ErrorsAccounted ==
    /\ plan # NoPlan /\ answer # NoAnswer /\ ~Answered /\ ~answer.broken
    /\ Current /\ ~SharesMasks(plan.rel) /\ ~Departs(plan.stmt, plan.rel)
    => \E order \in ArrivalOrders : MeaningFails(plan.stmt, TablesIn(order))

\* As AnswersExact, of predicates whose masks share memory too.
NarrowsAndUnions == Answered /\ Current /\ ~Departs(plan.stmt, plan.rel) => IsMeant

\* As AnswersExact, of a plan whose subqueries were valued before the last insert too.
CacheHitSafe == Answered /\ ~SharesMasks(plan.rel) /\ ~Departs(plan.stmt, plan.rel) => IsMeant
=============================================================================
