------------------------------ MODULE Samples ------------------------------
(* Statements, tables and rows for the model checking of Execution, and the  *)
(* operators that write a statement down in one line.                        *)
EXTENDS Planner

Columns2 == <<[name |-> "a", kind |-> "int"], [name |-> "b", kind |-> "int"]>>
Columns4 == <<[name |-> "a", kind |-> "int"], [name |-> "f", kind |-> "float"],
             [name |-> "s", kind |-> "text"], [name |-> "n", kind |-> "int32"]>>
TwoTables == "t" :> Columns2 @@ "u" :> Columns4

A == Col(<<"", "a">>, "int")
B == Col(<<"", "b">>, "int")
TA == Col(<<"t", "a">>, "int")
TB == Col(<<"t", "b">>, "int")
UA == Col(<<"u", "a">>, "int")
UN == Col(<<"u", "n">>, "int32")
UF == Col(<<"u", "f">>, "float")
F == Col(<<"", "f">>, "float")
S == Col(<<"", "s">>, "text")
Add(x, y) == [op |-> "add", args |-> <<x, y>>]
Out(e) == [alias |-> NoName, expr |-> e]
As(e, name) == [alias |-> <<"", name>>, expr |-> e]
Agg(f, c) == [op |-> "agg", func |-> f, star |-> FALSE, arg |-> c.name]
CountStar == [op |-> "agg", func |-> "count", star |-> TRUE, arg |-> <<"", "*">>]
Asc(e) == [expr |-> e, desc |-> FALSE]
Desc(e) == [expr |-> e, desc |-> TRUE]

Base(select) ==
    [with |-> <<>>, select |-> select, distinct |-> FALSE, from |-> [table |-> "t", alias |-> ""],
     joins |-> <<>>, where |-> NoExpr, group |-> <<>>, having |-> NoExpr, order |-> <<>>,
     limit |-> -1, offset |-> -1, union |-> NoUnion]
Where(s, e) == [s EXCEPT !.where = e]
Ordered(s, keys, limit, offset) == [s EXCEPT !.order = keys, !.limit = limit, !.offset = offset]
JoinOn(kind) == <<[kind |-> kind, table |-> "u", alias |-> "", on |-> <<[left |-> TB, right |-> UA]>>]>>
JoinedTU(kind, select) == [Base(select) EXCEPT !.joins = JoinOn(kind)]
GroupedBy(group, select) == [Base(select) EXCEPT !.group = group]
OverU(s) == [s EXCEPT !.from.table = "u"]
Both(left, right, all) == [left EXCEPT !.union = [right |-> right, all |-> all]]
Win(f, arg, partition, order, frame) ==
    [op |-> "window", func |-> f, arg |-> arg, partition |-> partition, order |-> order, frame |-> frame]
Frame(range, start, end, n, desc) ==
    [range |-> range, start |-> start, end |-> end, preceding |-> n, following |-> n, desc |-> desc]
OneCol(t) == [Base(<<Out(A)>>) EXCEPT !.from.table = t]

Wheres == {
    Cmp("eq", B, Lit(1)), Cmp("le", A, Lit(MaxWord)), Cmp("ge", Lit(1), B), Between(A, Lit(1), Lit(2)),
    And(Cmp("gt", A, Lit(1)), Cmp("lt", A, B)),
    And(Cmp("eq", A, B), Or(Cmp("eq", A, Lit(1)), Cmp("eq", B, Lit(2)))),
    Or(Cmp("eq", A, B), Not(Cmp("eq", A, Lit(2)))),
    Not(Or(Cmp("eq", A, B), Cmp("gt", A, Lit(1)))),
    And(Cmp("eq", A, B), Or(Cmp("eq", A, Lit(1)), Cmp("eq", Add(A, B), Lit(4)))),
    Cmp("ne", B, Lit(1)), In(B, <<Lit(1), Lit(Null)>>, FALSE), In(A, <<Lit(2), Lit(1)>>, TRUE),
    Cmp("eq", [op |-> "coalesce", args |-> <<B, A>>], Lit(2)),
    Cmp("eq", [op |-> "div", args |-> <<Lit(2), B>>], Lit(2)),
    Cmp("eq", [op |-> "case", args |-> <<Cmp("eq", A, B), Lit(1), A>>], Lit(1)),
    [op |-> "in_subquery", args |-> <<A>>, query |-> Where(OneCol("u"), Cmp("ne", S, Lit(1))), negated |-> FALSE],
    [op |-> "in_subquery", args |-> <<A>>, query |-> OneCol("u"), negated |-> TRUE],
    [op |-> "exists", query |-> Where(OneCol("u"), Cmp("eq", F, Lit(1))), negated |-> FALSE],
    Cmp("eq", A, [op |-> "subquery", query |-> OneCol("u")]) }

Plain == {Where(Base(select), where) : select \in {<<>>, <<Out(B)>>}, where \in Wheres}

Sorts == {
    Ordered(Base(<<>>), <<Asc(B)>>, 2, -1), Ordered(Base(<<Out(A)>>), <<Desc(B)>>, 1, 1),
    Ordered(Base(<<Out(A)>>), <<Desc(A), Asc(B)>>, 2, 1), Ordered(Base(<<>>), <<Desc(A)>>, 2, 1),
    Ordered(Base(<<>>), <<Asc(A)>>, -1, 1), Ordered(Base(<<>>), <<>>, 1, 1), Ordered(Base(<<Out(B)>>), <<Asc(B)>>, 0, -1),
    Ordered(Base(<<>>), <<>>, 0, -1), Ordered(Base(<<As(Add(A, B), "x")>>), <<Desc(Col(<<"", "x">>, "int"))>>, 2, -1),
    Where(Ordered(Base(<<Out(B)>>), <<Asc(A)>>, 2, -1), Cmp("gt", A, Lit(0))), Ordered(Base(<<>>), <<Asc(A)>>, 3, 1) }

Groups == {
    GroupedBy(<<A>>, <<Out(A), Out(CountStar), As(Agg("sum", B), "s")>>),
    [GroupedBy(<<A>>, <<Out(A), As(Agg("count", B), "n")>>) EXCEPT !.having = Cmp("ge", Agg("count", B), Lit(1))],
    [GroupedBy(<<A>>, <<Out(A), As(CountStar, "n")>>) EXCEPT !.having = Cmp("gt", Agg("max", B), Lit(1))],
    Ordered(GroupedBy(<<B>>, <<Out(B), As(Agg("min", A), "m")>>), <<Desc(Col(<<"", "m">>, "int"))>>, 1, -1),
    Where(Base(<<Out(Agg("sum", B)), Out(Agg("max", A))>>), Cmp("lt", A, B)),
    Base(<<Out(Agg("sum", A)), Out(Agg("sum", B))>>),
    [Base(<<Out(A)>>) EXCEPT !.distinct = TRUE], [Base(<<Out(A), Out(B)>>) EXCEPT !.distinct = TRUE] }

Joins == {JoinedTU(kind, <<>>) : kind \in {"inner", "left", "right", "full"}} \cup {
    JoinedTU("inner", <<Out(UF), As(Add(TA, UF), "x")>>),
    Where(JoinedTU("left", <<Out(TA), Out(UF)>>), Cmp("ge", TA, Lit(1))),
    [JoinedTU("inner", <<Out(TA)>>) EXCEPT !.joins[1].on = <<[left |-> TB, right |-> UN]>>],
    Where(JoinedTU("inner", <<Out(TA)>>), Between(UN, Lit(1), Lit(2))),
    Where(JoinedTU("inner", <<Out(TA)>>), Between(UN, Lit(1), Lit(6))),
    Where(JoinedTU("left", <<Out(TA)>>), Or(Cmp("eq", TA, UF), Cmp("eq", TA, Lit(1)))),
    Ordered(JoinedTU("full", <<Out(TA), Out(UF)>>), <<Desc(UF)>>, 2, -1),
    [JoinedTU("inner", <<Out(TA), Out(CountStar)>>) EXCEPT !.group = <<TA>>],
    [JoinedTU("inner", <<Out(TA)>>) EXCEPT !.joins[1].on = <<[left |-> TA, right |-> UA], [left |-> TB, right |-> UA]>>] }

Unions == {
    Both(Base(<<Out(A)>>), OverU(Base(<<Out(A)>>)), TRUE), Both(Base(<<Out(A)>>), OverU(Base(<<Out(A)>>)), FALSE),
    Both(Base(<<Out(B)>>), OverU(Base(<<Out(A)>>)), FALSE), Both(OverU(Base(<<Out(F)>>)), OverU(Base(<<Out(F)>>)), FALSE),
    Ordered(Both(Base(<<Out(A)>>), OverU(Base(<<Out(A)>>)), TRUE), <<Desc(A)>>, 2, -1),
    Ordered(Both(Base(<<As(Add(A, B), "x")>>), OverU(Base(<<As(A, "x")>>)), TRUE), <<>>, 2, -1) }

Windows == {
    Base(<<Out(A), As(Win("row_number", NoExpr, <<A>>, <<Desc(B)>>, NoExpr), "w")>>),
    Base(<<As(Win("rank", NoExpr, <<>>, <<Asc(A)>>, NoExpr), "w"), As(Win("dense_rank", NoExpr, <<>>, <<Asc(A)>>, NoExpr), "v")>>),
    Base(<<Out(B), As(Win("sum", B, <<A>>, <<>>, NoExpr), "w")>>),
    Where(Base(<<As(Win("count", B, <<>>, <<Asc(A)>>, NoExpr), "w")>>), Cmp("ge", A, Lit(1))),
    Base(<<As(Win("sum", A, <<>>, <<Asc(B)>>, Frame(FALSE, "offset", "current", 1, FALSE)), "w")>>),
    Base(<<As(Win("max", B, <<>>, <<Desc(A)>>, Frame(TRUE, "offset", "offset", 1, TRUE)), "w")>>),
    Ordered(Base(<<Out(A), As(Win("min", B, <<>>, <<>>, Frame(FALSE, "current", "unbounded", 0, FALSE)), "w")>>),
            <<Desc(Col(<<"", "w">>, "int"))>>, 2, -1) }

Cte(query, stmt) == [stmt EXCEPT !.with = <<[name |-> "c", query |-> query]>>, !.from.table = "c"]
Ctes == {
    Cte(Where(Base(<<Out(B), Out(A)>>), Cmp("ge", A, Lit(1))), Ordered(Base(<<>>), <<Asc(A)>>, 2, -1)),
    Cte(Base(<<Out(A), Out(B)>>), Base(<<Out(CountStar), Out(Agg("sum", B))>>)),
    Cte(Base(<<Out(A), Out(B)>>), Base(<<Out(B)>>)),
    Cte(Base(<<As(Add(A, B), "x"), Out(A)>>), Ordered(Base(<<>>), <<Asc(A)>>, 2, -1)),
    Where(Cte(Base(<<Out(A)>>), Base(<<>>)), [op |-> "exists", query |-> OneCol("c"), negated |-> FALSE]),
    [Base(<<>>) EXCEPT !.with = <<[name |-> "c", query |-> OneCol("t")], [name |-> "d", query |-> OneCol("c")]>>,
                       !.from.table = "d"],
    Cte(Base(<<Out(A)>>), Where(Base(<<>>), Cmp("eq", A, Lit(1)))) }

OfU == {OverU(s) : s \in {
    Where(Base(<<>>), And(Cmp("le", S, Lit(1)), Cmp("ge", F, Lit(1)))), Where(Base(<<Out(A)>>), Not(Cmp("gt", S, Lit(1)))),
    Ordered(Base(<<Out(S)>>), <<Desc(S)>>, 1, 1), Ordered(Base(<<>>), <<Asc(F)>>, 2, -1),
    GroupedBy(<<S>>, <<Out(S), As(Agg("sum", F), "n")>>), Base(<<Out(Agg("count", F))>>),
    Ordered([Base(<<As(S, "k")>>) EXCEPT !.distinct = TRUE], <<Asc(Col(<<"", "k">>, "text"))>>, 2, -1) }}

AllStatements == OfU \cup Plain \cup Sorts \cup Groups \cup Joins \cup Unions \cup Windows \cup Ctes
TwoAndOne == "t" :> 2 @@ "u" :> 1
OneEach == "t" :> 1 @@ "u" :> 1
SomeInserts == "t" :> {<<<<1, 1>>>>, <<<<2, 1>>, <<1, 2>>>>, <<<<2, Null>>>>, <<<<1, 1>>, <<2, 2>>>>}
            @@ "u" :> {<<<<1, 2, 1, 2>>>>, <<<<1, 1, 2, 1>>, <<2, Null, 2, 1>>>>}

\* Predicates whose masks share memory, and subqueries in a cached plan.
MaskStatements == {Where(Base(<<>>), where) : where \in {
    And(Cmp("eq", A, B), Or(Cmp("eq", A, Lit(1)), Cmp("eq", Add(A, B), Lit(4)))),
    And(Cmp("eq", A, B), Cmp("gt", B, Lit(0))) }}
CachedStatements == {Where(Base(<<>>), [op |-> "in_subquery", args |-> <<A>>, query |-> OneCol("u"), negated |-> FALSE])}
=============================================================================
