----------------------------- MODULE Predicate -----------------------------
(***************************************************************************)
(* WHERE clauses: as the planner binds them, the part of them that is      *)
(* pushed into the scan, and what storage can tell about a whole pushed    *)
(* predicate from a segment, from a page, and on the encoded values.       *)
(*                                                                         *)
(* A clause is a comparison, [op |-> "cmp", ...], or AND, OR, NOT of       *)
(* clauses in args. BETWEEN and IN are the conjunction and the disjunction *)
(* they stand for. A predicate is [op |-> "leaf", leaf |-> ...] or AND,    *)
(* OR, NOT of predicates.                                                  *)
(***************************************************************************)
EXTENDS Segment, SequencesExt

Cmp(cmp, col, lit) == [op |-> "cmp", cmp |-> cmp, id |-> col.id, name |-> col.name,
                       kind |-> col.kind, lit |-> lit]
And(a, b) == [op |-> "and", args |-> <<a, b>>]
Or(a, b) == [op |-> "or", args |-> <<a, b>>]
Not(a) == [op |-> "not", args |-> <<a>>]

Nothing == [op |-> "none"]

-----------------------------------------------------------------------------
(* Lowering *)

\* An integer leaf is built for an int64 whatever the column is.
Leaf(e, op, lit) ==
    [op |-> "leaf",
     leaf |-> [op |-> op, name |-> e.name, id |-> e.id, lit |-> lit,
               kind |-> IF e.kind = "text" THEN "text" ELSE "int64"]]

\* Mutant: the neighbour of the literal is taken without a look at the limits.
LowerCmpBug(e) ==
    CASE e.kind # "text" /\ e.cmp = "le" -> Leaf(e, "lt", Wrap(e.lit + 1))
      [] e.kind # "text" /\ e.cmp = "ge" -> Leaf(e, "gt", Wrap(e.lit - 1))
      [] e.cmp = "ne" -> IF e.kind = "text" THEN Nothing ELSE Not(Leaf(e, "eq", e.lit))
      [] OTHER -> Leaf(e, e.cmp, e.lit)

\* loweredComparison.
LowerCmp(e) ==
    CASE e.kind # "text" /\ e.cmp = "le" ->
            IF e.lit = MaxWord THEN Nothing ELSE Leaf(e, "lt", e.lit + 1)
      [] e.kind # "text" /\ e.cmp = "ge" ->
            IF e.lit = MinWord THEN Nothing ELSE Leaf(e, "gt", e.lit - 1)
      [] e.cmp = "ne" -> IF e.kind = "text" THEN Nothing ELSE Not(Leaf(e, "eq", e.lit))
      [] OTHER -> Leaf(e, e.cmp, e.lit)

RECURSIVE Lower(_)
\* loweredPredicate: all of it or nothing.
Lower(e) ==
    IF e.op = "cmp" THEN LowerCmp(e)
    ELSE LET args == [i \in DOMAIN e.args |-> Lower(e.args[i])]
         IN IF \E i \in DOMAIN args : args[i] = Nothing THEN Nothing
            ELSE [op |-> e.op, args |-> args]

RECURSIVE Conjuncts(_)
Conjuncts(e) == CASE e = Nothing -> <<>>
                  [] e.op = "and" -> Conjuncts(e.args[1]) \o Conjuncts(e.args[2])
                  [] OTHER -> <<e>>

Conjoined(preds) == CASE preds = <<>> -> Nothing
                      [] Len(preds) = 1 -> preds[1]
                      [] OTHER -> [op |-> "and", args |-> preds]

\* splitWhere: the conjuncts that can be lowered are pushed, the others stay.
Pushed(e) == LET cs == Conjuncts(e)
             IN Conjoined(SelectSeq([i \in DOMAIN cs |-> Lower(cs[i])], LAMBDA p : p # Nothing))
Residual(e) == SelectSeq(Conjuncts(e), LAMBDA c : Lower(c) = Nothing)

RECURSIVE LeavesOf(_)
LeavesOf(pred) == CASE pred = Nothing -> {}
                    [] pred.op = "leaf" -> {pred.leaf}
                    [] OTHER -> UNION {LeavesOf(pred.args[i]) : i \in DOMAIN pred.args}

RECURSIVE ColumnsOf(_)
ColumnsOf(e) == CASE e = Nothing -> {}
                  [] e.op = "cmp" -> {e.id}
                  [] OTHER -> UNION {ColumnsOf(e.args[i]) : i \in DOMAIN e.args}

-----------------------------------------------------------------------------
(* Evaluation. row gives the value of each column. *)

RECURSIVE Eval(_, _)
\* Pred.Apply on decoded values: NOT is the complement, also of rows whose
\* value is NULL.
Eval(pred, row) ==
    CASE pred.op = "leaf" -> EvalLeaf(pred.leaf, row[pred.leaf.id])
      [] pred.op = "and" -> \A i \in DOMAIN pred.args : Eval(pred.args[i], row)
      [] pred.op = "or" -> \E i \in DOMAIN pred.args : Eval(pred.args[i], row)
      [] pred.op = "not" -> ~Eval(pred.args[1], row)

RECURSIVE Holds(_, _)
\* A clause on a row, as a plain pass over the rows decides it: NOT is the
\* complement, here as in FilterOp. <> on integers is NOT =, as it is lowered,
\* so it is true of a NULL; on texts it is a comparison like the others. (An
\* integer <> that is not pushed would be one too: no clause asked has one.)
Holds(e, row) ==
    CASE e.op = "cmp" /\ e.cmp = "ne" /\ e.kind # "text" -> row[e.id] # e.lit
      [] e.op = "cmp" /\ e.cmp = "ne" /\ e.kind = "text" -> row[e.id] \notin {Null, e.lit}
      [] e.op = "cmp" /\ e.cmp # "ne" -> row[e.id] # Null /\ Compares(e.cmp, row[e.id], e.lit)
      [] e.op = "and" -> \A i \in DOMAIN e.args : Holds(e.args[i], row)
      [] e.op = "or" -> \E i \in DOMAIN e.args : Holds(e.args[i], row)
      [] e.op = "not" -> ~Holds(e.args[1], row)

-----------------------------------------------------------------------------
(* What storage concludes about a predicate *)

RECURSIVE SkipsSegment(_, _)
\* PruneSegment.
SkipsSegment(seg, pred) ==
    CASE pred.op = "leaf" -> LeafSkipsSegment(seg, pred.leaf)
      [] pred.op = "and" -> \E i \in DOMAIN pred.args : SkipsSegment(seg, pred.args[i])
      [] pred.op = "or" -> \A i \in DOMAIN pred.args : SkipsSegment(seg, pred.args[i])
      [] pred.op = "not" -> /\ pred.args[1].op = "leaf"
                            /\ LeafHoldsOnSegment(seg, pred.args[1].leaf)

RECURSIVE SkipsPage(_, _, _)
\* PrunePage.
SkipsPage(seg, p, pred) ==
    CASE pred.op = "leaf" -> LeafSkipsPage(seg, p, pred.leaf)
      [] pred.op = "and" -> \E i \in DOMAIN pred.args : SkipsPage(seg, p, pred.args[i])
      [] pred.op = "or" -> \A i \in DOMAIN pred.args : SkipsPage(seg, p, pred.args[i])
      [] pred.op = "not" -> /\ pred.args[1].op = "leaf"
                            /\ LeafHoldsOnPage(seg, p, pred.args[1].leaf)

RECURSIVE MatchesPage(_, _, _)
\* predicateAlwaysMatchesPage.
MatchesPage(seg, p, pred) ==
    CASE pred.op = "leaf" -> LeafHoldsOnPage(seg, p, pred.leaf)
      [] pred.op = "and" -> \A i \in DOMAIN pred.args : MatchesPage(seg, p, pred.args[i])
      [] pred.op = "or" -> \E i \in DOMAIN pred.args : MatchesPage(seg, p, pred.args[i])
      [] pred.op = "not" -> SkipsPage(seg, p, pred.args[1])

RECURSIVE Truth(_, _, _)
\* predTruthOnSyntheticNulls: three-valued, over the columns the segment
\* lacks. defaults gives the default of the columns whose default is known.
Truth(seg, pred, defaults) ==
    LET args == {Truth(seg, pred.args[i], defaults) : i \in DOMAIN pred.args}
        id == pred.leaf.id
    IN CASE pred.op = "leaf" ->
              IF ById(seg, id) # 0 \/ (id \in DOMAIN defaults /\ defaults[id] # Null)
              THEN "unknown" ELSE "false"
         [] pred.op = "and" -> IF "false" \in args THEN "false"
                               ELSE IF "unknown" \in args THEN "unknown" ELSE "true"
         [] pred.op = "or" -> IF "true" \in args THEN "true"
                              ELSE IF "unknown" \in args THEN "unknown" ELSE "false"
         [] pred.op = "not" -> CASE args = {"false"} -> "true"
                                 [] args = {"true"} -> "false"
                                 [] OTHER -> "unknown"
=============================================================================
