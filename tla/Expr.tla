------------------------------- MODULE Expr --------------------------------
(***************************************************************************)
(* Bound expressions and the row-by-row evaluator.                         *)
(*                                                                         *)
(* An expression is a record with an op and, for most ops, args. Integers  *)
(* are words of WordBits bits; a text is a number too, of which only order *)
(* and equality matter. A name is a pair of an alias, "" for none, and a   *)
(* column.                                                                 *)
(***************************************************************************)
EXTENDS Integers, Sequences, SequencesExt

CONSTANTS
    Null,      \* the value of an empty cell
    Err,       \* what an evaluation that fails returns
    WordBits,  \* width of an int64
    NarrowBits \* width of an int32

ValuesAssumption == Null \notin Int /\ Err \notin Int /\ Null # Err
WidthAssumption == {WordBits, NarrowBits} \subseteq Nat \ {0} /\ NarrowBits <= WordBits

MinWord == -(2 ^ (WordBits - 1))
MaxWord == 2 ^ (WordBits - 1) - 1
WrapTo(bits, n) == ((n + 2 ^ (bits - 1)) % (2 ^ bits)) - 2 ^ (bits - 1)
Wrap(n) == WrapTo(WordBits, n)

Col(name, kind) == [op |-> "column", name |-> name, kind |-> kind]
Lit(v) == [op |-> "literal", lit |-> v]
Cmp(op, a, b) == [op |-> op, args |-> <<a, b>>]
And(a, b) == [op |-> "and", args |-> <<a, b>>]
Or(a, b) == [op |-> "or", args |-> <<a, b>>]
Not(a) == [op |-> "not", args |-> <<a>>]
In(target, candidates, negated) ==
    [op |-> "in", args |-> <<target>> \o candidates, negated |-> negated]
Between(target, low, high) == [op |-> "between", args |-> <<target, low, high>>]

Comparisons == {"eq", "ne", "lt", "le", "gt", "ge"}
Compares(op, a, b) == CASE op = "eq" -> a = b
                        [] op = "ne" -> a # b
                        [] op = "lt" -> a < b
                        [] op = "le" -> a <= b
                        [] op = "gt" -> a > b
                        [] op = "ge" -> a >= b

\* compare: NULL when an operand is.
Compared(op, a, b) == IF Null \in {a, b} THEN Null ELSE Compares(op, a, b)

\* logicalAnd and logicalOr, of three values.
LogicalAnd(a, b) == IF a = FALSE \/ b = FALSE THEN FALSE ELSE IF Null \in {a, b} THEN Null ELSE TRUE
LogicalOr(a, b) == IF a = TRUE \/ b = TRUE THEN TRUE ELSE IF Null \in {a, b} THEN Null ELSE FALSE

\* Division truncates towards zero; the remainder has the sign of the dividend.
Abs(n) == IF n < 0 THEN -n ELSE n
Quotient(a, b) == LET q == Abs(a) \div Abs(b) IN IF (a < 0) # (b < 0) THEN -q ELSE q
Arithmetic(op, a, b) ==
    CASE Null \in {a, b} -> Null
      [] op \in {"div", "mod"} /\ b = 0 -> Err
      [] op = "add" -> Wrap(a + b)
      [] op = "sub" -> Wrap(a - b)
      [] op = "mul" -> Wrap(a * b)
      [] op = "div" -> Wrap(Quotient(a, b))
      [] op = "mod" -> a - b * Quotient(a, b)

\* The column of a batch an expression names: the first of the name.
Columns(cols, name) == {i \in DOMAIN cols : cols[i].name = name}
HasColumn(cols, name) == Columns(cols, name) # {}
IndexOf(cols, name) == CHOOSE i \in Columns(cols, name) : \A j \in Columns(cols, name) : i <= j

\* evalCase: the first WHEN that is true, or fails, decides.
CaseOf(v) ==
    LET n == Len(v)
        whens == {i \in 1..(n - 1) : i % 2 = 1 /\ v[i] \in {TRUE, Err}}
        first == CHOOSE i \in whens : \A j \in whens : i <= j
    IN IF whens = {} THEN v[n] ELSE IF v[first] = Err THEN Err ELSE v[first + 1]

\* evalIn: a candidate that is NULL is passed over, so NOT IN is true of it.
InOf(v, negated) ==
    LET hits == {i \in 2..Len(v) : v[i] = v[1]}
    IN IF v[1] \in {Null, Err} THEN v[1]
       ELSE IF \E i \in 2..Len(v) : v[i] = Err /\ \A j \in hits : i < j THEN Err
       ELSE (hits # {}) # negated

\* evalBetween: the bounds are looked at only when there is a target.
BetweenOf(v) ==
    IF v[1] \in {Null, Err} THEN v[1]
    ELSE IF Err \in {v[2], v[3]} THEN Err
    ELSE IF Null \in {v[2], v[3]} THEN Null
    ELSE v[2] <= v[1] /\ v[1] <= v[3]

\* Ops that may return before they look at every operand.
Lazy == {"literal", "column", "coalesce", "nullif", "case", "in", "between"}

RECURSIVE Eval(_, _, _)
\* eval. Both operands of AND and OR are evaluated: an error of the second is
\* one of the whole whatever the first is.
Eval(e, cols, row) ==
    LET v == [i \in DOMAIN e.args |-> Eval(e.args[i], cols, row)]
    IN CASE e.op = "literal" -> e.lit
         [] e.op = "column" -> IF HasColumn(cols, e.name) THEN row[IndexOf(cols, e.name)] ELSE Err
         [] e.op = "coalesce" -> IF v[1] = Null THEN v[2] ELSE v[1]
         [] e.op = "nullif" -> IF v[1] \in {Null, Err} THEN v[1]
                               ELSE IF v[2] = v[1] THEN Null
                               ELSE IF v[2] = Err THEN Err ELSE v[1]
         [] e.op = "case" -> CaseOf(v)
         [] e.op = "in" -> InOf(v, e.negated)
         [] e.op = "between" -> BetweenOf(v)
         [] e.op \notin Lazy ->
               IF \E i \in DOMAIN v : v[i] = Err THEN Err
               ELSE CASE e.op = "not" -> IF v[1] = Null THEN Null ELSE ~v[1]
                      [] e.op = "abs" -> IF v[1] = Null THEN Null ELSE Wrap(Abs(v[1]))
                      [] e.op = "and" -> LogicalAnd(v[1], v[2])
                      [] e.op = "or" -> LogicalOr(v[1], v[2])
                      [] e.op \in Comparisons -> Compared(e.op, v[1], v[2])
                      [] OTHER -> Arithmetic(e.op, v[1], v[2])
=============================================================================
