------------------------------- MODULE Filter ------------------------------
(***************************************************************************)
(* FilterOp: which rows of a batch a predicate keeps, worked out on masks  *)
(* of rows rather than row by row.                                         *)
(*                                                                         *)
(* A batch is [cols, rows, sel, array]: its columns with name and kind,    *)
(* its rows, the set of the rows that are selected, and the operator whose *)
(* column array it lives in, Own when that is the batch's own.             *)
(*                                                                         *)
(* A mask that is handed down as scratch space is written in place. Where  *)
(* it is also the input, whatever reads the input later reads what was     *)
(* written. A step therefore returns the mask it made and what its input   *)
(* mask holds afterwards; shared says that the two are the same memory.    *)
(***************************************************************************)
EXTENDS Expr, FiniteSets

Own == <<>>
Fresh(cols, rows) == [cols |-> cols, rows |-> rows, sel |-> DOMAIN rows, array |-> Own]

\* makeFilterLeaf and applyLeaf: a column against literals of its kind, as one
\* pass over the column. Everything else goes row by row.
Vectorised == {"int", "int32", "float", "text"}
IsLiteral(e) == e.op = "literal" /\ e.lit \in Int
IsLeaf(e, cols) ==
    /\ e.op \in Comparisons \cup {"between"}
    /\ \/ e.args[1].op = "column" /\ \A i \in 2..Len(e.args) : IsLiteral(e.args[i])
       \/ e.op \in Comparisons /\ e.args[2].op = "column" /\ IsLiteral(e.args[1])
    /\ \A i \in DOMAIN e.args : e.args[i].op = "column" =>
          HasColumn(cols, e.args[i].name) /\ cols[IndexOf(cols, e.args[i].name)].kind \in Vectorised

\* A leaf converts its literals to the width of the column.
Narrowed(e, cols) ==
    LET narrow == \E i \in DOMAIN e.args : /\ e.args[i].op = "column"
                                           /\ cols[IndexOf(cols, e.args[i].name)].kind = "int32"
    IN IF ~narrow THEN e
       ELSE [e EXCEPT !.args = [i \in DOMAIN e.args |->
                IF e.args[i].op = "literal" THEN Lit(WrapTo(NarrowBits, e.args[i].lit)) ELSE e.args[i]]]

True(e, batch, row) == Eval(e, batch.cols, batch.rows[row]) = TRUE
Fails(e, batch, rows) == \E row \in rows : Eval(e, batch.cols, batch.rows[row]) = Err

\* The mask made and the input mask after it; Failed when a row cannot be evaluated.
Made(out, in, shared) == [out |-> out, in |-> IF shared THEN out ELSE in]
Failed == [out |-> Err, in |-> Err]

\* filterRowByRow clears its output first.
RowByRow(e, batch, in, shared) ==
    LET read == IF shared THEN {} ELSE in
    IN IF Fails(e, batch, read) THEN Failed
       ELSE Made({row \in read : True(e, batch, row)}, in, shared)

RECURSIVE Apply(_, _, _, _)
\* filterPredicate. The right child of AND gets the left one's mask both as
\* input and as scratch; OR hands its scratch to the left child only, and its
\* right child reads the input after that; NOT complements the child's mask
\* and then cuts it down to the input.
Apply(e, batch, in, shared) ==
    CASE e.op = "and" ->
            LET left == Apply(e.args[1], batch, in, shared)
            IN IF left = Failed \/ left.out = {} THEN left
               ELSE LET right == Apply(e.args[2], batch, left.out, TRUE)
                    IN IF right = Failed THEN Failed ELSE Made(right.out, in, shared)
      [] e.op = "or" ->
            LET left == Apply(e.args[1], batch, in, shared)
                right == Apply(e.args[2], batch, left.in, FALSE)
            IN IF left = Failed \/ right = Failed THEN Failed
               ELSE Made(left.out \cup right.out, in, shared)
      [] e.op = "not" ->
            LET child == Apply(e.args[1], batch, in, shared)
                turned == DOMAIN batch.rows \ child.out
            IN IF child = Failed THEN Failed
               ELSE Made(turned \cap (IF shared THEN turned ELSE in), in, shared)
      [] OTHER ->
            IF IsLeaf(e, batch.cols)
            THEN Made({row \in in : True(Narrowed(e, batch.cols), batch, row)}, in, shared)
            ELSE RowByRow(e, batch, in, shared)

\* What FilterOp, HAVING and EvalPredicate start with.
Kept(e, batch) == Apply(e, batch, batch.sel, FALSE).out

-----------------------------------------------------------------------------
(* The plain reading: one row at a time. NOT keeps what its operand does not, *)
(* a row whose operand is NULL too; below the logical operators a value that  *)
(* is NULL keeps nothing.                                                     *)

RECURSIVE Keeps(_, _, _)
Keeps(e, cols, row) ==
    CASE e.op \in {"and", "or"} -> LET a == Keeps(e.args[1], cols, row)
                                       b == Keeps(e.args[2], cols, row)
                                   IN IF e.op = "and" THEN a /\ b ELSE a \/ b
      [] e.op = "not" -> ~Keeps(e.args[1], cols, row)
      [] OTHER -> Eval(e, cols, row) = TRUE

RECURSIVE ScratchSafe(_, _, _)
\* No step writes a mask that is still to be read: to the right of an AND, only
\* a leaf, or an AND of such.
ScratchSafe(e, cols, shared) ==
    CASE e.op = "and" -> ScratchSafe(e.args[1], cols, shared) /\ ScratchSafe(e.args[2], cols, TRUE)
      [] e.op = "or" -> ~shared /\ ScratchSafe(e.args[1], cols, FALSE) /\ ScratchSafe(e.args[2], cols, FALSE)
      [] e.op = "not" -> ~shared /\ ScratchSafe(e.args[1], cols, FALSE)
      [] OTHER -> ~shared \/ IsLeaf(e, cols)
=============================================================================
