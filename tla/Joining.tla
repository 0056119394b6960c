------------------------------ MODULE Joining ------------------------------
(***************************************************************************)
(* HashJoinOp: the right side is read whole into a table of keys, then     *)
(* every batch of the left side probes it. kind is "inner", "left",        *)
(* "right" or "full"; a key is [left, right], two column names.            *)
(***************************************************************************)
EXTENDS Stream

KeepsLeft(kind) == kind \in {"left", "full"}
KeepsRight(kind) == kind \in {"right", "full"}

\* resolveJoinKeyCols, on the first batch of a side.
Resolves(batches, names) ==
    batches = <<>> \/ \A i \in DOMAIN names : HasColumn(batches[1].cols, names[i])

\* Integers of every width are keys alike.
Tag(kind) == IF kind = "int32" THEN "int" ELSE kind

\* encodeRow: a float is never like an integer. NULL has no key.
NoKey == <<>>
KeyOf(cols, row, names) ==
    LET at(i) == IndexOf(cols, names[i])
    IN IF \E i \in DOMAIN names : row[at(i)] = Null THEN NoKey
       ELSE [i \in DOMAIN names |-> <<Tag(cols[at(i)].kind), row[at(i)]>>]

Nulls(cols) == [i \in DOMAIN cols |-> Null]

\* collectRows: the matches of a left row in order of arrival, or one row
\* without a right side.
Probe(left, row, leftNames, right, rightNames, rightCols, kind) ==
    LET key == KeyOf(left.cols, left.rows[row], leftNames)
        matches == SelectSeq(Refs(right), LAMBDA ref :
                       key # NoKey /\ KeyOf(right[ref[1]].cols, RowAt(right, ref), rightNames) = key)
    IN IF matches # <<>> THEN [i \in DOMAIN matches |-> left.rows[row] \o RowAt(right, matches[i])]
       ELSE IF KeepsLeft(kind) THEN <<left.rows[row] \o Nulls(rightCols)>>
       ELSE <<>>

\* drainUnmatchedRight
Unmatched(left, leftNames, right, rightNames) ==
    LET probed == {KeyOf(left[ref[1]].cols, RowAt(left, ref), leftNames) : ref \in ToSet(Refs(left))}
    IN SelectSeq(Refs(right), LAMBDA ref :
           LET key == KeyOf(right[ref[1]].cols, RowAt(right, ref), rightNames)
           IN key = NoKey \/ key \notin probed)

\* The columns of a side that had no batch come from the plan.
TemplateOf(batches, outputs) ==
    IF batches # <<>> THEN batches[1].cols
    ELSE [i \in DOMAIN outputs |-> [name |-> OutputName(outputs[i]), kind |-> KindOf(outputs[i].expr)]]

\* Chunks of one left batch, then of the next: a join does not fill them up.
Matched(left, right, kind, leftNames, rightNames, leftCols, rightCols) ==
    LET sides(batch) ==
            LET sel == Ascending(batch.sel)
            IN FlattenSeq([i \in DOMAIN sel |-> Probe(batch, sel[i], leftNames, right, rightNames, rightCols, kind)])
        lone == Unmatched(left.batches, leftNames, right, rightNames)
        rest == IF KeepsRight(kind) /\ left.end = "end"
                THEN Emitted(leftCols \o rightCols, [i \in DOMAIN lone |-> Nulls(leftCols) \o RowAt(right, lone[i])])
                ELSE [batches |-> <<>>, end |-> left.end]
    IN Following([i \in DOMAIN left.batches |-> Emitted(leftCols \o rightCols, sides(left.batches[i]))] \o <<rest>>)

JoinedBy(left, right, held, kind, leftNames, rightNames, leftOutputs, rightOutputs) ==
    IF right.end = "error" \/ ~Resolves(right.batches, rightNames) \/ ~RefsFit(held) \/ ~Resolves(left.batches, leftNames)
    THEN Broken(<<>>)
    ELSE Matched(left, held, kind, leftNames, rightNames, TemplateOf(left.batches, leftOutputs), TemplateOf(held, rightOutputs))

Joined(left, right, kind, keys, leftOutputs, rightOutputs) ==
    JoinedBy(left, right, Held(right.batches), kind, [i \in DOMAIN keys |-> keys[i].left.name],
             [i \in DOMAIN keys |-> keys[i].right.name], leftOutputs, rightOutputs)
=============================================================================
