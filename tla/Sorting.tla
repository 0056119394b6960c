------------------------------ MODULE Sorting ------------------------------
(***************************************************************************)
(* SortOp and TopKScanOp: ORDER BY with the LIMIT and OFFSET the planner   *)
(* fused into it. A key is [expr, desc]; k = 0 stands for no LIMIT.        *)
(***************************************************************************)
EXTENDS Stream

CONSTANTS HeapMax \* the largest heap a streaming top-K may have

IntLike == {"int", "int32"}
OneKey(keys) == Len(keys) = 1 /\ keys[1].expr.op = "column"
FastInt(keys) == OneKey(keys) /\ keys[1].expr.kind \in IntLike
Streams(keys, k, offset) == k > 0 /\ FastInt(keys) /\ k + offset <= HeapMax

\* NULL is the least of all values; DESC turns the order round, NULL with it.
Less(a, b) == a # b /\ b # Null /\ (a = Null \/ a < b)
KeyLess(key, a, b) == IF key.desc THEN Less(b, a) ELSE Less(a, b)

\* The order of two rows with these key values; rows that tie stay in order of arrival.
SortsBefore(keys, values, p, q) ==
    LET differ == {i \in DOMAIN keys : values[p][i] # values[q][i]}
    IN IF differ = {} THEN p < q
       ELSE KeyLess(keys[Min(differ)], values[p][Min(differ)], values[q][Min(differ)])

SortedBy(keys, values) == SortSeq([p \in DOMAIN values |-> p], LAMBDA p, q : SortsBefore(keys, values, p, q))

\* applyLimitOffset, and the end of the streaming top-K.
Cut(order, k, offset) == SubSeq(order, offset + 1, Min({offset + k, Len(order)}))

KeyValues(keys, batches, refs) == [i \in DOMAIN refs |-> [j \in DOMAIN keys |-> ValueAt(keys[j].expr, batches, refs[i])]]
RowsAt(batches, refs, order) == [i \in DOMAIN order |-> RowAt(batches, refs[order[i]])]

\* The full sort of one integer key does not look at k and offset.
Trimmed(order, keys, k, offset) ==
    IF k <= 0 \/ (FastInt(keys) /\ ~Streams(keys, k, offset)) THEN order ELSE Cut(order, k, offset)

\* materializeChunk
Arranged(held, refs, values, keys, k, offset) ==
    IF refs = <<>> THEN Stream(<<>>)
    ELSE IF ~RefsFit(held) \/ \E i \in DOMAIN values : \E j \in DOMAIN keys : values[i][j] = Err THEN Broken(<<>>)
    ELSE Emitted(held[1].cols, RowsAt(held, refs, Trimmed(SortedBy(keys, values), keys, k, offset)))

\* build. The streaming top-K reads the keys as the batches arrive, the other
\* ways when all have; the rows are always copied at the end.
SortedRefs(source, held, refs, keys, k, offset) ==
    Arranged(held, refs, KeyValues(keys, IF Streams(keys, k, offset) THEN source.batches ELSE held, refs), keys, k, offset)
Sorted(source, keys, k, offset) ==
    IF source.end = "error" THEN Broken(<<>>)
    ELSE SortedRefs(source, Held(source.batches), Refs(source.batches), keys, k, offset)

-----------------------------------------------------------------------------
(* TopKScanOp reads the key column first and the others only for the rows it *)
(* keeps. It answers with one batch, an empty one too.                       *)

TakesLate(keys, k, offset) == k > 0 /\ FastInt(keys) /\ k + offset <= ChunkRows

TopKRows(batches, refs, keys, k, offset) ==
    RowsAt(batches, refs, Cut(SortedBy(keys, KeyValues(keys, batches, refs)), k, offset))
TopKScanned(source, cols, keys, k, offset) ==
    IF source.end = "error" THEN Broken(<<>>)
    ELSE Stream(<<Fresh(cols, TopKRows(source.batches, Refs(source.batches), keys, k, offset))>>)
=============================================================================
