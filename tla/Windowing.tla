----------------------------- MODULE Windowing -----------------------------
(***************************************************************************)
(* WindowOp: the source is read whole, every function is worked out on the *)
(* rows sorted by partition and order, and the batches go out as they came *)
(* in with a column more for each function. A function is [func, arg,      *)
(* partition, order, frame, alias]: arg and frame are NoExpr for none.     *)
(***************************************************************************)
EXTENDS Grouping, Sorting

NoExpr == [op |-> "none"]
Ranking == {"row_number", "rank", "dense_rank"}

\* The value by which one row follows another: first the partition, then the order.
SortKeys(f) == [i \in DOMAIN f.partition |-> [expr |-> f.partition[i], desc |-> FALSE]] \o f.order
Parts(f, values, p) == SubSeq(values[p], 1, Len(f.partition))
Orders(f, values, p) == SubSeq(values[p], Len(f.partition) + 1, Len(values[p]))

\* frameRange, as places of the partition.
RowsFrame(frame, at, n) ==
    LET low == CASE frame.start = "unbounded" -> 1
                 [] frame.start = "current" -> at
                 [] OTHER -> at - frame.preceding
        high == CASE frame.end = "unbounded" -> n
                  [] frame.end = "current" -> at
                  [] OTHER -> at + frame.following
    IN Max({low, 1})..Min({high, n})

\* rangeFrameBounds: the frame is bounded by the value of the one order key.
RangeFrame(frame, at, places) ==
    LET n == Len(places)
        distance(i) == IF frame.desc THEN places[at] - places[i] ELSE places[i] - places[at]
        first == CASE frame.start = "unbounded" -> {}
                   [] frame.start = "current" -> {i \in 1..n : distance(i) < 0}
                   [] OTHER -> {i \in 1..n : distance(i) < -frame.preceding}
        last == CASE frame.end = "unbounded" -> {}
                  [] frame.end = "current" -> {i \in 1..n : distance(i) > 0}
                  [] OTHER -> {i \in 1..n : distance(i) > frame.following}
    IN 1..n \ (first \cup last)

\* computeAggregate: the rows of its partition that count for a row. Without a
\* frame, ORDER BY makes the aggregate run up to the row itself, ties or not.
FrameOf(f, at, places) ==
    CASE f.frame # NoExpr /\ f.frame.range -> RangeFrame(f.frame, at, places)
      [] f.frame # NoExpr /\ ~f.frame.range -> RowsFrame(f.frame, at, Len(places))
      [] f.frame = NoExpr -> 1..(IF f.order = <<>> THEN Len(places) ELSE at)

\* computeRankLike
RankOf(f, at, orders) ==
    CASE f.func = "row_number" -> at
      [] f.func = "rank" -> Cardinality({i \in 1..at : orders[i] # orders[at]}) + 1
      [] f.func = "dense_rank" -> Cardinality({orders[i] : i \in 1..at})

Place(mine, p) == CHOOSE i \in DOMAIN mine : mine[i] = p
Framed(f, mine, args, frame) == Accumulated(f.func, [i \in DOMAIN frame |-> args[mine[frame[i]]]])

\* The value at the place at of a partition, whose rows have these values to order by.
ValueOver(f, mine, args, orders, at) ==
    IF f.func \in Ranking THEN RankOf(f, at, orders)
    ELSE Framed(f, mine, args, Ascending(FrameOf(f, at, [i \in DOMAIN orders |-> IF orders[i] = <<>> THEN 0 ELSE orders[i][1]])))

ValueWithin(f, values, mine, args, p) ==
    ValueOver(f, mine, args, [i \in DOMAIN mine |-> Orders(f, values, mine[i])], Place(mine, p))
PartitionOf(f, values, order, p) == SelectSeq(order, LAMBDA q : Parts(f, values, q) = Parts(f, values, p))
ComputedFrom(f, values, order, args) ==
    [p \in DOMAIN values |-> ValueWithin(f, values, PartitionOf(f, values, order, p), args, p)]

\* What a function is at every row, in the order in which the rows arrived.
ComputedBy(f, values, args) == ComputedFrom(f, values, SortedBy(SortKeys(f), values), args)
Computed(f, batches, refs) ==
    ComputedBy(f, KeyValues(SortKeys(f), batches, refs),
               [p \in DOMAIN refs |-> IF f.arg = NoExpr THEN 0 ELSE ValueAt(f.arg, batches, refs[p])])

\* A function that cannot be worked out: its argument fails at some row, or a
\* RANGE frame has no single order key or meets a NULL in it.
Unworkable(f, batches, refs) ==
    \/ f.arg # NoExpr /\ \E p \in DOMAIN refs : ValueAt(f.arg, batches, refs[p]) = Err
    \/ /\ f.frame # NoExpr /\ f.frame.range
       /\ \/ Len(f.order) # 1
          \/ \E p \in DOMAIN refs : ValueAt(f.order[1].expr, batches, refs[p]) \in {Null, Err}

\* build, and Next: an unselected row shows zero.
Widened(held, refs, appended, columns) ==
    LET at(b, row) == CHOOSE p \in DOMAIN refs : refs[p] = <<b, row>>
        more(b, row) == [i \in DOMAIN columns |-> IF row \in held[b].sel THEN columns[i][at(b, row)] ELSE 0]
    IN Stream([b \in DOMAIN held |->
           [held[b] EXCEPT !.cols = @ \o appended, !.array = Own,
                           !.rows = [row \in DOMAIN @ |-> @[row] \o more(b, row)]]])

WindowedRefs(held, refs, funcs) ==
    IF refs = <<>> THEN Stream(<<>>)
    ELSE IF ~RefsFit(held) \/ \E i \in DOMAIN funcs : Unworkable(funcs[i], held, refs) THEN Broken(<<>>)
    ELSE Widened(held, refs, [i \in DOMAIN funcs |-> [name |-> funcs[i].alias, kind |-> "int"]],
                 [i \in DOMAIN funcs |-> Computed(funcs[i], held, refs)])

Windowed(source, funcs) ==
    IF source.end = "error" THEN Broken(<<>>)
    ELSE WindowedRefs(Held(source.batches), Refs(Held(source.batches)), funcs)
=============================================================================
