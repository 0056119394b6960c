------------------------------ MODULE Segment ------------------------------
(***************************************************************************)
(* What a segment file knows about its own contents, and what one          *)
(* comparison of a WHERE clause can conclude from it without decoding:     *)
(* statistics and filters per column and per page, and evaluation on the   *)
(* encoded values.                                                         *)
(*                                                                         *)
(* Integers are words of WordBits bits, the int64 of the code; an int32    *)
(* has NarrowBits. Texts are numbers too: only their order and equality    *)
(* matter. A page is the sequence of the cells of one column; pages of     *)
(* the columns of a segment line up.                                       *)
(***************************************************************************)
EXTENDS Integers, Sequences, FiniteSets, FiniteSetsExt, Functions

CONSTANTS
    Null,        \* the value of an empty cell
    WordBits,    \* width of an int64
    NarrowBits   \* width of an int32

NullAssumption == Null \notin Int
WidthAssumption ==
    /\ NarrowBits \in Nat \ {0}
    /\ WordBits = 2 * NarrowBits

Kinds == {"int32", "int64", "text"}
IntKinds == {"int32", "int64"}

\* The powers of two, as a function that can be reasoned about.
TwoTo[n \in 0..WordBits] == IF n = 0 THEN 1 ELSE 2 * TwoTo[n - 1]

MaxWord == TwoTo[WordBits - 1] - 1
MinWord == -TwoTo[WordBits - 1]

\* Two's complement.
Wrap(n) == ((n - MinWord) % TwoTo[WordBits]) + MinWord

\* bits.Len64 of a span.
BitLength(n) == CHOOSE w \in 0..WordBits :
                   TwoTo[w] > n /\ (w > 0 => TwoTo[w - 1] <= n)

KindBits(kind) == IF kind = "int32" THEN NarrowBits ELSE WordBits

\* What a cell of a column can hold.
Storable(kind) ==
    LET limit == TwoTo[KindBits(kind) - 1]
    IN (IF kind \in IntKinds THEN -limit..(limit - 1) ELSE Int) \cup {Null}

-----------------------------------------------------------------------------
(* Pages and columns. A column of a segment keeps the name and the id the     *)
(* table's column had when the segment was written; packed says whether the   *)
(* codec chooser settled on FOR (integers) or a dictionary (texts) where they *)
(* fit.                                                                       *)

Values(page) == {page[r] : r \in DOMAIN page} \ {Null}
AllNull(page) == Values(page) = {}
AllValid(page) == Null \notin {page[r] : r \in DOMAIN page}
Mixed(page) == ~AllNull(page) /\ ~AllValid(page)

Rows(col) == UNION {{p} \X DOMAIN col.pages[p] : p \in DOMAIN col.pages}
Cell(col, pos) == col.pages[pos[1]][pos[2]]
NullRows(col) == {pos \in Rows(col) : Cell(col, pos) = Null}

\* writePayloads: only a page without NULLs reaches analyzePage, so only its
\* cells get into the column's statistics and filters.
AnalyzedRows(col) == {pos \in Rows(col) : AllValid(col.pages[pos[1]])}
Analyzed(col) == {Cell(col, pos) : pos \in AnalyzedRows(col)}

\* Statistics that were never filled are sixteen zero bytes.
LowHigh(S) == IF S = {} THEN [min |-> 0, max |-> 0] ELSE [min |-> Min(S), max |-> Max(S)]
ColumnStats(col) == LowHigh(Analyzed(col))

\* numericStatsFromCol reads two int64 whatever the column's kind: of an int32
\* column both bounds end up in the first of them.
StatsReadAsInt64(col) ==
    LET s == ColumnStats(col)
    IN IF col.kind = "int64" THEN s
       ELSE [min |-> s.max * TwoTo[NarrowBits] + (s.min % TwoTo[NarrowBits]), max |-> 0]

\* pageMinMaxInt: there are bounds unless the page is all NULL.
HasPageStats(col, p) == col.kind \in IntKinds /\ ~AllNull(col.pages[p])
PageStats(col, p) == LowHigh(Values(col.pages[p]))

\* The filters of the sidecars. They are taken to be exact: a false positive
\* of a bloom filter only keeps what an exact one skips.
IntFilterRejects(col, v) == Analyzed(col) # {} /\ v \notin Analyzed(col)
HasHistogram(col) == Analyzed(col) # {}
Histogram(col, v) == Cardinality({pos \in AnalyzedRows(col) : Cell(col, pos) = v})
HasPageBloom(col, p) == /\ AllValid(col.pages[p])
                        /\ \E q \in DOMAIN col.pages : q > 1 /\ AllValid(col.pages[q])

\* The sum is kept unless a running sum left the words.
Upto(a, b) == a[1] < b[1] \/ (a[1] = b[1] /\ a[2] <= b[2])
SumOver(col, rows) == SumFunction([pos \in rows |-> Cell(col, pos)])
HasSum(col) ==
    /\ Analyzed(col) # {}
    /\ \A pos \in AnalyzedRows(col) :
          SumOver(col, {x \in AnalyzedRows(col) : Upto(x, pos)}) \in MinWord..MaxWord
Sum(col) == SumOver(col, AnalyzedRows(col))

-----------------------------------------------------------------------------
(* A leaf is one comparison of a column with a literal, as it is pushed down: *)
(* integers know eq, lt and gt, texts also le and ge. It names its column by  *)
(* the name the table uses now and by id.                                     *)

Compares(op, a, b) == CASE op = "eq" -> a = b
                        [] op = "lt" -> a < b
                        [] op = "le" -> a <= b
                        [] op = "gt" -> a > b
                        [] op = "ge" -> a >= b

\* Eval: a NULL satisfies no comparison.
EvalLeaf(leaf, v) == v # Null /\ Compares(leaf.op, v, leaf.lit)

\* Column indexes of a segment; 0 when there is none.
First(S) == IF S = {} THEN 0 ELSE Min(S)
ById(seg, id) == First({i \in DOMAIN seg.cols : seg.cols[i].id = id})
ByName(seg, name) == First({i \in DOMAIN seg.cols : seg.cols[i].name = name})

\* findSegmentColumnByID falls back to the name.
Find(seg, leaf) == IF ById(seg, leaf.id) # 0 THEN ById(seg, leaf.id)
                   ELSE ByName(seg, leaf.name)

\* PruneSegment of the leaves: no row of the segment can satisfy the leaf.
LeafSkipsSegment(seg, leaf) ==
    LET i == Find(seg, leaf)
        col == seg.cols[i]
        stats == StatsReadAsInt64(col)
    IN /\ i # 0
       /\ \/ /\ leaf.kind = "text" /\ leaf.op = "eq"
             /\ HasHistogram(col) /\ Histogram(col, leaf.lit) = 0
          \/ /\ leaf.kind = "int64" /\ leaf.op = "eq"
             /\ \/ leaf.lit \notin stats.min..stats.max
                \/ IntFilterRejects(col, leaf.lit)
          \/ leaf.kind = "int64" /\ leaf.op = "lt" /\ stats.min >= leaf.lit
          \/ leaf.kind = "int64" /\ leaf.op = "gt" /\ stats.max <= leaf.lit

\* PrunePage of the leaves.
LeafSkipsPage(seg, p, leaf) ==
    LET i == Find(seg, leaf)
        col == seg.cols[i]
        stats == PageStats(col, p)
    IN /\ i # 0
       /\ \/ /\ leaf.kind = "text" /\ leaf.op = "eq"
             /\ \/ AllNull(col.pages[p])
                \/ HasPageBloom(col, p) /\ leaf.lit \notin Values(col.pages[p])
          \/ /\ leaf.kind = "int64" /\ HasPageStats(col, p)
             /\ \/ leaf.op = "eq" /\ leaf.lit \notin stats.min..stats.max
                \/ leaf.op = "lt" /\ stats.min >= leaf.lit
                \/ leaf.op = "gt" /\ stats.max <= leaf.lit

\* Bounds that leave a leaf no choice.
BoundsSatisfy(stats, leaf) == \/ leaf.op = "eq" /\ stats.min = leaf.lit /\ stats.max = leaf.lit
                              \/ leaf.op = "lt" /\ stats.max < leaf.lit
                              \/ leaf.op = "gt" /\ stats.min > leaf.lit

\* childAlwaysMatchesSegment: only integer leaves are ever certain.
LeafHoldsOnSegment(seg, leaf) ==
    LET i == Find(seg, leaf)
        col == seg.cols[i]
    IN i # 0 /\ leaf.kind = "int64" /\ NullRows(col) = {} /\ BoundsSatisfy(StatsReadAsInt64(col), leaf)

\* childAlwaysMatchesPage.
LeafHoldsOnPage(seg, p, leaf) ==
    LET i == Find(seg, leaf)
        col == seg.cols[i]
    IN /\ i # 0 /\ leaf.kind = "int64" /\ AllValid(col.pages[p])
       /\ HasPageStats(col, p) /\ BoundsSatisfy(PageStats(col, p), leaf)

-----------------------------------------------------------------------------
(* EvalEncoded: the column is looked up by name only, and the leaf evaluated  *)
(* on the encoded page.                                                       *)

\* forFits: the residuals over the smallest value need some bits, and fewer
\* than the values have. Mixed pages are always plain.
ForWidth(page) == BitLength(Max(Values(page)) - Min(Values(page)))
IsFOR(col, p) == /\ col.packed /\ col.kind \in IntKinds /\ AllValid(col.pages[p])
                 /\ ForWidth(col.pages[p]) \in 1..(KindBits(col.kind) - 1)
IsDict(col, p) == col.packed /\ col.kind = "text" /\ AllValid(col.pages[p])
EncodedPages(col) == {p \in DOMAIN col.pages : IsFOR(col, p) \/ IsDict(col, p)}

Handles(seg, p, leaf) ==
    LET i == ByName(seg, leaf.name)
    IN i # 0 /\ (IF leaf.kind = "int64" THEN IsFOR(seg.cols[i], p) ELSE IsDict(seg.cols[i], p))

\* The literal is moved by the base of the page, with the wrap of int64, and
\* compared with the residuals.
ForAccepts(leaf, page, v) ==
    LET base == Min(Values(page))
        threshold == Wrap(leaf.lit - base)
        maxResidual == TwoTo[ForWidth(page)] - 1
    IN CASE leaf.op = "eq" -> threshold \in 0..maxResidual /\ v - base = threshold
         [] leaf.op = "lt" -> threshold > 0 /\ (threshold > maxResidual \/ v - base < threshold)
         [] leaf.op = "gt" -> threshold < 0 \/ (threshold < maxResidual /\ v - base > threshold)

EncodedRows(seg, p, leaf) ==
    LET page == seg.cols[ByName(seg, leaf.name)].pages[p]
    IN {r \in DOMAIN page : IF leaf.kind = "int64" THEN ForAccepts(leaf, page, page[r])
                            ELSE Compares(leaf.op, page[r], leaf.lit)}
=============================================================================
