----------------------------- MODULE StoredTable -----------------------------
(***************************************************************************)
(* A table whose segments were written under older definitions of it:      *)
(* which pages ORDER BY ... LIMIT leaves out, and the aggregates that are  *)
(* answered from statistics alone.                                         *)
(*                                                                         *)
(* The state is the table. Queries do not change it: each is an operator,  *)
(* and the properties compare it, for every query, with a plain reading of *)
(* all rows.                                                               *)
(***************************************************************************)
EXTENDS Segment, SequencesExt

CONSTANTS
    Names,        \* names a column can have
    FirstColumns, \* the column sequences a table may be created with
    CellsOf,      \* per kind, the values that are inserted, Null among them
    Defaults,     \* per kind, what ADD COLUMN may give as default, or Null
    MaxRows,      \* bound: rows inserted
    MaxCells,     \* bound: cells inserted
    MaxPages,     \* bound: pages of a segment
    MaxDead,      \* bound: rows deleted
    MaxAlters     \* bound: ALTER statements

VARIABLES
    columns,   \* the table's live columns: name, id, kind, default
    segments,  \* its segments, each with the rows its deletion vector kills
    nextId,    \* NextColumnID
    alters

tableVars == <<columns, segments, nextId, alters>>

Column == [name : Names, id : Nat, kind : Kinds, default : UNION {Defaults[k] : k \in Kinds}]
TableAssumption ==
    /\ {MaxRows, MaxPages, MaxAlters} \subseteq Nat
    /\ \A k \in Kinds : CellsOf[k] \subseteq Storable(k) /\ Defaults[k] \subseteq Storable(k)
    /\ FirstColumns \subseteq Seq(Column)
    /\ \A cols \in FirstColumns :
          /\ cols # <<>>
          /\ \A i \in DOMAIN cols : cols[i].id <= Len(cols)
          /\ \A i, j \in DOMAIN cols : i # j => cols[i].id # cols[j].id /\ cols[i].name # cols[j].name

ColumnIds == {columns[i].id : i \in DOMAIN columns}
ColumnOf(id) == CHOOSE c \in {columns[i] : i \in DOMAIN columns} : c.id = id

SegRows(seg) == Rows(seg.cols[1])
LiveRows(seg) == SegRows(seg) \ seg.dead
RowCount == SumFunction([s \in DOMAIN segments |-> Cardinality(SegRows(segments[s]))])
CellCount == SumFunction([s \in DOMAIN segments |-> Cardinality(SegRows(segments[s])) * Len(segments[s].cols)])
DeadCount == SumFunction([s \in DOMAIN segments |-> Cardinality(segments[s].dead)])

TableInit == /\ columns \in FirstColumns
             /\ segments = <<>>
             /\ nextId = Len(columns) + 1
             /\ alters = 0

-----------------------------------------------------------------------------
(* Statements *)

\* One page for INSERT, one per statement for BulkInsert.
PageSizes(n) == UNION {{z \in [1..k -> 1..n] : SumFunction(z) = n} : k \in 1..MaxPages}

PagesOf(kind, sizes) ==
    {pages \in [DOMAIN sizes -> UNION {[1..sizes[p] -> CellsOf[kind]] : p \in DOMAIN sizes}] :
        \A p \in DOMAIN sizes : Len(pages[p]) = sizes[p]}

Written(pages, packed) ==
    [cols |-> [i \in DOMAIN columns |-> [name |-> columns[i].name, id |-> columns[i].id,
                                        kind |-> columns[i].kind, pages |-> pages[i],
                                        packed |-> packed]],
     dead |-> {}]

\* INSERT and BulkInsert write one segment with the columns of the table.
Insert ==
    /\ \E n \in 1..(MaxRows - RowCount) : \E sizes \in PageSizes(n), packed \in BOOLEAN :
       \E pages \in [DOMAIN columns -> UNION {PagesOf(columns[i].kind, sizes) : i \in DOMAIN columns}] :
          LET seg == Written(pages, packed)
          IN /\ CellCount + n * Len(columns) <= MaxCells
             /\ \A i \in DOMAIN columns : pages[i] \in PagesOf(columns[i].kind, sizes)
             /\ packed => \E i \in DOMAIN columns : EncodedPages(seg.cols[i]) # {}
             /\ segments' = Append(segments, seg)
    /\ UNCHANGED <<columns, nextId, alters>>

\* DELETE gives a segment a deletion vector, or a longer one.
Delete ==
    /\ \E s \in DOMAIN segments : \E hits \in SUBSET LiveRows(segments[s]) :
          /\ hits # {} /\ DeadCount + Cardinality(hits) <= MaxDead
          /\ segments' = [segments EXCEPT ![s].dead = @ \cup hits]
    /\ UNCHANGED <<columns, nextId, alters>>

Unused(name) == \A i \in DOMAIN columns : columns[i].name # name
Alter == alters < MaxAlters /\ alters' = alters + 1 /\ UNCHANGED segments

\* Mutant: the counter is not moved past the id just given.
AddColumnBug ==
    /\ \E name \in Names, kind \in Kinds : \E default \in Defaults[kind] :
          /\ Unused(name)
          /\ columns' = Append(columns, [name |-> name, id |-> nextId, kind |-> kind, default |-> default])
    /\ UNCHANGED nextId
    /\ Alter

\* Segments are not touched: rows written before read the default.
AddColumn ==
    /\ \E name \in Names, kind \in Kinds : \E default \in Defaults[kind] :
          /\ Unused(name)
          /\ columns' = Append(columns, [name |-> name, id |-> nextId, kind |-> kind, default |-> default])
    /\ nextId' = nextId + 1
    /\ Alter

RenameColumn ==
    /\ \E i \in DOMAIN columns, name \in Names :
          /\ Unused(name)
          /\ columns' = [columns EXCEPT ![i].name = name]
    /\ UNCHANGED nextId
    /\ Alter

DropColumn ==
    /\ Len(columns) > 1
    /\ \E i \in DOMAIN columns : columns' = RemoveAt(columns, i)
    /\ UNCHANGED nextId
    /\ Alter

\* ALTER COLUMN TYPE, of the widening casts the one between integers.
WidenColumn ==
    /\ \E i \in DOMAIN columns :
          /\ columns[i].kind = "int32"
          /\ columns' = [columns EXCEPT ![i].kind = "int64"]
    /\ UNCHANGED nextId
    /\ Alter

TableNext == Insert \/ Delete \/ AddColumn \/ RenameColumn \/ DropColumn \/ WidenColumn

TableSpec == TableInit /\ [][TableNext]_tableVars

-----------------------------------------------------------------------------
(* The plain reading. A position is <<segment, <<page, row>>>>.               *)

Positions == UNION {{s} \X LiveRows(segments[s]) : s \in DOMAIN segments}

\* The plain reading: a row holds the default of every column its segment was
\* written without.
Value(pos, id) ==
    LET seg == segments[pos[1]]
        col == ById(seg, id)
    IN IF col # 0 THEN Cell(seg.cols[col], pos[2]) ELSE ColumnOf(id).default

-----------------------------------------------------------------------------
(* ORDER BY key LIMIT: pages that need not be read. need is LIMIT + OFFSET.   *)

AllPages == UNION {{s} \X DOMAIN segments[s].cols[1].pages : s \in DOMAIN segments}

\* Mutant: a page whose bounds touch is taken for a better one.
BetterPagesBug(stats, page, desc) ==
    {q \in DOMAIN stats : q # page /\ IF desc THEN stats[q].min >= stats[page].max
                                        ELSE stats[q].max <= stats[page].min}

\* Pages all of whose rows come before every row of the page.
BetterPages(stats, page, desc) ==
    {q \in DOMAIN stats : IF desc THEN stats[q].min > stats[page].max
                          ELSE stats[q].max < stats[page].min}

\* SelectTopKPages: the pages to read, all of them when anything speaks
\* against pruning. Columns are found by name.
TopKPages(name, desc, need) ==
    LET col(s) == segments[s].cols[ByName(segments[s], name)]
        size == [page \in AllPages |-> Len(col(page[1]).pages[page[2]])]
        sizeOf(pages) == SumFunctionOnSet(size, pages)
        stats == [page \in AllPages |-> PageStats(col(page[1]), page[2])]
    IN IF \/ \E s \in DOMAIN segments : \/ segments[s].dead # {}
                                        \/ ByName(segments[s], name) = 0
                                        \/ col(s).kind \notin IntKinds
                                        \/ NullRows(col(s)) # {}
          \/ sizeOf(AllPages) <= need
       THEN AllPages
       ELSE {page \in AllPages : sizeOf(BetterPages(stats, page, desc)) < need}

-----------------------------------------------------------------------------
(* Aggregates answered from metadata: a set with the answer, or {} when the   *)
(* query has to be run. Columns are found by name.                            *)

HasDV == \E s \in DOMAIN segments : segments[s].dead # {}
ColOf(s, name) == segments[s].cols[ByName(segments[s], name)]
Holding(name) == {s \in DOMAIN segments : ByName(segments[s], name) # 0}

\* countAllRows takes the rows of a deletion vector off those of the segment.
CountRows ==
    {SumFunction([s \in DOMAIN segments |-> Cardinality(SegRows(segments[s])) - Cardinality(segments[s].dead)])}

CountColumn(name) ==
    IF HasDV \/ Holding(name) # DOMAIN segments THEN {}
    ELSE {SumFunction([s \in DOMAIN segments |-> Cardinality(Rows(ColOf(s, name)) \ NullRows(ColOf(s, name)))])}

\* Mutant: a column of NULLs only takes part with its zero bounds.
BoundedBug(name) == Holding(name)

\* mergeMinMax passes over segments that hold no value of the column.
Bounded(name) == {s \in Holding(name) : NullRows(ColOf(s, name)) # Rows(ColOf(s, name))}

MinOrMax(name, wantMax) ==
    LET stats == {ColumnStats(ColOf(s, name)) : s \in Bounded(name)}
    IN CASE HasDV -> {}
         [] ~HasDV /\ stats = {} -> {Null}
         [] OTHER -> IF wantMax THEN {Max({x.max : x \in stats})} ELSE {Min({x.min : x \in stats})}

SumColumn(name) ==
    LET total(n) == SumFunction([s \in 1..n |-> Sum(ColOf(s, name))])
    IN IF \/ HasDV
          \/ \E s \in DOMAIN segments : s \notin Holding(name) \/ ~HasSum(ColOf(s, name))
          \/ \E n \in DOMAIN segments : total(n) \notin MinWord..MaxWord
       THEN {} ELSE {total(Len(segments))}

CountEqual(name, v) ==
    IF HasDV \/ \E s \in DOMAIN segments : s \notin Holding(name) \/ ~HasHistogram(ColOf(s, name))
    THEN {} ELSE {SumFunction([s \in DOMAIN segments |-> Histogram(ColOf(s, name), v)])}

\* GROUP BY a text column, count(*): the groups with their counts.
GroupCounts(name, texts) ==
    IF HasDV \/ \E s \in DOMAIN segments : s \notin Holding(name) \/ ~HasHistogram(ColOf(s, name))
    THEN {}
    ELSE LET n(v) == SumFunction([s \in DOMAIN segments |-> Histogram(ColOf(s, name), v)])
         IN {{<<v, n(v)>> : v \in {x \in texts : n(x) > 0}}}

-----------------------------------------------------------------------------
(* Where the shortcuts can be relied on. Each conjunct names a way in which   *)
(* the code departs from the plain reading where it does not hold.            *)

\* Statistics and filters of the column cover all its values.
FullyAnalyzed(id) ==
    \A s \in DOMAIN segments : ById(segments[s], id) # 0 =>
        LET col == segments[s].cols[ById(segments[s], id)]
        IN \A p \in DOMAIN col.pages : ~Mixed(col.pages[p])

\* No segment holds another column under the name.
NotShadowed(id) ==
    \A s \in DOMAIN segments : \A i \in DOMAIN segments[s].cols :
        segments[s].cols[i].name = ColumnOf(id).name => segments[s].cols[i].id = id

\* And none holds it under a name it had before.
NotRenamed(id) ==
    \A s \in DOMAIN segments : ById(segments[s], id) # 0 =>
        segments[s].cols[ById(segments[s], id)].name = ColumnOf(id).name

\* Every segment holds the column with the kind it has now.
NotWidened(id) ==
    \A s \in DOMAIN segments : ById(segments[s], id) # 0 =>
        segments[s].cols[ById(segments[s], id)].kind = ColumnOf(id).kind

Lacking(id) == {s \in DOMAIN segments : ById(segments[s], id) = 0}

-----------------------------------------------------------------------------
(* Properties *)

IdsOf(kinds) == {id \in ColumnIds : ColumnOf(id).kind \in kinds}
NonNull(id) == {pos \in Positions : Value(pos, id) # Null}
ValuesAt(id) == {Value(pos, id) : pos \in NonNull(id)}

\* Columns keep distinct names and ids below the counter; the columns of a
\* segment have pages of the same sizes; deletion vectors kill rows that exist.
TableTypeOK ==
    /\ columns \in Seq(Column) /\ columns # <<>>
    /\ \A i, j \in DOMAIN columns : i # j =>
          columns[i].id # columns[j].id /\ columns[i].name # columns[j].name
    /\ \A s \in DOMAIN segments :
          LET seg == segments[s]
          IN /\ \A i, j \in DOMAIN seg.cols :
                   /\ Rows(seg.cols[i]) = Rows(seg.cols[j])
                   /\ i # j => seg.cols[i].id # seg.cols[j].id
             /\ \A i \in DOMAIN seg.cols : /\ seg.cols[i].id < nextId
                                           /\ \A pos \in Rows(seg.cols[i]) :
                                                 Cell(seg.cols[i], pos) \in CellsOf[seg.cols[i].kind]
             /\ seg.dead \subseteq SegRows(seg)
    /\ alters \in 0..MaxAlters

\* A row of a page that ORDER BY ... LIMIT leaves out has at least as many
\* rows strictly before it, in pages that are read, as the query asks for.
TopKExact ==
    \A id \in {x \in IdsOf(IntKinds) : NotShadowed(x)}, desc \in BOOLEAN, need \in 1..3 :
        LET kept == TopKPages(ColumnOf(id).name, desc, need)
            page(pos) == <<pos[1], pos[2][1]>>
            before(a, b) == IF desc THEN Value(a, id) > Value(b, id) ELSE Value(a, id) < Value(b, id)
        IN \A pos \in Positions : page(pos) \notin kept =>
              Cardinality({x \in Positions : page(x) \in kept /\ before(x, pos)}) >= need

\* An aggregate that is answered from metadata is the one a scan computes.
MetadataExact ==
    /\ CountRows = {Cardinality(Positions)}
    /\ \A id \in {x \in ColumnIds : NotShadowed(x) /\ Lacking(x) = {}} :
          CountColumn(ColumnOf(id).name) \subseteq {Cardinality(NonNull(id))}
    /\ \A id \in {x \in IdsOf(IntKinds) : /\ NotShadowed(x) /\ NotRenamed(x) /\ FullyAnalyzed(x)
                                          /\ Lacking(x) # {} => ColumnOf(x).default = Null} :
          LET name == ColumnOf(id).name
          IN /\ MinOrMax(name, TRUE) \subseteq {IF ValuesAt(id) = {} THEN Null ELSE Max(ValuesAt(id))}
             /\ MinOrMax(name, FALSE) \subseteq {IF ValuesAt(id) = {} THEN Null ELSE Min(ValuesAt(id))}
             /\ segments # <<>> =>
                   SumColumn(name) \subseteq {SumFunction([pos \in NonNull(id) |-> Value(pos, id)])}
    /\ \A id \in {x \in IdsOf({"text"}) : NotShadowed(x) /\ FullyAnalyzed(x)} :
          LET name == ColumnOf(id).name
              count(v) == Cardinality({pos \in Positions : Value(pos, id) = v})
              texts == CellsOf["text"] \ {Null}
          IN /\ \A v \in texts : CountEqual(name, v) \subseteq {count(v)}
             /\ NonNull(id) = Positions =>
                   GroupCounts(name, texts) \subseteq {{<<v, count(v)>> : v \in ValuesAt(id)}}
=============================================================================
