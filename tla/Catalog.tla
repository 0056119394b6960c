------------------------------- MODULE Catalog -------------------------------
(***************************************************************************)
(* The catalog: DDL on the in-memory schema, its persistence by            *)
(* catalog.Save, what catalog.Load finds after a crash, and the plans      *)
(* cached against a generation of it.                                      *)
(*                                                                         *)
(* The schema is held twice: as the elements of the slice catalog.Tables,  *)
(* which Save writes, and through the pointers of the map db.tables, which *)
(* every statement reads and every ALTER writes through. `inFile` says     *)
(* whether a pointer still is one into the slice, `shared` whether the two *)
(* copies of a table still have one backing array of columns: append moves *)
(* a slice that is full to a new array.                                    *)
(*                                                                         *)
(* A DDL statement holds db.mu from its first assignment to the return of  *)
(* Save, so only a crash falls between the steps of Save.                  *)
(***************************************************************************)
EXTENDS Naturals, Sequences, FiniteSets, FiniteSetsExt

CONSTANTS
    TableNames, ColumnNames,
    TypeNames,     \* names of enum types
    FirstColumns,  \* the columns a table is created with
    PlanCacheMax,  \* PlanCache.max
    MaxGeneration, \* bound: generations
    MaxRestarts,   \* bound: restarts and crashes
    MaxFailures    \* bound: failing calls to the file system

ASSUME CatalogAssumption ==
    /\ MaxGeneration \in Nat \ {0} /\ MaxRestarts \in Nat /\ MaxFailures \in Nat
    /\ PlanCacheMax \in Nat \ {0}
ASSUME FirstColumnsAssumption ==
    /\ FirstColumns \in Seq(ColumnNames) /\ Len(FirstColumns) > 0
    /\ \A i, j \in DOMAIN FirstColumns : FirstColumns[i] = FirstColumns[j] => i = j

VARIABLES
    mem,        \* db.catalog, db.tables and db.types
    undo,       \* mem before the DDL that runs: what its error path restores
    step,       \* the next step of the DDL or of Open
    job,        \* whose Save runs: one of Jobs
    disk,       \* catalog.json, .bak and .tmp: each no content or one
    unsynced,   \* the directory states since the directory was last synced
    plans,      \* the plan cache: table -> the SELECT planned on it
    acked,      \* history: what Save wrote for the last acknowledged DDL,
                \* which lacks a column added through a map entry that left
                \* the slice (MapsShareCatalog)
    unacked,    \* history: the catalogs of DDL since then that was not
    written,    \* history: the columns that segments hold values of
    suspect,    \* history: ids of tables whose map entry left the catalog
                \* slice, or with rows written while the directory was not
                \* synced
    restarts, failures

catalogVars == <<mem, undo, step, job, disk, unsynced, plans, acked, unacked, written,
                 suspect, restarts, failures>>

Jobs == {"none", "alter", "type", "create", "uncreate", "migrate"}

-----------------------------------------------------------------------------
(* Tables, columns and the slices that hold them *)

Scalars == {"int32", "int64"}
ColumnTypes == Scalars \cup TypeNames
Widening == {<<"int32", "int64">>}

\* origin is history: which ADD or CREATE made the column.
Column(t, id, name, type, g) ==
    [id |-> id, name |-> name, type |-> type, live |-> TRUE, origin |-> <<t, name, g>>]

LivePositions(tab) == {i \in DOMAIN tab.cols : tab.cols[i].live}
LiveNames(tab) == {tab.cols[i].name : i \in LivePositions(tab)}
Positions(tab, n) == {i \in LivePositions(tab) : tab.cols[i].name = n}
BoundColumns(tab) == {tab.cols[i] : i \in LivePositions(tab)}

\* What append makes of a full backing array, and the JSON decoder of an empty
\* one that n elements are appended to.
Grown(cap) == IF cap = 0 THEN 1 ELSE 2 * cap
DecodedCap(n) ==
    LET after[k \in 0..n] == IF k = 0 THEN 0
                             ELSE LET cap == after[k - 1]
                                  IN  IF k <= cap THEN cap ELSE Grown(cap)
    IN  after[n]

\* buildTable
BuildTable(t, id, g) ==
    [id |-> id, next |-> Len(FirstColumns) + 1, cap |-> Len(FirstColumns),
     cols |-> [i \in DOMAIN FirstColumns |-> Column(t, i, FirstColumns[i], "int32", g)]]

-----------------------------------------------------------------------------
(* What is on disk *)

NoTables == [t \in {} |-> 0]

\* catalog.json: format 1 is what an older release left.
Content(m) == [format |-> 2, gen |-> m.gen, nextTable |-> m.nextTable,
               types |-> m.types,
               tables |-> [t \in DOMAIN m.tables |->
                   [id |-> m.tables[t].id, next |-> m.tables[t].next,
                    cols |-> m.tables[t].cols]]]

NewEmpty == [format |-> 2, gen |-> 0, nextTable |-> 1, types |-> {}, tables |-> NoTables]

\* Validate
Valid(c) ==
    /\ \A t, u \in DOMAIN c.tables : c.tables[t].id = c.tables[u].id => t = u
    /\ \A t \in DOMAIN c.tables :
          LET tab == c.tables[t]
          IN  /\ tab.id \in 1 .. c.nextTable - 1
              /\ \A i \in DOMAIN tab.cols :
                    /\ tab.cols[i].id \in 1 .. tab.next - 1
                    /\ tab.cols[i].type \in Scalars \cup c.types
                    /\ \A j \in DOMAIN tab.cols \ {i} :
                          /\ tab.cols[i].id # tab.cols[j].id
                          /\ i \in LivePositions(tab) /\ j \in LivePositions(tab)
                                => tab.cols[i].name # tab.cols[j].name

FoundBug(dir) == dir.json  \* no fallback to .bak

\* The file Load reads: the live one, or the backup if there is none.
Found(dir) == IF dir.json # {} THEN dir.json ELSE dir.bak

\* migrateV1 keeps ids, names, types and the order of columns.
Migrated(c) == [c EXCEPT !.format = 2]

Loaded(dir) == IF Found(dir) = {} THEN NewEmpty
               ELSE Migrated(CHOOSE c \in Found(dir) : TRUE)

Directory == [json |-> disk.json, bak |-> disk.bak]

\* What a crash of the process or of the machine now would leave.
AfterCrash == unsynced \cup {Directory}

\* indexTables: fresh slices, and pointers into them.
Opened(c) ==
    LET tables == [t \in DOMAIN c.tables |->
                      [id |-> c.tables[t].id, next |-> c.tables[t].next,
                       cap |-> DecodedCap(Len(c.tables[t].cols)),
                       cols |-> c.tables[t].cols]]
    IN  [gen |-> c.gen, nextTable |-> c.nextTable, types |-> c.types,
         tables |-> tables, cap |-> DecodedCap(Cardinality(DOMAIN tables)),
         entry |-> tables, inFile |-> DOMAIN tables, shared |-> DOMAIN tables]

LegacyCatalog(t) ==
    [NewEmpty EXCEPT !.format = 1, !.gen = 1, !.nextTable = 2,
        !.tables = [u \in {t} |->
            LET tab == BuildTable(t, 1, 1)
            IN  [id |-> 1, next |-> tab.next, cols |-> tab.cols]]]

-----------------------------------------------------------------------------
CatalogInit ==
    /\ \E found \in {{}} \cup {{LegacyCatalog(t)} : t \in TableNames} :
          /\ disk = [json |-> found, bak |-> {}, tmp |-> {}]
          /\ unsynced = {[json |-> found, bak |-> {}]}
          /\ acked = Loaded([json |-> found, bak |-> {}])
    /\ mem = Opened(NewEmpty) /\ undo = mem
    /\ step = "closed" /\ job = "none"
    /\ plans = NoTables /\ unacked = {} /\ written = {} /\ suspect = {}
    /\ restarts = 0 /\ failures = 0

-----------------------------------------------------------------------------
(* DDL: the assignments, up to the call of Save *)

Begin(j, m) ==
    /\ mem' = m /\ undo' = mem
    /\ step' = "write" /\ job' = j
    /\ unacked' = unacked \cup {Content(m)}
    /\ UNCHANGED <<disk, unsynced, plans, acked, written, suspect, restarts, failures>>

\* What any DDL may assume: the database is open and db.mu is free.
CanRunDDL == step = "idle" /\ mem.gen < MaxGeneration

RegisterType(n) ==
    /\ CanRunDDL /\ n \in TypeNames \ mem.types
    /\ Begin("type", [mem EXCEPT !.gen = @ + 1, !.types = @ \cup {n}])

RegisterTable(t) ==
    /\ CanRunDDL /\ t \in TableNames \ DOMAIN mem.entry
    /\ LET g == mem.gen + 1
           row == BuildTable(t, mem.nextTable, g)
           full == Cardinality(DOMAIN mem.tables) = mem.cap
           With(f) == [u \in DOMAIN f \cup {t} |-> IF u = t THEN row ELSE f[u]]
       IN  Begin("create",
              [mem EXCEPT !.gen = g, !.nextTable = @ + 1,
                          !.tables = With(@), !.entry = With(@),
                          !.cap = IF full THEN Grown(@) ELSE @,
                          !.inFile = IF full THEN {t} ELSE @ \cup {t},
                          !.shared = @ \cup {t}])

\* An assignment to column i through the map entry of t.
WithColumn(t, i, col) ==
    [mem EXCEPT
        !.gen = @ + 1,
        !.entry = [@ EXCEPT ![t].cols[i] = col],
        !.tables = IF t \in mem.shared /\ i \in DOMAIN @[t].cols
                   THEN [@ EXCEPT ![t].cols[i] = col] ELSE @]

RenameColumnBug(t, from, to) ==  \* no check that the new name is free
    /\ CanRunDDL /\ t \in DOMAIN mem.entry
    /\ \E i \in Positions(mem.entry[t], from) :
          Begin("alter", WithColumn(t, i, [mem.entry[t].cols[i] EXCEPT !.name = to]))

RenameColumn(t, from, to) ==
    /\ CanRunDDL /\ t \in DOMAIN mem.entry
    /\ Positions(mem.entry[t], to) = {}
    /\ \E i \in Positions(mem.entry[t], from) :
          Begin("alter", WithColumn(t, i, [mem.entry[t].cols[i] EXCEPT !.name = to]))

DropColumn(t, n) ==
    /\ CanRunDDL /\ t \in DOMAIN mem.entry
    /\ Cardinality(LivePositions(mem.entry[t])) > 1
    /\ \E i \in Positions(mem.entry[t], n) :
          Begin("alter", WithColumn(t, i, [mem.entry[t].cols[i] EXCEPT !.live = FALSE]))

AlterColumnType(t, n, type) ==
    /\ CanRunDDL /\ t \in DOMAIN mem.entry
    /\ \E i \in Positions(mem.entry[t], n) :
          /\ <<mem.entry[t].cols[i].type, type>> \in Widening
          /\ Begin("alter", WithColumn(t, i, [mem.entry[t].cols[i] EXCEPT !.type = type]))

\* addColumn, on a table whose next column has the given id.
Added(t, n, type, id) ==
    LET old == mem.entry[t]
        full == Len(old.cols) = old.cap
        tab == [old EXCEPT !.cols = Append(@, Column(t, id, n, type, mem.gen + 1)),
                           !.next = id + 1,
                           !.cap = IF full THEN Grown(@) ELSE @]
    IN  [mem EXCEPT !.gen = @ + 1,
                    !.entry = [@ EXCEPT ![t] = tab],
                    !.tables = IF t \in mem.inFile THEN [@ EXCEPT ![t] = tab] ELSE @,
                    !.shared = IF full /\ t \notin mem.inFile THEN @ \ {t} ELSE @]

NextColumnIdBug(tab) == 1 + Max({tab.cols[i].id : i \in LivePositions(tab)})

NextColumnId(tab) == tab.next

AddColumn(t, n, type) ==
    /\ CanRunDDL /\ t \in DOMAIN mem.entry
    /\ Positions(mem.entry[t], n) = {}
    /\ type \in Scalars \cup mem.types
    /\ Begin("alter", Added(t, n, type, NextColumnId(mem.entry[t])))

-----------------------------------------------------------------------------
(* Save *)

RolledBackBug ==  \* the generation is restored, the column is not
    CASE job \in {"alter", "type"} -> [mem EXCEPT !.gen = undo.gen]
      [] job = "create" ->
            [undo EXCEPT !.cap = mem.cap, !.entry = undo.tables,
                         !.inFile = DOMAIN undo.tables, !.shared = DOMAIN undo.tables]
      [] OTHER -> mem

\* The error path of the DDL. Undoing a CREATE rebuilds every pointer from the
\* slice, which keeps the array that append has moved it to.
RolledBack ==
    CASE job \in {"alter", "type"} -> undo
      [] job = "create" ->
            [undo EXCEPT !.cap = mem.cap, !.entry = undo.tables,
                         !.inFile = DOMAIN undo.tables, !.shared = DOMAIN undo.tables]
      [] OTHER -> mem

\* Save returns an error.
SaveFails ==
    /\ mem' = IF job = "migrate" THEN Opened(NewEmpty) ELSE RolledBack
    /\ undo' = mem'
    /\ step' = IF job = "migrate" THEN "closed" ELSE "idle"
    /\ job' = "none"
    /\ UNCHANGED <<plans, acked, unacked, written, suspect, restarts>>

Returned ==
    /\ step' = "idle" /\ job' = "none" /\ undo' = mem
    /\ acked' = Content(mem) /\ unacked' = {}
    /\ suspect' = suspect \cup {mem.entry[t].id : t \in DOMAIN mem.entry \ mem.inFile}

Unchanged == UNCHANGED <<mem, undo, job, plans, acked, unacked, written, suspect,
                         restarts, failures>>

\* Validate, then .tmp written and synced.
WriteTmp ==
    /\ step = "write" /\ Valid(Content(mem))
    /\ disk' = [disk EXCEPT !.tmp = {Content(mem)}]
    /\ step' = "bak"
    /\ UNCHANGED unsynced /\ Unchanged

RenameToBak ==
    /\ step = "bak"
    /\ disk' = IF disk.json = {} THEN disk
               ELSE [disk EXCEPT !.bak = disk.json, !.json = {}]
    /\ unsynced' = unsynced \cup {Directory'}
    /\ step' = "target"
    /\ Unchanged

RenameToTarget ==
    /\ step = "target"
    /\ disk' = [disk EXCEPT !.json = disk.tmp, !.tmp = {}]
    /\ unsynced' = unsynced \cup {Directory'}
    /\ step' = "sync"
    /\ Unchanged

\* The directory is synced and Save returns; CREATE TABLE then opens the
\* table's manifest.
SyncDirectory ==
    /\ step = "sync"
    /\ unsynced' = {Directory}
    /\ IF job = "create"
       THEN step' = "manifest" /\ UNCHANGED <<undo, job, acked, unacked, suspect>>
       ELSE Returned
    /\ UNCHANGED <<mem, disk, plans, written, restarts, failures>>

OpenManifest ==
    /\ step = "manifest"
    /\ Returned
    /\ UNCHANGED <<mem, disk, unsynced, plans, written, restarts, failures>>

\* CREATE TABLE is undone in memory, and the catalog saved once more.
ManifestFails ==
    /\ step = "manifest" /\ failures < MaxFailures
    /\ failures' = failures + 1
    /\ mem' = RolledBack
    /\ step' = "write" /\ job' = "uncreate"
    /\ unacked' = unacked \cup {Content(mem')}
    /\ UNCHANGED <<undo, disk, unsynced, plans, acked, written, suspect, restarts>>

\* Validate rejects the catalog, or a call fails: a failing write or rename
\* removes .tmp, a failing sync of the directory leaves the new file.
SaveFault ==
    LET rejected == step = "write" /\ ~Valid(Content(mem))
    IN  /\ step \in {"write", "bak", "target", "sync"}
        /\ rejected \/ failures < MaxFailures
        /\ failures' = IF rejected THEN failures ELSE failures + 1
        /\ disk' = [disk EXCEPT !.tmp = {}]
        /\ UNCHANGED unsynced
        /\ SaveFails

-----------------------------------------------------------------------------
(* Statements *)

\* planForQuery: a SELECT of every column of t. A hit needs the generation the
\* plan was made for; a full cache drops any entry.
Query(t) ==
    /\ step = "idle" /\ t \in DOMAIN mem.entry
    /\ ~(t \in DOMAIN plans /\ plans[t].gen = mem.gen)
    /\ \E out \in IF Cardinality(DOMAIN plans) >= PlanCacheMax THEN DOMAIN plans ELSE {t} :
          plans' = [u \in (DOMAIN plans \ {out}) \cup {t} |->
                       IF u # t THEN plans[u]
                       ELSE [gen |-> mem.gen, cols |-> BoundColumns(mem.entry[t])]]
    /\ UNCHANGED <<mem, undo, step, job, disk, unsynced, acked, unacked, written,
                   suspect, restarts, failures>>

\* INSERT: the segment names its columns by id, in the directory of the table id.
Insert(t) ==
    /\ step = "idle" /\ t \in DOMAIN mem.entry
    /\ written' = written \cup {<<mem.entry[t].id, c.id, c.origin>> :
                                   c \in BoundColumns(mem.entry[t])}
    /\ suspect' = IF unsynced = {Directory} THEN suspect
                  ELSE suspect \cup {mem.entry[t].id}
    /\ UNCHANGED <<mem, undo, step, job, disk, unsynced, plans, acked, unacked,
                   restarts, failures>>

-----------------------------------------------------------------------------
(* Restart *)

Stopped ==
    /\ step' = "closed" /\ job' = "none" /\ plans' = NoTables
    /\ mem' = Opened(NewEmpty) /\ undo' = mem'
    /\ UNCHANGED <<acked, unacked, written, suspect, failures>>

\* Close, or the death of the process in the middle of a DDL.
ProcessStop ==
    /\ step # "closed" /\ restarts < MaxRestarts
    /\ restarts' = restarts + 1
    /\ Stopped /\ UNCHANGED <<disk, unsynced>>

\* Renames since the last sync are lost from some point on.
LosePower ==
    /\ restarts < MaxRestarts
    /\ restarts' = restarts + 1
    /\ \E dir \in AfterCrash :
          /\ disk' = [json |-> dir.json, bak |-> dir.bak, tmp |-> disk.tmp]
          /\ unsynced' = {dir}
    /\ Stopped

SweepTmpBug == disk
SweepTmp == [disk EXCEPT !.tmp = {}]

\* Load removes .tmp and saves a catalog it had to migrate.
OpenDB ==
    /\ step = "closed"
    /\ mem' = Opened(Loaded(Directory)) /\ undo' = mem'
    /\ disk' = SweepTmp
    /\ IF \E c \in Found(Directory) : c.format = 1
       THEN step' = "write" /\ job' = "migrate"
       ELSE step' = "idle" /\ job' = "none" /\ Valid(Loaded(Directory))
    /\ UNCHANGED <<unsynced, plans, acked, unacked, written, suspect, restarts, failures>>

-----------------------------------------------------------------------------
DDL ==
    \/ \E n \in TypeNames : RegisterType(n)
    \/ \E t \in TableNames :
          \/ RegisterTable(t)
          \/ \E n \in ColumnNames :
                \/ \E to \in ColumnNames : RenameColumn(t, n, to)
                \/ DropColumn(t, n)
                \/ \E type \in {"int32"} \cup TypeNames : AddColumn(t, n, type)
                \/ \E type \in ColumnTypes : AlterColumnType(t, n, type)

Save == WriteTmp \/ RenameToBak \/ RenameToTarget \/ SyncDirectory \/ SaveFault

CatalogNext ==
    \/ DDL \/ Save \/ OpenManifest \/ ManifestFails
    \/ \E t \in TableNames : Query(t) \/ Insert(t)
    \/ ProcessStop \/ LosePower \/ OpenDB

CatalogSpec == CatalogInit /\ [][CatalogNext]_catalogVars

-----------------------------------------------------------------------------
(* Properties *)

ColumnSet == [id : Nat, name : ColumnNames, type : ColumnTypes, live : BOOLEAN,
              origin : TableNames \X ColumnNames \X Nat]
IsTable(tab) == /\ tab.id \in Nat \ {0} /\ tab.next \in Nat
                /\ \A i \in DOMAIN tab.cols : tab.cols[i] \in ColumnSet

\* The types of the variables; in the slice and behind every pointer a table has
\* an array as long as its columns, and only a running Save has a file .tmp or a
\* directory without catalog.json, unless a call failed or a crash fell into it.
CatalogTypeOK ==
    /\ mem.gen \in 0 .. MaxGeneration /\ mem.types \subseteq TypeNames
    /\ DOMAIN mem.tables = DOMAIN mem.entry
    /\ DOMAIN mem.tables \subseteq TableNames
    /\ mem.inFile \subseteq mem.shared /\ mem.shared \subseteq DOMAIN mem.tables
    /\ \A t \in DOMAIN mem.tables :
          /\ IsTable(mem.tables[t]) /\ Len(mem.tables[t].cols) <= mem.tables[t].cap
          /\ IsTable(mem.entry[t]) /\ Len(mem.entry[t].cols) <= mem.entry[t].cap
    /\ Cardinality(DOMAIN mem.tables) <= mem.cap
    /\ step \in {"closed", "idle", "write", "bak", "target", "sync", "manifest"}
    /\ job \in Jobs /\ (job = "none" <=> step \in {"closed", "idle"})
    /\ \A f \in {"json", "bak", "tmp"} : Cardinality(disk[f]) <= 1
    /\ step = "target" => disk.json = {} /\ disk.tmp # {}
    /\ step = "idle" /\ failures = 0 => disk.tmp = {}
    /\ DOMAIN plans \subseteq TableNames /\ Cardinality(DOMAIN plans) <= PlanCacheMax

\* Validate accepts the catalog in memory and every catalog a crash can leave:
\* no legal sequence of DDL, failures and crashes makes a database that cannot
\* save its schema, or cannot be opened (validate.go, Save, Load).
CatalogValid ==
    /\ Valid(Content(mem))
    /\ \A dir \in AfterCrash : Valid(Loaded(dir))

\* Whatever crashes, in Save or after it, Load finds the catalog of the last
\* DDL that was acknowledged, as Save wrote it, or one of a DDL since then that
\* was not: never an empty database, never an older schema (the order of sync and
\* renames in Save, the fallback to .bak in Load).
CrashLoadsAcknowledged ==
    \A dir \in AfterCrash : Loaded(dir) \in {acked} \cup unacked

\* A column id of a table directory means the same column for ever: nothing a
\* crash, a failed DDL or a DROP leads to gives the id, under which segments hold
\* values, to another column or table (NextColumnID, NextTableID, their rollback).
ColumnIdsKeepMeaning ==
    \A c \in {Content(mem)} \cup {Loaded(dir) : dir \in AfterCrash} :
    \A t \in DOMAIN c.tables : \A w \in written, i \in DOMAIN c.tables[t].cols :
        w[1] = c.tables[t].id /\ w[1] \notin suspect /\ w[2] = c.tables[t].cols[i].id
            => w[3] = c.tables[t].cols[i].origin

\* A plan cached for the present generation is bound to the present columns,
\* also when the generation is one that a failed DDL has restored (the
\* comment of planForQuery: "a cache hit is still safe").
PlanHitsFresh ==
    step = "idle" =>
        \A t \in DOMAIN plans \cap DOMAIN mem.entry :
            plans[t].gen = mem.gen /\ mem.entry[t].id \notin suspect
                => plans[t].cols = BoundColumns(mem.entry[t])

\* catalog.go: "Maps share pointers with the catalog file so mutations under
\* db.mu are visible through both."
MapsShareCatalog == step = "idle" => mem.entry = mem.tables
=============================================================================
