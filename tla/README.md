# Models of dripsql in TLA+

dripsql is an embedded columnar SQL database in Go. A table is a directory of
immutable segment files, deletion vectors that kill rows of them, and a manifest:
an append-only file whose records say which segments and vectors make up the
table at each commit timestamp. This directory models the parts of it that keep
state, skip work or answer queries, checks them with TLC on small instances, and
proves with TLAPS, for every instance, the safety of those that keep state: the commit
path and its atomicity, the manifest, transactions, time travel under maintenance, the
handles of queries, the catalog and the plan cache, and the parallel scan.

All paths below are under `src/internal` of the repository.

## 1. The system

### Components, their state and their operations

| component | state it keeps | operations |
|---|---|---|
| write-ahead log (`storage/wal.go`) | one file of intents, commit records and checkpoints | append with or without fsync, truncate to the header, replay, group pending intents |
| manifest (`storage/manifest.go`) | one file of records per table and its copy in memory | commit, retire, roll back a failed append or poison the handle, load, resolve a snapshot by timestamp |
| deletion vectors (`storage/dv.go`) | one file per segment and rewrite | write under a fresh path, load (a missing file kills nothing), remove |
| segment files (`storage/segment_*.go`, `page_facts.go`, `sidecars.go`, `stats.go`, `bloom.go`, `codec/`) | immutable columns in pages, statistics, histograms, filters, sums | write, open, decode |
| catalog (`catalog/`, `engine/catalog.go`, `engine/db.go`) | schema in memory, held as a slice and as a map of pointers; `catalog.json`, `.bak`, `.tmp` | CREATE TYPE and TABLE, ALTER TABLE (add, drop, rename, widen), save, load, migrate, validate |
| plan cache (`engine/db.go`, `sql/`) | bound plans by text and schema version | get, put |
| statements (`engine/insert.go`, `delete.go`, `update.go`) | none | stage segments and vectors, hand them to a commit function |
| commit and recovery (`engine/wal.go`, `engine/db.go`) | counters of TxnID, commit timestamp, segment ids | publish, replay on Open |
| transactions (`engine/tx.go`) | pending lists, read timestamp, `db.mu` held | statements, queries over an overlay, Commit, Rollback |
| maintenance (`engine/compact.go`) | pinned readers, retention lag | Compact, Vacuum, VacuumRetention |
| queries (`engine/query.go`, `segcache.go`) | cache of open segments | open the segments of a snapshot, run a plan |
| scan and pruning (`storage/scan.go`, `pred.go`, `predicate.go`, `exec/predicate_pushdown.go`) | none | lower WHERE, skip segments and pages, evaluate on encoded values, fill in columns a segment lacks |
| shortcuts (`engine/metadata_agg.go`, `storage/scan.go` top-K) | none | answer aggregates from statistics, leave pages out of ORDER BY LIMIT |
| operators (`exec/`) | batches in flight; goroutines and channels in `ScanOp` | filter, project, join, aggregate, sort, window, union |
| SQL front end (`sql/`), types (`schema/`), vectors (`vector/`) | none | parse, plan, bind |
| public API, CLI, benchmark, examples | none | wrappers |

`DB.Exec`, `Query` and `BeginTx` take `db.mu` (a Tx keeps it to its end), so one
call runs at a time and reads the manifests and the catalog the previous one left.
What interleaves is therefore a call and the environment: a process that dies or
a machine that loses power between any two file operations, and writes that
fail. Over a longer time, statements of different age meet in one table: segments
written under older schemas, vectors of older snapshots, handles in a cache.

### What is hard, and what makes each part correct

* **Commit path.** Five files change in sequence, two of them without fsync.
  Correct means: a transaction takes effect once, in all its tables, at one step, and survives; nothing a
  manifest names is ever removed or overwritten; counters rebuilt from disk
  restart above everything in use; Open finishes.
* **Manifest.** A failed or torn append must neither lose nor merge records;
  a timestamp resolves to the same view for ever.
* **Transactions.** Statements of a Tx must build on each other, Commit must
  publish what the overlay showed, Rollback must leave nothing.
* **Time travel.** Compaction, cleanup, the handle cache and a restart must not
  change what a timestamp reads.
* **Catalog.** A crash anywhere in Save finds an acknowledged schema; a failed
  Save is undone in memory; column ids are not reused; cached plans are not stale.
* **Log file.** Frames are padded to pages and checksummed; an append may fail half
  way, a truncation is not synced. What was acknowledged and synced must be found again.
* **Segment cache.** Handles are shared by name between the scans of a query, evicted
  by a limit that may change at any time, and dropped by maintenance. No scan may read
  through a closed handle, each must read the snapshot its reference names, and no
  file may stay open outside the cache.
* **Parallel scan.** Workers, a closing goroutine, a consumer, a context and an
  early Close meet in any order. An error must never look like a clean end, no batch
  may be lost or repeated, Close must return.
* **Plans and operators.** A SELECT goes through rewrites (pushed predicates, narrowed
  scans, merged projections, CTEs put in place, subqueries valued), four ways to
  sort, fast and slow filters, and operators that share memory. The answer must be what the statement
  means, also when the plan comes from the cache.
* **Scan.** Every shortcut must agree with reading all rows, although it is
  taken from statistics gathered under another schema, with wrap-around integers,
  NULLs, deletion vectors and columns that were renamed, dropped, added, widened.

`PROJECT.json` lists these as hazards, each at its line.

## 2. Modules

| module | models | checked by |
|---|---|---|
| `AtomicStore` | what the commit path promises, as an abstract specification | property of `commit_statements` |
| `CommitLog` | statements' files, log, manifests, recovery, one file operation per step | `MCCommitLog`, `MCTables` |
| `CommitLogInv`, `CommitLogProofs` | inductive invariants of the commit path and of its refinement; theorems | `commit_statements`, `tables`, TLAPS |
| `DurableLog` | what the log promises the commit path, as an abstract specification | property of `versions` |
| `WalFile`, `WalFileProofs` | the bytes of the log, by half pages; theorems | `MCVersions`, TLAPS |
| `Manifest`, `ManifestProofs` | one manifest file and its in-memory copy; theorems | `MCVersions`, TLAPS |
| `Transactions`, `TransactionsProofs` | statements of a Tx and their overlay; theorems | `MCVersions`, `MCTransactions`, TLAPS |
| `TimeTravel`, `TimeTravelProofs` | many commits, maintenance, cached handles, restarts; theorems | `MCVersions`, TLAPS |
| `SegmentCache`, `ReadPathProofs` | which handles the scans of a query read; LRU, limit, AS OF; theorems | `MCVersions`, `MCSegmentCache`, TLAPS |
| `Catalog` | DDL, Save and Load, migration, plan cache | `MCTables`, `MCCatalog` |
| `CatalogProofs` | theorems about `Catalog`: crashes; plans; ids of columns; Validate | TLAPS |
| `SequenceFacts` | lemmas on sequences, minima, listed sets and sums that the proofs share | TLAPS |
| `Segment`, `ReadPathProofs` | contents of a segment, statistics, filters, one comparison; theorems | through `StoredTable`, TLAPS |
| `StoredTable`, `ReadPathProofs` | tables under INSERT, DELETE and ALTER; top-K pages, metadata aggregates; theorems | `MCQueries`, TLAPS |
| `Predicate` | WHERE: lowering, pruning and evaluation of whole predicates | through `Scan` |
| `Scan` | SELECT with a WHERE clause over a stored table | `MCQueries`, `MCScan` |
| `BatchSource` | what an operator expects of a scan, as an abstract specification | property of `queries` |
| `ScanWorkers`, `ReadPathProofs` | goroutines and channels of `ScanOp`; theorems | `MCQueries`, TLAPS |
| `Expr`, `Filter` | values of expressions; predicates on a batch, with the masks they share | through `Execution` |
| `Stream` | batches, Filter, LIMIT, UNION and projection as stream operators | through `Execution` |
| `Sorting`, `Joining`, `Grouping`, `Windowing` | sort and top-K, hash join, aggregation, windows | through `Execution` |
| `Planner` | from the tree of a SELECT to a plan | through `Execution` |
| `Meaning` | what a SELECT means: the reference the answers are compared with | through `Execution` |
| `Execution` | building and running a plan, the plan cache between two runs, inserts | `MCQueries`, `MCExecution` |
| `Samples` | the statements, tables and rows that are tried | `MCQueries`, `MCExecution` |

`map` in `PROJECT.json` names the lines each definition stands for. A definition
whose name ends in `Bug`, or is otherwise marked *Mutant*, is a plausible
mistake in the definition after it and is used by nothing but the mutation of
that definition.

### CommitLog

State: the records of the log that the open handle counts (`wal`), what a failed append left behind
them in the file (`walTail`), and every content a power loss may
leave (`walDisk`: fsync makes it a singleton, a plain write or truncation adds
one content). Per table the latest snapshot and the highest timestamp in memory (`manifest[t]`,
`manifestTs[t]`), what a load would make of the file now (`manifestFile[t]`) and after a power loss
(`manifestDisk[t]`), whether a failed append closed the handle (`poisoned`), and, as history, which
appends failed (`failed`). Files on disk; which vectors were never forced to disk; the
counters of the `DB` value, which a crash clears; `pc`, the position of the one
running call; `txn`, its transaction.

`Execute` is the statement choosing its rows, `WriteSegment` and `WriteDVAtPath`
stage, `BeginCommit`, `AppendIntent`, `CommitManifest`, `AppendCommitRecord` and
`Acknowledge` are the steps of `commitManifestTxnAs` and `Tx.Commit`. Each may fail: `FailLog` is an
error of a log write, whose record stays in the file or not but is not counted; `FailManifest` an
error of the write or fsync of a manifest line, which `rollbackOrPoison` takes back or leaves in the
file behind a closed handle; `ManifestClosed` a commit to a table whose handle is closed. All three
run the cleanup of the caller (`Abandon`), which removes the files the line names even when the line
stays. `Open`, `RecoverGroup`, `RollForward`, `RemoveOrphans`, `MarkIntentResolved`,
`FinishOpen` are `openWAL` and `recoverTxnGroup`. `ProcessCrash` and `PowerCrash`
may come between any two.

Abstractions: a segment holds one row, named by the statement that wrote it; a
manifest line is there or not, since load drops one that is cut short (the file itself is the
subject of `Manifest`); the truncation that takes a line back is not synced, so a power loss may
still find the line; a log is a sequence of records without byte layout; the clock behind vector
paths never goes back; errors while files are staged, and errors of the writes of recovery, are left out.

### Manifest

`records` and `version` are the handle's memory, `file` the lines on disk, whose
last may be torn. `Commit` and `Retire` append, an append may fail and be rolled
back or leave the handle poisoned, a crash may cut a line, `Load` drops it.
`Resolve` is `resolveLockedFiltered`, with its blanked entries and index.

### Transactions

One table, rows with keys. `Statement` runs INSERT, DELETE or UPDATE in or
outside a Tx, all three through the same functions of `view`, the committed
snapshot; `Overlay` is what a query of the Tx sees. `expected` is the history of
what the statements should have done.

### TimeTravel

A commit is one step; each operation of `compact.go` is one. `cache` keeps a
handle for each pair of segment and vector with the rows it read when opened.
`history[ts]` is what the table held at `ts`. `cleaned` is the horizon: `VacuumRetention(cutoff)` raises
it to its cutoff, `Vacuum` to the present, because it removes vectors that any older snapshot may name.
`KeptAt(ts)` is the snapshot of `ts` without the segments that a later record retired (`RetiredSince`). Compaction rewrites the half-deleted
segments and any set `altered` of others: whether a segment still has a dropped column or no
table id is not part of the state. The order in which it takes them is that of the snapshot in the
code and any order here; it matters only for what was rewritten before an error.

### SegmentCache

A commit is one step; `snapshots[ts + 1]` is what each table consists of at `ts`. A query is
a sequence of plans: its uncorrelated subqueries, each drained while the plan is
built (`materializeSubqueries`), and the SELECT. `BuildScan` resolves the next
reference: through `opened`, the map of the query's resolver, or by `OpenSegments`, which
touches or opens each segment and evicts what `evictExcept` evicts. `held` is what
the scans were given. `BuildCorrelated` may come at any row of a running plan.
`SetCacheSize` may come at any time, since it takes no lock. A handle is its key and a
number that tells two openings apart.

`HandlesStayOpen` has the premise `Fits`: all the query was given fits the smallest limit it saw,
or it uses one table. Beyond it the code does close what is still to be read:
`evictExcept` spares the working set of the table it opens and no other.
`OneSnapshotRead` leaves out tables a query names at two timestamps, which is
what `as_of_reference` is about.

### WalFile and DurableLog

The file is a sequence of half pages; a frame of one or three halves is padded to
one or two pages. `durable` holds the contents a power loss may leave: each prefix of
each write since the last fsync. `AppendFails` writes any part of a frame and leaves the offset; the next
append goes over it. `acked` is what the running process believes to be in the log. `DurableLog` is
refined by reading `kernel` and `disk` off the bytes and `log` off `acked`: an
acknowledged synced record is in every content, a restart finds the acknowledged records with at most one more.

Assumed of the machine: a write reaches the file front to back, and in the order of
the writes; a failed fsync loses nothing that was written before it. A file that does not end with
a page (`ragged`) is followed too, but the promise ends there: `OpenWAL`
accepts a last record whose padding is missing, sets the offset inside the page
and appends where no replay looks; and of a header shorter than a page it makes
an empty file without a header, to which the process appends, and which the next Open refuses.

### Catalog

The schema exists twice: the slice that Save writes and the map entries that
statements use; `inFile` and `shared` say whether an entry still is the slice's
element and shares its columns. Save is four steps (`WriteTmp`,
`RenameToBak`, `RenameToTarget`, `SyncDirectory`), each may fail, and between
them the process or the machine may stop; `unsynced` holds the directory states
a power loss may leave. Left out: ordinals, storage policies, keys and indexes,
`SchemaVersion` and the other counters nobody reads. `suspect` excludes from
`ColumnIdsKeepMeaning` and `PlanHitsFresh` the tables with a map entry that left the slice (section 5, 4) and the tables that were
given rows while the directory was not synced (section 5, below the list). `acked` is the catalog that Save wrote for the
last acknowledged DDL: a column that was added through a map entry outside the slice is not in it, so
that such a column is lost shows in `MapsShareCatalog` and not in `CrashLoadsAcknowledged`.

### Segment, StoredTable, Predicate, Scan

`Segment` says which pages the writer analyzes and what the statistics then are,
reads them the way the pruning code does (an int32 column's as one int64 too), and
gives for one comparison what can be skipped, matched wholesale and evaluated on
frame-of-reference and dictionary pages, with the wrap of the literal minus the
base. `StoredTable` has the table as its state; INSERT, DELETE and each ALTER are its actions,
and queries are operators compared with a plain reading: here those without WHERE. `Predicate` lowers a
WHERE clause and lifts the answers of `Segment` to AND, OR, NOT; `Scan` adds the queries that have one.

Words have `WordBits` bits, so that limits are few values away. Bloom filters are
exact (a false positive only keeps what an exact filter skips). The caps of 4096
histogram entries and 256 dictionary entries are not reached. Delta, constant,
sequence and FSST pages are decoded exactly and not distinguished from plain ones.
All columns are nullable. Clauses compare int64 columns with integers and text
columns with strings. A clause a segment's rows are filtered with row by row
treats NOT as complement, as `FilterOp` does.

The code does depart from the plain reading in several ways. Each is a
premise of a property, defined under its own name: `FullyAnalyzed` (pages with some NULLs are
in no statistics), `NotShadowed` (a segment holds another column under the name),
`NotRenamed`, `NotWidened`, `AbsenceHandled` (a column the segment lacks, read
only by the predicate or projected beside one). Section 5 lists what happens
without them.

### ScanWorkers and BatchSource

One action per channel operation: a worker loads a batch, sends it or sees the
context cancelled, fails, reports, returns; the closing goroutine waits for all and
closes `out`; Next receives a batch, the end or the cancellation; Close cancels
and drains. `sent[s]` and `taken[s]` count batches of segment `s`, `out` is the
buffered channel. `BatchSource` promises that each batch comes once, in order
within what one worker has, and that a clean end comes after all of them; its
`broken` and `stopped` are the failed read and the cancelled context.

### Expr to Execution

`Execution` has three variables: `db`, the rows of each table by segment; `plan`, what the plan cache
holds for the one statement of the behaviour; `answer`. `Prepare` plans, `Execute` runs the
plan to the end, `Insert` adds a segment and forgets the answer, so that the next `Execute` finds the
plan in the cache as the last one left it. Reads may fail after any number of segments (`Worlds`),
and workers may deliver segments in another order.

An operator is a function from streams to streams. A stream is a sequence of batches, each
with its columns, its rows and the set of rows that are selected, and how it ends.
What makes this more than relational algebra is kept: a filter narrows masks
that are shared with its input, fast paths compare raw words, a projection reuses its columns, joins
and sorts keep batches, the planner pushes, narrows and merges. `Meaning` says what the same statement means, by comprehension,
and `AnswersExact` compares. Integers have `WordBits` bits and wrap; floats are
integers that are never divided; texts are numbers that are only compared. A statement has at most one
subquery, uncorrelated. `Keeps` in `Meaning` takes NOT as the filter does, as
"is not true", which is not SQL's choice.

`Departs` names the statements on which the code answers something else than
the statement means. Each disjunct is a place in the code:

| disjunct | place | what happens |
|---|---|---|
| `limit = 0` after ORDER BY | `exec/sort.go:462` | taken for no limit |
| `CteShape`, `LosesCte` | `sql/planner.go:308`, `sql/expr.go:113` | WHERE, joins and plain columns over a CTE are dropped with the scan they were pushed to; a CTE in a subquery is never put in place |
| `NegationMeetsNull` | `storage/predicate.go:495` | a pushed `<>` or NOT IN complements a mask and keeps NULLs |
| `NullKeys`, `FloatKeys` | `exec/aggregate.go:223` | rows with a NULL key are left out; floats have no key |
| `HeapExceeded` | `exec/sort.go:467` | past the largest heap the sort of one integer key applies neither LIMIT nor OFFSET |
| `HiddenAggregate` | `exec/executor.go:535` | an aggregate only HAVING uses comes out as a column |
| `NarrowsLiteral` | `exec/filter.go:199` | a literal is cut to the width of the column |
| `CountsFloat` | `exec/aggregate.go:793` | count of a float column is refused |
| `BufferedProject` | `exec/project.go:59` | batches kept by sort, join or window share the columns of a projection |
| `RenamesUnion` | `exec/union.go:60`, `sql/planner.go:186` | UNION renames the columns of its inputs in place; its ORDER BY binds other names |
| `NamesTwice` | `exec/aggregate.go` | two aggregates of one name are one column |

`SharesMasks` and `Current` are the exceptions that `filter_masks` and `frozen_subquery` show.

## 3. Runs

| run | asks | bounds | distinct states |
|---|---|---|---|
| `commit_statements` | does the commit path of one-table transactions implement `AtomicStore` through crashes and failing writes that leave their record or line behind, does committed data stay on disk, do counters restart safely, is `IInv` invariant, does Open finish? | 2 tables, 3 transactions, 2 crashes, 1 failing intent or manifest write | 693,848 |
| `tables` | is `IInv`, which keeps committed data on disk, invariant for multi-table transactions too, and does recovery never meet a group of two intents? Or: DDL, crashes, failing saves, plans | 2 tables, 2 transactions, 2 crashes, 1 failing write; 2 tables, 2+1 column names, 1 crash, 1 failure | 903,483 |
| `versions` | one of five machines: the manifest file; statements of a session; maintenance and time travel; the handles of a query; the file of the log | 2 segments, 2 vectors, 3 records, 1 failure or crash; 3 keys, 4 statements; 4 timestamps, 2 rows, 1 restart; 2 tables, 6 queries, 4 commits, limits 1 and 2; 3 appends of 1 or 2 pages, any number of restarts | 587,249 |
| `queries` | one of three: the workers of a scan; sample statements run, and run again after inserts; shortcuts of a table scan | 4 segments, 2 workers; 4-bit words, 97 statements, 2 segments of one table and 1 of the other; 3 rows or 4 cells, 2 pages per segment, 1 deleted row, 1 ALTER | 78,790 |
| `tx_atomic` (violation) | is a Tx over two tables atomic? | 1 transaction, 1 crash | |
| `delete_recovery` (violation) | does a committed DELETE survive a lost commit record? | 2 statements, 1 crash | |
| `own_writes` (violation) | do DELETE and UPDATE in a Tx see its writes? | 3 statements | |
| `as_of_reference` (violation) | does each reference read the timestamp it names? | 1 table, 2 commits | |
| `catalog_pointers` (violation) | do the maps share pointers with the catalog? | 3 generations | |
| `scan_skips` (violation) | is a skipped segment free of matching rows? | as in `queries`, without DELETE and ALTER | |
| `filter_masks` (violation) | does a filter keep the rows its predicate is true of? | as in `queries` | |
| `frozen_subquery` (violation) | may a cached plan be run again? | as in `queries` | |

Several machines share a run where they share no variable: `level` says in the initial state which
of them runs, and the others stand still, so that the run costs their sum and not
their product. `MCTables` extends `Catalog` and `CommitLogInv`, `MCVersions` extends `Manifest`, `Transactions`,
`TimeTravel`, `SegmentCache` and `WalFile`, `MCQueries` extends `ScanWorkers` and `StoredTable`: their properties are
checked under their own names, and their variables keep an initial value at the other levels.
`MCQueries` instantiates `Execution` and `Scan`, and states their
properties at their level. `LevelTypeOK` is the type invariant of whichever machine of `versions` runs.
The assumptions on the constants of every module are evaluated by these runs.

Why these bounds are enough: recovery decides by comparing one intent with one
manifest, and the interesting cases need a transaction that a second one builds
on (an UPDATE of a row it inserted), a crash in it and a crash during recovery of
that; the third transaction reuses counters. A failed append needs a commit before it, whose
files must stay, a restart that finds its line, and a commit on top of it. A manifest needs one record before and one
after a torn one. In `Transactions` two rewrites of one segment in a Tx, after an
insertion, take four statements. In `TimeTravel` the shortest wrong read takes two
commits on a segment, a compaction and a restart that reuses its path; the run lets `altered` be
none of the segments or all of them, the theorems any. In `Catalog`
the slices of Go move at the second table and the third column. In `StoredTable`, segments are
judged one by one, so one segment with two pages shows every shortcut of a
predicate; two segments are needed for top-K and the aggregates; the values are
the least word, a value near it, NULL, and literals at both limits.
In `SegmentCache` a join of two tables, a subquery before it and a correlated one in
it, with limits below and at what they need, meet a changed limit, a new vector and a retired file. In
`WalFile` the third append finds what a failed second one left behind an acknowledged first.
For the operators, two segments of `t` and one of `u` with up to two rows, chunks of two rows, and values
that tie, are NULL or lie at the end of the words reach every fast path and its alternative.

Deadlock checking is off where a bound simply ends the DDL or the statements: in `tables`, `queries`,
and the violation runs of `Catalog`, `Scan`, `SegmentCache` and `Execution`. Symmetry: keys are interchangeable in `own_writes`,
tables in `tables`, `tx_atomic` and `delete_recovery`; no run with a temporal property uses it.

Fairness: in `CommitLog`, `FairSpec` adds `WF_vars(Recovery)`: somebody reopens a
closed database, and Open, which runs on one goroutine without waiting for anything,
goes on until it returns. Nothing is assumed of clients, of statements in progress or of crashes;
crashes are finite because the bound makes them so, which is the
proviso of `RecoveryCompletes` ("unless another crash comes"). In `ScanWorkers`,
every goroutine that can go on does in the end (`WF` of each worker, of the closing goroutine, of the consumer's
receive and drain): the scheduler of Go promises that, and reads of local files return. The consumer, once it
has its answer, calls Close, as `runQueryWith` does in a `defer`. Nobody has to cancel, and reads may fail or not.

## 4. Proofs

`CommitLogProofs` proves, for every set of tables, every bound and any
mixture of crashes, power losses and failing intent and manifest writes:

* `TypeCorrect`: `TypeOK`;
* `CommittedDataSurvives`: `SnapshotIntact`, every segment that a manifest names by an append that did not fail is on
  disk with what was committed under its path, and every vector it names so exists (a torn one too: reading it
  fails). The files of a failed append are promised to nobody (`Promised`);
* `TimestampsAdvance` (`CommitTsFresh`), `PathsNotReused` (`StagedPathsFresh`),
  `NoGroupToRoll` (`GroupsAreSingletons`);
* `Invariance`: `IInv`, on which the others rest.

Assumptions: those of `CommitLog` on its constants (a finite, non-empty set of
tables, natural bounds) and `Workload`: clients run INSERT and UPDATE, and only
log-intent and manifest writes fail. Without it `SnapshotIntact` is false: `delete_recovery` shows
the first half, the second is the cleanup hazard of `insert.go:125`.

Why `SnapshotIntact` is not inductive by itself: it speaks of the manifest in memory, and a restart may find
another one. `FilesInv` says of every view a restart can find (`Views`) that it has the files of what was
promised in it (`HasFiles`), and that two such views differ by segments of failed appends only (`Settled`), so
that a segment is never lost by going from one to the other. Recovery, then, removes the files of an
intent it takes for uncommitted, so one must know of *every content the log can
have after a power loss* that each pending intent either is recognisable
in the manifest or owns nothing a manifest refers to, *in every view that may be found along with that log*
(`Resolvable` in `LogInv`). That
in turn needs to know that vectors carry stamps older than the next statement and belong to the segment
they mark (`ManifestInv`), that what is staged is new (`StagedInv`), that the
intents before the current one are older in TxnID and stamp (`PendingInv`), that
counters and timestamps dominate the manifests (`ManifestInv`, `TimestampInv`), and that
recovery works off the pending intents one group at a time (`RecoveryInv`). The proof has
one lemma per action (`ExecuteInv` ... `FinishOpenInv`), under it one step per conjunct
that the action can disturb; `NextInv` combines them. Lemmas on `PendingIntents`
(`PendingAfterIntent`, `PendingAfterCommit`) say what appending a record does to
the pending ones.

`AtomicStore` is refined by the commit path as long as every transaction has one table (`Workload` and
`~MultiTable`; `tx_atomic` shows why the second is needed). `CommitLogProofs` proves it too:

* `StoreInvariance`: `StoreInv`, which adds two parts to `IInv`. `RowsInv`: no two segment files of a
  table hold one row, rows are older than the transactions to come, and what a pending transaction kills is what a
  query reads now. `PhaseInv`: which steps of the call belong to a pending transaction, and that what it has left to
  publish is all of it or nothing.
* `CommitPathIsAtomic`: `ImplementsAtomicStore`. The steps that are more than a stutter: `Execute`
  begins the change; `CommitManifest` applies it (`CommitManifestStep`: what the manifest reads is the store with the rows removed
  and the new ones added, which needs `RowsInv`) and settles the table, since its fsync leaves one view to be found; whatever
  ends the call ends it there (`EndStep`); `FailManifest` ends it and puts what the transaction was to do in doubt;
  and `Open` takes up the manifest found, which differs from the one known before in rows in doubt only (`OpenStep`: where two
  views differ, one of them differs from the one in memory). The removals of recovery leave the contents alone
  (`RemoveOrphansStep`), because by `Resolvable` no manifest names the files of an intent that has not committed.
  `AtomicStore` says what a caller can rely on: a transaction that took effect stays; one that did not may be shown or hidden
  by a restart, in whole or in part, until the next one takes effect in that table. That a table can be read is no part of it: one whose
  manifest names a removed segment or a torn vector answers no query.

`WalFileProofs` proves, for records of any sizes and any number of appends (`SizesAssumption`):

* `LogIsDurable` (`ImplementsDurableLog`): the file implements `DurableLog`, step by step;
* `LogIsAccepted` (`OpenAccepts`) and `WalTypes` (`WalTypeOK`).

The invariant is about the halves of the file, not about what a replay returns: while the handle is open, the frames of the
acknowledged records lie one behind the other from the header to `walSize` (`Lays`, `Ready`); behind that, what failed
appends left begins with one frame at most, at `walSize` itself (`NoStart`), so a replay finds one
record more or none; no half is of a record still to come (`Aged`), so a
frame cut short over the rest of an older one does not pass its checksum; and every content a power loss may leave
that has a page has the header. `ReplayLays` and `ReplayOf` say that what a replay reads is
exactly what lies in the content in this way; `WriteReads` says what it reads after any number of halves of
a frame have been written. What stands for the checksum is that each half carries the id of its record: no mixture of two
records passes as one of them.
A file found ragged is excluded from then on (`~ragged`), as in `DurableLog`.

`ManifestProofs` proves of one manifest, for any finite sets of paths and any bounds (`PathsAssumption`, `BoundsAssumption`):

* `RecordsAreNumbered` (`VersionsConsecutive`). What makes it inductive is what it leaves open: the lines of the
  *file* are numbered up to the first torn one, which is all a load reads, and an open handle has what the file
  has (`FileInv`).
* `TimestampsKeepTheirView` (`SnapshotsStable`). `Honours` says of a sequence of records that it resolves every
  timestamp reported so far to the view of that time; `StableInv` says it of the records in memory and of those a load would
  keep (`Kept`), whatever an append left behind them. A later record does not matter to an earlier timestamp (`SameView`): the pass over the
  records is a fold, and the lemmas turn it into the states it goes through (`PassStates`).
* `ViewsAreExact` (`ViewsAgree`), from `NoPathAssumption` as well (no segment has the empty name that stands for a blanked
  entry): the one pass with its index, its blanked entries and its patched deletion vectors gives at every version and timestamp
  what the records say by themselves. `Shows(st, E)` relates a state of the pass to the entries `E` it stands for, and each
  add, redirection and removal keeps it (`AddShows`, `RedirectShows`, `RetireShows`). On the other side, `EntriesNext` says how the
  entries of a set of records change when a later record joins it. The two meet only for records that are `Tidy`: timestamps ascend, a
  record adds distinct paths, and no path is added again unless it was removed in between (otherwise the pass would keep two
  entries and the index lose the first). `ViewsInv` says that of memory and of what a load would keep. It is inductive because a
  commit adds no live path, and what is live is what `ViewsAgree` says (`NotLive`).
* `ManifestTypes` (`TypeOK`).

`CatalogProofs` proves what `Catalog` promises, for every set of tables, columns and types, any number of generations,
crashes and failures. Each theorem adds a layer to the invariant of the one before:

* `SchemaSurvivesCrash` (`CrashLoadsAcknowledged`), by `CrashInvariance`. To it one adds how far Save is (`Progress`: the new
  content is in `.tmp`, then alone in `catalog.json`, and after the sync nothing else can be found) and that every content on disk has
  the fields of a catalog (`Shape`), so that a catalog opened and saved again is the same.
* `CacheHitsAreFresh` (`PlanHitsFresh`). While a DDL is saved, plans fit the schema it began with
  (`InDDL`, `Good(undo)`) and the generation is one above; when it fails, the generation comes back and the plans fit
  again. `Noted` is the condition that makes it true: a table whose map entry left the slice is one of the suspects.
* `ColumnIdsAreForever` (`ColumnIdsKeepMeaning`), from `FirstColumnsAssumption` (a table is created with at least one
  column and no two of one name). The invariant speaks of the schema in memory, of the one to be restored and of
  each a crash can bring back: ids are distinct and below the next to be drawn, and so are those of the values in segments
  (`IdsOK`). The part that is hard to see from the code is `Agrees`: an INSERT may rely on the catalog on disk having the columns it writes
  only if the directory is synced (`Synced`) and no undone CREATE has left a file that
  differs in them.
* `CatalogStaysValid` (`CatalogValid`), from `FirstColumnsAssumption`. A rename through a map entry
  also changes the slice that Save writes, where the table may have fewer columns. That no two names clash there needs
  `PrefixOf`: while the two share an array, the slice shows a prefix of what the entry shows, so a name that is free in the
  entry is free in both.
* `CatalogTypes` (`CatalogTypeOK`), from `FirstColumnsAssumption` and `CatalogAssumption`. That an array never holds more
  than its capacity needs two facts: what the JSON decoder allocates when it grows an array has room for
  its elements (`DecodedRoom`), and the slice that a failed CREATE leaves moved has room for the table that is gone. At most one content
  per file and no `.tmp` outside Save come from `Progress`.

`ReadPathProofs` proves, for any tables, queries and cache sizes:

* `ScansReadTheirSnapshot` (`OneSnapshotRead`), from
  `QueriesAssumption` (a query is a sequence of at least one plan over references to tables). The invariant says of the resolver what the
  property says of scans: each table it holds was resolved by *some* reference of the query (`ResolvedOK`); if the query names
  the table at one timestamp only, that is the timestamp of all of them. Commits need a free `db.mu`, so no snapshot comes
  while a query holds handles (`QueryOK`).
* `OpenFilesAreCached` (`OpenHandlesBounded`), from `QueriesAssumption` and `CacheAssumption`. The list of the cache has no handle and no key twice and
  its members are the open files (`HandlesInv`). Eviction goes from the cold end until the limit or
  the working set is reached; the lemmas on `Coldest` count what it takes.
* `EvictionSparesTheQuery` (`HandlesStayOpen`), from the same. What was given to the query is the
  warmest part of the list (`WarmFrom`), and while it fits, what is evicted is colder (`SparedInv`).
* `CacheTypes` (`CacheTypeOK`), from the same and that invariant. Here a query needs a plan, or it would stand at none; and
  a fresh handle has a generation because the handles somebody refers to are finitely many (`HandleTypes`).

and, for every number of workers, segments and batches and whatever fails or is cancelled:

* `WorkersTypes`: `TypeOK`, with the bound on the channel;
* `CleanEndIsComplete`: `EndIsComplete`, a scan that ends without an error has passed on every batch;
* `ImplementsBatchSource`: `ImplementsSource`, every step is one of `BatchSource` or a stutter;
* `WorkersInvariance`: `IInv`, on which they rest.

`EndIsComplete` speaks of the last moment only. What makes it inductive is an account of where each batch is: what was sent of a segment
is what was taken and what lies in the channel, in order (`Queued`); a worker begins a segment after
it sent all of those before (`InTurn`); while the
consumer pulls, one that returned without reporting an error has sent everything (`Accounted`); and an answered consumer has looked (`Answered`). One lemma per action
(`SendIInv`, `ReceiveIInv`, ...), combined by `NextIInv`. Assumptions: those of `ScanWorkers` on its constants.

and, for every width of words, every segment whose integer cells are words (`SegmentOK`) and every comparison (`LeafOK`; the literal may be any
integer, also one past the words that `<=` is lowered to):

* `SkippedPagesHoldNothing`, `CertainPagesHoldAll`: what the pruning of pages concludes is so, with NULLs and without;
* `EncodedValuesTell`: on a FOR or dictionary page that is neither skipped nor certain, the encoded values tell the rows that the values
  tell, where the name leads to the column the id leads to. What makes it true is that the page was not skipped: then the literal lies
  between its least and its greatest value, and moving it by the base does not leave the words (`WrapKeepsWords`), nor exceed the
  bits of a residual (`BitsSuffice`);
* `SkippedSegmentsHoldNothing`, `CertainSegmentsHoldAll`: the same for segments, for columns of int64 and text. The first needs that no page
  mixes NULLs and values (`Covered`); `scan_skips` shows what happens with such a page.

and, for every table under any INSERTs, DELETEs and ALTERs, whatever is inserted and however many rows and pages it has
(`Premises`: `TableAssumption` on the constants, and those of `Segment`):

* `TableTypes` (`TableTypeOK`). The invariant `TableInv` adds what the queries below need of a segment that was written under an older
  definition (`Descends`): the id of a column was given once, and of the kind it had then only an int32 is another now;
* `TopKIsExact` (`TopKExact`). A page may be left out because of pages that are left out themselves. That these do not count in
  vain is `FirstLeftOut`: among the page and those before it that are left out, the one with the fewest pages before
  it has all of them read; they hold the rows the query asks for, since it is left out, and these rows come before the page's own
  by transitivity (`BetterIsOrder`);
* `MetadataIsExact` (`MetadataExact`). A count is a sum over the segments of the sizes of sets of positions that do not overlap
  (`CountBySegment`), a sum one of sums (`SumOfParts`), and least and greatest values are those of the least and greatest of the segments
  (`BoundsOfParts`). The hypotheses are those of the property: no other column under the name (`KnownColumn`), and
  statistics that cover the column, which make the analyzed rows those with a value (`PlainCells`).

`TransactionsProofs` proves, for any keys and any number of statements:

* `QueriesSeeTheStatements` (`OneRewriteExact`): queries in a Tx and outside read what the statements
  before them should have left, each row from one segment, unless a DELETE or UPDATE of the Tx came after another change of
  it (`blind`, section 5);
* `CommitPublishesWhatTheTxSaw` (`CommitPublishesOverlay`) and `RollbackRemovesItsFiles` (`RollbackLeavesNoFile`), blind or not;
* `TransactionsTypes` (`TxTypeOK`).

The invariant: what is pending was written by this Tx and is in no view (`PendingOK`), a row names the statement that wrote it and so its segment (`FilesOK`), and the rows
of the view are the committed ones (`RowsOK`). `StageWrites` says once what any statement stages, `RowsAfter` what a view reads
after staged updates; INSERT, DELETE and UPDATE are instances of both.

`TimeTravelProofs` proves, for any number of commits, rows and restarts and any mixture of maintenance:

* `TimeTravelIsExact` (`SinceCleanupExact`): for every timestamp at or above the horizon, the segments of its snapshot not retired
  since are there, or open, and hold exactly the rows of that time: retention never removes a segment that has
  a row there. When nothing was retired since, that is what the query AS OF the timestamp reads;
* `RowsAreReadOnce` (`NoRowTwice`): never both from a rewritten segment and from its replacement;
* `TimeTravelTypes` (`TravelTypeOK`), from `TravelAssumption`.

The invariant has three parts. `FilesInv`: a DV is named for the timestamp of a record that names it, so the name a new timestamp gives is
fresh; the ids of segments are below the next one; a cached handle has the rows of the segment at its path, and its DV or
one that no view names any more (`HandleOK`). `HistoryInv`: after the last record nothing changed,
which is why a restart may set the counter back to it. `ReadInv`: what is kept of the view of every timestamp from the horizon on, and the view of the
latest, names files that are there and reads the rows of that time. The step that needs thought is `VacuumRetention`: a segment that it retires was added and
killed below the cutoff, so at every timestamp from the cutoff on its entry is the one of the present (`OldEntryStays`),
at which it has no row, and taking it out of those views takes no row out. One lemma, `CommitKeeps`, says that a commit that adds
segments of new rows and marks others keeps all of it; INSERT and DELETE are one such commit, `Compact` is one for each segment
it rewrites, by induction on how many it has done (`AllRewritten`).

`SequenceFacts` holds what these proofs share about sequences of anything, least and greatest elements, sets listed as sequences, and sums.
`SumFunctionOnSet` is a fold, chosen as a recursive function on the subsets of a set: that there is one (`SumsExist`) and that
elements may be taken out of a sum in any order (`SumTake`) is proved by induction on the subsets, stated for a set `Good` of
subsets and not for an operator (`SetInduction`).

Only model-checked: liveness (`RecoveryCompletes`, `ScanCloseReturns`), out of TLAPS's reach here; and everything from `Predicate` to `Execution`, whose predicates and plans are trees
walked by RECURSIVE operators: `ScanExact`, `AnswersExact`, `ErrorsAccounted`. What such a tree rests on, one comparison, is proved.
`LevelTypeOK` puts the type invariants of five components in one run: each of them is proved of its component, the dispatch
between the components, which is not of the program, is only checked.

## 5. Where the code departs from what it says

Each of these is a violation run with its counterexample:

1. `tx_atomic`: a crash between the tables of `Tx.Commit` leaves a transaction half
   committed. The intents are logged table by table and share one TxnID, which the
   first commit record resolves. `NoGroupToRoll` proves the other side: the
   forward-roll for groups never has more than one intent to roll.
2. `delete_recovery`: recovery takes a DELETE without commit record for
   uncommitted, since its intent adds no segment, and removes the vector.
3. `own_writes`: DELETE and UPDATE in a Tx read the committed snapshot.
4. `catalog_pointers`: the second CREATE TABLE may leave the map entries of older
   tables pointing out of the catalog; their next ALTER is acknowledged and not saved.
5. `as_of_reference`: the resolver of a query keeps segments by table name; a table joined with itself at two
   timestamps is read at the first of them twice.
6. `filter_masks`: the right operand of an AND gets one mask as input and as scratch memory, and an OR, a NOT or a
   row-by-row predicate there reads it after writing it.
7. `frozen_subquery`: running a plan puts the values of its subqueries into the cached plan.
8. `scan_skips`: pages with some NULLs are not analyzed; a segment of such pages has
   statistics that read as 0 to 0, and `WHERE v = 5` skips the row that holds 5.

Seen while modelling and kept as hazards with a note, or as named exceptions of a property.

About failing writes and power losses, in `CommitLog` and `Catalog`:

* When the fsync of a manifest line fails, the line can stay in the file: the truncation fails and the handle is closed
  (`storage/manifest.go:166-182`), or it succeeds and, not being synced, is undone by a power loss. The cleanup of INSERT and UPDATE
  (`engine/insert.go:125`, `update.go:87`) removes the segment all the same. A manifest opened again then names a segment that is gone:
  SELECT, UPDATE and DELETE of that table fail (`Readable`), and INSERT still works. `SnapshotIntact` promises nothing of
  what a failed append named.
* A Tx does not clean up, so its line, found again, takes effect although Commit returned an error: `AtomicStore` has it
  as rows in doubt.
* The path of a segment whose line failed is given out again after a restart that does not find the line. If the machine dies
  before the next line of the table is synced, the old line can come back and name what a later, lost transaction wrote at the
  path. These rows are in doubt as well; a path that a successful append named is never written again (`SnapshotIntact`).
* A vector that a power loss cut short is found under its name and rejected when read (`storage/dv.go:72`); the table cannot be read.
  `SnapshotIntact` counts it as there.
* When the commit record cannot be appended or the log cannot be truncated, the transaction is in the manifest and the
  cleanup of INSERT and UPDATE removes its segment (`FailLog` with `pc` at `record` or `truncate`, outside `Workload`).
* While the directory of the catalog is not synced (a failed Save, or a catalog found by Open), statements go on: rows inserted
  then carry column ids that a power loss may take out of the catalog and later DDL give out again. `suspect` keeps such tables
  out of `ColumnIdsKeepMeaning`.

About old snapshots: Vacuum removes vectors that only older snapshots name, so QueryAt returns deleted rows below the present
(`SinceCleanupExact` starts there). Retention keeps the rows of every snapshot from its cutoff on, but a snapshot
between the cutoff and the record that retires a segment still names the segment: AS OF such a timestamp fails to open the missing file
(`Opens`), and after a restart that gives out its path again it would open a segment of later rows. `src/README.md:14` says
"Time-travel reads against any committed snapshot".

About reading: name fallback misreads a segment that holds
another column under the name; widened columns are pruned with misread bounds; a
default is lost for columns only the predicate reads; projecting a column the
segment lacks beside a pushed predicate decodes column -1; eviction closes segments of a join that does not fit the
cache (`Fits`); a log that does not end with a page loses later appends (`ragged`); and the table of `Departs`
in section 2.

## 6. Not modelled

* The values of correlated subqueries (only the handles they open), nested subqueries,
  avg, text functions, JSON, decimals, dates and times, division and order of floats.
* Lexing, parsing, type checks, formatting of plans, EXPLAIN (which reads the latest snapshot whatever AS OF says).
* Integer literals pushed to columns of another width (`exec/predicate_pushdown.go:179`): decoded values are then read
  past their memory, so what comes out depends on the build.
* A commit record whose append fails, a log whose truncation fails: `FailLog` has both, but no run or theorem allows them
  (`FaultAt`, `Workload`), because the cleanup then removes a committed segment (section 5). Failing writes of recovery.
* Two databases in one process, which share the planner variable of `sql/expr.go:111`.
* Vector kernels bit by bit, the encodings' bytes (Delta, FSST, ALP and others are taken as exact), bloom filters' false
  positives, type parsing, timing spans, CLI, benchmark, public wrappers, the random
  statement generator: sequential code without shared state.

## 7. What would come next

1. What still holds in `CommitLog` with faults at `record` and `truncate`; failing writes of recovery; compaction's path through the log there.
2. Encodings as pure functions: FOR, Delta, bit packing round trips, against their definition.
3. Correlated subqueries in `Execution`, with their rebinding of the outer row.
4. `StoredTable` with two ALTERs of one column in a run: with one, `NotShadowed` is never false. The wrap of a literal on a
   frame-of-reference page is proved harmless (`EncodedValuesTell`) but not met by the values of the run.
