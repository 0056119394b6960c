--------------------------- MODULE CatalogProofs ---------------------------
(***************************************************************************)
(* The schema, for every set of tables, columns and types and any number   *)
(* of crashes: a crash at any moment of any DDL loses nothing that was     *)
(* acknowledged, cached plans are those of the schema they run against,    *)
(* column ids keep their meaning for good, Validate accepts the catalog in *)
(* memory and every one a crash can bring back, and the types hold.        *)
(***************************************************************************)
EXTENDS Catalog, SequenceFacts

\* A record with the fields of a catalog file, of either format.
IsContent(c) ==
    c = [format |-> c.format, gen |-> c.gen, nextTable |-> c.nextTable, types |-> c.types,
         tables |-> [t \in DOMAIN c.tables |->
             [id |-> c.tables[t].id, next |-> c.tables[t].next, cols |-> c.tables[t].cols]]]

Known == {acked} \cup unacked
Saving == step \in {"write", "bak", "target", "sync", "manifest"}

Shape ==
    /\ disk = [json |-> disk.json, bak |-> disk.bak, tmp |-> disk.tmp]
    /\ \A dir \in unsynced : dir = [json |-> dir.json, bak |-> dir.bak]
    /\ \A dir \in AfterCrash : \A c \in dir.json \cup dir.bak : IsContent(c)

\* How far Save is: what the new file holds, and where it lies.
Progress ==
    /\ Saving => Content(mem) \in Known
    /\ step \in {"bak", "target"} => disk.tmp = {Content(mem)}
    /\ step = "target" => disk.json = {}
    /\ step \in {"sync", "manifest"} => disk.json = {Content(mem)}
    /\ step = "manifest" => unsynced = {Directory}

CrashInv == Shape /\ Progress /\ CrashLoadsAcknowledged

-----------------------------------------------------------------------------
(* What Load makes of a directory *)

LEMMA ContentIsContent == ASSUME NEW m PROVE IsContent(Content(m)) /\ Content(m).format = 2
BY DEF Content, IsContent

\* The catalog in a file that Save wrote is loaded as it is.
LEMMA LoadedContent ==
    ASSUME NEW m, NEW dir, dir.json = {Content(m)}
    PROVE  Loaded(dir) = Content(m)
<1>1. Found(dir) = {Content(m)}
  BY DEF Found
<1>2. Migrated(Content(m)) = Content(m)
  BY DEF Migrated, Content
<1> QED BY <1>1, <1>2 DEF Loaded

LEMMA MigratedIsContent ==
    ASSUME NEW c, IsContent(c)
    PROVE  IsContent(Migrated(c)) /\ Migrated(c).format = 2
BY DEF IsContent, Migrated

LEMMA LoadedIsContent ==
    ASSUME NEW dir, \A c \in dir.json \cup dir.bak : IsContent(c)
    PROVE  IsContent(Loaded(dir)) /\ Loaded(dir).format = 2
<1>1. CASE Found(dir) = {}
  BY <1>1 DEF Loaded, NewEmpty, NoTables, IsContent
<1>2. CASE Found(dir) # {}
  <2>1. PICK c \in Found(dir) : c = CHOOSE x \in Found(dir) : TRUE
    BY <1>2
  <2>2. IsContent(c)
    BY DEF Found
  <2> QED BY <1>2, <2>1, <2>2, MigratedIsContent DEF Loaded
<1> QED BY <1>1, <1>2

\* Opening a catalog and writing it again changes nothing.
LEMMA OpenedContent ==
    ASSUME NEW c, IsContent(c), c.format = 2
    PROVE  Content(Opened(c)) = c
<1> DEFINE o == Opened(c)
<1>1. /\ o.gen = c.gen /\ o.nextTable = c.nextTable /\ o.types = c.types
      /\ DOMAIN o.tables = DOMAIN c.tables
      /\ \A t \in DOMAIN c.tables : /\ o.tables[t].id = c.tables[t].id
                                    /\ o.tables[t].next = c.tables[t].next
                                    /\ o.tables[t].cols = c.tables[t].cols
  BY DEF Opened
<1> HIDE DEF o
<1>2. Content(o) = c
  BY <1>1 DEF Content, IsContent
<1> QED BY <1>2 DEF o

\* Which file Load reads, and so what it returns, is decided by these two.
LEMMA LoadedSame ==
    ASSUME NEW d, NEW e, Found(d) = Found(e)
    PROVE  Loaded(d) = Loaded(e)
BY DEF Loaded

-----------------------------------------------------------------------------
(* The steps *)

LEMMA InitCrashInv == ASSUME CatalogInit PROVE CrashInv
<1>1. PICK found \in {{}} \cup {{LegacyCatalog(t)} : t \in TableNames} :
          /\ disk = [json |-> found, bak |-> {}, tmp |-> {}]
          /\ unsynced = {[json |-> found, bak |-> {}]}
          /\ acked = Loaded([json |-> found, bak |-> {}])
  BY DEF CatalogInit
<1>2. \A c \in found : IsContent(c)
  <2>1. ASSUME NEW t \in TableNames PROVE IsContent(LegacyCatalog(t))
    <3> DEFINE tab == BuildTable(t, 1, 1)
               tables == [u \in {t} |-> [id |-> 1, next |-> tab.next, cols |-> tab.cols]]
    <3>1. LegacyCatalog(t) = [NewEmpty EXCEPT !.format = 1, !.gen = 1, !.nextTable = 2, !.tables = tables]
      BY DEF LegacyCatalog
    <3> HIDE DEF tables
    <3>2. LegacyCatalog(t) = [format |-> 1, gen |-> 1, nextTable |-> 2, types |-> {}, tables |-> tables]
      BY <3>1 DEF NewEmpty
    <3>3. tables = [u \in DOMAIN tables |-> [id |-> tables[u].id, next |-> tables[u].next, cols |-> tables[u].cols]]
      BY DEF tables
    <3> DEFINE c == LegacyCatalog(t)
    <3>4. /\ c.format = 1 /\ c.gen = 1 /\ c.nextTable = 2 /\ c.types = {} /\ c.tables = tables
          /\ c = [format |-> 1, gen |-> 1, nextTable |-> 2, types |-> {}, tables |-> tables]
      BY <3>2
    <3> HIDE DEF c
    <3>5. c = [format |-> c.format, gen |-> c.gen, nextTable |-> c.nextTable,
               types |-> c.types, tables |-> c.tables]
      BY <3>4
    <3>6. IsContent(c)
      BY <3>3, <3>4, <3>5 DEF IsContent
    <3> QED BY <3>6 DEF c
  <2> QED BY <2>1
<1>3. AfterCrash = {[json |-> found, bak |-> {}]}
  BY <1>1 DEF AfterCrash, Directory
<1>4. Shape
  BY <1>1, <1>2, <1>3 DEF Shape
<1>5. Progress
  BY DEF CatalogInit, Progress, Saving
<1>6. CrashLoadsAcknowledged
  BY <1>1, <1>3 DEF CrashLoadsAcknowledged
<1> QED BY <1>4, <1>5, <1>6 DEF CrashInv

\* The catalogs that count as found never change meaning while Known grows and
\* the directory stays.
LEMMA SameDirectory ==
    ASSUME Shape, CrashLoadsAcknowledged, disk' = [disk EXCEPT !.tmp = disk'.tmp],
           unsynced' = unsynced, Known \subseteq Known'
    PROVE  Shape' /\ CrashLoadsAcknowledged' /\ Directory' = Directory
<1>1. disk' = [json |-> disk.json, bak |-> disk.bak, tmp |-> disk'.tmp]
  BY DEF Shape
<1>2. Directory' = Directory
  BY <1>1 DEF Directory
<1>3. AfterCrash' = AfterCrash
  BY <1>2 DEF AfterCrash
<1>4. Shape'
  BY <1>1, <1>3 DEF Shape
<1>5. CrashLoadsAcknowledged'
  BY <1>3 DEF CrashLoadsAcknowledged, Known
<1> QED BY <1>2, <1>4, <1>5

\* A DDL assigns to the schema in memory and starts to save it.
LEMMA BeginCrashInv == ASSUME CrashInv, NEW j, NEW m, Begin(j, m) PROVE CrashInv'
<1>1. disk' = disk /\ unsynced' = unsynced /\ mem' = m /\ step' = "write"
      /\ Known' = Known \cup {Content(m)}
  BY DEF Begin, Known
<1>2. disk' = [disk EXCEPT !.tmp = disk'.tmp]
  BY <1>1 DEF CrashInv, Shape
<1>3. Shape' /\ CrashLoadsAcknowledged'
  BY <1>1, <1>2, SameDirectory DEF CrashInv
<1>4. Content(mem)' = Content(m)
  BY <1>1 DEF Content
<1>5. Progress'
  BY <1>1, <1>4 DEF Progress, Saving
<1> QED BY <1>3, <1>5 DEF CrashInv

LEMMA DDLCrashInv == ASSUME CrashInv, DDL PROVE CrashInv'
<1>1. \E j, m : Begin(j, m)
  BY DEF DDL, RegisterType, RegisterTable, RenameColumn, DropColumn, AddColumn, AlterColumnType
<1> QED BY <1>1, BeginCrashInv

LEMMA WriteTmpCrashInv == ASSUME CrashInv, WriteTmp PROVE CrashInv'
<1>1. /\ disk' = [disk EXCEPT !.tmp = {Content(mem)}] /\ unsynced' = unsynced
      /\ mem' = mem /\ Known' = Known /\ step = "write" /\ step' = "bak"
  BY DEF WriteTmp, Unchanged, Known
<1>2. disk'.tmp = {Content(mem)}
  BY <1>1 DEF CrashInv, Shape
<1>3. Shape' /\ CrashLoadsAcknowledged'
  BY <1>1, <1>2, SameDirectory DEF CrashInv
<1>4. Content(mem)' = Content(mem)
  BY <1>1 DEF Content
<1>5. Progress'
  BY <1>1, <1>2, <1>4 DEF Progress, Saving, CrashInv
<1> QED BY <1>3, <1>5 DEF CrashInv

\* Between the renames there is no live file: Load falls back to the other one.
LEMMA RenameToBakLoads ==
    ASSUME CrashInv, RenameToBak
    PROVE  /\ disk' = [json |-> {}, bak |-> Found(Directory), tmp |-> disk.tmp]
           /\ Directory' = [json |-> {}, bak |-> Found(Directory)]
           /\ Loaded(Directory') = Loaded(Directory)
<1>1. disk' = [json |-> {}, bak |-> Found(Directory), tmp |-> disk.tmp]
  BY DEF RenameToBak, CrashInv, Shape, Found, Directory
<1>2. Directory' = [json |-> {}, bak |-> Found(Directory)]
  BY <1>1 DEF Directory
<1>3. Found(Directory') = Found(Directory)
  BY <1>2 DEF Found
<1> QED BY <1>1, <1>2, <1>3, LoadedSame

LEMMA RenameToBakCrashInv == ASSUME CrashInv, RenameToBak PROVE CrashInv'
<1>1. /\ mem' = mem /\ Known' = Known /\ step = "bak" /\ step' = "target"
      /\ unsynced' = unsynced \cup {Directory'}
  BY DEF RenameToBak, Unchanged, Known
<1>2. disk' = [json |-> {}, bak |-> Found(Directory), tmp |-> disk.tmp]
  BY RenameToBakLoads
<1>3. Directory' = [json |-> {}, bak |-> Found(Directory)]
  BY RenameToBakLoads
<1>5. Loaded(Directory') = Loaded(Directory)
  BY RenameToBakLoads
<1>6. AfterCrash' \subseteq AfterCrash \cup {Directory'}
  BY <1>1 DEF AfterCrash
<1>7. Shape'
  <2>1. \A c \in Found(Directory) : IsContent(c)
    BY DEF CrashInv, Shape, AfterCrash, Found
  <2> QED BY <1>1, <1>2, <1>3, <1>6, <2>1 DEF CrashInv, Shape
<1>8. CrashLoadsAcknowledged'
  <2>1. Loaded(Directory) \in Known
    BY DEF CrashInv, CrashLoadsAcknowledged, AfterCrash, Known
  <2> QED BY <1>1, <1>5, <1>6, <2>1 DEF CrashInv, CrashLoadsAcknowledged, Known
<1>9. Content(mem)' = Content(mem)
  BY <1>1 DEF Content
<1>10. Progress'
  BY <1>1, <1>2, <1>9 DEF Progress, Saving, CrashInv
<1> QED BY <1>7, <1>8, <1>10 DEF CrashInv

LEMMA RenameToTargetLoads ==
    ASSUME CrashInv, RenameToTarget
    PROVE  /\ disk' = [json |-> {Content(mem)}, bak |-> disk.bak, tmp |-> {}]
           /\ Directory' = [json |-> {Content(mem)}, bak |-> disk.bak]
           /\ Loaded(Directory') = Content(mem)
<1>1. disk' = [json |-> {Content(mem)}, bak |-> disk.bak, tmp |-> {}]
  BY DEF RenameToTarget, CrashInv, Shape, Progress
<1>2. Directory' = [json |-> {Content(mem)}, bak |-> disk.bak]
  BY <1>1 DEF Directory
<1> QED BY <1>1, <1>2, LoadedContent

LEMMA RenameToTargetCrashInv == ASSUME CrashInv, RenameToTarget PROVE CrashInv'
<1>1. /\ mem' = mem /\ Known' = Known /\ step = "target" /\ step' = "sync"
      /\ unsynced' = unsynced \cup {Directory'}
      /\ Content(mem) \in Known
  BY DEF RenameToTarget, Unchanged, Known, CrashInv, Progress, Saving
<1>2. disk' = [json |-> {Content(mem)}, bak |-> disk.bak, tmp |-> {}]
  BY RenameToTargetLoads
<1>3. Directory' = [json |-> {Content(mem)}, bak |-> disk.bak]
  BY RenameToTargetLoads
<1>4. Loaded(Directory') = Content(mem)
  BY RenameToTargetLoads
<1>5. AfterCrash' \subseteq AfterCrash \cup {Directory'}
  BY <1>1 DEF AfterCrash
<1>6. Shape'
  <2>1. \A c \in disk.bak : IsContent(c)
    BY DEF CrashInv, Shape, AfterCrash, Directory
  <2>2. disk' = [json |-> disk'.json, bak |-> disk'.bak, tmp |-> disk'.tmp]
    BY <1>2
  <2>3. \A dir \in unsynced' : dir = [json |-> dir.json, bak |-> dir.bak]
    BY <1>1, <1>3 DEF CrashInv, Shape
  <2>4. \A c \in Directory'.json \cup Directory'.bak : IsContent(c)
    BY <1>3, <2>1, ContentIsContent
  <2>5. \A dir \in AfterCrash' : \A c \in dir.json \cup dir.bak : IsContent(c)
    BY <1>5, <2>4 DEF CrashInv, Shape
  <2> QED BY <2>2, <2>3, <2>5 DEF Shape
<1>7. CrashLoadsAcknowledged'
  BY <1>1, <1>4, <1>5 DEF CrashInv, CrashLoadsAcknowledged, Known
<1>8. Content(mem)' = Content(mem)
  BY <1>1 DEF Content
<1>9. Progress'
  BY <1>1, <1>2, <1>8 DEF Progress, Saving
<1> QED BY <1>6, <1>7, <1>9 DEF CrashInv

\* The rename is durable. The new file is the only one that is left to be found.
LEMMA SyncDirectoryCrashInv == ASSUME CrashInv, SyncDirectory PROVE CrashInv'
<1>1. /\ mem' = mem /\ disk' = disk /\ step = "sync" /\ unsynced' = {Directory}
      /\ \/ step' = "manifest" /\ acked' = acked /\ unacked' = unacked
         \/ step' = "idle" /\ acked' = Content(mem)
  BY DEF SyncDirectory, Returned
<1>2. Directory' = Directory /\ AfterCrash' = {Directory} /\ Directory \in AfterCrash
  BY <1>1 DEF Directory, AfterCrash
<1>3. Directory = [json |-> {Content(mem)}, bak |-> disk.bak]
  BY <1>1 DEF CrashInv, Progress, Directory
<1>4. Loaded(Directory) = Content(mem)
  BY <1>3, LoadedContent
<1>5. Content(mem) \in Known'
  BY <1>1 DEF CrashInv, Progress, Saving, Known
<1>6. Shape'
  BY <1>1, <1>2, <1>3 DEF CrashInv, Shape
<1>7. CrashLoadsAcknowledged'
  BY <1>2, <1>4, <1>5 DEF CrashLoadsAcknowledged, Known
<1>8. Content(mem)' = Content(mem)
  BY <1>1 DEF Content
<1>9. Progress'
  BY <1>1, <1>2, <1>5, <1>8 DEF CrashInv, Progress, Saving
<1> QED BY <1>6, <1>7, <1>9 DEF CrashInv

\* CREATE TABLE is acknowledged only here, and nothing older can be found.
LEMMA OpenManifestCrashInv == ASSUME CrashInv, OpenManifest PROVE CrashInv'
<1>1. /\ mem' = mem /\ disk' = disk /\ step = "manifest" /\ unsynced' = unsynced
      /\ step' = "idle" /\ acked' = Content(mem)
  BY DEF OpenManifest, Returned
<1>2. Directory' = Directory /\ AfterCrash' = {Directory} /\ AfterCrash = {Directory}
  BY <1>1 DEF Directory, AfterCrash, CrashInv, Progress
<1>3. Directory.json = {Content(mem)}
  BY <1>1 DEF CrashInv, Progress, Directory
<1>4. Loaded(Directory) = Content(mem)
  BY <1>3, LoadedContent
<1>5. Shape'
  BY <1>1, <1>2 DEF CrashInv, Shape
<1>6. CrashLoadsAcknowledged'
  BY <1>1, <1>2, <1>4 DEF CrashLoadsAcknowledged
<1>7. Progress'
  BY <1>1 DEF Progress, Saving
<1> QED BY <1>5, <1>6, <1>7 DEF CrashInv

LEMMA ManifestFailsCrashInv == ASSUME CrashInv, ManifestFails PROVE CrashInv'
<1>1. /\ disk' = disk /\ unsynced' = unsynced /\ step' = "write"
      /\ Known' = Known \cup {Content(mem')}
  BY DEF ManifestFails, Known
<1>2. disk' = [disk EXCEPT !.tmp = disk'.tmp]
  BY <1>1 DEF CrashInv, Shape
<1>3. Shape' /\ CrashLoadsAcknowledged'
  BY <1>1, <1>2, SameDirectory DEF CrashInv
<1>4. Content(mem)' = Content(mem')
  BY DEF Content
<1>5. Progress'
  BY <1>1, <1>4 DEF Progress, Saving
<1> QED BY <1>3, <1>5 DEF CrashInv

\* A failing step leaves the files as they are.
LEMMA SaveFaultCrashInv == ASSUME CrashInv, SaveFault PROVE CrashInv'
<1>1. /\ disk' = [disk EXCEPT !.tmp = {}] /\ unsynced' = unsynced
      /\ step' \in {"closed", "idle"} /\ Known' = Known
  BY DEF SaveFault, SaveFails, Known
<1>2. disk' = [disk EXCEPT !.tmp = disk'.tmp]
  BY <1>1 DEF CrashInv, Shape
<1>3. Shape' /\ CrashLoadsAcknowledged'
  BY <1>1, <1>2, SameDirectory DEF CrashInv
<1>4. Progress'
  BY <1>1 DEF Progress, Saving
<1> QED BY <1>3, <1>4 DEF CrashInv

\* Steps that touch neither the files nor what Save is writing.
LEMMA OtherCrashInv ==
    ASSUME CrashInv, UNCHANGED <<disk, unsynced, acked, unacked>>,
           UNCHANGED <<mem, step>> \/ step' = "closed"
    PROVE  CrashInv'
<1>1. disk' = [disk EXCEPT !.tmp = disk'.tmp]
  BY DEF CrashInv, Shape
<1>2. Known' = Known
  BY DEF Known
<1>3. Shape' /\ CrashLoadsAcknowledged' /\ Directory' = Directory
  BY <1>1, <1>2, SameDirectory DEF CrashInv
<1>4. mem' = mem => Content(mem)' = Content(mem)
  BY DEF Content
<1>5. Progress'
  BY <1>2, <1>3, <1>4 DEF CrashInv, Progress, Saving
<1> QED BY <1>3, <1>5 DEF CrashInv

LEMMA PowerCrashCrashInv == ASSUME CrashInv, LosePower PROVE CrashInv'
<1>1. PICK dir \in AfterCrash :
          /\ disk' = [json |-> dir.json, bak |-> dir.bak, tmp |-> disk.tmp]
          /\ unsynced' = {dir}
  BY DEF LosePower
<1>2. step' = "closed" /\ acked' = acked /\ unacked' = unacked
  BY DEF LosePower, Stopped
<1>3. dir = [json |-> dir.json, bak |-> dir.bak]
  BY DEF CrashInv, Shape, AfterCrash, Directory
<1>4. Directory' = dir
  BY <1>1, <1>3 DEF Directory
<1>5. AfterCrash' = {dir}
  BY <1>1, <1>4 DEF AfterCrash
<1>6. Shape'
  BY <1>1, <1>3, <1>5 DEF CrashInv, Shape
<1>7. CrashLoadsAcknowledged'
  BY <1>2, <1>5 DEF CrashInv, CrashLoadsAcknowledged
<1>8. Progress'
  BY <1>2 DEF Progress, Saving
<1> QED BY <1>6, <1>7, <1>8 DEF CrashInv

\* A catalog that Open migrates is saved as it was loaded.
LEMMA OpenCrashInv == ASSUME CrashInv, OpenDB PROVE CrashInv'
<1>1. /\ mem' = Opened(Loaded(Directory)) /\ disk' = [disk EXCEPT !.tmp = {}]
      /\ step' \in {"idle", "write"} /\ unsynced' = unsynced /\ Known' = Known
  BY DEF OpenDB, SweepTmp, Known
<1>2. disk' = [disk EXCEPT !.tmp = disk'.tmp]
  BY <1>1 DEF CrashInv, Shape
<1>3. Shape' /\ CrashLoadsAcknowledged'
  BY <1>1, <1>2, SameDirectory DEF CrashInv
<1>4. Directory \in AfterCrash
  BY DEF AfterCrash
<1>5. IsContent(Loaded(Directory)) /\ Loaded(Directory).format = 2
  BY <1>4, LoadedIsContent DEF CrashInv, Shape
<1>6. Content(mem') = Loaded(Directory)
  BY <1>1, <1>5, OpenedContent
<1>7. Content(mem') \in Known
  BY <1>4, <1>6 DEF CrashInv, CrashLoadsAcknowledged, Known
<1>8. Content(mem)' = Content(mem')
  BY DEF Content
<1>9. Progress'
  BY <1>1, <1>7, <1>8 DEF Progress, Saving
<1> QED BY <1>3, <1>9 DEF CrashInv

LEMMA NextCrashInv == ASSUME CrashInv, [CatalogNext]_catalogVars PROVE CrashInv'
<1>1. CASE DDL
  BY <1>1, DDLCrashInv
<1>2. CASE WriteTmp
  BY <1>2, WriteTmpCrashInv
<1>3. CASE RenameToBak
  BY <1>3, RenameToBakCrashInv
<1>4. CASE RenameToTarget
  BY <1>4, RenameToTargetCrashInv
<1>5. CASE SyncDirectory
  BY <1>5, SyncDirectoryCrashInv
<1>6. CASE SaveFault
  BY <1>6, SaveFaultCrashInv
<1>7. CASE OpenManifest
  BY <1>7, OpenManifestCrashInv
<1>8. CASE ManifestFails
  BY <1>8, ManifestFailsCrashInv
<1>9. CASE \E t \in TableNames : Query(t) \/ Insert(t)
  BY <1>9, OtherCrashInv DEF Query, Insert
<1>10. CASE ProcessStop
  BY <1>10, OtherCrashInv DEF ProcessStop, Stopped
<1>11. CASE LosePower
  BY <1>11, PowerCrashCrashInv
<1>12. CASE OpenDB
  BY <1>12, OpenCrashInv
<1>13. CASE UNCHANGED catalogVars
  BY <1>13, OtherCrashInv DEF catalogVars
<1> QED BY <1>1, <1>2, <1>3, <1>4, <1>5, <1>6, <1>7, <1>8, <1>9, <1>10, <1>11, <1>12, <1>13
        DEF CatalogNext, Save

\* The invariant of the proof.
THEOREM CrashInvariance == CatalogSpec => []CrashInv
<1>1. CatalogInit => CrashInv
  BY InitCrashInv
<1>2. CrashInv /\ [CatalogNext]_catalogVars => CrashInv'
  BY NextCrashInv
<1> QED BY <1>1, <1>2, PTL DEF CatalogSpec

\* Whatever crashes between any two steps of Save, Load finds the catalog of the
\* last DDL that was acknowledged, or one that was being made.
THEOREM SchemaSurvivesCrash == CatalogSpec => []CrashLoadsAcknowledged
<1>1. CrashInv => CrashLoadsAcknowledged
  BY DEF CrashInv
<1> QED BY <1>1, CrashInvariance, PTL

-----------------------------------------------------------------------------
(***************************************************************************)
(* A cached plan that counts as fresh is bound to the present columns: the *)
(* generations the plan cache compares stand for one schema each, also     *)
(* after a DDL that failed has given its generation back.                  *)
(***************************************************************************)

IsTab(tab) == DOMAIN tab = {"id", "next", "cap", "cols"}
IsRecord(m) == DOMAIN m = {"gen", "nextTable", "types", "tables", "cap", "entry", "inFile", "shared"}

\* The slice and the map of pointers hold the same tables, under the same ids,
\* and a pointer into the slice shows what the slice holds.
IsSchema(m) ==
    /\ IsRecord(m) /\ m.gen \in Nat
    /\ DOMAIN m.tables = DOMAIN m.entry
    /\ m.inFile \subseteq m.shared /\ m.shared \subseteq DOMAIN m.entry
    /\ \A t \in DOMAIN m.entry : /\ IsTab(m.entry[t]) /\ IsTab(m.tables[t])
                                 /\ m.entry[t].id = m.tables[t].id
    /\ \A t \in m.inFile : m.entry[t] = m.tables[t]

\* No plan is newer than the schema m, and those of its generation are bound to it.
PlansFresh(m) ==
    \A t \in DOMAIN plans :
        /\ plans[t].gen \in Nat /\ plans[t].gen <= m.gen
        /\ t \in DOMAIN m.entry /\ plans[t].gen = m.gen /\ m.entry[t].id \notin suspect
              => plans[t].cols = BoundColumns(m.entry[t])

Noted(m) == \A t \in DOMAIN m.entry \ m.inFile : m.entry[t].id \in suspect

Good(m) == IsSchema(m) /\ PlansFresh(m) /\ Noted(m)

\* While a DDL is saved, it is the schema it began with that the plans fit.
DDLJobs == {"alter", "type", "create"}
InDDL == /\ job \in DDLJobs \cup {"uncreate"}
         /\ Good(undo)
         /\ IF job = "uncreate" THEN Good(mem) ELSE mem.gen = undo.gen + 1

PlanInv ==
    /\ IsSchema(mem)
    /\ \A c \in Known : c.gen \in Nat
    /\ step \in {"closed", "idle"} \/ Saving
    /\ step = "idle" => Good(mem)
    /\ step = "closed" => DOMAIN plans = {}
    /\ step = "manifest" => job = "create"
    /\ Saving => (IF job = "migrate" THEN DOMAIN plans = {} ELSE InDDL)

FreshInv == CrashInv /\ PlanInv

-----------------------------------------------------------------------------
(* Schemas *)

LEMMA OpenedGood ==
    ASSUME NEW c, c.gen \in Nat
    PROVE  IsSchema(Opened(c)) /\ Noted(Opened(c))
<1> DEFINE tables == [t \in DOMAIN c.tables |->
                        [id |-> c.tables[t].id, next |-> c.tables[t].next,
                         cap |-> DecodedCap(Len(c.tables[t].cols)), cols |-> c.tables[t].cols]]
<1>1. \A t \in DOMAIN tables : IsTab(tables[t])
  BY DEF IsTab
<1>2. PICK n : Opened(c) = [gen |-> c.gen, nextTable |-> c.nextTable, types |-> c.types,
         tables |-> tables, cap |-> n, entry |-> tables,
         inFile |-> DOMAIN tables, shared |-> DOMAIN tables]
  BY DEF Opened
<1> HIDE DEF tables
<1>4. IsSchema(Opened(c))
  BY <1>1, <1>2 DEF IsSchema, IsRecord
<1>5. Noted(Opened(c))
  BY <1>2 DEF Noted
<1> QED BY <1>4, <1>5

LEMMA EmptyGen == NewEmpty.gen \in Nat
BY DEF NewEmpty

LEMMA LoadedGen ==
    ASSUME CrashInv, PlanInv
    PROVE  Loaded(Directory).gen \in Nat
<1>1. Loaded(Directory) \in Known
  BY DEF CrashInv, CrashLoadsAcknowledged, AfterCrash, Known
<1> QED BY <1>1 DEF PlanInv

\* indexTables after an undone CREATE TABLE gives the schema it began with, but
\* for tables whose map entry had left the slice, and those are noted.
LEMMA RestoredGood ==
    ASSUME NEW m, Good(m), NEW n
    PROVE  LET r == [m EXCEPT !.cap = n, !.entry = m.tables,
                              !.inFile = DOMAIN m.tables, !.shared = DOMAIN m.tables]
           IN  Good(r)
<1> DEFINE r == [m EXCEPT !.cap = n, !.entry = m.tables,
                          !.inFile = DOMAIN m.tables, !.shared = DOMAIN m.tables]
<1>1. /\ IsRecord(r) /\ r.gen = m.gen /\ r.tables = m.tables /\ r.entry = m.tables
      /\ r.inFile = DOMAIN m.tables /\ r.shared = DOMAIN m.tables
  BY DEF Good, IsSchema, IsRecord
<1> HIDE DEF r
<1>2. DOMAIN m.tables = DOMAIN m.entry
  BY DEF Good, IsSchema
<1>3. IsSchema(r)
  BY <1>1, <1>2 DEF Good, IsSchema
<1>4. Noted(r)
  BY <1>1 DEF Noted
<1>5. PlansFresh(r)
  <2>1. ASSUME NEW t \in DOMAIN plans, t \in DOMAIN r.entry, plans[t].gen = r.gen,
               r.entry[t].id \notin suspect
        PROVE  plans[t].cols = BoundColumns(r.entry[t])
    <3>1. t \in DOMAIN m.entry /\ m.entry[t].id = m.tables[t].id /\ r.entry[t] = m.tables[t]
      BY <1>1, <1>2, <2>1 DEF Good, IsSchema
    <3>2. t \in m.inFile
      BY <2>1, <3>1 DEF Good, Noted
    <3>3. m.entry[t] = m.tables[t]
      BY <3>2 DEF Good, IsSchema
    <3> QED BY <1>1, <2>1, <3>1, <3>3 DEF Good, PlansFresh
  <2>2. \A t \in DOMAIN plans : plans[t].gen \in Nat /\ plans[t].gen <= r.gen
    BY <1>1 DEF Good, PlansFresh
  <2> QED BY <2>1, <2>2 DEF PlansFresh
<1> QED BY <1>3, <1>4, <1>5 DEF Good, r

-----------------------------------------------------------------------------
(* What DDL makes of a schema *)

LEMMA WithColumnSchema ==
    ASSUME IsSchema(mem), NEW t \in DOMAIN mem.entry, NEW i \in DOMAIN mem.entry[t].cols, NEW col
    PROVE  IsSchema(WithColumn(t, i, col)) /\ WithColumn(t, i, col).gen = mem.gen + 1
<1> DEFINE Set(tab) == [tab EXCEPT !.cols = [tab.cols EXCEPT ![i] = col]]
           entry == [mem.entry EXCEPT ![t] = Set(mem.entry[t])]
           both == t \in mem.shared /\ i \in DOMAIN mem.tables[t].cols
           tables == IF both THEN [mem.tables EXCEPT ![t] = Set(mem.tables[t])] ELSE mem.tables
           w == WithColumn(t, i, col)
<1>1. w = [mem EXCEPT !.gen = @ + 1, !.entry = entry, !.tables = tables]
  BY DEF WithColumn
<1>2. \A tab : IsTab(tab) => IsTab(Set(tab)) /\ Set(tab).id = tab.id
  BY DEF IsTab
<1> HIDE DEF Set, w
<1>3. DOMAIN entry = DOMAIN mem.entry /\ DOMAIN tables = DOMAIN mem.entry
  BY DEF IsSchema
<1>4. \A u \in DOMAIN mem.entry : /\ entry[u] = IF u = t THEN Set(mem.entry[u]) ELSE mem.entry[u]
                                  /\ tables[u] = IF u = t /\ both THEN Set(mem.tables[u]) ELSE mem.tables[u]
  BY DEF IsSchema
<1>5. t \in mem.inFile => both /\ mem.entry[t] = mem.tables[t]
  BY DEF IsSchema
<1> HIDE DEF entry, tables, both
<1>6. /\ IsRecord(w) /\ w.gen = mem.gen + 1 /\ w.entry = entry /\ w.tables = tables
      /\ w.inFile = mem.inFile /\ w.shared = mem.shared
  BY <1>1 DEF IsSchema, IsRecord
<1>7. \A u \in DOMAIN mem.entry : IsTab(entry[u]) /\ IsTab(tables[u]) /\ entry[u].id = tables[u].id
  BY <1>2, <1>4 DEF IsSchema
<1>8. \A u \in mem.inFile : entry[u] = tables[u]
  BY <1>4, <1>5 DEF IsSchema
<1>9. IsSchema(w)
  BY <1>3, <1>6, <1>7, <1>8 DEF IsSchema
<1> QED BY <1>6, <1>9 DEF w

LEMMA AddedSchema ==
    ASSUME IsSchema(mem), NEW t \in DOMAIN mem.entry, NEW name, NEW type, NEW id
    PROVE  IsSchema(Added(t, name, type, id)) /\ Added(t, name, type, id).gen = mem.gen + 1
<1> DEFINE old == mem.entry[t]
           full == Len(old.cols) = old.cap
           tab == [old EXCEPT !.cols = Append(@, Column(t, id, name, type, mem.gen + 1)),
                              !.next = id + 1, !.cap = IF full THEN Grown(@) ELSE @]
           entry == [mem.entry EXCEPT ![t] = tab]
           tables == IF t \in mem.inFile THEN [mem.tables EXCEPT ![t] = tab] ELSE mem.tables
           shared == IF full /\ t \notin mem.inFile THEN mem.shared \ {t} ELSE mem.shared
           a == Added(t, name, type, id)
<1>1. a = [mem EXCEPT !.gen = @ + 1, !.entry = entry, !.tables = tables, !.shared = shared]
  BY DEF Added
<1>2. IsTab(tab) /\ tab.id = mem.entry[t].id
  BY DEF IsTab, IsSchema
<1> HIDE DEF tab, a
<1>3. DOMAIN entry = DOMAIN mem.entry /\ DOMAIN tables = DOMAIN mem.entry
  BY DEF IsSchema
<1>4. \A u \in DOMAIN mem.entry :
         /\ entry[u] = IF u = t THEN tab ELSE mem.entry[u]
         /\ tables[u] = IF u = t /\ t \in mem.inFile THEN tab ELSE mem.tables[u]
  BY DEF IsSchema
<1>5. mem.inFile \subseteq shared /\ shared \subseteq DOMAIN mem.entry
  BY DEF IsSchema
<1> HIDE DEF entry, tables, shared
<1>6. /\ IsRecord(a) /\ a.gen = mem.gen + 1 /\ a.entry = entry /\ a.tables = tables
      /\ a.inFile = mem.inFile /\ a.shared = shared
  BY <1>1 DEF IsSchema, IsRecord
<1>7. \A u \in DOMAIN mem.entry : IsTab(entry[u]) /\ IsTab(tables[u]) /\ entry[u].id = tables[u].id
  BY <1>2, <1>4 DEF IsSchema
<1>8. \A u \in mem.inFile : entry[u] = tables[u]
  BY <1>4 DEF IsSchema
<1>9. IsSchema(a)
  BY <1>3, <1>5, <1>6, <1>7, <1>8 DEF IsSchema
<1> QED BY <1>6, <1>9 DEF a

\* RegisterTable moves every table to a new array when the slice is full: then
\* only the new table's pointer leads into it.
LEMMA RegisterTableBegins ==
    ASSUME IsSchema(mem), NEW t, RegisterTable(t)
    PROVE  \E m : Begin("create", m) /\ IsSchema(m) /\ m.gen = mem.gen + 1
<1> DEFINE row == BuildTable(t, mem.nextTable, mem.gen + 1)
           full == Cardinality(DOMAIN mem.tables) = mem.cap
           With(f) == [u \in DOMAIN f \cup {t} |-> IF u = t THEN row ELSE f[u]]
           inFile == IF full THEN {t} ELSE mem.inFile \cup {t}
           m == [mem EXCEPT !.gen = mem.gen + 1, !.nextTable = @ + 1,
                            !.tables = With(mem.tables), !.entry = With(mem.entry),
                            !.cap = IF full THEN Grown(@) ELSE @,
                            !.inFile = inFile, !.shared = mem.shared \cup {t}]
<1>1. Begin("create", m)
  BY DEF RegisterTable
<1>2. IsTab(row)
  BY DEF BuildTable, IsTab
<1> HIDE DEF row
<1>3. /\ IsRecord(m) /\ m.gen = mem.gen + 1 /\ m.entry = With(mem.entry) /\ m.tables = With(mem.tables)
      /\ m.inFile = inFile /\ m.shared = mem.shared \cup {t}
  BY DEF IsSchema, IsRecord
<1> HIDE DEF m
<1>4. IsSchema(m)
  <2>1. inFile \subseteq mem.shared \cup {t} /\ inFile \subseteq mem.inFile \cup {t}
    BY DEF IsSchema
  <2> HIDE DEF inFile
  <2>2. DOMAIN m.entry = DOMAIN mem.entry \cup {t} /\ DOMAIN m.tables = DOMAIN mem.entry \cup {t}
    BY <1>3 DEF IsSchema
  <2>3. \A u \in DOMAIN m.entry : /\ m.entry[u] = IF u = t THEN row ELSE mem.entry[u]
                                  /\ m.tables[u] = IF u = t THEN row ELSE mem.tables[u]
    BY <1>3, <2>2 DEF IsSchema
  <2> QED BY <1>2, <1>3, <2>1, <2>2, <2>3 DEF IsSchema
<1> QED BY <1>1, <1>3, <1>4

LEMMA RegisterTypeBegins ==
    ASSUME IsSchema(mem), NEW n, RegisterType(n)
    PROVE  \E m : Begin("type", m) /\ IsSchema(m) /\ m.gen = mem.gen + 1
<1> DEFINE m == [mem EXCEPT !.gen = @ + 1, !.types = @ \cup {n}]
<1>1. Begin("type", m)
  BY DEF RegisterType
<1>2. /\ IsRecord(m) /\ m.gen = mem.gen + 1 /\ m.entry = mem.entry /\ m.tables = mem.tables
      /\ m.inFile = mem.inFile /\ m.shared = mem.shared
  BY DEF IsSchema, IsRecord
<1> HIDE DEF m
<1>3. IsSchema(m)
  BY <1>2 DEF IsSchema
<1> QED BY <1>1, <1>2, <1>3

DDLBegun == \E j, m : j \in DDLJobs /\ Begin(j, m) /\ IsSchema(m) /\ m.gen = mem.gen + 1

\* Every DDL begins with an idle database and the next generation.
LEMMA DDLBegins ==
    ASSUME IsSchema(mem), DDL
    PROVE  step = "idle" /\ DDLBegun
<1>1. step = "idle"
  BY DEF DDL, RegisterType, RegisterTable, RenameColumn, DropColumn, AddColumn, AlterColumnType, CanRunDDL
<1>2. ASSUME NEW n, RegisterType(n) PROVE DDLBegun
  BY <1>2, RegisterTypeBegins DEF DDLJobs, DDLBegun
<1>3. ASSUME NEW t, RegisterTable(t) PROVE DDLBegun
  BY <1>3, RegisterTableBegins DEF DDLJobs, DDLBegun
<1>4. ASSUME NEW t, NEW n, NEW to, RenameColumn(t, n, to)
      PROVE  DDLBegun
  BY <1>4, WithColumnSchema DEF RenameColumn, Positions, LivePositions, DDLJobs, DDLBegun
<1>5. ASSUME NEW t, NEW n, DropColumn(t, n)
      PROVE  DDLBegun
  BY <1>5, WithColumnSchema DEF DropColumn, Positions, LivePositions, DDLJobs, DDLBegun
<1>6. ASSUME NEW t, NEW n, NEW type, AlterColumnType(t, n, type)
      PROVE  DDLBegun
  BY <1>6, WithColumnSchema DEF AlterColumnType, Positions, LivePositions, DDLJobs, DDLBegun
<1>7. ASSUME NEW t, NEW n, NEW type, AddColumn(t, n, type)
      PROVE  DDLBegun
  BY <1>7, AddedSchema DEF AddColumn, DDLJobs, DDLBegun
<1> QED BY <1>1, <1>2, <1>3, <1>4, <1>5, <1>6, <1>7 DEF DDL

\* Every DDL begins where none runs, and changes nothing but the schema.
LEMMA DDLChanges == ASSUME DDL PROVE step = "idle" /\ UNCHANGED <<disk, unsynced, plans>>
<1> DEFINE Same == step = "idle" /\ UNCHANGED <<disk, unsynced, plans>>
<1>1. ASSUME NEW j, NEW m, CanRunDDL, Begin(j, m) PROVE Same
  BY <1>1 DEF CanRunDDL, Begin
<1> HIDE DEF Same
<1>2. ASSUME NEW n, RegisterType(n) PROVE Same
  BY <1>1, <1>2 DEF RegisterType
<1>3. ASSUME NEW t, RegisterTable(t) PROVE Same
  BY <1>1, <1>3 DEF RegisterTable
<1>4. ASSUME NEW t, NEW n, NEW to, RenameColumn(t, n, to) PROVE Same
  BY <1>1, <1>4 DEF RenameColumn
<1>5. ASSUME NEW t, NEW n, DropColumn(t, n) PROVE Same
  BY <1>1, <1>5 DEF DropColumn
<1>6. ASSUME NEW t, NEW n, NEW type, AlterColumnType(t, n, type) PROVE Same
  BY <1>1, <1>6 DEF AlterColumnType
<1>7. ASSUME NEW t, NEW n, NEW type, AddColumn(t, n, type) PROVE Same
  BY <1>1, <1>7 DEF AddColumn
<1>8. Same
  BY <1>2, <1>3, <1>4, <1>5, <1>6, <1>7 DEF DDL
<1> QED BY <1>8 DEF Same

-----------------------------------------------------------------------------
(* The steps *)

\* What is known of a schema stays so in a step that keeps it and the plans;
\* suspect only grows, and with it fewer plans have to fit.
LEMMA StillGood ==
    ASSUME plans' = plans, suspect \subseteq suspect'
    PROVE  /\ Good(mem) /\ mem' = mem => Good(mem)'
           /\ Good(undo) /\ undo' = undo => Good(undo)'
           /\ Good(undo) /\ mem' = undo => Good(mem)'
           /\ Good(mem) /\ undo' = mem => Good(undo)'
BY DEF Good, PlansFresh, Noted, IsSchema, IsRecord

LEMMA InitPlanInv == ASSUME CatalogInit PROVE PlanInv
<1>1. PICK found \in {{}} \cup {{LegacyCatalog(t)} : t \in TableNames} :
          acked = Loaded([json |-> found, bak |-> {}])
  BY DEF CatalogInit
<1>2. IsSchema(mem)
  BY OpenedGood, EmptyGen DEF CatalogInit
<1>3. acked.gen \in Nat
  <2>1. \A c \in found : c.gen \in Nat
    <3>1. \A t : LegacyCatalog(t).gen = 1
      BY DEF LegacyCatalog, NewEmpty
    <3> QED BY <3>1
  <2>2. CASE found = {}
    BY <1>1, <2>2, EmptyGen DEF Loaded, Found
  <2>3. CASE found # {}
    <3>1. PICK c \in found : acked = Migrated(c)
      BY <1>1, <2>3 DEF Loaded, Found
    <3>2. \A t \in TableNames : "gen" \in DOMAIN LegacyCatalog(t)
      BY DEF LegacyCatalog, NewEmpty
    <3>3. acked.gen = c.gen
      BY <3>1, <3>2 DEF Migrated
    <3> QED BY <2>1, <3>3
  <2> QED BY <2>2, <2>3
<1> QED BY <1>2, <1>3 DEF CatalogInit, PlanInv, Known, NoTables, Saving

LEMMA DDLPlanInv == ASSUME PlanInv, DDL PROVE PlanInv'
<1>1. PICK j, m : j \in DDLJobs /\ Begin(j, m) /\ IsSchema(m) /\ m.gen = mem.gen + 1
  BY DDLBegins DEF PlanInv, DDLBegun
<1>2. step = "idle"
  BY DDLBegins DEF PlanInv
<1>3. /\ mem' = m /\ undo' = mem /\ step' = "write" /\ job' \in DDLJobs /\ plans' = plans /\ suspect' = suspect
      /\ Known' = Known \cup {Content(m)}
  BY <1>1 DEF Begin, Known
<1>4. Content(m).gen \in Nat
  BY <1>1 DEF Content, IsSchema
<1>5. Good(undo)'
  BY <1>2, <1>3, StillGood DEF PlanInv
<1>6. IsSchema(mem)' /\ mem'.gen = undo'.gen + 1
  BY <1>1, <1>3 DEF IsSchema, IsRecord
<1>7. InDDL'
  BY <1>3, <1>5, <1>6 DEF InDDL, DDLJobs
<1> QED BY <1>3, <1>4, <1>6, <1>7 DEF PlanInv, Saving, DDLJobs

\* The steps of Save before the last.
LEMMA SavingPlanInv ==
    ASSUME PlanInv, UNCHANGED <<mem, undo, job, plans, acked, unacked, suspect>>,
           step \in {"write", "bak", "target"}, step' \in {"bak", "target", "sync"}
    PROVE  PlanInv'
<1>1. Known' = Known
  BY DEF Known
<1>2. IsSchema(mem)'
  BY DEF PlanInv, IsSchema, IsRecord
<1>3. InDDL => InDDL'
  BY StillGood DEF InDDL
<1> QED BY <1>1, <1>2, <1>3 DEF PlanInv, Saving

\* A DDL that is acknowledged has made older plans stale, and notes the tables
\* whose pointer no longer leads into the slice.
LEMMA ReturnedPlanInv ==
    ASSUME PlanInv, Returned, mem' = mem, plans' = plans, Saving
    PROVE  PlanInv'
<1>1. /\ step' = "idle" /\ undo' = mem /\ acked' = Content(mem) /\ unacked' = {}
      /\ suspect \subseteq suspect' /\ Noted(mem)'
  BY DEF Returned, Noted
<1>2. \A c \in Known' : c.gen \in Nat
  BY <1>1 DEF Known, Content, PlanInv, IsSchema
<1>3. PlansFresh(mem)'
  <2>1. CASE job = "migrate"
    BY <2>1 DEF PlanInv, PlansFresh
  <2>2. CASE job = "uncreate"
    BY <1>1, <2>2, StillGood DEF PlanInv, InDDL, Good
  <2>3. CASE job \notin {"migrate", "uncreate"}
    <3>1. mem.gen = undo.gen + 1 /\ PlansFresh(undo) /\ undo.gen \in Nat
      BY <2>3 DEF PlanInv, InDDL, Good, IsSchema
    <3> QED BY <3>1 DEF PlansFresh
  <2> QED BY <2>1, <2>2, <2>3
<1>4. IsSchema(mem)'
  BY DEF PlanInv, IsSchema, IsRecord
<1>5. Good(mem)'
  BY <1>1, <1>3, <1>4 DEF Good
<1> QED BY <1>1, <1>2, <1>4, <1>5 DEF PlanInv, Saving

LEMMA SyncDirectoryPlanInv == ASSUME PlanInv, SyncDirectory PROVE PlanInv'
<1>1. CASE job = "create"
  <2>1. /\ step = "sync" /\ step' = "manifest"
        /\ UNCHANGED <<mem, undo, job, plans, acked, unacked, suspect>>
    BY <1>1 DEF SyncDirectory
  <2>2. Known' = Known
    BY <2>1 DEF Known
  <2>3. IsSchema(mem)' /\ InDDL'
    BY <1>1, <2>1, StillGood DEF PlanInv, IsSchema, IsRecord, InDDL, Saving
  <2> QED BY <1>1, <2>1, <2>2, <2>3 DEF PlanInv, Saving
<1>2. CASE job # "create"
  BY <1>2, ReturnedPlanInv DEF SyncDirectory, Saving
<1> QED BY <1>1, <1>2

LEMMA NowGood ==
    ASSUME NEW m, Good(m), mem' = m, plans' = plans, suspect' = suspect
    PROVE  Good(mem)'
BY DEF Good, PlansFresh, Noted, IsSchema, IsRecord

\* The error path of a DDL, whichever it is, gives a schema the plans fit.
LEMMA RolledBackGood ==
    ASSUME InDDL, mem' = RolledBack, plans' = plans, suspect' = suspect
    PROVE  Good(mem)'
<1>1. CASE job \in {"alter", "type"}
  BY <1>1, StillGood DEF InDDL, RolledBack
<1>2. CASE job = "create"
  <2> DEFINE r == [undo EXCEPT !.cap = mem.cap, !.entry = undo.tables,
                               !.inFile = DOMAIN undo.tables, !.shared = DOMAIN undo.tables]
  <2>1. Good(r)
    BY RestoredGood DEF InDDL
  <2>2. mem' = r
    BY <1>2 DEF RolledBack
  <2> HIDE DEF r
  <2> QED BY <2>1, <2>2, NowGood
<1>3. CASE job = "uncreate"
  BY <1>3, StillGood DEF InDDL, RolledBack
<1> QED BY <1>1, <1>2, <1>3 DEF InDDL, DDLJobs

LEMMA ManifestFailsPlanInv == ASSUME PlanInv, ManifestFails PROVE PlanInv'
<1>1. /\ step = "manifest" /\ step' = "write" /\ job' = "uncreate" /\ mem' = RolledBack
      /\ UNCHANGED <<undo, plans, suspect>>
      /\ Known' = Known \cup {Content(mem')}
  BY DEF ManifestFails, Known
<1>2. InDDL
  BY <1>1 DEF PlanInv, Saving
<1>3. Good(mem)' /\ Good(undo)'
  BY <1>1, <1>2, RolledBackGood, StillGood DEF InDDL
<1>4. Content(mem').gen \in Nat
  BY <1>3 DEF Content, Good, IsSchema
<1> QED BY <1>1, <1>3, <1>4 DEF PlanInv, InDDL, Good, Saving

LEMMA SaveFaultPlanInv == ASSUME PlanInv, SaveFault PROVE PlanInv'
<1>1. /\ Saving /\ UNCHANGED <<plans, suspect>> /\ Known' = Known
      /\ IF job = "migrate" THEN mem' = Opened(NewEmpty) /\ step' = "closed"
                            ELSE mem' = RolledBack /\ step' = "idle"
  BY DEF SaveFault, SaveFails, Saving, Known
<1>2. CASE job = "migrate"
  <2>1. IsSchema(mem)'
    BY <1>1, <1>2, OpenedGood, EmptyGen DEF IsSchema, IsRecord
  <2> QED BY <1>1, <1>2, <2>1 DEF PlanInv, Saving
<1>3. CASE job # "migrate"
  <2>1. Good(mem)'
    BY <1>1, <1>3, RolledBackGood DEF PlanInv
  <2> QED BY <1>1, <1>3, <2>1 DEF PlanInv, Good, Saving
<1> QED BY <1>2, <1>3

\* A new plan is bound to the columns of the moment.
LEMMA QueryPlanInv == ASSUME PlanInv, NEW t, Query(t) PROVE PlanInv'
<1>1. /\ step = "idle" /\ step' = "idle" /\ Known' = Known
      /\ UNCHANGED <<mem, suspect>>
  BY DEF Query, Known
<1>2. PICK out :
        plans' = [u \in (DOMAIN plans \ {out}) \cup {t} |->
                     IF u # t THEN plans[u]
                     ELSE [gen |-> mem.gen, cols |-> BoundColumns(mem.entry[t])]]
  BY DEF Query
<1>3. Good(mem)
  BY <1>1 DEF PlanInv
<1>4. BoundColumns(mem.entry[t])' = BoundColumns(mem.entry[t])
  BY <1>1 DEF BoundColumns, LivePositions
<1>5. ASSUME NEW u \in DOMAIN plans'
      PROVE  /\ plans'[u].gen \in Nat /\ plans'[u].gen <= mem.gen
             /\ u \in DOMAIN mem.entry /\ plans'[u].gen = mem.gen /\ mem.entry[u].id \notin suspect
                   => plans'[u].cols = BoundColumns(mem.entry[u])
  <2>1. CASE u = t
    BY <1>2, <1>3, <2>1 DEF Good, IsSchema
  <2>2. CASE u # t
    BY <1>2, <1>3, <2>2 DEF Good, PlansFresh
  <2> QED BY <2>1, <2>2
<1>6. Good(mem)'
  BY <1>1, <1>3, <1>5 DEF Good, PlansFresh, Noted, IsSchema, IsRecord
<1> QED BY <1>1, <1>6 DEF PlanInv, Good, Saving

LEMMA InsertPlanInv == ASSUME PlanInv, NEW t, Insert(t) PROVE PlanInv'
<1>1. /\ step = "idle" /\ step' = "idle" /\ Known' = Known
      /\ UNCHANGED <<mem, plans>> /\ suspect \subseteq suspect'
  BY DEF Insert, Known
<1>2. Good(mem)'
  BY <1>1, StillGood DEF PlanInv
<1> QED BY <1>1, <1>2 DEF PlanInv, Good, Saving

LEMMA StoppedPlanInv == ASSUME PlanInv, Stopped PROVE PlanInv'
<1>1. /\ mem' = Opened(NewEmpty) /\ step' = "closed" /\ DOMAIN plans' = {} /\ Known' = Known
  BY DEF Stopped, NoTables, Known
<1>2. IsSchema(mem)'
  BY <1>1, OpenedGood, EmptyGen DEF IsSchema, IsRecord
<1> QED BY <1>1, <1>2 DEF PlanInv, Saving

LEMMA OpenPlanInv == ASSUME FreshInv, OpenDB PROVE PlanInv'
<1>1. /\ mem' = Opened(Loaded(Directory)) /\ step = "closed" /\ UNCHANGED <<plans, suspect>> /\ Known' = Known
      /\ (step' = "write" /\ job' = "migrate") \/ step' = "idle"
  BY DEF OpenDB, Known
<1>2. IsSchema(Opened(Loaded(Directory))) /\ Noted(Opened(Loaded(Directory)))
  BY LoadedGen, OpenedGood DEF FreshInv
<1>3. DOMAIN plans = {}
  BY <1>1 DEF FreshInv, PlanInv
<1>4. Good(Opened(Loaded(Directory)))
  BY <1>2, <1>3 DEF Good, PlansFresh
<1>5. Good(mem)'
  BY <1>1, <1>4, NowGood
<1> QED BY <1>1, <1>3, <1>5 DEF FreshInv, PlanInv, Good, Saving

LEMMA UnchangedPlanInv == ASSUME PlanInv, UNCHANGED catalogVars PROVE PlanInv'
<1>1. Known' = Known
  BY DEF catalogVars, Known
<1>2. (Good(mem) => Good(mem)') /\ (InDDL => InDDL') /\ IsSchema(mem)'
  BY StillGood DEF catalogVars, InDDL, PlanInv, IsSchema, IsRecord
<1> QED BY <1>1, <1>2 DEF catalogVars, PlanInv, Saving

LEMMA NextPlanInv == ASSUME FreshInv, [CatalogNext]_catalogVars PROVE PlanInv'
<1>1. CASE WriteTmp \/ RenameToBak \/ RenameToTarget
  BY <1>1, SavingPlanInv DEF FreshInv, WriteTmp, RenameToBak, RenameToTarget, Unchanged
<1>2. CASE OpenManifest
  BY <1>2, ReturnedPlanInv DEF FreshInv, OpenManifest, Saving
<1>3. CASE ProcessStop \/ LosePower
  BY <1>3, StoppedPlanInv DEF FreshInv, ProcessStop, LosePower
<1> QED BY <1>1, <1>2, <1>3, DDLPlanInv, SyncDirectoryPlanInv, SaveFaultPlanInv, ManifestFailsPlanInv,
           QueryPlanInv, InsertPlanInv, OpenPlanInv, UnchangedPlanInv DEF FreshInv, CatalogNext, Save

-----------------------------------------------------------------------------
\* The invariant of the proof.
THEOREM PlanInvariance == CatalogSpec => []FreshInv
<1>1. CatalogInit => FreshInv
  BY InitCrashInv, InitPlanInv DEF FreshInv
<1>2. FreshInv /\ [CatalogNext]_catalogVars => FreshInv'
  BY NextCrashInv, NextPlanInv DEF FreshInv
<1> QED BY <1>1, <1>2, PTL DEF CatalogSpec

\* A hit of the plan cache uses a plan for the columns of the moment, whatever
\* DDL failed, was undone or was cut off by a crash before.
THEOREM CacheHitsAreFresh == CatalogSpec => []PlanHitsFresh
<1>1. FreshInv => PlanHitsFresh
  BY DEF FreshInv, PlanInv, Good, PlansFresh, PlanHitsFresh
<1> QED BY <1>1, PlanInvariance, PTL

-----------------------------------------------------------------------------
(***************************************************************************)
(* The id of a column, under which segments hold its values, is never      *)
(* given to another: what was written under an id is read by the column    *)
(* that wrote it, in every catalog that is in memory or that a crash can   *)
(* bring back.                                                             *)
(***************************************************************************)

\* The ids of a table: those of its columns are distinct and were drawn, and
\* what ws holds under them was written by these columns.
TabIds(tab, ws) ==
    /\ tab.next \in Nat /\ tab.cols \in Seq({tab.cols[i] : i \in DOMAIN tab.cols})
    /\ \A i \in DOMAIN tab.cols :
          /\ DOMAIN tab.cols[i] = {"id", "name", "type", "live", "origin"}
          /\ tab.cols[i].id \in Nat /\ tab.cols[i].id < tab.next
          /\ \A j \in DOMAIN tab.cols : tab.cols[i].id = tab.cols[j].id => i = j
    /\ \A w \in ws : w[1] = tab.id =>
          /\ w[2] \in Nat /\ w[2] < tab.next
          /\ \A i \in DOMAIN tab.cols : w[2] = tab.cols[i].id => w[3] = tab.cols[i].origin

\* The ids of a catalog whose next table gets the id next.
IdsOK(tables, next, ws, sus) ==
    /\ next \in Nat
    /\ \A t \in DOMAIN tables : tables[t].id \in Nat /\ tables[t].id < next
    /\ \A t, u \in DOMAIN tables : tables[t].id = tables[u].id => t = u
    /\ \A w \in ws : w[1] \notin sus => w[1] \in Nat /\ w[1] < next
    /\ \A t \in DOMAIN tables : tables[t].id \notin sus => TabIds(tables[t], ws)

MemIds == IdsOK(mem.tables, mem.nextTable, written, suspect)
UndoIds == IdsOK(undo.tables, undo.nextTable, written, suspect)
FileIds(c) == IdsOK(c.tables, c.nextTable, written, suspect)

\* All tables of the schema m are in c as they are in m.
Agrees(c, m) ==
    /\ m.nextTable \in Nat /\ c.nextTable \in Nat /\ m.nextTable <= c.nextTable
    /\ \A t \in DOMAIN m.tables :
          /\ t \in DOMAIN c.tables /\ c.tables[t].id = m.tables[t].id
          /\ c.tables[t].next = m.tables[t].next /\ c.tables[t].cols = m.tables[t].cols

Synced == unsynced = {Directory}

IdInv ==
    /\ step = "closed" => DOMAIN mem.tables = {}
    /\ step # "closed" => MemIds
    /\ \A dir \in AfterCrash : FileIds(Loaded(dir))
    /\ Directory \in unsynced
    /\ step = "idle" /\ Synced => Agrees(Loaded(Directory), mem)
    /\ step = "sync" => ~Synced
    /\ Saving /\ job # "migrate" =>
          /\ UndoIds
          /\ step \in {"write", "bak", "target"} /\ Synced => Agrees(Loaded(Directory), undo)
          /\ job = "create" => Agrees(mem, undo)
          /\ job = "uncreate" => mem.tables = undo.tables /\ mem.nextTable = undo.nextTable

WholeInv == FreshInv /\ IdInv

-----------------------------------------------------------------------------
(* Catalogs in memory and on disk *)

\* To IdsOK, only the ids and columns of the tables count.
LEMMA SameIds ==
    ASSUME NEW f, NEW g, NEW next, NEW ws, NEW sus, DOMAIN f = DOMAIN g,
           \A t \in DOMAIN f : f[t].id = g[t].id /\ f[t].next = g[t].next /\ f[t].cols = g[t].cols,
           IdsOK(f, next, ws, sus)
    PROVE  IdsOK(g, next, ws, sus)
<1>1. ASSUME NEW t \in DOMAIN g, TabIds(f[t], ws) PROVE TabIds(g[t], ws)
  BY <1>1 DEF TabIds
<1> QED BY <1>1 DEF IdsOK

LEMMA ContentIds ==
    ASSUME NEW m, NEW ws, NEW sus
    PROVE  IdsOK(m.tables, m.nextTable, ws, sus)
           <=> IdsOK(Content(m).tables, Content(m).nextTable, ws, sus)
<1>1. /\ DOMAIN Content(m).tables = DOMAIN m.tables /\ Content(m).nextTable = m.nextTable
      /\ \A t \in DOMAIN m.tables : /\ Content(m).tables[t].id = m.tables[t].id
                                    /\ Content(m).tables[t].next = m.tables[t].next
                                    /\ Content(m).tables[t].cols = m.tables[t].cols
  BY DEF Content
<1> QED BY <1>1, SameIds

LEMMA OpenedIds ==
    ASSUME NEW c, NEW ws, NEW sus, IdsOK(c.tables, c.nextTable, ws, sus)
    PROVE  IdsOK(Opened(c).tables, Opened(c).nextTable, ws, sus) /\ Agrees(c, Opened(c))
<1>1. /\ DOMAIN Opened(c).tables = DOMAIN c.tables /\ Opened(c).nextTable = c.nextTable
      /\ \A t \in DOMAIN c.tables : /\ Opened(c).tables[t].id = c.tables[t].id
                                    /\ Opened(c).tables[t].next = c.tables[t].next
                                    /\ Opened(c).tables[t].cols = c.tables[t].cols
  BY DEF Opened
<1>2. IdsOK(Opened(c).tables, Opened(c).nextTable, ws, sus)
  BY <1>1, SameIds
<1> QED BY <1>1, <1>2 DEF Agrees, IdsOK

LEMMA ContentAgrees ==
    ASSUME NEW m, m.nextTable \in Nat
    PROVE  Agrees(Content(m), m)
BY DEF Content, Agrees

-----------------------------------------------------------------------------
(* What DDL does to ids *)

\* An assignment to a column leaves its id and origin.
LEMMA WithColumnIds ==
    ASSUME IsSchema(mem), Noted(mem), MemIds,
           NEW t \in DOMAIN mem.entry, NEW i \in DOMAIN mem.entry[t].cols, NEW col,
           mem.entry[t].id \notin suspect =>
              /\ col.id = mem.entry[t].cols[i].id /\ col.origin = mem.entry[t].cols[i].origin
              /\ DOMAIN col = DOMAIN mem.entry[t].cols[i]
    PROVE  LET m == WithColumn(t, i, col) IN IdsOK(m.tables, m.nextTable, written, suspect)
<1> DEFINE m == WithColumn(t, i, col)
           both == t \in mem.shared /\ i \in DOMAIN mem.tables[t].cols
           tab == [mem.tables[t] EXCEPT !.cols = [mem.tables[t].cols EXCEPT ![i] = col]]
           tables == IF both THEN [mem.tables EXCEPT ![t] = tab] ELSE mem.tables
<1>1. m.tables = tables /\ m.nextTable = mem.nextTable
  BY DEF WithColumn, IsSchema, IsRecord
<1>2. tab.id = mem.tables[t].id /\ tab.next = mem.tables[t].next
      /\ tab.cols = [mem.tables[t].cols EXCEPT ![i] = col]
  BY DEF IsSchema, IsTab
<1> HIDE DEF tab, m
<1>3. DOMAIN tables = DOMAIN mem.tables
      /\ \A u \in DOMAIN tables : tables[u] = IF u = t /\ both THEN tab ELSE mem.tables[u]
  BY DEF IsSchema
<1> HIDE DEF tables
<1>4. ASSUME mem.tables[t].id \notin suspect, both
      PROVE  TabIds(tab, written)
  <2> DEFINE cols == mem.tables[t].cols
             new == [cols EXCEPT ![i] = col]
  <2>1. mem.entry[t] = mem.tables[t]
    BY <1>4 DEF IsSchema, Noted
  <2>2. TabIds(mem.tables[t], written)
    BY <1>4 DEF MemIds, IdsOK, IsSchema
  <2>3. i \in DOMAIN cols /\ DOMAIN new = DOMAIN cols
    BY <2>1
  <2>4. \A k \in DOMAIN cols : /\ new[k].id = cols[k].id /\ new[k].origin = cols[k].origin
                               /\ DOMAIN new[k] = DOMAIN cols[k]
    BY <1>4, <2>1, <2>3
  <2>5. new \in Seq({new[k] : k \in DOMAIN new})
    <3>1. cols \in Seq({cols[k] : k \in DOMAIN cols})
      BY <2>2 DEF TabIds
    <3>2. Len(cols) \in Nat /\ DOMAIN cols = 1..Len(cols)
      BY <3>1
    <3>3. new \in [1..Len(cols) -> {new[k] : k \in DOMAIN new}]
      BY <3>2
    <3> HIDE DEF new, cols
    <3> QED BY <3>2, <3>3
  <2>6. tab.cols = new
    BY <1>2
  <2> HIDE DEF new
  <2>7. /\ mem.tables[t].next \in Nat
        /\ \A k \in DOMAIN cols : /\ DOMAIN cols[k] = {"id", "name", "type", "live", "origin"}
                                  /\ cols[k].id \in Nat /\ cols[k].id < mem.tables[t].next
                                  /\ \A j \in DOMAIN cols : cols[k].id = cols[j].id => k = j
        /\ \A w \in written : w[1] = mem.tables[t].id =>
              /\ w[2] \in Nat /\ w[2] < mem.tables[t].next
              /\ \A k \in DOMAIN cols : w[2] = cols[k].id => w[3] = cols[k].origin
    BY <2>2 DEF TabIds
  <2> HIDE DEF cols
  <2>8. \A k \in DOMAIN new : /\ DOMAIN new[k] = {"id", "name", "type", "live", "origin"}
                              /\ new[k].id \in Nat /\ new[k].id < tab.next
                              /\ \A j \in DOMAIN new : new[k].id = new[j].id => k = j
    BY <1>2, <2>3, <2>4, <2>7
  <2>9. \A w \in written : w[1] = tab.id =>
           w[2] \in Nat /\ w[2] < tab.next /\ \A k \in DOMAIN new : w[2] = new[k].id => w[3] = new[k].origin
    BY <1>2, <2>3, <2>4, <2>7
  <2>10. tab.next \in Nat
    BY <1>2, <2>7
  <2> QED BY <2>5, <2>6, <2>8, <2>9, <2>10 DEF TabIds
<1> QED BY <1>1, <1>2, <1>3, <1>4 DEF MemIds, IdsOK, m

\* A new column gets an id that nothing was written under.
LEMMA AddedIds ==
    ASSUME IsSchema(mem), Noted(mem), MemIds,
           NEW t \in DOMAIN mem.entry, NEW name, NEW type
    PROVE  LET m == Added(t, name, type, NextColumnId(mem.entry[t]))
           IN  IdsOK(m.tables, m.nextTable, written, suspect)
<1> DEFINE id == NextColumnId(mem.entry[t])
           m == Added(t, name, type, id)
           old == mem.entry[t]
           col == Column(t, id, name, type, mem.gen + 1)
           full == Len(old.cols) = old.cap
           tab == [old EXCEPT !.cols = Append(@, col), !.next = id + 1,
                              !.cap = IF full THEN Grown(@) ELSE @]
           tables == IF t \in mem.inFile THEN [mem.tables EXCEPT ![t] = tab] ELSE mem.tables
<1>1. m.tables = tables /\ m.nextTable = mem.nextTable
  BY DEF Added, IsSchema, IsRecord
<1>2. tab.id = old.id /\ tab.next = id + 1 /\ tab.cols = Append(old.cols, col)
  BY DEF IsSchema, IsTab
<1>3. col.id = id /\ DOMAIN col = {"id", "name", "type", "live", "origin"}
  BY DEF Column
<1> HIDE DEF tab, m, col
<1>4. DOMAIN tables = DOMAIN mem.tables
      /\ \A u \in DOMAIN tables : tables[u] = IF u = t /\ t \in mem.inFile THEN tab ELSE mem.tables[u]
  BY DEF IsSchema
<1> HIDE DEF tables
<1>5. ASSUME t \in mem.inFile, mem.tables[t].id \notin suspect
      PROVE  TabIds(tab, written)
  <2> DEFINE cols == old.cols
             new == Append(cols, col)
  <2>1. mem.entry[t] = mem.tables[t] /\ TabIds(old, written) /\ id = old.next
    BY <1>5 DEF IsSchema, MemIds, IdsOK, NextColumnId
  <2>2. cols \in Seq({cols[k] : k \in DOMAIN cols})
    BY <2>1 DEF TabIds
  <2>3. /\ Len(cols) \in Nat /\ DOMAIN cols = 1..Len(cols) /\ DOMAIN new = 1..(Len(cols) + 1)
        /\ \A k \in 1..Len(cols) : new[k] = cols[k]
        /\ new[Len(cols) + 1] = col
    BY <2>2
  <2>4. new \in Seq({new[k] : k \in DOMAIN new})
    <3> DEFINE S == {cols[k] : k \in DOMAIN cols} \cup {col}
    <3>1. new \in Seq(S) /\ Len(new) \in Nat /\ DOMAIN new = 1..Len(new)
      BY <2>2, <2>3
    <3> HIDE DEF new, cols, S
    <3> QED BY <3>1
  <2>5. /\ id \in Nat
        /\ \A k \in DOMAIN cols : /\ DOMAIN cols[k] = {"id", "name", "type", "live", "origin"}
                                  /\ cols[k].id \in Nat /\ cols[k].id < id
                                  /\ \A j \in DOMAIN cols : cols[k].id = cols[j].id => k = j
        /\ \A w \in written : w[1] = tab.id =>
              /\ w[2] \in Nat /\ w[2] < id
              /\ \A k \in DOMAIN cols : w[2] = cols[k].id => w[3] = cols[k].origin
    BY <1>2, <2>1 DEF TabIds
  <2>6. tab.cols = new
    BY <1>2
  <2> HIDE DEF new, cols, id, old
  <2>7. \A k \in DOMAIN new : /\ DOMAIN new[k] = {"id", "name", "type", "live", "origin"}
                              /\ new[k].id \in Nat /\ new[k].id < id + 1
                              /\ \A j \in DOMAIN new : new[k].id = new[j].id => k = j
    BY <1>3, <2>3, <2>5
  <2>8. \A w \in written : w[1] = tab.id =>
           w[2] \in Nat /\ w[2] < id + 1 /\ \A k \in DOMAIN new : w[2] = new[k].id => w[3] = new[k].origin
    <3> SUFFICES ASSUME NEW w \in written, w[1] = tab.id
                 PROVE  w[2] \in Nat /\ w[2] < id + 1 /\ \A k \in DOMAIN new : w[2] = new[k].id => w[3] = new[k].origin
      OBVIOUS
    <3>1. w[2] \in Nat /\ w[2] < id /\ w[2] < id + 1
      BY <2>5
    <3> QED BY <1>3, <2>3, <2>5, <3>1
  <2>9. tab.next = id + 1 /\ tab.next \in Nat
    BY <1>2, <2>5
  <2> QED BY <2>4, <2>6, <2>7, <2>8, <2>9 DEF TabIds
<1> QED BY <1>1, <1>2, <1>4, <1>5 DEF MemIds, IdsOK, IsSchema, m

\* The columns of a new table are numbered from 1.
LEMMA BuiltIds ==
    ASSUME NEW t, NEW id, NEW g, NEW ws, \A w \in ws : w[1] # id
    PROVE  TabIds(BuildTable(t, id, g), ws) /\ BuildTable(t, id, g).id = id
<1> DEFINE row == BuildTable(t, id, g)
<1>1. row.id = id /\ row.next = Len(FirstColumns) + 1
      /\ row.cols = [i \in DOMAIN FirstColumns |-> Column(t, i, FirstColumns[i], "int32", g)]
  BY DEF BuildTable
<1>2. Len(FirstColumns) \in Nat /\ DOMAIN FirstColumns = 1..Len(FirstColumns)
  BY FirstColumnsAssumption
<1> HIDE DEF row
<1>3. DOMAIN row.cols = 1..Len(FirstColumns)
      /\ \A i \in DOMAIN row.cols : row.cols[i].id = i
            /\ DOMAIN row.cols[i] = {"id", "name", "type", "live", "origin"}
  BY <1>1, <1>2 DEF Column
<1>4. row.cols \in Seq({row.cols[i] : i \in DOMAIN row.cols})
  <2> DEFINE S == {row.cols[i] : i \in DOMAIN row.cols}
  <2>1. row.cols \in [1..Len(FirstColumns) -> S]
    BY <1>1, <1>2
  <2> HIDE DEF S
  <2> QED BY <1>2, <2>1
<1>5. TabIds(row, ws)
  BY <1>1, <1>2, <1>3, <1>4 DEF TabIds
<1> QED BY <1>1, <1>5 DEF row

\* A new table gets an id under which nothing was written.
LEMMA RegisterTableIds ==
    ASSUME IsSchema(mem), MemIds, NEW t, RegisterTable(t)
    PROVE  IdsOK(mem'.tables, mem'.nextTable, written, suspect) /\ Agrees(mem', mem)
<1> DEFINE row == BuildTable(t, mem.nextTable, mem.gen + 1)
           full == Cardinality(DOMAIN mem.tables) = mem.cap
           With(f) == [u \in DOMAIN f \cup {t} |-> IF u = t THEN row ELSE f[u]]
<1>1. t \notin DOMAIN mem.tables
  BY DEF RegisterTable, IsSchema
<1>2. mem' = [mem EXCEPT !.gen = mem.gen + 1, !.nextTable = @ + 1,
                         !.tables = With(mem.tables), !.entry = With(mem.entry),
                         !.cap = IF full THEN Grown(@) ELSE @,
                         !.inFile = IF full THEN {t} ELSE @ \cup {t}, !.shared = @ \cup {t}]
  BY DEF RegisterTable, Begin
<1> HIDE DEF row, full
<1>3. mem'.tables = With(mem.tables) /\ mem'.nextTable = mem.nextTable + 1
  BY <1>2 DEF IsSchema, IsRecord
<1>4. DOMAIN mem'.tables = DOMAIN mem.tables \cup {t}
      /\ \A u \in DOMAIN mem'.tables : mem'.tables[u] = IF u = t THEN row ELSE mem.tables[u]
  BY <1>3
<1>5. row.id = mem.nextTable
  BY DEF row, BuildTable
<1>7. ASSUME mem.nextTable \notin suspect PROVE TabIds(row, written)
  <2>1. \A w \in written : w[1] # mem.nextTable
    BY <1>7 DEF MemIds, IdsOK
  <2> QED BY <2>1, BuiltIds DEF row
<1>8. \A u \in DOMAIN mem.tables : mem.tables[u].id \in Nat /\ mem.tables[u].id < mem.nextTable
  BY DEF MemIds, IdsOK
<1>9. mem.nextTable \in Nat
  BY DEF MemIds, IdsOK
<1>10. \A w \in written : w[1] \notin suspect => w[1] \in Nat /\ w[1] < mem.nextTable + 1
  BY <1>9 DEF MemIds, IdsOK
<1>11. /\ \A u \in DOMAIN mem'.tables : mem'.tables[u].id \in Nat /\ mem'.tables[u].id < mem.nextTable + 1
       /\ \A u, v \in DOMAIN mem'.tables : mem'.tables[u].id = mem'.tables[v].id => u = v
  BY <1>4, <1>5, <1>8, <1>9 DEF MemIds, IdsOK
<1>12. \A u \in DOMAIN mem'.tables : mem'.tables[u].id \notin suspect => TabIds(mem'.tables[u], written)
  BY <1>4, <1>5, <1>7 DEF MemIds, IdsOK
<1>13. IdsOK(mem'.tables, mem.nextTable + 1, written, suspect)
  BY <1>9, <1>10, <1>11, <1>12 DEF IdsOK
<1>14. Agrees(mem', mem)
  BY <1>1, <1>3, <1>4, <1>9 DEF Agrees
<1> QED BY <1>3, <1>13, <1>14

\* The map entry of a table that has not moved is the one in the slice.
LEMMA ColumnFields ==
    ASSUME IsSchema(mem), Noted(mem), MemIds, NEW t \in DOMAIN mem.entry, NEW i \in DOMAIN mem.entry[t].cols
    PROVE  mem.entry[t].id \notin suspect =>
              DOMAIN mem.entry[t].cols[i] = {"id", "name", "type", "live", "origin"}
<1> SUFFICES ASSUME mem.entry[t].id \notin suspect
             PROVE  DOMAIN mem.entry[t].cols[i] = {"id", "name", "type", "live", "origin"}
  OBVIOUS
<1>1. t \in mem.inFile
  BY DEF Noted
<1>2. t \in DOMAIN mem.tables /\ mem.entry[t] = mem.tables[t]
  BY <1>1 DEF IsSchema
<1>3. TabIds(mem.tables[t], written)
  BY <1>2 DEF MemIds, IdsOK
<1> QED BY <1>2, <1>3 DEF TabIds

LEMMA DDLIds ==
    ASSUME Good(mem), MemIds, DDL
    PROVE  /\ IdsOK(mem'.tables, mem'.nextTable, written, suspect)
           /\ job' = "create" => Agrees(mem', mem)
<1> USE DEF Good
<1>1. ASSUME NEW n, RegisterType(n)
      PROVE  IdsOK(mem'.tables, mem'.nextTable, written, suspect) /\ job' = "type"
  <2>1. mem' = [mem EXCEPT !.gen = @ + 1, !.types = @ \cup {n}] /\ job' = "type"
    BY <1>1 DEF RegisterType, Begin
  <2>2. mem'.tables = mem.tables /\ mem'.nextTable = mem.nextTable
    BY <2>1 DEF IsSchema, IsRecord
  <2> QED BY <2>1, <2>2 DEF MemIds
<1>2. ASSUME NEW t, NEW n, NEW to, RenameColumn(t, n, to)
      PROVE  IdsOK(mem'.tables, mem'.nextTable, written, suspect) /\ job' = "alter"
  <2>1. PICK i \in Positions(mem.entry[t], n) :
           Begin("alter", WithColumn(t, i, [mem.entry[t].cols[i] EXCEPT !.name = to]))
    BY <1>2 DEF RenameColumn
  <2>2. t \in DOMAIN mem.entry /\ i \in DOMAIN mem.entry[t].cols
    BY <1>2, <2>1 DEF RenameColumn, Positions, LivePositions
  <2> DEFINE col == [mem.entry[t].cols[i] EXCEPT !.name = to]
  <2>3. mem' = WithColumn(t, i, col) /\ job' = "alter"
    BY <2>1 DEF Begin
  <2>4. mem.entry[t].id \notin suspect => DOMAIN mem.entry[t].cols[i] = {"id", "name", "type", "live", "origin"}
    BY <2>2, ColumnFields DEF Good
  <2>5. mem.entry[t].id \notin suspect =>
           /\ col.id = mem.entry[t].cols[i].id /\ col.origin = mem.entry[t].cols[i].origin
           /\ DOMAIN col = DOMAIN mem.entry[t].cols[i]
    BY <2>4
  <2> HIDE DEF col
  <2> QED BY <2>2, <2>3, <2>5, WithColumnIds
<1>3. ASSUME NEW t, NEW n, DropColumn(t, n)
      PROVE  IdsOK(mem'.tables, mem'.nextTable, written, suspect) /\ job' = "alter"
  <2>1. PICK i \in Positions(mem.entry[t], n) :
           Begin("alter", WithColumn(t, i, [mem.entry[t].cols[i] EXCEPT !.live = FALSE]))
    BY <1>3 DEF DropColumn
  <2>2. t \in DOMAIN mem.entry /\ i \in DOMAIN mem.entry[t].cols
    BY <1>3, <2>1 DEF DropColumn, Positions, LivePositions
  <2> DEFINE col == [mem.entry[t].cols[i] EXCEPT !.live = FALSE]
  <2>3. mem' = WithColumn(t, i, col) /\ job' = "alter"
    BY <2>1 DEF Begin
  <2>4. mem.entry[t].id \notin suspect => DOMAIN mem.entry[t].cols[i] = {"id", "name", "type", "live", "origin"}
    BY <2>2, ColumnFields DEF Good
  <2>5. mem.entry[t].id \notin suspect =>
           /\ col.id = mem.entry[t].cols[i].id /\ col.origin = mem.entry[t].cols[i].origin
           /\ DOMAIN col = DOMAIN mem.entry[t].cols[i]
    BY <2>4
  <2> HIDE DEF col
  <2> QED BY <2>2, <2>3, <2>5, WithColumnIds
<1>4. ASSUME NEW t, NEW n, NEW type, AlterColumnType(t, n, type)
      PROVE  IdsOK(mem'.tables, mem'.nextTable, written, suspect) /\ job' = "alter"
  <2>1. PICK i \in Positions(mem.entry[t], n) :
           Begin("alter", WithColumn(t, i, [mem.entry[t].cols[i] EXCEPT !.type = type]))
    BY <1>4 DEF AlterColumnType
  <2>2. t \in DOMAIN mem.entry /\ i \in DOMAIN mem.entry[t].cols
    BY <1>4, <2>1 DEF AlterColumnType, Positions, LivePositions
  <2> DEFINE col == [mem.entry[t].cols[i] EXCEPT !.type = type]
  <2>3. mem' = WithColumn(t, i, col) /\ job' = "alter"
    BY <2>1 DEF Begin
  <2>4. mem.entry[t].id \notin suspect => DOMAIN mem.entry[t].cols[i] = {"id", "name", "type", "live", "origin"}
    BY <2>2, ColumnFields DEF Good
  <2>5. mem.entry[t].id \notin suspect =>
           /\ col.id = mem.entry[t].cols[i].id /\ col.origin = mem.entry[t].cols[i].origin
           /\ DOMAIN col = DOMAIN mem.entry[t].cols[i]
    BY <2>4
  <2> HIDE DEF col
  <2> QED BY <2>2, <2>3, <2>5, WithColumnIds
<1>5. ASSUME NEW t, NEW n, NEW type, AddColumn(t, n, type)
      PROVE  IdsOK(mem'.tables, mem'.nextTable, written, suspect) /\ job' = "alter"
  <2>1. t \in DOMAIN mem.entry /\ mem' = Added(t, n, type, NextColumnId(mem.entry[t])) /\ job' = "alter"
    BY <1>5 DEF AddColumn, Begin
  <2> QED BY <2>1, AddedIds
<1> QED BY <1>1, <1>2, <1>3, <1>4, <1>5, RegisterTableIds DEF DDL

-----------------------------------------------------------------------------
(* The steps *)

\* Fewer ids are vouched for when more of them are suspect.
LEMMA MoreSuspect ==
    ASSUME NEW f, NEW next, NEW ws, NEW sus, NEW more, sus \subseteq more,
           IdsOK(f, next, ws, sus)
    PROVE  IdsOK(f, next, ws, more)
BY DEF IdsOK

LEMMA InitIds == ASSUME CatalogInit PROVE IdInv
<1>1. PICK found \in {{}} \cup {{LegacyCatalog(t)} : t \in TableNames} :
          /\ disk = [json |-> found, bak |-> {}, tmp |-> {}]
          /\ unsynced = {[json |-> found, bak |-> {}]}
  BY DEF CatalogInit
<1>2. Directory = [json |-> found, bak |-> {}] /\ AfterCrash = {Directory} /\ Directory \in unsynced
  BY <1>1 DEF Directory, AfterCrash
<1>3. written = {} /\ suspect = {} /\ step = "closed" /\ mem = Opened(NewEmpty)
  BY DEF CatalogInit
<1>4. DOMAIN mem.tables = {}
  BY <1>3 DEF Opened, NewEmpty, NoTables
<1>5. FileIds(Loaded(Directory))
  <2>1. CASE found = {}
    <3>1. Loaded(Directory) = NewEmpty
      BY <1>2, <2>1 DEF Loaded, Found
    <3> QED BY <1>3, <3>1 DEF FileIds, IdsOK, NewEmpty, NoTables
  <2>2. ASSUME NEW t \in TableNames, found = {LegacyCatalog(t)} PROVE FileIds(Loaded(Directory))
    <3> DEFINE tab == BuildTable(t, 1, 1)
               row == [id |-> 1, next |-> tab.next, cols |-> tab.cols]
               c == Loaded(Directory)
    <3>1. c = Migrated(LegacyCatalog(t))
      BY <1>2, <2>2 DEF Loaded, Found
    <3>2. c.tables = [u \in {t} |-> row] /\ c.nextTable = 2
      BY <3>1 DEF Migrated, LegacyCatalog, NewEmpty
    <3>3. TabIds(tab, written) /\ tab.id = 1
      BY <1>3, BuiltIds
    <3> HIDE DEF tab, c
    <3>4. TabIds(row, written) /\ row.id = 1
      BY <3>3 DEF TabIds
    <3> HIDE DEF row
    <3>5. \A u \in DOMAIN c.tables : u = t /\ c.tables[u] = row
      BY <3>2
    <3>6. IdsOK(c.tables, c.nextTable, written, suspect)
      BY <1>3, <3>2, <3>4, <3>5 DEF IdsOK
    <3> QED BY <3>6 DEF FileIds, c
  <2> QED BY <1>1, <2>1, <2>2
<1> QED BY <1>2, <1>3, <1>4, <1>5 DEF IdInv, Saving

\* Neither the files nor the schema move in such a step.
LEMMA StillIds ==
    ASSUME IdInv, UNCHANGED <<mem, undo, step, job, disk, unsynced, written, suspect>>
    PROVE  IdInv'
BY DEF IdInv, MemIds, UndoIds, FileIds, AfterCrash, Directory, Synced, Saving

LEMMA DirectoryStays ==
    ASSUME CrashInv, disk' = [disk EXCEPT !.tmp = disk'.tmp], unsynced' = unsynced
    PROVE  /\ Directory' = Directory /\ AfterCrash' = AfterCrash /\ Synced' = Synced
<1>1. disk' = [json |-> disk.json, bak |-> disk.bak, tmp |-> disk'.tmp]
  BY DEF CrashInv, Shape
<1>2. Directory' = Directory
  BY <1>1 DEF Directory
<1> QED BY <1>2 DEF AfterCrash, Synced

LEMMA DDLIdInv == ASSUME WholeInv, DDL PROVE IdInv'
<1>1. PICK j, m : j \in DDLJobs /\ Begin(j, m)
  BY DDLBegins DEF WholeInv, FreshInv, PlanInv, DDLBegun
<1>2. step = "idle"
  BY DDLBegins DEF WholeInv, FreshInv, PlanInv
<1>3. /\ undo' = mem /\ step' = "write" /\ job' \in DDLJobs
      /\ UNCHANGED <<disk, unsynced, written, suspect>>
  BY <1>1 DEF Begin
<1>4. Good(mem) /\ MemIds
  BY <1>2 DEF WholeInv, FreshInv, PlanInv, IdInv
<1>5. IdsOK(mem'.tables, mem'.nextTable, written, suspect) /\ (job' = "create" => Agrees(mem', mem))
  BY <1>4, DDLIds
<1>6. MemIds' /\ UndoIds' /\ (job' = "create" => Agrees(mem, undo)')
  BY <1>3, <1>4, <1>5 DEF MemIds, UndoIds, Agrees
<1>7. Directory' = Directory /\ AfterCrash' = AfterCrash /\ Synced' = Synced
  BY <1>3 DEF Directory, AfterCrash, Synced
<1>8. Synced => Agrees(Loaded(Directory), undo)'
  BY <1>2, <1>3, <1>7 DEF WholeInv, IdInv, Agrees
<1>9. \A dir \in AfterCrash' : FileIds(Loaded(dir))'
  BY <1>3, <1>7 DEF WholeInv, IdInv, FileIds
<1> QED BY <1>3, <1>6, <1>7, <1>8, <1>9 DEF WholeInv, IdInv, DDLJobs

\* Save has changed what Load may find, and neither the schema nor the segments.
LEMMA SavingIdInv ==
    ASSUME IdInv, Saving, UNCHANGED <<mem, undo, job, written, suspect>>,
           step' \in {"bak", "target", "sync", "manifest"},
           Directory' \in unsynced',
           \A dir \in AfterCrash' : dir \in AfterCrash \/ FileIds(Loaded(dir)),
           step' = "sync" => ~Synced',
           step' \in {"bak", "target"} /\ Synced' =>
               step \in {"write", "bak"} /\ Synced /\ Loaded(Directory') = Loaded(Directory)
    PROVE  IdInv'
<1>1. MemIds' /\ (UndoIds => UndoIds') /\ (Agrees(mem, undo) => Agrees(mem, undo)')
  BY DEF IdInv, MemIds, UndoIds, Agrees, Saving
<1>2. \A dir \in AfterCrash' : FileIds(Loaded(dir))'
  BY DEF IdInv, FileIds
<1>3. job # "migrate" /\ step' \in {"bak", "target"} /\ Synced' => Agrees(Loaded(Directory), undo)'
  BY DEF IdInv, Agrees
<1> QED BY <1>1, <1>2, <1>3 DEF IdInv

LEMMA WriteTmpIdInv == ASSUME WholeInv, WriteTmp PROVE IdInv'
<1>1. /\ step = "write" /\ step' = "bak" /\ unsynced' = unsynced
      /\ disk' = [disk EXCEPT !.tmp = {Content(mem)}]
      /\ UNCHANGED <<mem, undo, job, written, suspect>>
  BY DEF WriteTmp, Unchanged
<1>2. disk' = [disk EXCEPT !.tmp = disk'.tmp]
  BY <1>1 DEF WholeInv, FreshInv, CrashInv, Shape
<1>3. Directory' = Directory /\ AfterCrash' = AfterCrash /\ Synced' = Synced
  BY <1>1, <1>2, DirectoryStays DEF WholeInv, FreshInv
<1> QED BY <1>1, <1>3, SavingIdInv DEF WholeInv, IdInv, Saving

LEMMA RenameToBakIdInv == ASSUME WholeInv, RenameToBak PROVE IdInv'
<1>1. /\ step = "bak" /\ step' = "target" /\ unsynced' = unsynced \cup {Directory'}
      /\ UNCHANGED <<mem, undo, job, written, suspect>>
  BY DEF RenameToBak, Unchanged
<1>2. Loaded(Directory') = Loaded(Directory)
  BY RenameToBakLoads DEF WholeInv, FreshInv
<1>3. Synced' => Synced
  BY <1>1 DEF WholeInv, IdInv, Synced
<1>4. \A dir \in AfterCrash' : dir \in AfterCrash \/ FileIds(Loaded(dir))
  BY <1>1, <1>2 DEF AfterCrash, WholeInv, IdInv, FileIds
<1> QED BY <1>1, <1>2, <1>3, <1>4, SavingIdInv DEF WholeInv, Saving

\* Until the directory is synced, a crash may still take the new file back.
LEMMA RenameToTargetIdInv == ASSUME WholeInv, RenameToTarget PROVE IdInv'
<1>1. /\ step = "target" /\ step' = "sync" /\ unsynced' = unsynced \cup {Directory'}
      /\ UNCHANGED <<mem, undo, job, written, suspect>>
  BY DEF RenameToTarget, Unchanged
<1>2. Loaded(Directory') = Content(mem) /\ Directory'.json = {Content(mem)}
  BY RenameToTargetLoads DEF WholeInv, FreshInv
<1>3. FileIds(Content(mem))
  BY <1>1, ContentIds DEF WholeInv, IdInv, MemIds, FileIds
<1>4. Directory.json = {}
  BY <1>1 DEF WholeInv, FreshInv, CrashInv, Progress, Directory
<1>5. ~Synced'
  BY <1>1, <1>2, <1>4 DEF WholeInv, IdInv, Synced
<1>6. \A dir \in AfterCrash' : dir \in AfterCrash \/ FileIds(Loaded(dir))
  BY <1>1, <1>2, <1>3 DEF AfterCrash
<1> QED BY <1>1, <1>5, <1>6, SavingIdInv DEF WholeInv, Saving

\* The schema in memory is the one on disk.
LEMMA ReturnedIdInv ==
    ASSUME WholeInv, Returned, UNCHANGED <<mem, disk, written>>, step \in {"sync", "manifest"},
           unsynced' = {Directory}
    PROVE  IdInv'
<1>1. step' = "idle" /\ suspect \subseteq suspect'
  BY DEF Returned
<1>2. Directory' = Directory /\ AfterCrash' = {Directory}
  BY DEF Directory, AfterCrash
<1>3. Directory.json = {Content(mem)}
  BY DEF WholeInv, FreshInv, CrashInv, Progress, Directory
<1>4. Loaded(Directory) = Content(mem)
  BY <1>3, LoadedContent
<1>5. IdsOK(mem.tables, mem.nextTable, written, suspect')
  BY <1>1, MoreSuspect DEF WholeInv, IdInv, MemIds
<1>6. MemIds' /\ mem.nextTable \in Nat
  BY <1>5 DEF MemIds, IdsOK
<1>7. FileIds(Loaded(Directory))'
  BY <1>2, <1>4, <1>5, ContentIds DEF FileIds
<1>8. Agrees(Loaded(Directory), mem)'
  <2>1. Agrees(Content(mem), mem)
    BY <1>6, ContentAgrees
  <2>2. Loaded(Directory)' = Content(mem)
    BY <1>2, <1>4
  <2> QED BY <2>1, <2>2 DEF Agrees
<1> QED BY <1>1, <1>2, <1>6, <1>7, <1>8 DEF IdInv, Saving

LEMMA SyncDirectoryIdInv == ASSUME WholeInv, SyncDirectory PROVE IdInv'
<1>1. step = "sync" /\ unsynced' = {Directory} /\ UNCHANGED <<mem, disk, written>>
  BY DEF SyncDirectory
<1>2. CASE job = "create"
  <2>1. step' = "manifest" /\ UNCHANGED <<undo, job, suspect>>
    BY <1>2 DEF SyncDirectory
  <2>2. Directory' = Directory /\ AfterCrash' \subseteq AfterCrash
    BY <1>1 DEF Directory, AfterCrash
  <2> QED BY <1>1, <2>1, <2>2, SavingIdInv DEF WholeInv, Saving
<1>3. CASE job # "create"
  BY <1>1, <1>3, ReturnedIdInv DEF SyncDirectory
<1> QED BY <1>2, <1>3

LEMMA OpenManifestIdInv == ASSUME WholeInv, OpenManifest PROVE IdInv'
<1>1. step = "manifest" /\ UNCHANGED <<mem, disk, unsynced, written>>
  BY DEF OpenManifest
<1>2. unsynced' = {Directory}
  BY <1>1 DEF WholeInv, FreshInv, CrashInv, Progress
<1> QED BY <1>1, <1>2, ReturnedIdInv DEF OpenManifest

\* What the error path restores of the tables, whatever the DDL was.
LEMMA RolledBackTables ==
    ASSUME WholeInv, Saving, job # "migrate", mem' = RolledBack
    PROVE  mem'.tables = undo.tables /\ mem'.nextTable = undo.nextTable
<1>1. IsRecord(undo) /\ job \in DDLJobs \cup {"uncreate"}
  BY DEF WholeInv, FreshInv, PlanInv, InDDL, Good, IsSchema
<1>2. CASE job \in {"alter", "type"}
  BY <1>2 DEF RolledBack
<1>3. CASE job = "create"
  <2>1. mem' = [undo EXCEPT !.cap = mem.cap, !.entry = undo.tables,
                            !.inFile = DOMAIN undo.tables, !.shared = DOMAIN undo.tables]
    BY <1>3 DEF RolledBack
  <2> QED BY <1>1, <2>1 DEF IsRecord
<1>4. CASE job = "uncreate"
  BY <1>4 DEF RolledBack, WholeInv, IdInv
<1> QED BY <1>1, <1>2, <1>3, <1>4 DEF DDLJobs

\* The table that is taken back stays in the file until the next Save.
LEMMA ManifestFailsIdInv == ASSUME WholeInv, ManifestFails PROVE IdInv'
<1>1. /\ step = "manifest" /\ step' = "write" /\ job' = "uncreate" /\ mem' = RolledBack
      /\ UNCHANGED <<undo, disk, unsynced, written, suspect>>
  BY DEF ManifestFails
<1>2. job = "create" /\ Saving /\ UndoIds /\ Agrees(mem, undo)
  BY <1>1 DEF WholeInv, FreshInv, PlanInv, IdInv, Saving
<1>3. mem'.tables = undo.tables /\ mem'.nextTable = undo.nextTable
  BY <1>1, <1>2, RolledBackTables
<1>4. Directory' = Directory /\ AfterCrash' = AfterCrash
  BY <1>1 DEF Directory, AfterCrash
<1>5. Directory.json = {Content(mem)}
  BY <1>1 DEF WholeInv, FreshInv, CrashInv, Progress, Directory
<1>6. Loaded(Directory) = Content(mem)
  BY <1>5, LoadedContent
<1>7. Agrees(Content(mem), undo)
  <2>1. Content(mem).nextTable = mem.nextTable /\ DOMAIN Content(mem).tables = DOMAIN mem.tables
        /\ \A t \in DOMAIN mem.tables : /\ Content(mem).tables[t].id = mem.tables[t].id
                                        /\ Content(mem).tables[t].next = mem.tables[t].next
                                        /\ Content(mem).tables[t].cols = mem.tables[t].cols
    BY DEF Content
  <2> QED BY <1>2, <2>1 DEF Agrees
<1>8. Agrees(Loaded(Directory), undo)'
  BY <1>1, <1>4, <1>6, <1>7 DEF Agrees
<1>9. MemIds' /\ UndoIds'
  BY <1>1, <1>2, <1>3 DEF MemIds, UndoIds
<1>10. \A dir \in AfterCrash' : FileIds(Loaded(dir))'
  BY <1>1, <1>4 DEF WholeInv, IdInv, FileIds
<1> QED BY <1>1, <1>3, <1>4, <1>8, <1>9, <1>10 DEF WholeInv, IdInv

LEMMA SaveFaultIdInv == ASSUME WholeInv, SaveFault PROVE IdInv'
<1>1. /\ Saving /\ step # "manifest" /\ disk' = [disk EXCEPT !.tmp = {}] /\ UNCHANGED <<unsynced, written, suspect>>
      /\ IF job = "migrate" THEN mem' = Opened(NewEmpty) /\ step' = "closed"
                            ELSE mem' = RolledBack /\ step' = "idle"
  BY DEF SaveFault, SaveFails, Saving
<1>2. disk' = [disk EXCEPT !.tmp = disk'.tmp]
  BY <1>1 DEF WholeInv, FreshInv, CrashInv, Shape
<1>3. Directory' = Directory /\ AfterCrash' = AfterCrash /\ Synced' = Synced
  BY <1>1, <1>2, DirectoryStays DEF WholeInv, FreshInv
<1>4. \A dir \in AfterCrash' : FileIds(Loaded(dir))'
  BY <1>1, <1>3 DEF WholeInv, IdInv, FileIds
<1>5. Directory' \in unsynced'
  BY <1>1, <1>3 DEF WholeInv, IdInv
<1>6. CASE job = "migrate"
  <2>1. DOMAIN mem'.tables = {}
    BY <1>1, <1>6 DEF Opened, NewEmpty, NoTables
  <2> QED BY <1>1, <1>4, <1>5, <1>6, <2>1 DEF IdInv, Saving
<1>7. CASE job # "migrate"
  <2>1. mem'.tables = undo.tables /\ mem'.nextTable = undo.nextTable
    BY <1>1, <1>7, RolledBackTables
  <2>2. MemIds'
    BY <1>1, <1>7, <2>1 DEF WholeInv, IdInv, UndoIds, MemIds
  <2>3. Synced' => Agrees(Loaded(Directory), undo)
    BY <1>1, <1>3, <1>7 DEF WholeInv, IdInv, Saving
  <2>4. Synced' => Agrees(Loaded(Directory), mem)'
    BY <1>3, <2>1, <2>3 DEF Agrees
  <2> QED BY <1>1, <1>4, <1>5, <1>7, <2>2, <2>4 DEF IdInv, Saving
<1> QED BY <1>6, <1>7

LEMMA StoppedIds ==
    ASSUME Stopped, Directory' \in unsynced', AfterCrash' \subseteq AfterCrash, IdInv
    PROVE  IdInv'
<1>1. mem' = Opened(NewEmpty) /\ step' = "closed" /\ UNCHANGED <<written, suspect>>
  BY DEF Stopped
<1>2. DOMAIN mem'.tables = {}
  BY <1>1 DEF Opened, NewEmpty, NoTables
<1>3. \A dir \in AfterCrash' : FileIds(Loaded(dir))'
  BY <1>1 DEF IdInv, FileIds
<1> QED BY <1>1, <1>2, <1>3 DEF IdInv, Saving

LEMMA ProcessStopIdInv == ASSUME WholeInv, ProcessStop PROVE IdInv'
<1>1. Directory' = Directory /\ AfterCrash' = AfterCrash /\ unsynced' = unsynced
  BY DEF ProcessStop, Directory, AfterCrash
<1> QED BY <1>1, StoppedIds DEF ProcessStop, WholeInv, IdInv

LEMMA PowerCrashIdInv == ASSUME WholeInv, LosePower PROVE IdInv'
<1>1. PICK dir \in AfterCrash :
          /\ disk' = [json |-> dir.json, bak |-> dir.bak, tmp |-> disk.tmp]
          /\ unsynced' = {dir}
  BY DEF LosePower
<1>2. dir = [json |-> dir.json, bak |-> dir.bak]
  BY DEF WholeInv, FreshInv, CrashInv, Shape, AfterCrash, Directory
<1>3. Directory' = dir
  BY <1>1, <1>2 DEF Directory
<1>4. AfterCrash' = {dir}
  BY <1>1, <1>3 DEF AfterCrash
<1> QED BY <1>1, <1>3, <1>4, StoppedIds DEF LosePower, WholeInv

LEMMA OpenIdInv == ASSUME WholeInv, OpenDB PROVE IdInv'
<1> DEFINE c == Loaded(Directory)
<1>1. /\ mem' = Opened(c) /\ disk' = [disk EXCEPT !.tmp = {}]
      /\ UNCHANGED <<unsynced, written, suspect>>
      /\ (step' = "write" /\ job' = "migrate") \/ step' = "idle"
  BY DEF OpenDB, SweepTmp
<1>2. disk' = [disk EXCEPT !.tmp = disk'.tmp]
  BY <1>1 DEF WholeInv, FreshInv, CrashInv, Shape
<1>3. Directory' = Directory /\ AfterCrash' = AfterCrash /\ Synced' = Synced
  BY <1>1, <1>2, DirectoryStays DEF WholeInv, FreshInv
<1>4. IdsOK(c.tables, c.nextTable, written, suspect)
  BY DEF WholeInv, IdInv, FileIds, AfterCrash
<1> HIDE DEF c
<1>5. MemIds' /\ Agrees(c, mem')
  BY <1>1, <1>4, OpenedIds DEF MemIds
<1>6. Agrees(Loaded(Directory), mem)'
  BY <1>3, <1>5 DEF Agrees, c
<1>7. \A dir \in AfterCrash' : FileIds(Loaded(dir))'
  BY <1>1, <1>3 DEF WholeInv, IdInv, FileIds
<1> QED BY <1>1, <1>3, <1>5, <1>6, <1>7 DEF WholeInv, IdInv, Saving

\* Values written under the ids of the columns of tab, into its directory: they
\* are at home in any catalog that holds tab, or whose id of it is suspect.
LEMMA InsertedIds ==
    ASSUME NEW f, NEW next, NEW t \in DOMAIN f, NEW tab, NEW more, suspect \subseteq more,
           IdsOK(f, next, written, suspect), f[t].id = tab.id,
           tab.id \notin more =>
              /\ TabIds(tab, written)
              /\ f[t].next = tab.next /\ f[t].cols = tab.cols
    PROVE  IdsOK(f, next, written \cup {<<tab.id, c.id, c.origin>> : c \in BoundColumns(tab)}, more)
<1> DEFINE W == {<<tab.id, c.id, c.origin>> : c \in BoundColumns(tab)}
<1>1. \A w \in W : w[1] = tab.id /\ \E i \in DOMAIN tab.cols : /\ w[2] = tab.cols[i].id
                                                               /\ w[3] = tab.cols[i].origin
  BY DEF BoundColumns, LivePositions
<1> HIDE DEF W
<1>2. \A w \in W : w[1] \in Nat /\ w[1] < next
  BY <1>1 DEF IdsOK
<1>3. ASSUME tab.id \notin more PROVE TabIds(f[t], written \cup W)
  <2>1. TabIds(tab, written) /\ f[t].next = tab.next /\ f[t].cols = tab.cols
    BY <1>3
  <2>2. \A w \in W : w[2] \in Nat /\ w[2] < tab.next
                     /\ \A i \in DOMAIN tab.cols : w[2] = tab.cols[i].id => w[3] = tab.cols[i].origin
    BY <1>1, <2>1 DEF TabIds
  <2> QED BY <2>1, <2>2 DEF TabIds
<1>4. ASSUME NEW u \in DOMAIN f, f[u].id \notin more, u # t PROVE TabIds(f[u], written \cup W)
  <2>1. f[u].id # tab.id /\ TabIds(f[u], written)
    BY <1>4 DEF IdsOK
  <2> QED BY <1>1, <2>1 DEF TabIds
<1>5. IdsOK(f, next, written \cup W, more)
  <2>1. \A u \in DOMAIN f : f[u].id \notin more => TabIds(f[u], written \cup W)
    BY <1>3, <1>4
  <2>2. \A w \in written \cup W : w[1] \notin more => w[1] \in Nat /\ w[1] < next
    BY <1>2 DEF IdsOK
  <2> QED BY <2>1, <2>2 DEF IdsOK
<1> QED BY <1>5 DEF W

LEMMA InsertIdInv == ASSUME WholeInv, NEW t, Insert(t) PROVE IdInv'
<1> DEFINE tab == mem.entry[t]
           W == {<<tab.id, c.id, c.origin>> : c \in BoundColumns(tab)}
<1>1. /\ step = "idle" /\ t \in DOMAIN mem.entry /\ written' = written \cup W
      /\ suspect' = IF Synced THEN suspect ELSE suspect \cup {tab.id}
      /\ UNCHANGED <<mem, undo, step, job, disk, unsynced>>
  BY DEF Insert, Synced
<1>2. Good(mem) /\ MemIds
  BY <1>1 DEF WholeInv, FreshInv, PlanInv, IdInv
<1>3. t \in DOMAIN mem.tables /\ mem.tables[t].id = tab.id
  BY <1>1, <1>2 DEF Good, IsSchema
<1>4. ASSUME tab.id \notin suspect' PROVE mem.tables[t] = tab /\ TabIds(tab, written) /\ Synced
  <2>1. tab.id \notin suspect /\ Synced
    BY <1>1, <1>4
  <2>2. mem.tables[t] = tab
    BY <1>1, <1>2, <2>1 DEF Good, IsSchema, Noted
  <2> QED BY <1>2, <1>3, <2>1, <2>2 DEF MemIds, IdsOK
<1> HIDE DEF W
<1>5. Directory' = Directory /\ AfterCrash' = AfterCrash /\ Synced' = Synced
  BY <1>1 DEF Directory, AfterCrash, Synced
<1>6. suspect \subseteq suspect'
  BY <1>1
<1>7. MemIds'
  <2>1. IdsOK(mem.tables, mem.nextTable, written \cup W, suspect')
    BY <1>2, <1>3, <1>4, <1>6, InsertedIds DEF MemIds, W
  <2> QED BY <1>1, <2>1 DEF MemIds
<1>8. ASSUME NEW dir \in AfterCrash PROVE FileIds(Loaded(dir))'
  <2> DEFINE c == Loaded(dir)
  <2>1. IdsOK(c.tables, c.nextTable, written, suspect)
    BY DEF WholeInv, IdInv, FileIds
  <2>2. CASE Synced
    <3>1. dir = Directory
      BY <2>2 DEF AfterCrash, Synced
    <3>2. Agrees(c, mem)
      BY <1>1, <2>2, <3>1 DEF WholeInv, IdInv
    <3> HIDE DEF c
    <3>3. /\ t \in DOMAIN c.tables /\ c.tables[t].id = tab.id
          /\ c.tables[t].next = mem.tables[t].next /\ c.tables[t].cols = mem.tables[t].cols
      BY <1>3, <3>2 DEF Agrees
    <3>4. tab.id \notin suspect' => /\ TabIds(tab, written) /\ c.tables[t].next = tab.next
                                    /\ c.tables[t].cols = tab.cols
      BY <1>4, <3>3
    <3> HIDE DEF tab
    <3>5. IdsOK(c.tables, c.nextTable, written \cup W, suspect')
      BY <1>6, <2>1, <3>3, <3>4, InsertedIds DEF W
    <3> QED BY <1>1, <3>5 DEF FileIds, c
  <2>3. CASE ~Synced
    <3>1. tab.id \in suspect' /\ \A w \in W : w[1] = tab.id
      BY <1>1, <2>3 DEF W
    <3> HIDE DEF c
    <3>2. IdsOK(c.tables, c.nextTable, written \cup W, suspect')
      BY <1>6, <2>1, <3>1 DEF IdsOK, TabIds
    <3> QED BY <1>1, <3>2 DEF FileIds, c
  <2> QED BY <2>2, <2>3
<1>9. Synced => Agrees(Loaded(Directory), mem)'
  BY <1>1, <1>5 DEF WholeInv, IdInv, Agrees
<1> QED BY <1>1, <1>5, <1>7, <1>8, <1>9 DEF WholeInv, IdInv, Saving

LEMMA NextIdInv == ASSUME WholeInv, [CatalogNext]_catalogVars PROVE IdInv'
<1>1. CASE UNCHANGED catalogVars \/ \E t \in TableNames : Query(t)
  BY <1>1, StillIds DEF catalogVars, Query, WholeInv
<1> QED BY <1>1, DDLIdInv, WriteTmpIdInv, RenameToBakIdInv, RenameToTargetIdInv, SyncDirectoryIdInv,
           SaveFaultIdInv, OpenManifestIdInv, ManifestFailsIdInv, InsertIdInv, ProcessStopIdInv,
           PowerCrashIdInv, OpenIdInv DEF CatalogNext, Save

-----------------------------------------------------------------------------
\* The columns of a catalog that passes are those that wrote what is under their ids.
LEMMA IdsKeepMeaning ==
    ASSUME NEW c, FileIds(c)
    PROVE  \A t \in DOMAIN c.tables : \A w \in written, i \in DOMAIN c.tables[t].cols :
              w[1] = c.tables[t].id /\ w[1] \notin suspect /\ w[2] = c.tables[t].cols[i].id
                  => w[3] = c.tables[t].cols[i].origin
<1> SUFFICES ASSUME NEW t \in DOMAIN c.tables, NEW w \in written, NEW i \in DOMAIN c.tables[t].cols,
                    w[1] = c.tables[t].id, w[1] \notin suspect, w[2] = c.tables[t].cols[i].id
             PROVE  w[3] = c.tables[t].cols[i].origin
  OBVIOUS
<1>1. TabIds(c.tables[t], written)
  BY DEF FileIds, IdsOK
<1> QED BY <1>1 DEF TabIds

\* A column id under which a table directory holds values is never given to
\* another column: not by a DDL, nor by one that failed or that a crash cut off,
\* in the catalog in memory and in all that Load may find (NextColumnID and
\* NextTableID of catalog.go, and what the error paths of ddl.go restore).
THEOREM ColumnIdsAreForever == CatalogSpec => []ColumnIdsKeepMeaning
<1>1. CatalogInit => WholeInv
  BY InitCrashInv, InitPlanInv, InitIds DEF WholeInv, FreshInv
<1>2. WholeInv /\ [CatalogNext]_catalogVars => WholeInv'
  BY NextCrashInv, NextPlanInv, NextIdInv DEF WholeInv, FreshInv
<1>3. WholeInv => ColumnIdsKeepMeaning
  <2> SUFFICES ASSUME WholeInv, NEW c \in {Content(mem)} \cup {Loaded(dir) : dir \in AfterCrash}
               PROVE  \A t \in DOMAIN c.tables : \A w \in written, i \in DOMAIN c.tables[t].cols :
                         w[1] = c.tables[t].id /\ w[1] \notin suspect /\ w[2] = c.tables[t].cols[i].id
                             => w[3] = c.tables[t].cols[i].origin
    BY DEF ColumnIdsKeepMeaning
  <2>1. CASE c \in {Loaded(dir) : dir \in AfterCrash}
    BY <2>1, IdsKeepMeaning DEF WholeInv, IdInv
  <2>2. CASE c = Content(mem) /\ step = "closed"
    BY <2>2 DEF WholeInv, IdInv, Content
  <2>3. CASE c = Content(mem) /\ step # "closed"
    <3>1. IdsOK(c.tables, c.nextTable, written, suspect)
      BY <2>3, ContentIds DEF WholeInv, IdInv, MemIds
    <3>2. FileIds(c)
      BY <3>1 DEF FileIds
    <3> QED BY <3>2, IdsKeepMeaning
  <2> QED BY <2>1, <2>2, <2>3
<1> QED BY <1>1, <1>2, <1>3, PTL DEF CatalogSpec

-----------------------------------------------------------------------------
(***************************************************************************)
(* Validate never refuses: neither the catalog in memory, so that a schema *)
(* that was changed can be saved, nor one that a crash leaves behind, so   *)
(* that the database can be opened.                                        *)
(***************************************************************************)

\* The columns of one table, of the types that there are.
TabOK(tab, types) ==
    /\ tab.next \in Nat /\ 1 <= tab.next /\ IsSequence(tab.cols)
    /\ \A i \in DOMAIN tab.cols :
          /\ DOMAIN tab.cols[i] = {"id", "name", "type", "live", "origin"}
          /\ tab.cols[i].id \in Nat /\ 1 <= tab.cols[i].id /\ tab.cols[i].id < tab.next
          /\ tab.cols[i].type \in Scalars \cup types
          /\ \A j \in DOMAIN tab.cols \ {i} :
                /\ tab.cols[i].id # tab.cols[j].id
                /\ tab.cols[i].live /\ tab.cols[j].live => tab.cols[i].name # tab.cols[j].name

TablesOK(tables, next, types) ==
    /\ next \in Nat /\ 1 <= next
    /\ \A t \in DOMAIN tables :
          /\ tables[t].id \in Nat /\ 1 <= tables[t].id /\ tables[t].id < next
          /\ TabOK(tables[t], types)
    /\ \A t, u \in DOMAIN tables : tables[t].id = tables[u].id => t = u

CatalogOK(c) == TablesOK(c.tables, c.nextTable, c.types)

\* While two copies of a table share an array of columns, the one in the slice
\* shows a prefix of what the other shows.
PrefixOf(short, long) ==
    /\ DOMAIN short \subseteq DOMAIN long
    /\ \A i \in DOMAIN short : short[i] = long[i]

SchemaOK(m) ==
    /\ CatalogOK(m)
    /\ \A t \in DOMAIN m.entry : TabOK(m.entry[t], m.types)
    /\ \A t \in m.shared : PrefixOf(m.tables[t].cols, m.entry[t].cols)

ValidInv ==
    /\ SchemaOK(mem)
    /\ Saving /\ job # "migrate" => SchemaOK(undo)
    /\ \A c \in Known : CatalogOK(c)

SafeInv == FreshInv /\ ValidInv

-----------------------------------------------------------------------------
(* Catalogs in memory and on disk *)

LEMMA OKIsValid == ASSUME NEW c, CatalogOK(c) PROVE Valid(c)
BY DEF CatalogOK, TablesOK, TabOK, Valid, LivePositions

\* Only the ids and columns of the tables count.
LEMMA SameTables ==
    ASSUME NEW f, NEW g, NEW next, NEW types, DOMAIN f = DOMAIN g,
           \A t \in DOMAIN f : f[t].id = g[t].id /\ f[t].next = g[t].next /\ f[t].cols = g[t].cols,
           TablesOK(f, next, types)
    PROVE  TablesOK(g, next, types)
<1>1. ASSUME NEW t \in DOMAIN g, TabOK(f[t], types) PROVE TabOK(g[t], types)
  BY <1>1 DEF TabOK
<1> QED BY <1>1 DEF TablesOK

LEMMA ContentOK == ASSUME NEW m, CatalogOK(m) PROVE CatalogOK(Content(m))
<1>1. /\ DOMAIN Content(m).tables = DOMAIN m.tables /\ Content(m).nextTable = m.nextTable
      /\ Content(m).types = m.types
      /\ \A t \in DOMAIN m.tables : /\ Content(m).tables[t].id = m.tables[t].id
                                    /\ Content(m).tables[t].next = m.tables[t].next
                                    /\ Content(m).tables[t].cols = m.tables[t].cols
  BY DEF Content
<1> QED BY <1>1, SameTables DEF CatalogOK

LEMMA OpenedOK == ASSUME NEW c, CatalogOK(c) PROVE SchemaOK(Opened(c))
<1>1. /\ DOMAIN Opened(c).tables = DOMAIN c.tables /\ Opened(c).nextTable = c.nextTable
      /\ Opened(c).types = c.types /\ Opened(c).entry = Opened(c).tables
      /\ Opened(c).shared = DOMAIN c.tables
      /\ \A t \in DOMAIN c.tables : /\ Opened(c).tables[t].id = c.tables[t].id
                                    /\ Opened(c).tables[t].next = c.tables[t].next
                                    /\ Opened(c).tables[t].cols = c.tables[t].cols
  BY DEF Opened
<1>2. CatalogOK(Opened(c))
  BY <1>1, SameTables DEF CatalogOK
<1> HIDE DEF Opened
<1>3. \A t \in DOMAIN Opened(c).entry : TabOK(Opened(c).entry[t], Opened(c).types)
  BY <1>1, <1>2 DEF CatalogOK, TablesOK
<1>4. \A t \in Opened(c).shared : PrefixOf(Opened(c).tables[t].cols, Opened(c).entry[t].cols)
  BY <1>1 DEF PrefixOf
<1> QED BY <1>2, <1>3, <1>4 DEF SchemaOK

\* A schema that is assigned stays what it was.
LEMMA NowOK == ASSUME NEW m, SchemaOK(m), mem' = m PROVE SchemaOK(mem)'
BY DEF SchemaOK, CatalogOK

LEMMA UndoOK == ASSUME NEW m, SchemaOK(m), undo' = m PROVE SchemaOK(undo)'
BY DEF SchemaOK, CatalogOK

LEMMA EmptyOK == CatalogOK(NewEmpty)
BY DEF CatalogOK, TablesOK, NewEmpty, NoTables

\* The columns of a new table are numbered from 1 and have names of their own.
LEMMA BuiltOK ==
    ASSUME NEW t, NEW id, NEW g, NEW types
    PROVE  TabOK(BuildTable(t, id, g), types)
<1> DEFINE row == BuildTable(t, id, g)
<1>1. /\ row.next = Len(FirstColumns) + 1
      /\ row.cols = [i \in DOMAIN FirstColumns |-> Column(t, i, FirstColumns[i], "int32", g)]
  BY DEF BuildTable
<1>2. Len(FirstColumns) \in Nat /\ DOMAIN FirstColumns = 1..Len(FirstColumns)
      /\ \A i, j \in DOMAIN FirstColumns : FirstColumns[i] = FirstColumns[j] => i = j
  BY FirstColumnsAssumption
<1> HIDE DEF row
<1>3. DOMAIN row.cols = 1..Len(FirstColumns)
      /\ \A i \in DOMAIN row.cols :
            /\ row.cols[i].id = i /\ row.cols[i].name = FirstColumns[i]
            /\ row.cols[i].type = "int32"
            /\ DOMAIN row.cols[i] = {"id", "name", "type", "live", "origin"}
  BY <1>1, <1>2 DEF Column
<1>4. IsSequence(row.cols)
  <2> DEFINE S == {row.cols[i] : i \in DOMAIN row.cols}
  <2>1. row.cols \in [1..Len(FirstColumns) -> S]
    BY <1>1, <1>2
  <2> HIDE DEF S
  <2>2. row.cols \in Seq(S)
    BY <1>2, <2>1
  <2> QED BY <2>2 DEF IsSequence, S
<1>5. TabOK(row, types)
  BY <1>1, <1>2, <1>3, <1>4 DEF TabOK, Scalars
<1> QED BY <1>5 DEF row

\* The catalog that an older release left.
LEMMA LegacyOK == ASSUME NEW t PROVE CatalogOK(Migrated(LegacyCatalog(t)))
<1> DEFINE tab == BuildTable(t, 1, 1)
           tables == [u \in {t} |-> [id |-> 1, next |-> tab.next, cols |-> tab.cols]]
           c == Migrated(LegacyCatalog(t))
<1>1. TabOK(tab, {})
  BY BuiltOK
<1>2. LegacyCatalog(t) = [NewEmpty EXCEPT !.format = 1, !.gen = 1, !.nextTable = 2, !.tables = tables]
  BY DEF LegacyCatalog
<1> HIDE DEF tab
<1>3. DOMAIN tables = {t} /\ tables[t].id = 1 /\ TabOK(tables[t], {})
  <2>1. tables[t].next = tab.next /\ tables[t].cols = tab.cols
    OBVIOUS
  <2>2. DOMAIN tables = {t} /\ tables[t].id = 1
    OBVIOUS
  <2> HIDE DEF tables
  <2> QED BY ONLY <1>1, <2>1, <2>2 DEF TabOK
<1> HIDE DEF tables
<1>4. c.tables = tables /\ c.nextTable = 2 /\ c.types = {}
  BY <1>2 DEF Migrated, NewEmpty
<1> HIDE DEF c
<1>5. CatalogOK(c)
  BY <1>3, <1>4 DEF CatalogOK, TablesOK
<1> QED BY <1>5 DEF c

-----------------------------------------------------------------------------
(* What DDL does to a table *)

\* Another column in the place of one, with the same id.
LEMMA SetColumnOK ==
    ASSUME NEW tab, NEW types, IsTab(tab), TabOK(tab, types),
           NEW i \in DOMAIN tab.cols, NEW col,
           DOMAIN col = DOMAIN tab.cols[i], col.id = tab.cols[i].id,
           col.type \in Scalars \cup types,
           \A j \in DOMAIN tab.cols \ {i} : col.live /\ tab.cols[j].live => col.name # tab.cols[j].name
    PROVE  TabOK([tab EXCEPT !.cols = [tab.cols EXCEPT ![i] = col]], types)
<1> DEFINE cols == tab.cols
           new == [cols EXCEPT ![i] = col]
           r == [tab EXCEPT !.cols = new]
<1>1. r.next = tab.next /\ r.cols = new
  BY DEF IsTab
<1>2. IsSequence(new)
  <2>1. Len(cols) \in Nat /\ DOMAIN cols = 1..Len(cols)
    BY DEF TabOK, IsSequence
  <2>2. new \in [1..Len(cols) -> {new[k] : k \in DOMAIN new}]
    BY <2>1
  <2> HIDE DEF new, cols
  <2> QED BY <2>1, <2>2 DEF IsSequence
<1>3. DOMAIN new = DOMAIN cols /\ \A k \in DOMAIN cols : new[k] = IF k = i THEN col ELSE cols[k]
  OBVIOUS
<1> HIDE DEF r, new
<1>4. TabOK(r, types)
  BY <1>1, <1>2, <1>3 DEF TabOK
<1> QED BY <1>4 DEF r, new

LEMMA AppendColumnOK ==
    ASSUME NEW tab, NEW types, TabOK(tab, types), NEW col, NEW new,
           DOMAIN col = {"id", "name", "type", "live", "origin"}, col.id = tab.next,
           col.type \in Scalars \cup types,
           \A j \in DOMAIN tab.cols : tab.cols[j].live => col.name # tab.cols[j].name,
           new.cols = Append(tab.cols, col), new.next = tab.next + 1
    PROVE  TabOK(new, types) /\ PrefixOf(tab.cols, new.cols)
<1> DEFINE cols == tab.cols
           a == Append(cols, col)
           S == {cols[k] : k \in DOMAIN cols} \cup {col}
<1>1. cols \in Seq(S)
  BY DEF TabOK, IsSequence
<1>2. /\ Len(cols) \in Nat /\ DOMAIN cols = 1..Len(cols) /\ DOMAIN a = 1..(Len(cols) + 1)
      /\ \A k \in 1..Len(cols) : a[k] = cols[k]
      /\ a[Len(cols) + 1] = col
      /\ a \in Seq(S) /\ Len(a) = Len(cols) + 1
  BY <1>1
<1> HIDE DEF a, S
<1>3. IsSequence(a)
  <2>1. a \in [1..Len(a) -> {a[k] : k \in DOMAIN a}]
    BY <1>2
  <2> QED BY <1>2, <2>1 DEF IsSequence
<1>4. new.cols = a
  BY DEF a
<1>5. PrefixOf(cols, a)
  BY <1>2 DEF PrefixOf
<1>6. /\ tab.next \in Nat /\ 1 <= tab.next
      /\ \A k \in DOMAIN cols :
            /\ DOMAIN cols[k] = {"id", "name", "type", "live", "origin"}
            /\ cols[k].id \in Nat /\ 1 <= cols[k].id /\ cols[k].id < tab.next
            /\ cols[k].type \in Scalars \cup types
            /\ \A j \in DOMAIN cols \ {k} :
                  /\ cols[k].id # cols[j].id
                  /\ cols[k].live /\ cols[j].live => cols[k].name # cols[j].name
  BY DEF TabOK
<1> HIDE DEF cols
<1>7. ASSUME NEW k \in DOMAIN a
      PROVE  /\ DOMAIN a[k] = {"id", "name", "type", "live", "origin"}
             /\ a[k].id \in Nat /\ 1 <= a[k].id /\ a[k].id < tab.next + 1
             /\ a[k].type \in Scalars \cup types
  BY <1>2, <1>6
<1>8. ASSUME NEW k \in DOMAIN a, NEW j \in DOMAIN a \ {k}
      PROVE  /\ a[k].id # a[j].id
             /\ a[k].live /\ a[j].live => a[k].name # a[j].name
  <2>1. \A i \in 1..Len(cols) : i \in DOMAIN cols /\ a[i] = cols[i]
    BY <1>2
  <2>2. \A i \in DOMAIN a : i \in 1..Len(cols) \/ (i = Len(cols) + 1 /\ a[i] = col)
    <3> DEFINE n == Len(cols)
    <3>1. n \in Nat /\ DOMAIN a = 1..(n + 1) /\ a[n + 1] = col
      BY <1>2
    <3> HIDE DEF n
    <3>2. \A i \in 1..(n + 1) : i \in 1..n \/ i = n + 1
      BY <3>1
    <3> QED BY <3>1, <3>2 DEF n
  <2>3. \A i \in 1..Len(cols) : a[i].id # col.id /\ (a[i].live => col.name # a[i].name)
    <3>1. \A i \in 1..Len(cols) : a[i].live => col.name # a[i].name
      BY <2>1 DEF cols
    <3>2. \A i \in 1..Len(cols) : a[i].id # col.id
      <4>1. \A i \in 1..Len(cols) : a[i].id \in Nat /\ a[i].id < tab.next
        BY <2>1, <1>6
      <4>2. col.id = tab.next /\ tab.next \in Nat
        BY <1>6
      <4> QED BY <4>1, <4>2
    <3> QED BY <3>1, <3>2
  <2>4. CASE k \in 1..Len(cols) /\ j \in 1..Len(cols)
    BY <2>1, <2>4, <1>6
  <2>5. CASE a[k] = col /\ j \in 1..Len(cols)
    BY <2>3, <2>5
  <2>6. CASE k \in 1..Len(cols) /\ a[j] = col
    BY <2>3, <2>6
  <2> QED BY <2>2, <2>4, <2>5, <2>6
<1>9. tab.next + 1 \in Nat /\ 1 <= tab.next + 1
  BY <1>6
<1> QED BY <1>3, <1>4, <1>5, <1>7, <1>8, <1>9 DEF TabOK, cols

\* An assignment to a column, through the map entry and, while the array is
\* shared, in the slice.
LEMMA WithColumnOK ==
    ASSUME IsSchema(mem), SchemaOK(mem),
           NEW t \in DOMAIN mem.entry, NEW i \in DOMAIN mem.entry[t].cols, NEW col,
           DOMAIN col = DOMAIN mem.entry[t].cols[i], col.id = mem.entry[t].cols[i].id,
           col.type \in Scalars \cup mem.types,
           \A j \in DOMAIN mem.entry[t].cols \ {i} :
              col.live /\ mem.entry[t].cols[j].live => col.name # mem.entry[t].cols[j].name
    PROVE  SchemaOK(WithColumn(t, i, col))
<1> DEFINE Set(tab) == [tab EXCEPT !.cols = [tab.cols EXCEPT ![i] = col]]
           entry == [mem.entry EXCEPT ![t] = Set(mem.entry[t])]
           both == t \in mem.shared /\ i \in DOMAIN mem.tables[t].cols
           tables == IF both THEN [mem.tables EXCEPT ![t] = Set(mem.tables[t])] ELSE mem.tables
           w == WithColumn(t, i, col)
<1>1. w = [mem EXCEPT !.gen = @ + 1, !.entry = entry, !.tables = tables]
  BY DEF WithColumn
<1>2. \A tab : IsTab(tab) => /\ Set(tab).id = tab.id
                             /\ Set(tab).cols = [tab.cols EXCEPT ![i] = col]
  BY DEF IsTab
<1>3. TabOK(Set(mem.entry[t]), mem.types)
  BY SetColumnOK DEF SchemaOK, IsSchema
<1>4. both => TabOK(Set(mem.tables[t]), mem.types)
  <2> SUFFICES ASSUME both PROVE TabOK(Set(mem.tables[t]), mem.types)
    OBVIOUS
  <2>1. PrefixOf(mem.tables[t].cols, mem.entry[t].cols)
    BY DEF SchemaOK
  <2>2. IsTab(mem.tables[t]) /\ TabOK(mem.tables[t], mem.types)
    BY DEF IsSchema, SchemaOK, CatalogOK, TablesOK
  <2>3. /\ mem.tables[t].cols[i] = mem.entry[t].cols[i]
        /\ \A j \in DOMAIN mem.tables[t].cols : j \in DOMAIN mem.entry[t].cols
                                                /\ mem.tables[t].cols[j] = mem.entry[t].cols[j]
    BY <2>1 DEF PrefixOf
  <2>4. \A j \in DOMAIN mem.tables[t].cols \ {i} :
           col.live /\ mem.tables[t].cols[j].live => col.name # mem.tables[t].cols[j].name
    BY <2>3
  <2>5. /\ DOMAIN col = DOMAIN mem.tables[t].cols[i] /\ col.id = mem.tables[t].cols[i].id
        /\ i \in DOMAIN mem.tables[t].cols
    BY <2>3
  <2> QED BY ONLY <2>2, <2>4, <2>5, col.type \in Scalars \cup mem.types, SetColumnOK DEF Set
<1> HIDE DEF Set, w
<1>5. DOMAIN entry = DOMAIN mem.entry /\ DOMAIN tables = DOMAIN mem.entry /\ DOMAIN mem.tables = DOMAIN mem.entry
  BY DEF IsSchema
<1>6. \A u \in DOMAIN mem.entry : /\ entry[u] = IF u = t THEN Set(mem.entry[u]) ELSE mem.entry[u]
                                  /\ tables[u] = IF u = t /\ both THEN Set(mem.tables[u]) ELSE mem.tables[u]
  BY DEF IsSchema
<1> HIDE DEF entry, tables
<1>7. /\ w.entry = entry /\ w.tables = tables /\ w.shared = mem.shared
      /\ w.types = mem.types /\ w.nextTable = mem.nextTable
  BY <1>1 DEF IsSchema, IsRecord
<1>8. \A u \in DOMAIN mem.entry : TabOK(entry[u], mem.types) /\ TabOK(tables[u], mem.types)
                                  /\ tables[u].id = mem.tables[u].id
  <2> SUFFICES ASSUME NEW u \in DOMAIN mem.entry
               PROVE  /\ TabOK(entry[u], mem.types) /\ TabOK(tables[u], mem.types)
                      /\ tables[u].id = mem.tables[u].id
    OBVIOUS
  <2>1. /\ TabOK(mem.entry[u], mem.types) /\ TabOK(mem.tables[u], mem.types)
        /\ IsTab(mem.tables[u])
    BY <1>5 DEF SchemaOK, CatalogOK, TablesOK, IsSchema
  <2>2. Set(mem.tables[u]).id = mem.tables[u].id
    BY <1>2, <2>1
  <2> QED BY <1>3, <1>4, <1>6, <2>1, <2>2
<1>9. CatalogOK(w)
  BY <1>5, <1>7, <1>8 DEF SchemaOK, CatalogOK, TablesOK
<1>10. ASSUME NEW u \in mem.shared PROVE PrefixOf(tables[u].cols, entry[u].cols)
  <2>1. PrefixOf(mem.tables[u].cols, mem.entry[u].cols) /\ u \in DOMAIN mem.entry
        /\ IsTab(mem.tables[u]) /\ IsTab(mem.entry[u])
    BY DEF SchemaOK, IsSchema
  <2>2. CASE u # t
    BY <1>6, <2>1, <2>2
  <2>3. CASE u = t /\ both
    <3>1. /\ tables[u].cols = [mem.tables[u].cols EXCEPT ![i] = col]
          /\ entry[u].cols = [mem.entry[u].cols EXCEPT ![i] = col]
      BY <1>2, <1>6, <2>1, <2>3
    <3> QED BY <2>1, <3>1 DEF PrefixOf
  <2>4. CASE u = t /\ ~both
    <3>1. /\ tables[u].cols = mem.tables[u].cols /\ i \notin DOMAIN mem.tables[u].cols
          /\ entry[u].cols = [mem.entry[u].cols EXCEPT ![i] = col]
      BY <1>2, <1>6, <2>1, <2>4
    <3> QED BY <2>1, <3>1 DEF PrefixOf
  <2> QED BY <2>2, <2>3, <2>4
<1>11. \A u \in DOMAIN w.entry : TabOK(w.entry[u], w.types)
  BY <1>5, <1>7, <1>8
<1>12. \A u \in w.shared : PrefixOf(w.tables[u].cols, w.entry[u].cols)
  BY <1>7, <1>10
<1>13. SchemaOK(w)
  BY <1>9, <1>11, <1>12 DEF SchemaOK
<1> QED BY <1>13 DEF w

\* A new column, which in an array that is not shared the slice never sees.
LEMMA AddedOK ==
    ASSUME IsSchema(mem), SchemaOK(mem), NEW t \in DOMAIN mem.entry, NEW n, NEW type,
           type \in Scalars \cup mem.types, Positions(mem.entry[t], n) = {}
    PROVE  SchemaOK(Added(t, n, type, NextColumnId(mem.entry[t])))
<1> DEFINE old == mem.entry[t]
           id == NextColumnId(old)
           col == Column(t, id, n, type, mem.gen + 1)
           full == Len(old.cols) = old.cap
           tab == [old EXCEPT !.cols = Append(@, col), !.next = id + 1,
                              !.cap = IF full THEN Grown(@) ELSE @]
           entry == [mem.entry EXCEPT ![t] = tab]
           tables == IF t \in mem.inFile THEN [mem.tables EXCEPT ![t] = tab] ELSE mem.tables
           shared == IF full /\ t \notin mem.inFile THEN mem.shared \ {t} ELSE mem.shared
           a == Added(t, n, type, id)
<1>1. a = [mem EXCEPT !.gen = @ + 1, !.entry = entry, !.tables = tables, !.shared = shared]
  BY DEF Added
<1>2. tab.id = old.id /\ tab.cols = Append(old.cols, col) /\ tab.next = old.next + 1
  BY DEF IsTab, IsSchema, NextColumnId
<1>3. /\ col.id = old.next /\ col.name = n /\ col.type = type
      /\ DOMAIN col = {"id", "name", "type", "live", "origin"}
  BY DEF Column, NextColumnId
<1>4. \A j \in DOMAIN old.cols : old.cols[j].live => n # old.cols[j].name
  BY DEF Positions, LivePositions
<1> HIDE DEF col, tab, a
<1>5. TabOK(tab, mem.types) /\ PrefixOf(old.cols, tab.cols)
  BY <1>2, <1>3, <1>4, AppendColumnOK DEF SchemaOK
<1>6. DOMAIN entry = DOMAIN mem.entry /\ DOMAIN tables = DOMAIN mem.entry /\ DOMAIN mem.tables = DOMAIN mem.entry
  BY DEF IsSchema
<1>7. \A u \in DOMAIN mem.entry :
         /\ entry[u] = IF u = t THEN tab ELSE mem.entry[u]
         /\ tables[u] = IF u = t /\ t \in mem.inFile THEN tab ELSE mem.tables[u]
  BY DEF IsSchema
<1>8. shared \subseteq mem.shared
  OBVIOUS
<1> HIDE DEF entry, tables, shared
<1>9. /\ a.entry = entry /\ a.tables = tables /\ a.shared = shared
      /\ a.types = mem.types /\ a.nextTable = mem.nextTable
  BY <1>1 DEF IsSchema, IsRecord
<1>10. \A u \in DOMAIN mem.entry : TabOK(entry[u], mem.types) /\ TabOK(tables[u], mem.types)
                                   /\ tables[u].id = mem.tables[u].id
  BY <1>2, <1>5, <1>6, <1>7 DEF SchemaOK, CatalogOK, TablesOK, IsSchema
<1>11. CatalogOK(a)
  BY <1>6, <1>9, <1>10 DEF SchemaOK, CatalogOK, TablesOK
<1>12. ASSUME NEW u \in shared PROVE PrefixOf(tables[u].cols, entry[u].cols)
  <2>1. PrefixOf(mem.tables[u].cols, mem.entry[u].cols) /\ u \in DOMAIN mem.entry
    BY <1>8 DEF SchemaOK, IsSchema
  <2> QED BY <1>5, <1>7, <2>1 DEF PrefixOf
<1>13. \A u \in DOMAIN a.entry : TabOK(a.entry[u], a.types)
  BY <1>6, <1>9, <1>10
<1>14. \A u \in a.shared : PrefixOf(a.tables[u].cols, a.entry[u].cols)
  BY <1>9, <1>12
<1>15. SchemaOK(a)
  BY <1>11, <1>13, <1>14 DEF SchemaOK
<1> QED BY <1>15 DEF a

\* A new table gets an id and columns of its own.
LEMMA RegisterTableOK ==
    ASSUME IsSchema(mem), SchemaOK(mem), NEW t, RegisterTable(t)
    PROVE  SchemaOK(mem)'
<1> DEFINE row == BuildTable(t, mem.nextTable, mem.gen + 1)
           full == Cardinality(DOMAIN mem.tables) = mem.cap
           With(f) == [u \in DOMAIN f \cup {t} |-> IF u = t THEN row ELSE f[u]]
<1>1. t \notin DOMAIN mem.entry
  BY DEF RegisterTable
<1>2. mem' = [mem EXCEPT !.gen = mem.gen + 1, !.nextTable = @ + 1,
                         !.tables = With(mem.tables), !.entry = With(mem.entry),
                         !.cap = IF full THEN Grown(@) ELSE @,
                         !.inFile = IF full THEN {t} ELSE @ \cup {t}, !.shared = @ \cup {t}]
  BY DEF RegisterTable, Begin
<1>3. row.id = mem.nextTable /\ TabOK(row, mem.types)
  BY BuiltOK DEF BuildTable
<1> HIDE DEF row, full
<1>4. /\ mem'.tables = With(mem.tables) /\ mem'.nextTable = mem.nextTable + 1
      /\ mem'.entry = With(mem.entry) /\ mem'.shared = mem.shared \cup {t} /\ mem'.types = mem.types
  BY <1>2 DEF IsSchema, IsRecord
<1>5. /\ DOMAIN mem.tables = DOMAIN mem.entry
      /\ DOMAIN mem'.tables = DOMAIN mem.entry \cup {t} /\ DOMAIN mem'.entry = DOMAIN mem.entry \cup {t}
      /\ \A u \in DOMAIN mem.entry \cup {t} :
            /\ mem'.tables[u] = IF u = t THEN row ELSE mem.tables[u]
            /\ mem'.entry[u] = IF u = t THEN row ELSE mem.entry[u]
  BY <1>4 DEF IsSchema
<1>6. mem.nextTable \in Nat /\ 1 <= mem.nextTable
  BY DEF SchemaOK, CatalogOK, TablesOK
<1>7. ASSUME NEW u \in DOMAIN mem.entry
      PROVE  /\ mem.tables[u].id \in Nat /\ 1 <= mem.tables[u].id /\ mem.tables[u].id < mem.nextTable
             /\ TabOK(mem.tables[u], mem.types) /\ TabOK(mem.entry[u], mem.types)
  BY <1>5 DEF SchemaOK, CatalogOK, TablesOK
<1>8. \A u, v \in DOMAIN mem.entry : mem.tables[u].id = mem.tables[v].id => u = v
  BY <1>5 DEF SchemaOK, CatalogOK, TablesOK
<1>9. TablesOK(mem'.tables, mem'.nextTable, mem'.types)
  <2>1. \A u \in DOMAIN mem'.tables :
           /\ mem'.tables[u].id \in Nat /\ 1 <= mem'.tables[u].id /\ mem'.tables[u].id < mem.nextTable + 1
           /\ TabOK(mem'.tables[u], mem.types)
    BY <1>3, <1>5, <1>6, <1>7
  <2>2. \A u, v \in DOMAIN mem'.tables : mem'.tables[u].id = mem'.tables[v].id => u = v
    BY <1>1, <1>3, <1>5, <1>6, <1>7, <1>8
  <2>3. mem.nextTable + 1 \in Nat /\ 1 <= mem.nextTable + 1
    BY <1>6
  <2>4. TablesOK(mem'.tables, mem.nextTable + 1, mem.types)
    BY <2>1, <2>2, <2>3 DEF TablesOK
  <2> QED BY <1>4, <2>4
<1>10. \A u \in DOMAIN mem'.entry : TabOK(mem'.entry[u], mem'.types)
  BY <1>3, <1>4, <1>5, <1>7
<1>11. \A u \in mem'.shared : PrefixOf(mem'.tables[u].cols, mem'.entry[u].cols)
  BY <1>4, <1>5 DEF SchemaOK, IsSchema, PrefixOf
<1> QED BY <1>9, <1>10, <1>11 DEF SchemaOK, CatalogOK

\* More types are good for every column.
LEMMA RegisterTypeOK ==
    ASSUME IsSchema(mem), SchemaOK(mem), NEW n, RegisterType(n)
    PROVE  SchemaOK(mem)'
<1>1. mem' = [mem EXCEPT !.gen = @ + 1, !.types = @ \cup {n}]
  BY DEF RegisterType, Begin
<1>2. /\ mem'.tables = mem.tables /\ mem'.entry = mem.entry /\ mem'.shared = mem.shared
      /\ mem'.nextTable = mem.nextTable /\ mem'.types = mem.types \cup {n}
  BY <1>1 DEF IsSchema, IsRecord
<1>3. \A tab : TabOK(tab, mem.types) => TabOK(tab, mem.types \cup {n})
  BY DEF TabOK
<1> QED BY <1>2, <1>3 DEF SchemaOK, CatalogOK, TablesOK

\* Whatever the DDL, it leaves a schema that Validate accepts.
LEMMA DDLOK == ASSUME PlanInv, SchemaOK(mem), DDL PROVE SchemaOK(mem)'
<1>1. IsSchema(mem)
  BY DEF PlanInv
<1>2. ASSUME NEW t, NEW i, NEW col, NEW j, Begin(j, WithColumn(t, i, col)),
             SchemaOK(WithColumn(t, i, col))
      PROVE  SchemaOK(mem)'
  BY <1>2, NowOK DEF Begin
<1>3. ASSUME NEW t, NEW n, NEW to, RenameColumn(t, n, to) PROVE SchemaOK(mem)'
  <2>1. PICK i \in Positions(mem.entry[t], n) :
           Begin("alter", WithColumn(t, i, [mem.entry[t].cols[i] EXCEPT !.name = to]))
    BY <1>3 DEF RenameColumn
  <2> DEFINE old == mem.entry[t].cols[i]
             col == [old EXCEPT !.name = to]
  <2>2. t \in DOMAIN mem.entry /\ i \in DOMAIN mem.entry[t].cols /\ TabOK(mem.entry[t], mem.types)
    BY <1>3 DEF RenameColumn, Positions, LivePositions, SchemaOK
  <2>3. DOMAIN old = {"id", "name", "type", "live", "origin"} /\ old.type \in Scalars \cup mem.types
    BY <2>2 DEF TabOK
  <2>4. DOMAIN col = DOMAIN old /\ col.id = old.id /\ col.type = old.type /\ col.name = to
    BY <2>3
  <2>5. \A j \in DOMAIN mem.entry[t].cols : mem.entry[t].cols[j].live => mem.entry[t].cols[j].name # to
    BY <1>3 DEF RenameColumn, Positions, LivePositions
  <2> HIDE DEF col
  <2>6. SchemaOK(WithColumn(t, i, col))
    BY <1>1, <2>2, <2>3, <2>4, <2>5, WithColumnOK
  <2> QED BY <1>2, <2>1, <2>6 DEF col
<1>4. ASSUME NEW t, NEW n, DropColumn(t, n) PROVE SchemaOK(mem)'
  <2>1. PICK i \in Positions(mem.entry[t], n) :
           Begin("alter", WithColumn(t, i, [mem.entry[t].cols[i] EXCEPT !.live = FALSE]))
    BY <1>4 DEF DropColumn
  <2> DEFINE old == mem.entry[t].cols[i]
             col == [old EXCEPT !.live = FALSE]
  <2>2. t \in DOMAIN mem.entry /\ i \in DOMAIN mem.entry[t].cols /\ TabOK(mem.entry[t], mem.types)
    BY <1>4 DEF DropColumn, Positions, LivePositions, SchemaOK
  <2>3. DOMAIN old = {"id", "name", "type", "live", "origin"} /\ old.type \in Scalars \cup mem.types
    BY <2>2 DEF TabOK
  <2>4. DOMAIN col = DOMAIN old /\ col.id = old.id /\ col.type = old.type /\ ~col.live
    BY <2>3
  <2> HIDE DEF col
  <2>5. SchemaOK(WithColumn(t, i, col))
    BY <1>1, <2>2, <2>3, <2>4, WithColumnOK
  <2> QED BY <1>2, <2>1, <2>5 DEF col
<1>5. ASSUME NEW t, NEW n, NEW type, AlterColumnType(t, n, type) PROVE SchemaOK(mem)'
  <2>1. PICK i \in Positions(mem.entry[t], n) :
           /\ <<mem.entry[t].cols[i].type, type>> \in Widening
           /\ Begin("alter", WithColumn(t, i, [mem.entry[t].cols[i] EXCEPT !.type = type]))
    BY <1>5 DEF AlterColumnType
  <2> DEFINE old == mem.entry[t].cols[i]
             col == [old EXCEPT !.type = type]
  <2>2. t \in DOMAIN mem.entry /\ i \in DOMAIN mem.entry[t].cols /\ TabOK(mem.entry[t], mem.types)
    BY <1>5 DEF AlterColumnType, Positions, LivePositions, SchemaOK
  <2>3. DOMAIN old = {"id", "name", "type", "live", "origin"}
        /\ \A j \in DOMAIN mem.entry[t].cols \ {i} :
              old.live /\ mem.entry[t].cols[j].live => old.name # mem.entry[t].cols[j].name
    BY <2>2 DEF TabOK
  <2>4. DOMAIN col = DOMAIN old /\ col.id = old.id /\ col.name = old.name /\ col.live = old.live
        /\ col.type = type
    BY <2>3
  <2>5. type \in Scalars
    BY <2>1 DEF Widening, Scalars
  <2> HIDE DEF col
  <2>6. SchemaOK(WithColumn(t, i, col))
    BY <1>1, <2>2, <2>3, <2>4, <2>5, WithColumnOK
  <2> QED BY <1>2, <2>1, <2>6 DEF col
<1>6. ASSUME NEW t, NEW n, NEW type, AddColumn(t, n, type) PROVE SchemaOK(mem)'
  <2>1. SchemaOK(Added(t, n, type, NextColumnId(mem.entry[t])))
    BY <1>1, <1>6, AddedOK DEF AddColumn
  <2> QED BY <1>6, <2>1, NowOK DEF AddColumn, Begin
<1> QED BY <1>1, <1>3, <1>4, <1>5, <1>6, RegisterTableOK, RegisterTypeOK DEF DDL

-----------------------------------------------------------------------------
(* The steps *)

LEMMA InitValidInv == ASSUME CatalogInit PROVE ValidInv
<1>1. PICK found \in {{}} \cup {{LegacyCatalog(t)} : t \in TableNames} :
          acked = Loaded([json |-> found, bak |-> {}])
  BY DEF CatalogInit
<1>2. SchemaOK(mem)
  BY OpenedOK, EmptyOK, NowOK DEF CatalogInit
<1>3. CatalogOK(acked)
  <2>1. CASE found = {}
    BY <1>1, <2>1, EmptyOK DEF Loaded, Found
  <2>2. CASE found # {}
    <3>1. PICK t \in TableNames : found = {LegacyCatalog(t)}
      BY <2>2
    <3>2. acked = Migrated(LegacyCatalog(t))
      BY <1>1, <3>1 DEF Loaded, Found
    <3> QED BY <3>2, LegacyOK
  <2> QED BY <2>1, <2>2
<1>4. Known = {acked} /\ ~Saving
  BY DEF CatalogInit, Known, Saving
<1> QED BY <1>2, <1>3, <1>4 DEF ValidInv

LEMMA DDLValidInv == ASSUME SafeInv, DDL PROVE ValidInv'
<1>1. PICK j, m : Begin(j, m)
  BY DEF DDL, RegisterType, RegisterTable, RenameColumn, DropColumn, AddColumn, AlterColumnType
<1>2. /\ mem' = m /\ undo' = mem /\ Known' = Known \cup {Content(m)}
  BY <1>1 DEF Begin, Known
<1>3. SchemaOK(mem)'
  BY DDLOK DEF SafeInv, FreshInv, ValidInv
<1>4. SchemaOK(m)
  BY <1>2, <1>3 DEF SchemaOK, CatalogOK
<1>5. CatalogOK(Content(m))
  BY <1>4, ContentOK DEF SchemaOK
<1>6. SchemaOK(undo)'
  BY <1>2, UndoOK DEF SafeInv, ValidInv
<1> QED BY <1>2, <1>3, <1>5, <1>6 DEF SafeInv, ValidInv

\* Steps that leave the schemas in memory, and add none to those on disk.
LEMMA StillValid ==
    ASSUME ValidInv, UNCHANGED <<mem, undo, job>>, Known' \subseteq Known \cup {Content(mem)},
           Saving' => Saving
    PROVE  ValidInv'
<1>1. SchemaOK(mem)' /\ (SchemaOK(undo) => SchemaOK(undo)')
  BY NowOK, UndoOK DEF ValidInv
<1>2. CatalogOK(Content(mem))
  BY ContentOK DEF ValidInv, SchemaOK
<1> QED BY <1>1, <1>2 DEF ValidInv

LEMMA ReturnedValid == ASSUME ValidInv, Returned, mem' = mem PROVE ValidInv'
<1>1. SchemaOK(mem)'
  BY NowOK DEF ValidInv
<1>2. CatalogOK(Content(mem))
  BY ContentOK DEF ValidInv, SchemaOK
<1>3. Known' = {Content(mem)} /\ ~Saving'
  BY DEF Returned, Known, Saving
<1> QED BY <1>1, <1>2, <1>3 DEF ValidInv

\* What an error path restores was accepted before.
LEMMA RolledBackOK ==
    ASSUME ValidInv, InDDL, Saving, job # "migrate", mem' = RolledBack
    PROVE  SchemaOK(mem)'
<1>1. SchemaOK(mem) /\ SchemaOK(undo) /\ IsRecord(undo)
  BY DEF ValidInv, InDDL, Good, IsSchema
<1>2. CASE job \in {"alter", "type"}
  BY <1>1, <1>2, NowOK DEF RolledBack
<1>3. CASE job = "create"
  <2> DEFINE r == [undo EXCEPT !.cap = mem.cap, !.entry = undo.tables,
                               !.inFile = DOMAIN undo.tables, !.shared = DOMAIN undo.tables]
  <2>1. /\ r.tables = undo.tables /\ r.nextTable = undo.nextTable /\ r.types = undo.types
        /\ r.entry = undo.tables /\ r.shared = DOMAIN undo.tables
    BY <1>1 DEF IsRecord
  <2>2. mem' = r
    BY <1>3 DEF RolledBack
  <2> HIDE DEF r
  <2>3. CatalogOK(r)
    BY <1>1, <2>1 DEF SchemaOK, CatalogOK
  <2>4. SchemaOK(r)
    BY <2>1, <2>3 DEF SchemaOK, CatalogOK, TablesOK, PrefixOf
  <2> QED BY <2>2, <2>4, NowOK
<1>4. CASE job = "uncreate"
  BY <1>1, <1>4, NowOK DEF RolledBack
<1> QED BY <1>2, <1>3, <1>4 DEF InDDL, DDLJobs

LEMMA ManifestFailsValidInv == ASSUME SafeInv, ManifestFails PROVE ValidInv'
<1>1. /\ step = "manifest" /\ mem' = RolledBack /\ undo' = undo
      /\ Known' = Known \cup {Content(mem')}
  BY DEF ManifestFails, Known
<1>2. Saving /\ job = "create" /\ InDDL
  BY <1>1 DEF SafeInv, FreshInv, PlanInv, Saving
<1>3. SchemaOK(mem)'
  BY <1>1, <1>2, RolledBackOK DEF SafeInv
<1>4. CatalogOK(Content(mem'))
  BY <1>3, ContentOK DEF SchemaOK, CatalogOK
<1>5. SchemaOK(undo)'
  BY <1>1, <1>2, UndoOK DEF SafeInv, ValidInv
<1> QED BY <1>1, <1>3, <1>4, <1>5 DEF SafeInv, ValidInv

LEMMA SaveFaultValidInv == ASSUME SafeInv, SaveFault PROVE ValidInv'
<1>1. /\ Saving /\ ~Saving' /\ Known' = Known
      /\ IF job = "migrate" THEN mem' = Opened(NewEmpty) ELSE mem' = RolledBack
  BY DEF SaveFault, SaveFails, Saving, Known
<1>2. CASE job = "migrate"
  BY <1>1, <1>2, OpenedOK, EmptyOK, NowOK DEF SafeInv, ValidInv
<1>3. CASE job # "migrate"
  <2>1. SchemaOK(mem)'
    BY <1>1, <1>3, RolledBackOK DEF SafeInv, FreshInv, PlanInv
  <2> QED BY <1>1, <2>1 DEF SafeInv, ValidInv
<1> QED BY <1>2, <1>3

LEMMA StoppedValidInv == ASSUME ValidInv, Stopped PROVE ValidInv'
<1>1. mem' = Opened(NewEmpty) /\ Known' = Known /\ ~Saving'
  BY DEF Stopped, Known, Saving
<1>2. SchemaOK(mem)'
  BY <1>1, OpenedOK, EmptyOK, NowOK
<1> QED BY <1>1, <1>2 DEF ValidInv

LEMMA OpenValidInv == ASSUME SafeInv, OpenDB PROVE ValidInv'
<1>1. /\ mem' = Opened(Loaded(Directory)) /\ Known' = Known
      /\ Saving' => job' = "migrate"
  BY DEF OpenDB, Known, Saving
<1>2. Loaded(Directory) \in Known
  BY DEF SafeInv, FreshInv, CrashInv, CrashLoadsAcknowledged, AfterCrash, Known
<1>3. SchemaOK(mem)'
  BY <1>1, <1>2, OpenedOK, NowOK DEF SafeInv, ValidInv
<1> QED BY <1>1, <1>3 DEF SafeInv, ValidInv

LEMMA NextValidInv == ASSUME SafeInv, [CatalogNext]_catalogVars PROVE ValidInv'
<1>1. CASE WriteTmp \/ RenameToBak \/ RenameToTarget
  <2>1. UNCHANGED <<mem, undo, job>> /\ Known' = Known /\ Saving
    BY <1>1 DEF WriteTmp, RenameToBak, RenameToTarget, Unchanged, Known, Saving
  <2> QED BY <2>1, StillValid DEF SafeInv
<1>2. CASE SyncDirectory
  <2>1. CASE job = "create"
    <3>1. UNCHANGED <<mem, undo, job>> /\ Known' = Known /\ Saving
      BY <1>2, <2>1 DEF SyncDirectory, Known, Saving
    <3> QED BY <3>1, StillValid DEF SafeInv
  <2>2. CASE job # "create"
    BY <1>2, <2>2, ReturnedValid DEF SafeInv, SyncDirectory
  <2> QED BY <2>1, <2>2
<1>3. CASE OpenManifest
  BY <1>3, ReturnedValid DEF SafeInv, OpenManifest
<1>4. CASE UNCHANGED catalogVars \/ \E t \in TableNames : Query(t) \/ Insert(t)
  <2>1. UNCHANGED <<mem, undo, job, step>> /\ Known' = Known
    BY <1>4 DEF catalogVars, Query, Insert, Known
  <2>2. Saving' => Saving
    BY <2>1 DEF Saving
  <2> QED BY <2>1, <2>2, StillValid DEF SafeInv
<1>5. CASE ProcessStop \/ LosePower
  BY <1>5, StoppedValidInv DEF SafeInv, ProcessStop, LosePower
<1> QED BY <1>1, <1>2, <1>3, <1>4, <1>5, DDLValidInv, SaveFaultValidInv, ManifestFailsValidInv,
           OpenValidInv DEF CatalogNext, Save

-----------------------------------------------------------------------------
\* Validate accepts the catalog in memory and every catalog that a crash can
\* leave, for any tables, columns and types, and any DDL, failures and crashes
\* (validate.go; Save and Load call it): no schema is reached that cannot be saved
\* or opened.
THEOREM CatalogStaysValid == CatalogSpec => []CatalogValid
<1>1. CatalogInit => SafeInv
  BY InitCrashInv, InitPlanInv, InitValidInv DEF SafeInv, FreshInv
<1>2. SafeInv /\ [CatalogNext]_catalogVars => SafeInv'
  BY NextCrashInv, NextPlanInv, NextValidInv DEF SafeInv, FreshInv
<1>3. SafeInv => CatalogValid
  <2>1. SafeInv => Valid(Content(mem))
    BY ContentOK, OKIsValid DEF SafeInv, ValidInv, SchemaOK
  <2>2. SafeInv => \A dir \in AfterCrash : Loaded(dir) \in Known
    BY DEF SafeInv, FreshInv, CrashInv, CrashLoadsAcknowledged, Known
  <2>3. SafeInv => \A dir \in AfterCrash : Valid(Loaded(dir))
    BY <2>2, OKIsValid DEF SafeInv, ValidInv
  <2> QED BY <2>1, <2>3 DEF CatalogValid
<1> QED BY <1>1, <1>2, <1>3, PTL DEF CatalogSpec

-----------------------------------------------------------------------------
(***************************************************************************)
(* Types. What Valid and the plans need is known; what is left is that the *)
(* fields hold what they are declared to, and that an array has room for   *)
(* its elements.                                                           *)
(***************************************************************************)

\* One step of the decoder, and all of them.
Decoding(f, k) == IF k = 0 THEN 0
                  ELSE LET cap == f[k - 1]
                       IN  IF k <= cap THEN cap ELSE Grown(cap)
Decodes(f, n) == f = [k \in 0..n |-> Decoding(f, k)]

LEMMA DecodesExist == ASSUME NEW n \in Nat PROVE \E f : Decodes(f, n)
<1> DEFINE Without == {k \in 0..n : ~ \E f : Decodes(f, k)}
<1>1. 0 \notin Without
  <2> DEFINE f == [k \in 0..0 |-> 0]
  <2>1. \A k \in 0..0 : f[k] = 0 /\ Decoding(f, k) = 0
    BY DEF Decoding
  <2>2. Decodes(f, 0)
    BY <2>1 DEF Decodes
  <2> QED BY <2>2
<1>2. ASSUME NEW k \in 1..n, k - 1 \notin Without PROVE k \notin Without
  <2>1. k \in Nat /\ k - 1 \in 0..n
    OBVIOUS
  <2>2. PICK f : Decodes(f, k - 1)
    BY <1>2, <2>1
  <2> DEFINE g == [i \in 0..k |-> IF i = k THEN Decoding(f, k) ELSE f[i]]
  <2>3. ASSUME NEW i \in 0..k PROVE g[i] = Decoding(g, i)
    <3>1. i # 0 => g[i - 1] = f[i - 1]
      BY <2>1
    <3>2. g[i] = Decoding(f, i)
      <4>1. i = k \/ i \in 0..(k - 1)
        BY <2>1
      <4>2. i # k => f[i] = Decoding(f, i)
        BY <2>2, <4>1 DEF Decodes
      <4> QED BY <4>1, <4>2
    <3> HIDE DEF g
    <3> QED BY <3>1, <3>2 DEF Decoding
  <2>4. g = [i \in 0..k |-> g[i]]
    OBVIOUS
  <2> HIDE DEF g
  <2>5. Decodes(g, k)
    BY <2>3, <2>4 DEF Decodes
  <2> QED BY <2>5
<1>3. Without \in SUBSET (0..n)
  OBVIOUS
<1> HIDE DEF Without
<1>4. Without = {}
  BY <1>1, <1>2, <1>3, NoneOf
<1>5. n \in 0..n
  OBVIOUS
<1> QED BY <1>4, <1>5 DEF Without

\* An array that n elements were decoded into has room for them.
LEMMA DecodedRoom ==
    ASSUME NEW n \in Nat
    PROVE  DecodedCap(n) \in Nat /\ n <= DecodedCap(n)
<1> DEFINE Fold(g) == g = [k \in 0..n |-> IF k = 0 THEN 0
                                          ELSE LET cap == g[k - 1]
                                               IN  IF k <= cap THEN cap ELSE Grown(cap)]
           after == CHOOSE g : Fold(g)
           Bad == {k \in 0..n : ~(after[k] \in Nat /\ k <= after[k])}
<1>1. \A g : Fold(g) <=> Decodes(g, n)
  BY DEF Decodes, Decoding
<1>2. DecodedCap(n) = after[n]
  BY DEF DecodedCap
<1> HIDE DEF Fold
<1>3. \E g : Fold(g)
  BY <1>1, DecodesExist
<1>4. Fold(after)
  BY <1>3
<1>5. Decodes(after, n)
  BY <1>1, <1>4
<1> HIDE DEF after
<1>6. \A k \in 0..n : after[k] = Decoding(after, k)
  BY <1>5 DEF Decodes
<1>7. 0 \notin Bad
  BY <1>6 DEF Decoding
<1>8. ASSUME NEW k \in 1..n, k - 1 \notin Bad PROVE k \notin Bad
  <2>1. k \in Nat /\ k # 0 /\ k - 1 \in 0..n
    OBVIOUS
  <2>2. after[k - 1] \in Nat /\ k - 1 <= after[k - 1]
    BY <1>8, <2>1
  <2>3. after[k] = IF k <= after[k - 1] THEN after[k - 1] ELSE Grown(after[k - 1])
    BY <1>6, <2>1 DEF Decoding
  <2>4. after[k] \in Nat /\ k <= after[k]
    BY <2>1, <2>2, <2>3 DEF Grown
  <2> QED BY <2>4
<1>9. Bad \in SUBSET (0..n)
  OBVIOUS
<1> HIDE DEF Bad
<1>10. Bad = {}
  BY <1>7, <1>8, <1>9, NoneOf
<1>11. n \in 0..n
  OBVIOUS
<1> QED BY <1>2, <1>10, <1>11 DEF Bad

ColsTyped(tab) == \A i \in DOMAIN tab.cols : tab.cols[i] \in ColumnSet
Room(tab) == tab.cap \in Nat /\ Len(tab.cols) <= tab.cap

\* A catalog, as a file has it and in memory.
FileTyped(c) ==
    /\ c.gen \in 0..MaxGeneration /\ c.types \subseteq TypeNames
    /\ DOMAIN c.tables \subseteq TableNames /\ IsFiniteSet(DOMAIN c.tables)
    /\ \A t \in DOMAIN c.tables : ColsTyped(c.tables[t])

MemTyped(m) ==
    /\ FileTyped(m)
    /\ \A t \in DOMAIN m.tables : Room(m.tables[t]) /\ ColsTyped(m.entry[t]) /\ Room(m.entry[t])
    /\ m.cap \in Nat /\ Cardinality(DOMAIN m.tables) <= m.cap

\* Undoing a CREATE leaves the slice the array it has been moved to.
FieldsInv ==
    /\ MemTyped(mem)
    /\ Saving /\ job # "migrate" => MemTyped(undo)
    /\ \A c \in Known : FileTyped(c)
    /\ job = "create" => Cardinality(DOMAIN undo.tables) <= mem.cap

\* A file is not there or has one content, and .tmp is there only in Save
\* or after a crash in it.
Lone(S) == \A c, d \in S : c = d
FilesInv ==
    /\ Lone(disk.json) /\ Lone(disk.bak) /\ Lone(disk.tmp)
    /\ \A dir \in unsynced : Lone(dir.json) /\ Lone(dir.bak)
    /\ step \in {"idle", "write", "sync", "manifest"} => disk.tmp = {}

StepInv ==
    /\ step \in {"closed", "idle", "write", "bak", "target", "sync", "manifest"}
    /\ job \in Jobs /\ (job = "none" <=> step \in {"closed", "idle"})

CacheInv ==
    /\ DOMAIN plans \subseteq TableNames /\ IsFiniteSet(DOMAIN plans)
    /\ Cardinality(DOMAIN plans) <= PlanCacheMax

TypesInv == SafeInv /\ FieldsInv /\ FilesInv /\ StepInv /\ CacheInv

-----------------------------------------------------------------------------
(* Tables *)

LEMMA SetColumnTyped ==
    ASSUME NEW tab, IsTab(tab), IsSequence(tab.cols), ColsTyped(tab), Room(tab),
           NEW i \in DOMAIN tab.cols, NEW col \in ColumnSet
    PROVE  LET r == [tab EXCEPT !.cols = [tab.cols EXCEPT ![i] = col]]
           IN  ColsTyped(r) /\ Room(r)
<1> DEFINE cols == tab.cols
           new == [cols EXCEPT ![i] = col]
           r == [tab EXCEPT !.cols = new]
<1>1. r.cols = new /\ r.cap = tab.cap
  BY DEF IsTab
<1>2. Len(cols) \in Nat /\ DOMAIN cols = 1..Len(cols)
  BY SequenceLength
<1>3. DOMAIN new = DOMAIN cols /\ \A k \in DOMAIN cols : new[k] = IF k = i THEN col ELSE cols[k]
  OBVIOUS
<1>4. new = [k \in DOMAIN cols |-> new[k]]
  OBVIOUS
<1> HIDE DEF new, r
<1>5. \A k \in DOMAIN new : new[k] \in ColumnSet
  BY <1>3 DEF ColsTyped
<1> HIDE DEF cols
<1>6. new \in [1..Len(cols) -> ColumnSet]
  BY <1>2, <1>3, <1>4, <1>5
<1>7. Len(new) = Len(cols)
  BY <1>2, <1>6
<1>8. ColsTyped(r) /\ Room(r)
  BY <1>1, <1>5, <1>7 DEF ColsTyped, Room, cols
<1> QED BY <1>8 DEF r, new, cols

LEMMA AppendColumnTyped ==
    ASSUME NEW tab, IsSequence(tab.cols), ColsTyped(tab), Room(tab), NEW col \in ColumnSet, NEW new,
           new.cols = Append(tab.cols, col),
           new.cap = IF Len(tab.cols) = tab.cap THEN Grown(tab.cap) ELSE tab.cap
    PROVE  ColsTyped(new) /\ Room(new)
<1> DEFINE cols == tab.cols
<1>1. Len(cols) \in Nat /\ DOMAIN cols = 1..Len(cols)
  BY SequenceLength
<1>2. cols \in Seq(ColumnSet)
  <2>1. cols \in Seq({cols[i] : i \in DOMAIN cols})
    BY DEF IsSequence
  <2>2. cols = [i \in 1..Len(cols) |-> cols[i]]
    BY <1>1, <2>1
  <2>3. \A i \in 1..Len(cols) : cols[i] \in ColumnSet
    BY <1>1 DEF ColsTyped
  <2> HIDE DEF cols
  <2>4. cols \in [1..Len(cols) -> ColumnSet]
    BY <2>2, <2>3
  <2> QED BY <1>1, <2>4
<1>3. new.cols \in Seq(ColumnSet) /\ Len(new.cols) = Len(cols) + 1
  BY <1>2
<1>4. ColsTyped(new)
  BY <1>3 DEF ColsTyped
<1>5. tab.cap \in Nat /\ Len(cols) <= tab.cap
  BY DEF Room
<1> DEFINE n == Len(cols)
<1>6. new.cap \in Nat /\ n + 1 <= new.cap
  <2>1. n \in Nat /\ n <= tab.cap /\ new.cap = IF n = tab.cap THEN Grown(tab.cap) ELSE tab.cap
    BY <1>1, <1>5
  <2> HIDE DEF n
  <2> QED BY <1>5, <2>1 DEF Grown
<1> QED BY <1>3, <1>4, <1>6 DEF Room

LEMMA ColumnTyped ==
    ASSUME NEW t \in TableNames, NEW id \in Nat, NEW n \in ColumnNames, NEW type \in ColumnTypes, NEW g \in Nat
    PROVE  Column(t, id, n, type, g) \in ColumnSet
<1> DEFINE origin == <<t, n, g>>
<1>1. origin \in TableNames \X ColumnNames \X Nat
  OBVIOUS
<1>2. Column(t, id, n, type, g) = [id |-> id, name |-> n, type |-> type, live |-> TRUE, origin |-> origin]
  BY DEF Column
<1> HIDE DEF origin
<1> QED BY <1>1, <1>2 DEF ColumnSet

LEMMA BuiltTyped ==
    ASSUME NEW t \in TableNames, NEW id, NEW g \in Nat
    PROVE  ColsTyped(BuildTable(t, id, g)) /\ Room(BuildTable(t, id, g))
<1> DEFINE row == BuildTable(t, id, g)
           cols == [i \in DOMAIN FirstColumns |-> Column(t, i, FirstColumns[i], "int32", g)]
           n == Len(FirstColumns)
<1>1. row.cols = cols /\ row.cap = n
  BY DEF BuildTable
<1>2. n \in Nat /\ DOMAIN FirstColumns = 1..n /\ \A i \in 1..n : FirstColumns[i] \in ColumnNames
  BY FirstColumnsAssumption
<1> HIDE DEF n, row
<1>3. ASSUME NEW i \in 1..n PROVE cols[i] \in ColumnSet
  <2>1. cols[i] = Column(t, i, FirstColumns[i], "int32", g)
    BY <1>2
  <2>2. FirstColumns[i] \in ColumnNames /\ i \in Nat /\ "int32" \in ColumnTypes
    BY <1>2 DEF ColumnTypes, Scalars
  <2> QED BY <2>1, <2>2, ColumnTyped
<1>4. cols \in [1..n -> ColumnSet]
  BY <1>2, <1>3
<1> HIDE DEF cols
<1>5. Len(cols) = n /\ DOMAIN cols = 1..n
  BY <1>2, <1>4
<1>6. ColsTyped(row) /\ Room(row)
  BY <1>1, <1>2, <1>3, <1>5 DEF ColsTyped, Room
<1> QED BY <1>6 DEF row

-----------------------------------------------------------------------------
(* Catalogs and schemas *)

LEMMA NowTyped == ASSUME NEW m, MemTyped(m), mem' = m PROVE MemTyped(mem)'
BY DEF MemTyped, FileTyped, ColsTyped, Room

LEMMA UndoTyped == ASSUME NEW m, MemTyped(m), undo' = m PROVE MemTyped(undo)'
BY DEF MemTyped, FileTyped, ColsTyped, Room

LEMMA ContentTyped == ASSUME NEW m, MemTyped(m) PROVE FileTyped(Content(m))
<1>1. /\ DOMAIN Content(m).tables = DOMAIN m.tables /\ Content(m).gen = m.gen
      /\ Content(m).types = m.types
      /\ \A t \in DOMAIN m.tables : Content(m).tables[t].cols = m.tables[t].cols
  BY DEF Content
<1> QED BY <1>1 DEF MemTyped, FileTyped, ColsTyped

LEMMA OpenedTyped == ASSUME NEW c, FileTyped(c), CatalogOK(c) PROVE MemTyped(Opened(c))
<1> DEFINE o == Opened(c)
           tables == [t \in DOMAIN c.tables |->
                        [id |-> c.tables[t].id, next |-> c.tables[t].next,
                         cap |-> DecodedCap(Len(c.tables[t].cols)), cols |-> c.tables[t].cols]]
<1>1. /\ o.gen = c.gen /\ o.types = c.types /\ o.tables = tables /\ o.entry = tables
      /\ o.cap = DecodedCap(Cardinality(DOMAIN tables))
  BY DEF Opened
<1>2. DOMAIN tables = DOMAIN c.tables
      /\ \A t \in DOMAIN c.tables : /\ tables[t].cols = c.tables[t].cols
                                    /\ tables[t].cap = DecodedCap(Len(c.tables[t].cols))
  OBVIOUS
<1> HIDE DEF o, tables
<1>3. \A t \in DOMAIN c.tables : Len(c.tables[t].cols) \in Nat
  BY SequenceLength DEF CatalogOK, TablesOK, TabOK
<1>4. \A t \in DOMAIN c.tables : ColsTyped(tables[t]) /\ Room(tables[t])
  BY <1>2, <1>3, DecodedRoom DEF FileTyped, ColsTyped, Room
<1>5. Cardinality(DOMAIN c.tables) \in Nat
  BY FS_CardinalityType DEF FileTyped
<1>6. o.cap \in Nat /\ Cardinality(DOMAIN o.tables) <= o.cap
  BY <1>1, <1>2, <1>5, DecodedRoom
<1>7. FileTyped(o)
  BY <1>1, <1>2, <1>4 DEF FileTyped
<1>8. MemTyped(o)
  BY <1>1, <1>2, <1>4, <1>6, <1>7 DEF MemTyped
<1> QED BY <1>8 DEF o

LEMMA EmptyTyped == FileTyped(NewEmpty)
BY FS_EmptySet, CatalogAssumption DEF FileTyped, NewEmpty, NoTables

LEMMA LegacyTyped == ASSUME NEW t \in TableNames PROVE FileTyped(Migrated(LegacyCatalog(t)))
<1> DEFINE tab == BuildTable(t, 1, 1)
           tables == [u \in {t} |-> [id |-> 1, next |-> tab.next, cols |-> tab.cols]]
           c == Migrated(LegacyCatalog(t))
<1>1. ColsTyped(tab)
  BY BuiltTyped
<1>2. LegacyCatalog(t) = [NewEmpty EXCEPT !.format = 1, !.gen = 1, !.nextTable = 2, !.tables = tables]
  BY DEF LegacyCatalog
<1> HIDE DEF tab
<1>3. DOMAIN tables = {t} /\ ColsTyped(tables[t])
  BY <1>1 DEF ColsTyped
<1> HIDE DEF tables
<1>4. c.tables = tables /\ c.gen = 1 /\ c.types = {}
  BY <1>2 DEF Migrated, NewEmpty
<1> HIDE DEF c
<1>5. IsFiniteSet({t})
  BY FS_Singleton
<1>6. 1 \in 0..MaxGeneration
  BY CatalogAssumption
<1>7. FileTyped(c)
  BY <1>3, <1>4, <1>5, <1>6 DEF FileTyped
<1> QED BY <1>7 DEF c

-----------------------------------------------------------------------------
(* What DDL does to the types *)

LEMMA WithColumnTyped ==
    ASSUME IsSchema(mem), SchemaOK(mem), MemTyped(mem), mem.gen < MaxGeneration,
           NEW t \in DOMAIN mem.entry, NEW i \in DOMAIN mem.entry[t].cols, NEW col \in ColumnSet
    PROVE  MemTyped(WithColumn(t, i, col))
<1> DEFINE Set(tab) == [tab EXCEPT !.cols = [tab.cols EXCEPT ![i] = col]]
           entry == [mem.entry EXCEPT ![t] = Set(mem.entry[t])]
           both == t \in mem.shared /\ i \in DOMAIN mem.tables[t].cols
           tables == IF both THEN [mem.tables EXCEPT ![t] = Set(mem.tables[t])] ELSE mem.tables
           w == WithColumn(t, i, col)
<1>1. w = [mem EXCEPT !.gen = @ + 1, !.entry = entry, !.tables = tables]
  BY DEF WithColumn
<1>2. \A u \in DOMAIN mem.entry :
         /\ IsTab(mem.entry[u]) /\ IsTab(mem.tables[u])
         /\ IsSequence(mem.entry[u].cols) /\ IsSequence(mem.tables[u].cols)
         /\ ColsTyped(mem.entry[u]) /\ ColsTyped(mem.tables[u])
         /\ Room(mem.entry[u]) /\ Room(mem.tables[u])
  BY DEF IsSchema, SchemaOK, CatalogOK, TablesOK, TabOK, MemTyped, FileTyped
<1>3. ColsTyped(Set(mem.entry[t])) /\ Room(Set(mem.entry[t]))
  BY <1>2, SetColumnTyped
<1>4. both => ColsTyped(Set(mem.tables[t])) /\ Room(Set(mem.tables[t]))
  BY <1>2, SetColumnTyped
<1> HIDE DEF Set, w
<1>5. DOMAIN entry = DOMAIN mem.entry /\ DOMAIN tables = DOMAIN mem.entry /\ DOMAIN mem.tables = DOMAIN mem.entry
  BY DEF IsSchema
<1>6. \A u \in DOMAIN mem.entry : /\ entry[u] = IF u = t THEN Set(mem.entry[u]) ELSE mem.entry[u]
                                  /\ tables[u] = IF u = t /\ both THEN Set(mem.tables[u]) ELSE mem.tables[u]
  BY DEF IsSchema
<1> HIDE DEF entry, tables, both
<1>7. /\ w.entry = entry /\ w.tables = tables /\ w.gen = mem.gen + 1
      /\ w.types = mem.types /\ w.cap = mem.cap
  BY <1>1 DEF IsSchema, IsRecord
<1>8. \A u \in DOMAIN mem.entry : /\ ColsTyped(entry[u]) /\ Room(entry[u])
                                  /\ ColsTyped(tables[u]) /\ Room(tables[u])
  BY <1>2, <1>3, <1>4, <1>6
<1>9. w.gen \in 0..MaxGeneration
  BY <1>7, CatalogAssumption DEF MemTyped, FileTyped
<1>10. FileTyped(w)
  BY <1>5, <1>7, <1>8, <1>9 DEF MemTyped, FileTyped
<1>11. MemTyped(w)
  BY <1>5, <1>7, <1>8, <1>10 DEF MemTyped
<1> QED BY <1>11 DEF w

LEMMA AddedTyped ==
    ASSUME IsSchema(mem), SchemaOK(mem), MemTyped(mem), mem.gen < MaxGeneration,
           NEW t \in DOMAIN mem.entry, NEW n \in ColumnNames, NEW type \in ColumnTypes
    PROVE  MemTyped(Added(t, n, type, NextColumnId(mem.entry[t])))
<1> DEFINE old == mem.entry[t]
           id == NextColumnId(old)
           col == Column(t, id, n, type, mem.gen + 1)
           full == Len(old.cols) = old.cap
           tab == [old EXCEPT !.cols = Append(@, col), !.next = id + 1,
                              !.cap = IF full THEN Grown(@) ELSE @]
           entry == [mem.entry EXCEPT ![t] = tab]
           tables == IF t \in mem.inFile THEN [mem.tables EXCEPT ![t] = tab] ELSE mem.tables
           a == Added(t, n, type, id)
<1>1. PICK shared : a = [mem EXCEPT !.gen = @ + 1, !.entry = entry, !.tables = tables, !.shared = shared]
  BY DEF Added
<1>2. /\ tab.cols = Append(old.cols, col) /\ tab.cap = IF full THEN Grown(old.cap) ELSE old.cap
  BY DEF IsTab, IsSchema
<1>3. col \in ColumnSet
  <2>1. t \in TableNames /\ id \in Nat /\ mem.gen + 1 \in Nat
    BY CatalogAssumption DEF IsSchema, MemTyped, FileTyped, NextColumnId, SchemaOK, TabOK
  <2> QED BY <2>1, ColumnTyped
<1> HIDE DEF col, tab, a
<1>4. IsSequence(old.cols) /\ ColsTyped(old) /\ Room(old)
  BY DEF IsSchema, SchemaOK, TabOK, MemTyped
<1>5. ColsTyped(tab) /\ Room(tab)
  BY <1>2, <1>3, <1>4, AppendColumnTyped
<1>6. DOMAIN entry = DOMAIN mem.entry /\ DOMAIN tables = DOMAIN mem.entry /\ DOMAIN mem.tables = DOMAIN mem.entry
  BY DEF IsSchema
<1>7. \A u \in DOMAIN mem.entry :
         /\ entry[u] = IF u = t THEN tab ELSE mem.entry[u]
         /\ tables[u] = IF u = t /\ t \in mem.inFile THEN tab ELSE mem.tables[u]
  BY DEF IsSchema
<1> HIDE DEF entry, tables
<1>8. /\ a.entry = entry /\ a.tables = tables /\ a.gen = mem.gen + 1
      /\ a.types = mem.types /\ a.cap = mem.cap
  BY <1>1 DEF IsSchema, IsRecord
<1>9. \A u \in DOMAIN mem.entry : /\ ColsTyped(entry[u]) /\ Room(entry[u])
                                  /\ ColsTyped(tables[u]) /\ Room(tables[u])
  BY <1>5, <1>6, <1>7 DEF MemTyped, FileTyped
<1>10. a.gen \in 0..MaxGeneration
  BY <1>8, CatalogAssumption DEF MemTyped, FileTyped
<1>11. FileTyped(a)
  BY <1>6, <1>8, <1>9, <1>10 DEF MemTyped, FileTyped
<1>12. MemTyped(a)
  BY <1>6, <1>8, <1>9, <1>11 DEF MemTyped
<1> QED BY <1>12 DEF a

LEMMA RegisterTableTyped ==
    ASSUME IsSchema(mem), MemTyped(mem), NEW t \in TableNames, RegisterTable(t)
    PROVE  MemTyped(mem)' /\ Cardinality(DOMAIN mem.tables) <= mem'.cap
<1> DEFINE row == BuildTable(t, mem.nextTable, mem.gen + 1)
           full == Cardinality(DOMAIN mem.tables) = mem.cap
           With(f) == [u \in DOMAIN f \cup {t} |-> IF u = t THEN row ELSE f[u]]
           cap == IF full THEN Grown(mem.cap) ELSE mem.cap
<1>1. t \notin DOMAIN mem.entry /\ mem.gen < MaxGeneration
  BY DEF RegisterTable, CanRunDDL
<1>2. PICK inFile, shared :
        mem' = [mem EXCEPT !.gen = mem.gen + 1, !.nextTable = @ + 1,
                           !.tables = With(mem.tables), !.entry = With(mem.entry),
                           !.cap = cap, !.inFile = inFile, !.shared = shared]
  BY DEF RegisterTable, Begin
<1>3. mem.gen + 1 \in Nat /\ mem.gen + 1 \in 0..MaxGeneration
  BY <1>1, CatalogAssumption DEF MemTyped, FileTyped
<1>4. ColsTyped(row) /\ Room(row)
  BY <1>3, BuiltTyped
<1> HIDE DEF row
<1>5. cap \in Nat /\ Cardinality(DOMAIN mem.tables) \in Nat
      /\ Cardinality(DOMAIN mem.tables) <= cap /\ Cardinality(DOMAIN mem.tables) + 1 <= cap
  <2> DEFINE n == Cardinality(DOMAIN mem.tables)
  <2>1. n \in Nat /\ mem.cap \in Nat /\ n <= mem.cap
    BY FS_CardinalityType DEF MemTyped, FileTyped
  <2> HIDE DEF n
  <2>2. cap = IF n = mem.cap THEN Grown(mem.cap) ELSE mem.cap
    BY DEF n
  <2> HIDE DEF cap
  <2>3. cap \in Nat /\ n <= cap /\ n + 1 <= cap
    BY <2>1, <2>2 DEF Grown
  <2> QED BY <2>1, <2>3 DEF n
<1> HIDE DEF cap, full
<1>6. /\ mem'.tables = With(mem.tables) /\ mem'.entry = With(mem.entry) /\ mem'.cap = cap
      /\ mem'.gen = mem.gen + 1 /\ mem'.types = mem.types
  BY <1>2 DEF IsSchema, IsRecord
<1>7. /\ DOMAIN mem.tables = DOMAIN mem.entry
      /\ DOMAIN mem'.tables = DOMAIN mem.tables \cup {t}
      /\ \A u \in DOMAIN mem.tables \cup {t} :
            /\ mem'.tables[u] = IF u = t THEN row ELSE mem.tables[u]
            /\ mem'.entry[u] = IF u = t THEN row ELSE mem.entry[u]
  BY <1>6 DEF IsSchema
<1>8. /\ IsFiniteSet(DOMAIN mem'.tables)
      /\ Cardinality(DOMAIN mem'.tables) = Cardinality(DOMAIN mem.tables) + 1
  BY <1>1, <1>7, FS_AddElement DEF MemTyped, FileTyped
<1>9. \A u \in DOMAIN mem'.tables : /\ ColsTyped(mem'.tables[u]) /\ Room(mem'.tables[u])
                                    /\ ColsTyped(mem'.entry[u]) /\ Room(mem'.entry[u])
  BY <1>4, <1>7 DEF MemTyped, FileTyped
<1>10. FileTyped(mem')
  BY <1>3, <1>6, <1>7, <1>8, <1>9 DEF MemTyped, FileTyped
<1>11. MemTyped(mem')
  BY <1>5, <1>6, <1>8, <1>9, <1>10 DEF MemTyped
<1> QED BY <1>5, <1>6, <1>11, NowTyped

LEMMA RegisterTypeTyped ==
    ASSUME IsSchema(mem), MemTyped(mem), NEW n \in TypeNames, RegisterType(n)
    PROVE  MemTyped(mem)'
<1>1. mem' = [mem EXCEPT !.gen = @ + 1, !.types = @ \cup {n}] /\ mem.gen < MaxGeneration
  BY DEF RegisterType, Begin, CanRunDDL
<1>2. /\ mem'.tables = mem.tables /\ mem'.entry = mem.entry /\ mem'.cap = mem.cap
      /\ mem'.gen = mem.gen + 1 /\ mem'.types = mem.types \cup {n}
  BY <1>1 DEF IsSchema, IsRecord
<1>3. mem'.gen \in 0..MaxGeneration
  BY <1>1, <1>2, CatalogAssumption DEF MemTyped, FileTyped
<1> QED BY <1>2, <1>3 DEF MemTyped, FileTyped, ColsTyped, Room

LEMMA DDLTyped ==
    ASSUME PlanInv, SchemaOK(mem), MemTyped(mem), DDL
    PROVE  MemTyped(mem)' /\ (job' = "create" => Cardinality(DOMAIN undo'.tables) <= mem'.cap)
<1>1. IsSchema(mem)
  BY DEF PlanInv
<1>2. \A t \in DOMAIN mem.entry : ColsTyped(mem.entry[t])
  BY <1>1 DEF IsSchema, MemTyped
<1>3. ASSUME NEW t, NEW i, NEW col, Begin("alter", WithColumn(t, i, col)),
             MemTyped(WithColumn(t, i, col))
      PROVE  MemTyped(mem)' /\ job' # "create"
  BY <1>3, NowTyped DEF Begin
<1>4. ASSUME NEW t, NEW n, NEW to \in ColumnNames, RenameColumn(t, n, to)
      PROVE  MemTyped(mem)' /\ job' # "create"
  <2>1. PICK i \in Positions(mem.entry[t], n) :
           Begin("alter", WithColumn(t, i, [mem.entry[t].cols[i] EXCEPT !.name = to]))
    BY <1>4 DEF RenameColumn
  <2>2. t \in DOMAIN mem.entry /\ i \in DOMAIN mem.entry[t].cols /\ mem.gen < MaxGeneration
    BY <1>4 DEF RenameColumn, Positions, LivePositions, CanRunDDL
  <2>3. mem.entry[t].cols[i] \in ColumnSet
    BY <1>2, <2>2 DEF ColsTyped
  <2>4. [mem.entry[t].cols[i] EXCEPT !.name = to] \in ColumnSet
    BY <2>3 DEF ColumnSet
  <2> QED BY <1>1, <1>3, <2>1, <2>2, <2>4, WithColumnTyped
<1>5. ASSUME NEW t, NEW n, DropColumn(t, n) PROVE MemTyped(mem)' /\ job' # "create"
  <2>1. PICK i \in Positions(mem.entry[t], n) :
           Begin("alter", WithColumn(t, i, [mem.entry[t].cols[i] EXCEPT !.live = FALSE]))
    BY <1>5 DEF DropColumn
  <2>2. t \in DOMAIN mem.entry /\ i \in DOMAIN mem.entry[t].cols /\ mem.gen < MaxGeneration
    BY <1>5 DEF DropColumn, Positions, LivePositions, CanRunDDL
  <2>3. mem.entry[t].cols[i] \in ColumnSet
    BY <1>2, <2>2 DEF ColsTyped
  <2>4. [mem.entry[t].cols[i] EXCEPT !.live = FALSE] \in ColumnSet
    BY <2>3 DEF ColumnSet
  <2> QED BY <1>1, <1>3, <2>1, <2>2, <2>4, WithColumnTyped
<1>6. ASSUME NEW t, NEW n, NEW type \in ColumnTypes, AlterColumnType(t, n, type)
      PROVE  MemTyped(mem)' /\ job' # "create"
  <2>1. PICK i \in Positions(mem.entry[t], n) :
           Begin("alter", WithColumn(t, i, [mem.entry[t].cols[i] EXCEPT !.type = type]))
    BY <1>6 DEF AlterColumnType
  <2>2. t \in DOMAIN mem.entry /\ i \in DOMAIN mem.entry[t].cols /\ mem.gen < MaxGeneration
    BY <1>6 DEF AlterColumnType, Positions, LivePositions, CanRunDDL
  <2>3. mem.entry[t].cols[i] \in ColumnSet
    BY <1>2, <2>2 DEF ColsTyped
  <2>4. [mem.entry[t].cols[i] EXCEPT !.type = type] \in ColumnSet
    BY <2>3 DEF ColumnSet
  <2> QED BY <1>1, <1>3, <2>1, <2>2, <2>4, WithColumnTyped
<1>7. ASSUME NEW t, NEW n \in ColumnNames, NEW type \in {"int32"} \cup TypeNames, AddColumn(t, n, type)
      PROVE  MemTyped(mem)' /\ job' # "create"
  <2>1. t \in DOMAIN mem.entry /\ mem.gen < MaxGeneration /\ type \in ColumnTypes
        /\ Begin("alter", Added(t, n, type, NextColumnId(mem.entry[t])))
    BY <1>7 DEF AddColumn, CanRunDDL, ColumnTypes, Scalars
  <2>2. MemTyped(Added(t, n, type, NextColumnId(mem.entry[t])))
    BY <1>1, <2>1, AddedTyped
  <2> QED BY <2>1, <2>2, NowTyped DEF Begin
<1>8. ASSUME NEW t \in TableNames, RegisterTable(t)
      PROVE  MemTyped(mem)' /\ Cardinality(DOMAIN undo'.tables) <= mem'.cap
  BY <1>1, <1>8, RegisterTableTyped DEF RegisterTable, Begin
<1>9. ASSUME NEW n \in TypeNames, RegisterType(n) PROVE MemTyped(mem)' /\ job' # "create"
  BY <1>1, <1>9, RegisterTypeTyped DEF RegisterType, Begin
<1> QED BY <1>4, <1>5, <1>6, <1>7, <1>8, <1>9 DEF DDL

-----------------------------------------------------------------------------
(* The steps *)

LEMMA InitTyped == ASSUME CatalogInit PROVE FieldsInv /\ FilesInv /\ StepInv /\ CacheInv
<1>1. PICK found \in {{}} \cup {{LegacyCatalog(t)} : t \in TableNames} :
          /\ disk = [json |-> found, bak |-> {}, tmp |-> {}]
          /\ unsynced = {[json |-> found, bak |-> {}]}
          /\ acked = Loaded([json |-> found, bak |-> {}])
  BY DEF CatalogInit
<1>2. MemTyped(mem)
  BY OpenedTyped, EmptyTyped, EmptyOK, NowTyped DEF CatalogInit
<1>3. FileTyped(acked)
  <2>1. CASE found = {}
    BY <1>1, <2>1, EmptyTyped DEF Loaded, Found
  <2>2. CASE found # {}
    <3>1. PICK t \in TableNames : found = {LegacyCatalog(t)}
      BY <2>2
    <3>2. acked = Migrated(LegacyCatalog(t))
      BY <1>1, <3>1 DEF Loaded, Found
    <3> QED BY <3>2, LegacyTyped
  <2> QED BY <2>1, <2>2
<1>4. Known = {acked} /\ step = "closed" /\ job = "none" /\ DOMAIN plans = {}
  BY DEF CatalogInit, Known, NoTables
<1>5. FieldsInv
  BY <1>2, <1>3, <1>4 DEF FieldsInv, Saving
<1>6. FilesInv
  BY <1>1, <1>4 DEF FilesInv, Lone
<1>7. CacheInv
  BY <1>4, FS_EmptySet, CatalogAssumption DEF CacheInv
<1> QED BY <1>4, <1>5, <1>6, <1>7 DEF StepInv, Jobs

LEMMA DDLFields == ASSUME SafeInv, FieldsInv, DDL PROVE FieldsInv'
<1>1. PICK j, m : Begin(j, m)
  BY DEF DDL, RegisterType, RegisterTable, RenameColumn, DropColumn, AddColumn, AlterColumnType
<1>2. mem' = m /\ undo' = mem /\ Known' = Known \cup {Content(m)}
  BY <1>1 DEF Begin, Known
<1>3. MemTyped(mem)' /\ (job' = "create" => Cardinality(DOMAIN undo'.tables) <= mem'.cap)
  BY DDLTyped DEF SafeInv, FreshInv, ValidInv, FieldsInv
<1>4. MemTyped(m)
  BY <1>2, <1>3 DEF MemTyped, FileTyped, ColsTyped, Room
<1>5. MemTyped(undo)'
  BY <1>2, UndoTyped DEF FieldsInv
<1>6. \A c \in Known' : FileTyped(c)
  BY <1>2, <1>4, ContentTyped DEF FieldsInv
<1> QED BY <1>3, <1>5, <1>6 DEF FieldsInv

LEMMA StillFields ==
    ASSUME FieldsInv, UNCHANGED <<mem, undo, job>>, Known' \subseteq Known \cup {Content(mem)},
           Saving' => Saving
    PROVE  FieldsInv'
<1>1. MemTyped(mem)' /\ (MemTyped(undo) => MemTyped(undo)')
  BY NowTyped, UndoTyped DEF FieldsInv
<1>2. \A c \in Known' : FileTyped(c)
  BY ContentTyped DEF FieldsInv
<1> QED BY <1>1, <1>2 DEF FieldsInv

LEMMA ReturnedFields == ASSUME FieldsInv, Returned, mem' = mem PROVE FieldsInv'
<1>1. MemTyped(mem)'
  BY NowTyped DEF FieldsInv
<1>2. Known' = {Content(mem)} /\ ~Saving' /\ job' = "none"
  BY DEF Returned, Known, Saving
<1> QED BY <1>1, <1>2, ContentTyped DEF FieldsInv

LEMMA RolledBackTyped ==
    ASSUME FieldsInv, InDDL, Saving, mem' = RolledBack
    PROVE  MemTyped(mem)'
<1>1. job # "migrate"
  BY DEF InDDL, DDLJobs
<1>2. MemTyped(mem) /\ MemTyped(undo) /\ IsSchema(undo)
  BY <1>1 DEF FieldsInv, InDDL, Good
<1>3. CASE job \in {"alter", "type"}
  BY <1>2, <1>3, NowTyped DEF RolledBack
<1>4. CASE job = "create"
  <2> DEFINE r == [undo EXCEPT !.cap = mem.cap, !.entry = undo.tables,
                               !.inFile = DOMAIN undo.tables, !.shared = DOMAIN undo.tables]
  <2>1. /\ r.gen = undo.gen /\ r.tables = undo.tables /\ r.types = undo.types
        /\ r.entry = undo.tables /\ r.cap = mem.cap
    BY <1>2 DEF IsSchema, IsRecord
  <2>2. mem' = r
    BY <1>4 DEF RolledBack
  <2> HIDE DEF r
  <2>3. FileTyped(r)
    BY <1>2, <2>1 DEF MemTyped, FileTyped
  <2>4. mem.cap \in Nat /\ Cardinality(DOMAIN undo.tables) <= mem.cap
    BY <1>2, <1>4 DEF FieldsInv, MemTyped
  <2>5. \A t \in DOMAIN r.tables : Room(r.tables[t]) /\ ColsTyped(r.entry[t]) /\ Room(r.entry[t])
    BY <1>2, <2>1 DEF MemTyped, FileTyped
  <2>6. MemTyped(r)
    BY <2>1, <2>3, <2>4, <2>5 DEF MemTyped
  <2> QED BY <2>2, <2>6, NowTyped
<1>5. CASE job = "uncreate"
  BY <1>2, <1>5, NowTyped DEF RolledBack
<1> QED BY <1>3, <1>4, <1>5 DEF InDDL, DDLJobs

LEMMA ManifestFailsFields == ASSUME SafeInv, FieldsInv, ManifestFails PROVE FieldsInv'
<1>1. /\ step = "manifest" /\ mem' = RolledBack /\ undo' = undo /\ job' = "uncreate"
      /\ Known' = Known \cup {Content(mem')}
  BY DEF ManifestFails, Known
<1>2. Saving /\ job = "create" /\ InDDL
  BY <1>1 DEF SafeInv, FreshInv, PlanInv, Saving
<1>3. MemTyped(mem)'
  BY <1>1, <1>2, RolledBackTyped
<1>4. MemTyped(mem')
  BY <1>3 DEF MemTyped, FileTyped, ColsTyped, Room
<1>5. MemTyped(undo)'
  BY <1>1, <1>2, UndoTyped DEF FieldsInv
<1>6. \A c \in Known' : FileTyped(c)
  BY <1>1, <1>4, ContentTyped DEF FieldsInv
<1> QED BY <1>1, <1>3, <1>5, <1>6 DEF FieldsInv

LEMMA SaveFaultFields == ASSUME SafeInv, FieldsInv, SaveFault PROVE FieldsInv'
<1>1. /\ Saving /\ ~Saving' /\ Known' = Known /\ job' = "none"
      /\ IF job = "migrate" THEN mem' = Opened(NewEmpty) ELSE mem' = RolledBack
  BY DEF SaveFault, SaveFails, Saving, Known
<1>2. MemTyped(mem)'
  <2>1. CASE job = "migrate"
    BY <1>1, <2>1, OpenedTyped, EmptyTyped, EmptyOK, NowTyped
  <2>2. CASE job # "migrate"
    BY <1>1, <2>2, RolledBackTyped DEF SafeInv, FreshInv, PlanInv
  <2> QED BY <2>1, <2>2
<1>3. \A c \in Known' : FileTyped(c)
  BY <1>1 DEF FieldsInv
<1> QED BY <1>1, <1>2, <1>3 DEF FieldsInv

LEMMA StoppedFields == ASSUME FieldsInv, Stopped PROVE FieldsInv'
<1>1. mem' = Opened(NewEmpty) /\ Known' = Known /\ ~Saving' /\ job' = "none"
  BY DEF Stopped, Known, Saving
<1>2. MemTyped(mem)'
  BY <1>1, OpenedTyped, EmptyTyped, EmptyOK, NowTyped
<1>3. \A c \in Known' : FileTyped(c)
  BY <1>1 DEF FieldsInv
<1> QED BY <1>1, <1>2, <1>3 DEF FieldsInv

LEMMA OpenFields == ASSUME SafeInv, FieldsInv, OpenDB PROVE FieldsInv'
<1>1. /\ mem' = Opened(Loaded(Directory)) /\ Known' = Known
      /\ job' = "migrate" \/ (job' = "none" /\ ~Saving')
  BY DEF OpenDB, Known, Saving
<1>2. Loaded(Directory) \in Known
  BY DEF SafeInv, FreshInv, CrashInv, CrashLoadsAcknowledged, AfterCrash, Known
<1>3. FileTyped(Loaded(Directory)) /\ CatalogOK(Loaded(Directory))
  BY <1>2 DEF SafeInv, ValidInv, FieldsInv
<1>4. MemTyped(mem)'
  BY <1>1, <1>3, OpenedTyped, NowTyped
<1>5. \A c \in Known' : FileTyped(c)
  BY <1>1 DEF FieldsInv
<1> QED BY <1>1, <1>4, <1>5 DEF FieldsInv

LEMMA NextFields == ASSUME SafeInv, FieldsInv, [CatalogNext]_catalogVars PROVE FieldsInv'
<1>1. CASE WriteTmp \/ RenameToBak \/ RenameToTarget
  <2>1. UNCHANGED <<mem, undo, job>> /\ Known' = Known /\ Saving
    BY <1>1 DEF WriteTmp, RenameToBak, RenameToTarget, Unchanged, Known, Saving
  <2> QED BY <2>1, StillFields
<1>2. CASE SyncDirectory
  <2>1. CASE job = "create"
    <3>1. UNCHANGED <<mem, undo, job>> /\ Known' = Known /\ Saving
      BY <1>2, <2>1 DEF SyncDirectory, Known, Saving
    <3> QED BY <3>1, StillFields
  <2>2. CASE job # "create"
    BY <1>2, <2>2, ReturnedFields DEF SyncDirectory
  <2> QED BY <2>1, <2>2
<1>3. CASE OpenManifest
  BY <1>3, ReturnedFields DEF OpenManifest
<1>4. CASE UNCHANGED catalogVars \/ \E t \in TableNames : Query(t) \/ Insert(t)
  <2>1. UNCHANGED <<mem, undo, job, step>> /\ Known' = Known
    BY <1>4 DEF catalogVars, Query, Insert, Known
  <2>2. Saving' => Saving
    BY <2>1 DEF Saving
  <2> QED BY <2>1, <2>2, StillFields
<1>5. CASE ProcessStop \/ LosePower
  BY <1>5, StoppedFields DEF ProcessStop, LosePower
<1> QED BY <1>1, <1>2, <1>3, <1>4, <1>5, DDLFields, SaveFaultFields, ManifestFailsFields,
           OpenFields DEF CatalogNext, Save

LEMMA NextFiles == ASSUME SafeInv, FilesInv, [CatalogNext]_catalogVars PROVE FilesInv'
<1>1. disk = [json |-> disk.json, bak |-> disk.bak, tmp |-> disk.tmp]
  BY DEF SafeInv, FreshInv, CrashInv, Shape
<1>2. CASE WriteTmp
  BY <1>1, <1>2 DEF WriteTmp, FilesInv, Lone
<1>3. CASE RenameToBak
  <2>1. disk' = disk \/ /\ disk'.bak = disk.json /\ disk'.json = {} /\ disk'.tmp = disk.tmp
    BY <1>1, <1>3 DEF RenameToBak
  <2>2. /\ unsynced' = unsynced \cup {[json |-> disk'.json, bak |-> disk'.bak]} /\ step' = "target"
    BY <1>3 DEF RenameToBak, Directory
  <2> QED BY <2>1, <2>2 DEF FilesInv, Lone
<1>4. CASE RenameToTarget
  <2>1. disk'.bak = disk.bak /\ disk'.json = disk.tmp /\ disk'.tmp = {}
    BY <1>1, <1>4 DEF RenameToTarget
  <2>2. /\ unsynced' = unsynced \cup {[json |-> disk'.json, bak |-> disk'.bak]}
    BY <1>4 DEF RenameToTarget, Directory
  <2> QED BY <2>1, <2>2 DEF FilesInv, Lone
<1>5. CASE SyncDirectory
  <2>1. disk' = disk /\ unsynced' = {[json |-> disk.json, bak |-> disk.bak]} /\ step = "sync"
    BY <1>5 DEF SyncDirectory, Directory
  <2> QED BY <2>1 DEF FilesInv, Lone
<1>6. CASE SaveFault \/ OpenDB
  <2>1. unsynced' = unsynced /\ disk'.json = disk.json /\ disk'.bak = disk.bak /\ disk'.tmp = {}
    BY <1>1, <1>6 DEF SaveFault, OpenDB, SweepTmp
  <2> QED BY <2>1 DEF FilesInv, Lone
<1>7. CASE LosePower
  <2>1. PICK dir \in AfterCrash :
           /\ disk' = [json |-> dir.json, bak |-> dir.bak, tmp |-> disk.tmp]
           /\ unsynced' = {dir} /\ step' = "closed"
    BY <1>7 DEF LosePower, Stopped
  <2>2. Lone(dir.json) /\ Lone(dir.bak)
    BY <2>1 DEF AfterCrash, Directory, FilesInv
  <2> QED BY <2>1, <2>2 DEF FilesInv
<1>8. CASE \/ DDL \/ OpenManifest \/ ManifestFails \/ ProcessStop \/ UNCHANGED catalogVars
           \/ \E t \in TableNames : Query(t) \/ Insert(t)
  <2>1. UNCHANGED <<disk, unsynced>>
    <3>1. CASE DDL
      BY <3>1, DDLChanges
    <3> QED BY <1>8, <3>1 DEF OpenManifest, ManifestFails, ProcessStop, catalogVars, Query, Insert
  <2>2. step' = step \/ step' = "closed" \/ step \in {"idle", "manifest"}
    <3>1. CASE DDL
      BY <3>1, DDLChanges
    <3> QED BY <1>8, <3>1 DEF OpenManifest, ManifestFails, ProcessStop, Stopped, catalogVars, Query, Insert
  <2> QED BY <2>1, <2>2 DEF FilesInv, Lone
<1> QED BY <1>2, <1>3, <1>4, <1>5, <1>6, <1>7, <1>8 DEF CatalogNext, Save

LEMMA NextStep == ASSUME SafeInv, StepInv, [CatalogNext]_catalogVars PROVE StepInv'
<1>1. CASE DDL
  <2>1. PICK j, m : j \in DDLJobs /\ Begin(j, m)
    BY <1>1, DDLBegins DEF DDLBegun, SafeInv, FreshInv, PlanInv
  <2> QED BY <2>1 DEF Begin, StepInv, DDLJobs, Jobs
<1>2. CASE Save
  BY <1>2 DEF Save, WriteTmp, RenameToBak, RenameToTarget, SyncDirectory, SaveFault, SaveFails, Returned,
              Unchanged, StepInv, Jobs
<1>3. CASE OpenManifest \/ ManifestFails \/ ProcessStop \/ LosePower \/ OpenDB
  BY <1>3 DEF OpenManifest, ManifestFails, ProcessStop, LosePower, OpenDB, Returned, Stopped, StepInv, Jobs
<1>4. CASE UNCHANGED catalogVars \/ \E t \in TableNames : Query(t) \/ Insert(t)
  BY <1>4 DEF catalogVars, Query, Insert, StepInv
<1> QED BY <1>1, <1>2, <1>3, <1>4 DEF CatalogNext

\* A full plan cache drops a plan before it takes one.
LEMMA QueryCache == ASSUME CacheInv, NEW t \in TableNames, Query(t) PROVE CacheInv'
<1> DEFINE D == DOMAIN plans
<1>1. PICK out \in IF Cardinality(D) >= PlanCacheMax THEN D ELSE {t} : DOMAIN plans' = (D \ {out}) \cup {t}
  BY DEF Query
<1>2. D \subseteq TableNames /\ IsFiniteSet(D) /\ Cardinality(D) <= PlanCacheMax
  BY DEF CacheInv
<1> HIDE DEF D
<1>3. /\ IsFiniteSet(D \ {out}) /\ Cardinality(D) \in Nat /\ Cardinality(D \ {out}) \in Nat
      /\ Cardinality(D \ {out}) = IF out \in D THEN Cardinality(D) - 1 ELSE Cardinality(D)
  BY <1>2, FS_RemoveElement, FS_CardinalityType
<1>4. /\ IsFiniteSet((D \ {out}) \cup {t})
      /\ Cardinality((D \ {out}) \cup {t}) <= Cardinality(D \ {out}) + 1
  <2>1. /\ IsFiniteSet((D \ {out}) \cup {t})
        /\ Cardinality((D \ {out}) \cup {t}) = IF t \in D \ {out} THEN Cardinality(D \ {out})
                                              ELSE Cardinality(D \ {out}) + 1
    BY <1>3, FS_AddElement
  <2> DEFINE n == Cardinality(D \ {out})
             m == Cardinality((D \ {out}) \cup {t})
  <2>2. n \in Nat /\ (m = n \/ m = n + 1)
    BY <1>3, <2>1
  <2> HIDE DEF n, m
  <2>3. m <= n + 1
    BY <2>2
  <2> QED BY <2>1, <2>3 DEF n, m
<1>5. Cardinality((D \ {out}) \cup {t}) <= PlanCacheMax
  <2> DEFINE n == Cardinality(D)
             r == Cardinality(D \ {out})
             m == Cardinality((D \ {out}) \cup {t})
  <2>1. n \in Nat /\ r \in Nat /\ m \in Nat /\ m <= r + 1 /\ PlanCacheMax \in Nat /\ n <= PlanCacheMax
    BY <1>2, <1>3, <1>4, FS_CardinalityType, CatalogAssumption
  <2>2. n < PlanCacheMax \/ out \in D
    <3>1. n >= PlanCacheMax \/ n < PlanCacheMax
      BY <2>1
    <3> QED BY <1>1, <3>1
  <2>3. r = n - 1 \/ (r = n /\ out \notin D)
    BY <1>3
  <2> HIDE DEF n, r, m
  <2>4. m <= PlanCacheMax
    BY <2>1, <2>2, <2>3
  <2> QED BY <2>4 DEF m
<1> QED BY <1>1, <1>2, <1>4, <1>5 DEF CacheInv

LEMMA NextCache == ASSUME CacheInv, [CatalogNext]_catalogVars PROVE CacheInv'
<1>1. ASSUME DOMAIN plans' = {} PROVE CacheInv'
  BY <1>1, FS_EmptySet, CatalogAssumption DEF CacheInv
<1>2. CASE ProcessStop \/ LosePower
  BY <1>1, <1>2 DEF ProcessStop, LosePower, Stopped, NoTables
<1>3. CASE \E t \in TableNames : Query(t)
  BY <1>3, QueryCache
<1>4. CASE plans' = plans
  BY <1>4 DEF CacheInv
<1>5. CASE DDL
  BY <1>4, <1>5, DDLChanges
<1>6. CASE Save
  <2>1. plans' = plans
    BY <1>6 DEF Save, WriteTmp, RenameToBak, RenameToTarget, Unchanged, SyncDirectory, SaveFault, SaveFails
  <2> QED BY <1>4, <2>1
<1>7. CASE OpenManifest \/ ManifestFails \/ OpenDB \/ \E t \in TableNames : Insert(t)
  <2>1. plans' = plans
    BY <1>7 DEF OpenManifest, ManifestFails, OpenDB, Insert
  <2> QED BY <1>4, <2>1
<1>8. CASE UNCHANGED catalogVars
  BY <1>4, <1>8 DEF catalogVars
<1> QED BY <1>2, <1>3, <1>5, <1>6, <1>7, <1>8 DEF CatalogNext

-----------------------------------------------------------------------------
LEMMA LoneCount == ASSUME NEW S, Lone(S) PROVE Cardinality(S) <= 1
<1>1. S = {} \/ \E c : S = {c}
  BY DEF Lone
<1>2. Cardinality(S) = 0 \/ Cardinality(S) = 1
  BY <1>1, FS_EmptySet, FS_Singleton
<1> QED BY <1>2

\* The catalog keeps its types, every array has room for its elements, and the
\* files are those of Save, for any tables, columns and types.
THEOREM CatalogTypes == CatalogSpec => []CatalogTypeOK
<1>1. CatalogInit => TypesInv
  BY InitCrashInv, InitPlanInv, InitValidInv, InitTyped DEF TypesInv, SafeInv, FreshInv
<1>2. TypesInv /\ [CatalogNext]_catalogVars => TypesInv'
  BY NextCrashInv, NextPlanInv, NextValidInv, NextFields, NextFiles, NextStep, NextCache
     DEF TypesInv, SafeInv, FreshInv
<1>3. TypesInv => CatalogTypeOK
  <2> SUFFICES ASSUME TypesInv PROVE CatalogTypeOK
    OBVIOUS
  <2>1. IsSchema(mem) /\ SchemaOK(mem) /\ MemTyped(mem) /\ Progress
    BY DEF TypesInv, SafeInv, FreshInv, CrashInv, PlanInv, ValidInv, FieldsInv
  <2>2. /\ mem.gen \in 0 .. MaxGeneration /\ mem.types \subseteq TypeNames
        /\ DOMAIN mem.tables = DOMAIN mem.entry
        /\ DOMAIN mem.tables \subseteq TableNames
        /\ mem.inFile \subseteq mem.shared /\ mem.shared \subseteq DOMAIN mem.tables
        /\ Cardinality(DOMAIN mem.tables) <= mem.cap
    BY <2>1 DEF IsSchema, MemTyped, FileTyped
  <2>3. ASSUME NEW t \in DOMAIN mem.tables
        PROVE  /\ IsTable(mem.tables[t]) /\ Len(mem.tables[t].cols) <= mem.tables[t].cap
               /\ IsTable(mem.entry[t]) /\ Len(mem.entry[t].cols) <= mem.entry[t].cap
    <3>1. mem.tables[t].id \in Nat \ {0} /\ mem.entry[t].id = mem.tables[t].id
      BY <2>1, <2>2 DEF SchemaOK, CatalogOK, TablesOK, IsSchema
    <3>2. mem.tables[t].next \in Nat /\ mem.entry[t].next \in Nat
      BY <2>1, <2>2 DEF SchemaOK, CatalogOK, TablesOK, TabOK
    <3> QED BY <2>1, <3>1, <3>2 DEF IsTable, MemTyped, FileTyped, ColsTyped, Room
  <2>4. \A f \in {"json", "bak", "tmp"} : Cardinality(disk[f]) <= 1
    BY LoneCount DEF TypesInv, FilesInv
  <2>5. /\ step = "target" => disk.json = {} /\ disk.tmp # {}
        /\ step = "idle" /\ failures = 0 => disk.tmp = {}
    BY <2>1 DEF Progress, TypesInv, FilesInv
  <2> QED BY <2>2, <2>3, <2>4, <2>5 DEF CatalogTypeOK, TypesInv, StepInv, CacheInv
<1> QED BY <1>1, <1>2, <1>3, PTL DEF CatalogSpec

=============================================================================
