------------------------------ MODULE WalFile ------------------------------
(***************************************************************************)
(* The bytes of the write-ahead log, in halves of a page: a header page,   *)
(* then frames padded to whole pages, each checksummed. What is modelled   *)
(* is what appends, failures, truncations, crashes and replays do to these *)
(* bytes, and to the offset the handle writes at.                          *)
(*                                                                         *)
(* A write reaches the file half by half, and after a power loss the file  *)
(* has some content it had since the last fsync. A content that ends in    *)
(* the middle of a page is one of them; what OpenWAL then does is followed *)
(* too, but the promise of DurableLog is only made for files of whole      *)
(* pages.                                                                  *)
(***************************************************************************)
EXTENDS Naturals, Sequences, FiniteSetsExt

CONSTANTS
    Sizes,     \* the lengths of records, in halves, frame and checksum included
    MaxAppends \* bound: appends

SizesAssumption == Sizes \subseteq Nat \ {0} /\ MaxAppends \in Nat

VARIABLES
    wal,       \* the halves of the file, as the kernel shows them
    durable,   \* the contents a power loss may leave it with
    walSize,   \* WAL.size
    walHandle, \* "open", "closed", or "refused" when OpenWAL returned an error
    acked,     \* history: the records the running process replayed or appended
    ragged,    \* history: OpenWAL found a file that did not end with a page
    appends

walVars == <<wal, durable, walSize, walHandle, acked, ragged, appends>>

Page == 2
Magic == [id |-> 0, size |-> 0, part |-> 2] \* the first half of the header page
Zero == [id |-> 0, size |-> 0, part |-> 0]  \* padding

WalRecord == [id : 1..MaxAppends, size : Sizes]
Padded(n) == n + ((Page - (n % Page)) % Page)
Half(r, i) == IF i <= r.size THEN [id |-> r.id, size |-> r.size, part |-> i] ELSE Zero

\* The frame of a record, and the header page.
Frame(r) == [i \in 1..Padded(r.size) |-> Half(r, i)]
HeaderPage == <<Magic, Zero>>

-----------------------------------------------------------------------------
(* Reading *)

\* readFrame: a frame begins at pos if what is there is the beginning of one and
\* all of it follows, to its checksum. The padding is not looked at.
FrameAt(content, pos) ==
    /\ pos < Len(content) /\ content[pos + 1].part = 1
    /\ pos + content[pos + 1].size <= Len(content)
    /\ \A i \in 1..content[pos + 1].size :
          content[pos + i] = [content[pos + 1] EXCEPT !.part = i]

RecordAt(content, pos) == [id |-> content[pos + 1].id, size |-> content[pos + 1].size]

HasHeader(content) == Len(content) >= Page /\ content[1] = Magic

\* What a replay reads from each position on: the records, and where it ends,
\* with a last record whose padding is missing, beyond the file.
Readings(content) ==
    LET from[pos \in 0..(Len(content) + 1)] ==
            IF FrameAt(content, pos)
            THEN LET rest == from[pos + Padded(content[pos + 1].size)]
                 IN  [rest EXCEPT !.records = <<RecordAt(content, pos)>> \o @]
            ELSE [records |-> <<>>, end |-> pos]
    IN  from

Replayed(content) == IF HasHeader(content) THEN Readings(content)[Page].records ELSE <<>>
EndOfReplay(content) == Readings(content)[Page].end

-----------------------------------------------------------------------------
(* Writing *)

\* WriteAt of the first k halves, and Truncate. Both may make a file longer.
WriteAt(content, pos, halves, k) ==
    [i \in 1..Max({pos + k, Len(content)}) |->
        CASE i > pos /\ i <= pos + k -> halves[i - pos]
          [] i <= pos /\ i > Len(content) -> Zero
          [] OTHER -> content[i]]

Truncated(content, n) == [i \in 1..n |-> IF i <= Len(content) THEN content[i] ELSE Zero]

\* The contents a write of k halves goes through.
OnTheWay(content, pos, halves, k) == {WriteAt(content, pos, halves, j) : j \in 0..k}

-----------------------------------------------------------------------------
(* Operations *)

WalInit == /\ wal = <<>> /\ durable = {<<>>} /\ walSize = 0
           /\ walHandle = "closed" /\ acked = <<>> /\ ragged = FALSE /\ appends = 0

\* OpenWAL of a file without a header: it is created, or was and no more.
OpenEmpty ==
    /\ walHandle = "closed" /\ wal = <<>>
    /\ wal' = HeaderPage /\ durable' = {HeaderPage} /\ walSize' = Page /\ walHandle' = "open"
    /\ UNCHANGED <<acked, ragged, appends>>

\* The header is not written to its end, or not synced.
OpenEmptyFails(k) ==
    /\ walHandle = "closed" /\ wal = <<>>
    /\ wal' = SubSeq(HeaderPage, 1, k)
    /\ durable' = durable \cup OnTheWay(<<>>, 0, HeaderPage, k)
    /\ UNCHANGED <<walSize, walHandle, acked, ragged, appends>>

EndsInPage(content) == Len(content) % Page # 0

\* A header that is cut short is cut off, and the handle is good.
OpenShort ==
    /\ walHandle = "closed" /\ Len(wal) \in 1..(Page - 1)
    /\ wal' = <<>> /\ durable' = durable \cup {<<>>} /\ walSize' = 0 /\ walHandle' = "open"
    /\ ragged' = TRUE
    /\ UNCHANGED <<acked, appends>>

OpenRefused ==
    /\ walHandle = "closed" /\ Len(wal) >= Page /\ ~HasHeader(wal)
    /\ walHandle' = "refused" /\ ragged' = (ragged \/ EndsInPage(wal))
    /\ UNCHANGED <<wal, durable, walSize, acked, appends>>

\* Mutant: the records end where the file ends.
ReplayBug ==
    /\ walHandle = "closed" /\ HasHeader(wal)
    /\ walSize' = Len(wal) /\ walHandle' = "open"
    /\ acked' = Replayed(wal) /\ ragged' = (ragged \/ EndsInPage(wal))
    /\ UNCHANGED <<wal, durable, appends>>

\* Replay, which cuts off what follows the last good frame.
Replay ==
    /\ walHandle = "closed" /\ HasHeader(wal)
    /\ IF EndOfReplay(wal) < Len(wal)
       THEN /\ wal' = Truncated(wal, EndOfReplay(wal))
            /\ durable' = durable \cup {wal'} /\ walSize' = Len(wal')
       ELSE walSize' = Len(wal) /\ UNCHANGED <<wal, durable>>
    /\ walHandle' = "open"
    /\ acked' = Replayed(wal) /\ ragged' = (ragged \/ EndsInPage(wal))
    /\ UNCHANGED appends

MayAppend == walHandle = "open" /\ appends < MaxAppends /\ appends' = appends + 1
NextRecord(n) == [id |-> appends + 1, size |-> n]

AppendFrame(n, sync) ==
    /\ MayAppend
    /\ LET frame == Frame(NextRecord(n))
       IN /\ wal' = WriteAt(wal, walSize, frame, Len(frame))
          /\ durable' = IF sync THEN {wal'} ELSE durable \cup OnTheWay(wal, walSize, frame, Len(frame))
          /\ walSize' = walSize + Len(frame)
    /\ acked' = Append(acked, NextRecord(n))
    /\ UNCHANGED <<walHandle, ragged>>

\* Mutant: the offset moves before the write is known to be good.
AppendFailsBug(n, k) ==
    /\ MayAppend
    /\ LET frame == Frame(NextRecord(n))
       IN /\ wal' = WriteAt(wal, walSize, frame, k)
          /\ durable' = durable \cup OnTheWay(wal, walSize, frame, k)
          /\ walSize' = walSize + Len(frame)
    /\ UNCHANGED <<walHandle, acked, ragged>>

\* WriteAt fails after k halves, or the fsync after all of them.
AppendFails(n, k) ==
    /\ MayAppend
    /\ LET frame == Frame(NextRecord(n))
       IN /\ wal' = WriteAt(wal, walSize, frame, k)
          /\ durable' = durable \cup OnTheWay(wal, walSize, frame, k)
    /\ UNCHANGED <<walSize, walHandle, acked, ragged>>

\* Mutant: the file is emptied.
TruncateBug ==
    /\ walHandle = "open" /\ walSize # Page
    /\ wal' = <<>> /\ durable' = durable \cup {wal'} /\ walSize' = 0
    /\ acked' = <<>>
    /\ UNCHANGED <<walHandle, ragged, appends>>

\* Not synced; an empty log is left alone, with what a failed append left in it.
TruncateToHeader ==
    /\ walHandle = "open" /\ walSize # Page
    /\ wal' = Truncated(wal, Page) /\ durable' = durable \cup {wal'} /\ walSize' = Page
    /\ acked' = <<>>
    /\ UNCHANGED <<walHandle, ragged, appends>>

\* Close, or the end of the process.
Stop == /\ walHandle = "open"
        /\ walHandle' = "closed" /\ walSize' = 0 /\ acked' = <<>>
        /\ UNCHANGED <<wal, durable, ragged, appends>>

PowerLoss(content) ==
    /\ wal' = content /\ durable' = {content}
    /\ walHandle' = "closed" /\ walSize' = 0 /\ acked' = <<>>
    /\ UNCHANGED <<ragged, appends>>

WalNext == \/ OpenEmpty \/ OpenShort \/ OpenRefused \/ Replay
           \/ \E k \in 0..Page : OpenEmptyFails(k)
           \/ \E n \in Sizes, sync \in BOOLEAN : AppendFrame(n, sync)
           \/ \E n \in Sizes : \E k \in 0..Padded(n) : AppendFails(n, k)
           \/ TruncateToHeader \/ Stop
           \/ \E content \in durable : PowerLoss(content)

WalSpec == WalInit /\ [][WalNext]_walVars

-----------------------------------------------------------------------------
(* Properties *)

Halves == {Magic, Zero} \cup UNION {{Half(r, i) : i \in 1..r.size} : r \in WalRecord}

\* The handle writes within the file, or right behind it, and what the kernel
\* shows is what a power loss may leave.
WalTypeOK == /\ wal \in Seq(Halves) /\ durable \subseteq Seq(Halves) /\ wal \in durable
             /\ walSize \in 0..Len(wal) /\ walHandle \in {"open", "closed", "refused"}
             /\ acked \in Seq(WalRecord) /\ ragged \in BOOLEAN /\ appends \in 0..MaxAppends

\* A log that was always found in whole pages is never refused by OpenWAL.
OpenAccepts == walHandle = "refused" => ragged

Log == INSTANCE DurableLog WITH
           Records <- WalRecord,
           log <- IF walHandle = "open" THEN acked ELSE Replayed(wal),
           kernel <- Replayed(wal),
           disk <- {Replayed(content) : content \in durable},
           sound <- ~ragged

\* The file behaves as a durable log: nothing that was acknowledged and synced
\* is lost, in whatever way appends, truncations and restarts follow each other.
ImplementsDurableLog == Log!Spec
=============================================================================
