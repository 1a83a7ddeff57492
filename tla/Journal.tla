------------------------------- MODULE Journal -------------------------------
(***************************************************************************)
(* The JSONL journal with its rotated archives (persistence/journal.py),    *)
(* the state snapshot that names a position in it                           *)
(* (persistence/snapshot_store.py), and the restart that rebuilds the state *)
(* from both (recover_from_snapshot in engine/recovery.py).                 *)
(*                                                                         *)
(* A fact is whatever one record changes in the state; facts are numbered   *)
(* in the order they are recorded.  A record takes two cells of a file, the *)
(* second with its newline, so that a file can end in the middle of one.    *)
(***************************************************************************)
EXTENDS Naturals, FiniteSets, Sequences, SequencesExt

CONSTANTS
    FileCells,      \* max_bytes, in cells
    ArchiveLimit,   \* archive_count
    Inodes,         \* inode numbers; a free one may be used again
    MaxFacts,       \* bound: facts ever recorded
    SnapshotEvery,  \* bound: facts recorded between two snapshots
    FirstRecords,   \* bound: facts recorded before the first snapshot
    Flushes,        \* whether records are appended with fsync, without, or both
    PowerFails,     \* the machine may stop, not only the process
    RotationTorn,   \* the process may stop between two renames
    ArchivesExpire  \* archives may be older than the retention

ASSUME SizeAssumption == FileCells \in Nat /\ FileCells >= 2
ASSUME ArchiveAssumption == ArchiveLimit \in Nat \ {0}
ASSUME BoundAssumption == {MaxFacts, SnapshotEvery, FirstRecords} \subseteq Nat
\* start() writes a snapshot once it has read a venue's fees (runtime.py:2126)
\* and every iteration of the loop ends with one (runtime.py:5033). What is
\* recorded before the first fits into the live file, and between two into the
\* archives (by default six files of 128 MiB, config/schema.py:309).
ASSUME CadenceAssumption ==
    /\ SnapshotEvery <= ArchiveLimit * (FileCells \div 2)
    /\ FirstRecords <= FileCells \div 2
ASSUME FaultAssumption == {PowerFails, RotationTorn, ArchivesExpire} \cup Flushes \subseteq BOOLEAN

None == [none |-> TRUE]
Slots == 0..ArchiveLimit        \* 0 is the live file, i the archive ".i"

VARIABLES
    slots,      \* the files: inode, cells, how many of the cells are on disk
    snapshot,   \* the state it holds and its journal_checkpoint
    facts,      \* the state in memory
    running,
    count,      \* facts recorded so far
    since,      \* facts recorded since the snapshot
    critical,   \* facts recorded by append_critical
    intact      \* history: no file was lost, torn or left out of order so far

journalVars == <<slots, snapshot, facts, running, count, since, critical, intact>>

File(inode) == [inode |-> inode, cells |-> <<>>, synced |-> 0]
There(s, i) == s[i] # None
Cells(s, i) == IF There(s, i) THEN s[i].cells ELSE <<>>
InodesOf(s) == {s[i].inode : i \in {j \in Slots : There(s, j)}}

-----------------------------------------------------------------------------
(* Reading.  A line is parsed when it is one whole record; other lines are  *)
(* skipped.                                                                 *)

Half(c, h, f) == c = [fact |-> f, half |-> h]
LineAt(cells, i) ==
    /\ i >= 2
    /\ Half(cells[i], 2, cells[i].fact)
    /\ Half(cells[i - 1], 1, cells[i].fact)
    /\ i > 2 => cells[i - 2].half = 2

ParsedLines(cells) ==
    FlattenSeq([i \in DOMAIN cells |-> IF LineAt(cells, i) THEN <<cells[i].fact>> ELSE <<>>])

\* The slots of a contiguous chain, oldest first, and then the live file.
RetainedOldestFirst(s) ==
    LET archives == {i \in Slots \ {0} : There(s, i)}
    IN  IF archives = 1..Cardinality(archives)
        THEN [k \in 1..(Cardinality(archives) + 1) |-> Cardinality(archives) + 1 - k]
        ELSE <<>>

\* Whether read_after_snapshot_checkpoint takes the file in slot i for the one
\* the checkpoint names, and can read on from there.
Holds(s, i, checkpoint) ==
    /\ There(s, i)
    /\ s[i].inode = checkpoint.inode
    /\ checkpoint.offset <= Len(s[i].cells)

Provable(s, checkpoint) ==
    \E k \in DOMAIN RetainedOldestFirst(s) :
        Holds(s, RetainedOldestFirst(s)[k], checkpoint)

\* (Mutant of TailAfter: the files written after the checkpoint are not read.)
TailOfOneFile(s, checkpoint) ==
    LET here == CHOOSE i \in Slots : Holds(s, i, checkpoint)
    IN  ParsedLines(SubSeq(Cells(s, here), checkpoint.offset + 1, Len(Cells(s, here))))

TailAfter(s, checkpoint) ==
    LET here == CHOOSE i \in Slots : Holds(s, i, checkpoint)
        later == [k \in 1..here |-> ParsedLines(Cells(s, here - k))]
    IN  ParsedLines(SubSeq(Cells(s, here), checkpoint.offset + 1, Len(Cells(s, here))))
            \o FlattenSeq(later)

\* recover_from_snapshot: the live file when there is no snapshot, otherwise
\* the snapshot and the tail after its checkpoint, when that can be found.
Recovered(s, snap) ==
    IF snap = None
    THEN ParsedLines(Cells(s, 0))
    ELSE snap.facts \o (IF Provable(s, snap.checkpoint)
                        THEN TailAfter(s, snap.checkpoint) ELSE <<>>)

-----------------------------------------------------------------------------
(* Writing.                                                                 *)

\* Rotation after n of its renames: the oldest archive is unlinked first, and
\* the live file is the last to move.
Shifted(s, n) ==
    [i \in Slots |-> IF i > ArchiveLimit - n THEN s[i - 1]
                     ELSE IF i = ArchiveLimit - n THEN None
                     ELSE s[i]]

\* _prune_expired_archives: archives expire from the oldest on.
Pruned(s) ==
    {[i \in Slots |-> IF i > keep THEN None ELSE s[i]] :
        keep \in IF ArchivesExpire THEN Slots ELSE {ArchiveLimit}}

RotationDue(s) == Len(s[0].cells) > 0 /\ Len(s[0].cells) + 2 > FileCells

\* The files a record may be written to, the live one fresh after a rotation.
Writable(s) ==
    IF RotationDue(s)
    THEN {[p EXCEPT ![0] = File(n)] :
            p \in Pruned(Shifted(s, ArchiveLimit)),
            n \in {m \in Inodes : m \notin InodesOf(Shifted(s, ArchiveLimit))}}
    ELSE {s}

\* No archive of s is missing in t.
Keeps(t, s) == \A i \in Slots \ {0} : There(s, i) => There(t, i)

Written(s, f, flush) ==
    LET cells == s[0].cells \o <<[fact |-> f, half |-> 1], [fact |-> f, half |-> 2]>>
    IN  [s EXCEPT ![0].cells = cells,
                  ![0].synced = IF flush THEN Len(cells) ELSE s[0].synced]

\* append and append_critical, with the change of the state it records.
Record(flush) ==
    /\ running
    /\ count < MaxFacts
    /\ since < SnapshotEvery
    /\ snapshot = None => since < FirstRecords
    /\ \E s \in Writable(slots) :
          /\ slots' = Written(s, count + 1, flush)
          /\ intact' = (intact /\ Keeps(s, IF RotationDue(slots)
                                          THEN Shifted(slots, ArchiveLimit) ELSE slots))
    /\ facts' = Append(facts, count + 1)
    /\ count' = count + 1
    /\ since' = since + 1
    /\ critical' = IF flush THEN critical \cup {count + 1} ELSE critical
    /\ UNCHANGED <<snapshot, running>>

\* The snapshot is synced and renamed into place; the journal is only flushed.
\* (Mutant of Checkpoint: an offset of what is on disk, not of what is written.)
CheckpointOfSynced(s) == [inode |-> s[0].inode, offset |-> s[0].synced]
Checkpoint(s) == [inode |-> s[0].inode, offset |-> Len(s[0].cells)]

WriteSnapshot ==
    /\ running
    /\ since > 0
    /\ snapshot' = [facts |-> facts, checkpoint |-> Checkpoint(slots)]
    /\ since' = 0
    /\ UNCHANGED <<slots, facts, running, count, critical, intact>>

-----------------------------------------------------------------------------
(* Stopping and starting.                                                   *)

Stopped(s) ==
    /\ running
    /\ running' = FALSE
    /\ slots' = s
    /\ facts' = <<>>
    /\ UNCHANGED <<snapshot, count, since, critical>>

Crash == Stopped(slots) /\ UNCHANGED intact

CrashInRotation ==
    /\ RotationTorn
    /\ intact                  \* bound: one of the three faults in a behaviour
    /\ There(slots, 0) /\ RotationDue(slots)
    /\ \E n \in Slots : Stopped(Shifted(slots, n))
    /\ intact' = FALSE

\* The process is killed while a record is written: the file ends in its half,
\* and the record that is appended next is not parsed either.
CutShort(s) == [s EXCEPT ![0].cells = Front(@)]

CrashInWrite ==
    /\ intact                  \* bound: one of the three faults in a behaviour
    /\ running /\ running' = FALSE
    /\ count < MaxFacts /\ count' = count + 1
    /\ \E s \in Writable(slots) : slots' = CutShort(Written(s, count + 1, FALSE))
    /\ facts' = <<>>
    /\ intact' = FALSE
    /\ UNCHANGED <<snapshot, since, critical>>

\* Of every file the cells that were not synced may be lost from some cell on.
PowerLoss ==
    /\ PowerFails
    /\ intact                  \* bound: one of the three faults in a behaviour
    /\ intact' = FALSE
    /\ \E kept \in [Slots -> 0..FileCells] :
          /\ \A i \in Slots :
                IF There(slots, i)
                THEN kept[i] \in slots[i].synced..Len(slots[i].cells)
                ELSE kept[i] = 0
          /\ Stopped([i \in Slots |->
                IF There(slots, i)
                THEN [slots[i] EXCEPT !.cells = SubSeq(@, 1, kept[i]), !.synced = kept[i]]
                ELSE None])

\* Journal.open and recover_from_snapshot.
Opened(s) ==
    IF There(s, 0) THEN Pruned(s)
    ELSE {[p EXCEPT ![0] = File(n)] :
            p \in Pruned(s), n \in {m \in Inodes : m \notin InodesOf(s)}}

Restart ==
    /\ ~running
    /\ running' = TRUE
    /\ \E s \in Opened(slots) :
          /\ slots' = s
          /\ facts' = Recovered(s, snapshot)
          /\ intact' = (intact /\ Keeps(s, slots))
    /\ UNCHANGED <<snapshot, count, since, critical>>

JournalInit ==
    /\ \E n \in Inodes :
          slots = [i \in Slots |-> IF i = 0 THEN File(n) ELSE None]
    /\ snapshot = None
    /\ facts = <<>>
    /\ running = TRUE
    /\ count = 0
    /\ since = 0
    /\ critical = {}
    /\ intact = TRUE

JournalNext ==
    \/ \E flush \in Flushes : Record(flush)
    \/ WriteSnapshot
    \/ Crash \/ CrashInRotation \/ CrashInWrite \/ PowerLoss
    \/ Restart

JournalSpec == JournalInit /\ [][JournalNext]_journalVars

-----------------------------------------------------------------------------
(* Properties.                                                              *)

Durable == IF running THEN facts ELSE Recovered(slots, snapshot)

Log == INSTANCE FactLog WITH Facts <- 1..MaxFacts, known <- Durable

\* Whatever the engine knew when its process stopped, between two records or
\* two snapshots, the restart knows again, once and in order.  Even after a power
\* loss, a torn rotation or record or the expiry of an archive no record is applied
\* twice or out of order: a partial close that is subtracted again would leave a
\* position too small.
FactsSurvive == Log!Spec

\* append_critical (journal.py:145): "Critical events must be durable before
\* the caller proceeds".
CriticalSurvives == critical \subseteq {Durable[i] : i \in DOMAIN Durable}

\* read_after_snapshot_checkpoint (journal.py:206) refuses a checkpoint only
\* when the file it names is no longer retained.
RetainedIsReplayed ==
    snapshot # None =>
        ((\E i \in Slots : Holds(slots, i, snapshot.checkpoint))
            => Provable(slots, snapshot.checkpoint))
=============================================================================
