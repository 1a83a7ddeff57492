CONSTANTS
    FileCells = 4
    ArchiveLimit = 2
    Inodes = {i1, i2, i3, i4}
    i1 = i1
    i2 = i2
    i3 = i3
    i4 = i4
    MaxFacts = 5
    SnapshotEvery = 4
    FirstRecords = 2
    Flushes = {TRUE, FALSE}
    PowerFails = TRUE
    RotationTorn = TRUE
    ArchivesExpire = TRUE
SPECIFICATION JournalSpec
CHECK_DEADLOCK FALSE
PROPERTY FactsSurvive
SYMMETRY InodeSymmetry
