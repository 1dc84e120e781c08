CONSTANTS
    MaxTxn = 3
    Loaded = 2
    MaxRid = 2
    Kinds <- MixedKinds
    Http = {2}
    Collectors = {2}
    Nil = Nil
SPECIFICATION Spec
INVARIANTS TypeOK ReadsCommittedWithoutRace UnlockedRowsAreCommitted WatermarkIsOldestRead FreedIsUnused
PROPERTIES SnapshotNeverChanges
CONSTRAINT BeginAndEndSound
CHECK_DEADLOCK FALSE
