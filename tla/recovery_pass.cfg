CONSTANTS
    MaxTxn = 1
    Rid = {r1, r2}
    PageOf <- OnePage
    Nil = Nil
    MaxWrites = 2
    MaxLog = 7
    MaxStops = 2
    MaxTables = 1
CONSTRAINT RecreatedLast
SYMMETRY SlotSymmetry
SPECIFICATION Spec
INVARIANTS TypeOK CommittedWritesSurvive RecoveryIsIdempotent
CHECK_DEADLOCK FALSE
