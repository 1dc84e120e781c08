CONSTANTS
    MaxTxn = 1
    Rid = {r1}
    PageOf <- OnePage
    Nil = Nil
    MaxWrites = 2
    MaxLog = 8
    MaxStops = 2
    MaxTables = 0
SPECIFICATION Spec
INVARIANTS UnfinishedIsRolledBack
CHECK_DEADLOCK FALSE
