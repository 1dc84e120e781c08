CONSTANTS
    Txn = {1, 2, 3}
    tab = tab
    r1 = r1
    r2 = r2
    r3 = r3
    g1 = g1
    Table = {tab}
    Record = {r1}
    Gap = {g1}
    Shards <- MixedShards
    Wants <- MixedWants
    Nil = Nil
    MaxReq = 2
SPECIFICATION Spec
INVARIANTS TypeOK NoConflictingGrants NoLostWakeUp EndedHoldsNoRecordOrGap
CHECK_DEADLOCK FALSE
