CONSTANTS
    Txn = {1, 2, 3}
    tab = tab
    r1 = r1
    r2 = r2
    r3 = r3
    g1 = g1
    Table = {}
    Record = {r1, r2, r3}
    Gap = {}
    Shards <- CrossedShards
    Wants <- CrossedWants
    Nil = Nil
    MaxReq = 3
SPECIFICATION FairSpec
PROPERTY EveryTransactionEnds
CHECK_DEADLOCK FALSE
