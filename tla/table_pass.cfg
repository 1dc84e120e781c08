SPECIFICATION Spec
CONSTANTS
    Order = 3
    Threads = {1, 2}
    RowIds <- Slots
    Plans <- SoundPlans
    MaxPages = 9
    Attempts = 3
    MaxRestarts = 1
    WriteBit = 8
INVARIANTS TypeOK TreeIsWhole DuplicateIsRefused LatchCountsHolders
PROPERTIES IsDictionary StatementsEnd
CHECK_DEADLOCK FALSE
