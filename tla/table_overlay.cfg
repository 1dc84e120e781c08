SPECIFICATION Spec
CONSTANTS
    Order = 3
    Threads = {1}
    RowIds <- Slots
    Plans <- Appends
    MaxPages = 5
    Attempts = 3
    MaxRestarts = 1
    WriteBit = 8
INVARIANT EntriesNameTheirRows
