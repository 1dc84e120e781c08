SPECIFICATION Spec
CONSTANTS
    ann = ann
    bob = bob
    cyd = cyd
    Clients = {ann}
    Workers = {w1, w2}
    End = End
    MaxFd = 3
    MaxConn = 2
    Room = 1
    Plans <- SomePlans
INVARIANT StatementsAreSerial
CHECK_DEADLOCK FALSE
