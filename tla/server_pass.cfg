SPECIFICATION Spec
CONSTANTS
    ann = ann
    bob = bob
    cyd = cyd
    Clients = {ann, bob, cyd}
    Workers = {w1, w2}
    End = End
    MaxFd = 3
    MaxConn = 2
    Room = 1
    Plans <- SoundPlans
INVARIANTS TypeOK AnswersMatch
PROPERTIES StatementsAreAnswered StopEnds
CHECK_DEADLOCK FALSE
