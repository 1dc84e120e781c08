SPECIFICATION Spec
CONSTANTS
    Schema <- Tables3
    Index <- IndexOnB
    Statements <- Asked
    Databases <- Dbs
    Garbage <- GarbageCells
INVARIANTS
    TypeOK
    NoPairTwice
    JoinIsExact
    RejectsInvalid
    SelectIsRight
PROPERTY EveryStatementEnds
