CONSTANTS
    Worker = {w1, w2}
    Flusher = {bg, sig}
    Background = bg
    Capacity = 2
    Nil = Nil
    MaxLsn = 3
    MaxCrash = 1
SPECIFICATION FairSpec
INVARIANTS TypeOK LogIsOneSequence PersistedIsDurable AckedIsDurableWithoutOverflow
PROPERTIES CommitterReturns
CHECK_DEADLOCK FALSE
