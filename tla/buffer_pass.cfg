CONSTANTS
    Worker = {w1, w2}
    File = {fa, fb}
    Fd = {3}
    NShards = 2
    x1 = x1
    x2 = x2
    Frame = {x1, x2}
    FrameShard <- TwoShards
    Nil = Nil
    MaxPage = 3
    MaxWrites = 2
    MaxOpens = 2
SPECIFICATION Spec
CONSTRAINT Sound
INVARIANTS TypeOK FramesArePartitioned PinnedStays NoLostWrite PagesAreDenseWhenSound
PROPERTIES ImplementsPageStore
CHECK_DEADLOCK FALSE
