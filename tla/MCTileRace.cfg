SPECIFICATION FairSpec
CONSTANTS
    Threads = {t1, t2}
    NIds = 2
    NBins = 2
    Files = {f1}
    MaxMemory = 2
    FullLoops = 2
    MaxLookups = 3
    MaxVersion = 0
    Invalidators = {t1}
    Clearers = {t1}
    MaxInvalidations = 1
    KeepsPerthread = {t2}
    ReadsFail = TRUE
    Quiet = FALSE
    t1 = t1
    t2 = t2
    f1 = f1
    f2 = f2
    None = None
    BinOf <- MCBinOf
    FileOf <- MCFileOf
INVARIANTS
    TypeOK
    IteratorValid
    UnreadyHasOneReader
PROPERTIES
    WaitEnds
    SweepEnds
