SPECIFICATION Spec
CONSTANTS
    Threads = {t1, t2}
    NIds = 1
    NBins = 2
    Files = {f1}
    MaxMemory = 2
    FullLoops = 3
    MaxLookups = 3
    MaxVersion = 1
    Invalidators = {t1, t2}
    Clearers = {t1}
    MaxInvalidations = 3
    KeepsPerthread = {}
    ReadsFail = FALSE
    Quiet = TRUE
    t1 = t1
    t2 = t2
    f1 = f1
    f2 = f2
    None = None
    BinOf <- MCBinOf
    FileOf <- MCFileOf
INVARIANTS
    AnswersAreFresh
