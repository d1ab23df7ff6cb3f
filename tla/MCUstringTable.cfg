SPECIFICATION FairSpec
CONSTANTS
    Threads = {t1, t2}
    t1 = t1
    t2 = t2
    s1 = s1
    s2 = s2
    s3 = s3
    s4 = s4
    nul = nul
    Strings = {s1, s2, s3, s4, nul}
    NHashes = 64
    NTableBins = 4
    NMapBins = 2
    BaseCapacity = 2
    HashOf <- MCHashOf
    Fingerprint <- MCFingerprint
    Trim <- MCTrim
    PrefixPairs <- MCPrefixes
    MaxCalls = 5
    None = None
INVARIANTS
    TypeOK
    EveryRepIsFound
    OneRepEach
    MapsAgree
    MovedAreReported
PROPERTIES
    InternsStrings
    CallsReturn
