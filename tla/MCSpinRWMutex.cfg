CONSTANTS
    Threads = {t1, t2, t3}
    WRITER = 8
SPECIFICATION FairSpec
INVARIANTS TypeOK MutualExclusion WordAccounts
PROPERTIES SomebodyGetsIn ImplementsRWLock
