CONSTANTS
    None = None
    Threads = {t1, t2, t3}
    Keys = {k1, k2, k3}
    Sizes = {1, 2, 3}
    TTL = 1
    NegativeTTL = 1
    MaxEntries = 2
    MaxBytes = 2
    MaxTime = 1
SPECIFICATION FairSpec
INVARIANTS SingleFlight NoLostWakeup CacheBounded
PROPERTIES ServedFresh ReturnsUnlessOvertaken
