\* Both modes: the API-key store evicts completed responses under pressure,
\* the payment stores evict nothing and promise bytes up front.
CONSTANTS
    None = None
    Keys = {k1, k2, k3}
    Fingerprints = {f1, f2}
    Sizes = {1, 3, 4}
    TTL = 2
    ReservationTTL = 1
    MaxEntries = 2
    MaxResponseBytes = 3
    MaxTotalBytes = 5
    MaxTime = 3
    MaxTokens = 3
SYMMETRY Symmetry
SPECIFICATION Spec
INVARIANTS TypeOK Accounting ReplayFaithful
PROPERTIES ImplementsPromise
