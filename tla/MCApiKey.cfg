CONSTANTS
    None = None
    Req = {r1, r2, r3}
    Tenant = {t1, t2, t3}
    Enabled = {t1, t2}
    Key = {k1, k2}
    Body = {b1, b2, bad}
    BadBody = {bad}
    Capacity = 2
    Rate = 1
    TTL = 2
    ReservationTTL = 1
    MaxEntries = 2
    MaxTime = 3
SYMMETRY Symmetry
SPECIFICATION Spec
INVARIANTS QuotaCoversAttempts ReplayBinding WorkProtected OnlyWorkHolds
PROPERTIES RefusalsTakeNothing
