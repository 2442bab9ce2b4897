CONSTANTS
    None = None
    Req = {r1, r2}
    Tenant = {t1, t2}
    Proof = {p1, p2}
    Key = {k1}
    Body = {b1, bad}
    BadBody = {bad}
    MaxBody = 2
    MaxChunk = 3
SYMMETRY Symmetry
SPECIFICATION Spec
INVARIANTS ConfigurationServes VerdictsAreEarned BodyWhole
