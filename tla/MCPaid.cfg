CONSTANTS
    None = None
    Req = {r1, r2, r3}
    k1 = k1  k2 = k2
    Key = {k1, k2}
    Body = {b1, b2}
    BadBody = {b2}
    p1 = p1  p2 = p2  p3 = p3
    Proof = {p1, p2, p3}
    a1 = a1  a2 = a2
    Auth = {a1, a2}
    AuthOf <- MCAuthOf
    IdentifierOf <- MCIdentifierOf
    ValidAfter <- MCValidAfter
    ValidBefore <- MCValidBefore
    MaxTimeout = 2
    VerifyBound = 1
    MaxSkew = 1
    ReservationTTL = 2
    ClaimTTL = 4
    ResultLimits <- MCResultLimits
    ClaimLimits <- MCClaimLimits
    LastArrival = 3
    MaxTime = 4
SYMMETRY Symmetry
SPECIFICATION Spec
INVARIANTS AtMostOneSubmission NoFreeResult ReplayBinding WorkProtected FailureReleases
PROPERTIES InvitationsAreSafe OutcomesKept KeepsPromise
