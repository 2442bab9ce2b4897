CONSTANTS
    None = None
    tenant = tenant
    Tenants = {tenant}
    Capacity <- MCCapacity
    Rate <- MCRate
    Costs = {1, 3, 5, 7, 8}
    MaxTime = 6
SPECIFICATION BucketSpec
INVARIANTS AdmissionBound RetrySuffices
