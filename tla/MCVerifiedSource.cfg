CONSTANTS
    None = None
    Addrs = {a1, a2, a3, a4}
    Target = a1
    Codes = {c1, c2, d}
    DispatchCodes = {d}
    MaxHops = 2
    MaxRpcCalls = 18
    MaxHttpRequests = 22
    MaxForks = 2
SYMMETRY Symmetry
SPECIFICATION Spec
INVARIANTS OneBlock PathSound ClearedIsDirect NoCycle LimitsSuffice
