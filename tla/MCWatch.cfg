CONSTANTS
    None = None
    N = 2
    shell = shell  plain = plain  v1 = v1  v2 = v2  v3 = v3  v4 = v4
    Code = {shell, plain, v1, v2, v3, v4}
    Abi = {shell, plain, v1, v2, v3, v4}
    Self <- MCSelf
    Proxies = {1}
    Impls = {v1, v2, v3, v4}
    AbiOf <- MCAbiOf
    Sig = {"upgradeTo", "commit", "swap", "sweep"}
    Signable <- MCSignable
    Covered <- MCCovered
    Sourcify = {shell, plain, v1, v2}
    Etherscan = {shell, plain, v1, v2, v3}
SPECIFICATION WatchSpec
INVARIANTS BaselineFaithful QuietIsAccounted
