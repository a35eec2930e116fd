SPECIFICATION Spec
CONSTANTS
    h1 = h1
    h2 = h2
    h3 = h3
    f = f
    d1 = d1
    d2 = d2
    GenesisDigest = d0
    Skip = Skip
    Authority = {h1, h2, h3, f}
    Faulty = {f}
    Quorum <- MCQuorum
    Digest = {d0, d1, d2}
    Leader <- MCLeader
    MaxRound = 6
    Offered <- MCOffered
INVARIANTS
    Agreement
    CertifiedOnce
CHECK_DEADLOCK FALSE
