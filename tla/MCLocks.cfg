SPECIFICATION Spec
CONSTANTS
    v1 = v1
    v2 = v2
    v3 = v3
    v4 = v4
    t1 = t1
    t2 = t2
    t3 = t3
    r0 = r0
    r1 = r1
    r2 = r2
    r3 = r3
    Validator = {v1, v2, v3, v4}
    Faulty = {v4}
    Quorum <- MCQuorum
    Tx = {t1, t2, t3}
    Ref = {r0, r1, r2, r3}
    In <- MCIn
    Out <- MCOut
    Genesis = {r0}
    MaxEpoch = 1
SYMMETRY Symmetry
INVARIANTS
    
    
    QuorumExecutedIsFinal
    RevertFindsInputs
CHECK_DEADLOCK FALSE
