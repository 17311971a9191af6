CONSTANTS
    a = a
    sa = sa
    b = b
    sb = sb
    sc = sc
    NoDst = NoDst
    Dst = {a, b}
    Suffix = {sa, sb}
    Owner <- TwoOwners
    Sync <- NoSync
    ForceOverwrite = {a}
    Resumable = FALSE
    SendIntermediate = TRUE
    MaxSnap = 2
    Matching = {1, 2}
    MaxRetries = 2
    Pruning = TRUE
    MaxFaults = 2
    MaxRebuilds = 1
SPECIFICATION FairSpec
INVARIANT
    CheckpointTruthful
PROPERTIES
    NothingOverwritten
    
