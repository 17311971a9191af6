CONSTANTS
    a = a
    sa = sa
    b = b
    sb = sb
    sc = sc
    NoDst = NoDst
    Dst = {a}
    Suffix = {sa, sb, sc}
    Owner <- ThreeOwners
    Sync <- ForeignSync
    ForceOverwrite = {}
    Resumable = TRUE
    SendIntermediate = FALSE
    MaxSnap = 2
    Matching = {1}
    MaxRetries = 2
    Pruning = TRUE
    MaxFaults = 2
    MaxRebuilds = 0
SPECIFICATION Spec
INVARIANT
    ChainIntact
PROPERTIES
    OneCheckpointLeft
    RefusedForCause
