CONSTANTS
    a = a
    sa = sa
    b = b
    sb = sb
    sc = sc
    NoDst = NoDst
    Dst = {a, b}
    Suffix = {sa, sb}
    Owner <- TwoOwners
    Sync <- TwoSync
    ForceOverwrite = {b}
    Resumable = TRUE
    SendIntermediate = FALSE
    MaxSnap = 2
    Matching = {1, 2}
    MaxRetries = 2
    Pruning = FALSE
    MaxFaults = 2
    MaxRebuilds = 0
SPECIFICATION FairSpec
PROPERTIES
    EventuallyBackedUp
    InterruptedSendsResume
