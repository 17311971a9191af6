CONSTANTS
    a = a
    sa = sa
    b = b
    sb = sb
    sc = sc
    NoDst = NoDst
    Dst = {a}
    Suffix = {sa}
    Owner <- OneOwner
    Sync <- OneSync
    ForceOverwrite = {}
    Resumable = TRUE
    SendIntermediate = FALSE
    MaxSnap = 2
    Matching = {1, 2}
    MaxRetries = 2
    Pruning = TRUE
    MaxFaults = 1
    MaxRebuilds = 0
SPECIFICATION FairSpec
PROPERTIES
    InterruptedSendsResume
