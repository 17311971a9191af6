CONSTANTS
    a = a
    sa = sa
    b = b
    sb = sb
    sc = sc
    NoDst = NoDst
    Dst = {a}
    Suffix = {sa}
    Owner <- OneOwner
    Sync <- OneSync
    ForceOverwrite = {}
    Resumable = TRUE
    SendIntermediate = FALSE
    MaxSnap = 3
    Matching = {1, 2, 3}
    MaxRetries = 2
    Pruning = TRUE
    MaxFaults = 2
    MaxRebuilds = 1
SPECIFICATION Spec
INVARIANTS
    TypeOK
    ChainIntact
    CheckpointTruthful
PROPERTIES
    NothingOverwritten
    OneCheckpointLeft
    SuccessMeansDelivered
    RetriesSuffice
    ImplementsBackupChain
