CONSTANTS
    p1 = p1
    p2 = p2
    a = a
    Nobody = Nobody
    Proc = {p1, p2}
    Conf = {a}
    ConfigOf <- OnePath
    Sections <- TwoJobs
    Fs = {1}
    PoolOf <- OwnPools
    MaxWrites = 1
    MaxReplacements <- ReplacedOnce
    MaxFaults = 2
SPECIFICATION FairSpec
INVARIANTS
    Serialized
    SuccessMeansCovered
    PublishedWhole
    ReportCoversRun
PROPERTIES
    PublishedInOrder
    MonitorReports
    EveryInvocationEnds
CHECK_DEADLOCK FALSE
