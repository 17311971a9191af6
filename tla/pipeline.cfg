CONSTANTS
    LocalHelpers = 1
    RemoteHelpers = 1
    Blocks = 2
    Capacity = 1
    MaxFaults = 2
SPECIFICATION FairSpec
INVARIANTS
    TypeOK
    SuccessMeansReceived
    ErrorsSurface
    NothingLeftRunning
    NobodyIsStuck
PROPERTIES
    OnlyForward
    EverybodyReturns
    ImplementsTransfer
