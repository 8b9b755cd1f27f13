CONSTANTS
    a = a
    NumEvents <- MCNumEvents
    Identities <- MCIdentities
    Kind <- MCKind
    Actor <- MCActor
    Seq <- MCSeq
    Target <- MCTarget
    Slot <- MCSlot
    TxOf <- MCTxOf
    TxSlot <- MCTxSlot
    FailedTxs <- MCFailedTxs
    NumTxs = 6
    NumEndpoints = 1
    Faulty = {1}
    FinalSlot = 4
    Unsupported = {6}
    Invalid = {3}
    DeploymentSlot = 1
    BatchSize = 2
    MaxCrashes = 2
SPECIFICATION Spec
INVARIANTS TypeOK NothingSkipped NoStrandedRetry
PROPERTY ImplementsStore
