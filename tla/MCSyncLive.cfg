CONSTANTS
    a = a
    NumEvents <- MCNumEvents
    Identities <- MCIdentities
    Kind <- MCKind
    Actor <- MCActor
    Seq <- MCSeq
    Target <- MCTarget
    Slot <- MCSlot
    TxOf <- MCTxOf
    TxSlot <- MCTxSlot
    FailedTxs <- MCFailedTxs
    NumTxs = 3
    NumEndpoints = 1
    Faulty = {1}
    FinalSlot = 2
    Unsupported = {}
    Invalid = {3}
    DeploymentSlot = 1
    BatchSize = 2
    MaxCrashes = 1
SPECIFICATION FairSpec
PROPERTIES
    MissingContentNeverBlocks
    EverythingSettles
