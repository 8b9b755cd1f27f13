CONSTANTS
    a = a
    NumEvents <- MCNumEvents
    Identities <- MCIdentities
    Kind <- MCKind
    Actor <- MCActor
    Seq <- MCSeq
    Target <- MCTarget
    Slot <- MCSlot
    TxOf <- MCTxOf
    TxSlot <- MCTxSlot
    FailedTxs <- MCFailedTxs
    NumTxs = 6
    NumEndpoints = 2
    Faulty = {}
    FinalSlot = 4
    Unsupported = {6}
    Invalid = {3}
    DeploymentSlot = 1
    BatchSize = 2
    MaxCrashes = 0
SPECIFICATION Spec
INVARIANT NothingSkipped
