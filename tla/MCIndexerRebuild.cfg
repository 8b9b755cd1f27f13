CONSTANTS
    a = a
    b = b
    NumEvents <- MCNumEvents
    Identities <- MCIdentities
    Kind <- MCKind
    Actor <- MCActor
    Seq <- MCSeq
    Target <- MCTarget
    Slot <- MCSlot
    FinalSlot = 3
SPECIFICATION RebuildSpec
INVARIANTS StoreTypeOK ServedProfile PublishedPosts RetryState NeverStale
PROPERTIES ImplementsLedger RebuildUnseen
