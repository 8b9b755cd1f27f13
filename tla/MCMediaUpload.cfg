CONSTANTS
    u1 = u1
    u2 = u2
    c1 = c1
    c2 = c2
    Jobs = {c1, c2}
    Uploads = {u1, u2}
    Bytes <- MCBytes
    Declared <- MCDeclared
    Chunks <- MCChunks
    Infected = {u2}
    MaxFinalizations = 1
    MaxCrashes = 1
SPECIFICATION Spec
SYMMETRY MCSymmetry
INVARIANT TypeOK
INVARIANT FinalizationUndisturbed
INVARIANT PublicationSound
INVARIANT AcknowledgedBytesKept
INVARIANT CapacityAccounted
PROPERTY ImplementsLifecycle
