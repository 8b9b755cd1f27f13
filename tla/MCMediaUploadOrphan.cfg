CONSTANTS
    u1 = u1
    u2 = u2
    c1 = c1
    c2 = c2
    Jobs = {c1, c2}
    Uploads = {u1}
    Bytes <- MCBytes
    Declared <- MCOneDeclared
    Chunks <- MCChunks
    Infected = {}
    MaxFinalizations = 1
    MaxCrashes = 1
SPECIFICATION FairSpec
PROPERTY StagedBytesLeave
