CONSTANTS
    a = a
    g = g
    h = h
    n1 = n1
    n2 = n2
    Keys = {a, g, h}
    Origin = a
    Policies <- MCPolicies
    Nonces = {n1, n2}
    Posts = {1}
    Grants <- MCGrants
    Delayed = {"approve", "execute"}
    LastSigned = 1
    MaxSequence = 3
    MaxSlot = 2
SPECIFICATION IndexedSpec
SYMMETRY MCSymmetry
INVARIANT TypeOK
INVARIANT OneRecoveryPerVersion
INVARIANT LandsAtMostOnce
INVARIANT EventsAccepted
INVARIANT AuthorityAgrees
PROPERTY HistoryFixed
PROPERTY SequenceIsVersion
PROPERTY ImplementsMandate
CHECK_DEADLOCK FALSE
