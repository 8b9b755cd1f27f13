CONSTANTS
    Identities = {c, m1, m2}
    Creator = c
    c = c
    m1 = m1
    m2 = m2
    p1 = p1
    Proposals = {p1}
    SelfJoin = TRUE
    Delays = {1}
    Durations = {2}
    MaxMemberships = 4
    MaxSlot = 3
SPECIFICATION FairSpec
INVARIANT TypeOK
INVARIANT CountExact
INVARIANT NoMemberTurnedAway
PROPERTY ImplementsAssembly
PROPERTY Settled
CHECK_DEADLOCK FALSE
