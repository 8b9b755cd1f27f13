CONSTANTS
    t1 = t1
    t2 = t2
    n1 = n1
    n2 = n2
    x1 = x1
    x2 = x2
    none = none
    Nothing = none
    Tabs = {t1, t2}
    Texts = {x1, x2}
    Nonces = {n1, n2}
    Attempts = {1, 2}
    MaxSequence = 1
SPECIFICATION Spec
SYMMETRY MCSymmetry
INVARIANT TypeOK
INVARIANT EvidenceExact
INVARIANT Resumable
INVARIANT NothingForgotten
PROPERTY DraftSurvives
PROPERTY ImplementsOutbox
CHECK_DEADLOCK FALSE
