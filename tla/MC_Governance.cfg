\* Three proposals, one of them foreign, two decisions, two registrations, one restart.
SPECIFICATION Spec
CONSTANTS
    p1 = p1  p2 = p2  p3 = p3  d1 = d1  d2 = d2  g1 = g1  g2 = g2
    param = param  resource = resource  subnet = subnet
    Param = param  Resource = resource  Subnet = subnet
    Proposals = {p1, p2, p3}
    Foreign = {p2}
    Decisions = {d1, d2}
    Registrations = {g1, g2}
    Keys <- MCKeys
    None = None
    Txs <- MCTxs
    LogicalTime <- MCOrder
    Rank <- MCOrder
    Effect <- MCEffect
    MaxRestarts = 1
INVARIANTS
    TypeOK
    EffectsMatchVerdicts
    NoneStranded
    ProjectionExact
SYMMETRY Symmetry
CONSTRAINT Bounds
PROPERTIES
    RestoredUndecided
    ImplementsBook
CHECK_DEADLOCK FALSE
