\* Agreement, persistence and rounds: one persist failure or catch-up; rival
\* CFs on one base after a timeout.
SPECIFICATION Spec
CONSTANTS
    N = 3
    ContiguousRounds = 1
    Events = {e1, e2, e3}
    MaxCfs = 3
    MaxTimeouts = 1
    MaxPersistFailures = 1
    MaxCatchUps = 1
    MaxCommitFailures = 1
INVARIANTS
    TypeOK
    LinearAgreement
    RoundBackedByAnchors
    StateRootAgreement
    QuorumBacked
    OneOpenBuild
PROPERTIES
    ImplementsTree
SYMMETRY Symmetry
CONSTRAINT Bounds
CHECK_DEADLOCK FALSE
