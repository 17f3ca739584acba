\* A validator that is one round behind catches up.
SPECIFICATION Spec
CONSTANTS
    N = 3
    ContiguousRounds = 1
    Events = {e1, e2}
    MaxCfs = 2
    MaxTimeouts = 0
    MaxPersistFailures = 0
    MaxCatchUps = 1
    MaxCommitFailures = 0
INVARIANT
    RoundMatchesView
SYMMETRY Symmetry
CHECK_DEADLOCK FALSE
