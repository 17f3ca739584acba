\* A leader's CF times out locally and a second one is proposed.
SPECIFICATION Spec
CONSTANTS
    N = 3
    ContiguousRounds = 1
    Events = {e1, e2}
    MaxCfs = 2
    MaxTimeouts = 1
    MaxPersistFailures = 0
    MaxCatchUps = 0
    MaxCommitFailures = 0
INVARIANT
    BaseAlwaysMatches
SYMMETRY Symmetry
CHECK_DEADLOCK FALSE
