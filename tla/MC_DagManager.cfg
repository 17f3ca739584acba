\* Two adders race with one finalizer over a cache of one entry.
SPECIFICATION Spec
CONSTANTS
    a = a
    b = b
    c = c
    Events = {a, b, c}
    ParentIds <- Chain
    Adders = {x, y}
    Finalizers = {p}
    CacheCapacity = 1
    MaxCrossCfDepth = 1
    MaxAnchors = 3
    MaxRedeliveries = 1
    MaxAbandoned = 1
INVARIANTS
    TypeOK
    NoEventLost
    NoFalseMissing
    RetriesSuffice
    NoStranded
    AnchorsDisjoint
PROPERTIES
    ImplementsArchive
SYMMETRY Symmetry
CHECK_DEADLOCK FALSE
