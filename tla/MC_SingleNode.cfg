\* Two submit_event tasks of a single-node validator persist at once.
SPECIFICATION Spec
CONSTANTS
    a = a
    b = b
    c = c
    Events = {a, b, c}
    ParentIds <- Fork
    Adders = {x}
    Finalizers = {p, q}
    CacheCapacity = 1
    MaxCrossCfDepth = 2
    MaxAnchors = 2
    MaxRedeliveries = 0
    MaxAbandoned = 0
INVARIANT
    RemainForPersistence
CHECK_DEADLOCK FALSE
