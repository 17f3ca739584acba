\* Three events on two keys, one failed commit, one redelivery, one discarded
\* CF; waiters beside one event.
SPECIFICATION Spec
CONSTANTS
    k1 = k1  k2 = k2  t1 = t1  t2 = t2  t3 = t3  w1 = w1  w2 = w2  w3 = w3
    alice = alice  bob = bob  genesis = genesis
    Keys = {k1, k2}
    None = None
    NoSlot = NoSlot
    Txs = {t1, t2, t3}
    LogicalTime <- MCTime
    Rank <- MCRank
    Ops <- MCOps
    Staging = {t1, t2}
    OverlayReaders = {t1, t2, t3}
    Genesis = genesis
    GenesisKeys = {k1}
    Owners = {alice, bob}
    OwnerOf <- MCOwnerOf
    Target = k1
    Waiters = {w1, w2, w3}
    FinalReaders = {w1}
    PerObjectCap = 1
    GlobalCap = 2
    MaxEventsPerCf = 2
    MaxDiscards = 1
    MaxCommitFailures = 1
    MaxRedeliveries = 1
INVARIANTS
    TypeOK
    ReadYourWrites
    EffectOnce
    IndexExact
    BuildKeepsRoot
    CountersExact
    NoLostWakeup
PROPERTIES
    ImplementsSerial
SYMMETRY Symmetry
CONSTRAINT Bounds
CHECK_DEADLOCK FALSE
