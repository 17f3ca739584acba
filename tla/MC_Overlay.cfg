\* One Move call that is finalized before it has staged its overlay.
SPECIFICATION Spec
CONSTANTS
    k1 = k1  k2 = k2  t1 = t1  t2 = t2  t3 = t3  w1 = w1  w2 = w2  w3 = w3
    alice = alice  bob = bob  genesis = genesis
    Keys = {k1, k2}
    None = None
    NoSlot = NoSlot
    Txs = {t1}
    LogicalTime <- MCTime
    Rank <- MCRank
    Ops <- MCOps
    Staging = {t1}
    OverlayReaders = {t1}
    Genesis = genesis
    GenesisKeys = {k1}
    Owners = {alice, bob}
    OwnerOf <- MCOwnerOf
    Target = k1
    Waiters = {}
    FinalReaders = {}
    PerObjectCap = 1
    GlobalCap = 2
    MaxEventsPerCf = 2
    MaxDiscards = 0
    MaxCommitFailures = 0
    MaxRedeliveries = 0
INVARIANTS
    OverlayCleared
CHECK_DEADLOCK FALSE
