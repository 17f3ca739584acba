\* Every method but receive_cf and receive_finalized_cf.
SPECIFICATION FairSpec
CONSTANTS
    submitter = submitter
    catchup = catchup
    timer = timer
    router = router
    Tasks = {submitter, router, timer}
    MayCall <- WithoutCfs
INVARIANTS
    TypeOK
    NoDeadlock
PROPERTY
    EveryCallReturns
