\* A validator in a network: proposals, votes and catch-up.
SPECIFICATION Spec
CONSTANTS
    submitter = submitter
    catchup = catchup
    timer = timer
    router = router
    Tasks = {submitter, router, catchup}
    MayCall <- InNetwork
INVARIANT
    NoDeadlock
CHECK_DEADLOCK FALSE
