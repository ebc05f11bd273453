\* Two processes that may overlap; the lease of a cancellation may run out under it.
SPECIFICATION CoordinatorSpec
CONSTANTS
    r1 = r1
    Run <- MCRun
    Key <- MCKey
    Owner = {o1, o2}
    NoOwner = NoOwner
    Overlap = TRUE
    MayLapse = {"cancel"}
INVARIANTS
    CoordinatorTypeOK
    NoOrphanedLease
    ExclusiveWork
PROPERTIES
    ImplementsWorkQueue
    EveryCommandEnds
CHECK_DEADLOCK FALSE
