\* One request against both controllers, with a cache that lags.
SPECIFICATION Spec
CONSTANTS
    Sizes = {"s", "m"}
    Requests = {q1}
    Deployment <- Notifying
    VmLabel = "alice"
    NsLabel = "none"
    VmHotplug = TRUE
    ResolverFails = FALSE
    CacheLag = TRUE
    Verdicts = {"s", "none"}
    Ops <- RaceOps
    Edits = {}
    HandSizes = {}
    MaxFaults = 0
INVARIANTS TypeOK   OwnerApproved OwnerNotified
PROPERTIES ImplementsLifecycle DeletedByOldReadOnly
