\* A signing key but no notification channels.
SPECIFICATION Spec
CONSTANTS
    Sizes = {"s", "m"}
    Requests = {q1}
    Deployment <- Signed
    VmLabel = "alice"
    NsLabel = "none"
    VmHotplug = FALSE
    ResolverFails = FALSE
    CacheLag = FALSE
    Verdicts = {"s"}
    Ops <- ApplyOps
    Edits = {}
    HandSizes = {}
    MaxFaults = 0
INVARIANT OwnerApproved
