\* A failure between Create and the first status update.
SPECIFICATION Spec
CONSTANTS
    Sizes = {"s", "m"}
    Requests = {q1}
    Deployment <- Plain
    VmLabel = "none"
    NsLabel = "none"
    VmHotplug = FALSE
    ResolverFails = FALSE
    CacheLag = FALSE
    Verdicts = {"s"}
    Ops <- ApplyOps
    Edits = {}
    HandSizes = {}
    MaxFaults = 1
PROPERTY CreatedBecomesPending
