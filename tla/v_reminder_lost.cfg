\* A rejected recommendation is proposed again.
SPECIFICATION Spec
CONSTANTS
    Sizes = {"s", "m"}
    Requests = {q1}
    Deployment <- Notifying
    VmLabel = "alice"
    NsLabel = "none"
    VmHotplug = FALSE
    ResolverFails = FALSE
    CacheLag = FALSE
    Verdicts = {"s"}
    Ops <- RejectOps
    Edits = {}
    HandSizes = {}
    MaxFaults = 0
INVARIANT StampMeansReminded
