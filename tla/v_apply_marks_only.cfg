\* Rightsize in the console with the restart option "now", no owner.
SPECIFICATION Spec
CONSTANTS
    Sizes = {"s", "m"}
    Requests = {q1}
    Deployment <- Plain
    VmLabel = "none"
    NsLabel = "none"
    VmHotplug = FALSE
    ResolverFails = FALSE
    CacheLag = FALSE
    Verdicts = {"s"}
    Ops <- NowOps
    Edits = {}
    HandSizes = {}
    MaxFaults = 0
PROPERTY ApplyNowReachesVm
