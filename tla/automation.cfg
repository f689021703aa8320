\* Auto mode for a VM without an owner: stale cache, crashes, reverts.
SPECIFICATION Spec
CONSTANTS
    Sizes = {"s", "m"}
    Requests = {q1}
    Deployment <- Plain
    VmLabel = "none"
    NsLabel = "none"
    VmHotplug = TRUE
    ResolverFails = FALSE
    CacheLag = TRUE
    Verdicts = {"s", "m", "none"}
    Ops <- RevertOps
    Edits = {"exclude", "include", "policy"}
    HandSizes = {}
    MaxFaults = 2
INVARIANTS AppliedMeansPatched  
PROPERTIES AutoModeActs ProposalFrozen
