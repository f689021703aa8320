\* The approval cycle: notification, reminder, expiry and scheduled restart,
\* with a cache that lags, a failure at any step, an owner lookup that fails and
\* a VM that is resized by hand.
SPECIFICATION Spec
CONSTANTS
    Sizes = {"s", "m"}
    Requests = {q1}
    Deployment <- Notifying
    VmLabel = "none"
    NsLabel = "team"
    VmHotplug = FALSE
    ResolverFails = TRUE
    CacheLag = TRUE
    Verdicts = {"s"}
    Ops <- ApprovalOps
    Edits = {}
    HandSizes = {"s"}
    MaxFaults = 1
INVARIANTS  OwnerApproved StampMeansReminded
PROPERTIES  RestartOnce RestartsWhatIsDue 
    ScheduledRestartHappens ImplementsLifecycle
