\* The page of an excluded VM, against the annotation.
SPECIFICATION Spec
CONSTANTS
    Forwarders <- SomeForwarders
    OwnerKind = "email"
    MaxCycles = 2
    Tabs = {t1}
    Proposals = {s, m}
INVARIANT ExcludedMeansExcluded
SYMMETRY Interchangeable
