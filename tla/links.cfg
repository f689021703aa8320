\* Two approval cycles, links opened in a tab, notices that fail.
SPECIFICATION Spec
CONSTANTS
    Forwarders <- SomeForwarders
    OwnerKind = "email"
    MaxCycles = 2
    Tabs = {t1}
    Proposals = {s, m}
INVARIANTS FlowTypeOK  DecidedOnce  OneTicket
           EveryChannelTried
SYMMETRY Interchangeable
