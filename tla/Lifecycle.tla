----------------------------- MODULE Lifecycle -----------------------------
(***************************************************************************)
(* What the operator promises about the life of one recommendation,        *)
(* without the handlers, caches and versions that bring it about: the      *)
(* states of the RightsizingRecommendation and the moves between them.     *)
(***************************************************************************)

VARIABLES
    mustAsk,       \* is there an owner who has to agree?  Not decided here.
    state,         \* the state of the recommendation
    revertConfig,  \* the configuration to go back to, or "none"
    scheduled,     \* the scheduled restart: "nil", "future" or "due"
    approvedBy     \* who approved, or ""

lifecycle == <<state, revertConfig, scheduled, approvedBy>>

Nothing ==
    /\ state = "absent"
    /\ revertConfig = "none" /\ scheduled = "nil" /\ approvedBy = ""

(* A recommendation appears without a state and becomes pending.           *)
Appear ==
    /\ state = "absent" /\ state' = "blank"
    /\ UNCHANGED <<revertConfig, scheduled, approvedBy>>

Announce ==
    /\ state = "blank" /\ state' = "pending"
    /\ UNCHANGED <<revertConfig, scheduled, approvedBy>>

Ask ==
    /\ state = "pending" /\ state' = "awaiting-approval"
    /\ revertConfig' # "none"
    /\ UNCHANGED <<scheduled, approvedBy>>

(* The owner or an administrator declines, or nobody answers in time.      *)
TurnDown ==
    /\ state = "awaiting-approval" /\ state' = "pending"
    /\ UNCHANGED <<revertConfig, scheduled, approvedBy>>

Approve ==
    /\ state = "awaiting-approval"
    /\ state' = "applied-pending-restart"
    /\ scheduled' \in {"nil", "future", "due"}
    /\ approvedBy' # ""
    /\ UNCHANGED revertConfig

(* Straight from pending, for a VM nobody has to be asked about.           *)
Apply ==
    /\ ~mustAsk'
    /\ state = "pending"
    /\ \/ state' = "applied" /\ scheduled' = "nil"
       \/ /\ state' = "applied-pending-restart"
          /\ scheduled' \in {"nil", "future", "due"}
    /\ revertConfig' # "none"
    /\ UNCHANGED approvedBy

ApplyFails ==
    /\ ~mustAsk'
    /\ state = "pending" /\ state' = "failed"
    /\ revertConfig' # "none"
    /\ UNCHANGED <<scheduled, approvedBy>>

TimeComes ==
    /\ state = "applied-pending-restart"
    /\ scheduled = "future" /\ scheduled' = "due"
    /\ UNCHANGED <<state, revertConfig, approvedBy>>

Restart ==
    /\ state = "applied-pending-restart" /\ scheduled = "due"
    /\ \/ state' = "applied" /\ scheduled' = "nil"
       \/ state' = "failed" /\ UNCHANGED scheduled
    /\ UNCHANGED <<revertConfig, approvedBy>>

Revert ==
    /\ state \in {"applied", "applied-pending-restart"}
    /\ revertConfig # "none"
    /\ state' = "reverted"
    /\ UNCHANGED <<revertConfig, scheduled, approvedBy>>

Disappear ==
    /\ state # "absent" /\ state' = "absent"
    /\ revertConfig' = "none" /\ scheduled' = "nil" /\ approvedBy' = ""

Move ==
    \/ Appear \/ Announce \/ Ask \/ TurnDown \/ Approve \/ Apply \/ ApplyFails
    \/ TimeComes \/ Restart \/ Revert \/ Disappear

Lives == Nothing /\ [][Move]_lifecycle

============================================================================
