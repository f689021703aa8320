------------------------------ MODULE Cluster ------------------------------
(***************************************************************************)
(* The state the operator's parts share: the RightsizingRecommendation of  *)
(* one virtual machine as the Kubernetes API server stores it, the copies  *)
(* of it that the two controllers, the REST handlers and the informer      *)
(* cache hold, the VM itself, and the passing of time.                     *)
(*                                                                         *)
(* Recommendations of different VMs share nothing (the object is named     *)
(* "vm-" + the VM's name and every handler works on one object), so one VM *)
(* is the whole system as far as the recommendation's life is concerned.   *)
(*                                                                         *)
(* Every write of the recommendation carries the resourceVersion of the    *)
(* copy it was computed from, and the API server refuses it when another   *)
(* write came in between.  Versions are only ever compared with the stored *)
(* one, so the model keeps the outcome of that comparison: "stale" is the  *)
(* set of holders whose copy is not the stored version any more.           *)
(***************************************************************************)
EXTENDS Naturals, Deployments

CONSTANTS
    Sizes,        \* CPU and memory configurations a VM can have
    Requests,     \* REST requests that can be in progress at the same time
    Deployment,   \* what main() configured, see DemoMode ... RouteHost below
    VmLabel,      \* the owner label of the VM, None when it has none
    NsLabel,      \* the owner label of its namespace, None when it has none
    VmHotplug,    \* does the VM have maxSockets > 0?
    ResolverFails,\* can looking up the owner fail?
    CacheLag,     \* can the informer cache be behind the API server?
    Verdicts,     \* what the analysis may conclude: a size, or None
    Ops,          \* the REST requests people make
    MaxFaults     \* bound on injected failures

VARIABLES
    rec,      \* the stored recommendation
    copy,     \* the copy of it each holder has
    stale,    \* the holders whose copy is not the stored version
    pc,       \* where each actor is in its handler
    plan,     \* what the running reconcile read: policy, VM and analysis
    req,      \* the operation each REST request is about
    vm,       \* size and exclude annotation of the VM
    auto,     \* autoMode.enabled of the RightsizingPolicy
    faults,   \* failures injected so far
    sent,     \* was the approval request of the current cycle sent out?
    reminders,\* reminders sent in the current approval cycle (up to 2)
    restarts, \* restarts triggered for the stored recommendation (up to 2)
    unresolved, \* has a lookup of the owner failed?
    original  \* size of the VM before the operator first changed it

object == <<rec, copy, stale>>
environment == <<vm, auto>>
history == <<sent, reminders, restarts, unresolved, original>>
vars == <<object, pc, plan, req, environment, faults, history>>

None == "none"

ASSUME SizesAssumption == None \notin Sizes /\ Sizes # {}
ASSUME RequestsAssumption ==
    Requests \cap {"recommendation", "restart", "cache"} = {}
ASSUME DeploymentAssumption == Deployment \in Deployments
ASSUME VerdictsAssumption == Verdicts \subseteq Sizes \cup {None}
ASSUME FlagAssumption ==
    VmHotplug \in BOOLEAN /\ ResolverFails \in BOOLEAN /\ CacheLag \in BOOLEAN
ASSUME MaxFaultsAssumption == MaxFaults \in Nat

----------------------------------------------------------------------------
(* What main() gives to the controllers and to the REST server.            *)

DemoMode == Deployment.demo
TokenManager == Deployment.demo \/ Deployment.key
ServerOwnerResolver == Deployment.key
Notifier == Deployment.notifications
RouteHost == Deployment.host

(* The label of the VM wins, even when it is empty, over the one of its    *)
(* namespace; "" stands for no owner.                                      *)
ResolveOwner ==
    IF VmLabel # None THEN VmLabel
    ELSE IF NsLabel # None THEN NsLabel
    ELSE ""

(* A lookup of the owner fails.                                            *)
LookupFails ==
    /\ ResolverFails
    /\ faults < MaxFaults /\ faults' = faults + 1
    /\ unresolved' = TRUE

(* The owner that demo mode makes up.                                      *)
DemoOwner == "demo-user"

HasOwner == ResolveOwner # ""

----------------------------------------------------------------------------
(* A recommendation.  "absent" is no object, "blank" an object whose       *)
(* status was never written.  NotifiedAt is kept as its age, which is all  *)
(* the code looks at: up to 7 days, up to 14 days, older.                  *)

States == {"absent", "blank", "pending", "awaiting-approval", "applied",
           "applied-pending-restart", "reverted", "failed"}

Ages == {"nil", "fresh", "week", "expired"}

Times == {"nil", "future", "due"}

Stamps == {"nil", "set"}

Owners == {"", DemoOwner, VmLabel, NsLabel}

Recommendations ==
    [state: States, current: Sizes \cup {None}, recommended: Sizes \cup {None},
     owner: Owners, token: {"", "jwt"}, notifiedAt: Ages, reminderSentAt: Stamps,
     approvedBy: Owners, revertConfig: Sizes \cup {None},
     scheduledRestartAt: Times, appliedAt: Stamps]

Absent ==
    [state |-> "absent", current |-> None, recommended |-> None,
     owner |-> "", token |-> "", notifiedAt |-> "nil",
     reminderSentAt |-> "nil", approvedBy |-> "", revertConfig |-> None,
     scheduledRestartAt |-> "nil", appliedAt |-> "nil"]

(* Mutant of Protected: a state is forgotten.                              *)
ProtectedButApplied == {"applied-pending-restart", "awaiting-approval"}

Protected == {"applied", "applied-pending-restart", "awaiting-approval"}

(* handleApply and autoApply route a pending recommendation of an owned VM *)
(* to its owner with the same assignments.                                 *)
AwaitApproval(r, owner) ==
    [r EXCEPT !.state = "awaiting-approval", !.owner = owner, !.token = "jwt",
              !.notifiedAt = "fresh", !.revertConfig = r.current]

----------------------------------------------------------------------------
Actors == {"recommendation", "restart"} \cup Requests
Holders == Actors \cup {"cache"}

(* The informer follows the API server, at once when it cannot lag.        *)
InStep == IF CacheLag THEN {} ELSE {"cache"}

(* Mutant of Get: what the cache returns is taken for the stored version.  *)
GetAssumedFresh(a) ==
    /\ copy' = [copy EXCEPT ![a] = copy["cache"]]
    /\ stale' = stale \ {a}
    /\ UNCHANGED rec

(* A read goes to the informer cache.                                      *)
Get(a) ==
    /\ copy' = [copy EXCEPT ![a] = copy["cache"]]
    /\ stale' = IF "cache" \in stale THEN stale \cup {a} ELSE stale \ {a}
    /\ UNCHANGED rec

(* The API server stores r; whoever is in "with" has this version.         *)
Store(r, with) ==
    /\ rec' = r
    /\ copy' = [h \in Holders |-> IF h \in with \cup InStep THEN r ELSE copy[h]]
    /\ stale' = Holders \ (with \cup InStep)

(* A successful Update or Status().Update answers with the stored object,  *)
(* which the handler goes on with; one with an old version is refused.     *)
Update(a, r) == a \notin stale /\ Store(r, {a})

Conflict(a) == a \in stale

(* The handler of a is over and its copy of the object is garbage.         *)
Forget(a) ==
    /\ copy' = [copy EXCEPT ![a] = Absent]
    /\ stale' = stale \cup {a}
    /\ UNCHANGED rec

(* Mutant of UpdateAndForget: a write without the version it is based on.  *)
UpdateUnconditionally(a, r) ==
    /\ rec' = r
    /\ copy' = [h \in Holders |-> IF h = a THEN Absent
                                  ELSE IF h \in InStep THEN r ELSE copy[h]]
    /\ stale' = Holders \ InStep

(* The last write of a handler.                                            *)
UpdateAndForget(a, r) ==
    /\ a \notin stale
    /\ rec' = r
    /\ copy' = [h \in Holders |-> IF h = a THEN Absent
                                  ELSE IF h \in InStep THEN r ELSE copy[h]]
    /\ stale' = Holders \ InStep

CacheSync ==
    /\ "cache" \in stale
    /\ copy' = [copy EXCEPT !["cache"] = rec]
    /\ stale' = stale \ {"cache"}
    /\ UNCHANGED <<rec, pc, plan, req, environment, faults, history>>

----------------------------------------------------------------------------
(* Time.  All copies of an object carry the same timestamps.  Nothing      *)
(* reads the approval date or the restart schedule in other states.        *)

Older(age) ==
    CASE age = "fresh" -> "week"
      [] age = "week" -> "expired"
      [] OTHER -> age

Aged(r) == [r EXCEPT !.notifiedAt = Older(r.notifiedAt)]

WeekPasses ==
    /\ rec.state = "awaiting-approval"
    /\ rec.notifiedAt \in {"fresh", "week"}
    /\ rec' = Aged(rec)
    /\ copy' = [h \in Holders |-> Aged(copy[h])]
    /\ UNCHANGED <<stale, pc, plan, req, environment, faults, history>>

Matured(r) ==
    [r EXCEPT !.scheduledRestartAt = IF r.scheduledRestartAt = "future"
                                     THEN "due" ELSE r.scheduledRestartAt]

ScheduleComes ==
    /\ rec.state = "applied-pending-restart"
    /\ rec.scheduledRestartAt = "future"
    /\ rec' = Matured(rec)
    /\ copy' = [h \in Holders |-> Matured(copy[h])]
    /\ UNCHANGED <<stale, pc, plan, req, environment, faults, history>>

(* Somebody resizes the VM by hand.                                        *)
VmResized(s) ==
    /\ s # vm.size
    /\ vm' = [vm EXCEPT !.size = s]
    /\ UNCHANGED <<object, pc, plan, req, auto, faults, history>>

============================================================================
