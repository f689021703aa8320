---------------------------- MODULE ApiHandlers ----------------------------
(***************************************************************************)
(* The handlers of the REST API that change something.  net/http runs      *)
(* every request in a goroutine of its own.  A handler reads the           *)
(* recommendation, checks its state, changes the copy and writes it back;  *)
(* a request whose check fails, or that cannot be parsed, is answered with *)
(* an error and changes nothing.                                           *)
(*                                                                         *)
(* An operation is [verb, restart].  "approve" and "ownerReject" are what  *)
(* the approval proxy forwards for the owner, "ownerExclude" is the other  *)
(* body that handleOwnerReject takes (ApprovalProxy has what the proxy     *)
(* sends for it), the others come from the console.                        *)
(***************************************************************************)
EXTENDS Cluster

Verbs == {"apply", "approve", "revert", "reject", "ownerReject",
          "ownerExclude"}

(* RestartOption, with "schedule" told apart by the time it asks for.      *)
RestartOptions == {"now", "later", "future", "due"}

ASSUME OpsAssumption == Ops \subseteq [verb: Verbs, restart: RestartOptions]

NoOp == [verb |-> "none", restart |-> "later"]

RequestGoto(q, label) == pc' = [pc EXCEPT ![q] = label]

Respond(q) == RequestGoto(q, "idle") /\ req' = [req EXCEPT ![q] = NoOp]

----------------------------------------------------------------------------
(* Mutant of Accepts: apply does not insist on pending.                    *)
AcceptsAnyApply(op, r) ==
    CASE op.verb = "apply" -> r.state # "absent"
      [] op.verb = "revert" ->
             /\ r.state \in {"applied", "applied-pending-restart"}
             /\ r.revertConfig # None
      [] op.verb = "reject" -> r.state = "awaiting-approval"
      [] OTHER -> r.state = "awaiting-approval" /\ r.notifiedAt # "expired"

(* The state each handler insists on.  The proxy forwards only requests    *)
(* whose token is valid; tokens and NotifiedAt both last 14 days.          *)
Accepts(op, r) ==
    CASE op.verb = "apply" -> r.state = "pending"
      [] op.verb = "revert" ->
             /\ r.state \in {"applied", "applied-pending-restart"}
             /\ r.revertConfig # None
      [] op.verb = "reject" -> r.state = "awaiting-approval"
      [] OTHER -> r.state = "awaiting-approval" /\ r.notifiedAt # "expired"

HandlerBegin(q) ==
    /\ pc[q] = "idle"
    /\ \E op \in Ops :
           /\ Accepts(op, copy["cache"])
           /\ req' = [req EXCEPT ![q] = op]
           /\ RequestGoto(q, IF op.verb = "ownerExclude" THEN "exclude"
                                                         ELSE "write")
    /\ Get(q)
    /\ UNCHANGED <<plan, environment, faults, history>>

(* handleOwnerReject excludes the VM first and ignores the outcome: the    *)
(* patch may have failed.                                                  *)
HandlerExclude(q) ==
    /\ pc[q] = "exclude"
    /\ vm' \in {vm, [vm EXCEPT !.exclude = "true"]}
    /\ RequestGoto(q, "write")
    /\ UNCHANGED <<object, plan, req, auto, faults, history>>

----------------------------------------------------------------------------
(* Spec.HotplugCapable, which the handlers read and nothing ever sets.     *)
SpecHotplugCapable == FALSE

ApplyWith(r, restart) ==
    IF SpecHotplugCapable
    THEN [r EXCEPT !.state = "applied", !.appliedAt = "set"]
    ELSE [r EXCEPT !.state = "applied-pending-restart",
                   !.scheduledRestartAt =
                       IF restart \in {"future", "due"} THEN restart ELSE @,
                   !.appliedAt = IF restart = "now" THEN "set" ELSE @]

(* Mutant of Direct: the configuration to go back to is not recorded.      *)
DirectBare(r, restart) == ApplyWith(r, restart)

Direct(r, restart) ==
    ApplyWith([r EXCEPT !.revertConfig = r.current], restart)

(* The owner of the approval link is recorded.                             *)
Approved(r, restart, owner) ==
    ApplyWith([r EXCEPT !.approvedBy = owner, !.token = ""], restart)

Reverted(r) == [r EXCEPT !.state = "reverted"]

(* Mutant of Rejected: the approval token survives.                        *)
RejectedKeepsToken(r) ==
    [r EXCEPT !.state = "pending", !.owner = "", !.notifiedAt = "nil"]

(* Who rejected and why is kept in fields that nothing reads.              *)
Rejected(r) ==
    [r EXCEPT !.state = "pending", !.owner = "", !.token = "",
              !.notifiedAt = "nil"]

----------------------------------------------------------------------------
(* Mutant of ServerOwner: the owner is looked up in demo mode only.        *)
ServerOwnerInDemo == IF DemoMode THEN DemoOwner ELSE ""

(* handleApply: demo mode always asks for approval; otherwise an owner is  *)
(* looked up when everything it takes to ask them is configured.           *)
ServerOwner ==
    IF DemoMode THEN DemoOwner
    ELSE IF ServerOwnerResolver /\ Notifier THEN ResolveOwner
    ELSE ""

(* Owners an approval link can have been made out to.                      *)
LinkOwners == {ServerOwner, ResolveOwner} \ {""}

(* Demo mode shows the link in the console and notifies nobody.            *)
HandlerRoute(q) ==
    /\ pc[q] = "write"
    /\ req[q].verb = "apply"
    /\ ServerOwner # ""
    /\ LET r == AwaitApproval(copy[q], ServerOwner)
       IN  IF Notifier /\ ~DemoMode
           THEN Update(q, r) /\ RequestGoto(q, "notify") /\ UNCHANGED req
           ELSE UpdateAndForget(q, r) /\ Respond(q)
    /\ sent' = FALSE /\ reminders' = 0
    /\ UNCHANGED <<plan, environment, faults, restarts, unresolved, original>>

HandlerNotify(q) ==
    /\ pc[q] = "notify"
    /\ sent' = TRUE
    /\ Forget(q) /\ Respond(q)
    /\ UNCHANGED <<plan, environment, faults, reminders, restarts, unresolved,
                   original>>

(* No owner, or a lookup that failed: the recommendation is marked applied *)
(* (the VM itself is not touched).                                         *)
HandlerApply(q) ==
    /\ pc[q] = "write"
    /\ req[q].verb = "apply"
    /\ \/ ServerOwner = "" /\ UNCHANGED <<faults, unresolved>>
       \/ ServerOwner # "" /\ ~DemoMode /\ LookupFails
    /\ UpdateAndForget(q, Direct(copy[q], req[q].restart))
    /\ Respond(q)
    /\ UNCHANGED <<plan, environment, sent, reminders, restarts, original>>

HandlerApprove(q) ==
    /\ pc[q] = "write"
    /\ req[q].verb = "approve"
    /\ \E owner \in LinkOwners :
           UpdateAndForget(q, Approved(copy[q], req[q].restart, owner))
    /\ Respond(q)
    /\ UNCHANGED <<plan, environment, faults, history>>

HandlerRevert(q) ==
    /\ pc[q] = "write"
    /\ req[q].verb = "revert"
    /\ UpdateAndForget(q, Reverted(copy[q]))
    /\ Respond(q)
    /\ UNCHANGED <<plan, environment, faults, history>>

HandlerReject(q) ==
    /\ pc[q] = "write"
    /\ req[q].verb \in {"reject", "ownerReject", "ownerExclude"}
    /\ UpdateAndForget(q, Rejected(copy[q]))
    /\ Respond(q)
    /\ UNCHANGED <<plan, environment, faults, history>>

HandlerRefused(q) ==
    /\ pc[q] = "write"
    /\ Conflict(q)
    /\ Forget(q) /\ Respond(q)
    /\ UNCHANGED <<plan, environment, faults, history>>

HandlerContinue(q) ==
    \/ HandlerExclude(q) \/ HandlerRoute(q) \/ HandlerNotify(q)
    \/ HandlerApply(q) \/ HandlerApprove(q) \/ HandlerRevert(q)
    \/ HandlerReject(q) \/ HandlerRefused(q)

----------------------------------------------------------------------------
(* The handlers that do not read a recommendation: one write each.         *)

HandleExclude ==
    /\ vm' = [vm EXCEPT !.exclude = "true"]
    /\ UNCHANGED <<object, pc, plan, req, auto, faults, history>>

HandleRemoveExclusion ==
    /\ vm' = [vm EXCEPT !.exclude = "unset"]
    /\ UNCHANGED <<object, pc, plan, req, auto, faults, history>>

HandleUpdatePolicy ==
    /\ auto' \in BOOLEAN
    /\ UNCHANGED <<object, pc, plan, req, vm, faults, history>>

============================================================================
