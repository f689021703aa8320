---------------------- MODULE RecommendationController ----------------------
(***************************************************************************)
(* RightsizingRecommendationReconciler.Reconcile and autoApply.  The       *)
(* controller has one worker, so one reconcile of the VM runs at a time;   *)
(* every call it makes to the API server, to KubeVirt or to the notifier   *)
(* is a step of its own, and other actors run between the steps.           *)
(***************************************************************************)
EXTENDS Cluster

RC == "recommendation"

At(label) == pc[RC] = label
Goto(label) == pc' = [pc EXCEPT ![RC] = label]

NoPlan == [auto |-> FALSE, size |-> None, verdict |-> None]

(* Reconcile returns, with an error or without: the request is queued      *)
(* again and the local variables are gone.                                 *)
Return == Goto("idle") /\ plan' = NoPlan

Proceed(label) == Goto(label) /\ UNCHANGED plan

mine == <<req, environment, faults, history>>

----------------------------------------------------------------------------
(* Policy and VM are read, Prometheus is asked and the calculator runs.  A *)
(* nil verdict stands for every reason not to recommend: the VM is         *)
(* excluded, there are too few data points, or Analyze returned nil.  When *)
(* a fetch fails Reconcile returns at once, which changes nothing.         *)
Begin ==
    /\ At("idle")
    /\ \E v \in Verdicts :
           /\ DemoMode => v # None
           /\ plan' = [auto |-> auto, size |-> vm.size,
                       verdict |-> IF vm.exclude = "true" THEN None ELSE v]
    /\ Goto("get")
    /\ UNCHANGED <<object, mine>>

(* Mutant of Branch: the 14 days are not looked at.                        *)
BranchWithoutExpiry(r) ==
    IF r.state = "absent" THEN "create"
    ELSE IF /\ r.state = "awaiting-approval" /\ r.notifiedAt = "week"
            /\ r.reminderSentAt = "nil"
         THEN "remind"
    ELSE IF r.state \in Protected THEN "idle"
    ELSE "update"

(* Reconcile after the Get of the recommendation.                          *)
Branch(r) ==
    IF r.state = "absent" THEN "create"
    ELSE IF r.state = "awaiting-approval" /\ r.notifiedAt = "expired"
         THEN "expire"
    ELSE IF /\ r.state = "awaiting-approval" /\ r.notifiedAt = "week"
            /\ r.reminderSentAt = "nil"
         THEN "remind"
    ELSE IF r.state \in Protected THEN "idle"
    ELSE "update"

(* Mutant of DeleteBranch: the state is not looked at.                     *)
DeleteBranchAlways(r) == IF r.state = "absent" THEN "idle" ELSE "delete"

(* deleteExistingRecommendation after its Get.                             *)
DeleteBranch(r) ==
    IF r.state \in Protected \cup {"absent"} THEN "idle" ELSE "delete"

GetRecommendation ==
    LET r == copy["cache"]
        next == IF plan.verdict = None THEN DeleteBranch(r) ELSE Branch(r)
    IN  /\ At("get")
        /\ IF next = "idle" THEN Forget(RC) /\ Return
                            ELSE Get(RC) /\ Proceed(next)
        /\ UNCHANGED mine

(* Delete has no precondition: it removes whatever has that name by now.   *)
DeleteExisting ==
    /\ At("delete")
    /\ rec' = Absent
    /\ copy' = [h \in Holders |-> IF h \in InStep \cup {RC}
                                  THEN Absent ELSE copy[h]]
    /\ stale' = Holders \ InStep
    /\ Return
    /\ UNCHANGED mine

----------------------------------------------------------------------------
NewRecommendation ==
    [Absent EXCEPT !.state = "blank", !.current = plan.size,
                   !.recommended = plan.verdict]

(* Create does not store the status; a second Create is refused.           *)
Create ==
    /\ At("create")
    /\ IF rec.state = "absent"
       THEN /\ Store(NewRecommendation, {RC})
            /\ Proceed("publish")
            /\ restarts' = 0 /\ original' = None
            /\ UNCHANGED <<sent, reminders, unresolved>>
       ELSE Forget(RC) /\ Return /\ UNCHANGED history
    /\ UNCHANGED <<req, environment, faults>>

(* Mutant of WriteAndContinue: the policy's auto mode is not looked at.    *)
WriteAndReturn(r) == UpdateAndForget(RC, r) /\ Return

(* After the recommendation is stored: autoApply, or the end.              *)
WriteAndContinue(r) ==
    IF plan.auto /\ r.state = "pending"
    THEN Update(RC, r) /\ Proceed("auto")
    ELSE UpdateAndForget(RC, r) /\ Return

Refused == Conflict(RC) /\ Forget(RC) /\ Return

(* Mutant of Published: a state no code expects.                           *)
PublishedApproved(r) == [r EXCEPT !.state = "approved"]

Published(r) == [r EXCEPT !.state = "pending"]

Publish ==
    /\ At("publish")
    /\ WriteAndContinue(Published(copy[RC])) \/ Refused
    /\ UNCHANGED mine

----------------------------------------------------------------------------
(* Mutant of Expired: the reminder stamp is kept.                          *)
ExpiredKeepsReminder(r) ==
    [r EXCEPT !.state = "pending", !.owner = "", !.token = "",
              !.notifiedAt = "nil"]

Expired(r) ==
    [r EXCEPT !.state = "pending", !.owner = "", !.token = "",
              !.notifiedAt = "nil", !.reminderSentAt = "nil"]

(* The reset object is no longer protected, so the update follows.         *)
Expire ==
    /\ At("expire")
    /\ \/ Update(RC, Expired(copy[RC])) /\ Proceed("update")
       \/ Refused
    /\ UNCHANGED mine

SendReminder ==
    /\ At("remind")
    /\ reminders' = IF Notifier /\ reminders < 2 THEN reminders + 1
                                                 ELSE reminders
    /\ Proceed("stamp")
    /\ UNCHANGED <<object, req, environment, faults, sent, restarts,
                   unresolved, original>>

(* Mutant of Reminded: the stamp is forgotten.                             *)
NotReminded(r) == r

Reminded(r) == [r EXCEPT !.reminderSentAt = "set"]

StampReminder ==
    /\ At("stamp")
    /\ \/ UpdateAndForget(RC, Reminded(copy[RC])) /\ Return
       \/ Refused
    /\ UNCHANGED mine

----------------------------------------------------------------------------
(* Mutant of Recalculated: Spec.Current is refreshed as well.              *)
RecalculatedAll(r) ==
    [r EXCEPT !.recommended = plan.verdict, !.current = plan.size]

(* Spec.Current is not refreshed.                                          *)
Recalculated(r) == [r EXCEPT !.recommended = plan.verdict]

UpdateSpec ==
    /\ At("update")
    /\ \/ Update(RC, Recalculated(copy[RC])) /\ Proceed("calculated")
       \/ Refused
    /\ UNCHANGED mine

(* Status().Update of LastCalculated, which the model does not keep.       *)
UpdateLastCalculated ==
    /\ At("calculated")
    /\ WriteAndContinue(copy[RC]) \/ Refused
    /\ UNCHANGED mine

----------------------------------------------------------------------------
(* autoApply.  An error of ResolveOwner is logged and taken for no owner.  *)

AutoOwned == TokenManager /\ HasOwner

AutoUnowned ==
    /\ At("auto")
    /\ \/ ~AutoOwned /\ UNCHANGED <<faults, unresolved>>
       \/ AutoOwned /\ LookupFails
    /\ Proceed("direct")
    /\ UNCHANGED <<object, req, environment, sent, reminders, restarts, original>>

AutoRoute ==
    /\ At("auto")
    /\ AutoOwned
    /\ \/ LET r == AwaitApproval(copy[RC], ResolveOwner)
          IN  /\ IF Notifier /\ RouteHost
                 THEN Update(RC, r) /\ Proceed("notify")
                 ELSE UpdateAndForget(RC, r) /\ Return
              /\ sent' = FALSE /\ reminders' = 0
       \/ Refused /\ UNCHANGED <<sent, reminders>>
    /\ UNCHANGED <<req, environment, faults, restarts, unresolved, original>>

(* Mutant of AutoNotify: nothing is sent.                                  *)
AutoNotifyNobody ==
    /\ At("notify")
    /\ Forget(RC) /\ Return
    /\ UNCHANGED mine

(* SendAll; failures of single channels are logged.                        *)
AutoNotify ==
    /\ At("notify")
    /\ sent' = TRUE
    /\ Forget(RC) /\ Return
    /\ UNCHANGED <<req, environment, faults, reminders, restarts, unresolved,
                   original>>

(* PatchVMResources is a merge patch of the VM: no version is checked.     *)
AutoPatch ==
    /\ At("direct")
    /\ vm' = [vm EXCEPT !.size = copy[RC].recommended]
    /\ original' = IF original = None THEN vm.size ELSE original
    /\ Proceed("patched")
    /\ UNCHANGED <<object, req, auto, faults, sent, reminders, restarts,
                   unresolved>>

AutoPatchFails ==
    /\ At("direct")
    /\ faults < MaxFaults /\ faults' = faults + 1
    /\ Proceed("unpatched")
    /\ UNCHANGED <<object, req, environment, history>>

(* Mutant of AutoApplied: hotplug is not looked at.                        *)
AutoAppliedRestart(r) ==
    [r EXCEPT !.state = "applied-pending-restart", !.revertConfig = r.current]

AutoApplied(r) ==
    IF VmHotplug
    THEN [r EXCEPT !.state = "applied", !.appliedAt = "set",
                   !.revertConfig = r.current]
    ELSE [r EXCEPT !.state = "applied-pending-restart",
                   !.revertConfig = r.current]

AutoFailed(r) ==
    [r EXCEPT !.state = "failed", !.revertConfig = r.current]

AutoStatus ==
    /\ \/ At("patched") /\ UpdateAndForget(RC, AutoApplied(copy[RC])) /\ Return
       \/ At("unpatched") /\ UpdateAndForget(RC, AutoFailed(copy[RC])) /\ Return
       \/ (At("patched") \/ At("unpatched")) /\ Refused
    /\ UNCHANGED mine

----------------------------------------------------------------------------
RecommendationStep ==
    \/ Begin \/ GetRecommendation \/ DeleteExisting
    \/ Create \/ Publish
    \/ Expire \/ SendReminder \/ StampReminder
    \/ UpdateSpec \/ UpdateLastCalculated
    \/ AutoRoute \/ AutoNotify
    \/ AutoUnowned \/ AutoPatch \/ AutoPatchFails \/ AutoStatus

============================================================================
