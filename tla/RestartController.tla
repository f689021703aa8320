------------------------- MODULE RestartController -------------------------
(***************************************************************************)
(* RestartReconciler.Reconcile: one worker that restarts the VM of an      *)
(* applied-pending-restart recommendation once its scheduled time passed.  *)
(***************************************************************************)
EXTENDS Cluster

RS == "restart"

RestartGoto(label) == pc' = [pc EXCEPT ![RS] = label]

(* Mutant of RestartDue: a schedule is not enough.                         *)
RestartDueIfApplied(r) ==
    /\ r.state = "applied-pending-restart" /\ r.scheduledRestartAt = "due"
    /\ r.appliedAt = "set"

(* Mutant of RestartDue: the state is not looked at.                       *)
RestartDueInAnyState(r) == r.scheduledRestartAt = "due"

(* No object, another state, no schedule or one in the future: Reconcile   *)
(* returns and is queued again, which changes nothing.                     *)
RestartDue(r) ==
    r.state = "applied-pending-restart" /\ r.scheduledRestartAt = "due"

RestartBegin ==
    /\ pc[RS] = "idle"
    /\ RestartDue(copy["cache"])
    /\ Get(RS)
    /\ RestartGoto("restart")
    /\ UNCHANGED <<plan, req, environment, faults, history>>

RestartVM ==
    /\ pc[RS] = "restart"
    /\ restarts' = IF restarts < 2 THEN restarts + 1 ELSE restarts
    /\ RestartGoto("restarted")
    /\ UNCHANGED <<object, plan, req, environment, faults, sent, reminders,
                   unresolved, original>>

RestartVMFails ==
    /\ pc[RS] = "restart"
    /\ faults < MaxFaults /\ faults' = faults + 1
    /\ RestartGoto("unrestarted")
    /\ UNCHANGED <<object, plan, req, environment, history>>

(* Mutant of Restarted: the state and the schedule stay.                   *)
RestartedUnmarked(r) == [r EXCEPT !.appliedAt = "set"]

Restarted(r) ==
    [r EXCEPT !.state = "applied", !.appliedAt = "set",
              !.scheduledRestartAt = "nil"]

RestartFailed(r) == [r EXCEPT !.state = "failed"]

(* Status().Update; when it is refused the reconcile is tried again.       *)
RestartStatus ==
    /\ \/ pc[RS] = "restarted" /\ UpdateAndForget(RS, Restarted(copy[RS]))
       \/ pc[RS] = "unrestarted" /\ UpdateAndForget(RS, RestartFailed(copy[RS]))
       \/ /\ pc[RS] \in {"restarted", "unrestarted"}
          /\ Conflict(RS) /\ Forget(RS)
    /\ RestartGoto("idle")
    /\ UNCHANGED <<plan, req, environment, faults, history>>

RestartStep ==
    RestartBegin \/ RestartVM \/ RestartVMFails \/ RestartStatus

============================================================================
