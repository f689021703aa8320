-------------------------- MODULE LifecycleProofs --------------------------
(***************************************************************************)
(* The operator implements the abstract life cycle of a recommendation,    *)
(* and never changes a proposal somebody was asked about or that was       *)
(* applied.  Both follow from the inductive invariant: a write the API     *)
(* server accepts replaces the very object it was computed from            *)
(* (FreshCopies), and the handler in progress still knows what it checked  *)
(* about that object when it started.                                      *)
(***************************************************************************)
EXTENDS OperatorProofs

(* A step that leaves the proposal alone where it must.                    *)
Frozen ==
    rec.state \in Committed =>
        IF rec'.state = "absent"
        THEN RC \in stale
        ELSE rec'.recommended = rec.recommended /\ rec'.current = rec.current

Lawful == [L!Move]_(L!lifecycle) /\ Frozen

(* What is known of the stored recommendation in every state.              *)
LEMMA RecFacts ==
    ASSUME Inv
    PROVE  /\ rec \in Recommendations
           /\ WellFormed(rec)
           /\ \A a \in Actors : a \notin stale => copy[a] = rec
BY DEF Inv, TypeOK, FreshCopies, Holders

(* Nothing is written.                                                     *)
LEMMA KeptLawful ==
    ASSUME rec' = rec
    PROVE  Lawful
BY DEF Lawful, Frozen, Committed, L!lifecycle

(* An update that is accepted is an update of the stored object.           *)
LEMMA AcceptedUpdate ==
    ASSUME Inv, NEW a \in Actors, NEW r,
           Update(a, r) \/ UpdateAndForget(a, r)
    PROVE  rec' = r /\ copy[a] = rec
BY RecFacts DEF Update, UpdateAndForget, Store

(* The moves, as changes of the record.                                    *)
LEMMA AskLawful ==
    ASSUME Inv, NEW owner \in Owners, rec.state = "pending",
           rec' = AwaitApproval(rec, owner)
    PROVE  Lawful
<1>1. /\ rec'.state = "awaiting-approval" /\ rec'.revertConfig # "none"
      /\ rec'.scheduledRestartAt = rec.scheduledRestartAt
      /\ rec'.approvedBy = rec.approvedBy
  BY RecFacts DEF AwaitApproval, WellFormed, Recommendations, None
<1>2. L!Ask
  BY <1>1 DEF L!Ask
<1>3. Frozen
  BY DEF Frozen, Committed
<1> QED
  BY <1>2, <1>3 DEF Lawful, L!Move

LEMMA TurnDownLawful ==
    ASSUME Inv, rec.state = "awaiting-approval",
           rec' = Expired(rec) \/ rec' = Rejected(rec)
    PROVE  Lawful
<1>1. /\ rec'.state = "pending"
      /\ rec'.revertConfig = rec.revertConfig
      /\ rec'.scheduledRestartAt = rec.scheduledRestartAt
      /\ rec'.approvedBy = rec.approvedBy
      /\ rec'.recommended = rec.recommended /\ rec'.current = rec.current
  BY RecFacts DEF Expired, Rejected, Recommendations
<1>2. L!TurnDown
  BY <1>1 DEF L!TurnDown
<1> QED
  BY <1>1, <1>2 DEF Lawful, Frozen, L!Move

LEMMA ApplyLawful ==
    ASSUME Inv, ~NeedsApproval', rec.state = "pending",
           \/ rec' = AutoApplied(rec)
           \/ rec' = AutoFailed(rec)
           \/ \E restart \in RestartOptions : rec' = Direct(rec, restart)
    PROVE  Lawful
<1>1. /\ rec.scheduledRestartAt = "nil"
      /\ rec.current # "none" /\ rec \in Recommendations
  BY RecFacts DEF WellFormed, None
<1>2. CASE rec' = AutoApplied(rec)
  BY <1>1, <1>2 DEF AutoApplied, L!Apply, L!Move, Lawful, Frozen, Committed,
                    Recommendations
<1>3. CASE rec' = AutoFailed(rec)
  BY <1>1, <1>3 DEF AutoFailed, L!ApplyFails, L!Move, Lawful, Frozen,
                    Committed, Recommendations
<1>4. CASE \E restart \in RestartOptions : rec' = Direct(rec, restart)
  <2>1. PICK restart \in RestartOptions : rec' = Direct(rec, restart)
    BY <1>4
  <2>2. /\ rec'.state = "applied-pending-restart"
        /\ rec'.scheduledRestartAt \in {"nil", "future", "due"}
        /\ rec'.revertConfig # "none" /\ rec'.approvedBy = rec.approvedBy
    BY <1>1, <2>1 DEF Direct, ApplyWith, SpecHotplugCapable, Recommendations
  <2> QED
    BY <2>2 DEF L!Apply, L!Move, Lawful, Frozen, Committed
<1> QED
  BY <1>2, <1>3, <1>4

LEMMA ApproveLawful ==
    ASSUME Inv, rec.state = "awaiting-approval",
           NEW restart \in RestartOptions, NEW owner, owner # "",
           rec' = Approved(rec, restart, owner)
    PROVE  Lawful
<1>1. /\ rec'.state = "applied-pending-restart"
      /\ rec'.scheduledRestartAt \in {"nil", "future", "due"}
      /\ rec'.revertConfig = rec.revertConfig /\ rec'.approvedBy # ""
      /\ rec'.recommended = rec.recommended /\ rec'.current = rec.current
  BY RecFacts DEF Approved, ApplyWith, SpecHotplugCapable, Recommendations,
                  Times
<1> QED
  BY <1>1 DEF L!Approve, L!Move, Lawful, Frozen

-----------------------------------------------------------------------------
(* The steps of the recommendation controller.                             *)
LEMMA RecommendationLawful == Inv /\ Onward /\ RecommendationStep => Lawful
<1> SUFFICES ASSUME Inv, Onward, RecommendationStep PROVE Lawful
  OBVIOUS
<1>1. /\ RC \in Actors /\ RecommendationKnows /\ rec \in Recommendations
      /\ WellFormed(rec)
  BY ActorFacts, RecFacts DEF Inv
<1>2. ASSUME Refused PROVE Lawful
  BY <1>2, KeptLawful DEF Refused, Forget
<1>3. ASSUME NEW r, WriteAndContinue(r)
      PROVE  rec' = r /\ copy[RC] = rec
  BY <1>1, <1>3, AcceptedUpdate DEF WriteAndContinue
<1>4. CASE Begin \/ SendReminder \/ AutoUnowned \/ AutoPatch \/ AutoPatchFails
  <2>1. rec' = rec
    BY <1>4 DEF Begin, SendReminder, AutoUnowned, AutoPatch, AutoPatchFails,
                object
  <2> QED
    BY <2>1, KeptLawful
<1>5. CASE GetRecommendation \/ AutoNotify
  <2>1. rec' = rec
    BY <1>5 DEF GetRecommendation, AutoNotify, Get, Forget
  <2> QED
    BY <2>1, KeptLawful
<1>6. CASE DeleteExisting
  <2>1. rec' = Absent
    BY <1>6 DEF DeleteExisting
  <2>2. CASE rec.state = "absent"
    BY <1>1, <2>1, <2>2, KeptLawful DEF WellFormed
  <2>3. CASE rec.state # "absent"
    <3>1. L!Disappear
      BY <2>1, <2>3 DEF Absent, L!Disappear, None
    <3>2. Frozen
      <4>1. copy[RC].state \notin Protected
        BY <1>1, <1>6 DEF DeleteExisting, At, RecommendationKnows
      <4>2. RC \in stale \/ copy[RC] = rec
        BY <1>1, RecFacts
      <4>3. rec'.state = "absent"
        BY <2>1 DEF Absent
      <4> QED
        BY <4>1, <4>2, <4>3 DEF Frozen, Committed, Protected
    <3> QED
      BY <3>1, <3>2 DEF Lawful, L!Move
  <2> QED
    BY <2>2, <2>3
<1>7. CASE Create
  <2>1. CASE rec.state = "absent"
    <3>1. rec = Absent /\ rec' = NewRecommendation
      BY <1>1, <1>7, <2>1 DEF Create, Store, WellFormed
    <3>2. L!Appear
      BY <3>1 DEF NewRecommendation, Absent, L!Appear
    <3>3. Frozen
      BY <3>1 DEF Frozen, Absent, Committed
    <3> QED
      BY <3>2, <3>3 DEF Lawful, L!Move
  <2>2. CASE rec.state # "absent"
    BY <1>7, <2>2, KeptLawful DEF Create, Forget
  <2> QED
    BY <2>1, <2>2
<1>8. CASE Publish
  <2>1. CASE WriteAndContinue(Published(copy[RC]))
    <3>1. rec' = Published(rec) /\ rec.state = "blank"
      BY <1>1, <1>3, <1>8, <2>1 DEF Publish, At, RecommendationKnows
    <3> QED
      BY <1>1, <3>1 DEF Published, L!Announce, L!Move, Lawful, Frozen,
                        Committed, Recommendations
  <2> QED
    BY <1>2, <1>8, <2>1 DEF Publish
<1>9. CASE Expire
  <2>1. CASE Update(RC, Expired(copy[RC]))
    <3>1. rec' = Expired(rec) /\ rec.state = "awaiting-approval"
      BY <1>1, <1>9, <2>1, AcceptedUpdate DEF Expire, At, RecommendationKnows
    <3> QED
      BY <3>1, TurnDownLawful
  <2> QED
    BY <1>2, <1>9, <2>1 DEF Expire
<1>10. CASE StampReminder
  <2>1. CASE UpdateAndForget(RC, Reminded(copy[RC]))
    <3>1. rec' = Reminded(rec)
      BY <1>1, <2>1, AcceptedUpdate
    <3> QED
      BY <1>1, <3>1 DEF Reminded, Lawful, Frozen, Committed, L!lifecycle,
                        Recommendations
  <2> QED
    BY <1>2, <1>10, <2>1 DEF StampReminder
<1>11. CASE UpdateSpec
  <2>1. CASE Update(RC, Recalculated(copy[RC]))
    <3>1. rec' = Recalculated(rec) /\ rec.state \notin Protected
      BY <1>1, <1>11, <2>1, AcceptedUpdate
      DEF UpdateSpec, At, RecommendationKnows
    <3> QED
      BY <1>1, <3>1 DEF Recalculated, Lawful, Frozen, L!lifecycle, Committed,
                        Protected, Recommendations
  <2> QED
    BY <1>2, <1>11, <2>1 DEF UpdateSpec
<1>12. CASE UpdateLastCalculated
  <2>1. CASE WriteAndContinue(copy[RC])
    BY <1>3, <2>1, KeptLawful
  <2> QED
    BY <1>2, <1>12, <2>1 DEF UpdateLastCalculated
<1>13. CASE AutoRoute
  <2>1. CASE Refused
    BY <1>2, <2>1
  <2>2. CASE ~Refused
    <3>1. rec' = AwaitApproval(rec, ResolveOwner) /\ rec.state = "pending"
      BY <1>1, <1>13, <2>2, AcceptedUpdate
      DEF AutoRoute, At, RecommendationKnows
    <3>2. ResolveOwner \in Owners
      BY DEF ResolveOwner, Owners
    <3> QED
      BY <3>1, <3>2, AskLawful
  <2> QED
    BY <2>1, <2>2
<1>14. CASE AutoStatus
  <2>1. /\ ~NeedsApproval
        /\ copy[RC].state = "pending"
    BY <1>1, <1>14 DEF AutoStatus, At, RecommendationKnows
  <2>2. CASE Refused
    BY <1>2, <2>2
  <2>3. CASE ~Refused
    <3>1. /\ rec.state = "pending"
          /\ rec' = AutoApplied(rec) \/ rec' = AutoFailed(rec)
      BY <1>1, <1>14, <2>1, <2>3, AcceptedUpdate DEF AutoStatus
    <3> QED
      BY <2>1, <3>1, ApplyLawful DEF Onward
  <2> QED
    BY <2>2, <2>3
<1> QED
  BY <1>4, <1>5, <1>6, <1>7, <1>8, <1>9, <1>10, <1>11, <1>12, <1>13, <1>14
  DEF RecommendationStep

(* The steps of the restart controller.                                    *)
LEMMA RestartLawful == Inv /\ RestartStep => Lawful
<1> SUFFICES ASSUME Inv, RestartStep PROVE Lawful
  OBVIOUS
<1>1. /\ RS \in Actors /\ RestartKnows /\ rec \in Recommendations
  BY ActorFacts, RecFacts DEF Inv
<1>2. CASE RestartBegin \/ RestartVM \/ RestartVMFails
  <2>1. rec' = rec
    BY <1>2 DEF RestartBegin, RestartVM, RestartVMFails, Get, object
  <2> QED
    BY <2>1, KeptLawful
<1>3. CASE RestartStatus
  <2>1. RestartDue(copy[RS])
    BY <1>1, <1>3 DEF RestartStatus, RestartKnows
  <2>2. CASE Conflict(RS) /\ Forget(RS)
    BY <2>2, KeptLawful DEF Forget
  <2>3. CASE ~(Conflict(RS) /\ Forget(RS))
    <3>1. /\ RestartDue(rec)
          /\ rec' = Restarted(rec) \/ rec' = RestartFailed(rec)
      BY <1>1, <1>3, <2>1, <2>3, AcceptedUpdate DEF RestartStatus
    <3>2. L!Restart
      BY <1>1, <3>1 DEF RestartDue, Restarted, RestartFailed, L!Restart,
                        Recommendations
    <3>3. Frozen
      BY <1>1, <3>1 DEF Restarted, RestartFailed, Frozen, Recommendations
    <3> QED
      BY <3>2, <3>3 DEF Lawful, L!Move
  <2> QED
    BY <2>2, <2>3
<1> QED
  BY <1>2, <1>3 DEF RestartStep

(* The steps of a REST request.                                            *)
LEMMA HandlerLawful ==
    ASSUME Inv, NEW q \in Requests, HandlerBegin(q) \/ HandlerContinue(q)
    PROVE  Lawful
<1>1. /\ q \in Actors /\ copy[q] \in Sound
      /\ rec \in Recommendations /\ WellFormed(rec)
  BY RcHolds, ActorFacts, RecFacts
<1>2. ASSUME pc[q] = "write"
      PROVE  /\ req[q].restart \in RestartOptions
             /\ req[q].verb = "apply" => copy[q].state = "pending"
             /\ req[q].verb = "revert" =>
                    copy[q].state \in {"applied", "applied-pending-restart"}
             /\ req[q].verb \notin {"apply", "revert"} =>
                    copy[q].state = "awaiting-approval"
  <2>1. req[q] \in Ops /\ Admits(req[q], copy[q])
    BY <1>2 DEF Inv, RequestsKnow
  <2> QED
    BY <1>1, <2>1, AdmitsMeans
<1>3. CASE HandlerBegin(q) \/ HandlerExclude(q) \/ HandlerNotify(q)
           \/ HandlerRefused(q)
  <2>1. rec' = rec
    BY <1>3 DEF HandlerBegin, HandlerExclude, HandlerNotify, HandlerRefused,
                Get, Forget, object
  <2> QED
    BY <2>1, KeptLawful
<1>4. CASE HandlerRoute(q)
  <2>1. rec' = AwaitApproval(rec, ServerOwner) /\ rec.state = "pending"
    BY <1>1, <1>2, <1>4, AcceptedUpdate DEF HandlerRoute
  <2>2. ServerOwner \in Owners
    BY DEF ServerOwner, ResolveOwner, Owners
  <2> QED
    BY <2>1, <2>2, AskLawful
<1>5. CASE HandlerApply(q)
  <2>1. /\ rec.state = "pending" /\ req[q].restart \in RestartOptions
        /\ rec' = Direct(rec, req[q].restart)
    BY <1>1, <1>2, <1>5, AcceptedUpdate DEF HandlerApply
  <2>2. ~NeedsApproval'
    BY <1>5, DirectUnasked
  <2> QED
    BY <2>1, <2>2, ApplyLawful
<1>6. CASE HandlerApprove(q)
  <2>1. PICK owner \in LinkOwners :
            UpdateAndForget(q, Approved(copy[q], req[q].restart, owner))
    BY <1>6 DEF HandlerApprove
  <2>2. /\ rec.state = "awaiting-approval"
        /\ req[q].restart \in RestartOptions
        /\ rec' = Approved(rec, req[q].restart, owner)
    BY <1>1, <1>2, <1>6, <2>1, AcceptedUpdate DEF HandlerApprove
  <2>3. owner # ""
    BY DEF LinkOwners
  <2> QED
    BY <2>2, <2>3, ApproveLawful
<1>7. CASE HandlerRevert(q)
  <2>1. /\ rec' = Reverted(rec)
        /\ rec.state \in {"applied", "applied-pending-restart"}
    BY <1>1, <1>2, <1>7, AcceptedUpdate DEF HandlerRevert
  <2>2. rec.revertConfig # "none"
    BY <1>1, <2>1 DEF WellFormed, None
  <2>3. L!Revert /\ Frozen
    BY <1>1, <2>1, <2>2 DEF Reverted, L!Revert, Frozen, Recommendations
  <2> QED
    BY <2>3 DEF Lawful, L!Move
<1>8. CASE HandlerReject(q)
  <2>1. rec' = Rejected(rec) /\ rec.state = "awaiting-approval"
    BY <1>1, <1>2, <1>8, AcceptedUpdate DEF HandlerReject
  <2> QED
    BY <2>1, TurnDownLawful
<1> QED
  BY <1>3, <1>4, <1>5, <1>6, <1>7, <1>8 DEF HandlerContinue

(* Every step of the operator.                                             *)
LEMMA NextLawful == Inv /\ [Next]_vars => Lawful
<1> SUFFICES ASSUME Inv, Onward, [Next]_vars PROVE Lawful
  BY NextOnward
<1>1. CASE RecommendationStep
  BY <1>1, RecommendationLawful
<1>2. CASE RestartStep
  BY <1>2, RestartLawful
<1>3. CASE \E q \in Requests : HandlerBegin(q) \/ HandlerContinue(q)
  BY <1>3, HandlerLawful
<1>4. CASE WeekPasses
  <2>1. rec' = Aged(rec) /\ rec \in Recommendations
    BY <1>4, RecFacts DEF WeekPasses
  <2> QED
    BY <2>1 DEF Aged, Lawful, Frozen, Committed, L!lifecycle, Recommendations
<1>5. CASE ScheduleComes
  <2>1. rec' = Matured(rec) /\ rec \in Recommendations
        /\ rec.state = "applied-pending-restart"
        /\ rec.scheduledRestartAt = "future"
    BY <1>5, RecFacts DEF ScheduleComes
  <2>2. L!TimeComes /\ Frozen
    BY <2>1 DEF Matured, L!TimeComes, Frozen, Recommendations
  <2> QED
    BY <2>2 DEF Lawful, L!Move
<1>6. CASE CacheSync \/ (\E a \in Actors : Abort(a)) \/ Crash
           \/ UNCHANGED vars
  <2>1. rec' = rec
    BY <1>6 DEF CacheSync, Abort, Crash, Forget, vars, object
  <2> QED
    BY <2>1, KeptLawful
<1>7. CASE Edit
  <2>1. rec' = rec
    BY <1>7 DEF Edit, HandleExclude, HandleRemoveExclusion,
                HandleUpdatePolicy, VmResized, object
  <2> QED
    BY <2>1, KeptLawful
<1> QED
  BY <1>1, <1>2, <1>3, <1>4, <1>5, <1>6, <1>7 DEF Next

-----------------------------------------------------------------------------
(* Whatever the controllers, the requests, the cache and the failures do,  *)
(* the stored recommendation moves only along the transitions of the life  *)
(* cycle, and is never applied unasked where the owner has to agree.       *)
THEOREM Refinement == Spec => ImplementsLifecycle
<1>1. Init => L!Nothing
  <2>1. Init => rec = Absent
    BY Zenon DEF Init
  <2>2. ASSUME rec = Absent PROVE L!Nothing
    <3>1. rec.state = "absent" /\ rec.revertConfig = "none"
          /\ rec.scheduledRestartAt = "nil"
      BY <2>2 DEF Absent, None
    <3>2. rec.approvedBy = ""
      BY <2>2 DEF Absent
    <3> QED
      BY <3>1, <3>2 DEF L!Nothing
  <2> QED
    BY <2>1, <2>2
<1>2. Inv /\ [Next]_vars => [L!Move]_(L!lifecycle)
  BY NextLawful DEF Lawful
<1> QED
  BY <1>1, <1>2, Invariance, PTL DEF Spec, ImplementsLifecycle, L!Lives

(* No recalculation, not even one that started earlier, changes what the   *)
(* owner is asked about or what was applied.                               *)
THEOREM FrozenProposal == Spec => ProposalFrozen
<1>1. Inv /\ [Next]_vars
          => [rec.state \in Committed /\ rec'.state # "absent"
                 => rec'.recommended = rec.recommended
                    /\ rec'.current = rec.current]_vars
  BY NextLawful DEF Lawful, Frozen
<1> QED
  BY <1>1, Invariance, PTL DEF Spec, ProposalFrozen

(* A recommendation that was applied or awaits approval is deleted only by *)
(* a reconcile whose read is out of date; deleteExistingRecommendation     *)
(* spares what it sees in these states.                                    *)
THEOREM DeletesOldReadsOnly == Spec => DeletedByOldReadOnly
<1>1. Inv /\ [Next]_vars
          => [rec.state \in Committed /\ rec'.state = "absent"
                 => RC \in stale]_vars
  BY NextLawful DEF Lawful, Frozen
<1> QED
  BY <1>1, Invariance, PTL DEF Spec, DeletedByOldReadOnly

-----------------------------------------------------------------------------
(* Only the restart controller restarts the VM.                            *)
LEMMA RestartedBy ==
    ASSUME Inv, [Next]_vars
    PROVE  RestartVM \/ restarts' = restarts \/ restarts' = 0
<1>1. CASE RecommendationStep
  BY <1>1, Zenon
  DEF RecommendationStep, Begin, GetRecommendation, DeleteExisting, Create,
      Publish, Expire, SendReminder, StampReminder, UpdateSpec,
      UpdateLastCalculated, AutoRoute, AutoNotify, AutoUnowned, AutoPatch,
      AutoPatchFails, AutoStatus, mine, history
<1>2. CASE RestartStep
  BY <1>2, Zenon DEF RestartStep, RestartBegin, RestartVMFails, RestartStatus,
                     history
<1>3. CASE \E q \in Requests : HandlerBegin(q) \/ HandlerContinue(q)
  BY <1>3, Zenon
  DEF HandlerBegin, HandlerContinue, HandlerExclude, HandlerRoute,
      HandlerNotify, HandlerApply, HandlerApprove, HandlerRevert,
      HandlerReject, HandlerRefused, history
<1>4. CASE CacheSync \/ WeekPasses \/ ScheduleComes \/ Edit
  BY <1>4, Zenon DEF CacheSync, WeekPasses, ScheduleComes, Edit,
                     HandleExclude, HandleRemoveExclusion, HandleUpdatePolicy,
                     VmResized, history
<1>5. CASE (\E a \in Actors : Abort(a)) \/ Crash \/ UNCHANGED vars
  BY <1>5, Zenon DEF Abort, Crash, vars, history
<1> QED
  BY <1>1, <1>2, <1>3, <1>4, <1>5 DEF Next

(* A VM is restarted only while its recommendation waits for that restart  *)
(* and the time has come, or because the controller's read is out of date. *)
THEOREM RestartsDue == Spec => RestartsWhatIsDue
<1>1. ASSUME Inv, [Next]_vars, restarts' > restarts, RS \notin stale
      PROVE  /\ rec.state = "applied-pending-restart"
             /\ rec.scheduledRestartAt = "due"
  <2>1. restarts \in 0 .. 2
    BY <1>1 DEF Inv, TypeOK
  <2>2. RestartVM
    BY <1>1, <2>1, RestartedBy
  <2>3. RestartDue(copy[RS]) /\ copy[RS] = rec
    BY <1>1, <2>2, RecFacts, ActorFacts DEF RestartVM, Inv, RestartKnows
  <2> QED
    BY <2>3 DEF RestartDue
<1>2. Inv /\ [Next]_vars
          => [restarts' > restarts
                 => \/ /\ rec.state = "applied-pending-restart"
                       /\ rec.scheduledRestartAt = "due"
                    \/ RS \in stale]_vars
  BY <1>1
<1> QED
  BY <1>2, Invariance, PTL DEF Spec, RestartsWhatIsDue

============================================================================
