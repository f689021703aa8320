---------------------------- MODULE HistoryProofs ----------------------------
(***************************************************************************)
(* What the operator did to the VM and whom it told, in relation to what   *)
(* the stored recommendation says.  Each result holds for every set of     *)
(* sizes and of requests and any number of failures, under the condition   *)
(* on the deployment and on what people do that is named in it: the code   *)
(* promises no more.                                                       *)
(***************************************************************************)
EXTENDS LifecycleProofs

(* Channels and a route to the proxy are configured, demo mode is off.     *)
OwnersAreTold == Notifier /\ RouteHost /\ ~DemoMode

(* Nobody applies a recommendation in the console or approves one: only    *)
(* auto mode applies.                                                      *)
AutoOnly == \A op \in Ops : op.verb \notin {"apply", "approve"}

(* Only the operator changes the VM's size.                                *)
NobodyResizes == HandSizes = {}

----------------------------------------------------------------------------
(* autoApply holds the stored recommendation from its first step to its    *)
(* last, and has patched the VM when it comes to write the status.         *)
PatchInv ==
    /\ pc[RC] \in {"auto", "direct", "patched", "unpatched"} => RC \notin stale
    /\ pc[RC] = "patched" => vm.size = copy[RC].recommended
    /\ AppliedMeansPatched

(* Spec.Current is the size the VM had before the operator changed it.     *)
OriginalInv ==
    /\ pc[RC] \in {"get", "create"} => plan.size = vm.size
    /\ rec.state # "absent" =>
           rec.current = IF original = None THEN vm.size ELSE original

-----------------------------------------------------------------------------
(* Who writes the stored recommendation, in which state, and how.          *)
RcWrite ==
    \/ DeleteExisting /\ rec' = Absent
    \/ Create /\ rec = Absent /\ rec' = NewRecommendation
    \/ Publish /\ rec.state = "blank" /\ rec' = Published(rec)
    \/ Expire /\ rec.state = "awaiting-approval" /\ rec' = Expired(rec)
    \/ StampReminder /\ rec.state = "awaiting-approval" /\ rec' = Reminded(rec)
    \/ /\ UpdateSpec /\ rec.state \notin Protected \cup {"absent"}
       /\ rec' = Recalculated(rec)
    \/ /\ AutoRoute /\ ~Refused /\ rec.state = "pending"
       /\ rec' = AwaitApproval(rec, ResolveOwner)
    \/ /\ AutoStatus /\ pc[RC] = "patched" /\ rec.state = "pending"
       /\ rec' = AutoApplied(rec)
    \/ /\ AutoStatus /\ pc[RC] = "unpatched" /\ rec.state = "pending"
       /\ rec' = AutoFailed(rec)

RsWrite ==
    /\ RestartStatus /\ RestartDue(rec)
    /\ \/ pc[RS] = "restarted" /\ rec' = Restarted(rec)
       \/ pc[RS] = "unrestarted" /\ rec' = RestartFailed(rec)

RequestWrite(q) ==
    \/ /\ HandlerRoute(q) /\ req[q].verb = "apply" /\ rec.state = "pending"
       /\ rec' = AwaitApproval(rec, ServerOwner)
    \/ /\ HandlerApply(q) /\ req[q].verb = "apply" /\ rec.state = "pending"
       /\ rec' = Direct(rec, req[q].restart)
    \/ /\ HandlerApprove(q) /\ req[q].verb = "approve"
       /\ rec.state = "awaiting-approval"
       /\ \E owner \in LinkOwners :
              rec' = Approved(rec, req[q].restart, owner)
    \/ /\ HandlerRevert(q) /\ rec' = Reverted(rec)
       /\ rec.state \in {"applied", "applied-pending-restart"}
    \/ /\ HandlerReject(q) /\ rec.state = "awaiting-approval"
       /\ req[q].verb \in {"reject", "ownerReject", "ownerExclude"}
       /\ rec' = Rejected(rec)

LEMMA RcWrites ==
    ASSUME Inv, RecommendationStep
    PROVE  rec' = rec \/ RcWrite
<1>1. /\ RC \in Actors /\ RecommendationKnows /\ rec \in Recommendations
      /\ WellFormed(rec)
  BY ActorFacts, RecFacts DEF Inv
<1>2. ASSUME Refused PROVE rec' = rec
  BY <1>2 DEF Refused, Forget
<1>3. ASSUME NEW r, WriteAndContinue(r)
      PROVE  rec' = r /\ copy[RC] = rec
  BY <1>1, <1>3, AcceptedUpdate DEF WriteAndContinue
<1>4. CASE Begin \/ SendReminder \/ AutoUnowned \/ AutoPatch \/ AutoPatchFails
  BY <1>4 DEF Begin, SendReminder, AutoUnowned, AutoPatch, AutoPatchFails,
              object
<1>5. CASE GetRecommendation \/ AutoNotify
  BY <1>5 DEF GetRecommendation, AutoNotify, Get, Forget
<1>6. CASE DeleteExisting
  BY <1>6 DEF DeleteExisting, RcWrite
<1>7. CASE Create
  BY <1>1, <1>7 DEF Create, Store, WellFormed, Forget, RcWrite
<1>8. CASE Publish
  <2>1. CASE WriteAndContinue(Published(copy[RC]))
    <3>1. rec' = Published(rec) /\ rec.state = "blank"
      BY <1>1, <1>3, <1>8, <2>1 DEF Publish, At, RecommendationKnows
    <3> QED BY <1>8, <3>1 DEF RcWrite
  <2> QED BY <1>2, <1>8, <2>1 DEF Publish
<1>9. CASE Expire
  <2>1. CASE Update(RC, Expired(copy[RC]))
    <3>1. rec' = Expired(rec) /\ rec.state = "awaiting-approval"
      BY <1>1, <1>9, <2>1, AcceptedUpdate DEF Expire, At, RecommendationKnows
    <3> QED BY <1>9, <3>1 DEF RcWrite
  <2> QED BY <1>2, <1>9, <2>1 DEF Expire
<1>10. CASE StampReminder
  <2>1. CASE UpdateAndForget(RC, Reminded(copy[RC]))
    <3>1. rec' = Reminded(rec) /\ rec.state = "awaiting-approval"
      BY <1>1, <1>10, <2>1, AcceptedUpdate
      DEF StampReminder, At, RecommendationKnows
    <3> QED BY <1>10, <3>1 DEF RcWrite
  <2> QED BY <1>2, <1>10, <2>1 DEF StampReminder
<1>11. CASE UpdateSpec
  <2>1. CASE Update(RC, Recalculated(copy[RC]))
    <3>1. rec' = Recalculated(rec) /\ rec.state \notin Protected \cup {"absent"}
      BY <1>1, <1>11, <2>1, AcceptedUpdate
      DEF UpdateSpec, At, RecommendationKnows
    <3> QED BY <1>11, <3>1 DEF RcWrite
  <2> QED BY <1>2, <1>11, <2>1 DEF UpdateSpec
<1>12. CASE UpdateLastCalculated
  BY <1>2, <1>3, <1>12 DEF UpdateLastCalculated
<1>13. CASE AutoRoute
  <2>1. CASE ~Refused
    <3>1. rec' = AwaitApproval(rec, ResolveOwner) /\ rec.state = "pending"
      BY <1>1, <1>13, <2>1, AcceptedUpdate
      DEF AutoRoute, At, RecommendationKnows
    <3> QED BY <1>13, <2>1, <3>1 DEF RcWrite
  <2> QED BY <1>2, <2>1
<1>14. CASE AutoStatus
  <2>1. copy[RC].state = "pending"
    BY <1>1, <1>14 DEF AutoStatus, At, RecommendationKnows
  <2>2. CASE pc[RC] = "patched" /\ UpdateAndForget(RC, AutoApplied(copy[RC]))
    BY <1>1, <1>14, <2>1, <2>2, AcceptedUpdate DEF RcWrite
  <2>3. CASE pc[RC] = "unpatched" /\ UpdateAndForget(RC, AutoFailed(copy[RC]))
    BY <1>1, <1>14, <2>1, <2>3, AcceptedUpdate DEF RcWrite
  <2> QED BY <1>2, <1>14, <2>2, <2>3 DEF AutoStatus, At
<1> QED
  BY <1>4, <1>5, <1>6, <1>7, <1>8, <1>9, <1>10, <1>11, <1>12, <1>13, <1>14
  DEF RecommendationStep

LEMMA RsWrites ==
    ASSUME Inv, RestartStep
    PROVE  rec' = rec \/ RsWrite
<1>1. CASE RestartBegin \/ RestartVM \/ RestartVMFails
  BY <1>1 DEF RestartBegin, RestartVM, RestartVMFails, Get, object
<1>2. CASE RestartStatus
  <2>1. RestartDue(copy[RS]) /\ RS \in Actors
    BY <1>2, ActorFacts DEF RestartStatus, Inv, RestartKnows
  <2>2. CASE Conflict(RS) /\ Forget(RS)
    BY <2>2 DEF Forget
  <2>3. CASE ~(Conflict(RS) /\ Forget(RS))
    BY <1>2, <2>1, <2>3, AcceptedUpdate DEF RestartStatus, RsWrite
  <2> QED BY <2>2, <2>3
<1> QED BY <1>1, <1>2 DEF RestartStep

LEMMA RequestWrites ==
    ASSUME Inv, NEW q \in Requests, HandlerBegin(q) \/ HandlerContinue(q)
    PROVE  \/ RequestWrite(q)
           \/ /\ HandlerBegin(q) \/ HandlerExclude(q) \/ HandlerNotify(q)
                 \/ HandlerRefused(q)
              /\ rec' = rec
<1>1. q \in Actors /\ copy[q] \in Sound
  BY RcHolds, ActorFacts
<1>2. ASSUME pc[q] = "write"
      PROVE  /\ req[q].verb = "apply" => copy[q].state = "pending"
             /\ req[q].verb = "revert" =>
                    copy[q].state \in {"applied", "applied-pending-restart"}
             /\ req[q].verb \notin {"apply", "revert"} =>
                    copy[q].state = "awaiting-approval"
  <2>1. req[q] \in Ops /\ Admits(req[q], copy[q])
    BY <1>2 DEF Inv, RequestsKnow
  <2> QED BY <1>1, <2>1, AdmitsMeans
<1>3. CASE HandlerBegin(q) \/ HandlerExclude(q) \/ HandlerNotify(q)
           \/ HandlerRefused(q)
  BY <1>3 DEF HandlerBegin, HandlerExclude, HandlerNotify, HandlerRefused,
              Get, Forget, object
<1>4. CASE HandlerRoute(q)
  BY <1>1, <1>2, <1>4, AcceptedUpdate DEF HandlerRoute, RequestWrite
<1>5. CASE HandlerApply(q)
  BY <1>1, <1>2, <1>5, AcceptedUpdate DEF HandlerApply, RequestWrite
<1>6. CASE HandlerApprove(q)
  <2>1. PICK owner \in LinkOwners :
            UpdateAndForget(q, Approved(copy[q], req[q].restart, owner))
    BY <1>6 DEF HandlerApprove
  <2> QED BY <1>1, <1>2, <1>6, <2>1, AcceptedUpdate
          DEF HandlerApprove, RequestWrite
<1>7. CASE HandlerRevert(q)
  BY <1>1, <1>2, <1>7, AcceptedUpdate DEF HandlerRevert, RequestWrite
<1>8. CASE HandlerReject(q)
  BY <1>1, <1>2, <1>8, AcceptedUpdate DEF HandlerReject, RequestWrite
<1> QED BY <1>3, <1>4, <1>5, <1>6, <1>7, <1>8 DEF HandlerContinue

(* Every step writes in one of these ways, or lets time pass, or does not  *)
(* write.                                                                  *)
LEMMA Writes ==
    ASSUME Inv, [Next]_vars
    PROVE  \/ rec' = rec
           \/ RecommendationStep /\ RcWrite
           \/ RestartStep /\ RsWrite
           \/ \E q \in Requests : HandlerContinue(q) /\ RequestWrite(q)
           \/ WeekPasses /\ rec' = Aged(rec)
           \/ ScheduleComes /\ rec' = Matured(rec)
<1>1. CASE RecommendationStep
  BY <1>1, RcWrites
<1>2. CASE RestartStep
  BY <1>2, RsWrites
<1>3. CASE \E q \in Requests : HandlerBegin(q) \/ HandlerContinue(q)
  <2>1. PICK q \in Requests : HandlerBegin(q) \/ HandlerContinue(q)
    BY <1>3
  <2>2. CASE HandlerBegin(q)
    BY <2>2 DEF HandlerBegin, Get
  <2>3. CASE HandlerContinue(q)
    BY <2>3, RequestWrites
  <2> QED BY <2>1, <2>2, <2>3
<1>4. CASE WeekPasses \/ ScheduleComes
  BY <1>4 DEF WeekPasses, ScheduleComes
<1>5. CASE CacheSync \/ (\E a \in Actors : Abort(a)) \/ Crash
           \/ UNCHANGED vars
  BY <1>5 DEF CacheSync, Abort, Crash, Forget, vars, object
<1>6. CASE Edit
  BY <1>6 DEF Edit, HandleExclude, HandleRemoveExclusion,
              HandleUpdatePolicy, VmResized, object
<1> QED
  BY <1>1, <1>2, <1>3, <1>4, <1>5, <1>6 DEF Next

(* While another actor moves, the reconcile keeps its place, its plan and, *)
(* up to the time that passes, its copy, which turns stale only when that  *)
(* actor writes; or else a failure ends the reconcile.                     *)
Elsewhere ==
    \/ pc'[RC] = "idle" /\ faults' = faults + 1 /\ rec' = rec
    \/ /\ pc'[RC] = pc[RC] /\ plan' = plan
       /\ \/ copy'[RC] = copy[RC]
          \/ WeekPasses /\ copy'[RC] = Aged(copy[RC])
          \/ ScheduleComes /\ copy'[RC] = Matured(copy[RC])
       /\ \/ RC \in stale' <=> RC \in stale
          \/ RestartStep /\ RsWrite
          \/ \E q \in Requests : HandlerContinue(q) /\ RequestWrite(q)

LEMMA OthersAccess ==
    ASSUME Inv, NEW a \in Actors \ {RC}, NEW r,
           Get(a) \/ Forget(a) \/ Update(a, r) \/ UpdateAndForget(a, r)
    PROVE  /\ copy'[RC] = copy[RC]
           /\ ~Update(a, r) /\ ~UpdateAndForget(a, r) =>
                  (RC \in stale' <=> RC \in stale) /\ rec' = rec
BY ActorFacts DEF Inv, TypeOK, Get, Forget, Update, Store, UpdateAndForget

LEMMA RestartElsewhere ==
    ASSUME Inv, RestartStep
    PROVE  Elsewhere
<1>1. RS \in Actors \ {RC} /\ RC \in Actors
  BY ActorFacts
<1>2. pc'[RC] = pc[RC] /\ plan' = plan
  BY <1>1 DEF RestartStep, RestartBegin, RestartVM, RestartVMFails,
              RestartStatus, RestartGoto, Inv, TypeOK
<1>3. CASE RestartBegin
  BY <1>1, <1>2, <1>3 DEF RestartBegin, Elsewhere, Get, Inv, TypeOK, Holders
<1>4. CASE RestartVM \/ RestartVMFails
  BY <1>2, <1>4 DEF RestartVM, RestartVMFails, Elsewhere, object
<1>5. CASE RestartStatus
  <2>1. copy'[RC] = copy[RC]
    BY <1>1, <1>5, OthersAccess DEF RestartStatus
  <2>2. CASE Conflict(RS) /\ Forget(RS)
    BY <1>1, <1>2, <2>1, <2>2 DEF Forget, Elsewhere
  <2>3. CASE ~(Conflict(RS) /\ Forget(RS))
    <3>1. RestartDue(copy[RS])
      BY <1>5 DEF RestartStatus, Inv, RestartKnows
    <3>2. RsWrite
      BY <1>1, <1>5, <2>3, <3>1, AcceptedUpdate DEF RestartStatus, RsWrite
    <3> QED BY <1>2, <2>1, <3>2 DEF Elsewhere
  <2> QED BY <2>2, <2>3
<1> QED BY <1>3, <1>4, <1>5 DEF RestartStep

LEMMA RequestElsewhere ==
    ASSUME Inv, NEW q \in Requests, HandlerBegin(q) \/ HandlerContinue(q)
    PROVE  Elsewhere
<1>1. q \in Actors \ {RC} /\ RC \in Actors
  BY ActorFacts
<1>2. pc'[RC] = pc[RC] /\ plan' = plan
  BY <1>1 DEF HandlerBegin, HandlerContinue, HandlerExclude, HandlerRoute,
              HandlerNotify, HandlerApply, HandlerApprove, HandlerRevert,
              HandlerReject, HandlerRefused, Respond, RequestGoto, Inv, TypeOK
<1>3. CASE HandlerBegin(q) \/ HandlerNotify(q) \/ HandlerRefused(q)
  <2>1. Get(q) \/ Forget(q)
    BY <1>3 DEF HandlerBegin, HandlerNotify, HandlerRefused
  <2>2. copy'[RC] = copy[RC] /\ (RC \in stale' <=> RC \in stale)
    BY <1>1, <2>1, ActorFacts DEF Get, Forget, Inv, TypeOK
  <2> QED BY <1>2, <2>2 DEF Elsewhere
<1>4. CASE HandlerExclude(q)
  BY <1>2, <1>4 DEF HandlerExclude, Elsewhere, object
<1>5. CASE RequestWrite(q)
  <2>1. HandlerContinue(q)
    BY <1>5 DEF RequestWrite, HandlerContinue
  <2>2. \E r : Update(q, r) \/ UpdateAndForget(q, r)
    BY <1>5 DEF RequestWrite, HandlerRoute, HandlerApply, HandlerApprove,
                HandlerRevert, HandlerReject
  <2>3. copy'[RC] = copy[RC]
    BY <1>1, <2>2, OthersAccess
  <2> QED BY <1>2, <1>5, <2>1, <2>3 DEF Elsewhere
<1> QED BY <1>3, <1>4, <1>5, RequestWrites

LEMMA StepsElsewhere ==
    ASSUME Inv, [Next]_vars, ~RecommendationStep
    PROVE  Elsewhere
<1>1. RC \in Actors /\ RC \in Holders /\ RC # "cache"
  BY ActorFacts
<1>2. CASE RestartStep
  BY <1>2, RestartElsewhere
<1>3. CASE \E q \in Requests : HandlerBegin(q) \/ HandlerContinue(q)
  BY <1>3, RequestElsewhere
<1>4. CASE CacheSync
  BY <1>1, <1>4 DEF CacheSync, Elsewhere, Inv, TypeOK
<1>5. CASE WeekPasses
  BY <1>1, <1>5 DEF WeekPasses, Elsewhere
<1>6. CASE ScheduleComes
  BY <1>1, <1>6 DEF ScheduleComes, Elsewhere
<1>7. ASSUME NEW a \in Actors, Abort(a)
      PROVE  Elsewhere
  <2>1. CASE a = RC
    BY <1>1, <1>7, <2>1 DEF Abort, Forget, Elsewhere, Inv, TypeOK
  <2>2. CASE a # RC
    BY <1>1, <1>7, <2>2 DEF Abort, Forget, Elsewhere, Inv, TypeOK
  <2> QED BY <2>1, <2>2
<1>8. CASE Crash
  BY <1>1, <1>8 DEF Crash, Elsewhere
<1>9. CASE Edit
  BY <1>9 DEF Edit, HandleExclude, HandleRemoveExclusion, HandleUpdatePolicy,
              VmResized, object, Elsewhere
<1>10. CASE UNCHANGED vars
  BY <1>10 DEF vars, object, Elsewhere
<1> QED
  BY <1>2, <1>3, <1>4, <1>5, <1>6, <1>7, <1>8, <1>9, <1>10 DEF Next

(* The VM's size changes under autoApply's patch and by hand.              *)
LEMMA VmSizeKept ==
    ASSUME Inv, [Next]_vars
    PROVE  \/ vm'.size = vm.size /\ (original' = original \/ Create)
           \/ AutoPatch
           \/ \E s \in HandSizes : VmResized(s)
<1>1. vm \in [size: Sizes, exclude: {"true", "unset"}]
  BY DEF Inv, TypeOK
<1>2. CASE RecommendationStep
  BY <1>2 DEF RecommendationStep, Begin, GetRecommendation, DeleteExisting,
      Publish, Expire, SendReminder, StampReminder, UpdateSpec,
      UpdateLastCalculated, AutoRoute, AutoNotify, AutoUnowned,
      AutoPatchFails, AutoStatus, Create, mine, environment, history
<1>3. CASE RestartStep
  BY <1>3 DEF RestartStep, RestartBegin, RestartVM, RestartVMFails,
      RestartStatus, environment, history
<1>4. CASE \E q \in Requests : HandlerBegin(q) \/ HandlerContinue(q)
  BY <1>1, <1>4 DEF HandlerBegin, HandlerContinue, HandlerExclude,
      HandlerRoute, HandlerNotify, HandlerApply, HandlerApprove, HandlerRevert,
      HandlerReject, HandlerRefused, environment, history
<1>5. CASE CacheSync \/ WeekPasses \/ ScheduleComes \/ Edit
  BY <1>1, <1>5 DEF CacheSync, WeekPasses, ScheduleComes, Edit, HandleExclude,
      HandleRemoveExclusion, HandleUpdatePolicy, environment, history
<1>6. CASE (\E a \in Actors : Abort(a)) \/ Crash \/ UNCHANGED vars
  BY <1>6 DEF Abort, Crash, vars, environment, history
<1> QED BY <1>2, <1>3, <1>4, <1>5, <1>6 DEF Next

(* A request that writes is one of those that people make.                 *)
LEMMA RequestMade ==
    ASSUME Inv, NEW q \in Requests, RequestWrite(q)
    PROVE  req[q] \in Ops
<1>1. pc[q] = "write"
  BY DEF RequestWrite, HandlerRoute, HandlerApply, HandlerApprove,
         HandlerRevert, HandlerReject
<1> QED BY <1>1 DEF Inv, RequestsKnow

(* What the reconcile's writes do to the fields that the results below are *)
(* about.                                                                  *)
RcOutcome ==
    \/ DeleteExisting /\ rec'.state = "absent" /\ rec'.reminderSentAt = "nil"
    \/ /\ Create /\ rec.state = "absent" /\ rec'.state = "blank"
       /\ rec'.current = plan.size /\ rec'.reminderSentAt = "nil"
    \/ /\ rec'.current = rec.current
       /\ \/ /\ Publish /\ rec.state = "blank" /\ rec'.state = "pending"
             /\ rec'.reminderSentAt = rec.reminderSentAt
          \/ /\ Expire /\ rec.state = "awaiting-approval"
             /\ rec'.state = "pending" /\ rec'.reminderSentAt = "nil"
          \/ /\ StampReminder /\ rec.state = "awaiting-approval"
             /\ rec'.state = "awaiting-approval" /\ rec'.reminderSentAt = "set"
             /\ rec'.notifiedAt = rec.notifiedAt
          \/ /\ UpdateSpec /\ rec.state \notin Protected \cup {"absent"}
             /\ rec'.state = rec.state
             /\ rec'.reminderSentAt = rec.reminderSentAt
          \/ /\ AutoRoute /\ ~Refused /\ rec.state = "pending"
             /\ rec'.state = "awaiting-approval" /\ rec'.notifiedAt = "fresh"
             /\ rec'.reminderSentAt = rec.reminderSentAt
          \/ /\ AutoStatus /\ pc[RC] = "patched" /\ rec.state = "pending"
             /\ rec' = AutoApplied(rec) /\ rec'.recommended = rec.recommended
          \/ /\ AutoStatus /\ pc[RC] = "unpatched" /\ rec.state = "pending"
             /\ rec'.state = "failed"

LEMMA RcWriteFields ==
    ASSUME Inv, RcWrite
    PROVE  RcOutcome
<1>1. rec \in Recommendations
  BY RecFacts
<1>2. CASE Publish /\ rec.state = "blank" /\ rec' = Published(rec)
  BY <1>1, <1>2 DEF RcOutcome, Published, Recommendations
<1>3. CASE Expire /\ rec.state = "awaiting-approval" /\ rec' = Expired(rec)
  BY <1>1, <1>3 DEF RcOutcome, Expired, Recommendations
<1>4. CASE StampReminder /\ rec.state = "awaiting-approval"
           /\ rec' = Reminded(rec)
  BY <1>1, <1>4 DEF RcOutcome, Reminded, Recommendations
<1>5. CASE UpdateSpec /\ rec.state \notin Protected \cup {"absent"}
           /\ rec' = Recalculated(rec)
  BY <1>1, <1>5 DEF RcOutcome, Recalculated, Recommendations
<1>6. CASE AutoRoute /\ ~Refused /\ rec.state = "pending"
           /\ rec' = AwaitApproval(rec, ResolveOwner)
  BY <1>1, <1>6 DEF RcOutcome, AwaitApproval, Recommendations
<1>7. CASE AutoStatus /\ pc[RC] = "patched" /\ rec.state = "pending"
           /\ rec' = AutoApplied(rec)
  BY <1>1, <1>7 DEF RcOutcome, AutoApplied, Recommendations
<1>8. CASE AutoStatus /\ pc[RC] = "unpatched" /\ rec.state = "pending"
           /\ rec' = AutoFailed(rec)
  BY <1>1, <1>8 DEF RcOutcome, AutoFailed, Recommendations
<1>9. CASE DeleteExisting /\ rec' = Absent
  BY <1>9 DEF RcOutcome, Absent
<1>10. CASE Create /\ rec = Absent /\ rec' = NewRecommendation
  BY <1>10 DEF RcOutcome, Absent, NewRecommendation
<1> QED
  BY <1>2, <1>3, <1>4, <1>5, <1>6, <1>7, <1>8, <1>9, <1>10 DEF RcWrite

(* Where a step takes the reconcile and what it then holds: nothing, what  *)
(* the cache has, or what it has just stored.                              *)
RcMove ==
    \/ pc'[RC] = "idle"
    \/ /\ Begin /\ pc'[RC] = "get" /\ UNCHANGED object
       /\ plan'.size = vm.size
       /\ vm.exclude = "unset" => plan'.verdict \in Verdicts
    \/ /\ plan' = plan
       /\ \/ /\ GetRecommendation /\ Get(RC)
             /\ pc'[RC] = IF plan.verdict = None THEN "delete"
                                                ELSE Branch(copy["cache"])
             /\ pc'[RC] \in {"delete", "create", "expire", "remind", "update"}
          \/ Create /\ pc'[RC] = "publish"
          \/ Publish /\ pc'[RC] = "auto" /\ RC \notin stale'
          \/ Expire /\ pc'[RC] = "update"
          \/ SendReminder /\ pc'[RC] = "stamp" /\ UNCHANGED object
          \/ UpdateSpec /\ pc'[RC] = "calculated"
          \/ UpdateLastCalculated /\ pc'[RC] = "auto" /\ RC \notin stale'
          \/ /\ AutoRoute /\ pc'[RC] = "notify"
             /\ rec' = AwaitApproval(copy[RC], ResolveOwner)
          \/ AutoUnowned /\ pc'[RC] = "direct" /\ UNCHANGED object
          \/ AutoPatch /\ pc'[RC] = "patched" /\ UNCHANGED object
          \/ AutoPatchFails /\ pc'[RC] = "unpatched" /\ UNCHANGED object

LEMMA RcMoves ==
    ASSUME Inv, RecommendationStep
    PROVE  RcMove
<1>1. RC \in Actors
  BY ActorFacts
<1>2. ASSUME Return PROVE RcMove
  BY <1>2, RcAt DEF Return, RcMove
<1>3. ASSUME Refused PROVE RcMove
  BY <1>2, <1>3 DEF Refused
<1>4. ASSUME NEW r, WriteAndContinue(r), Publish \/ UpdateLastCalculated
      PROVE  RcMove
  <2>1. CASE Update(RC, r) /\ Proceed("auto")
    <3>1. pc'[RC] = "auto" /\ plan' = plan /\ RC \notin stale'
      BY <2>1, RcAt DEF Proceed, Update, Store
    <3> QED BY <1>4, <3>1 DEF RcMove
  <2> QED BY <1>2, <1>4, <2>1 DEF WriteAndContinue
<1>5. CASE Begin
  <2>1. PICK v \in Verdicts :
            plan' = [auto |-> auto, size |-> vm.size,
                     verdict |-> IF vm.exclude = "true" THEN None ELSE v]
    BY <1>5 DEF Begin
  <2> QED BY <1>5, <2>1, RcAt DEF Begin, RcMove
<1>6. CASE GetRecommendation
  <2> DEFINE next == IF plan.verdict = None THEN DeleteBranch(copy["cache"])
                                            ELSE Branch(copy["cache"])
  <2>1. CASE next = "idle"
    BY <1>2, <1>6, <2>1 DEF GetRecommendation
  <2>2. CASE next # "idle"
    <3>1. Get(RC) /\ pc'[RC] = next /\ plan' = plan
      BY <1>6, <2>2, RcAt DEF GetRecommendation, Proceed
    <3>2. next = IF plan.verdict = None THEN "delete" ELSE Branch(copy["cache"])
      BY <2>2 DEF DeleteBranch
    <3>3. next \in {"delete", "create", "expire", "remind", "update"}
      BY <2>2 DEF DeleteBranch, Branch
    <3> QED BY <1>6, <3>1, <3>2, <3>3 DEF RcMove
  <2> QED BY <2>1, <2>2
<1>7. CASE DeleteExisting \/ AutoNotify \/ StampReminder \/ AutoStatus
  BY <1>2, <1>3, <1>7 DEF DeleteExisting, AutoNotify, StampReminder, AutoStatus
<1>8. CASE Create
  BY <1>2, <1>8, RcAt DEF Create, Proceed, RcMove
<1>9. CASE Publish
  BY <1>3, <1>4, <1>9 DEF Publish
<1>10. CASE UpdateLastCalculated
  BY <1>3, <1>4, <1>10 DEF UpdateLastCalculated
<1>11. CASE Expire
  BY <1>3, <1>11, RcAt DEF Expire, Proceed, RcMove
<1>12. CASE UpdateSpec
  BY <1>3, <1>12, RcAt DEF UpdateSpec, Proceed, RcMove
<1>13. CASE AutoRoute
  BY <1>2, <1>3, <1>13, RcAt DEF AutoRoute, Proceed, RcMove, Update, Store
<1>14. CASE SendReminder
  BY <1>14, RcAt DEF SendReminder, Proceed, RcMove
<1>15. CASE AutoUnowned
  BY <1>15, RcAt DEF AutoUnowned, Proceed, RcMove
<1>16. CASE AutoPatch
  BY <1>16, RcAt DEF AutoPatch, Proceed, RcMove
<1>17. CASE AutoPatchFails
  BY <1>17, RcAt DEF AutoPatchFails, Proceed, RcMove
<1> QED
  BY <1>5, <1>6, <1>7, <1>8, <1>9, <1>10, <1>11, <1>12, <1>13, <1>14, <1>15,
     <1>16, <1>17 DEF RecommendationStep

-----------------------------------------------------------------------------
(* Where only auto mode applies recommendations, the status follows what   *)
(* autoApply did to the VM.                                                *)

LEMMA HotplugKept ==
    ASSUME AutoOnly, Inv, HotplugNeedsNoRestart, [Next]_vars
    PROVE  HotplugNeedsNoRestart'
<1> SUFFICES ASSUME VmHotplug, rec.state # "applied-pending-restart"
             PROVE  rec'.state # "applied-pending-restart"
  BY DEF HotplugNeedsNoRestart
<1>1. rec \in Recommendations
  BY RecFacts
<1>2. CASE RcWrite
  BY <1>1, <1>2, RcWriteFields DEF RcOutcome, AutoApplied, Protected,
      Recommendations
<1>3. CASE RsWrite
  BY <1>3 DEF RsWrite, RestartDue
<1>4. ASSUME NEW q \in Requests, RequestWrite(q)
      PROVE  rec'.state # "applied-pending-restart"
  BY <1>1, <1>4, RequestMade DEF AutoOnly, RequestWrite, Reverted, Rejected,
      Recommendations
<1>5. CASE WeekPasses /\ rec' = Aged(rec)
  BY <1>1, <1>5 DEF Aged, Recommendations
<1>6. CASE ScheduleComes
  BY <1>6 DEF ScheduleComes
<1> QED BY <1>2, <1>3, <1>4, <1>5, <1>6, Writes

(* Nobody but the reconcile writes a pending recommendation.               *)
LEMMA PendingIsMine ==
    ASSUME AutoOnly, Inv, rec.state = "pending"
    PROVE  ~RsWrite /\ \A q \in Requests : ~RequestWrite(q)
BY RequestMade DEF AutoOnly, RsWrite, RestartDue, RequestWrite

LEMMA PatchKept ==
    ASSUME AutoOnly, NobodyResizes, Inv, PatchInv, [Next]_vars
    PROVE  PatchInv'
<1> DEFINE Holding == {"auto", "direct", "patched", "unpatched"}
<1>1. /\ RC \in Actors /\ rec \in Recommendations /\ RecommendationKnows
      /\ RC \in Holders
  BY ActorFacts, RecFacts DEF Inv
<1>2. /\ pc[RC] \in Holding => rec.state = "pending" /\ copy[RC] = rec
      /\ rec.state \in {"applied", "applied-pending-restart"} =>
             vm.size = rec.recommended
  BY <1>1, RecFacts DEF PatchInv, RecommendationKnows, AppliedMeansPatched
<1>3. ASSUME ~RecommendationStep
      PROVE  PatchInv'
  <2>1. vm'.size = vm.size
    BY <1>3, VmSizeKept DEF NobodyResizes, RecommendationStep
  <2>2. /\ pc'[RC] \in Holding => /\ RC \notin stale' /\ pc[RC] = pc'[RC]
                                  /\ copy'[RC].recommended = copy[RC].recommended
    <3>1. copy[RC] \in Recommendations
      BY <1>1 DEF Inv, TypeOK
    <3> QED BY <1>2, <1>3, <3>1, StepsElsewhere, PendingIsMine
            DEF Elsewhere, PatchInv, Aged, Matured, Recommendations
  <2>3. ASSUME rec'.state \in {"applied", "applied-pending-restart"}
        PROVE  /\ rec.state \in {"applied", "applied-pending-restart"}
               /\ rec'.recommended = rec.recommended
    <3>1. CASE RsWrite
      BY <1>1, <3>1 DEF RsWrite, RestartDue, Restarted, RestartFailed,
                        Recommendations
    <3>2. ASSUME NEW q \in Requests, RequestWrite(q)
          PROVE  rec'.state \notin {"applied", "applied-pending-restart"}
      BY <1>1, <3>2, RequestMade DEF AutoOnly, RequestWrite, Reverted, Rejected,
                                     Recommendations
    <3>3. CASE rec' = Aged(rec) \/ rec' = Matured(rec)
      BY <1>1, <2>3, <3>3 DEF Aged, Matured, Recommendations
    <3> QED BY <1>3, <2>3, <3>1, <3>2, <3>3, Writes
  <2> QED BY <1>2, <2>1, <2>2, <2>3 DEF PatchInv, AppliedMeansPatched
<1>4. CASE AutoPatch
  <2>1. /\ pc'[RC] = "patched" /\ UNCHANGED object /\ rec.state = "pending"
        /\ RC \notin stale
    BY <1>1, <1>2, <1>4, RcAt DEF AutoPatch, At, Proceed, PatchInv
  <2>2. vm'.size = copy[RC].recommended
    BY <1>4 DEF AutoPatch, Inv, TypeOK
  <2> QED BY <2>1, <2>2 DEF PatchInv, AppliedMeansPatched, object
<1>5. ASSUME RecommendationStep, ~AutoPatch
      PROVE  PatchInv'
  <2>1. vm'.size = vm.size
    BY <1>5, VmSizeKept DEF NobodyResizes
  <2>2. pc'[RC] \in Holding => RC \notin stale' /\ pc'[RC] # "patched"
    BY <1>5, RcMoves DEF RcMove, PatchInv, object, AutoUnowned, AutoPatchFails, At
  <2>3. ASSUME rec'.state \in {"applied", "applied-pending-restart"}
        PROVE  vm.size = rec'.recommended
    <3>1. CASE RcWrite
      <4>1. pc[RC] = "patched" /\ rec'.recommended = rec.recommended
        BY <2>3, <3>1, RcWriteFields DEF RcOutcome, Protected
      <4> QED BY <1>2, <4>1 DEF PatchInv
    <3> QED BY <1>2, <1>5, <2>3, <3>1, RcWrites
  <2> QED BY <2>1, <2>2, <2>3 DEF PatchInv, AppliedMeansPatched
<1> QED BY <1>3, <1>4, <1>5

LEMMA Start ==
    ASSUME Init
    PROVE  /\ rec = Absent /\ rec.state = "absent" /\ rec.reminderSentAt = "nil"
           /\ \A a \in Actors : pc[a] = "idle"
           /\ \A h \in Holders : copy[h].state = "absent"
           /\ vm.exclude = "unset" /\ restarts = 0 /\ reminders = 0
BY DEF Init, Absent

(* A VM that takes resources while it runs is never left waiting for a     *)
(* restart by auto mode, which looks at the VM itself (the console's and   *)
(* the owner's requests look at a field that nothing sets).                *)
THEOREM HotplugIsImmediate ==
    ASSUME AutoOnly
    PROVE  Spec => []HotplugNeedsNoRestart
<1>1. Init => HotplugNeedsNoRestart
  BY Start DEF HotplugNeedsNoRestart
<1>2. Inv /\ HotplugNeedsNoRestart /\ [Next]_vars => HotplugNeedsNoRestart'
  BY HotplugKept
<1> QED BY <1>1, <1>2, Invariance, PTL DEF Spec

(* What auto mode calls applied is what the VM was patched to, whatever    *)
(* the console, the restart controller, a stale cache or a failure did     *)
(* between the patch and the status update.                                *)
THEOREM AppliedIsPatched ==
    ASSUME AutoOnly, NobodyResizes
    PROVE  Spec => []AppliedMeansPatched
<1>1. Init => PatchInv
  BY Start, ActorFacts DEF PatchInv, AppliedMeansPatched
<1>2. Inv /\ PatchInv /\ [Next]_vars => PatchInv'
  BY PatchKept
<1>3. PatchInv => AppliedMeansPatched
  BY DEF PatchInv
<1> QED BY <1>1, <1>2, <1>3, Invariance, PTL DEF Spec

-----------------------------------------------------------------------------
(* The other actors change neither Spec.Current nor whether there is a     *)
(* recommendation.                                                         *)
LEMMA OthersKeepCurrent ==
    ASSUME Inv, [Next]_vars, ~RecommendationStep
    PROVE  /\ rec'.current = rec.current
           /\ rec'.state = "absent" <=> rec.state = "absent"
<1>1. rec \in Recommendations
  BY RecFacts
<1>2. CASE RsWrite
  BY <1>1, <1>2 DEF RsWrite, RestartDue, Restarted, RestartFailed,
                    Recommendations
<1>3. ASSUME NEW q \in Requests, RequestWrite(q)
      PROVE  /\ rec'.current = rec.current
             /\ rec'.state # "absent" /\ rec.state # "absent"
  BY <1>1, <1>3 DEF RequestWrite, AwaitApproval, Direct, Approved, ApplyWith,
      SpecHotplugCapable, Reverted, Rejected, Recommendations
<1>4. CASE rec' = Aged(rec) \/ rec' = Matured(rec)
  BY <1>1, <1>4 DEF Aged, Matured, Recommendations
<1> QED BY <1>2, <1>3, <1>4, Writes

LEMMA OriginalKept ==
    ASSUME NobodyResizes, Inv, OriginalInv, [Next]_vars
    PROVE  OriginalInv'
<1>1. vm.size \in Sizes /\ vm.size # None /\ rec \in Recommendations
  BY RecFacts, SizesAssumption DEF Inv, TypeOK
<1>2. CASE ~RecommendationStep
  <2>1. vm'.size = vm.size /\ original' = original
    BY <1>2, VmSizeKept DEF NobodyResizes, RecommendationStep
  <2>2. pc'[RC] \in {"get", "create"} => plan'.size = vm.size
    BY <1>2, StepsElsewhere DEF Elsewhere, OriginalInv
  <2>3. /\ rec'.current = rec.current
        /\ rec'.state = "absent" \/ rec.state # "absent"
    BY <1>2, OthersKeepCurrent
  <2> QED BY <2>1, <2>2, <2>3 DEF OriginalInv
<1>3. CASE AutoPatch
  <2>1. pc'[RC] = "patched" /\ rec' = rec
    BY <1>3, RcAt DEF AutoPatch, Proceed, object
  <2>2. original' = IF original = None THEN vm.size ELSE original
    BY <1>3 DEF AutoPatch
  <2> QED BY <1>1, <2>1, <2>2 DEF OriginalInv
<1>4. CASE Create
  <2>1. vm' = vm /\ pc[RC] = "create" /\ pc'[RC] \in {"publish", "idle"}
    BY <1>4, RcAt DEF Create, environment, At, Proceed, Return
  <2>2. CASE rec.state = "absent"
    <3>1. rec'.current = plan.size /\ original' = None
      BY <1>4, <2>2 DEF Create, Store, NewRecommendation, Absent
    <3> QED BY <2>1, <3>1 DEF OriginalInv
  <2>3. CASE rec.state # "absent"
    <3>1. rec' = rec /\ original' = original
      BY <1>4, <2>3 DEF Create, Forget, history
    <3> QED BY <2>1, <3>1 DEF OriginalInv
  <2> QED BY <2>2, <2>3
<1>5. ASSUME RecommendationStep, ~AutoPatch, ~Create
      PROVE  OriginalInv'
  <2>1. vm'.size = vm.size /\ original' = original
    BY <1>5, VmSizeKept DEF NobodyResizes
  <2>2. pc'[RC] \in {"get", "create"} => plan'.size = vm.size
    BY <1>5, RcMoves DEF RcMove, OriginalInv, GetRecommendation, At
  <2>3. \/ rec'.state = "absent"
        \/ rec'.current = rec.current /\ rec.state # "absent"
        \/ rec' = rec
    BY <1>5, RcWrites, RcWriteFields DEF RcOutcome
  <2> QED BY <2>1, <2>2, <2>3 DEF OriginalInv
<1> QED BY <1>2, <1>3, <1>4, <1>5

(* The configuration that a revert goes back to is the one the VM had      *)
(* before the operator's first change, through recalculations, failed and  *)
(* repeated patches, expired approvals and crashes; if nobody else resizes *)
(* the VM.                                                                 *)
THEOREM RevertGoesBack ==
    ASSUME NobodyResizes
    PROVE  Spec => []RevertConfigIsOriginal
<1>1. Init => OriginalInv
  BY Start, ActorFacts DEF OriginalInv
<1>2. Inv /\ OriginalInv /\ [Next]_vars => OriginalInv'
  BY OriginalKept
<1>3. Inv /\ OriginalInv => RevertConfigIsOriginal
  BY RecFacts DEF OriginalInv, RevertConfigIsOriginal, WellFormed
<1> QED BY <1>1, <1>2, <1>3, Invariance, PTL DEF Spec

-----------------------------------------------------------------------------
(* A handler that has stored an approval request sends it out next, unless *)
(* a failure stops it; only such handlers start an approval cycle.         *)
Asked ==
    /\ \/ sent' = sent \/ sent'
       \/ \E a \in Actors : pc'[a] = "notify"
    /\ \/ rec'.state = "awaiting-approval" => rec.state = "awaiting-approval"
       \/ \E a \in Actors : pc'[a] = "notify"
    /\ faults' = faults \/ faults' = faults + 1
    /\ \A a \in Actors : pc[a] = "notify" =>
           pc'[a] = "notify" \/ sent' \/ faults' = faults + 1

LEMMA RcAsks ==
    ASSUME OwnersAreTold, Inv, RecommendationStep
    PROVE  Asked
<1>1. RC \in Actors /\ rec \in Recommendations
  BY ActorFacts, RecFacts
<1>2. \A a \in Actors \ {RC} : pc'[a] = pc[a]
  BY DEF RecommendationStep, Begin, GetRecommendation, DeleteExisting, Create,
      Publish, Expire, SendReminder, StampReminder, UpdateSpec,
      UpdateLastCalculated, AutoRoute, AutoNotify, AutoUnowned, AutoPatch,
      AutoPatchFails, AutoStatus, WriteAndContinue, Refused, Proceed, Return,
      Goto, Inv, TypeOK
<1>3. CASE AutoNotify
  BY <1>3, RcWrites, RcWriteFields
  DEF AutoNotify, Asked, Forget
<1>4. CASE AutoRoute
  <2>1. faults' = faults /\ pc[RC] = "auto"
    BY <1>4 DEF AutoRoute, At
  <2>2. \/ pc'[RC] = "notify"
        \/ sent' = sent /\ rec' = rec
    BY <1>4, RcAt DEF AutoRoute, OwnersAreTold, Proceed, Refused, Forget
  <2> QED BY <1>1, <1>2, <2>1, <2>2 DEF Asked
<1>5. ASSUME ~AutoNotify, ~AutoRoute
      PROVE  Asked
  <2>1. rec'.state = "awaiting-approval" => rec.state = "awaiting-approval"
    BY <1>1, <1>5, RcWrites, RcWriteFields DEF RcOutcome, AutoApplied, Protected,
                                              Recommendations
  <2>2. /\ sent' = sent /\ pc[RC] # "notify"
        /\ faults' = faults \/ faults' = faults + 1
    BY <1>5 DEF RecommendationStep, Begin, GetRecommendation, DeleteExisting,
      Create, Publish, Expire, SendReminder, StampReminder, UpdateSpec,
      UpdateLastCalculated, AutoUnowned, AutoPatch, AutoPatchFails, AutoStatus,
      mine, history, At, LookupFails
  <2> QED BY <1>2, <2>1, <2>2 DEF Asked
<1> QED BY <1>3, <1>4, <1>5

LEMMA RequestAsks ==
    ASSUME OwnersAreTold, Inv, NEW q \in Requests,
           HandlerBegin(q) \/ HandlerContinue(q)
    PROVE  Asked
<1>1. q \in Actors /\ rec \in Recommendations
  BY ActorFacts, RecFacts
<1>2. \A a \in Actors \ {q} : pc'[a] = pc[a]
  BY DEF HandlerBegin, HandlerContinue, HandlerExclude, HandlerRoute,
      HandlerNotify, HandlerApply, HandlerApprove, HandlerRevert,
      HandlerReject, HandlerRefused, Respond, RequestGoto, Inv, TypeOK
<1>3. CASE HandlerNotify(q)
  BY <1>2, <1>3 DEF HandlerNotify, Asked, Forget
<1>4. CASE HandlerRoute(q)
  <2>1. pc'[q] = "notify" /\ faults' = faults
    BY <1>1, <1>4 DEF HandlerRoute, OwnersAreTold, RequestGoto, Inv, TypeOK
  <2> QED BY <1>1, <1>2, <2>1 DEF Asked
<1>5. ASSUME ~HandlerNotify(q), ~HandlerRoute(q)
      PROVE  Asked
  <2>1. rec'.state = "awaiting-approval" => rec.state = "awaiting-approval"
    BY <1>1, <1>5, RequestWrites DEF RequestWrite, Direct, Approved, ApplyWith,
      SpecHotplugCapable, Reverted, Rejected, Recommendations
  <2>2. /\ sent' = sent /\ pc[q] # "notify"
        /\ faults' = faults \/ faults' = faults + 1
    BY <1>5 DEF HandlerBegin, HandlerContinue, HandlerExclude, HandlerApply,
      HandlerApprove, HandlerRevert, HandlerReject, HandlerRefused, history,
      LookupFails
  <2> QED BY <1>2, <2>1, <2>2 DEF Asked
<1> QED BY <1>3, <1>4, <1>5

LEMMA EveryoneAsks ==
    ASSUME OwnersAreTold, Inv, [Next]_vars
    PROVE  Asked
<1>1. rec \in Recommendations /\ RS \in Actors
  BY ActorFacts, RecFacts
<1>2. CASE RecommendationStep
  BY <1>2, RcAsks
<1>3. CASE \E q \in Requests : HandlerBegin(q) \/ HandlerContinue(q)
  BY <1>3, RequestAsks
<1>4. CASE RestartStep
  <2>1. rec'.state = "awaiting-approval" => rec.state = "awaiting-approval"
    BY <1>1, <1>4, RsWrites DEF RsWrite, Restarted, RestartFailed,
                                Recommendations
  <2>2. \A a \in Actors : pc[a] = "notify" => pc'[a] = "notify"
    BY <1>1, <1>4 DEF RestartStep, RestartBegin, RestartVM, RestartVMFails,
        RestartStatus, RestartGoto, Inv, TypeOK, RsLabels
  <2>3. sent' = sent /\ (faults' = faults \/ faults' = faults + 1)
    BY <1>4 DEF RestartStep, RestartBegin, RestartVM, RestartVMFails,
        RestartStatus, history
  <2> QED BY <2>1, <2>2, <2>3 DEF Asked
<1>5. CASE WeekPasses \/ ScheduleComes
  BY <1>1, <1>5 DEF WeekPasses, ScheduleComes, Aged, Matured, Recommendations,
                    history, Asked
<1>6. CASE CacheSync
  BY <1>6 DEF CacheSync, history, Asked
<1>7. CASE Edit \/ UNCHANGED vars
  BY <1>7 DEF Edit, HandleExclude, HandleRemoveExclusion, HandleUpdatePolicy,
              VmResized, vars, object, history, Asked
<1>8. CASE (\E a \in Actors : Abort(a)) \/ Crash
  BY <1>8 DEF Abort, Crash, Forget, history, Asked
<1> QED
  BY <1>2, <1>3, <1>4, <1>5, <1>6, <1>7, <1>8 DEF Next

(* Where channels and the proxy's route are configured, an owner whose     *)
(* approval is awaited has been told or is being told: no interleaving of  *)
(* the reconcile and the console, no collision and no stale cache leaves a *)
(* silent request; only a failure between the status update and the        *)
(* sending does.                                                           *)
THEOREM OwnersAreNotified ==
    ASSUME OwnersAreTold
    PROVE  Spec => []OwnerNotified
<1>1. Init => OwnerNotified
  BY Start DEF OwnerNotified
<1>2. ASSUME Inv, OwnerNotified, [Next]_vars
      PROVE  OwnerNotified'
  <2>1. faults \in Nat
    BY <1>2, MaxFaultsAssumption DEF Inv, TypeOK
  <2>2. Asked
    BY <1>2, EveryoneAsks
  <2> QED BY <1>2, <2>1, <2>2 DEF Asked, OwnerNotified
<1> QED BY <1>1, <1>2, Invariance, PTL DEF Spec

=============================================================================
