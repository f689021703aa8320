----------------------------- MODULE CycleProofs -----------------------------
(***************************************************************************)
(* One reminder in an approval cycle and one restart for a change of the   *)
(* VM, whatever is lost, retried or late on the way.  Each result holds    *)
(* for every set of sizes and of requests and any number of failures,      *)
(* under the condition on what people do that is named in it.              *)
(***************************************************************************)
EXTENDS HistoryProofs

(* Nobody turns an approval request down.                                  *)
NobodyRejects ==
    \A op \in Ops : op.verb \notin {"reject", "ownerReject", "ownerExclude"}

(* The analysis always recommends something and nobody excludes the VM, so *)
(* that no recommendation is deleted.                                      *)
NothingWithdrawn ==
    /\ None \notin Verdicts /\ "exclude" \notin Edits
    /\ \A op \in Ops : op.verb # "ownerExclude"

----------------------------------------------------------------------------
(* The reminder stamp belongs to the approval cycle of the recommendation. *)
StampInv ==
    /\ StampMeansReminded
    /\ rec.state \in {"absent", "blank", "pending"} =>
           rec.reminderSentAt = "nil"
    /\ pc[RC] = "stamp" /\ RC \notin stale => reminders > 0

(* A cached approval request that has not expired is the stored one, or    *)
(* one that was reminded of or answered since; hence a reconcile on its    *)
(* way to a reminder has either the stored request, or one that cannot     *)
(* come back.                                                              *)
CachedRequest ==
    copy["cache"].state = "awaiting-approval"
        /\ copy["cache"].notifiedAt # "expired" =>
    /\ rec.state \notin {"blank", "pending"}
    /\ rec.state = "awaiting-approval" =>
           /\ rec.notifiedAt = copy["cache"].notifiedAt
           /\ "cache" \in stale => rec.reminderSentAt = "set"

ReminderInv ==
    /\ rec.state = "awaiting-approval" /\ rec.reminderSentAt = "nil" =>
           reminders = 0 \/ faults > 0 \/ (pc[RC] = "stamp" /\ RC \notin stale)
    /\ CachedRequest
    /\ pc[RC] = "create" /\ rec.state = "absent" =>
           copy["cache"].state = "absent"
    /\ pc[RC] = "expire" => copy[RC].notifiedAt = "expired"
    /\ pc[RC] = "remind" => copy[RC].reminderSentAt = "nil"
    /\ pc[RC] \in {"remind", "stamp"} =>
           /\ rec.state \notin {"blank", "pending"}
           /\ rec.state = "awaiting-approval" /\ RC \in stale =>
                  rec.reminderSentAt = "set"

(* A recommendation waits for a restart at most once in its life, and has  *)
(* had it only while the restart controller is about to say so.            *)
Settled == {"applied", "reverted", "failed"}

RestartInv ==
    /\ vm.exclude = "unset" /\ \A q \in Requests : pc[q] # "exclude"
    /\ pc[RC] # "idle" => plan.verdict # None
    /\ pc[RC] # "delete"
    /\ \A h \in Holders : copy[h].state = "applied-pending-restart" =>
           h \notin stale \/ rec.state \in Settled
    /\ restarts > 0 => rec.state \in Settled \cup {"applied-pending-restart"}
    /\ restarts > 0 /\ rec.state = "applied-pending-restart" =>
           faults > 0 \/ (pc[RS] = "restarted" /\ RS \notin stale)

-----------------------------------------------------------------------------
(* What the other actors' writes do to the stored recommendation: each     *)
(* outdates the copy of the reconcile.                                     *)
OthersOutcome ==
    \/ rec' = rec /\ (RC \in stale' <=> RC \in stale)
    \/ /\ rec'.state = rec.state /\ rec'.reminderSentAt = rec.reminderSentAt
       /\ (RC \in stale' <=> RC \in stale)
       /\ \/ WeekPasses /\ rec' = Aged(rec)
          \/ ScheduleComes /\ rec.state = "applied-pending-restart"
    \/ /\ RC \in stale'
       /\ \/ /\ rec.state = "applied-pending-restart"
             /\ rec'.state \in {"applied", "failed"}
          \/ /\ \E q \in Requests : HandlerRoute(q)
             /\ rec.state = "pending" /\ rec'.state = "awaiting-approval"
             /\ rec'.reminderSentAt = rec.reminderSentAt
          \/ /\ rec.state \in {"pending", "awaiting-approval"}
             /\ rec'.state = "applied-pending-restart"
          \/ /\ rec.state \in {"applied", "applied-pending-restart"}
             /\ rec'.state = "reverted"
          \/ /\ rec.state = "awaiting-approval" /\ rec'.state = "pending"
             /\ \E op \in Ops :
                    op.verb \in {"reject", "ownerReject", "ownerExclude"}

LEMMA Outdated ==
    ASSUME Inv, NEW a \in Actors \ {RC}, NEW r,
           Update(a, r) \/ UpdateAndForget(a, r)
    PROVE  RC \in stale'
BY ActorFacts DEF Update, Store, UpdateAndForget, InStep

LEMMA RsOutcome ==
    ASSUME Inv, RestartStep
    PROVE  OthersOutcome
<1>1. rec \in Recommendations /\ RS \in Actors \ {RC}
  BY ActorFacts, RecFacts
<1>2. CASE RestartBegin \/ RestartVM \/ RestartVMFails
  BY <1>1, <1>2 DEF RestartBegin, RestartVM, RestartVMFails, Get, object,
                    OthersOutcome
<1>3. CASE RestartStatus
  <2>1. RestartDue(copy[RS])
    BY <1>3 DEF RestartStatus, Inv, RestartKnows
  <2>2. CASE Conflict(RS) /\ Forget(RS)
    BY <1>1, <2>2 DEF Forget, OthersOutcome
  <2>3. CASE ~(Conflict(RS) /\ Forget(RS))
    <3>1. PICK r \in {Restarted(copy[RS]), RestartFailed(copy[RS])} :
              UpdateAndForget(RS, r)
      BY <1>3, <2>3 DEF RestartStatus
    <3>2. RC \in stale' /\ rec' = r /\ copy[RS] = rec
      BY <1>1, <3>1, Outdated, AcceptedUpdate
    <3>3. rec'.state \in {"applied", "failed"}
      BY <1>1, <3>1, <3>2 DEF Restarted, RestartFailed, Recommendations
    <3> QED BY <2>1, <3>2, <3>3 DEF RestartDue, OthersOutcome
  <2> QED BY <2>2, <2>3
<1> QED BY <1>2, <1>3 DEF RestartStep

LEMMA RequestOutcome ==
    ASSUME Inv, NEW q \in Requests, HandlerBegin(q) \/ HandlerContinue(q)
    PROVE  OthersOutcome
<1>1. rec \in Recommendations /\ q \in Actors \ {RC}
  BY ActorFacts, RecFacts
<1>2. CASE RequestWrite(q)
  <2>1. PICK r : Update(q, r) \/ UpdateAndForget(q, r)
    BY <1>2 DEF RequestWrite, HandlerRoute, HandlerApply, HandlerApprove,
                HandlerRevert, HandlerReject
  <2>2. RC \in stale' /\ req[q] \in Ops
    BY <1>1, <1>2, <2>1, Outdated, RequestMade
  <2>3. CASE HandlerRoute(q) /\ rec.state = "pending"
             /\ rec' = AwaitApproval(rec, ServerOwner)
    BY <1>1, <2>2, <2>3 DEF AwaitApproval, Recommendations, OthersOutcome
  <2>4. CASE /\ rec.state \in {"pending", "awaiting-approval"}
             /\ \E t, o : \/ rec' = Direct(rec, t)
                          \/ rec' = Approved(rec, t, o)
    <3>1. rec'.state = "applied-pending-restart"
      BY <1>1, <2>4 DEF Direct, Approved, ApplyWith, SpecHotplugCapable,
                        Recommendations
    <3> QED BY <2>2, <2>4, <3>1 DEF OthersOutcome
  <2>5. CASE /\ rec.state \in {"applied", "applied-pending-restart"}
             /\ rec' = Reverted(rec)
    BY <1>1, <2>2, <2>5 DEF Reverted, Recommendations, OthersOutcome
  <2>6. CASE /\ rec.state = "awaiting-approval" /\ rec' = Rejected(rec)
             /\ req[q].verb \in {"reject", "ownerReject", "ownerExclude"}
    BY <1>1, <2>2, <2>6 DEF Rejected, Recommendations, OthersOutcome
  <2> QED BY <1>2, <2>3, <2>4, <2>5, <2>6 DEF RequestWrite
<1>3. CASE HandlerBegin(q) \/ HandlerNotify(q) \/ HandlerRefused(q)
  BY <1>1, <1>3 DEF HandlerBegin, HandlerNotify, HandlerRefused, Get, Forget,
                    OthersOutcome
<1>4. CASE HandlerExclude(q)
  BY <1>4 DEF HandlerExclude, object, OthersOutcome
<1> QED BY <1>2, <1>3, <1>4, RequestWrites

LEMMA OthersOutcomes ==
    ASSUME Inv, [Next]_vars, ~RecommendationStep
    PROVE  OthersOutcome \/ (rec' = rec /\ faults' = faults + 1 /\ pc'[RC] = "idle")
<1>1. rec \in Recommendations /\ RC \in Actors /\ RC # "cache"
  BY ActorFacts, RecFacts
<1>2. CASE RestartStep
  BY <1>2, RsOutcome
<1>3. CASE \E q \in Requests : HandlerBegin(q) \/ HandlerContinue(q)
  BY <1>3, RequestOutcome
<1>4. CASE CacheSync
  BY <1>1, <1>4 DEF CacheSync, OthersOutcome
<1>5. CASE WeekPasses
  BY <1>1, <1>5 DEF WeekPasses, Aged, Recommendations, OthersOutcome
<1>6. CASE ScheduleComes
  BY <1>1, <1>6 DEF ScheduleComes, Matured, Recommendations, OthersOutcome
<1>7. ASSUME NEW a \in Actors, Abort(a)
      PROVE  \/ OthersOutcome
             \/ rec' = rec /\ faults' = faults + 1 /\ pc'[RC] = "idle"
  BY <1>1, <1>7 DEF Abort, Forget, Inv, TypeOK, OthersOutcome
<1>8. CASE Crash
  BY <1>1, <1>8 DEF Crash
<1>9. CASE Edit \/ UNCHANGED vars
  BY <1>9 DEF Edit, HandleExclude, HandleRemoveExclusion, HandleUpdatePolicy,
              VmResized, vars, object, OthersOutcome
<1> QED
  BY <1>2, <1>3, <1>4, <1>5, <1>6, <1>7, <1>8, <1>9 DEF Next

(* Reminders are counted from the last time that an approval was asked for.*)
LEMMA RemindersKept ==
    ASSUME Inv, [Next]_vars
    PROVE  \/ reminders' = reminders
           \/ SendReminder
           \/ /\ AutoRoute \/ \E q \in Requests : HandlerRoute(q)
              /\ reminders' = 0
<1>1. CASE RecommendationStep
  BY <1>1 DEF RecommendationStep, Begin, GetRecommendation, DeleteExisting,
      Create, Publish, Expire, StampReminder, UpdateSpec,
      UpdateLastCalculated, AutoRoute, AutoNotify, AutoUnowned, AutoPatch,
      AutoPatchFails, AutoStatus, mine, history
<1>2. CASE RestartStep
  BY <1>2 DEF RestartStep, RestartBegin, RestartVM, RestartVMFails,
      RestartStatus, history
<1>3. CASE \E q \in Requests : HandlerBegin(q) \/ HandlerContinue(q)
  BY <1>3 DEF HandlerBegin, HandlerContinue, HandlerExclude, HandlerRoute,
      HandlerNotify, HandlerApply, HandlerApprove, HandlerRevert,
      HandlerReject, HandlerRefused, history
<1>4. CASE CacheSync \/ WeekPasses \/ ScheduleComes \/ Edit
  BY <1>4 DEF CacheSync, WeekPasses, ScheduleComes, Edit, HandleExclude,
      HandleRemoveExclusion, HandleUpdatePolicy, VmResized, history
<1>5. CASE (\E a \in Actors : Abort(a)) \/ Crash \/ UNCHANGED vars
  BY <1>5 DEF Abort, Crash, vars, history
<1> QED BY <1>1, <1>2, <1>3, <1>4, <1>5 DEF Next

(* A cycle starts on a pending recommendation.                             *)
LEMMA RouteStarts ==
    ASSUME Inv, [Next]_vars
    PROVE  /\ AutoRoute =>
                  \/ rec' = rec /\ reminders' = reminders /\ pc'[RC] = "idle"
                  \/ /\ rec.state = "pending" /\ rec'.state = "awaiting-approval"
                     /\ rec'.reminderSentAt = rec.reminderSentAt
                     /\ reminders' = 0 /\ pc'[RC] \in {"notify", "idle"}
           /\ \A q \in Requests : HandlerRoute(q) =>
                  /\ rec.state = "pending" /\ rec'.state = "awaiting-approval"
                  /\ rec'.reminderSentAt = rec.reminderSentAt
                  /\ reminders' = 0 /\ RC \in stale'
<1>1. /\ RC \in Actors /\ rec \in Recommendations /\ RecommendationKnows
      /\ \A o : /\ AwaitApproval(rec, o).state = "awaiting-approval"
                /\ AwaitApproval(rec, o).reminderSentAt = rec.reminderSentAt
  BY ActorFacts, RecFacts DEF Inv, AwaitApproval, Recommendations
<1>2. ASSUME AutoRoute
      PROVE  \/ rec' = rec /\ reminders' = reminders /\ pc'[RC] = "idle"
             \/ /\ rec.state = "pending" /\ rec'.state = "awaiting-approval"
                /\ rec'.reminderSentAt = rec.reminderSentAt
                /\ reminders' = 0 /\ pc'[RC] \in {"notify", "idle"}
  <2>1. copy[RC].state = "pending"
    BY <1>1, <1>2 DEF AutoRoute, At, RecommendationKnows
  <2>2. CASE Refused /\ UNCHANGED <<sent, reminders>>
    BY <2>2, RcAt DEF Refused, Forget, Return
  <2>3. CASE ~(Refused /\ UNCHANGED <<sent, reminders>>)
    <3>1. /\ \/ /\ Update(RC, AwaitApproval(copy[RC], ResolveOwner))
                /\ Proceed("notify")
             \/ /\ UpdateAndForget(RC, AwaitApproval(copy[RC], ResolveOwner))
                /\ Return
          /\ reminders' = 0
      BY <1>2, <2>3 DEF AutoRoute
    <3>2. pc'[RC] \in {"notify", "idle"}
      BY <3>1, RcAt DEF Proceed, Return
    <3>3. rec' = AwaitApproval(rec, ResolveOwner) /\ rec.state = "pending"
      BY <1>1, <2>1, <3>1, AcceptedUpdate
    <3> QED BY <1>1, <3>1, <3>2, <3>3
  <2> QED BY <2>2, <2>3
<1>3. ASSUME NEW q \in Requests, HandlerRoute(q)
      PROVE  /\ rec.state = "pending" /\ rec'.state = "awaiting-approval"
             /\ rec'.reminderSentAt = rec.reminderSentAt
             /\ reminders' = 0 /\ RC \in stale'
  <2>1. q \in Actors \ {RC} /\ copy[q] \in Sound
    BY ActorFacts, RcHolds
  <2>2. req[q] \in Ops /\ Admits(req[q], copy[q]) /\ req[q].verb = "apply"
    BY <1>3 DEF HandlerRoute, Inv, RequestsKnow
  <2>3. copy[q].state = "pending"
    BY <2>1, <2>2, AdmitsMeans
  <2>4. /\ \/ Update(q, AwaitApproval(copy[q], ServerOwner))
           \/ UpdateAndForget(q, AwaitApproval(copy[q], ServerOwner))
        /\ reminders' = 0
    BY <1>3 DEF HandlerRoute
  <2>5. rec' = AwaitApproval(rec, ServerOwner) /\ rec.state = "pending"
        /\ RC \in stale'
    BY <2>1, <2>3, <2>4, AcceptedUpdate, Outdated
  <2> QED BY <1>1, <2>4, <2>5
<1> QED BY <1>2, <1>3

LEMMA StampKept ==
    ASSUME NobodyRejects, Notifier, Inv, StampInv, [Next]_vars
    PROVE  StampInv'
<1>1. RC \in Actors /\ rec \in Recommendations /\ reminders \in 0 .. 2
  BY ActorFacts, RecFacts DEF Inv, TypeOK
<1>2. CASE AutoRoute
  BY <1>2, RouteStarts DEF StampInv, StampMeansReminded
<1>3. CASE \E q \in Requests : HandlerRoute(q)
  BY <1>3, RouteStarts DEF StampInv, StampMeansReminded
<1>4. CASE SendReminder
  <2>1. reminders' > 0
    BY <1>1, <1>4 DEF SendReminder
  <2>2. rec' = rec
    BY <1>4 DEF SendReminder, object
  <2> QED BY <2>1, <2>2 DEF StampInv, StampMeansReminded
<1>5. ASSUME RecommendationStep, ~AutoRoute, ~SendReminder,
             ~\E q \in Requests : HandlerRoute(q)
      PROVE  StampInv'
  <2>1. reminders' = reminders
    BY <1>5, RemindersKept
  <2>2. pc'[RC] # "stamp"
    BY <1>5, RcMoves DEF RcMove, Branch
  <2>3. CASE StampReminder
    <3>1. rec' = rec \/ (RC \notin stale /\ rec.state = "awaiting-approval"
                         /\ rec'.state = "awaiting-approval")
      <4>1. CASE Refused
        BY <4>1 DEF Refused, Forget
      <4>2. CASE UpdateAndForget(RC, Reminded(copy[RC]))
        <5>1. copy[RC].state = "awaiting-approval"
          BY <2>3 DEF StampReminder, At, Inv, RecommendationKnows
        <5>2. rec' = Reminded(rec) /\ copy[RC] = rec /\ RC \notin stale
          BY <1>1, <4>2, AcceptedUpdate DEF UpdateAndForget
        <5> QED BY <1>1, <5>1, <5>2 DEF Reminded, Recommendations
      <4> QED BY <2>3, <4>1, <4>2 DEF StampReminder
    <3>2. pc[RC] = "stamp"
      BY <2>3 DEF StampReminder, At
    <3> QED BY <2>1, <2>2, <3>1, <3>2 DEF StampInv, StampMeansReminded
  <2>4. CASE ~StampReminder
    <3>1. \/ rec' = rec
          \/ /\ rec'.state # "awaiting-approval"
             /\ \/ rec'.state \notin {"absent", "blank", "pending"}
                \/ rec'.reminderSentAt = "nil"
      BY <1>1, <1>5, <2>4, RcWrites, RcWriteFields
      DEF RcOutcome, StampInv, AutoApplied, Protected, Recommendations
    <3> QED BY <2>1, <2>2, <3>1 DEF StampInv, StampMeansReminded
  <2> QED BY <2>3, <2>4
<1>6. ASSUME ~RecommendationStep, ~\E q \in Requests : HandlerRoute(q)
      PROVE  StampInv'
  <2>1. reminders' = reminders
    BY <1>6, RemindersKept DEF RecommendationStep
  <2>2. pc'[RC] = "stamp" => pc[RC] = "stamp"
    BY <1>6, StepsElsewhere DEF Elsewhere
  <2>3. \/ rec' = rec /\ (pc'[RC] = "stamp" => (RC \in stale' <=> RC \in stale))
        \/ /\ rec'.state = rec.state /\ rec'.reminderSentAt = rec.reminderSentAt
           /\ (RC \in stale' <=> RC \in stale)
        \/ /\ RC \in stale' /\ rec'.state # "awaiting-approval"
           /\ rec'.state \notin {"absent", "blank", "pending"}
    BY <1>6, OthersOutcomes DEF OthersOutcome, NobodyRejects
  <2> QED BY <2>1, <2>2, <2>3 DEF StampInv, StampMeansReminded
<1> QED BY <1>2, <1>3, <1>4, <1>5, <1>6

(* The reminder's stamp is about the approval cycle it stands in: where    *)
(* nobody turns requests down, a stamped request was reminded of.          *)
THEOREM StampsAreOfThisCycle ==
    ASSUME NobodyRejects, Notifier
    PROVE  Spec => []StampMeansReminded
<1>1. Init => StampInv
  BY Start, ActorFacts DEF StampInv, StampMeansReminded
<1>2. Inv /\ StampInv /\ [Next]_vars => StampInv'
  BY StampKept
<1>3. StampInv => StampMeansReminded
  BY DEF StampInv
<1> QED BY <1>1, <1>2, <1>3, Invariance, PTL DEF Spec

-----------------------------------------------------------------------------
(* What a step of a does to the copies: it reads, forgets or does nothing, *)
(* or it stores a new version, which outdates every other copy.            *)
Quiet(a) ==
    /\ rec' = rec
    /\ \A h \in Holders :
           \/ copy'[h] = copy[h] /\ (h \in stale' <=> h \in stale)
           \/ /\ h = a /\ copy'[h] = copy["cache"]
              /\ (h \in stale' <=> "cache" \in stale)
           \/ h = a /\ copy'[h] = Absent /\ h \in stale'

Stored(a) ==
    \A h \in Holders :
        \/ h \notin stale' /\ copy'[h] = rec' /\ h \in {a, "cache"}
        \/ h \in stale' /\ copy'[h] = IF h = a THEN Absent ELSE copy[h]

LEMMA QuietOrStored ==
    ASSUME Inv, NEW a \in Actors
    PROVE  /\ Get(a) \/ Forget(a) \/ UNCHANGED object => Quiet(a)
           /\ \A r : Update(a, r) \/ UpdateAndForget(a, r) => Stored(a)
           /\ \A r : Store(r, {a}) => Stored(a)
<1>1. /\ a \in Holders /\ a # "cache" /\ InStep \subseteq {"cache"}
      /\ copy \in [Holders -> Recommendations] /\ stale \subseteq Holders
  BY ActorFacts DEF Inv, TypeOK
<1>2. Get(a) => Quiet(a)
  BY <1>1 DEF Get, Quiet
<1>3. Forget(a) => Quiet(a)
  BY <1>1 DEF Forget, Quiet
<1>4. UNCHANGED object => Quiet(a)
  BY DEF object, Quiet
<1>5. ASSUME NEW r, Store(r, {a})
      PROVE  Stored(a)
  BY <1>1, <1>5 DEF Store, Stored
<1>6. ASSUME NEW r, UpdateAndForget(a, r)
      PROVE  Stored(a)
  BY <1>1, <1>6 DEF UpdateAndForget, Stored
<1> QED BY <1>2, <1>3, <1>4, <1>5, <1>6 DEF Update

LEMMA RcEffect ==
    ASSUME Inv, RecommendationStep
    PROVE  \/ Quiet(RC)
           \/ Stored(RC) /\ RcWrite
           \/ /\ Stored(RC) /\ rec' = rec
              /\ rec.state \notin Protected \cup {"absent"}
<1>1. RC \in Actors /\ RecommendationKnows /\ copy[RC] \in Recommendations
  BY ActorFacts DEF Inv, TypeOK, Holders
<1>2. ASSUME Refused PROVE Quiet(RC)
  BY <1>1, <1>2, QuietOrStored DEF Refused
<1>3. CASE Begin \/ SendReminder \/ AutoUnowned \/ AutoPatch \/ AutoPatchFails
  BY <1>1, <1>3, QuietOrStored DEF Begin, SendReminder, AutoUnowned, AutoPatch,
                                   AutoPatchFails
<1>4. CASE GetRecommendation \/ AutoNotify
  BY <1>1, <1>4, QuietOrStored DEF GetRecommendation, AutoNotify
<1>5. CASE DeleteExisting
  <2>1. InStep \subseteq {"cache"} /\ RC \in Holders /\ RC # "cache"
    BY ActorFacts
  <2>2. Stored(RC)
    BY <1>5, <2>1 DEF DeleteExisting, Stored
  <2>3. RcWrite
    BY <1>5 DEF DeleteExisting, RcWrite
  <2> QED BY <2>2, <2>3
<1>6. CASE Create
  <2>1. CASE rec.state = "absent"
    <3>1. Store(NewRecommendation, {RC})
      BY <1>6, <2>1 DEF Create
    <3>2. rec = Absent /\ rec' = NewRecommendation
      BY <2>1, <3>1, RecFacts DEF WellFormed, Store
    <3> QED BY <1>1, <1>6, <3>1, <3>2, QuietOrStored DEF RcWrite
  <2>2. CASE rec.state # "absent"
    BY <1>1, <1>6, <2>2, QuietOrStored DEF Create
  <2> QED BY <2>1, <2>2
<1>7. ASSUME NEW r, Update(RC, r) \/ UpdateAndForget(RC, r),
             r.state # copy[RC].state
      PROVE  Stored(RC) /\ RcWrite
  <2>1. Stored(RC) /\ rec' = r /\ copy[RC] = rec
    BY <1>1, <1>7, QuietOrStored, AcceptedUpdate
  <2> QED BY <1>7, <2>1, RcWrites
<1>8. CASE Publish
  <2>1. Published(copy[RC]).state # copy[RC].state
    BY <1>1, <1>8 DEF Publish, At, RecommendationKnows, Published,
                      Recommendations
  <2> QED BY <1>2, <1>7, <1>8, <2>1 DEF Publish, WriteAndContinue
<1>9. CASE Expire
  <2>1. Expired(copy[RC]).state # copy[RC].state
    BY <1>1, <1>9 DEF Expire, At, RecommendationKnows, Expired, Recommendations
  <2> QED BY <1>2, <1>7, <1>9, <2>1 DEF Expire
<1>10. CASE AutoRoute
  <2>1. AwaitApproval(copy[RC], ResolveOwner).state # copy[RC].state
    BY <1>1, <1>10 DEF AutoRoute, At, RecommendationKnows, AwaitApproval,
                       Recommendations
  <2> QED BY <1>2, <1>7, <1>10, <2>1 DEF AutoRoute
<1>11. CASE AutoStatus
  <2>1. /\ AutoApplied(copy[RC]).state # copy[RC].state
        /\ AutoFailed(copy[RC]).state # copy[RC].state
    BY <1>1, <1>11 DEF AutoStatus, At, RecommendationKnows, AutoApplied,
                       AutoFailed, Recommendations
  <2> QED BY <1>2, <1>7, <1>11, <2>1 DEF AutoStatus
<1>12. CASE StampReminder
  <2>1. CASE UpdateAndForget(RC, Reminded(copy[RC]))
    <3>1. Stored(RC) /\ rec' = Reminded(rec) /\ rec.state = "awaiting-approval"
      BY <1>1, <1>12, <2>1, AcceptedUpdate, QuietOrStored
      DEF StampReminder, At, RecommendationKnows
    <3> QED BY <1>12, <3>1 DEF RcWrite
  <2> QED BY <1>2, <1>12, <2>1 DEF StampReminder
<1>13. CASE UpdateSpec
  <2>1. CASE Update(RC, Recalculated(copy[RC]))
    <3>1. /\ Stored(RC) /\ rec' = Recalculated(rec)
          /\ rec.state \notin Protected \cup {"absent"}
      BY <1>1, <1>13, <2>1, AcceptedUpdate, QuietOrStored
      DEF UpdateSpec, At, RecommendationKnows
    <3> QED BY <1>13, <3>1 DEF RcWrite
  <2> QED BY <1>2, <1>13, <2>1 DEF UpdateSpec
<1>14. CASE UpdateLastCalculated
  <2>1. CASE WriteAndContinue(copy[RC])
    <3>1. Update(RC, copy[RC]) \/ UpdateAndForget(RC, copy[RC])
      BY <2>1 DEF WriteAndContinue
    <3> QED BY <1>1, <1>14, <3>1, AcceptedUpdate, QuietOrStored
            DEF UpdateLastCalculated, At, RecommendationKnows
  <2> QED BY <1>2, <1>14, <2>1 DEF UpdateLastCalculated
<1> QED
  BY <1>3, <1>4, <1>5, <1>6, <1>8, <1>9, <1>10, <1>11, <1>12, <1>13, <1>14
  DEF RecommendationStep

LEMMA RsEffect ==
    ASSUME Inv, RestartStep
    PROVE  Quiet(RS) \/ (Stored(RS) /\ RsWrite)
<1>1. RS \in Actors
  BY ActorFacts
<1>2. CASE RestartBegin \/ RestartVM \/ RestartVMFails
  BY <1>1, <1>2, QuietOrStored DEF RestartBegin, RestartVM, RestartVMFails
<1>3. CASE RestartStatus
  <2>1. RestartDue(copy[RS])
    BY <1>3 DEF RestartStatus, Inv, RestartKnows
  <2>2. CASE Conflict(RS) /\ Forget(RS)
    BY <1>1, <2>2, QuietOrStored
  <2>3. CASE ~(Conflict(RS) /\ Forget(RS))
    BY <1>1, <1>3, <2>1, <2>3, AcceptedUpdate, QuietOrStored
    DEF RestartStatus, RsWrite
  <2> QED BY <2>2, <2>3
<1> QED BY <1>2, <1>3 DEF RestartStep

LEMMA RequestEffect ==
    ASSUME Inv, NEW q \in Requests, HandlerBegin(q) \/ HandlerContinue(q)
    PROVE  Quiet(q) \/ (Stored(q) /\ RequestWrite(q))
<1>1. q \in Actors
  BY ActorFacts
<1>2. CASE RequestWrite(q)
  <2>1. PICK r : Update(q, r) \/ UpdateAndForget(q, r)
    BY <1>2 DEF RequestWrite, HandlerRoute, HandlerApply, HandlerApprove,
                HandlerRevert, HandlerReject
  <2> QED BY <1>1, <1>2, <2>1, QuietOrStored
<1>3. CASE HandlerBegin(q) \/ HandlerNotify(q) \/ HandlerRefused(q)
           \/ HandlerExclude(q)
  BY <1>1, <1>3, QuietOrStored DEF HandlerBegin, HandlerNotify, HandlerRefused,
                                   HandlerExclude
<1> QED BY <1>2, <1>3, RequestWrites

LEMMA Effects ==
    ASSUME Inv, [Next]_vars
    PROVE  \/ \E a \in Actors : Quiet(a)
           \/ RecommendationStep /\ Stored(RC) /\ RcWrite
           \/ /\ RecommendationStep /\ Stored(RC) /\ rec' = rec
              /\ rec.state \notin Protected \cup {"absent"}
           \/ Stored(RS) /\ RsWrite
           \/ \E q \in Requests : Stored(q) /\ RequestWrite(q)
           \/ CacheSync \/ WeekPasses \/ ScheduleComes \/ Crash
<1>1. RC \in Actors /\ RS \in Actors /\ \A q \in Requests : q \in Actors
  BY ActorFacts
<1>2. CASE RecommendationStep
  BY <1>1, <1>2, RcEffect
<1>3. CASE RestartStep
  BY <1>1, <1>3, RsEffect
<1>4. CASE \E q \in Requests : HandlerBegin(q) \/ HandlerContinue(q)
  BY <1>1, <1>4, RequestEffect
<1>5. CASE \E a \in Actors : Abort(a)
  BY <1>5, QuietOrStored DEF Abort
<1>6. CASE Edit \/ UNCHANGED vars
  BY <1>1, <1>6, QuietOrStored DEF Edit, HandleExclude, HandleRemoveExclusion,
      HandleUpdatePolicy, VmResized, vars
<1> QED BY <1>2, <1>3, <1>4, <1>5, <1>6 DEF Next

-----------------------------------------------------------------------------
LEMMA AgedFields ==
    ASSUME NEW r \in Recommendations
    PROVE  /\ Aged(r).state = r.state /\ Aged(r).reminderSentAt = r.reminderSentAt
           /\ Aged(r).notifiedAt = Older(r.notifiedAt)
           /\ Matured(r).state = r.state
           /\ Matured(r).reminderSentAt = r.reminderSentAt
           /\ Matured(r).notifiedAt = r.notifiedAt
BY DEF Aged, Matured, Recommendations

(* The write that a step makes while the cache shows an open request.      *)
LEMMA CachedStored ==
    ASSUME NobodyRejects, Inv, ReminderInv, [Next]_vars,
           copy["cache"].state = "awaiting-approval",
           copy["cache"].notifiedAt # "expired",
           \/ RecommendationStep /\ RcWrite
           \/ rec' = rec /\ rec.state \notin Protected \cup {"absent"}
           \/ RsWrite
           \/ \E q \in Requests : RequestWrite(q)
    PROVE  /\ rec'.state \notin {"blank", "pending"}
           /\ rec'.state = "awaiting-approval" =>
                  /\ rec'.notifiedAt = copy["cache"].notifiedAt
                  /\ rec'.reminderSentAt = "set"
<1>1. /\ rec \in Recommendations /\ RC \in Actors
      /\ rec.state \notin {"blank", "pending"}
      /\ rec.state = "awaiting-approval" =>
             rec.notifiedAt = copy["cache"].notifiedAt
  BY RecFacts, ActorFacts DEF ReminderInv, CachedRequest
<1>2. CASE rec' = rec /\ rec.state \notin Protected \cup {"absent"}
  BY <1>1, <1>2 DEF Protected
<1>3. CASE RsWrite
  BY <1>1, <1>3 DEF RsWrite, RestartDue, Restarted, RestartFailed,
                    Recommendations
<1>4. ASSUME NEW q \in Requests, RequestWrite(q)
      PROVE  rec'.state \in {"applied-pending-restart", "reverted"}
  <2>1. CASE \E t, o : rec' = Approved(rec, t, o)
    BY <1>1, <2>1 DEF Approved, ApplyWith, SpecHotplugCapable, Recommendations
  <2>2. CASE rec' = Reverted(rec)
    BY <1>1, <2>2 DEF Reverted, Recommendations
  <2> QED BY <1>1, <1>4, <2>1, <2>2, RequestMade DEF RequestWrite, NobodyRejects
<1>5. CASE RecommendationStep /\ RcWrite
  <2>1. RcOutcome
    BY <1>5, RcWriteFields
  <2>2. ~(Create /\ rec.state = "absent")
    BY DEF ReminderInv, Create, At
  <2>3. ASSUME Expire, rec'.state = "pending"
        PROVE  FALSE
    <3>1. CASE Refused
      BY <1>1, <2>3, <3>1 DEF Refused, Forget
    <3>2. CASE Update(RC, Expired(copy[RC]))
      <4>1. copy[RC] = rec /\ copy[RC].state = "awaiting-approval"
            /\ copy[RC].notifiedAt = "expired"
        BY <1>1, <2>3, <3>2, AcceptedUpdate
        DEF Expire, At, ReminderInv, Inv, RecommendationKnows
      <4> QED BY <1>1, <4>1
    <3> QED BY <2>3, <3>1, <3>2 DEF Expire
  <2> QED BY <1>1, <2>1, <2>2, <2>3 DEF RcOutcome, AutoApplied, Protected
<1> QED BY <1>2, <1>3, <1>4, <1>5

LEMMA CachedKept ==
    ASSUME NobodyRejects, Inv, ReminderInv, [Next]_vars
    PROVE  CachedRequest'
<1>1. /\ rec \in Recommendations /\ copy["cache"] \in Recommendations
      /\ "cache" \in Holders /\ "cache" \notin Actors /\ RC \in Actors
      /\ RS \in Actors /\ \A q \in Requests : q \in Actors
      /\ CachedRequest
  BY RecFacts, ActorFacts DEF Inv, TypeOK, ReminderInv
<1>2. ASSUME copy'["cache"] = rec', "cache" \notin stale'
      PROVE  CachedRequest'
  BY <1>2 DEF CachedRequest
<1>3. CASE \E a \in Actors : Quiet(a)
  BY <1>1, <1>3 DEF Quiet, CachedRequest
<1>4. ASSUME NEW a \in Actors, Stored(a),
             \/ RecommendationStep /\ RcWrite
             \/ rec' = rec /\ rec.state \notin Protected \cup {"absent"}
             \/ RsWrite
             \/ \E q \in Requests : RequestWrite(q)
      PROVE  CachedRequest'
  <2>1. CASE copy'["cache"] = copy["cache"]
    BY <1>4, <2>1, CachedStored DEF CachedRequest
  <2> QED BY <1>1, <1>2, <1>4, <2>1 DEF Stored
<1>5. CASE CacheSync \/ Crash
  BY <1>1, <1>2, <1>5 DEF CacheSync, Crash, Inv, TypeOK
<1>6. CASE WeekPasses
  <2>1. /\ rec' = Aged(rec) /\ copy'["cache"] = Aged(copy["cache"])
        /\ stale' = stale
    BY <1>1, <1>6 DEF WeekPasses
  <2>2. Older(copy["cache"].notifiedAt) # "expired"
            => copy["cache"].notifiedAt # "expired"
    BY DEF Older
  <2> QED BY <1>1, <2>1, <2>2, AgedFields DEF CachedRequest
<1>7. CASE ScheduleComes
  <2>1. rec' = Matured(rec) /\ rec.state = "applied-pending-restart"
    BY <1>7 DEF ScheduleComes
  <2> QED BY <1>1, <2>1, AgedFields DEF CachedRequest
<1> QED BY <1>1, <1>3, <1>4, <1>5, <1>6, <1>7, Effects

(* The reconcile on its way to create, to expire or to remind.             *)
LEMMA ErrandKept ==
    ASSUME NobodyRejects, Inv, ReminderInv, [Next]_vars
    PROVE  /\ pc'[RC] = "create" /\ rec'.state = "absent" =>
                  copy'["cache"].state = "absent"
           /\ pc'[RC] = "expire" => copy'[RC].notifiedAt = "expired"
           /\ pc'[RC] = "remind" => copy'[RC].reminderSentAt = "nil"
           /\ pc'[RC] \in {"remind", "stamp"} =>
                  /\ rec'.state \notin {"blank", "pending"}
                  /\ rec'.state = "awaiting-approval" /\ RC \in stale' =>
                         rec'.reminderSentAt = "set"
<1>1. /\ rec \in Recommendations /\ copy["cache"] \in Recommendations
      /\ copy[RC] \in Recommendations
      /\ "cache" \in Holders /\ "cache" \notin Actors /\ RC \in Holders
      /\ RC \in Actors /\ RS \in Actors /\ \A q \in Requests : q \in Actors
  BY RecFacts, ActorFacts DEF Inv, TypeOK
<1>2. CASE ~RecommendationStep
  <2>1. ASSUME pc'[RC] = "create", rec'.state = "absent"
        PROVE  copy'["cache"].state = "absent"
    <3>1. rec.state = "absent" /\ pc[RC] = "create"
      BY <1>2, <2>1, OthersKeepCurrent, StepsElsewhere DEF Elsewhere
    <3>2. copy["cache"].state = "absent"
      BY <3>1 DEF ReminderInv
    <3>3. \/ copy'["cache"] = rec' \/ copy'["cache"] = copy["cache"]
          \/ copy'["cache"] = Aged(copy["cache"])
          \/ copy'["cache"] = Matured(copy["cache"])
      BY <1>1, Effects DEF Quiet, Stored, CacheSync, Crash, WeekPasses,
                           ScheduleComes, Inv, TypeOK
    <3> QED BY <1>1, <2>1, <3>2, <3>3, AgedFields
  <2>2. ASSUME pc'[RC] # "idle"
        PROVE  /\ pc'[RC] = pc[RC]
               /\ copy'[RC].reminderSentAt = copy[RC].reminderSentAt
               /\ copy[RC].notifiedAt = "expired" =>
                      copy'[RC].notifiedAt = "expired"
    BY <1>1, <1>2, <2>2, StepsElsewhere, AgedFields DEF Elsewhere, Older
  <2>3. ASSUME pc'[RC] \in {"remind", "stamp"}
        PROVE  /\ rec'.state \notin {"blank", "pending"}
               /\ rec'.state = "awaiting-approval" /\ RC \in stale' =>
                      rec'.reminderSentAt = "set"
    <3>1. /\ rec.state \notin {"blank", "pending"}
          /\ rec.state = "awaiting-approval" /\ RC \in stale =>
                  rec.reminderSentAt = "set"
      BY <2>2, <2>3 DEF ReminderInv
    <3> QED BY <1>2, <2>3, <3>1, OthersOutcomes DEF OthersOutcome, NobodyRejects
  <2> QED BY <2>1, <2>2, <2>3 DEF ReminderInv
<1>3. CASE RecommendationStep
  <2>1. CASE GetRecommendation /\ Get(RC) /\ pc'[RC] = Branch(copy["cache"])
    <3>1. /\ copy'[RC] = copy["cache"] /\ rec' = rec
          /\ copy'["cache"] = copy["cache"]
          /\ (RC \in stale' <=> "cache" \in stale)
      BY <1>1, <2>1 DEF Get, Inv, TypeOK
    <3>2. /\ Branch(copy["cache"]) = "create" => copy["cache"].state = "absent"
          /\ Branch(copy["cache"]) = "expire" =>
                 copy["cache"].notifiedAt = "expired"
          /\ Branch(copy["cache"]) = "remind" =>
                 /\ copy["cache"].state = "awaiting-approval"
                 /\ copy["cache"].notifiedAt = "week"
                 /\ copy["cache"].reminderSentAt = "nil"
          /\ Branch(copy["cache"]) # "stamp"
      BY DEF Branch
    <3> QED BY <2>1, <3>1, <3>2 DEF ReminderInv, CachedRequest
  <2>2. CASE SendReminder /\ pc'[RC] = "stamp" /\ UNCHANGED object
    <3>1. pc[RC] = "remind" /\ rec' = rec /\ stale' = stale
      BY <2>2 DEF SendReminder, At, object
    <3> QED BY <2>2, <3>1 DEF ReminderInv
  <2> QED BY <1>3, <2>1, <2>2, RcMoves DEF RcMove
<1> QED BY <1>2, <1>3

LEMMA FaultsGrow ==
    ASSUME Inv, [Next]_vars
    PROVE  faults \in Nat /\ faults' \in Nat /\ faults' >= faults
<1>1. faults \in Nat
  BY MaxFaultsAssumption DEF Inv, TypeOK
<1>2. faults' = faults \/ faults' = faults + 1
  BY DEF Next, RecommendationStep, Begin, GetRecommendation, DeleteExisting,
      Create, Publish, Expire, SendReminder, StampReminder, UpdateSpec,
      UpdateLastCalculated, AutoRoute, AutoNotify, AutoUnowned, AutoPatch,
      AutoPatchFails, AutoStatus, mine, LookupFails, RestartStep, RestartBegin,
      RestartVM, RestartVMFails, RestartStatus, HandlerBegin, HandlerContinue,
      HandlerExclude, HandlerRoute, HandlerNotify, HandlerApply,
      HandlerApprove, HandlerRevert, HandlerReject, HandlerRefused, CacheSync,
      WeekPasses, ScheduleComes, Edit, HandleExclude, HandleRemoveExclusion,
      HandleUpdatePolicy, VmResized, Abort, Crash, vars
<1> QED BY <1>1, <1>2

LEMMA ReminderKept ==
    ASSUME NobodyRejects, Inv, ReminderInv, [Next]_vars
    PROVE  ReminderInv'
<1> DEFINE Unstamped ==
        rec.state = "awaiting-approval" /\ rec.reminderSentAt = "nil"
<1> DEFINE Counted ==
        reminders = 0 \/ faults > 0 \/ (pc[RC] = "stamp" /\ RC \notin stale)
<1>1. RC \in Actors /\ rec \in Recommendations /\ (Unstamped => Counted)
  BY ActorFacts, RecFacts DEF ReminderInv
<1>2. faults \in Nat /\ faults' \in Nat /\ faults' >= faults
  BY FaultsGrow
<1>3. Unstamped' => Counted'
  <2>1. CASE AutoRoute \/ \E q \in Requests : HandlerRoute(q)
    <3>1. reminders' = 0 \/ (rec' = rec /\ reminders' = reminders /\ AutoRoute)
      BY <2>1, RouteStarts
    <3> QED BY <1>1, <1>2, <3>1 DEF AutoRoute, At
  <2>2. CASE SendReminder
    <3>1. /\ pc[RC] = "remind" /\ pc'[RC] = "stamp" /\ rec' = rec
          /\ stale' = stale
      BY <2>2, RcAt DEF SendReminder, At, Proceed, object
    <3> QED BY <3>1 DEF ReminderInv
  <2>3. ASSUME ~AutoRoute, ~SendReminder, RecommendationStep,
               ~\E q \in Requests : HandlerRoute(q), Unstamped'
        PROVE  Counted'
    <3>1. reminders' = reminders
      BY <2>3, RemindersKept
    <3>2. rec' = rec
      BY <1>1, <2>3, RcWrites, RcWriteFields
      DEF RcOutcome, AutoApplied, Protected, Recommendations
    <3>3. ~(pc[RC] = "stamp" /\ RC \notin stale)
      <4>1. SUFFICES ASSUME pc[RC] = "stamp", RC \notin stale PROVE FALSE
        OBVIOUS
      <4>2. StampReminder
        BY <2>3, <4>1 DEF RecommendationStep, Begin, GetRecommendation,
            DeleteExisting, Create, Publish, Expire, UpdateSpec,
            UpdateLastCalculated, AutoNotify, AutoUnowned, AutoPatch,
            AutoPatchFails, AutoStatus, At
      <4>3. rec' = Reminded(rec)
        BY <1>1, <4>1, <4>2, AcceptedUpdate DEF StampReminder, Refused, Conflict
      <4> QED BY <1>1, <2>3, <4>3 DEF Reminded, Recommendations
    <3> QED BY <1>1, <1>2, <2>3, <3>1, <3>2, <3>3
  <2>4. ASSUME ~RecommendationStep, ~\E q \in Requests : HandlerRoute(q),
               Unstamped'
        PROVE  Counted'
    <3>1. reminders' = reminders
      BY <2>4, RemindersKept DEF RecommendationStep
    <3>2. CASE faults' = faults + 1
      BY <1>2, <3>2
    <3>3. CASE faults' # faults + 1
      <4>1. pc'[RC] = pc[RC]
        BY <2>4, <3>3, StepsElsewhere DEF Elsewhere
      <4>2. Unstamped /\ (RC \in stale' <=> RC \in stale)
        BY <2>4, <3>3, OthersOutcomes DEF OthersOutcome, NobodyRejects
      <4> QED BY <1>1, <1>2, <3>1, <4>1, <4>2
    <3> QED BY <3>2, <3>3
  <2> QED BY <2>1, <2>2, <2>3, <2>4
<1> QED BY <1>3, CachedKept, ErrandKept DEF ReminderInv

(* Where nobody turns requests down, an approval cycle has one reminder    *)
(* only: a second reconcile that reads the request before the stamp        *)
(* arrives in the cache sends nothing that the stored stamp would forbid.  *)
THEOREM RemindedOnce ==
    ASSUME NobodyRejects
    PROVE  Spec => ReminderOnce
<1>1. Init => ReminderInv
  BY Start, ActorFacts DEF ReminderInv, CachedRequest
<1>2. Inv /\ ReminderInv /\ [Next]_vars => ReminderInv'
  BY ReminderKept
<1>3. ASSUME Inv, ReminderInv, [Next]_vars, reminders' > reminders,
             RC \notin stale, ~(faults > 0)
      PROVE  reminders = 0
  <2>1. reminders \in 0 .. 2 /\ RC \in Actors
    BY <1>3, ActorFacts DEF Inv, TypeOK
  <2>2. pc[RC] = "remind"
    BY <1>3, <2>1, RemindersKept DEF SendReminder, At
  <2>3. copy[RC] = rec /\ copy[RC].state = "awaiting-approval"
        /\ copy[RC].reminderSentAt = "nil"
    BY <1>3, <2>1, <2>2, RecFacts DEF Inv, RecommendationKnows, ReminderInv
  <2> QED BY <1>3, <2>2, <2>3 DEF ReminderInv
<1>4. Inv /\ ReminderInv /\ [Next]_vars
          => [reminders' > reminders
                 => reminders = 0 \/ RC \in stale \/ faults > 0]_vars
  BY <1>3
<1> QED BY <1>1, <1>2, <1>4, Invariance, PTL DEF Spec, ReminderOnce

-----------------------------------------------------------------------------
(* A write settles what waits for a restart, and leaves settled what is.   *)
LEMMA Settles ==
    ASSUME Inv, RestartInv,
           rec.state \in Settled \cup {"applied-pending-restart"},
           \/ RcWrite
           \/ rec' = rec /\ rec.state \notin Protected \cup {"absent"}
           \/ RsWrite
           \/ \E q \in Requests : RequestWrite(q)
    PROVE  rec'.state \in Settled
<1>1. rec \in Recommendations
  BY RecFacts
<1>2. CASE RcWrite
  <2>1. RcOutcome /\ ~DeleteExisting
    BY <1>2, RcWriteFields DEF RestartInv, DeleteExisting, At
  <2> QED BY <2>1 DEF RcOutcome, Settled, Protected
<1>3. CASE rec' = rec /\ rec.state \notin Protected \cup {"absent"}
  BY <1>3 DEF Settled, Protected
<1>4. CASE RsWrite
  BY <1>1, <1>4 DEF RsWrite, Restarted, RestartFailed, Recommendations, Settled
<1>5. ASSUME NEW q \in Requests, RequestWrite(q)
      PROVE  rec'.state \in Settled
  BY <1>1, <1>5 DEF RequestWrite, Reverted, Recommendations, Settled
<1> QED BY <1>2, <1>3, <1>4, <1>5

(* The analysis always recommends, and nothing is excluded or deleted.     *)
LEMMA NothingDeleted ==
    ASSUME NothingWithdrawn, Inv, RestartInv, [Next]_vars
    PROVE  /\ vm'.exclude = "unset" /\ \A q \in Requests : pc'[q] # "exclude"
           /\ pc'[RC] # "idle" => plan'.verdict # None
           /\ pc'[RC] # "delete"
<1>1. /\ RC \in Actors /\ RS \in Actors /\ RC # RS
      /\ \A q \in Requests : q \in Actors /\ q # RC /\ q # RS
      /\ pc \in [Actors -> RcLabels \cup RsLabels \cup RequestLabels]
      /\ vm \in [size: Sizes, exclude: {"true", "unset"}]
      /\ vm.exclude = "unset" /\ \A q \in Requests : pc[q] # "exclude"
  BY ActorFacts DEF Inv, TypeOK, RestartInv
<1>2. CASE RecommendationStep
  <2>1. vm'.exclude = vm.exclude
    BY <1>1, <1>2 DEF RecommendationStep, Begin, GetRecommendation,
        DeleteExisting, Create, Publish, Expire, SendReminder, StampReminder,
        UpdateSpec, UpdateLastCalculated, AutoRoute, AutoNotify, AutoUnowned,
        AutoPatch, AutoPatchFails, AutoStatus, mine, environment
  <2>2. \A q \in Requests : pc'[q] = pc[q]
    BY <1>1, <1>2 DEF RecommendationStep, Begin, GetRecommendation,
        DeleteExisting, Create, Publish, Expire, SendReminder, StampReminder,
        UpdateSpec, UpdateLastCalculated, AutoRoute, AutoNotify, AutoUnowned,
        AutoPatch, AutoPatchFails, AutoStatus, WriteAndContinue, Refused,
        Proceed, Return, Goto
  <2>3. /\ pc'[RC] # "idle" => plan'.verdict # None
        /\ pc'[RC] # "delete"
    <3>1. CASE Begin
      <4>1. PICK v \in Verdicts :
                plan' = [auto |-> auto, size |-> vm.size,
                         verdict |-> IF vm.exclude = "true" THEN None ELSE v]
        BY <3>1 DEF Begin
      <4>2. pc'[RC] = "get"
        BY <3>1, RcAt DEF Begin
      <4> QED BY <1>1, <4>1, <4>2 DEF NothingWithdrawn
    <3>2. CASE ~Begin
      <4>1. pc[RC] # "idle"
        BY <1>2, <3>2 DEF RecommendationStep, GetRecommendation,
            DeleteExisting, Create, Publish, Expire, SendReminder,
            StampReminder, UpdateSpec, UpdateLastCalculated, AutoRoute,
            AutoNotify, AutoUnowned, AutoPatch, AutoPatchFails, AutoStatus, At
      <4>2. plan.verdict # None
        BY <4>1 DEF RestartInv
      <4>3. pc'[RC] = "idle" \/ (plan' = plan /\ pc'[RC] # "delete")
        BY <1>2, <3>2, <4>2, RcMoves DEF RcMove, Branch
      <4> QED BY <4>2, <4>3
    <3> QED BY <3>1, <3>2
  <2> QED BY <1>1, <2>1, <2>2, <2>3
<1>3. CASE RestartStep
  <2>1. vm' = vm /\ \A q \in Requests : pc'[q] = pc[q]
    BY <1>1, <1>3 DEF RestartStep, RestartBegin, RestartVM, RestartVMFails,
        RestartStatus, RestartGoto, environment
  <2>2. pc'[RC] = pc[RC] /\ plan' = plan
    BY <1>1, <1>3 DEF RestartStep, RestartBegin, RestartVM, RestartVMFails,
        RestartStatus, RestartGoto
  <2> QED BY <1>1, <2>1, <2>2 DEF RestartInv
<1>4. ASSUME NEW q \in Requests, HandlerBegin(q) \/ HandlerContinue(q)
      PROVE  /\ vm'.exclude = "unset" /\ \A p \in Requests : pc'[p] # "exclude"
             /\ pc'[RC] # "idle" => plan'.verdict # None
             /\ pc'[RC] # "delete"
  <2>1. pc'[RC] = pc[RC] /\ plan' = plan
    BY <1>1, <1>4 DEF HandlerBegin, HandlerContinue, HandlerExclude,
        HandlerRoute, HandlerNotify, HandlerApply, HandlerApprove,
        HandlerRevert, HandlerReject, HandlerRefused, Respond, RequestGoto
  <2>2. \A p \in Requests : pc'[p] # "exclude"
    BY <1>1, <1>4 DEF HandlerBegin, HandlerContinue, HandlerExclude,
        HandlerRoute, HandlerNotify, HandlerApply, HandlerApprove,
        HandlerRevert, HandlerReject, HandlerRefused, Respond, RequestGoto,
        NothingWithdrawn
  <2>3. vm' = vm
    BY <1>1, <1>4 DEF HandlerBegin, HandlerContinue, HandlerExclude,
        HandlerRoute, HandlerNotify, HandlerApply, HandlerApprove,
        HandlerRevert, HandlerReject, HandlerRefused, environment
  <2> QED BY <1>1, <2>1, <2>2, <2>3 DEF RestartInv
<1>5. CASE CacheSync \/ WeekPasses \/ ScheduleComes \/ UNCHANGED vars
  BY <1>1, <1>5 DEF CacheSync, WeekPasses, ScheduleComes, vars, environment,
                    RestartInv
<1>6. CASE Edit
  BY <1>1, <1>6 DEF Edit, HandleExclude, HandleRemoveExclusion,
      HandleUpdatePolicy, VmResized, NothingWithdrawn, RestartInv
<1>7. ASSUME NEW a \in Actors, Abort(a)
      PROVE  /\ vm' = vm /\ \A q \in Requests : pc'[q] # "exclude"
             /\ pc'[RC] = "idle" \/ (pc'[RC] = pc[RC] /\ plan' = plan)
  BY <1>1, <1>7 DEF Abort, environment
<1>8. CASE Crash
  BY <1>1, <1>8 DEF Crash, environment
<1> QED
  BY <1>1, <1>2, <1>3, <1>4, <1>5, <1>6, <1>7, <1>8 DEF Next, RestartInv

(* Every step keeps the state of the recommendation, or is a write.        *)
LEMMA WritesOrKeeps ==
    ASSUME Inv, RestartInv, [Next]_vars,
           rec.state \in Settled \cup {"applied-pending-restart"}
    PROVE  rec'.state = rec.state \/ rec'.state \in Settled
<1>1. rec \in Recommendations
  BY RecFacts
<1>2. CASE CacheSync \/ WeekPasses \/ ScheduleComes \/ Crash
  BY <1>1, <1>2, AgedFields DEF CacheSync, WeekPasses, ScheduleComes, Crash
<1>3. CASE \E a \in Actors : Quiet(a)
  BY <1>3 DEF Quiet
<1> QED BY <1>2, <1>3, Effects, Settles

LEMMA OldReads ==
    ASSUME Inv, RestartInv, [Next]_vars, NEW h \in Holders,
           copy'[h].state = "applied-pending-restart"
    PROVE  h \notin stale' \/ rec'.state \in Settled
<1> DEFINE Old(g) == copy[g].state = "applied-pending-restart" =>
                         g \notin stale \/ rec.state \in Settled
<1>1. /\ Old(h) /\ Old("cache") /\ rec \in Recommendations
      /\ "cache" \in Holders /\ copy[h] \in Recommendations
      /\ Absent.state = "absent" /\ (h \notin stale => copy[h] = rec)
  BY ActorFacts, RecFacts DEF RestartInv, Inv, TypeOK, FreshCopies, Absent
<1>2. CASE \E a \in Actors : Quiet(a)
  BY <1>1, <1>2 DEF Quiet
<1>3. ASSUME NEW a \in Actors, Stored(a),
             \/ RcWrite
             \/ rec' = rec /\ rec.state \notin Protected \cup {"absent"}
             \/ RsWrite
             \/ \E q \in Requests : RequestWrite(q)
      PROVE  h \notin stale' \/ rec'.state \in Settled
  <2>1. SUFFICES ASSUME h \in stale' PROVE rec'.state \in Settled
    OBVIOUS
  <2>2. copy[h].state = "applied-pending-restart"
    BY <1>1, <1>3, <2>1 DEF Stored
  <2>3. rec.state \in Settled \cup {"applied-pending-restart"}
    BY <1>1, <2>2
  <2> QED BY <1>3, <2>3, Settles
<1>4. CASE CacheSync
  BY <1>1, <1>4 DEF CacheSync, Inv, TypeOK
<1>5. CASE WeekPasses \/ ScheduleComes
  <2>1. copy'[h] = Aged(copy[h]) \/ copy'[h] = Matured(copy[h])
    BY <1>5 DEF WeekPasses, ScheduleComes
  <2>2. copy[h].state = "applied-pending-restart"
    BY <1>1, <2>1, AgedFields
  <2>3. stale' = stale /\ (rec' = Aged(rec) \/ rec' = Matured(rec))
    BY <1>5 DEF WeekPasses, ScheduleComes
  <2> QED BY <1>1, <2>2, <2>3, AgedFields
<1>6. CASE Crash
  BY <1>1, <1>6, ActorFacts DEF Crash
<1> QED
  BY <1>2, <1>3, <1>4, <1>5, <1>6, Effects, ActorFacts

(* The restart controller that has restarted the VM keeps its fresh copy   *)
(* until it has said so.                                                   *)
LEMMA RestartAnnounced ==
    ASSUME Inv, RestartInv, [Next]_vars,
           restarts' = restarts, restarts > 0,
           rec'.state = "applied-pending-restart"
    PROVE  faults' > 0 \/ (pc'[RS] = "restarted" /\ RS \notin stale')
<1>1. /\ rec \in Recommendations /\ RS \in Actors /\ RC \in Actors /\ RC # RS
      /\ RS \in Holders /\ RS # "cache"
      /\ \A q \in Requests : q \in Actors /\ q # RC /\ q # RS
  BY RecFacts, ActorFacts
<1>2. rec.state \in Settled \cup {"applied-pending-restart"}
  BY DEF RestartInv
<1>3. rec.state = "applied-pending-restart"
  BY <1>2, WritesOrKeeps DEF Settled
<1>4. faults \in Nat /\ faults' \in Nat /\ faults' >= faults
  BY FaultsGrow
<1>5. SUFFICES ASSUME ~(faults' > 0)
               PROVE  pc'[RS] = "restarted" /\ RS \notin stale'
  OBVIOUS
<1>6. pc[RS] = "restarted" /\ RS \notin stale /\ faults' # faults + 1
  BY <1>3, <1>4, <1>5 DEF RestartInv
<1>7. ASSUME NEW a \in Actors \ {RS}, Quiet(a)
      PROVE  RS \notin stale'
  BY <1>1, <1>6, <1>7 DEF Quiet
<1>8. ASSUME \/ RcWrite
             \/ rec' = rec /\ rec.state \notin Protected \cup {"absent"}
             \/ RsWrite
             \/ \E q \in Requests : RequestWrite(q)
      PROVE  FALSE
  BY <1>2, <1>8, Settles DEF Settled
<1>9. CASE RecommendationStep
  <2>1. pc'[RS] = pc[RS]
    BY <1>1, <1>9 DEF RecommendationStep, Begin, GetRecommendation,
        DeleteExisting, Create, Publish, Expire, SendReminder, StampReminder,
        UpdateSpec, UpdateLastCalculated, AutoRoute, AutoNotify, AutoUnowned,
        AutoPatch, AutoPatchFails, AutoStatus, WriteAndContinue, Refused,
        Proceed, Return, Goto, Inv, TypeOK
  <2> QED BY <1>1, <1>6, <1>7, <1>8, <1>9, <2>1, RcEffect
<1>10. CASE RestartStep
  <2>1. UpdateAndForget(RS, Restarted(copy[RS]))
    BY <1>6, <1>10 DEF RestartStep, RestartBegin, RestartVM, RestartVMFails,
                       RestartStatus, Conflict
  <2>2. rec' = Restarted(rec)
    BY <1>1, <2>1, AcceptedUpdate
  <2> QED BY <1>1, <2>2 DEF Restarted, Recommendations
<1>11. ASSUME NEW q \in Requests, HandlerBegin(q) \/ HandlerContinue(q)
       PROVE  pc'[RS] = "restarted" /\ RS \notin stale'
  <2>1. pc'[RS] = pc[RS]
    BY <1>1, <1>11 DEF HandlerBegin, HandlerContinue, HandlerExclude,
        HandlerRoute, HandlerNotify, HandlerApply, HandlerApprove,
        HandlerRevert, HandlerReject, HandlerRefused, Respond, RequestGoto,
        Inv, TypeOK
  <2> QED BY <1>1, <1>6, <1>7, <1>8, <1>11, <2>1, RequestEffect
<1>12. CASE CacheSync \/ WeekPasses \/ ScheduleComes \/ Edit \/ UNCHANGED vars
  BY <1>1, <1>6, <1>12 DEF CacheSync, WeekPasses, ScheduleComes, Edit,
      HandleExclude, HandleRemoveExclusion, HandleUpdatePolicy, VmResized,
      vars, object
<1>13. CASE (\E a \in Actors : Abort(a)) \/ Crash
  BY <1>6, <1>13 DEF Abort, Crash
<1> QED BY <1>9, <1>10, <1>11, <1>12, <1>13 DEF Next

LEMMA RestartKept ==
    ASSUME NothingWithdrawn, Inv, RestartInv, [Next]_vars
    PROVE  RestartInv'
<1>1. restarts \in 0 .. 2 /\ RS \in Holders
  BY ActorFacts DEF Inv, TypeOK
<1>2. CASE RestartVM
  <2>1. /\ pc[RS] = "restart" /\ pc'[RS] = "restarted" /\ rec' = rec
        /\ stale' = stale
    BY <1>2, ActorFacts DEF RestartVM, RestartGoto, object, Inv, TypeOK
  <2>2. copy[RS].state = "applied-pending-restart"
    BY <2>1 DEF Inv, RestartKnows, RestartDue
  <2>3. RS \notin stale \/ rec.state \in Settled
    BY <1>1, <2>2 DEF RestartInv
  <2>4. RS \notin stale => rec.state = "applied-pending-restart"
    BY <2>2, RecFacts, ActorFacts
  <2>5. /\ rec'.state \in Settled \cup {"applied-pending-restart"}
        /\ rec'.state = "applied-pending-restart" => RS \notin stale'
    BY <2>1, <2>3, <2>4 DEF Settled
  <2> QED BY <2>1, <2>5, OldReads, NothingDeleted DEF RestartInv
<1>3. CASE restarts' = restarts
  <2>1. restarts > 0 =>
            rec'.state \in Settled \cup {"applied-pending-restart"}
    BY WritesOrKeeps DEF RestartInv
  <2> QED BY <1>3, <2>1, RestartAnnounced, OldReads, NothingDeleted
          DEF RestartInv
<1>4. CASE restarts' = 0
  BY <1>4, OldReads, NothingDeleted DEF RestartInv
<1> QED BY <1>2, <1>3, <1>4, RestartedBy

(* Where nothing is withdrawn, the restart controller stops the VM once    *)
(* for a recommendation, whatever collides with its status update: a       *)
(* second restart comes from a cache that is behind or from a failure.     *)
THEOREM RestartedOnce ==
    ASSUME NothingWithdrawn
    PROVE  Spec => RestartOnce
<1>1. Init => RestartInv
  <2>1. ASSUME Init
        PROVE  RestartInv
    BY <2>1, Start, ActorFacts DEF RestartInv
  <2> QED BY <2>1
<1>2. Inv /\ RestartInv /\ [Next]_vars => RestartInv'
  BY RestartKept
<1>3. ASSUME Inv, RestartInv, [Next]_vars, restarts' > restarts,
             RS \notin stale, ~(faults > 0)
      PROVE  restarts = 0
  <2>1. restarts \in 0 .. 2 /\ RS \in Actors
    BY <1>3, ActorFacts DEF Inv, TypeOK
  <2>2. pc[RS] = "restart"
    BY <1>3, <2>1, RestartedBy DEF RestartVM
  <2>3. rec.state = "applied-pending-restart"
    BY <1>3, <2>1, <2>2, RecFacts DEF Inv, RestartKnows, RestartDue
  <2> QED BY <1>3, <2>1, <2>2, <2>3 DEF RestartInv
<1>4. Inv /\ RestartInv /\ [Next]_vars
          => [restarts' > restarts
                 => restarts = 0 \/ RS \in stale \/ faults > 0]_vars
  BY <1>3
<1> QED BY <1>1, <1>2, <1>4, Invariance, PTL DEF Spec, RestartOnce
=============================================================================
