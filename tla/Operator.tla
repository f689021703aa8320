------------------------------ MODULE Operator ------------------------------
(***************************************************************************)
(* The operator as a whole: the recommendation controller, the restart     *)
(* controller and the REST handlers, which run concurrently and meet in    *)
(* the stored recommendation and in the VM; the failures that can cut any  *)
(* of them short; time; and the people who edit the VM and the policy.     *)
(***************************************************************************)
EXTENDS RecommendationController, RestartController, ApiHandlers

CONSTANTS
    Edits,     \* edits people make: "exclude", "include", "policy"
    HandSizes  \* sizes people give to the VM by hand

ASSUME EditsAssumption ==
    Edits \subseteq {"exclude", "include", "policy"}
ASSUME HandSizesAssumption == HandSizes \subseteq Sizes

Init ==
    /\ rec = Absent
    /\ copy = [h \in Holders |-> Absent]
    /\ stale = Actors
    /\ pc = [a \in Actors |-> "idle"]
    /\ plan = NoPlan
    /\ req = [q \in Requests |-> NoOp]
    /\ vm \in [size: Sizes, exclude: {"unset"}]
    /\ auto \in BOOLEAN
    /\ faults = 0
    /\ sent = FALSE
    /\ reminders = 0
    /\ restarts = 0
    /\ unresolved = FALSE
    /\ original = None

----------------------------------------------------------------------------
(* A handler stops at any point: the API server refuses or loses its call, *)
(* or the reply of a call that took effect is lost.                        *)
Abort(a) ==
    /\ pc[a] # "idle"
    /\ faults < MaxFaults /\ faults' = faults + 1
    /\ Forget(a)
    /\ pc' = [pc EXCEPT ![a] = "idle"]
    /\ plan' = IF a = RC THEN NoPlan ELSE plan
    /\ req' = [q \in Requests |-> IF q = a THEN NoOp ELSE req[q]]
    /\ UNCHANGED <<environment, history>>

(* The process restarts: every handler is gone, the cache is built anew.   *)
Crash ==
    /\ faults < MaxFaults /\ faults' = faults + 1
    /\ copy' = [h \in Holders |-> IF h = "cache" THEN rec ELSE Absent]
    /\ stale' = Actors
    /\ pc' = [a \in Actors |-> "idle"]
    /\ plan' = NoPlan
    /\ req' = [q \in Requests |-> NoOp]
    /\ UNCHANGED <<rec, environment, history>>

Edit ==
    \/ "exclude" \in Edits /\ HandleExclude
    \/ "include" \in Edits /\ HandleRemoveExclusion
    \/ "policy" \in Edits /\ HandleUpdatePolicy
    \/ \E s \in HandSizes : VmResized(s)

Next ==
    \/ RecommendationStep
    \/ RestartStep
    \/ \E q \in Requests : HandlerBegin(q) \/ HandlerContinue(q)
    \/ CacheSync \/ WeekPasses \/ ScheduleComes
    \/ \E a \in Actors : Abort(a)
    \/ Crash
    \/ Edit

(* The work queues requeue every object, handlers run to their end, the    *)
(* informer catches up and time passes.  People need not do anything.      *)
Fairness ==
    /\ WF_vars(RecommendationStep)
    /\ WF_vars(RestartStep)
    /\ \A q \in Requests : WF_vars(HandlerContinue(q))
    /\ WF_vars(CacheSync)
    /\ WF_vars(WeekPasses)
    /\ WF_vars(ScheduleComes)

Spec == Init /\ [][Next]_vars /\ Fairness

----------------------------------------------------------------------------
RcLabels == {"idle", "get", "delete", "create", "publish", "expire", "remind",
             "stamp", "update", "calculated", "auto", "notify", "direct",
             "patched", "unpatched"}
RsLabels == {"idle", "restart", "restarted", "unrestarted"}
RequestLabels == {"idle", "exclude", "write", "notify"}

(* Every variable has its type and every actor is at a point of its own    *)
(* handler.                                                                *)
TypeOK ==
    /\ rec \in Recommendations
    /\ copy \in [Holders -> Recommendations]
    /\ stale \subseteq Holders
    /\ pc \in [Actors -> RcLabels \cup RsLabels \cup RequestLabels]
    /\ pc[RC] \in RcLabels
    /\ pc[RS] \in RsLabels
    /\ \A q \in Requests : pc[q] \in RequestLabels
    /\ plan \in [auto: BOOLEAN, size: Sizes \cup {None},
                 verdict: Sizes \cup {None}]
    /\ req \in [Requests -> Ops \cup {NoOp}]
    /\ vm \in [size: Sizes, exclude: {"true", "unset"}]
    /\ auto \in BOOLEAN
    /\ faults \in 0 .. MaxFaults
    /\ sent \in BOOLEAN
    /\ reminders \in 0 .. 2
    /\ restarts \in 0 .. 2
    /\ unresolved \in BOOLEAN
    /\ original \in Sizes \cup {None}

(* A copy that is not marked stale is the stored recommendation: a write   *)
(* the API server accepts is computed from what it replaces, whatever the  *)
(* other handlers did in between.                                          *)
FreshCopies == \A h \in Holders : h \notin stale => copy[h] = rec

(* The fields of a recommendation agree with its state.  Each state change *)
(* is a handful of assignments in one of seven places (Reconcile,          *)
(* autoApply and the handlers), made to a copy that may be old.            *)
WellFormed(r) ==
    /\ r.state = "absent" => r = Absent
    /\ r.state # "absent" => r.current # None /\ r.recommended # None
    /\ r.state \in {"blank", "pending"} =>
           r.owner = "" /\ r.token = "" /\ r.notifiedAt = "nil"
    /\ r.state \in {"blank", "pending", "awaiting-approval"} =>
           /\ r.approvedBy = "" /\ r.appliedAt = "nil"
           /\ r.scheduledRestartAt = "nil"
    /\ r.state = "awaiting-approval" =>
           r.owner # "" /\ r.token = "jwt" /\ r.notifiedAt # "nil"
    /\ r.state = "applied" => r.appliedAt = "set" /\ r.scheduledRestartAt = "nil"
    /\ r.state \notin {"absent", "blank", "pending"} =>
           r.revertConfig = r.current
    /\ r.revertConfig \in {None, r.current}
    /\ r.token # "" => r.state = "awaiting-approval"

(* The stored recommendation is well formed: an awaiting one names its     *)
(* owner, token and date, an applied one has no restart left to do,        *)
(* whatever was applied has the configuration to go back to, a pending one *)
(* carries nothing over from a refused or expired approval.                *)
RecordWellFormed == WellFormed(rec)

(* Deployments in which every way to apply a recommendation asks the owner *)
(* of this VM first, as long as the owner can be found.                    *)
NeedsApproval ==
    /\ HasOwner /\ ~unresolved
    /\ DemoMode \/ Notifier

(* A recommendation for a VM with an owner is applied, or reverted after   *)
(* that, only with an approval on record; unless a lookup of the owner     *)
(* failed, which both autoApply and handleApply take for "no owner".       *)
OwnerApproved ==
    /\ HasOwner /\ ~unresolved
    /\ rec.state \in {"applied", "applied-pending-restart", "reverted"}
    => rec.approvedBy # ""

(* The operator implements the life cycle.                                 *)
L == INSTANCE Lifecycle WITH
         mustAsk <- NeedsApproval,
         state <- rec.state,
         revertConfig <- rec.revertConfig,
         scheduled <- rec.scheduledRestartAt,
         approvedBy <- rec.approvedBy

(* Whatever the interleaving, the stored recommendation moves only along   *)
(* the transitions of the life cycle.                                      *)
ImplementsLifecycle == L!Lives

(* What a handler in progress knows about the recommendation it holds: the *)
(* checks it made when it started.                                         *)
RecommendationKnows ==
    /\ pc[RC] # "idle" => plan.size # None
    /\ pc[RC] \in {"create", "publish", "expire", "remind", "stamp", "update",
                   "calculated"} => plan.verdict # None
    /\ pc[RC] = "delete" => copy[RC].state \notin Protected \cup {"absent"}
    /\ pc[RC] = "publish" => copy[RC].state = "blank"
    /\ pc[RC] \in {"expire", "remind", "stamp"} =>
           copy[RC].state = "awaiting-approval"
    /\ pc[RC] \in {"update", "calculated"} =>
           copy[RC].state \notin Protected \cup {"absent"}
    /\ pc[RC] \in {"auto", "direct", "patched", "unpatched"} =>
           copy[RC].state = "pending"
    /\ NeedsApproval => pc[RC] \notin {"direct", "patched", "unpatched"}

RestartKnows == pc[RS] # "idle" => RestartDue(copy[RS])

Admits(op, r) == Accepts(op, [r EXCEPT !.notifiedAt = "fresh"])

RequestsKnow ==
    \A q \in Requests :
        pc[q] \in {"exclude", "write"} =>
            req[q] \in Ops /\ Admits(req[q], copy[q])

ApprovalOnRecord(r) ==
    NeedsApproval /\ r.state \in {"applied", "applied-pending-restart",
                                  "reverted"}
        => r.approvedBy # ""

(* The inductive invariant: copies are well formed and approved too, since *)
(* any of them may be written back.                                        *)
CopiesSound ==
    \A h \in Holders : WellFormed(copy[h]) /\ ApprovalOnRecord(copy[h])

Inv ==
    /\ TypeOK /\ FreshCopies
    /\ WellFormed(rec) /\ ApprovalOnRecord(rec)
    /\ CopiesSound /\ RecommendationKnows /\ RestartKnows /\ RequestsKnow

(* States in which somebody relies on the recommendation as it is.         *)
Committed == {"awaiting-approval", "applied", "applied-pending-restart"}

(* What was applied, or what the owner was asked about, is not changed     *)
(* under them: no recalculation reaches a recommendation in a protected    *)
(* state, not even one that started before it got there.                   *)
ProposalFrozen ==
    [][rec.state \in Committed /\ rec'.state # "absent"
           => rec'.recommended = rec.recommended /\ rec'.current = rec.current
      ]_vars

----------------------------------------------------------------------------
(* A recommendation that says it is applied has changed the VM: the VM has *)
(* the recommended size, now or after the restart it waits for.            *)
AppliedMeansPatched ==
    rec.state \in {"applied", "applied-pending-restart"}
        => vm.size = rec.recommended

(* A VM that takes new resources while it runs never waits for a restart.  *)
HotplugNeedsNoRestart ==
    VmHotplug => rec.state # "applied-pending-restart"

(* The configuration kept for a revert is the one the VM had before the    *)
(* operator changed it, however often the recommendation was recalculated  *)
(* and the change tried.                                                   *)
RevertConfigIsOriginal ==
    rec.state \in {"applied", "applied-pending-restart"} /\ original # None
        => rec.revertConfig = original

(* One scheduled restart stops the VM once: not again because the status   *)
(* update collided, nor after a revert.  Only a cache that does not show   *)
(* the outcome yet, or a failed status update, makes the controller        *)
(* restart the VM again.                                                   *)
RestartOnce ==
    [][restarts' > restarts => restarts = 0 \/ RS \in stale \/ faults > 0]_vars

(* A VM is restarted only when that is due by then; not after a revert,    *)
(* unless it came after the controller had read the recommendation.        *)
RestartsWhatIsDue ==
    [][restarts' > restarts
           => \/ /\ rec.state = "applied-pending-restart"
                 /\ rec.scheduledRestartAt = "due"
              \/ RS \in stale]_vars

(* What is applied or awaits approval disappears only under a reconcile    *)
(* that read the recommendation before it got there.                       *)
DeletedByOldReadOnly ==
    [][rec.state \in Committed /\ rec'.state = "absent" => RC \in stale]_vars

(* An owner whose approval is awaited has been told, or is about to be;    *)
(* unless a failure cut the handler off between the two.                   *)
OwnerNotified ==
    rec.state = "awaiting-approval"
        => sent \/ faults > 0 \/ \E a \in Actors : pc[a] = "notify"

(* An approval cycle that counts as reminded had its reminder: the stamp   *)
(* of an earlier cycle does not silence this one.                          *)
StampMeansReminded ==
    rec.state = "awaiting-approval" /\ rec.reminderSentAt = "set" => reminders > 0

(* Nobody is reminded twice in one approval cycle, unless the reconcile    *)
(* had read an earlier cycle or could not store that it sent the reminder. *)
ReminderOnce ==
    [][reminders' > reminders => reminders = 0 \/ RC \in stale \/ faults > 0
      ]_vars

----------------------------------------------------------------------------
(* An unanswered approval request does not block its VM for ever: it is    *)
(* answered, or reset when it expired, despite collisions, a stale cache   *)
(* and a crash.  The exception is a VM that was excluded meanwhile: the    *)
(* reconcile then ends in deleteExistingRecommendation, which spares what  *)
(* is awaiting approval and does not look at the 14 days.                  *)
ApprovalsEnd ==
    rec.state = "awaiting-approval"
        ~> rec.state # "awaiting-approval" \/ vm.exclude = "true"

(* A scheduled restart happens (or fails, or is called off by a revert),   *)
(* despite collisions, a stale cache and a crash.                          *)
ScheduledRestartHappens ==
    /\ rec.state = "applied-pending-restart"
    /\ rec.scheduledRestartAt # "nil"
    ~> rec.state # "applied-pending-restart"

(* In auto mode no recommendation stays pending.                           *)
AutoModeActs == rec.state = "pending" /\ auto ~> rec.state # "pending" \/ ~auto

(* Rightsizing in the console with the restart option "now" reaches the    *)
(* VM: it gets the recommended size or at least its restart.               *)
ApplyNowReachesVm ==
    /\ rec.state = "applied-pending-restart"
    /\ rec.appliedAt = "set"
    ~> \/ vm.size = rec.recommended
       \/ restarts > 0
       \/ rec.state # "applied-pending-restart"

(* Every recommendation that exists becomes visible as pending.            *)
CreatedBecomesPending == rec.state = "blank" ~> rec.state # "blank"

=============================================================================
