--------------------------- MODULE OperatorProofs ---------------------------
(***************************************************************************)
(* Proofs about Operator for every set of sizes and of requests, every     *)
(* deployment, with or without a lagging cache and for any number of       *)
(* failures.                                                               *)
(***************************************************************************)
EXTENDS Operator, TLAPS

(* What the API server stores and the handlers hold.                       *)
Sound == {r \in Recommendations : WellFormed(r) /\ ApprovalOnRecord(r)}

(* The part of Inv about the stored object and its copies.                 *)
ObjectOK ==
    /\ rec \in Sound
    /\ copy \in [Holders -> Sound]
    /\ stale \subseteq Holders
    /\ FreshCopies

(* A step of a leaves the copies of the other actors alone.                *)
OthersKeep(a) == \A b \in Actors \ {a} : copy'[b] = copy[b]

(* Who the actors are, and that the two controllers, the requests and the  *)
(* cache are all different.                                                *)
LEMMA ActorFacts ==
    /\ RC \in Actors /\ RS \in Actors /\ RC # RS
    /\ Actors \subseteq Holders /\ "cache" \in Holders /\ "cache" \notin Actors
    /\ \A q \in Requests : q \in Actors /\ q # RC /\ q # RS
    /\ \A a \in Actors : a \in Requests \/ a = RC \/ a = RS
    /\ InStep \subseteq {"cache"}
BY RequestsAssumption DEF Actors, Holders, RC, RS, InStep

(* The object that is no object is sound.                                  *)
LEMMA AbsentSound == Absent \in Sound
<1>1. Absent \in Recommendations
  BY DEF Recommendations, Absent, States, Ages, Times, Stamps, Owners
<1>2. WellFormed(Absent)
  BY DEF WellFormed, Absent
<1>3. ApprovalOnRecord(Absent)
  BY DEF ApprovalOnRecord, Absent
<1> QED
  BY <1>1, <1>2, <1>3 DEF Sound

(* Whether the owner has to be asked changes in one direction only: a      *)
(* lookup that failed is not taken back.                                   *)
Onward == NeedsApproval' => NeedsApproval

(* What was sound stays sound.                                             *)
LEMMA SoundStays ==
    ASSUME Onward
    PROVE  Sound \subseteq Sound'
BY DEF Onward, Sound, ApprovalOnRecord

-----------------------------------------------------------------------------
(* The access paths to the object keep copies and stored object in order.  *)

(* A read gives its actor the cached copy.                                 *)
LEMMA GetOK ==
    ASSUME ObjectOK, Onward, NEW a \in Actors, Get(a)
    PROVE  /\ ObjectOK' /\ OthersKeep(a)
           /\ copy'[a] = copy["cache"] /\ rec' = rec
<1>1. a \in Holders /\ "cache" \in Holders /\ "cache" # a
  BY ActorFacts
<1>2. \A h \in Holders : copy'[h] = IF h = a THEN copy["cache"] ELSE copy[h]
  BY <1>1 DEF Get, ObjectOK
<1>3. rec' = rec /\ stale' \subseteq Holders
  BY <1>1 DEF Get, ObjectOK
<1>5. FreshCopies'
  BY <1>1, <1>2 DEF Get, ObjectOK, FreshCopies
<1>4. copy' \in [Holders -> Sound']
  BY SoundStays, <1>1 DEF ObjectOK, Get
<1> QED
  BY <1>1, <1>2, <1>3, <1>4, <1>5, ActorFacts, SoundStays
  DEF ObjectOK, OthersKeep

(* A write of a sound object leaves the writer with that object.           *)
LEMMA StoreOK ==
    ASSUME ObjectOK, Onward, NEW a \in Actors, NEW r,
           r \in Sound \cup Sound', Store(r, {a})
    PROVE  /\ ObjectOK' /\ OthersKeep(a)
           /\ copy'[a] = r /\ rec' = r
<1>1. a \in Holders /\ InStep \subseteq {"cache"} /\ "cache" # a
  BY ActorFacts
<1>2. \A h \in Holders :
          copy'[h] = IF h \in {a} \cup InStep THEN r ELSE copy[h]
  BY DEF Store
<1>3. rec' = r /\ stale' = Holders \ ({a} \cup InStep)
  BY DEF Store
<1>5. FreshCopies'
  BY <1>2, <1>3 DEF FreshCopies
<1>4. copy' \in [Holders -> Sound']
  BY SoundStays DEF ObjectOK, Store
<1> QED
  BY <1>1, <1>2, <1>3, <1>4, <1>5, ActorFacts, SoundStays
  DEF ObjectOK, OthersKeep

(* The last write of a handler.                                            *)
LEMMA UpdateAndForgetOK ==
    ASSUME ObjectOK, Onward, NEW a \in Actors, NEW r,
           r \in Sound \cup Sound', UpdateAndForget(a, r)
    PROVE  /\ ObjectOK' /\ OthersKeep(a)
           /\ rec' = r /\ copy[a] = rec
<1>1. a \in Holders /\ InStep \subseteq {"cache"} /\ "cache" # a
  BY ActorFacts
<1>2. \A h \in Holders : copy'[h] = IF h = a THEN Absent
                                    ELSE IF h \in InStep THEN r ELSE copy[h]
  BY DEF UpdateAndForget
<1>3. rec' = r /\ stale' = Holders \ InStep /\ a \notin stale
  BY DEF UpdateAndForget
<1>5. FreshCopies'
  BY <1>1, <1>2, <1>3 DEF FreshCopies
<1>4. copy' \in [Holders -> Sound']
  BY SoundStays, AbsentSound DEF ObjectOK, UpdateAndForget
<1>6. copy[a] = rec
  BY <1>1, <1>3 DEF ObjectOK, FreshCopies
<1> QED
  BY <1>1, <1>2, <1>3, <1>4, <1>5, <1>6, ActorFacts, SoundStays
  DEF ObjectOK, OthersKeep

(* A handler that is over drops its copy.                                  *)
LEMMA ForgetOK ==
    ASSUME ObjectOK, Onward, NEW a \in Actors, Forget(a)
    PROVE  ObjectOK' /\ OthersKeep(a) /\ rec' = rec
<1>1. a \in Holders
  BY ActorFacts
<1>2. \A h \in Holders : copy'[h] = IF h = a THEN Absent ELSE copy[h]
  BY DEF Forget, ObjectOK
<1>3. rec' = rec /\ stale' = stale \cup {a}
  BY DEF Forget
<1>5. FreshCopies'
  BY <1>2, <1>3 DEF ObjectOK, FreshCopies
<1>4. copy' \in [Holders -> Sound']
  BY SoundStays, AbsentSound DEF ObjectOK, Forget
<1> QED
  BY <1>1, <1>2, <1>3, <1>4, <1>5, ActorFacts, SoundStays
  DEF ObjectOK, OthersKeep

-----------------------------------------------------------------------------
(* What the handlers write is sound when what they hold is.                *)

(* A new recommendation.                                                   *)
LEMMA NewSound ==
    ASSUME plan.size \in Sizes, plan.verdict \in Sizes
    PROVE  NewRecommendation \in Sound /\ NewRecommendation.state = "blank"
<1>1. NewRecommendation \in Recommendations
  BY AbsentSound DEF Sound, NewRecommendation, Absent, Recommendations, States
<1>2. WellFormed(NewRecommendation)
  BY SizesAssumption DEF NewRecommendation, Absent, WellFormed
<1> QED
  BY <1>1, <1>2 DEF Sound, ApprovalOnRecord, NewRecommendation, Absent

(* A published or expired recommendation is pending.                       *)
LEMMA PendingSound ==
    ASSUME NEW r \in Sound
    PROVE  /\ r.state = "blank" => /\ Published(r) \in Sound
                                   /\ Published(r).state = "pending"
           /\ r.state = "awaiting-approval" =>
                  /\ Expired(r) \in Sound /\ Expired(r).state = "pending"
                  /\ Rejected(r) \in Sound /\ Rejected(r).state = "pending"
<1>1. ASSUME r.state = "blank"
      PROVE  Published(r) \in Sound /\ Published(r).state = "pending"
  BY <1>1 DEF Sound, Recommendations, States, Published, WellFormed,
              ApprovalOnRecord
<1>2. ASSUME r.state = "awaiting-approval"
      PROVE  Expired(r) \in Sound /\ Expired(r).state = "pending"
  BY <1>2 DEF Sound, Recommendations, States, Ages, Stamps, Owners, Expired,
              WellFormed, ApprovalOnRecord
<1>3. ASSUME r.state = "awaiting-approval"
      PROVE  Rejected(r) \in Sound /\ Rejected(r).state = "pending"
  BY <1>3 DEF Sound, Recommendations, States, Ages, Stamps, Owners, Rejected,
              WellFormed, ApprovalOnRecord
<1> QED
  BY <1>1, <1>2, <1>3

(* Asking the owner.                                                       *)
LEMMA AwaitSound ==
    ASSUME NEW r \in Sound, r.state = "pending", NEW o \in Owners \ {""}
    PROVE  /\ AwaitApproval(r, o) \in Sound
           /\ AwaitApproval(r, o).state = "awaiting-approval"
BY DEF Sound, Recommendations, States, Ages, Stamps, AwaitApproval,
       WellFormed, ApprovalOnRecord

(* The other writes of the two controllers.                                *)
LEMMA ControllerSound ==
    ASSUME NEW r \in Sound
    PROVE  /\ r.state = "awaiting-approval" => Reminded(r) \in Sound
           /\ r.state \notin Protected \cup {"absent"} /\ plan.verdict \in Sizes
                  => /\ Recalculated(r) \in Sound
                     /\ Recalculated(r).state = r.state
           /\ r.state = "pending" /\ ~NeedsApproval
                  => AutoApplied(r) \in Sound /\ AutoFailed(r) \in Sound
           /\ RestartDue(r) => Restarted(r) \in Sound /\ RestartFailed(r) \in Sound
<1>1. r.state = "awaiting-approval" => Reminded(r) \in Sound
  BY DEF Sound, Recommendations, Stamps, Reminded, WellFormed, ApprovalOnRecord
<1>2. r.state \notin Protected \cup {"absent"} /\ plan.verdict \in Sizes
        => Recalculated(r) \in Sound /\ Recalculated(r).state = r.state
  BY SizesAssumption
  DEF Sound, Recommendations, Recalculated, Protected, WellFormed,
      ApprovalOnRecord
<1>3. r.state = "pending" /\ ~NeedsApproval => AutoApplied(r) \in Sound
  BY DEF Sound, Recommendations, States, Stamps, AutoApplied, WellFormed,
         ApprovalOnRecord
<1>4. r.state = "pending" => AutoFailed(r) \in Sound
  BY DEF Sound, Recommendations, States, AutoFailed, WellFormed,
         ApprovalOnRecord
<1>5. RestartDue(r) => Restarted(r) \in Sound
  BY DEF Sound, Recommendations, States, Stamps, Times, Restarted, RestartDue,
         WellFormed, ApprovalOnRecord
<1>6. RestartDue(r) => RestartFailed(r) \in Sound
  BY DEF Sound, Recommendations, States, RestartFailed, RestartDue,
         WellFormed, ApprovalOnRecord
<1> QED
  BY <1>1, <1>2, <1>3, <1>4, <1>5, <1>6

(* The writes of the handlers.                                             *)
LEMMA HandlerSound ==
    ASSUME NEW r \in Sound, NEW t \in RestartOptions
    PROVE  /\ r.state = "awaiting-approval" =>
                  \A o \in Owners \ {""} : Approved(r, t, o) \in Sound
           /\ r.state \in {"applied", "applied-pending-restart"} =>
                  Reverted(r) \in Sound
<1>2. ASSUME r.state = "awaiting-approval", NEW o \in Owners \ {""}
      PROVE  Approved(r, t, o) \in Sound
  BY <1>2 DEF Sound, Recommendations, States, Stamps, Times, RestartOptions,
              Approved, ApplyWith, SpecHotplugCapable, WellFormed,
              ApprovalOnRecord
<1>3. ASSUME r.state \in {"applied", "applied-pending-restart"}
      PROVE  Reverted(r) \in Sound
  BY <1>3 DEF Sound, Recommendations, States, Reverted, WellFormed,
              ApprovalOnRecord
<1> QED
  BY <1>2, <1>3

(* Applying without asking, when nobody has to be asked any more.          *)
LEMMA DirectSound ==
    ASSUME NEW r \in Sound, NEW t \in RestartOptions, r.state = "pending",
           ~NeedsApproval'
    PROVE  Direct(r, t) \in Sound'
BY DEF Sound, Recommendations, States, Stamps, Times, RestartOptions, Direct,
       ApplyWith, SpecHotplugCapable, WellFormed, ApprovalOnRecord

(* Time passes over a sound object.                                        *)
LEMMA TimeSound ==
    ASSUME NEW r \in Sound
    PROVE  /\ Aged(r) \in Sound /\ Aged(r).state = r.state
           /\ Aged(r).scheduledRestartAt = r.scheduledRestartAt
           /\ Matured(r) \in Sound /\ Matured(r).state = r.state
           /\ r.scheduledRestartAt = "due" =>
                  Matured(r).scheduledRestartAt = "due"
<1>1. Older(r.notifiedAt) \in Ages
      /\ (Older(r.notifiedAt) = "nil" <=> r.notifiedAt = "nil")
  BY DEF Older, Ages, Sound, Recommendations
<1>2. CASE r.state = "absent"
  <2>1. r = Absent
    BY <1>2 DEF Sound, WellFormed
  <2>2. Aged(r) = r /\ Matured(r) = r
    BY <2>1 DEF Aged, Matured, Older, Absent
  <2> QED
    BY <2>2
<1>3. CASE r.state # "absent"
  <2>1. Aged(r) \in Sound /\ Aged(r).state = r.state
        /\ Aged(r).scheduledRestartAt = r.scheduledRestartAt
    BY <1>1, <1>3 DEF Sound, Recommendations, Aged, WellFormed,
                      ApprovalOnRecord
  <2>2. Matured(r) \in Sound /\ Matured(r).state = r.state
    BY <1>3 DEF Sound, Recommendations, Times, Matured, WellFormed,
                ApprovalOnRecord
  <2>3. r.scheduledRestartAt = "due" => Matured(r).scheduledRestartAt = "due"
    BY DEF Sound, Recommendations, Matured
  <2> QED
    BY <2>1, <2>2, <2>3
<1> QED
  BY <1>2, <1>3

-----------------------------------------------------------------------------
(* The parts of Inv besides ObjectOK.                                      *)
ControlOK ==
    /\ pc \in [Actors -> RcLabels \cup RsLabels \cup RequestLabels]
    /\ pc[RC] \in RcLabels
    /\ pc[RS] \in RsLabels
    /\ \A q \in Requests : pc[q] \in RequestLabels
    /\ plan \in [auto: BOOLEAN, size: Sizes \cup {None},
                 verdict: Sizes \cup {None}]
    /\ req \in [Requests -> Ops \cup {NoOp}]

WorldOK ==
    /\ vm \in [size: Sizes, exclude: {"true", "unset"}]
    /\ auto \in BOOLEAN
    /\ faults \in 0 .. MaxFaults
    /\ sent \in BOOLEAN
    /\ reminders \in 0 .. 2
    /\ restarts \in 0 .. 2
    /\ unresolved \in BOOLEAN
    /\ original \in Sizes \cup {None}

KnowledgeOK == RecommendationKnows /\ RestartKnows /\ RequestsKnow

(* Inv is the conjunction of its parts.                                    *)
LEMMA InvParts == Inv <=> ObjectOK /\ ControlOK /\ WorldOK /\ KnowledgeOK
BY DEF Inv, TypeOK, ObjectOK, ControlOK, WorldOK, KnowledgeOK, CopiesSound,
       Sound

(* The same about the next state.                                          *)
LEMMA InvPartsNext ==
    ObjectOK' /\ ControlOK' /\ WorldOK' /\ KnowledgeOK' => Inv'
BY InvParts, PTL

(* A step of the recommendation controller: what the others know holds on. *)
LEMMA RcFrame ==
    ASSUME Inv, OthersKeep(RC), req' = req, NEW l \in RcLabels,
           pc' = [pc EXCEPT ![RC] = l]
    PROVE  /\ RestartKnows' /\ RequestsKnow'
           /\ pc'[RC] = l
           /\ pc' \in [Actors -> RcLabels \cup RsLabels \cup RequestLabels]
           /\ pc'[RS] \in RsLabels
           /\ \A q \in Requests : pc'[q] \in RequestLabels
<1>1. pc \in [Actors -> RcLabels \cup RsLabels \cup RequestLabels]
  BY DEF Inv, TypeOK
<1>2. \A a \in Actors \ {RC} : pc'[a] = pc[a] /\ copy'[a] = copy[a]
  BY <1>1 DEF OthersKeep
<1>3. RestartKnows'
  BY <1>2, ActorFacts DEF Inv, RestartKnows, RestartDue
<1>4. RequestsKnow'
  BY <1>2, ActorFacts DEF Inv, RequestsKnow, Admits, Accepts
<1> QED
  BY <1>1, <1>2, <1>3, <1>4, ActorFacts DEF Inv, TypeOK

(* The reconcile returns.                                                  *)
LEMMA RcReturns ==
    ASSUME Inv, Onward, ObjectOK', OthersKeep(RC), req' = req, Return, WorldOK'
    PROVE  Inv'
<1>1. pc' = [pc EXCEPT ![RC] = "idle"] /\ plan' = NoPlan
  BY DEF Return, Goto
<1>2. "idle" \in RcLabels
  BY DEF RcLabels
<1>3. NoPlan \in [auto: BOOLEAN, size: Sizes \cup {None},
                  verdict: Sizes \cup {None}]
  BY DEF NoPlan
<1>4. /\ RestartKnows' /\ RequestsKnow'
      /\ pc'[RC] = "idle"
      /\ pc' \in [Actors -> RcLabels \cup RsLabels \cup RequestLabels]
      /\ pc'[RS] \in RsLabels
      /\ \A q \in Requests : pc'[q] \in RequestLabels
  BY <1>1, <1>2, RcFrame
<1>5. RecommendationKnows'
  BY <1>4 DEF RecommendationKnows
<1>6. ControlOK'
  BY <1>1, <1>2, <1>3, <1>4 DEF ControlOK, Inv, TypeOK
<1> QED
  BY <1>4, <1>5, <1>6, InvPartsNext DEF KnowledgeOK

(* The reconcile goes on with the same plan.                               *)
LEMMA RcProceeds ==
    ASSUME Inv, Onward, ObjectOK', OthersKeep(RC), req' = req, WorldOK',
           NEW l \in RcLabels, Proceed(l), RecommendationKnows'
    PROVE  Inv'
<1>1. pc' = [pc EXCEPT ![RC] = l] /\ plan' = plan
  BY DEF Proceed, Goto
<1>2. /\ RestartKnows' /\ RequestsKnow'
      /\ pc'[RC] = l
      /\ pc' \in [Actors -> RcLabels \cup RsLabels \cup RequestLabels]
      /\ pc'[RS] \in RsLabels
      /\ \A q \in Requests : pc'[q] \in RequestLabels
  BY <1>1, RcFrame
<1>3. ControlOK'
  BY <1>1, <1>2 DEF ControlOK, Inv, TypeOK
<1> QED
  BY <1>2, <1>3, InvPartsNext DEF KnowledgeOK

(* Where the reconcile is after a step.                                    *)
LEMMA RcAt ==
    ASSUME Inv, NEW l, Goto(l)
    PROVE  pc'[RC] = l
BY ActorFacts DEF Goto, Inv, TypeOK

(* A step that touches nothing of the object.                              *)
LEMMA ObjectKept ==
    ASSUME Inv, Onward, UNCHANGED object
    PROVE  ObjectOK' /\ \A a \in Actors : OthersKeep(a) /\ copy'[a] = copy[a]
<1>1. ObjectOK
  BY InvParts
<1> QED
  BY <1>1, SoundStays DEF ObjectOK, FreshCopies, OthersKeep, object

(* Facts about the copy the reconcile holds.                               *)
LEMMA RcHolds ==
    ASSUME Inv
    PROVE  /\ ObjectOK /\ WorldOK
           /\ rec \in Sound /\ copy["cache"] \in Sound
           /\ \A a \in Actors : copy[a] \in Sound
           /\ pc[RC] # "idle" => plan.size \in Sizes
           /\ plan.verdict # None => plan.verdict \in Sizes
<1>1. ObjectOK /\ ControlOK /\ WorldOK /\ RecommendationKnows
  BY InvParts DEF KnowledgeOK
<1>2. rec \in Sound /\ copy["cache"] \in Sound
      /\ \A a \in Actors : copy[a] \in Sound
  BY <1>1, ActorFacts DEF ObjectOK
<1> QED
  BY <1>1, <1>2 DEF ControlOK, RecommendationKnows

-----------------------------------------------------------------------------
(* Each step of a reconcile preserves Inv.                                 *)

(* Policy, VM and analysis.                                                *)
LEMMA BeginInv == Inv /\ Onward /\ Begin => Inv'
<1> SUFFICES ASSUME Inv, Onward, Begin PROVE Inv'
  OBVIOUS
<1>1. ObjectOK' /\ OthersKeep(RC)
  BY ObjectKept, ActorFacts DEF Begin
<1>2. pc' = [pc EXCEPT ![RC] = "get"] /\ "get" \in RcLabels /\ req' = req
  BY DEF Begin, Goto, RcLabels, mine
<1>3. PICK v \in Verdicts :
        plan' = [auto |-> auto, size |-> vm.size,
                 verdict |-> IF vm.exclude = "true" THEN None ELSE v]
  BY DEF Begin
<1>4. /\ RestartKnows' /\ RequestsKnow'
      /\ pc'[RC] = "get"
      /\ pc' \in [Actors -> RcLabels \cup RsLabels \cup RequestLabels]
      /\ pc'[RS] \in RsLabels
      /\ \A q \in Requests : pc'[q] \in RequestLabels
  BY <1>1, <1>2, RcFrame
<1>5. auto \in BOOLEAN /\ vm.size \in Sizes /\ vm.size # None
  BY SizesAssumption DEF Inv, TypeOK
<1>6. plan' \in [auto: BOOLEAN, size: Sizes \cup {None},
                 verdict: Sizes \cup {None}] /\ plan'.size # None
  BY <1>3, <1>5, VerdictsAssumption
<1>7. ControlOK'
  BY <1>2, <1>4, <1>6 DEF ControlOK, Inv, TypeOK
<1>8. RecommendationKnows'
  BY <1>4, <1>6 DEF RecommendationKnows
<1>9. WorldOK'
  BY RcHolds DEF Begin, mine, WorldOK, environment, history
<1> QED
  BY <1>1, <1>4, <1>7, <1>8, <1>9, InvPartsNext DEF KnowledgeOK

(* The Get of the recommendation, and where it leads.                      *)
LEMMA GetRecommendationInv == Inv /\ Onward /\ GetRecommendation => Inv'
<1> SUFFICES ASSUME Inv, Onward, GetRecommendation PROVE Inv'
  OBVIOUS
<1> DEFINE r == copy["cache"]
           next == IF plan.verdict = None THEN DeleteBranch(r) ELSE Branch(r)
<1>1. WorldOK' /\ req' = req
  BY RcHolds DEF GetRecommendation, mine, WorldOK, environment, history
<1>2. ObjectOK /\ RC \in Actors
  BY RcHolds, ActorFacts
<1>3. CASE next = "idle"
  <2>1. Forget(RC) /\ Return
    BY <1>3 DEF GetRecommendation
  <2> QED
    BY <1>1, <1>2, <2>1, ForgetOK, RcReturns
<1>4. CASE next # "idle"
  <2>1. Get(RC) /\ Proceed(next) /\ pc[RC] = "get"
    BY <1>4 DEF GetRecommendation, At
  <2>2. ObjectOK' /\ OthersKeep(RC) /\ copy'[RC] = r
    BY <1>2, <2>1, GetOK
  <2>3. pc'[RC] = next /\ plan' = plan
    BY <2>1, RcAt DEF Proceed
  <2>4. next \in {"delete", "create", "expire", "remind", "update"}
    BY <1>4 DEF Branch, DeleteBranch
  <2>5. plan.size # None
    BY <2>1, SizesAssumption, RcHolds
  <2>6. next \in {"expire", "remind"} => r.state = "awaiting-approval"
    BY DEF Branch, DeleteBranch
  <2>7. next = "update" => r.state \notin Protected \cup {"absent"}
    BY DEF Branch, DeleteBranch
  <2>8. next # "delete" => plan.verdict # None
    BY <1>4 DEF DeleteBranch
  <2>11. next = "delete" => r.state \notin Protected \cup {"absent"}
    BY DEF Branch, DeleteBranch
  <2>9. RecommendationKnows'
    BY <2>2, <2>3, <2>4, <2>5, <2>6, <2>7, <2>8, <2>11 DEF RecommendationKnows
  <2>10. next \in RcLabels
    BY <2>4 DEF RcLabels
  <2> QED
    BY <1>1, <2>1, <2>2, <2>9, <2>10, RcProceeds
<1> QED
  BY <1>3, <1>4

(* The Delete, which may hit an object the reconcile has never seen.       *)
LEMMA DeleteExistingInv == Inv /\ Onward /\ DeleteExisting => Inv'
<1> SUFFICES ASSUME Inv, Onward, DeleteExisting PROVE Inv'
  OBVIOUS
<1>1. WorldOK' /\ req' = req
  BY RcHolds DEF DeleteExisting, mine, WorldOK, environment, history
<1>2. copy' = [h \in Holders |-> IF h \in InStep \cup {RC}
                                 THEN Absent ELSE copy[h]]
      /\ rec' = Absent /\ stale' = Holders \ InStep /\ Return
  BY DEF DeleteExisting
<1>3. ObjectOK'
  BY <1>2, RcHolds, AbsentSound, SoundStays DEF ObjectOK, FreshCopies
<1>4. OthersKeep(RC)
  BY <1>2, ActorFacts DEF OthersKeep
<1> QED
  BY <1>1, <1>2, <1>3, <1>4, RcReturns

(* A refused write ends the reconcile.                                     *)
LEMMA RefusedInv ==
    ASSUME Inv, Onward, Refused, req' = req, WorldOK'
    PROVE  Inv'
BY RcHolds, ActorFacts, ForgetOK, RcReturns DEF Refused

(* A write that may be followed by autoApply.                              *)
LEMMA ContinueInv ==
    ASSUME Inv, Onward, req' = req, WorldOK', pc[RC] # "idle",
           NEW r \in Sound, WriteAndContinue(r)
    PROVE  Inv'
<1>1. ObjectOK /\ RC \in Actors
  BY RcHolds, ActorFacts
<1>2. CASE plan.auto /\ r.state = "pending"
  <2>1. Update(RC, r) /\ Proceed("auto")
    BY <1>2 DEF WriteAndContinue
  <2>2. ObjectOK' /\ OthersKeep(RC) /\ copy'[RC] = r
    BY <1>1, <2>1, StoreOK DEF Update
  <2>3. pc'[RC] = "auto" /\ plan' = plan /\ plan.size # None
    BY <2>1, RcAt, RcHolds, SizesAssumption DEF Proceed
  <2>4. RecommendationKnows'
    BY <1>2, <2>2, <2>3 DEF RecommendationKnows
  <2> QED
    BY <2>1, <2>2, <2>4, RcProceeds DEF RcLabels
<1>3. CASE ~(plan.auto /\ r.state = "pending")
  BY <1>1, <1>3, UpdateAndForgetOK, RcReturns DEF WriteAndContinue
<1> QED
  BY <1>2, <1>3

(* Create.                                                                 *)
LEMMA CreateInv == Inv /\ Onward /\ Create => Inv'
<1> SUFFICES ASSUME Inv, Onward, Create PROVE Inv'
  OBVIOUS
<1>1. ObjectOK /\ RC \in Actors /\ req' = req /\ pc[RC] = "create"
  BY RcHolds, ActorFacts DEF Create, At
<1>2. WorldOK'
  BY RcHolds DEF Create, WorldOK, environment, history
<1>3. CASE rec.state = "absent"
  <2>1. Store(NewRecommendation, {RC}) /\ Proceed("publish")
    BY <1>3 DEF Create
  <2>2. plan.size \in Sizes /\ plan.verdict \in Sizes
    BY <1>1, RcHolds DEF Inv, RecommendationKnows
  <2>3. ObjectOK' /\ OthersKeep(RC) /\ copy'[RC].state = "blank"
    BY <1>1, <2>1, <2>2, NewSound, StoreOK
  <2>4. pc'[RC] = "publish" /\ plan' = plan
    BY <2>1, RcAt DEF Proceed
  <2>5. RecommendationKnows'
    BY <2>2, <2>3, <2>4, SizesAssumption DEF RecommendationKnows
  <2> QED
    BY <1>1, <1>2, <2>1, <2>3, <2>5, RcProceeds DEF RcLabels
<1>4. CASE rec.state # "absent"
  BY <1>1, <1>2, <1>4, ForgetOK, RcReturns DEF Create
<1> QED
  BY <1>3, <1>4

(* The first status update.                                                *)
LEMMA PublishInv == Inv /\ Onward /\ Publish => Inv'
<1> SUFFICES ASSUME Inv, Onward, Publish PROVE Inv'
  OBVIOUS
<1>1. req' = req /\ pc[RC] = "publish" /\ WorldOK'
  BY RcHolds DEF Publish, At, mine, WorldOK, environment, history
<1>2. copy[RC] \in Sound /\ copy[RC].state = "blank"
  BY <1>1, RcHolds, ActorFacts DEF Inv, RecommendationKnows
<1>3. Published(copy[RC]) \in Sound
  BY <1>2, PendingSound
<1> QED
  BY <1>1, <1>3, ContinueInv, RefusedInv DEF Publish

(* The reset of an expired approval.                                       *)
LEMMA ExpireInv == Inv /\ Onward /\ Expire => Inv'
<1> SUFFICES ASSUME Inv, Onward, Expire PROVE Inv'
  OBVIOUS
<1>1. req' = req /\ pc[RC] = "expire" /\ WorldOK' /\ ObjectOK
  BY RcHolds DEF Expire, At, mine, WorldOK, environment, history
<1>2. copy[RC] \in Sound /\ copy[RC].state = "awaiting-approval"
      /\ plan.verdict # None /\ plan.size # None
  BY <1>1, RcHolds, ActorFacts DEF Inv, RecommendationKnows
<1>3. CASE Update(RC, Expired(copy[RC])) /\ Proceed("update")
  <2>1. ObjectOK' /\ OthersKeep(RC) /\ copy'[RC].state = "pending"
    BY <1>1, <1>2, <1>3, ActorFacts, PendingSound, StoreOK DEF Update
  <2>2. pc'[RC] = "update" /\ plan' = plan
    BY <1>3, RcAt DEF Proceed
  <2>3. RecommendationKnows'
    BY <1>2, <2>1, <2>2 DEF RecommendationKnows, Protected
  <2> QED
    BY <1>1, <1>3, <2>1, <2>3, RcProceeds DEF RcLabels
<1> QED
  BY <1>1, <1>3, RefusedInv DEF Expire

(* The reminder.                                                           *)
LEMMA SendReminderInv == Inv /\ Onward /\ SendReminder => Inv'
<1> SUFFICES ASSUME Inv, Onward, SendReminder PROVE Inv'
  OBVIOUS
<1>1. req' = req /\ pc[RC] = "remind" /\ Proceed("stamp") /\ UNCHANGED object
  BY DEF SendReminder, At
<1>2. WorldOK'
  BY RcHolds DEF SendReminder, WorldOK, environment
<1>3. ObjectOK' /\ OthersKeep(RC) /\ copy'[RC] = copy[RC]
  BY <1>1, ObjectKept, ActorFacts
<1>4. pc'[RC] = "stamp" /\ plan' = plan
  BY <1>1, RcAt DEF Proceed
<1>5. RecommendationKnows'
  BY <1>1, <1>3, <1>4 DEF Inv, RecommendationKnows, Onward
<1> QED
  BY <1>1, <1>2, <1>3, <1>5, RcProceeds DEF RcLabels

(* Its stamp.                                                              *)
LEMMA StampReminderInv == Inv /\ Onward /\ StampReminder => Inv'
<1> SUFFICES ASSUME Inv, Onward, StampReminder PROVE Inv'
  OBVIOUS
<1>1. req' = req /\ pc[RC] = "stamp" /\ WorldOK' /\ ObjectOK
  BY RcHolds DEF StampReminder, At, mine, WorldOK, environment, history
<1>2. copy[RC] \in Sound /\ copy[RC].state = "awaiting-approval"
  BY <1>1, RcHolds, ActorFacts DEF Inv, RecommendationKnows
<1>3. Reminded(copy[RC]) \in Sound
  BY <1>2, ControllerSound
<1> QED
  BY <1>1, <1>3, ActorFacts, UpdateAndForgetOK, RcReturns, RefusedInv
  DEF StampReminder

(* The recalculation.                                                      *)
LEMMA UpdateSpecInv == Inv /\ Onward /\ UpdateSpec => Inv'
<1> SUFFICES ASSUME Inv, Onward, UpdateSpec PROVE Inv'
  OBVIOUS
<1>1. req' = req /\ pc[RC] = "update" /\ WorldOK' /\ ObjectOK
  BY RcHolds DEF UpdateSpec, At, mine, WorldOK, environment, history
<1>2. copy[RC] \in Sound /\ copy[RC].state \notin Protected \cup {"absent"}
      /\ plan.verdict \in Sizes /\ plan.verdict # None /\ plan.size # None
  BY <1>1, RcHolds, ActorFacts DEF Inv, RecommendationKnows
<1>3. CASE Update(RC, Recalculated(copy[RC])) /\ Proceed("calculated")
  <2>1. Recalculated(copy[RC]) \in Sound
        /\ Recalculated(copy[RC]).state = copy[RC].state
    BY <1>2, ControllerSound
  <2>2. ObjectOK' /\ OthersKeep(RC) /\ copy'[RC].state = copy[RC].state
    BY <1>1, <1>3, <2>1, ActorFacts, StoreOK DEF Update
  <2>3. pc'[RC] = "calculated" /\ plan' = plan
    BY <1>3, RcAt DEF Proceed
  <2>4. RecommendationKnows'
    BY <1>2, <2>2, <2>3 DEF RecommendationKnows
  <2> QED
    BY <1>1, <1>3, <2>2, <2>4, RcProceeds DEF RcLabels
<1> QED
  BY <1>1, <1>3, RefusedInv DEF UpdateSpec

(* The second status update.                                               *)
LEMMA UpdateLastCalculatedInv == Inv /\ Onward /\ UpdateLastCalculated => Inv'
<1> SUFFICES ASSUME Inv, Onward, UpdateLastCalculated PROVE Inv'
  OBVIOUS
<1>1. req' = req /\ pc[RC] = "calculated" /\ WorldOK'
  BY RcHolds DEF UpdateLastCalculated, At, mine, WorldOK, environment, history
<1>2. copy[RC] \in Sound
  BY RcHolds, ActorFacts
<1> QED
  BY <1>1, <1>2, ContinueInv, RefusedInv DEF UpdateLastCalculated

-----------------------------------------------------------------------------
(* autoApply.                                                              *)

(* No owner, or none that could be found.                                  *)
LEMMA AutoUnownedInv == Inv /\ Onward /\ AutoUnowned => Inv'
<1> SUFFICES ASSUME Inv, Onward, AutoUnowned PROVE Inv'
  OBVIOUS
<1>1. req' = req /\ pc[RC] = "auto" /\ Proceed("direct") /\ UNCHANGED object
  BY DEF AutoUnowned, At
<1>2. WorldOK'
  <2>1. UNCHANGED <<vm, auto, sent, reminders, restarts, original>>
    BY DEF AutoUnowned, environment
  <2>2. faults' = faults \/ (faults < MaxFaults /\ faults' = faults + 1)
    BY Zenon DEF AutoUnowned, LookupFails
  <2>3. unresolved' = unresolved \/ unresolved' = TRUE
    BY Zenon DEF AutoUnowned, LookupFails
  <2>4. unresolved' \in BOOLEAN
    BY <2>3, RcHolds, Zenon DEF WorldOK
  <2> QED
    BY <2>1, <2>2, <2>4, RcHolds, MaxFaultsAssumption DEF WorldOK
<1>3. ObjectOK' /\ OthersKeep(RC) /\ copy'[RC] = copy[RC]
  BY <1>1, ObjectKept, ActorFacts
<1>4. pc'[RC] = "direct" /\ plan' = plan
  BY <1>1, RcAt DEF Proceed
<1>5. ~NeedsApproval'
  <2>1. Notifier => TokenManager
    BY DeploymentAssumption DEF Deployments, Notifier, TokenManager
  <2>2. ~AutoOwned \/ unresolved'
    BY Zenon DEF AutoUnowned, LookupFails
  <2> QED
    BY <2>1, <2>2 DEF AutoOwned, NeedsApproval, TokenManager, DemoMode
<1>6. RecommendationKnows'
  BY <1>1, <1>3, <1>4, <1>5 DEF Inv, RecommendationKnows
<1> QED
  BY <1>1, <1>2, <1>3, <1>6, RcProceeds DEF RcLabels

(* The owner is asked.                                                     *)
LEMMA AutoRouteInv == Inv /\ Onward /\ AutoRoute => Inv'
<1> SUFFICES ASSUME Inv, Onward, AutoRoute PROVE Inv'
  OBVIOUS
<1> DEFINE r == AwaitApproval(copy[RC], ResolveOwner)
<1>1. req' = req /\ pc[RC] = "auto" /\ ObjectOK /\ RC \in Actors
  BY RcHolds, ActorFacts DEF AutoRoute, At
<1>2. WorldOK'
  <2>1. (sent' = FALSE /\ reminders' = 0) \/ UNCHANGED <<sent, reminders>>
    BY Zenon DEF AutoRoute
  <2>2. UNCHANGED <<environment, faults, restarts, unresolved, original>>
    BY DEF AutoRoute
  <2>3. WorldOK
    BY RcHolds
  <2>4. sent' \in BOOLEAN
    BY <2>1, <2>3, Zenon DEF WorldOK
  <2>5. reminders' \in 0 .. 2
    BY <2>1, <2>3 DEF WorldOK
  <2> QED
    BY <2>2, <2>3, <2>4, <2>5 DEF WorldOK, environment
<1>3. copy[RC] \in Sound /\ copy[RC].state = "pending" /\ plan.size # None
  BY <1>1, RcHolds DEF Inv, RecommendationKnows
<1>4. ResolveOwner \in Owners \ {""}
  BY DEF AutoRoute, AutoOwned, HasOwner, ResolveOwner, Owners
<1>5. r \in Sound
  BY <1>3, <1>4, AwaitSound
<1>6. CASE Update(RC, r) /\ Proceed("notify")
  <2>1. ObjectOK' /\ OthersKeep(RC)
    BY <1>1, <1>5, <1>6, StoreOK DEF Update
  <2>2. pc'[RC] = "notify" /\ plan' = plan
    BY <1>6, RcAt DEF Proceed
  <2>3. RecommendationKnows'
    BY <1>3, <2>2 DEF RecommendationKnows
  <2> QED
    BY <1>1, <1>2, <1>6, <2>1, <2>3, RcProceeds DEF RcLabels
<1>7. CASE UpdateAndForget(RC, r) /\ Return
  BY <1>1, <1>2, <1>5, <1>7, UpdateAndForgetOK, RcReturns
<1> QED
  BY <1>1, <1>2, <1>6, <1>7, RefusedInv DEF AutoRoute

(* The owner is told.                                                      *)
LEMMA AutoNotifyInv == Inv /\ Onward /\ AutoNotify => Inv'
<1> SUFFICES ASSUME Inv, Onward, AutoNotify PROVE Inv'
  OBVIOUS
<1>1. WorldOK'
  BY RcHolds DEF AutoNotify, WorldOK, environment
<1> QED
  BY <1>1, RcHolds, ActorFacts, ForgetOK, RcReturns DEF AutoNotify

(* The VM is patched.                                                      *)
LEMMA AutoPatchInv == Inv /\ Onward /\ AutoPatch => Inv'
<1> SUFFICES ASSUME Inv, Onward, AutoPatch PROVE Inv'
  OBVIOUS
<1>1. req' = req /\ pc[RC] = "direct" /\ Proceed("patched") /\ UNCHANGED object
  BY DEF AutoPatch, At
<1>2. copy[RC] \in Sound /\ copy[RC].state = "pending"
  BY <1>1, RcHolds, ActorFacts DEF Inv, RecommendationKnows
<1>3. copy[RC].recommended \in Sizes
  BY <1>2 DEF Sound, Recommendations, WellFormed
<1>4. WorldOK'
  BY <1>3, RcHolds DEF AutoPatch, WorldOK
<1>5. ObjectOK' /\ OthersKeep(RC) /\ copy'[RC] = copy[RC]
  BY <1>1, ObjectKept, ActorFacts
<1>6. pc'[RC] = "patched" /\ plan' = plan
  BY <1>1, RcAt DEF Proceed
<1>7. RecommendationKnows'
  BY <1>1, <1>5, <1>6 DEF Inv, RecommendationKnows, Onward
<1> QED
  BY <1>1, <1>4, <1>5, <1>7, RcProceeds DEF RcLabels

(* Or not.                                                                 *)
LEMMA AutoPatchFailsInv == Inv /\ Onward /\ AutoPatchFails => Inv'
<1> SUFFICES ASSUME Inv, Onward, AutoPatchFails PROVE Inv'
  OBVIOUS
<1>1. req' = req /\ pc[RC] = "direct" /\ Proceed("unpatched")
      /\ UNCHANGED object
  BY DEF AutoPatchFails, At
<1>2. WorldOK'
  BY RcHolds, MaxFaultsAssumption
  DEF AutoPatchFails, WorldOK, environment, history
<1>3. ObjectOK' /\ OthersKeep(RC) /\ copy'[RC] = copy[RC]
  BY <1>1, ObjectKept, ActorFacts
<1>4. pc'[RC] = "unpatched" /\ plan' = plan
  BY <1>1, RcAt DEF Proceed
<1>5. RecommendationKnows'
  BY <1>1, <1>3, <1>4 DEF Inv, RecommendationKnows, Onward
<1> QED
  BY <1>1, <1>2, <1>3, <1>5, RcProceeds DEF RcLabels

(* The outcome is recorded.                                                *)
LEMMA AutoStatusInv == Inv /\ Onward /\ AutoStatus => Inv'
<1> SUFFICES ASSUME Inv, Onward, AutoStatus PROVE Inv'
  OBVIOUS
<1>1. req' = req /\ pc[RC] \in {"patched", "unpatched"} /\ WorldOK' /\ ObjectOK
  BY RcHolds DEF AutoStatus, At, mine, WorldOK, environment, history
<1>2. copy[RC] \in Sound /\ copy[RC].state = "pending" /\ ~NeedsApproval
  BY <1>1, RcHolds, ActorFacts DEF Inv, RecommendationKnows
<1>3. AutoApplied(copy[RC]) \in Sound /\ AutoFailed(copy[RC]) \in Sound
  BY <1>2, ControllerSound
<1> QED
  BY <1>1, <1>3, ActorFacts, UpdateAndForgetOK, RcReturns, RefusedInv
  DEF AutoStatus

(* Every step of the recommendation controller preserves Inv.              *)
LEMMA RecommendationStepInv == Inv /\ Onward /\ RecommendationStep => Inv'
BY BeginInv, GetRecommendationInv, DeleteExistingInv, CreateInv, PublishInv,
   ExpireInv, SendReminderInv, StampReminderInv, UpdateSpecInv,
   UpdateLastCalculatedInv, AutoUnownedInv, AutoRouteInv, AutoNotifyInv,
   AutoPatchInv, AutoPatchFailsInv, AutoStatusInv
DEF RecommendationStep

-----------------------------------------------------------------------------
(* The restart controller and the requests leave the plan of a reconcile   *)
(* and the knowledge of the others alone.                                  *)

(* Steps of the restart controller.                                        *)
LEMMA RestartFrame ==
    ASSUME Inv, Onward, ObjectOK', OthersKeep(RS), req' = req, plan' = plan, WorldOK',
           NEW l \in RsLabels, RestartGoto(l),
           l # "idle" => RestartDue(copy'[RS])
    PROVE  Inv'
<1>1. pc \in [Actors -> RcLabels \cup RsLabels \cup RequestLabels]
      /\ pc' = [pc EXCEPT ![RS] = l]
  BY DEF Inv, TypeOK, RestartGoto
<1>2. pc'[RS] = l
      /\ \A a \in Actors \ {RS} : pc'[a] = pc[a] /\ copy'[a] = copy[a]
  BY <1>1, ActorFacts DEF OthersKeep
<1>3. RecommendationKnows'
  BY <1>2, ActorFacts DEF Inv, RecommendationKnows, Onward
<1>4. RestartKnows'
  BY <1>2 DEF RestartKnows, RestartDue
<1>5. RequestsKnow'
  BY <1>2, ActorFacts DEF Inv, RequestsKnow, Admits, Accepts
<1>6. ControlOK'
  BY <1>1, <1>2, ActorFacts DEF ControlOK, Inv, TypeOK
<1> QED
  BY <1>3, <1>4, <1>5, <1>6, InvPartsNext DEF KnowledgeOK

(* Every step of the restart controller preserves Inv.                     *)
LEMMA RestartStepInv == Inv /\ Onward /\ RestartStep => Inv'
<1> SUFFICES ASSUME Inv, Onward, RestartStep PROVE Inv'
  OBVIOUS
<1>1. ObjectOK /\ WorldOK /\ RS \in Actors /\ copy[RS] \in Sound
      /\ (pc[RS] # "idle" => RestartDue(copy[RS]))
  BY RcHolds, ActorFacts DEF Inv, RestartKnows
<1>2. {"idle", "restart", "restarted", "unrestarted"} \subseteq RsLabels
  BY DEF RsLabels
<1>3. CASE RestartBegin
  <2>1. WorldOK' /\ Get(RS) /\ RestartGoto("restart")
        /\ req' = req /\ plan' = plan /\ RestartDue(copy["cache"])
    BY <1>1, <1>3 DEF RestartBegin, WorldOK, environment, history
  <2>2. ObjectOK' /\ OthersKeep(RS) /\ copy'[RS] = copy["cache"]
    BY <1>1, <2>1, GetOK
  <2>3. RestartDue(copy'[RS])
    BY <2>1, <2>2
  <2> QED
    BY <1>2, <2>1, <2>2, <2>3, RestartFrame
<1>4. CASE RestartVM \/ RestartVMFails
  <2>1. WorldOK'
    BY <1>1, <1>4, MaxFaultsAssumption
    DEF RestartVM, RestartVMFails, WorldOK, environment, history
  <2>2. UNCHANGED object /\ req' = req /\ plan' = plan /\ pc[RS] = "restart"
        /\ (RestartGoto("restarted") \/ RestartGoto("unrestarted"))
    BY <1>4 DEF RestartVM, RestartVMFails
  <2>3. ObjectOK' /\ OthersKeep(RS) /\ copy'[RS] = copy[RS]
    BY <1>1, <2>2, ObjectKept
  <2>4. RestartDue(copy'[RS])
    BY <1>1, <2>2, <2>3
  <2> QED
    BY <1>2, <2>1, <2>2, <2>3, <2>4, RestartFrame
<1>5. CASE RestartStatus
  <2>1. WorldOK' /\ RestartGoto("idle") /\ req' = req /\ plan' = plan
    BY <1>1, <1>5 DEF RestartStatus, WorldOK, environment, history
  <2>2. pc[RS] # "idle"
    BY <1>5 DEF RestartStatus
  <2>3. Restarted(copy[RS]) \in Sound /\ RestartFailed(copy[RS]) \in Sound
    BY <1>1, <2>2, ControllerSound
  <2>4. ObjectOK' /\ OthersKeep(RS)
    BY <1>1, <1>5, <2>3, UpdateAndForgetOK, ForgetOK DEF RestartStatus
  <2> QED
    BY <1>2, <2>1, <2>4, RestartFrame
<1> QED
  BY <1>3, <1>4, <1>5 DEF RestartStep

(* Steps of a request.                                                     *)
LEMMA RequestFrame ==
    ASSUME Inv, Onward, ObjectOK', WorldOK', NEW q \in Requests, OthersKeep(q),
           plan' = plan, NEW l \in RequestLabels, RequestGoto(q, l),
           NEW op \in Ops \cup {NoOp}, req' = [req EXCEPT ![q] = op],
           l \in {"exclude", "write"} => op \in Ops /\ Admits(op, copy'[q])
    PROVE  Inv'
<1>1. pc \in [Actors -> RcLabels \cup RsLabels \cup RequestLabels]
      /\ pc' = [pc EXCEPT ![q] = l] /\ req \in [Requests -> Ops \cup {NoOp}]
  BY DEF Inv, TypeOK, RequestGoto
<1>2. q \in Actors /\ q # RC /\ q # RS
  BY ActorFacts
<1>3. pc'[q] = l /\ req'[q] = op
      /\ \A a \in Actors \ {q} : pc'[a] = pc[a] /\ copy'[a] = copy[a]
      /\ \A p \in Requests \ {q} : req'[p] = req[p]
  BY <1>1, <1>2 DEF OthersKeep
<1>4. RecommendationKnows'
  BY <1>2, <1>3, ActorFacts DEF Inv, RecommendationKnows, Onward
<1>5. RestartKnows'
  BY <1>2, <1>3, ActorFacts DEF Inv, RestartKnows, RestartDue
<1>6. RequestsKnow'
  <2> SUFFICES ASSUME NEW p \in Requests, pc'[p] \in {"exclude", "write"}
               PROVE  req'[p] \in Ops /\ Admits(req'[p], copy'[p])
    BY DEF RequestsKnow, Admits, Accepts
  <2>1. CASE p = q
    BY <1>3, <2>1
  <2>2. CASE p # q
    BY <1>3, <2>2, ActorFacts DEF Inv, RequestsKnow
  <2> QED
    BY <2>1, <2>2
<1>7. ControlOK'
  BY <1>1, <1>2, <1>3, ActorFacts DEF ControlOK, Inv, TypeOK
<1> QED
  BY <1>4, <1>5, <1>6, <1>7, InvPartsNext DEF KnowledgeOK

(* The request is answered.                                                *)
LEMMA RequestEnds ==
    ASSUME Inv, Onward, ObjectOK', WorldOK', NEW q \in Requests, OthersKeep(q),
           plan' = plan, Respond(q)
    PROVE  Inv'
BY RequestFrame DEF Respond, RequestLabels

(* What the checks at the start of a handler say about its copy.           *)
LEMMA AdmitsMeans ==
    ASSUME NEW op \in Ops, NEW r \in Sound, Admits(op, r)
    PROVE  /\ op.restart \in RestartOptions
           /\ op.verb = "apply" => r.state = "pending"
           /\ op.verb = "revert" =>
                  r.state \in {"applied", "applied-pending-restart"}
           /\ op.verb \notin {"apply", "revert"} =>
                  r.state = "awaiting-approval"
BY OpsAssumption DEF Admits, Accepts, Sound, Recommendations

(* What a handler accepts it admits.                                       *)
LEMMA AcceptsAdmits ==
    ASSUME NEW op \in Ops, NEW r \in Sound, Accepts(op, r)
    PROVE  Admits(op, r)
BY OpsAssumption DEF Admits, Accepts, Sound, Recommendations

(* A request starts.                                                       *)
LEMMA HandlerBeginInv ==
    ASSUME Inv, Onward, NEW q \in Requests, HandlerBegin(q)
    PROVE  Inv'
<1>1. ObjectOK /\ WorldOK' /\ q \in Actors /\ Get(q) /\ plan' = plan
  BY RcHolds, ActorFacts DEF HandlerBegin, WorldOK, environment, history
<1>2. PICK op \in Ops :
        /\ Accepts(op, copy["cache"])
        /\ req' = [req EXCEPT ![q] = op]
        /\ RequestGoto(q, IF op.verb = "ownerExclude" THEN "exclude"
                                                      ELSE "write")
  BY DEF HandlerBegin
<1>3. ObjectOK' /\ OthersKeep(q) /\ copy'[q] = copy["cache"]
  BY <1>1, GetOK
<1>4. Admits(op, copy'[q])
  BY <1>2, <1>3, RcHolds, AcceptsAdmits
<1>5. {"exclude", "write"} \subseteq RequestLabels
  BY DEF RequestLabels
<1>6. CASE op.verb = "ownerExclude"
  BY <1>1, <1>2, <1>3, <1>4, <1>5, <1>6, RequestFrame
<1>7. CASE op.verb # "ownerExclude"
  BY <1>1, <1>2, <1>3, <1>4, <1>5, <1>7, RequestFrame
<1> QED
  BY <1>6, <1>7

(* handleApply applies at once only when there is nobody to ask.           *)
LEMMA DirectUnasked ==
    ASSUME NEW q \in Requests, HandlerApply(q)
    PROVE  ~NeedsApproval'
<1>1. Notifier => ServerOwnerResolver
  BY DeploymentAssumption DEF Deployments, Notifier, ServerOwnerResolver
<1>2. (ServerOwner = "" /\ UNCHANGED unresolved) \/ unresolved'
  BY Zenon DEF HandlerApply, LookupFails
<1>3. ServerOwner = "" => ~DemoMode /\ (Notifier => ~HasOwner)
  BY <1>1 DEF ServerOwner, DemoOwner, HasOwner
<1> QED
  BY <1>2, <1>3 DEF NeedsApproval

(* A request goes on.                                                      *)
LEMMA HandlerContinueInv ==
    ASSUME Inv, Onward, NEW q \in Requests, HandlerContinue(q)
    PROVE  Inv'
<1>1. ObjectOK /\ WorldOK /\ q \in Actors /\ copy[q] \in Sound
      /\ req \in [Requests -> Ops \cup {NoOp}]
  BY RcHolds, ActorFacts DEF Inv, TypeOK
<1>2. ASSUME pc[q] = "write"
      PROVE  /\ req[q] \in Ops /\ req[q].restart \in RestartOptions
             /\ req[q].verb = "apply" => copy[q].state = "pending"
             /\ req[q].verb = "revert" =>
                    copy[q].state \in {"applied", "applied-pending-restart"}
             /\ req[q].verb \notin {"apply", "revert"} =>
                    copy[q].state = "awaiting-approval"
  <2>1. req[q] \in Ops /\ Admits(req[q], copy[q])
    BY <1>2 DEF Inv, RequestsKnow
  <2> QED
    BY <1>1, <2>1, AdmitsMeans
<1>3. CASE HandlerExclude(q)
  <2>1. UNCHANGED object /\ plan' = plan /\ req' = req /\ pc[q] = "exclude"
        /\ RequestGoto(q, "write")
    BY <1>3 DEF HandlerExclude
  <2>2. WorldOK'
    BY <1>1, <1>3, MaxFaultsAssumption DEF HandlerExclude, WorldOK, history
  <2>3. ObjectOK' /\ OthersKeep(q) /\ copy'[q] = copy[q]
    BY <1>1, <2>1, ObjectKept
  <2>4. req[q] \in Ops /\ Admits(req[q], copy'[q])
    BY <2>1, <2>3 DEF Inv, RequestsKnow
  <2>5. req' = [req EXCEPT ![q] = req[q]]
    BY <1>1, <2>1
  <2> QED
    BY <2>1, <2>2, <2>3, <2>4, <2>5, RequestFrame DEF RequestLabels
<1>4. CASE HandlerRoute(q)
  <2> DEFINE r == AwaitApproval(copy[q], ServerOwner)
  <2>1. pc[q] = "write" /\ req[q].verb = "apply" /\ plan' = plan
        /\ ServerOwner # ""
    BY <1>4 DEF HandlerRoute
  <2>2. WorldOK'
    <3>1. UNCHANGED <<environment, faults, restarts, unresolved,
                      original>>
          /\ sent' = FALSE /\ reminders' = 0
      BY <1>4 DEF HandlerRoute
    <3>2. sent' \in BOOLEAN
      BY <3>1
    <3> QED
      BY <1>1, <3>1, <3>2 DEF WorldOK, environment
  <2>3. ServerOwner \in Owners \ {""}
    BY <2>1 DEF ServerOwner, ResolveOwner, Owners
  <2>4. r \in Sound
    BY <1>1, <1>2, <2>1, <2>3, AwaitSound
  <2>5. CASE Update(q, r) /\ RequestGoto(q, "notify") /\ UNCHANGED req
    <3>1. ObjectOK' /\ OthersKeep(q)
      BY <1>1, <2>4, <2>5, StoreOK DEF Update
    <3>2. req' = [req EXCEPT ![q] = req[q]] /\ req[q] \in Ops \cup {NoOp}
      BY <1>1, <2>5
    <3> QED
      BY <2>1, <2>2, <2>5, <3>1, <3>2, RequestFrame DEF RequestLabels
  <2>6. CASE UpdateAndForget(q, r) /\ Respond(q)
    BY <1>1, <2>1, <2>2, <2>4, <2>6, UpdateAndForgetOK, RequestEnds
  <2> QED
    BY <1>4, <2>5, <2>6 DEF HandlerRoute
<1>5. CASE HandlerNotify(q)
  <2>1. WorldOK'
    <3>1. UNCHANGED <<environment, faults, reminders, restarts, unresolved,
                      original>>
          /\ sent' = TRUE
      BY <1>5 DEF HandlerNotify
    <3>2. sent' \in BOOLEAN
      BY <3>1
    <3> QED
      BY <1>1, <3>1, <3>2 DEF WorldOK, environment
  <2> QED
    BY <1>1, <1>5, <2>1, ForgetOK, RequestEnds DEF HandlerNotify
<1>6. CASE HandlerApply(q)
  <2>1. plan' = plan /\ Respond(q) /\ pc[q] = "write"
        /\ req[q].verb = "apply"
        /\ UpdateAndForget(q, Direct(copy[q], req[q].restart))
    BY <1>6 DEF HandlerApply
  <2>2. WorldOK'
    <3>1. UNCHANGED <<vm, auto, sent, reminders, restarts, original>>
      BY <1>6 DEF HandlerApply, environment
    <3>2. faults' = faults \/ (faults < MaxFaults /\ faults' = faults + 1)
      BY <1>6, Zenon DEF HandlerApply, LookupFails
    <3>3. unresolved' = unresolved \/ unresolved' = TRUE
      BY <1>6, Zenon DEF HandlerApply, LookupFails
    <3>4. unresolved' \in BOOLEAN
      BY <1>1, <3>3, Zenon DEF WorldOK
    <3> QED
      BY <1>1, <3>1, <3>2, <3>4, MaxFaultsAssumption DEF WorldOK
  <2>3. ~NeedsApproval'
    BY <1>6, DirectUnasked
  <2>4. Direct(copy[q], req[q].restart) \in Sound'
    BY <1>1, <1>2, <2>1, <2>3, DirectSound
  <2> QED
    BY <1>1, <2>1, <2>2, <2>4, UpdateAndForgetOK, RequestEnds
<1>7. CASE HandlerApprove(q)
  <2>1. WorldOK' /\ plan' = plan /\ Respond(q) /\ pc[q] = "write"
        /\ req[q].verb = "approve"
    BY <1>1, <1>7 DEF HandlerApprove, WorldOK, environment, history
  <2>2. PICK owner \in LinkOwners :
          UpdateAndForget(q, Approved(copy[q], req[q].restart, owner))
    BY <1>7 DEF HandlerApprove
  <2>3. owner \in Owners \ {""}
    BY DEF LinkOwners, ServerOwner, ResolveOwner, Owners
  <2>4. Approved(copy[q], req[q].restart, owner) \in Sound
    BY <1>1, <1>2, <2>1, <2>3, HandlerSound
  <2> QED
    BY <1>1, <2>1, <2>2, <2>4, UpdateAndForgetOK, RequestEnds
<1>8. CASE HandlerRevert(q)
  <2>1. WorldOK' /\ plan' = plan /\ Respond(q) /\ pc[q] = "write"
        /\ req[q].verb = "revert" /\ UpdateAndForget(q, Reverted(copy[q]))
    BY <1>1, <1>8 DEF HandlerRevert, WorldOK, environment, history
  <2>2. Reverted(copy[q]) \in Sound
    BY <1>1, <1>2, <2>1, HandlerSound
  <2> QED
    BY <1>1, <2>1, <2>2, UpdateAndForgetOK, RequestEnds
<1>9. CASE HandlerReject(q)
  <2>1. WorldOK' /\ plan' = plan /\ Respond(q) /\ pc[q] = "write"
        /\ req[q].verb \notin {"apply", "revert"}
        /\ UpdateAndForget(q, Rejected(copy[q]))
    BY <1>1, <1>9 DEF HandlerReject, WorldOK, environment, history
  <2>2. Rejected(copy[q]) \in Sound
    BY <1>1, <1>2, <2>1, PendingSound
  <2> QED
    BY <1>1, <2>1, <2>2, UpdateAndForgetOK, RequestEnds
<1>10. CASE HandlerRefused(q)
  <2>1. WorldOK' /\ plan' = plan /\ Respond(q) /\ Forget(q)
    BY <1>1, <1>10 DEF HandlerRefused, WorldOK, environment, history
  <2> QED
    BY <1>1, <2>1, ForgetOK, RequestEnds
<1> QED
  BY <1>3, <1>4, <1>5, <1>6, <1>7, <1>8, <1>9, <1>10 DEF HandlerContinue

-----------------------------------------------------------------------------
(* Steps that only touch the world, not the handlers.                      *)
LEMMA QuietFrame ==
    ASSUME Inv, Onward, ObjectOK', WorldOK', UNCHANGED <<pc, plan, req>>,
           \A a \in Actors : copy'[a].state = copy[a].state
                /\ copy'[a].revertConfig = copy[a].revertConfig
                /\ (RestartDue(copy[a]) => RestartDue(copy'[a]))
    PROVE  Inv'
<1>1. ControlOK'
  BY DEF ControlOK, Inv, TypeOK
<1>2. RecommendationKnows'
  BY ActorFacts DEF Inv, RecommendationKnows, Onward
<1>3. RestartKnows'
  BY ActorFacts DEF Inv, RestartKnows, RestartDue
<1>4. RequestsKnow'
  <2> SUFFICES ASSUME NEW q \in Requests, pc[q] \in {"exclude", "write"}
               PROVE  req[q] \in Ops /\ Admits(req[q], copy'[q])
    BY DEF RequestsKnow, Admits, Accepts
  <2>1. req[q] \in Ops /\ Admits(req[q], copy[q]) /\ q \in Actors
    BY ActorFacts DEF Inv, RequestsKnow
  <2>2. copy[q] \in Recommendations /\ copy'[q] \in Recommendations
    BY <2>1, RcHolds, ActorFacts DEF ObjectOK, Sound
  <2> QED
    BY <2>1, <2>2 DEF Admits, Accepts, Recommendations
<1> QED
  BY <1>1, <1>2, <1>3, <1>4, InvPartsNext DEF KnowledgeOK

(* The cache catches up, time passes, people edit.                         *)
LEMMA WorldInv ==
    ASSUME Inv, Onward, CacheSync \/ WeekPasses \/ ScheduleComes \/ Edit
    PROVE  Inv'
<1>1. ObjectOK /\ WorldOK /\ copy \in [Holders -> Sound]
      /\ Actors \subseteq Holders /\ "cache" \in Holders /\ "cache" \notin Actors
  BY RcHolds, ActorFacts DEF ObjectOK
<1>2. CASE CacheSync
  <2>1. WorldOK' /\ UNCHANGED <<pc, plan, req>>
    BY <1>1, <1>2 DEF CacheSync, WorldOK, environment, history
  <2>2. ObjectOK'
    BY <1>1, <1>2, SoundStays DEF CacheSync, ObjectOK, FreshCopies
  <2>3. \A a \in Actors : copy'[a] = copy[a]
    BY <1>1, <1>2 DEF CacheSync
  <2> QED
    BY <2>1, <2>2, <2>3, QuietFrame
<1>3. CASE WeekPasses
  <2>1. WorldOK' /\ UNCHANGED <<pc, plan, req>>
    BY <1>1, <1>3 DEF WeekPasses, WorldOK, environment, history
  <2>2. copy' = [h \in Holders |-> Aged(copy[h])] /\ rec' = Aged(rec)
        /\ stale' = stale
    BY <1>3 DEF WeekPasses
  <2>3. ObjectOK'
    BY <1>1, <2>2, TimeSound, SoundStays DEF ObjectOK, FreshCopies
  <2>4. \A a \in Actors : copy'[a].state = copy[a].state
          /\ copy'[a].revertConfig = copy[a].revertConfig
          /\ copy'[a].scheduledRestartAt = copy[a].scheduledRestartAt
    BY <1>1, <2>2 DEF Aged, Sound, Recommendations
  <2> QED
    BY <2>1, <2>3, <2>4, QuietFrame DEF RestartDue
<1>4. CASE ScheduleComes
  <2>1. WorldOK' /\ UNCHANGED <<pc, plan, req>>
    BY <1>1, <1>4 DEF ScheduleComes, WorldOK, environment, history
  <2>2. copy' = [h \in Holders |-> Matured(copy[h])] /\ rec' = Matured(rec)
        /\ stale' = stale
    BY <1>4 DEF ScheduleComes
  <2>3. ObjectOK'
    BY <1>1, <2>2, TimeSound, SoundStays DEF ObjectOK, FreshCopies
  <2>4. \A a \in Actors : copy'[a].state = copy[a].state
          /\ copy'[a].revertConfig = copy[a].revertConfig
    BY <1>1, <2>2 DEF Matured, Sound, Recommendations
  <2>5. \A a \in Actors : RestartDue(copy[a]) => RestartDue(copy'[a])
    BY <1>1, <2>2, TimeSound DEF RestartDue
  <2> QED
    BY <2>1, <2>3, <2>4, <2>5, QuietFrame
<1>5. CASE Edit
  <2>1. UNCHANGED <<object, pc, plan, req, faults, history>>
    BY <1>5 DEF Edit, HandleExclude, HandleRemoveExclusion,
                HandleUpdatePolicy, VmResized
  <2>2. vm' \in [size: Sizes, exclude: {"true", "unset"}] /\ auto' \in BOOLEAN
    BY <1>1, <1>5, HandSizesAssumption
    DEF Edit, HandleExclude, HandleRemoveExclusion, HandleUpdatePolicy,
        VmResized, WorldOK
  <2>3. WorldOK'
    BY <1>1, <2>1, <2>2 DEF WorldOK, history
  <2>4. ObjectOK' /\ \A a \in Actors : copy'[a] = copy[a]
    BY <2>1, ObjectKept
  <2> QED
    BY <2>1, <2>3, <2>4, QuietFrame
<1> QED
  BY <1>2, <1>3, <1>4, <1>5

(* A handler is cut short.                                                 *)
LEMMA AbortInv ==
    ASSUME Inv, Onward, NEW a \in Actors, Abort(a)
    PROVE  Inv'
<1>1. ObjectOK /\ WorldOK /\ Forget(a)
  BY RcHolds DEF Abort
<1>2. WorldOK'
  BY <1>1, MaxFaultsAssumption DEF Abort, WorldOK, environment, history
<1>3. ObjectOK' /\ OthersKeep(a)
  BY <1>1, ForgetOK
<1>4. a \in Requests \/ a = RC \/ a = RS
  BY ActorFacts
<1>5. req \in [Requests -> Ops \cup {NoOp}]
  BY DEF Inv, TypeOK
<1>6. CASE a = RC
  <2>1. req' = req
    BY <1>5, <1>6, ActorFacts DEF Abort
  <2>2. Return
    BY <1>6 DEF Abort, Return, Goto
  <2> QED
    BY <1>2, <1>3, <1>6, <2>1, <2>2, RcReturns
<1>7. CASE a = RS
  <2>1. req' = req
    BY <1>5, <1>7, ActorFacts DEF Abort
  <2>2. plan' = plan /\ RestartGoto("idle")
    BY <1>7, ActorFacts DEF Abort, RestartGoto
  <2> QED
    BY <1>2, <1>3, <1>7, <2>1, <2>2, RestartFrame DEF RsLabels
<1>8. CASE a \in Requests
  <2>1. req' = [req EXCEPT ![a] = NoOp]
    BY <1>5, <1>8 DEF Abort
  <2>2. plan' = plan /\ RequestGoto(a, "idle")
    BY <1>8, ActorFacts DEF Abort, RequestGoto
  <2>3. Respond(a)
    BY <2>1, <2>2 DEF Respond
  <2> QED
    BY <1>2, <1>3, <1>8, <2>2, <2>3, RequestEnds
<1> QED
  BY <1>4, <1>6, <1>7, <1>8

(* A state in which no handler runs.                                       *)
Idle ==
    /\ pc = [a \in Actors |-> "idle"]
    /\ plan = NoPlan
    /\ req = [q \in Requests |-> NoOp]

LEMMA IdleControl == Idle => ControlOK /\ KnowledgeOK
<1> SUFFICES ASSUME Idle PROVE ControlOK /\ KnowledgeOK
  OBVIOUS
<1>1. /\ pc = [a \in Actors |-> "idle"] /\ plan = NoPlan
      /\ req = [q \in Requests |-> NoOp]
      /\ \A a \in Actors : pc[a] = "idle"
  BY DEF Idle
<1>2. NoPlan \in [auto: BOOLEAN, size: Sizes \cup {None},
                  verdict: Sizes \cup {None}]
  BY DEF NoPlan
<1>3. ControlOK
  BY <1>1, <1>2, ActorFacts
  DEF ControlOK, RcLabels, RsLabels, RequestLabels
<1>4. KnowledgeOK
  BY <1>1, ActorFacts
  DEF KnowledgeOK, RecommendationKnows, RestartKnows, RequestsKnow
<1> QED
  BY <1>3, <1>4

(* The process restarts.                                                   *)
LEMMA CrashInv == Inv /\ Onward /\ Crash => Inv'
<1> SUFFICES ASSUME Inv, Onward, Crash PROVE Inv'
  OBVIOUS
<1>1. ObjectOK /\ WorldOK
  BY RcHolds
<1>2. WorldOK'
  BY <1>1, MaxFaultsAssumption DEF Crash, WorldOK, environment, history
<1>3. ObjectOK'
  BY <1>1, AbsentSound, ActorFacts, SoundStays
  DEF Crash, ObjectOK, FreshCopies, Holders
<1>4. Idle'
  BY DEF Crash, Idle
<1>5. ControlOK' /\ KnowledgeOK'
  BY <1>4, IdleControl, PTL
<1> QED
  BY <1>2, <1>3, <1>5, InvPartsNext

(* The operator starts in Inv.                                             *)
LEMMA InitInv == Init => Inv
<1> SUFFICES ASSUME Init PROVE Inv
  OBVIOUS
<1>1. ObjectOK
  BY AbsentSound, ActorFacts DEF Init, ObjectOK, FreshCopies, Holders
<1>2. ControlOK /\ KnowledgeOK
  BY IdleControl DEF Init, Idle
<1>3. auto \in BOOLEAN /\ sent \in BOOLEAN /\ unresolved \in BOOLEAN
  BY Zenon DEF Init
<1>4. WorldOK
  BY <1>3, MaxFaultsAssumption DEF Init, WorldOK
<1> QED
  BY <1>1, <1>2, <1>4, InvParts

(* No step takes a failed lookup back.                                     *)
LEMMA NextOnward == [Next]_vars => Onward
<1> SUFFICES ASSUME [Next]_vars PROVE unresolved' = unresolved \/ unresolved'
  BY DEF Onward, NeedsApproval
<1>1. CASE RecommendationStep
  BY <1>1, Zenon
  DEF RecommendationStep, Begin, GetRecommendation, DeleteExisting, Create,
      Publish, Expire, SendReminder, StampReminder, UpdateSpec,
      UpdateLastCalculated, AutoRoute, AutoNotify, AutoUnowned, LookupFails,
      AutoPatch, AutoPatchFails, AutoStatus, mine, history
<1>2. CASE RestartStep
  BY <1>2, Zenon DEF RestartStep, RestartBegin, RestartVM, RestartVMFails,
                     RestartStatus, history
<1>3. CASE \E q \in Requests : HandlerBegin(q) \/ HandlerContinue(q)
  BY <1>3, Zenon
  DEF HandlerBegin, HandlerContinue, HandlerExclude, HandlerRoute,
      HandlerNotify, HandlerApply, LookupFails, HandlerApprove, HandlerRevert,
      HandlerReject, HandlerRefused, history
<1>4. CASE CacheSync \/ WeekPasses \/ ScheduleComes \/ Edit
  BY <1>4, Zenon DEF CacheSync, WeekPasses, ScheduleComes, Edit,
                     HandleExclude, HandleRemoveExclusion, HandleUpdatePolicy,
                     VmResized, history
<1>5. CASE (\E a \in Actors : Abort(a)) \/ Crash \/ UNCHANGED vars
  BY <1>5, Zenon DEF Abort, Crash, vars, history
<1> QED
  BY <1>1, <1>2, <1>3, <1>4, <1>5 DEF Next

(* Every step preserves Inv.                                               *)
LEMMA NextInv == Inv /\ [Next]_vars => Inv'
<1> SUFFICES ASSUME Inv, [Next]_vars, Onward PROVE Inv'
  BY NextOnward
<1>1. CASE RecommendationStep
  BY <1>1, RecommendationStepInv
<1>2. CASE RestartStep
  BY <1>2, RestartStepInv
<1>3. CASE \E q \in Requests : HandlerBegin(q) \/ HandlerContinue(q)
  BY <1>3, HandlerBeginInv, HandlerContinueInv
<1>4. CASE CacheSync \/ WeekPasses \/ ScheduleComes \/ Edit
  BY <1>4, WorldInv
<1>5. CASE \E a \in Actors : Abort(a)
  BY <1>5, AbortInv
<1>6. CASE Crash
  BY <1>6, CrashInv
<1>7. CASE UNCHANGED vars
  <2>1. ObjectOK' /\ \A a \in Actors : copy'[a] = copy[a]
    BY <1>7, ObjectKept DEF vars, object
  <2>2. WorldOK'
    BY <1>7, RcHolds DEF vars, WorldOK, environment, history
  <2> QED
    BY <1>7, <2>1, <2>2, QuietFrame DEF vars
<1> QED
  BY <1>1, <1>2, <1>3, <1>4, <1>5, <1>6, <1>7 DEF Next

-----------------------------------------------------------------------------
(* The inductive invariant holds: whatever the controllers, the requests,  *)
(* the cache and the failures do, stored object, copies and the knowledge  *)
(* of the running handlers stay consistent.                                *)
THEOREM Invariance == Spec => []Inv
BY InitInv, NextInv, PTL DEF Spec

(* Every variable keeps its type.                                          *)
THEOREM TypeCorrect == Spec => []TypeOK
<1>1. Inv => TypeOK
  BY DEF Inv
<1> QED
  BY <1>1, Invariance, PTL

(* A write that passes the API server's version check was computed from    *)
(* what it replaces.                                                       *)
THEOREM Freshness == Spec => []FreshCopies
<1>1. Inv => FreshCopies
  BY DEF Inv
<1> QED
  BY <1>1, Invariance, PTL

(* The status of the stored recommendation never contradicts its state.    *)
THEOREM WellFormedness == Spec => []RecordWellFormed
<1>1. Inv => RecordWellFormed
  BY DEF Inv, RecordWellFormed
<1> QED
  BY <1>1, Invariance, PTL

(* In a deployment that asks owners (a signing key with notification       *)
(* channels, or demo mode) and whose owner lookup does not fail, nothing   *)
(* is applied to the VM of an owner without their approval on record.      *)
THEOREM Approval == Spec => [](NeedsApproval => OwnerApproved)
<1>1. Inv => (NeedsApproval => OwnerApproved)
  BY DEF Inv, ApprovalOnRecord, OwnerApproved
<1> QED
  BY <1>1, Invariance, PTL

=============================================================================
