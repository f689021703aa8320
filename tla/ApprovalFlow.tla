---------------------------- MODULE ApprovalFlow ----------------------------
(***************************************************************************)
(* Owners decide through links: the notification dispatcher and the        *)
(* approval proxy composed with the backend.  Module Operator models the   *)
(* backend step by step, with stale reads and failures; here each of its   *)
(* writes is one action, so that the other two can interleave with them,   *)
(* and the recommendation of a VM that the console excludes, or that needs *)
(* no resizing any more, is not deleted.                                   *)
(***************************************************************************)
EXTENDS Notifications, ApprovalProxy

CONSTANT Proposals   \* the sizes a recommendation can propose

VARIABLES
    state,      \* Status.State; "approved" stands for the applied states
    proposal,   \* Spec.Recommended
    reminded,   \* Status.ReminderSentAt is set
    cycle,      \* approval cycles started so far
    links,      \* age in weeks of each cycle's token, and who asked
    excluded,   \* an owner has put the exclude annotation on the VM
    worker,     \* what the recommendation controller's worker is sending
    decisions   \* history: every decision that was recorded

backend == <<state, proposal, reminded, cycle, links, excluded, worker,
             decisions>>

vars == <<dispatch, tab, backend>>

ASSUME ApprovalFlowAssumption == "none" \notin Proposals

Idle == [doing |-> "nothing", cycle |-> 0]

Init ==
    /\ state = "pending" /\ proposal \in Proposals /\ reminded = FALSE
    /\ cycle = 0 /\ links = [c \in Cycles |-> [age |-> 0, via |-> "nobody"]]
    /\ excluded = FALSE /\ worker = Idle /\ decisions = {}
    /\ todo = [c \in Cycles |-> {}]
    /\ tried = [c \in Cycles |-> [y \in Types |-> 0]]
    /\ cancelled = {} /\ known = {}
    /\ tab = [t \in Tabs |-> Closed]

----------------------------------------------------------------------------
(* The backend.                                                            *)

(* A request for approval: the status is written, then notices go out.     *)
StartCycle(via) ==
    /\ state = "pending" /\ cycle < MaxCycles
    /\ state' = "awaiting-approval"
    /\ cycle' = cycle + 1
    /\ links' = [links EXCEPT ![cycle + 1].via = via]
    /\ SendAll(cycle + 1)
    /\ UNCHANGED <<tried, cancelled, known, tab, proposal, reminded, excluded,
                   decisions>>

handleApply == StartCycle("console") /\ UNCHANGED worker

autoApply ==
    /\ worker = Idle
    /\ StartCycle("worker")
    /\ worker' = [doing |-> "notify", cycle |-> cycle']

AutoApplyDone ==
    /\ worker.doing = "notify" /\ todo[worker.cycle] = {}
    /\ worker' = Idle
    /\ UNCHANGED <<dispatch, tab, state, proposal, reminded, cycle, links,
                   excluded, decisions>>

(* The reply to the request that asked carries the link as well.           *)
ApplyReplies(c) ==
    /\ links[c].via = "console" /\ todo[c] = {} /\ c \notin cancelled
    /\ known' = known \cup {c}
    /\ UNCHANGED <<todo, tried, cancelled, tab, backend>>

ClientGone(c) ==
    /\ links[c].via = "console" /\ worker.cycle # c
    /\ Disconnect(c)
    /\ UNCHANGED <<tab, backend>>

Send(c) == SendNext(c) /\ UNCHANGED <<tab, backend>>

(* In the second week, once: everybody but ServiceNow.                     *)
Remind ==
    /\ worker = Idle
    /\ state = "awaiting-approval" /\ links[cycle].age = 1 /\ ~reminded
    /\ SendAllExcept(cycle, {"servicenow"})
    /\ cancelled' = cancelled \ {cycle}
    /\ worker' = [doing |-> "remind", cycle |-> cycle]
    /\ UNCHANGED <<tried, known, tab, state, proposal, reminded, cycle, links,
                   excluded, decisions>>

(* The stamp is refused when the recommendation has changed meanwhile.     *)
StampReminder ==
    /\ worker.doing = "remind" /\ todo[worker.cycle] = {}
    /\ reminded' = IF state = "awaiting-approval" /\ cycle = worker.cycle
                   THEN TRUE ELSE reminded
    /\ worker' = Idle
    /\ UNCHANGED <<dispatch, tab, state, proposal, cycle, links, excluded,
                   decisions>>

Expire ==
    /\ worker = Idle
    /\ state = "awaiting-approval" /\ links[cycle].age = 2
    /\ state' = "pending" /\ reminded' = FALSE
    /\ UNCHANGED <<dispatch, tab, proposal, cycle, links, excluded, worker,
                   decisions>>

(* Mutant of Unprotected: a recommendation that awaits approval is         *)
(* recalculated as well.                                                   *)
UnprotectedUnlessApproved == state # "approved"

Unprotected == state = "pending"

Recalculate ==
    /\ worker = Idle
    /\ Unprotected
    /\ proposal' \in Proposals \ {proposal}
    /\ UNCHANGED <<dispatch, tab, state, reminded, cycle, links, excluded,
                   worker, decisions>>

(* Sending does not take a week.                                           *)
WeekPasses ==
    /\ \A c \in Cycles : todo[c] = {}
    /\ worker = Idle
    /\ \E c \in 1 .. cycle : links[c].age < 2
    /\ links' = [c \in Cycles |-> IF c <= cycle /\ links[c].age < 2
                                  THEN [links[c] EXCEPT !.age = @ + 1]
                                  ELSE links[c]]
    /\ UNCHANGED <<dispatch, tab, state, proposal, reminded, cycle, excluded,
                   worker, decisions>>

(* Mutant of Turned: a state of its own for what was rejected.             *)
TurnedRejected == "rejected"

(* Where a rejection leaves the recommendation.  ReminderSentAt stays.     *)
Turned == "pending"

handleReject ==
    /\ state = "awaiting-approval"
    /\ state' = Turned
    /\ decisions' = decisions \cup
           {[cycle |-> cycle, link |-> 0, action |-> "reject",
             by |-> "console", blind |-> FALSE, excluded |-> FALSE]}
    /\ UNCHANGED <<dispatch, tab, proposal, reminded, cycle, links, excluded,
                   worker>>

----------------------------------------------------------------------------
(* The proxy in front of it.                                               *)

ValidateToken(link) == links[link].age < 2

OpenLink(t) ==
    /\ \E c \in known :
           handleGetApprove(t, c, ValidateToken(c), proposal)
    /\ UNCHANGED <<dispatch, backend>>

Submit(t) ==
    /\ \E action \in Actions :
           handlePostApprove(t, action, ValidateToken(tab[t].link))
    /\ UNCHANGED <<dispatch, backend>>

(* Mutant of Decidable: the state is not looked at.                        *)
DecidableAlways == TRUE

Decidable == state = "awaiting-approval"

(* handleOwnerReject annotates the VM, before it updates the status, when  *)
(* the body has "exclude" under "action".                                  *)
Excludes(t) ==
    LET body == Body(tab[t].action)
    IN  IF Path(tab[t].action) = "owner-reject" /\ "action" \in DOMAIN body
        THEN body.action = "exclude" ELSE FALSE

Decided(t) ==
    [cycle |-> cycle, link |-> tab[t].link, action |-> tab[t].action,
     by |-> t, blind |-> tab[t].shown # proposal,
     excluded |-> excluded \/ Excludes(t)]

Reply(t, code) == tab' = [tab EXCEPT ![t].at = "served", ![t].code = code]

(* handleOwnerApprove and handleOwnerReject: the state is looked at, the   *)
(* token's cycle is not.                                                   *)
Accept(t) ==
    /\ Decidable
    /\ state' = IF Path(tab[t].action) = "owner-approve" THEN "approved"
                                                         ELSE Turned
    /\ excluded' = (excluded \/ Excludes(t))
    /\ decisions' = decisions \cup {Decided(t)}
    /\ Reply(t, 200)

(* The recommendation is not waiting for a decision.                       *)
Refuse(t) ==
    /\ ~Decidable
    /\ Reply(t, 409)
    /\ UNCHANGED <<state, excluded, decisions>>

(* The status update fails.                                                *)
Fail(t) ==
    /\ Decidable
    /\ excluded' = (excluded \/ Excludes(t))
    /\ Reply(t, 500)
    /\ UNCHANGED <<state, decisions>>

HandleOwner(t) ==
    /\ tab[t].at = "posted"
    /\ Accept(t) \/ Refuse(t) \/ Fail(t)
    /\ UNCHANGED <<dispatch, proposal, reminded, cycle, links, worker>>

Browser(t) ==
    \/ OpenLink(t)
    \/ Submit(t)
    \/ (Answer(t) \/ NoAnswer(t) \/ Back(t)) /\ UNCHANGED <<dispatch, backend>>

Next ==
    \/ handleApply \/ autoApply \/ AutoApplyDone
    \/ \E c \in Cycles : Send(c) \/ ApplyReplies(c) \/ ClientGone(c)
    \/ Remind \/ StampReminder \/ Expire \/ WeekPasses
    \/ Recalculate \/ handleReject
    \/ \E t \in Tabs : HandleOwner(t) \/ Browser(t)

Spec == Init /\ [][Next]_vars

----------------------------------------------------------------------------
(* Every variable keeps to its type; in particular a recommendation is     *)
(* never left in a state that the CRD's enumeration does not have.         *)
FlowTypeOK ==
    /\ state \in {"pending", "awaiting-approval", "approved"}
    /\ proposal \in Proposals /\ cycle \in 0 .. MaxCycles
    /\ reminded \in BOOLEAN /\ excluded \in BOOLEAN
    /\ \A c \in Cycles : /\ links[c].age \in 0 .. 2
                         /\ links[c].via \in {"nobody", "console", "worker"}
                         /\ \A y \in Types : tried[c][y] \in 0 .. 3
    /\ cancelled \subseteq Cycles /\ known \subseteq 1 .. cycle
    /\ worker.doing \in {"nothing", "notify", "remind"}
    /\ \A t \in Tabs : tab[t].at \in Final \cup {"closed", "form", "posted",
                                                "served"}

(* The proxy tells an owner that the recommendation is approved, rejected  *)
(* or excluded only when the backend has recorded that decision for this   *)
(* link, whatever requests and replies were lost or repeated before.       *)
ResultTruthful ==
    \A t \in Tabs : tab[t].at \in Actions =>
        \E d \in decisions : /\ d.by = t /\ d.link = tab[t].link
                            /\ d.action = tab[t].at

(* However many tabs and console users decide, and however often a form is *)
(* sent again, the backend records one decision for an approval cycle.     *)
DecidedOnce ==
    \A d, e \in decisions : d.cycle = e.cycle => d = e

(* An owner who decides through the link of the running cycle decides on   *)
(* the proposal that the form showed them: nothing recalculates it between *)
(* the page and the decision.                                              *)
DecidesWhatWasShown ==
    \A d \in decisions : d.by \in Tabs /\ d.link = d.cycle => ~d.blind

(* An approval cycle opens at most one ServiceNow ticket, whatever is sent *)
(* again in its second week: the reminder leaves ServiceNow out.           *)
OneTicket ==
    \A c \in Cycles : tried[c]["servicenow"] <= 1

(* A channel that fails, or a client that goes away, keeps no registered   *)
(* forwarder from being called: once the loop is over each was called.     *)
EveryChannelTried ==
    \A c \in 1 .. cycle : todo[c] = {} =>
        \A k \in Registered : tried[c][Forwarders[k].type] >= 1

(* A page that says that the VM has been excluded from future              *)
(* recommendations (proxy.go) is true: the owner's decision left the VM    *)
(* with the exclude annotation.                                            *)
ExcludedMeansExcluded ==
    \A t \in Tabs : tab[t].at = "exclude" =>
        \E d \in decisions : d.by = t /\ d.action = "exclude" /\ d.excluded

============================================================================
