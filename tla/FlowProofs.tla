----------------------------- MODULE FlowProofs -----------------------------
(***************************************************************************)
(* Proofs about ApprovalFlow: what owners are told, what they decide, and  *)
(* which notices go out, for every set of tabs, proposals and forwarders   *)
(* and any number of approval cycles.                                      *)
(***************************************************************************)
EXTENDS ApprovalFlow, WellFoundedInduction, TLAPS

(* The domains and ranges of the variables.                                *)
BackendShape ==
    /\ state \in {"pending", "awaiting-approval", "approved"}
    /\ proposal \in Proposals /\ cycle \in 0 .. MaxCycles
    /\ reminded \in BOOLEAN /\ excluded \in BOOLEAN
    /\ links \in [Cycles -> [age : 0 .. 2,
                             via : {"nobody", "console", "worker"}]]
    /\ worker \in [doing : {"nothing", "notify", "remind"},
                   cycle : 0 .. MaxCycles]

DispatchShape ==
    /\ todo \in [Cycles -> SUBSET Registered]
    /\ tried \in [Cycles -> [Types -> 0 .. 3]]
    /\ cancelled \subseteq Cycles /\ known \subseteq Cycles

Pages == Final \cup {"closed", "form", "posted", "served"}

Links == 0 .. MaxCycles

Shown == Proposals \cup {"none"}

Chosen == Actions \cup {"none"}

Codes == {0, 200, 409, 500}

TabRecord ==
    [at : Pages, link : Links, shown : Shown, action : Chosen, code : Codes]

TabShape == tab \in [Tabs -> TabRecord]

HistoryShape ==
    decisions \subseteq [cycle : Cycles, link : Links,
                        action : Actions, by : Tabs \cup {"console"},
                        blind : BOOLEAN, excluded : BOOLEAN]

Shape == BackendShape /\ DispatchShape /\ TabShape /\ HistoryShape

(* Nothing is sent, known, opened or decided for a cycle before it starts. *)
NothingEarly ==
    /\ state = "awaiting-approval" => cycle > 0
    /\ \A c \in Cycles : c > cycle =>
           /\ todo[c] = {} /\ \A y \in Types : tried[c][y] = 0
           /\ links[c].age = 0 /\ links[c].via = "nobody"
    /\ \A c \in known : c <= cycle
    /\ \A t \in Tabs : tab[t].link <= cycle
    /\ \A d \in decisions : d.cycle <= cycle

(* While a recommendation awaits approval, its cycle is undecided, and     *)
(* every tab opened from the link of this cycle shows the proposal.        *)
Undecided ==
    state = "awaiting-approval" =>
        /\ \A d \in decisions : d.cycle # cycle
        /\ \A t \in Tabs : tab[t].link = cycle => tab[t].shown = proposal

(* A request under way carries an action; the backend's 200 stands for a   *)
(* recorded decision.                                                      *)
Recorded(t, action) ==
    \E d \in decisions : d.by = t /\ d.link = tab[t].link /\ d.action = action

ServedTruthful ==
    \A t \in Tabs :
        /\ tab[t].at \in {"posted", "served"} => tab[t].action \in Actions
        /\ tab[t].at = "served" =>
               \/ tab[t].code \in {409, 500}
               \/ tab[t].code = 200 /\ Recorded(t, tab[t].action)

(* What is still to be sent belongs to a cycle of the first week, or to    *)
(* the reminder; what is not has been sent.                                *)
Sending ==
    \A c \in Cycles :
        /\ todo[c] # {} => \/ links[c].age = 0
                           \/ worker.doing = "remind" /\ worker.cycle = c
        /\ c <= cycle => \A k \in Registered :
               k \in todo[c] \/ tried[c][Forwarders[k].type] >= 1

(* ServiceNow is configured once at most.                                  *)
OneServiceNow ==
    \A j, k \in Registered :
        Forwarders[j].type = "servicenow" /\ Forwarders[k].type = "servicenow"
            => j = k

(* A ticket that is still to be opened has not been opened.                *)
TicketPending ==
    \A c \in Cycles : \A k \in todo[c] :
        Forwarders[k].type = "servicenow" => tried[c]["servicenow"] = 0

FlowInv ==
    /\ Shape /\ NothingEarly /\ Undecided /\ DecidedOnce /\ ServedTruthful
    /\ ResultTruthful /\ DecidesWhatWasShown /\ Sending

TicketInv == OneTicket /\ TicketPending

(* What the proofs use of the constants; only FirstIn needs more.          *)
LEMMA Bounds == MaxCycles \in Nat \ {0} /\ "none" \notin Proposals
BY ApprovalFlowAssumption, NotificationsAssumption

USE Bounds DEF Cycles

----------------------------------------------------------------------------
(* Every nonempty set of natural numbers has a least element, so the loop  *)
(* of the dispatcher has a next forwarder while there is one to call.      *)
LEMMA LeastNat ==
    ASSUME NEW T, T \subseteq Nat, T # {}
    PROVE  \E m \in T : \A n \in T : m <= n
<1> DEFINE R == {p \in Nat \X Nat : p[1] < p[2]}
<1>1. IsWellFoundedOn(R, Nat)
  BY NatLessThanWellFounded, Zenon DEF OpToRel
<1>2. \E m \in T : \A n \in T : ~ (<<n, m>> \in R)
  <2> HIDE DEF R
  <2> QED BY <1>1, WFMin, Zenon
<1>3. ASSUME NEW m \in Nat, NEW n \in Nat, ~ (<<n, m>> \in R)
      PROVE  m <= n
  <2>1. <<n, m>> \in Nat \X Nat /\ <<n, m>>[1] = n /\ <<n, m>>[2] = m
    OBVIOUS
  <2>2. ~ (n < m)
    BY <1>3, <2>1
  <2> QED BY <2>2
<1> HIDE DEF R
<1> QED BY <1>2, <1>3

LEMMA FirstIn ==
    ASSUME NEW ks \in SUBSET Registered, ks # {}
    PROVE  First(ks) \in ks
<1>1. ks \subseteq Nat
  BY NotificationsAssumption DEF Registered
<1>2. \E k \in ks : \A j \in ks : k <= j
  BY <1>1, LeastNat
<1> QED BY <1>2 DEF First

----------------------------------------------------------------------------
(* The values that tabs are given are of their fields' types.              *)
LEMMA FieldTypes ==
    /\ Final \subseteq Pages /\ {"closed", "form", "posted", "served"} \subseteq Pages
    /\ 0 \in Links /\ Cycles \subseteq Links
    /\ "none" \in Shown /\ Proposals \subseteq Shown
    /\ "none" \in Chosen /\ Actions \subseteq Chosen
    /\ 0 \in Codes /\ 200 \in Codes /\ 409 \in Codes /\ 500 \in Codes
    /\ "error" \in Final
BY DEF Pages, Links, Shown, Chosen, Codes, Final

(* The initial state, and what each action keeps of the types.             *)
LEMMA FlowInit == Init => FlowInv /\ TicketInv
<1> SUFFICES ASSUME Init PROVE FlowInv /\ TicketInv
  OBVIOUS
<1>1. Shape
  <2>1. BackendShape
    <3>1. links \in [Cycles -> [age : 0 .. 2,
                               via : {"nobody", "console", "worker"}]]
      BY DEF Init
    <3>2. worker \in [doing : {"nothing", "notify", "remind"},
                     cycle : 0 .. MaxCycles]
      BY DEF Init, Idle
    <3>3. reminded \in BOOLEAN /\ excluded \in BOOLEAN
      BY DEF Init
    <3>4. /\ state \in {"pending", "awaiting-approval", "approved"}
          /\ proposal \in Proposals /\ cycle \in 0 .. MaxCycles
      BY DEF Init
    <3> QED BY <3>1, <3>2, <3>3, <3>4 DEF BackendShape
  <2>2. DispatchShape
    BY DEF Init, DispatchShape
  <2>3. TabShape
    BY FieldTypes DEF Init, TabShape, TabRecord, Closed
  <2>4. HistoryShape
    BY DEF Init, HistoryShape
  <2> QED BY <2>1, <2>2, <2>3, <2>4 DEF Shape
<1>2. NothingEarly /\ Undecided /\ DecidedOnce /\ DecidesWhatWasShown
  BY DEF Init, NothingEarly, Undecided, DecidedOnce, DecidesWhatWasShown,
         Closed
<1>3. ServedTruthful /\ ResultTruthful
  BY DEF Init, ServedTruthful, ResultTruthful, Closed, Actions
<1>4. Sending /\ OneTicket /\ TicketPending
  BY DEF Init, Sending, OneTicket, TicketPending, Types
<1> QED BY <1>1, <1>2, <1>3, <1>4 DEF FlowInv, TicketInv

(* What a step does to the one tab it is about.                            *)
Becomes(t, at, link, shown, action, code) ==
    /\ TabShape'
    /\ \A u \in Tabs \ {t} : tab'[u] = tab[u]
    /\ tab'[t].at = at /\ tab'[t].link = link /\ tab'[t].shown = shown
    /\ tab'[t].action = action /\ tab'[t].code = code

LEMMA ShowStep ==
    ASSUME TabShape, NEW t \in Tabs, NEW page \in Pages, Show(t, page)
    PROVE  Becomes(t, page, tab[t].link, tab[t].shown, "none", 0)
<1>1. ASSUME NEW action \in Chosen, NEW code \in Codes,
             tab' = [tab EXCEPT ![t].at = page, ![t].action = action,
                                ![t].code = code]
      PROVE  Becomes(t, page, tab[t].link, tab[t].shown, action, code)
  BY <1>1 DEF TabShape, TabRecord, Becomes
<1> QED BY <1>1, FieldTypes DEF Show

LEMMA Answered ==
    ASSUME TabShape, NEW t \in Tabs, NEW page \in Pages, NEW code \in Codes,
           tab' = [tab EXCEPT ![t].at = page, ![t].code = code]
    PROVE  Becomes(t, page, tab[t].link, tab[t].shown, tab[t].action, code)
BY DEF TabShape, TabRecord, Becomes

LEMMA ReplyStep ==
    ASSUME TabShape, NEW t \in Tabs, NEW code \in Codes, Reply(t, code)
    PROVE  Becomes(t, "served", tab[t].link, tab[t].shown, tab[t].action, code)
BY FieldTypes, Answered DEF Reply

LEMMA PostStep ==
    ASSUME TabShape, NEW t \in Tabs, NEW action \in Actions, NEW valid,
           handlePostApprove(t, action, valid)
    PROVE  \E page \in {"posted", "error"} :
               Becomes(t, page, tab[t].link, tab[t].shown, action, tab[t].code)
<1>1. ASSUME NEW page \in Pages, NEW choice \in Chosen,
             tab' = [tab EXCEPT ![t].at = page, ![t].action = choice]
      PROVE  Becomes(t, page, tab[t].link, tab[t].shown, choice, tab[t].code)
  BY <1>1 DEF TabShape, TabRecord, Becomes
<1>2. PICK page \in {"posted", "error"} :
          tab' = [tab EXCEPT ![t].at = page, ![t].action = action]
  BY DEF handlePostApprove
<1>3. page \in Pages /\ action \in Chosen
  BY FieldTypes
<1> QED BY <1>1, <1>2, <1>3

LEMMA GetStep ==
    ASSUME TabShape, NEW t \in Tabs, NEW link \in Cycles, NEW valid,
           proposal \in Proposals,
           handleGetApprove(t, link, valid, proposal)
    PROVE  \/ Becomes(t, "form", link, proposal, "none", 0)
           \/ Becomes(t, "error", 0, "none", "none", 0)
<1>1. \/ tab' = [tab EXCEPT ![t] = [at |-> "form", link |-> link,
                                    shown |-> proposal, action |-> "none",
                                    code |-> 0]]
      \/ tab' = [tab EXCEPT ![t] = [at |-> "error", link |-> 0,
                                    shown |-> "none", action |-> "none",
                                    code |-> 0]]
  BY DEF handleGetApprove, Closed
<1> QED BY <1>1, FieldTypes DEF TabShape, TabRecord, Becomes

(* The steps of a browser, and of the handlers that owners reach.          *)
LEMMA BrowserStep ==
    ASSUME Shape, ServedTruthful, NEW t \in Tabs, Browser(t)
    PROVE  /\ UNCHANGED <<dispatch, backend>>
           /\ \/ \E c \in known : Becomes(t, "form", c, proposal, "none", 0)
              \/ Becomes(t, "error", 0, "none", "none", 0)
              \/ \E page \in {"posted", "error"}, action \in Actions :
                     Becomes(t, page, tab[t].link, tab[t].shown, action,
                             tab[t].code)
              \/ /\ tab[t].at = "served"
                 /\ Becomes(t, Result(t), tab[t].link, tab[t].shown, "none", 0)
              \/ \E page \in {"form", "error"} :
                     Becomes(t, page, tab[t].link, tab[t].shown, "none", 0)
<1> USE DEF Shape
<1>1. CASE OpenLink(t)
  <2>1. PICK c \in known :
            handleGetApprove(t, c, ValidateToken(c), proposal)
    BY <1>1 DEF OpenLink
  <2>2. c \in Cycles /\ proposal \in Proposals
    BY DEF DispatchShape, BackendShape
  <2> QED BY <1>1, <2>1, <2>2, GetStep DEF OpenLink
<1>2. CASE Submit(t)
  BY <1>2, PostStep DEF Submit
<1>3. ASSUME UNCHANGED <<dispatch, backend>>, Answer(t)
      PROVE  /\ tab[t].at = "served"
             /\ Becomes(t, Result(t), tab[t].link, tab[t].shown, "none", 0)
  <2>1. Result(t) \in Pages
    BY <1>3, FieldTypes DEF Result, Answer, ServedTruthful, Actions, Final
  <2> QED BY <1>3, <2>1, ShowStep DEF Answer
<1>4. ASSUME UNCHANGED <<dispatch, backend>>, NoAnswer(t) \/ Back(t)
      PROVE  \E page \in {"form", "error"} :
                 Becomes(t, page, tab[t].link, tab[t].shown, "none", 0)
  BY <1>4, ShowStep, FieldTypes DEF NoAnswer, Back
<1> QED BY <1>1, <1>2, <1>3, <1>4 DEF Browser, OpenLink, Submit

LEMMA OwnerStep ==
    ASSUME Shape, NEW t \in Tabs, HandleOwner(t)
    PROVE  /\ tab[t].at = "posted"
           /\ UNCHANGED <<dispatch, proposal, reminded, cycle, links, worker>>
           /\ excluded' \in BOOLEAN
           /\ \/ /\ state = "awaiting-approval"
                 /\ state' \in {"approved", "pending"}
                 /\ decisions' = decisions \cup {Decided(t)}
                 /\ Becomes(t, "served", tab[t].link, tab[t].shown,
                            tab[t].action, 200)
              \/ /\ UNCHANGED <<state, decisions>>
                 /\ \/ Becomes(t, "served", tab[t].link, tab[t].shown,
                               tab[t].action, 409)
                    \/ Becomes(t, "served", tab[t].link, tab[t].shown,
                               tab[t].action, 500)
<1> USE DEF Shape
<1>1. 200 \in Codes /\ 409 \in Codes /\ 500 \in Codes
  BY FieldTypes
<1>2. (excluded \/ Excludes(t)) \in BOOLEAN
  OBVIOUS
<1>3. excluded \in BOOLEAN
  BY DEF BackendShape
<1>4. CASE Accept(t)
  BY <1>1, <1>2, <1>4, ReplyStep DEF HandleOwner, Accept, Decidable, Turned
<1>5. CASE Refuse(t)
  BY <1>1, <1>3, <1>5, ReplyStep DEF HandleOwner, Refuse
<1>6. CASE Fail(t)
  BY <1>1, <1>2, <1>6, ReplyStep DEF HandleOwner, Fail
<1> QED BY <1>4, <1>5, <1>6 DEF HandleOwner

(* One turn of the dispatcher's loop.                                      *)
LEMMA SendStep ==
    ASSUME DispatchShape, NEW c \in Cycles, SendNext(c)
    PROVE  \E k \in todo[c] :
              /\ k \in Registered /\ Forwarders[k].type \in Types
              /\ todo' = [todo EXCEPT ![c] = todo[c] \ {k}]
              /\ tried' = [tried EXCEPT ![c][Forwarders[k].type] =
                                IF @ < 3 THEN @ + 1 ELSE @]
              /\ known' = known \/ known' = known \cup {c}
              /\ cancelled' = cancelled
<1>1. First(todo[c]) \in todo[c]
  BY FirstIn DEF DispatchShape, SendNext
<1>2. First(todo[c]) \in Registered
  BY <1>1 DEF DispatchShape
<1>3. Forwarders[First(todo[c])].type \in Types
  BY <1>2 DEF Registered
<1> QED BY <1>1, <1>2, <1>3 DEF SendNext, AfterSend

(* The types are kept.                                                     *)
LEMMA CycleShape ==
    ASSUME Shape, NEW via \in {"console", "worker"}, StartCycle(via),
           worker' \in [doing : {"nothing", "notify", "remind"},
                       cycle : 0 .. MaxCycles]
    PROVE  Shape'
<1> USE DEF Shape
<1>1. cycle + 1 \in Cycles /\ cycle' = cycle + 1
  BY DEF StartCycle, BackendShape
<1>2. links' \in [Cycles -> [age : 0 .. 2,
                            via : {"nobody", "console", "worker"}]]
  BY <1>1 DEF StartCycle, BackendShape
<1>3. BackendShape'
  BY <1>1, <1>2 DEF StartCycle, BackendShape
<1>4. DispatchShape'
  BY <1>1 DEF StartCycle, SendAll, DispatchShape
<1>5. TabShape' /\ HistoryShape'
  BY DEF StartCycle, TabShape, HistoryShape
<1> QED BY <1>3, <1>4, <1>5

LEMMA ShapeKept ==
    ASSUME Shape, NothingEarly, ServedTruthful, [Next]_vars
    PROVE  Shape'
<1> USE DEF Shape
<1>1. CASE handleApply
  BY <1>1, CycleShape DEF handleApply, BackendShape
<1>2. CASE autoApply
  <2>1. worker' = [doing |-> "notify", cycle |-> cycle + 1]
        /\ cycle + 1 \in 0 .. MaxCycles
    BY <1>2 DEF autoApply, StartCycle, BackendShape
  <2> QED BY <1>2, <2>1, CycleShape DEF autoApply
<1>3. CASE AutoApplyDone
  BY <1>3 DEF AutoApplyDone, Idle, dispatch, BackendShape, DispatchShape,
              TabShape, HistoryShape
<1>4. ASSUME NEW c \in Cycles, Send(c)
      PROVE  Shape'
  <2>1. PICK k \in todo[c] :
            /\ Forwarders[k].type \in Types
            /\ todo' = [todo EXCEPT ![c] = todo[c] \ {k}]
            /\ tried' = [tried EXCEPT ![c][Forwarders[k].type] =
                              IF @ < 3 THEN @ + 1 ELSE @]
            /\ known' = known \/ known' = known \cup {c}
            /\ cancelled' = cancelled
    BY <1>4, SendStep DEF Send
  <2>2. todo' \in [Cycles -> SUBSET Registered]
    BY <2>1 DEF DispatchShape
  <2>3. tried' \in [Cycles -> [Types -> 0 .. 3]]
    BY <2>1 DEF DispatchShape
  <2>4. DispatchShape'
    BY <2>1, <2>2, <2>3 DEF DispatchShape
  <2> QED BY <1>4, <2>4 DEF Send, backend, BackendShape, TabShape, HistoryShape
<1>5. ASSUME NEW c \in Cycles, ApplyReplies(c) \/ ClientGone(c)
      PROVE  Shape'
  BY <1>5 DEF ApplyReplies, ClientGone, Disconnect, backend, BackendShape,
              DispatchShape, TabShape, HistoryShape
<1>6. CASE Remind
  <2>1. cycle \in Cycles
    BY <1>6 DEF Remind, NothingEarly, BackendShape
  <2>2. DispatchShape'
    BY <1>6, <2>1 DEF Remind, SendAllExcept, DispatchShape
  <2>3. BackendShape'
    BY <1>6, <2>1 DEF Remind, BackendShape
  <2> QED BY <1>6, <2>2, <2>3 DEF Remind, TabShape, HistoryShape
<1>7. CASE StampReminder
  <2>1. reminded' \in BOOLEAN
    BY <1>7, Zenon DEF StampReminder, BackendShape
  <2>2. BackendShape'
    <3>1. /\ worker' = Idle
          /\ UNCHANGED <<state, proposal, cycle, links, excluded>>
      BY <1>7 DEF StampReminder
    <3> QED BY <2>1, <3>1 DEF BackendShape, Idle
  <2> QED BY <1>7, <2>2 DEF StampReminder, dispatch, DispatchShape, TabShape,
                            HistoryShape
<1>8. CASE Expire
  BY <1>8 DEF Expire, dispatch, BackendShape, DispatchShape, TabShape,
              HistoryShape
<1>9. CASE WeekPasses
  <2>1. links' \in [Cycles -> [age : 0 .. 2,
                              via : {"nobody", "console", "worker"}]]
    BY <1>9 DEF WeekPasses, BackendShape
  <2> QED BY <1>9, <2>1 DEF WeekPasses, dispatch, BackendShape, DispatchShape,
                            TabShape, HistoryShape
<1>10. CASE Recalculate
  BY <1>10 DEF Recalculate, dispatch, BackendShape, DispatchShape, TabShape,
               HistoryShape
<1>11. CASE handleReject
  <2>1. cycle \in Cycles
    BY <1>11 DEF handleReject, NothingEarly, BackendShape
  <2>2. [cycle |-> cycle, link |-> 0, action |-> "reject",
         by |-> "console", blind |-> FALSE, excluded |-> FALSE]
            \in [cycle : Cycles, link : Links, action : Actions,
                 by : Tabs \cup {"console"}, blind : BOOLEAN,
                 excluded : BOOLEAN]
    BY <2>1, FieldTypes DEF Actions
  <2>3. HistoryShape'
    BY <1>11, <2>2 DEF handleReject, HistoryShape
  <2> QED BY <1>11, <2>3 DEF handleReject, Turned, dispatch, BackendShape,
                             DispatchShape, TabShape
<1>12. ASSUME NEW t \in Tabs, HandleOwner(t)
       PROVE  Shape'
  <2>1. BackendShape'
    BY <1>12, OwnerStep DEF BackendShape
  <2>2. TabShape'
    BY <1>12, OwnerStep DEF Becomes
  <2>3. DispatchShape'
    BY <1>12, OwnerStep DEF dispatch, DispatchShape
  <2>4. HistoryShape'
    <3>1. CASE UNCHANGED decisions
      BY <3>1 DEF HistoryShape
    <3>2. CASE /\ state = "awaiting-approval" /\ tab[t].at = "posted"
               /\ decisions' = decisions \cup {Decided(t)}
      <4>1. cycle \in Cycles
        BY <3>2 DEF NothingEarly, BackendShape
      <4>2. tab[t].link \in Links /\ tab[t].action \in Actions
        BY <3>2 DEF ServedTruthful, TabShape, TabRecord
      <4>3. Decided(t) \in [cycle : Cycles, link : Links, action : Actions,
                            by : Tabs \cup {"console"}, blind : BOOLEAN,
                            excluded : BOOLEAN]
        BY <4>1, <4>2 DEF Decided
      <4> QED BY <3>2, <4>3 DEF HistoryShape
    <3> QED BY <1>12, <3>1, <3>2, OwnerStep
  <2> QED BY <2>1, <2>2, <2>3, <2>4
<1>13. ASSUME NEW t \in Tabs, Browser(t)
       PROVE  Shape'
  <2>1. TabShape'
    BY <1>13, BrowserStep DEF Becomes
  <2>2. UNCHANGED <<dispatch, backend>>
    BY <1>13, BrowserStep
  <2> QED BY <2>1, <2>2 DEF dispatch, backend, BackendShape, DispatchShape,
                            HistoryShape
<1>14. CASE UNCHANGED vars
  BY <1>14 DEF vars, dispatch, backend, BackendShape, DispatchShape, TabShape,
               HistoryShape
<1> QED
  BY <1>1, <1>2, <1>3, <1>4, <1>5, <1>6, <1>7, <1>8, <1>9, <1>10, <1>11,
     <1>12, <1>13, <1>14 DEF Next

(* No step runs ahead of the cycles that have started.                     *)
LEMMA CycleNotEarly ==
    ASSUME Shape, NothingEarly, NEW via, StartCycle(via)
    PROVE  NothingEarly'
<1>1. cycle \in Nat /\ cycle + 1 \in Cycles /\ cycle' = cycle + 1
  BY DEF StartCycle, Shape, BackendShape
<1>2. ASSUME NEW c \in Cycles, c > cycle + 1
      PROVE  /\ todo'[c] = {} /\ \A y \in Types : tried'[c][y] = 0
             /\ links'[c].age = 0 /\ links'[c].via = "nobody"
  BY <1>1, <1>2 DEF StartCycle, SendAll, NothingEarly, Shape, DispatchShape,
                    BackendShape
<1>3. /\ \A c \in known : c <= cycle + 1
      /\ \A t \in Tabs : tab[t].link <= cycle + 1
      /\ \A d \in decisions : d.cycle <= cycle + 1
  BY <1>1 DEF NothingEarly, Shape, DispatchShape, TabShape, TabRecord, Links,
              HistoryShape
<1> QED BY <1>1, <1>2, <1>3 DEF NothingEarly, StartCycle

LEMMA NothingEarlyKept ==
    ASSUME Shape, NothingEarly, ServedTruthful, [Next]_vars
    PROVE  NothingEarly'
<1>1. CASE handleApply \/ autoApply
  BY <1>1, CycleNotEarly DEF handleApply, autoApply
<1>2. CASE AutoApplyDone \/ StampReminder \/ Recalculate \/ Expire
  BY <1>2 DEF AutoApplyDone, StampReminder, Recalculate, Expire, dispatch,
              NothingEarly
<1>3. ASSUME NEW c \in Cycles, Send(c)
      PROVE  NothingEarly'
  <2>1. c <= cycle
    BY <1>3 DEF Send, SendNext, NothingEarly, Shape, BackendShape
  <2>2. PICK k \in todo[c] :
            /\ todo' = [todo EXCEPT ![c] = todo[c] \ {k}]
            /\ tried' = [tried EXCEPT ![c][Forwarders[k].type] =
                              IF @ < 3 THEN @ + 1 ELSE @]
            /\ known' = known \/ known' = known \cup {c}
    BY <1>3, SendStep DEF Send, Shape
  <2>3. ASSUME NEW e \in Cycles, e > cycle
        PROVE  todo'[e] = {} /\ \A y \in Types : tried'[e][y] = 0
    <3>1. e # c
      BY <2>1, <2>3 DEF Shape, BackendShape
    <3> QED BY <2>2, <2>3, <3>1 DEF NothingEarly, Shape, DispatchShape
  <2>4. \A e \in known' : e <= cycle
    BY <2>1, <2>2 DEF NothingEarly
  <2> QED BY <1>3, <2>3, <2>4 DEF Send, backend, NothingEarly
<1>4. ASSUME NEW c \in Cycles, ApplyReplies(c) \/ ClientGone(c)
      PROVE  NothingEarly'
  <2>1. c <= cycle
    BY <1>4 DEF ApplyReplies, ClientGone, NothingEarly, Shape, BackendShape
  <2> QED BY <1>4, <2>1 DEF ApplyReplies, ClientGone, Disconnect, backend,
                            NothingEarly
<1>5. CASE Remind
  <2>1. cycle \in Cycles
    BY <1>5 DEF Remind, NothingEarly, Shape, BackendShape
  <2>2. \A c \in Cycles : c > cycle => todo'[c] = todo[c]
    BY <1>5, <2>1 DEF Remind, SendAllExcept, Shape, DispatchShape
  <2> QED BY <1>5, <2>2 DEF Remind, NothingEarly
<1>6. CASE WeekPasses
  <2>1. \A c \in Cycles : c > cycle => links'[c] = links[c]
    BY <1>6 DEF WeekPasses, Shape, BackendShape
  <2> QED BY <1>6, <2>1 DEF WeekPasses, dispatch, NothingEarly
<1>7. CASE handleReject
  <2>1. cycle <= cycle
    BY DEF Shape, BackendShape
  <2> QED BY <1>7, <2>1 DEF handleReject, Turned, dispatch, NothingEarly
<1>8. ASSUME NEW t \in Tabs, HandleOwner(t)
      PROVE  NothingEarly'
  <2>1. UNCHANGED <<dispatch, cycle, links>> /\ cycle <= cycle
    BY <1>8, OwnerStep DEF Shape, BackendShape
  <2>2. \A u \in Tabs : tab'[u].link <= cycle
    BY <1>8, OwnerStep DEF Becomes, NothingEarly
  <2>3. \A d \in decisions' : d.cycle <= cycle
    BY <1>8, <2>1, OwnerStep DEF NothingEarly, Decided
  <2>4. state' = "awaiting-approval" => state = "awaiting-approval"
    BY <1>8, OwnerStep
  <2> QED BY <2>1, <2>2, <2>3, <2>4 DEF dispatch, NothingEarly
<1>9. ASSUME NEW t \in Tabs, Browser(t)
      PROVE  NothingEarly'
  <2>1. UNCHANGED <<dispatch, backend>> /\ 0 <= cycle
    BY <1>9, BrowserStep DEF Shape, BackendShape
  <2>2. \A u \in Tabs : tab'[u].link <= cycle
    BY <1>9, <2>1, BrowserStep DEF Becomes, NothingEarly
  <2> QED BY <2>1, <2>2 DEF dispatch, backend, NothingEarly
<1>10. CASE UNCHANGED vars
  BY <1>10 DEF vars, dispatch, backend, NothingEarly
<1> QED
  BY <1>1, <1>2, <1>3, <1>4, <1>5, <1>6, <1>7, <1>8, <1>9, <1>10 DEF Next

(* Decisions: one per cycle, about what was shown.                         *)
DecisionInv == Undecided /\ DecidedOnce /\ DecidesWhatWasShown

(* A decision about an undecided cycle is the only one about it.           *)
LEMMA DecisionAdded ==
    ASSUME DecidedOnce, DecidesWhatWasShown, NEW d,
           \A e \in decisions : e.cycle # d.cycle,
           d.by \in Tabs /\ d.link = d.cycle => ~ d.blind,
           decisions' = decisions \cup {d}
    PROVE  DecidedOnce' /\ DecidesWhatWasShown'
<1>1. DecidedOnce'
  BY DEF DecidedOnce
<1>2. DecidesWhatWasShown'
  BY DEF DecidesWhatWasShown
<1> QED BY <1>1, <1>2

LEMMA DecisionKept ==
    ASSUME Shape, NothingEarly, ServedTruthful, DecisionInv, [Next]_vars
    PROVE  DecisionInv'
<1> USE DEF DecisionInv
<1>1. ASSUME UNCHANGED <<state, proposal, cycle, decisions, tab>>
      PROVE  DecisionInv'
  BY <1>1 DEF Undecided, DecidedOnce, DecidesWhatWasShown
<1>2. CASE handleApply \/ autoApply
  <2>1. /\ cycle' = cycle + 1 /\ cycle \in Nat
        /\ UNCHANGED <<tab, proposal, decisions>>
    BY <1>2 DEF handleApply, autoApply, StartCycle, Shape, BackendShape
  <2>2. /\ \A t \in Tabs : tab[t].link # cycle + 1
        /\ \A d \in decisions : d.cycle # cycle + 1
    BY <2>1 DEF NothingEarly
  <2> QED BY <2>1, <2>2 DEF Undecided, DecidedOnce, DecidesWhatWasShown
<1>3. CASE AutoApplyDone \/ Remind \/ StampReminder \/ WeekPasses
  BY <1>1, <1>3 DEF AutoApplyDone, Remind, StampReminder, WeekPasses
<1>4. ASSUME NEW c \in Cycles, Send(c) \/ ApplyReplies(c) \/ ClientGone(c)
      PROVE  DecisionInv'
  BY <1>1, <1>4 DEF Send, ApplyReplies, ClientGone, backend
<1>5. CASE Expire
  BY <1>5 DEF Expire, Undecided, DecidedOnce, DecidesWhatWasShown
<1>6. CASE Recalculate
  BY <1>6 DEF Recalculate, Unprotected, Undecided, DecidedOnce,
              DecidesWhatWasShown
<1>7. CASE handleReject
  <2> DEFINE d == [cycle |-> cycle, link |-> 0, action |-> "reject",
                   by |-> "console", blind |-> FALSE, excluded |-> FALSE]
  <2>1. d.cycle = cycle /\ ~ d.blind
    OBVIOUS
  <2>2. /\ state = "awaiting-approval" /\ state' = "pending"
        /\ decisions' = decisions \cup {d}
    BY <1>7 DEF handleReject, Turned
  <2> HIDE DEF d
  <2>3. \A e \in decisions : e.cycle # d.cycle
    BY <2>1, <2>2 DEF Undecided
  <2> QED BY <2>1, <2>2, <2>3, DecisionAdded DEF Undecided
<1>8. ASSUME NEW t \in Tabs, HandleOwner(t)
      PROVE  DecisionInv'
  <2>1. CASE UNCHANGED <<state, decisions>>
    <3>1. UNCHANGED <<proposal, cycle>>
      BY <1>8, OwnerStep
    <3>2. \A u \in Tabs : /\ tab'[u].link = tab[u].link
                          /\ tab'[u].shown = tab[u].shown
      BY <1>8, OwnerStep DEF Becomes
    <3> QED BY <2>1, <3>1, <3>2 DEF Undecided, DecidedOnce,
                                    DecidesWhatWasShown
  <2>2. CASE /\ state = "awaiting-approval" /\ state' \in {"approved", "pending"}
             /\ decisions' = decisions \cup {Decided(t)}
    <3>1. /\ Decided(t).cycle = cycle /\ Decided(t).link = tab[t].link
          /\ Decided(t).blind = (tab[t].shown # proposal)
      BY DEF Decided
    <3>2. \A e \in decisions : e.cycle # Decided(t).cycle
      BY <2>2, <3>1 DEF Undecided
    <3>3. Decided(t).link = Decided(t).cycle => ~ Decided(t).blind
      BY <2>2, <3>1 DEF Undecided
    <3> QED BY <2>2, <3>2, <3>3, DecisionAdded DEF Undecided
  <2> QED BY <1>8, <2>1, <2>2, OwnerStep
<1>9. ASSUME NEW t \in Tabs, Browser(t)
      PROVE  DecisionInv'
  <2>1. UNCHANGED <<state, proposal, cycle, decisions>>
    BY <1>9, BrowserStep DEF backend
  <2>2. state = "awaiting-approval" => cycle # 0
    BY DEF NothingEarly, Shape, BackendShape
  <2>3. ASSUME state = "awaiting-approval", NEW u \in Tabs,
               tab'[u].link = cycle
        PROVE  tab'[u].shown = proposal
    <3>1. CASE u # t
      BY <1>9, <2>3, <3>1, BrowserStep DEF Becomes, Undecided
    <3>2. CASE u = t
      BY <1>9, <2>2, <2>3, <3>2, BrowserStep DEF Becomes, Undecided
    <3> QED BY <3>1, <3>2
  <2> QED BY <2>1, <2>3 DEF Undecided, DecidedOnce, DecidesWhatWasShown
<1>10. CASE UNCHANGED vars
  BY <1>1, <1>10 DEF vars, backend
<1> QED
  BY <1>2, <1>3, <1>4, <1>5, <1>6, <1>7, <1>8, <1>9, <1>10 DEF Next

(* Pages: what an owner is told has been recorded.                         *)
TruthInv == ServedTruthful /\ ResultTruthful

LEMMA TruthKept ==
    ASSUME Shape, TruthInv, [Next]_vars
    PROVE  TruthInv'
<1> USE DEF TruthInv
<1>1. ASSUME UNCHANGED tab, decisions \subseteq decisions'
      PROVE  TruthInv'
  BY <1>1 DEF ServedTruthful, ResultTruthful, Recorded
<1>2. CASE handleApply \/ autoApply
  BY <1>1, <1>2 DEF handleApply, autoApply, StartCycle
<1>3. CASE AutoApplyDone \/ Remind \/ StampReminder \/ WeekPasses \/ Expire
           \/ Recalculate \/ handleReject
  BY <1>1, <1>3 DEF AutoApplyDone, Remind, StampReminder, WeekPasses, Expire,
                    Recalculate, handleReject
<1>4. ASSUME NEW c \in Cycles, Send(c) \/ ApplyReplies(c) \/ ClientGone(c)
      PROVE  TruthInv'
  BY <1>1, <1>4 DEF Send, ApplyReplies, ClientGone, backend
<1>5. ASSUME NEW t \in Tabs, NEW link, NEW shown, NEW action, NEW page, NEW code,
             Becomes(t, page, link, shown, action, code),
             decisions \subseteq decisions',
             page \in {"posted", "served"} => action \in Actions,
             page = "served" =>
                 \/ code \in {409, 500}
                 \/ code = 200 /\ \E d \in decisions' :
                        d.by = t /\ d.link = link /\ d.action = action,
             page \in Actions => \E d \in decisions' :
                        d.by = t /\ d.link = link /\ d.action = page
      PROVE  TruthInv'
  <2>1. ServedTruthful'
    BY <1>5 DEF Becomes, ServedTruthful, Recorded
  <2>2. ResultTruthful'
    BY <1>5 DEF Becomes, ResultTruthful
  <2> QED BY <2>1, <2>2
<1>6. ASSUME NEW t \in Tabs, HandleOwner(t)
      PROVE  TruthInv'
  <2>1. tab[t].at = "posted" /\ tab[t].action \in Actions
    BY <1>6, OwnerStep DEF ServedTruthful
  <2>2. "served" \notin Actions
    BY DEF Actions
  <2>3. CASE /\ decisions' = decisions \cup {Decided(t)}
             /\ Becomes(t, "served", tab[t].link, tab[t].shown,
                        tab[t].action, 200)
    <3>1. /\ Decided(t) \in decisions' /\ Decided(t).by = t
          /\ Decided(t).link = tab[t].link /\ Decided(t).action = tab[t].action
      BY <2>3 DEF Decided
    <3> QED BY <1>5, <2>1, <2>2, <2>3, <3>1
  <2>4. ASSUME UNCHANGED decisions, NEW code \in {409, 500},
               Becomes(t, "served", tab[t].link, tab[t].shown,
                       tab[t].action, code)
        PROVE  TruthInv'
    BY <1>5, <2>1, <2>2, <2>4
  <2> QED BY <1>6, <2>3, <2>4, OwnerStep
<1>7. ASSUME NEW t \in Tabs, Browser(t)
      PROVE  TruthInv'
  <2>1. UNCHANGED decisions
    BY <1>7, BrowserStep DEF backend
  <2>2. {"form", "error", "posted"} \cap Actions = {}
    BY DEF Actions
  <2>3. ASSUME NEW link, NEW shown, NEW page \in {"form", "error"},
               NEW action, NEW code,
               Becomes(t, page, link, shown, action, code)
        PROVE  TruthInv'
    BY <1>5, <2>1, <2>2, <2>3
  <2>4. ASSUME NEW action \in Actions,
               Becomes(t, "posted", tab[t].link, tab[t].shown, action,
                       tab[t].code)
        PROVE  TruthInv'
    BY <1>5, <2>1, <2>2, <2>4
  <2>5. ASSUME tab[t].at = "served",
               Becomes(t, Result(t), tab[t].link, tab[t].shown, "none", 0)
        PROVE  TruthInv'
    <3>1. Result(t) = "error" \/ Recorded(t, Result(t))
      BY <2>5 DEF Result, ServedTruthful
    <3>2. Result(t) \notin {"posted", "served"}
      BY <2>5 DEF Result, ServedTruthful, Actions
    <3> QED BY <1>5, <2>1, <2>2, <2>5, <3>1, <3>2 DEF Recorded
  <2> QED BY <1>7, <2>3, <2>4, <2>5, BrowserStep
<1>8. CASE UNCHANGED vars
  BY <1>1, <1>8 DEF vars, backend
<1> QED BY <1>2, <1>3, <1>4, <1>6, <1>7, <1>8 DEF Next

(* Notices: what is not to be sent any more has been sent.                 *)
LEMMA SendingKept ==
    ASSUME Shape, NothingEarly, ServedTruthful, Sending, [Next]_vars
    PROVE  Sending'
<1> USE DEF Shape
<1>1. CASE handleApply \/ autoApply
  <2>1. PICK via : StartCycle(via)
    BY <1>1 DEF handleApply, autoApply
  <2>2. /\ cycle \in Nat /\ cycle + 1 \in Cycles /\ cycle' = cycle + 1
        /\ tried' = tried
    BY <2>1 DEF StartCycle, BackendShape
  <2>3. /\ \A c \in Cycles : links'[c].age = links[c].age
        /\ \A c \in Cycles \ {cycle + 1} : todo'[c] = todo[c]
        /\ todo'[cycle + 1] = Registered
    BY <2>1, <2>2 DEF StartCycle, SendAll, BackendShape, DispatchShape
  <2>4. links[cycle + 1].age = 0
    BY <2>2 DEF NothingEarly
  <2>5. ASSUME NEW c \in Cycles, worker.doing = "remind", worker.cycle = c
        PROVE  worker' = worker
    BY <1>1, <2>5 DEF handleApply, autoApply, Idle
  <2>6. ASSUME NEW c \in Cycles, todo'[c] # {}
        PROVE  \/ links'[c].age = 0
               \/ worker'.doing = "remind" /\ worker'.cycle = c
    BY <2>3, <2>4, <2>5, <2>6 DEF Sending
  <2>7. ASSUME NEW c \in Cycles, c <= cycle + 1, NEW k \in Registered
        PROVE  k \in todo'[c] \/ tried'[c][Forwarders[k].type] >= 1
    <3>1. CASE c = cycle + 1
      BY <2>3, <3>1
    <3>2. CASE c # cycle + 1
      <4>1. c <= cycle
        BY <2>2, <2>7, <3>2
      <4> QED BY <2>2, <2>3, <3>2, <4>1 DEF Sending
    <3> QED BY <3>1, <3>2
  <2> QED BY <2>2, <2>6, <2>7 DEF Sending
<1>2. CASE AutoApplyDone
  <2>1. worker.doing # "remind" /\ UNCHANGED <<dispatch, cycle, links>>
    BY <1>2 DEF AutoApplyDone
  <2> QED BY <2>1 DEF dispatch, Sending
<1>3. ASSUME NEW c \in Cycles, Send(c)
      PROVE  Sending'
  <2>1. PICK k \in todo[c] :
            /\ Forwarders[k].type \in Types
            /\ todo' = [todo EXCEPT ![c] = todo[c] \ {k}]
            /\ tried' = [tried EXCEPT ![c][Forwarders[k].type] =
                              IF @ < 3 THEN @ + 1 ELSE @]
    BY <1>3, SendStep DEF Send
  <2>2. UNCHANGED <<worker, links, cycle>>
    BY <1>3 DEF Send, backend
  <2>3. \A e \in Cycles : todo'[e] \subseteq todo[e]
    BY <2>1 DEF DispatchShape
  <2>4. ASSUME NEW e \in Cycles, NEW y \in Types
        PROVE  tried[e][y] >= 1 => tried'[e][y] >= 1
    BY <2>1 DEF DispatchShape
  <2>5. tried'[c][Forwarders[k].type] >= 1
    BY <2>1 DEF DispatchShape
  <2>6. ASSUME NEW e \in Cycles, e <= cycle, NEW j \in Registered
        PROVE  j \in todo'[e] \/ tried'[e][Forwarders[j].type] >= 1
    <3>1. CASE e = c /\ j = k
      BY <2>5, <3>1
    <3>2. CASE ~ (e = c /\ j = k)
      <4>1. j \in todo[e] => j \in todo'[e]
        BY <2>1, <3>2 DEF DispatchShape
      <4>2. Forwarders[j].type \in Types
        BY DEF Registered
      <4> QED BY <2>4, <2>6, <4>1, <4>2 DEF Sending
    <3> QED BY <3>1, <3>2
  <2> QED BY <2>2, <2>3, <2>6 DEF Sending
<1>4. ASSUME NEW c \in Cycles, ApplyReplies(c) \/ ClientGone(c)
      PROVE  Sending'
  BY <1>4 DEF ApplyReplies, ClientGone, Disconnect, backend, Sending
<1>5. CASE Remind
  <2>1. /\ cycle \in Cycles /\ worker.doing # "remind"
        /\ links[cycle].age = 1
    BY <1>5 DEF Remind, Idle, NothingEarly, BackendShape
  <2>2. todo[cycle] = {}
    BY <2>1 DEF Sending
  <2>3. \A c \in Cycles \ {cycle} : todo'[c] = todo[c]
    BY <1>5, <2>1 DEF Remind, SendAllExcept, DispatchShape
  <2>4. /\ UNCHANGED <<tried, cycle, links>>
        /\ worker'.doing = "remind" /\ worker'.cycle = cycle
    BY <1>5 DEF Remind
  <2>5. ASSUME NEW c \in Cycles, todo'[c] # {}
        PROVE  links[c].age = 0 \/ c = cycle
    BY <2>1, <2>3, <2>5 DEF Sending
  <2>6. ASSUME NEW c \in Cycles, c <= cycle, NEW k \in Registered
        PROVE  k \in todo'[c] \/ tried[c][Forwarders[k].type] >= 1
    BY <2>2, <2>3, <2>6 DEF Sending
  <2> QED BY <2>4, <2>5, <2>6 DEF Sending
<1>6. CASE StampReminder
  <2>1. todo[worker.cycle] = {} /\ UNCHANGED <<dispatch, cycle, links>>
    BY <1>6 DEF StampReminder
  <2> QED BY <2>1 DEF dispatch, Sending
<1>7. CASE WeekPasses
  <2>1. /\ \A c \in Cycles : todo[c] = {}
        /\ UNCHANGED <<dispatch, cycle>>
    BY <1>7 DEF WeekPasses
  <2> QED BY <2>1 DEF dispatch, Sending
<1>8. ASSUME UNCHANGED <<dispatch, cycle, links, worker>>
      PROVE  Sending'
  BY <1>8 DEF dispatch, Sending
<1>9. CASE Expire \/ Recalculate \/ handleReject
  BY <1>8, <1>9 DEF Expire, Recalculate, handleReject
<1>10. ASSUME NEW t \in Tabs, HandleOwner(t) \/ Browser(t)
       PROVE  Sending'
  BY <1>8, <1>10, BrowserStep DEF HandleOwner, backend
<1>11. CASE UNCHANGED vars
  BY <1>8, <1>11 DEF vars, backend
<1> QED
  BY <1>1, <1>2, <1>3, <1>4, <1>5, <1>6, <1>7, <1>9, <1>10, <1>11 DEF Next

(* Tickets: with ServiceNow configured once, one that is still to be       *)
(* opened has not been opened.                                             *)
LEMMA TicketKept ==
    ASSUME OneServiceNow, Shape, NothingEarly, ServedTruthful, TicketInv,
           [Next]_vars
    PROVE  TicketInv'
<1> USE DEF Shape, TicketInv
<1>1. CASE handleApply \/ autoApply
  <2>1. PICK via : StartCycle(via)
    BY <1>1 DEF handleApply, autoApply
  <2>2. /\ cycle \in Nat /\ cycle + 1 \in Cycles /\ tried' = tried
        /\ \A c \in Cycles \ {cycle + 1} : todo'[c] = todo[c]
    BY <2>1 DEF StartCycle, SendAll, BackendShape, DispatchShape
  <2>3. tried[cycle + 1]["servicenow"] = 0
    BY <2>2 DEF NothingEarly, Types
  <2> QED BY <2>2, <2>3 DEF OneTicket, TicketPending
<1>2. ASSUME NEW c \in Cycles, Send(c)
      PROVE  TicketInv'
  <2>1. PICK k \in todo[c] :
            /\ k \in Registered
            /\ Forwarders[k].type \in Types
            /\ todo' = [todo EXCEPT ![c] = todo[c] \ {k}]
            /\ tried' = [tried EXCEPT ![c][Forwarders[k].type] =
                              IF @ < 3 THEN @ + 1 ELSE @]
    BY <1>2, SendStep DEF Send
  <2>2. /\ \A e \in Cycles \ {c} : todo'[e] = todo[e] /\ tried'[e] = tried[e]
        /\ todo'[c] = todo[c] \ {k}
    BY <2>1 DEF DispatchShape
  <2>3. CASE Forwarders[k].type = "servicenow"
    <3>1. tried[c]["servicenow"] = 0
      BY <2>1, <2>3 DEF TicketPending
    <3>2. tried'[c]["servicenow"] = 1
      BY <2>1, <2>3, <3>1 DEF DispatchShape, Types
    <3>3. \A j \in todo'[c] : Forwarders[j].type # "servicenow"
      BY <2>1, <2>2, <2>3 DEF OneServiceNow, DispatchShape
    <3> QED BY <2>2, <3>2, <3>3 DEF OneTicket, TicketPending
  <2>4. CASE Forwarders[k].type # "servicenow"
    <3>1. tried'[c]["servicenow"] = tried[c]["servicenow"]
      BY <2>1, <2>4 DEF DispatchShape, Types
    <3> QED BY <2>2, <3>1 DEF OneTicket, TicketPending
  <2> QED BY <2>3, <2>4
<1>3. CASE Remind
  <2>1. cycle \in Cycles /\ tried' = tried
    BY <1>3 DEF Remind, NothingEarly, BackendShape
  <2>2. /\ \A c \in Cycles \ {cycle} : todo'[c] = todo[c]
        /\ \A k \in todo'[cycle] : Forwarders[k].type # "servicenow"
    BY <1>3, <2>1 DEF Remind, SendAllExcept, DispatchShape
  <2> QED BY <2>1, <2>2 DEF OneTicket, TicketPending
<1>4. ASSUME UNCHANGED <<todo, tried>>
      PROVE  TicketInv'
  BY <1>4 DEF OneTicket, TicketPending
<1>5. ASSUME NEW c \in Cycles, ApplyReplies(c) \/ ClientGone(c)
      PROVE  TicketInv'
  BY <1>4, <1>5 DEF ApplyReplies, ClientGone, Disconnect
<1>6. CASE AutoApplyDone \/ StampReminder \/ WeekPasses \/ Expire
           \/ Recalculate \/ handleReject
  BY <1>4, <1>6 DEF AutoApplyDone, StampReminder, WeekPasses, Expire,
                    Recalculate, handleReject, dispatch
<1>7. ASSUME NEW t \in Tabs, HandleOwner(t) \/ Browser(t)
      PROVE  TicketInv'
  BY <1>4, <1>7, BrowserStep DEF HandleOwner, dispatch
<1>8. CASE UNCHANGED vars
  BY <1>4, <1>8 DEF vars, dispatch
<1> QED BY <1>1, <1>2, <1>3, <1>5, <1>6, <1>7, <1>8 DEF Next

----------------------------------------------------------------------------
LEMMA FlowInvariant == Spec => []FlowInv
<1>1. Init => FlowInv
  BY FlowInit
<1>2. FlowInv /\ [Next]_vars => FlowInv'
  BY ShapeKept, NothingEarlyKept, DecisionKept, TruthKept, SendingKept
     DEF FlowInv, DecisionInv, TruthInv
<1> QED BY <1>1, <1>2, PTL DEF Spec

(* No interleaving of the backend's writes, the dispatcher and the proxy   *)
(* leaves a variable outside its type; the states of the recommendation    *)
(* are those of the CRD's enumeration.                                     *)
THEOREM FlowTypes == Spec => []FlowTypeOK
<1>1. FlowInv => FlowTypeOK
  <2> SUFFICES ASSUME FlowInv PROVE FlowTypeOK
    OBVIOUS
  <2>1. \A c \in Cycles : /\ links[c].age \in 0 .. 2
                          /\ links[c].via \in {"nobody", "console", "worker"}
                          /\ \A y \in Types : tried[c][y] \in 0 .. 3
    BY DEF FlowInv, Shape, BackendShape, DispatchShape
  <2>2. known \subseteq 1 .. cycle
    BY DEF FlowInv, Shape, BackendShape, DispatchShape, NothingEarly
  <2>3. worker.doing \in {"nothing", "notify", "remind"}
    BY DEF FlowInv, Shape, BackendShape
  <2>4. \A t \in Tabs : tab[t].at \in Final \cup {"closed", "form", "posted",
                                                  "served"}
    BY DEF FlowInv, Shape, TabShape, TabRecord, Pages
  <2> QED BY <2>1, <2>2, <2>3, <2>4 DEF FlowInv, Shape, BackendShape,
                                        DispatchShape, FlowTypeOK
<1> QED BY <1>1, FlowInvariant, PTL

(* Whatever is lost or repeated between browser, proxy and backend, a page *)
(* that says approved, rejected or excluded stands for a decision that     *)
(* handleOwnerApprove or handleOwnerReject recorded for that link.         *)
THEOREM ResultsAreTruthful == Spec => []ResultTruthful
<1>1. FlowInv => ResultTruthful
  BY DEF FlowInv
<1> QED BY <1>1, FlowInvariant, PTL

(* However many tabs and console users race, the check of the state in the *)
(* handlers lets one decision through for each approval cycle.             *)
THEOREM CyclesDecidedOnce == Spec => []DecidedOnce
<1>1. FlowInv => DecidedOnce
  BY DEF FlowInv
<1> QED BY <1>1, FlowInvariant, PTL

(* Because a recommendation that awaits approval is not recalculated, who  *)
(* decides through the link of the running cycle decides on what the form  *)
(* showed.                                                                 *)
THEOREM OwnersDecideWhatWasShown == Spec => []DecidesWhatWasShown
<1>1. FlowInv => DecidesWhatWasShown
  BY DEF FlowInv
<1> QED BY <1>1, FlowInvariant, PTL

(* For every configuration of forwarders, an error or a cancelled request  *)
(* in the loop of sendFiltered skips no registered forwarder.              *)
THEOREM EveryForwarderCalled == Spec => []EveryChannelTried
<1>1. FlowInv => EveryChannelTried
  BY DEF FlowInv, Shape, BackendShape, Sending, EveryChannelTried
<1> QED BY <1>1, FlowInvariant, PTL

(* When ServiceNow is configured once, an approval cycle opens one ticket  *)
(* at most, with any number of reminders.                                  *)
THEOREM OneTicketPerCycle == ASSUME OneServiceNow PROVE Spec => []OneTicket
<1>1. Init => TicketInv
  BY FlowInit
<1>2. FlowInv /\ TicketInv /\ [Next]_vars => TicketInv'
  BY TicketKept, OneServiceNow DEF FlowInv
<1>3. TicketInv => OneTicket
  BY DEF TicketInv
<1> QED BY <1>1, <1>2, <1>3, FlowInvariant, PTL DEF Spec
=============================================================================
