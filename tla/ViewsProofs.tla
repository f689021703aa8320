---------------------------- MODULE ViewsProofs ----------------------------
(***************************************************************************)
(* Proofs about the read side of the REST API and the types of the whole   *)
(* process, for any users, objects and permissions.                        *)
(***************************************************************************)
EXTENDS BackendProofs

Places == {"idle", "asked", "admitted", "filtering", "answered", "forbidden"}

Items == [namespace: STRING, direction: STRING, state: {"pending", "applied"}]

Memories == UNION {[D -> BOOLEAN] : D \in SUBSET Namespaces}

ViewRecords ==
    [at: Places, kind: Kinds, list: Seq(Items), next: Nat,
     checked: Memories, shown: SUBSET Nat, could: SUBSET Namespaces,
     undisturbed: BOOLEAN]

(* What a request knows of its own list: the memory decides which of the   *)
(* objects before the next one are shown, and it holds no yes for a        *)
(* namespace that was never open.                                          *)
Faithful(v) ==
    /\ v.next \in 1 .. Len(v.list) + 1
    /\ v.shown \subseteq 1 .. v.next - 1
    /\ \A i \in DOMAIN v.list : v.list[i].namespace \in Namespaces
    /\ \A i \in 1 .. v.next - 1 :
        /\ v.list[i].namespace \in DOMAIN v.checked
        /\ i \in v.shown <=> v.checked[v.list[i].namespace] = TRUE
    /\ \A n \in DOMAIN v.checked : v.checked[n] = TRUE => n \in v.could
    /\ v.at \in {"asked", "admitted"} => v.list = <<>> /\ v.next = 1
    /\ v.at \in {"asked", "admitted"} => DOMAIN v.checked = {}
    /\ v.at = "answered" => v.next = Len(v.list) + 1

(* What a request knows of the cluster: as long as it is undisturbed, its  *)
(* list and its memory are right.                                          *)
Right(u, v) ==
    /\ Running(v) => Accessible(u) \subseteq v.could
    /\ v.at = "filtering" /\ v.undisturbed =>
        /\ v.list = Snapshot
        /\ \A n \in DOMAIN v.checked :
               v.checked[n] = TRUE <=> n \in Accessible(u)

ViewsInv ==
    /\ DOMAIN grants = Users
    /\ state \in [DOMAIN Objects -> {"pending", "applied"}]
    /\ view \in [Users -> ViewRecords]
    /\ \A u \in Users : Faithful(view[u]) /\ Right(u, view[u])

LEMMA EmptyView ==
    /\ NoView \in ViewRecords /\ Faithful(NoView) /\ ~Running(NoView)
    /\ NoView.at = "idle"
<1>1. <<>> \in Memories /\ DOMAIN <<>> = {}
  <2>1. <<>> \in [{} -> BOOLEAN]
    OBVIOUS
  <2> QED BY <2>1 DEF Memories
<1>2. <<>> \in Seq(Items) /\ Len(<<>>) = 0
  OBVIOUS
<1>3. NoView \in ViewRecords
  BY <1>1, <1>2 DEF NoView, ViewRecords, Places, Kinds
<1>4. Faithful(NoView)
  BY <1>1, <1>2 DEF NoView, Faithful
<1> QED BY <1>3, <1>4 DEF NoView, Running

LEMMA Elements ==
    ASSUME NEW S, NEW s \in Seq(S)
    PROVE  /\ DOMAIN s = 1 .. Len(s) /\ Len(s) \in Nat
           /\ \A i \in DOMAIN s : s[i] \in S
OBVIOUS

LEMMA SnapshotItems ==
    ASSUME state \in [DOMAIN Objects -> {"pending", "applied"}]
    PROVE  /\ Snapshot \in Seq(Items)
           /\ \A i \in DOMAIN Snapshot : Snapshot[i].namespace \in Namespaces
<1>1. Objects \in Seq([namespace: STRING, direction: STRING])
  BY ObjectsAssumption
<1>2. DOMAIN Objects = 1 .. Len(Objects) /\ Len(Objects) \in Nat
  BY <1>1
<1>3. \A i \in DOMAIN Objects :
          Objects[i] \in [namespace: STRING, direction: STRING]
  BY <1>1, Elements
<1>4. Snapshot \in [1 .. Len(Objects) -> Items]
  BY <1>2, <1>3 DEF Snapshot, Items
<1> QED BY <1>2, <1>4 DEF Snapshot, Namespaces

(* One turn of the loop.                                                   *)
LEMMA FilterTurn ==
    ASSUME NEW u \in Users, NEW v \in ViewRecords, Faithful(v), Right(u, v),
           v.at = "filtering", v.next <= Len(v.list), NEW fails \in BOOLEAN
    PROVE  LET w == filterByNamespaceAccess(u, v, fails)
           IN  w \in ViewRecords /\ Faithful(w) /\ Right(u, w)
<1> DEFINE ns == v.list[v.next].namespace
<1> DEFINE open == ns \in Accessible(u) /\ ~fails
<1> DEFINE known == IF ns \in DOMAIN v.checked THEN v.checked[ns]
                    ELSE canUserAccessNamespace(u, ns, fails)
<1> DEFINE memory == [n \in DOMAIN v.checked \cup {ns} |->
                         IF n = ns THEN known ELSE v.checked[n]]
<1> DEFINE w == filterByNamespaceAccess(u, v, fails)
<1>1. /\ v.next \in DOMAIN v.list /\ v.next \in Nat /\ ns \in Namespaces
      /\ v.list \in Seq(Items) /\ Len(v.list) \in Nat
  BY DEF ViewRecords, Faithful
<1>2. /\ v.checked \in [DOMAIN v.checked -> BOOLEAN]
      /\ DOMAIN v.checked \subseteq Namespaces
  BY DEF ViewRecords, Memories
<1>3. known \in BOOLEAN
  BY <1>2, Zenon DEF canUserAccessNamespace
<1>4. ns \notin DOMAIN v.checked => (known = TRUE <=> open)
  BY <1>1 DEF canUserAccessNamespace, Accessible
<1>5. memory \in [DOMAIN v.checked \cup {ns} -> BOOLEAN] /\ memory \in Memories
  <2>1. memory \in [DOMAIN v.checked \cup {ns} -> BOOLEAN]
    BY <1>2, <1>3
  <2> QED BY <1>1, <1>2, <2>1 DEF Memories
<1>6. /\ w = [v EXCEPT !.next = v.next + 1, !.checked = memory,
                        !.shown = IF known THEN v.shown \cup {v.next} ELSE v.shown,
                        !.undisturbed = v.undisturbed /\ ~fails]
  BY DEF filterByNamespaceAccess
<1>7. /\ w.at = "filtering" /\ w.kind = v.kind /\ w.list = v.list
      /\ w.next = v.next + 1 /\ w.could = v.could /\ w.checked = memory
      /\ w.shown = (IF known THEN v.shown \cup {v.next} ELSE v.shown)
      /\ w.undisturbed = (v.undisturbed /\ ~fails)
  BY <1>6 DEF ViewRecords
<1>8. w \in ViewRecords
  <2> DEFINE sh == IF known THEN v.shown \cup {v.next} ELSE v.shown
  <2> DEFINE un == v.undisturbed /\ ~fails
  <2>1. sh \in SUBSET Nat /\ v.next + 1 \in Nat
    BY <1>1 DEF ViewRecords
  <2>2. un \in BOOLEAN
    BY Zenon
  <2>3. w = [v EXCEPT !.next = v.next + 1, !.checked = memory, !.shown = sh,
                      !.undisturbed = un]
    BY <1>6
  <2> HIDE DEF sh, un, memory, w
  <2> QED BY <1>5, <2>1, <2>2, <2>3 DEF ViewRecords
<1> HIDE DEF w, memory, known, ns
<1>9. /\ \A n \in DOMAIN memory : n = ns \/ n \in DOMAIN v.checked
      /\ \A n \in DOMAIN v.checked : n \in DOMAIN memory
      /\ ns \in DOMAIN memory /\ memory[ns] = known
      /\ \A n \in DOMAIN v.checked : memory[n] = v.checked[n]
  BY DEF memory, known
<1>10. Faithful(w)
  <2>1. w.next \in 1 .. Len(w.list) + 1 /\ w.shown \subseteq 1 .. w.next - 1
    BY <1>1, <1>7 DEF Faithful
  <2>2. ASSUME NEW i \in 1 .. w.next - 1
        PROVE  /\ w.list[i].namespace \in DOMAIN w.checked
               /\ i \in w.shown <=> w.checked[w.list[i].namespace] = TRUE
    <3>1. CASE i = v.next
      BY <1>1, <1>3, <1>7, <1>9, <3>1 DEF Faithful, ns
    <3>2. CASE i # v.next
      <4>1. i \in 1 .. v.next - 1
        BY <1>1, <1>7, <2>2, <3>2
      <4>2. i \in w.shown <=> i \in v.shown
        BY <1>7, <3>2
      <4>3. /\ v.list[i].namespace \in DOMAIN v.checked
            /\ i \in v.shown <=> v.checked[v.list[i].namespace] = TRUE
        BY <4>1 DEF Faithful
      <4> QED BY <1>7, <1>9, <4>2, <4>3
    <3> QED BY <3>1, <3>2
  <2>3. ASSUME NEW n \in DOMAIN w.checked, w.checked[n] = TRUE
        PROVE  n \in w.could
    <3>1. CASE n \in DOMAIN v.checked
      BY <1>7, <1>9, <2>3, <3>1 DEF Faithful
    <3>2. CASE n \notin DOMAIN v.checked
      BY <1>4, <1>7, <1>9, <2>3, <3>2 DEF Right, Running
    <3> QED BY <3>1, <3>2
  <2> QED BY <1>7, <2>1, <2>2, <2>3 DEF Faithful
<1>11. Right(u, w)
  <2>1. ASSUME w.undisturbed
        PROVE  v.undisturbed /\ ~fails
    BY <1>7, <2>1
  <2>2. ASSUME w.undisturbed, NEW n \in DOMAIN w.checked
        PROVE  w.checked[n] = TRUE <=> n \in Accessible(u)
    <3>1. CASE n \in DOMAIN v.checked
      BY <1>7, <1>9, <2>1, <2>2, <3>1 DEF Right
    <3>2. CASE n \notin DOMAIN v.checked
      BY <1>4, <1>7, <1>9, <2>1, <2>2, <3>2
    <3> QED BY <3>1, <3>2
  <2> QED BY <1>7, <2>1, <2>2 DEF Right, Running
<1> QED BY <1>8, <1>10, <1>11 DEF w

-----------------------------------------------------------------------------
(* The steps of a request replace the record of its user by a sound one    *)
(* and change neither the permissions nor the recommendations.             *)
LEMMA OneView ==
    ASSUME ViewsInv, NEW u \in Users, NEW v \in ViewRecords,
           Faithful(v), Right(u, v),
           view' = [view EXCEPT ![u] = v], UNCHANGED <<grants, state>>
    PROVE  ViewsInv'
<1>1. /\ Snapshot' = Snapshot
      /\ \A w \in Users : Accessible(w)' = Accessible(w)
  BY DEF Snapshot, Accessible, canUserAccessNamespace, Allowed
<1>2. view' \in [Users -> ViewRecords]
  BY DEF ViewsInv
<1>3. \A w \in Users : view'[w] = IF w = u THEN v ELSE view[w]
  BY DEF ViewsInv
<1>4. ASSUME NEW w \in Users
      PROVE  Faithful(view[w])' /\ Right(w, view[w])'
  <2>1. Faithful(view'[w]) /\ Right(w, view'[w])
    BY <1>3 DEF ViewsInv
  <2> QED BY <1>1, <2>1 DEF Faithful, Right
<1> QED BY <1>2, <1>4 DEF ViewsInv

LEMMA RequestKeepsViews ==
    ASSUME ViewsInv, NEW u \in Users, ViewRequest(u)
    PROVE  ViewsInv'
<1> DEFINE v == view[u]
<1>1. v \in ViewRecords /\ Faithful(v) /\ Right(u, v)
  BY DEF ViewsInv
<1>2. UNCHANGED <<grants, state>>
  BY DEF ViewRequest, Ask, Admit, List, ListFails, Filter, Reply
<1>3. CASE \E kind \in Kinds : Ask(u, kind)
  <2>1. PICK kind \in Kinds : Ask(u, kind)
    BY <1>3
  <2> DEFINE w == [NoView EXCEPT !.at = "asked", !.kind = kind,
                                 !.could = Accessible(u)]
  <2>2. view' = [view EXCEPT ![u] = w]
    BY <2>1 DEF Ask
  <2>3. w \in ViewRecords
    BY EmptyView DEF ViewRecords, Places, Accessible
  <2>4. /\ w.at = "asked" /\ w.could = Accessible(u) /\ w.list = <<>>
        /\ w.next = 1 /\ w.checked = <<>> /\ w.shown = {}
    BY DEF NoView
  <2>5. DOMAIN <<>> = {} /\ Len(<<>>) = 0
    OBVIOUS
  <2>6. Faithful(w) /\ Right(u, w)
    BY <2>4, <2>5 DEF Faithful, Right
  <2> QED BY <1>2, <2>2, <2>3, <2>6, OneView
<1>4. CASE Admit(u)
  <2>1. PICK fails \in BOOLEAN :
            view' = [view EXCEPT ![u] =
                IF AuthMiddleware(u, "GET", Path(@.kind), fails) = "next"
                  THEN [@ EXCEPT !.at = "admitted"]
                  ELSE [@ EXCEPT !.at = "forbidden"]]
    BY <1>4, ReviewsFailAssumption DEF Admit, ReviewFailure
  <2>2. v.at = "asked"
    BY <1>4 DEF Admit
  <2>3. CASE AuthMiddleware(u, "GET", Path(v.kind), fails) = "next"
    <3> DEFINE w == [v EXCEPT !.at = "admitted"]
    <3>1. view' = [view EXCEPT ![u] = w]
      BY <2>1, <2>3
    <3>2. w \in ViewRecords
      BY <1>1 DEF ViewRecords, Places
    <3>3. Faithful(w) /\ Right(u, w)
      BY <1>1, <2>2 DEF ViewRecords, Faithful, Right, Running
    <3> QED BY <1>2, <3>1, <3>2, <3>3, OneView
  <2>4. CASE AuthMiddleware(u, "GET", Path(v.kind), fails) # "next"
    <3> DEFINE w == [v EXCEPT !.at = "forbidden"]
    <3>1. view' = [view EXCEPT ![u] = w]
      BY <2>1, <2>4
    <3>2. w \in ViewRecords
      BY <1>1 DEF ViewRecords, Places
    <3>3. Faithful(w) /\ Right(u, w)
      BY <1>1, <2>2 DEF ViewRecords, Faithful, Right, Running
    <3> QED BY <1>2, <3>1, <3>2, <3>3, OneView
  <2> QED BY <2>3, <2>4
<1>5. CASE List(u)
  <2> DEFINE w == [v EXCEPT !.at = "filtering", !.list = Snapshot]
  <2>1. v.at = "admitted" /\ view' = [view EXCEPT ![u] = w]
    BY <1>5 DEF List, ViewsInv
  <2>2. /\ Snapshot \in Seq(Items)
        /\ \A i \in DOMAIN Snapshot : Snapshot[i].namespace \in Namespaces
    BY SnapshotItems DEF ViewsInv
  <2>3. w \in ViewRecords
    BY <1>1, <2>2 DEF ViewRecords, Places
  <2>4. /\ w.at = "filtering" /\ w.list = Snapshot /\ w.next = v.next
        /\ w.checked = v.checked /\ w.shown = v.shown /\ w.could = v.could
    BY <1>1 DEF ViewRecords
  <2>5. /\ v.next = 1 /\ DOMAIN v.checked = {} /\ v.shown = {}
        /\ Len(Snapshot) \in Nat /\ Accessible(u) \subseteq v.could
    BY <1>1, <2>1, <2>2 DEF Faithful, Right, Running
  <2>6. Faithful(w) /\ Right(u, w)
    BY <2>2, <2>4, <2>5 DEF Faithful, Right
  <2> QED BY <1>2, <2>1, <2>3, <2>6, OneView
<1>6. CASE ListFails(u)
  <2>1. Right(u, NoView)
    BY EmptyView DEF Right
  <2> QED BY <1>2, <1>6, <2>1, EmptyView, OneView DEF ListFails
<1>7. CASE Filter(u)
  <2>1. PICK fails \in BOOLEAN :
            view' = [view EXCEPT ![u] = filterByNamespaceAccess(u, v, fails)]
    BY <1>7, ReviewsFailAssumption DEF Filter, ReviewFailure
  <2>2. v.at = "filtering" /\ v.next <= Len(v.list)
    BY <1>7 DEF Filter
  <2> QED BY <1>1, <1>2, <2>1, <2>2, FilterTurn, OneView
<1>8. CASE Reply(u)
  <2> DEFINE w == [v EXCEPT !.at = "answered"]
  <2>1. /\ v.at = "filtering" /\ v.next > Len(v.list)
        /\ view' = [view EXCEPT ![u] = w]
    BY <1>8 DEF Reply, ViewsInv
  <2>2. w \in ViewRecords
    BY <1>1 DEF ViewRecords, Places
  <2>3. Faithful(w) /\ Right(u, w)
    BY <1>1, <2>1 DEF ViewRecords, Faithful, Right, Running
  <2> QED BY <1>2, <2>1, <2>2, <2>3, OneView
<1> QED BY <1>3, <1>4, <1>5, <1>6, <1>7, <1>8 DEF ViewRequest

(* A change under way is held against every request that it may concern.   *)
LEMMA DisturbanceKeepsViews ==
    ASSUME ViewsInv, NEW u \in Users, Regrant(u) \/ Applied
    PROVE  ViewsInv'
<1>1. /\ DOMAIN grants' = Users
      /\ state' \in [DOMAIN Objects -> {"pending", "applied"}]
  BY DEF ViewsInv, Regrant, Applied
<1>2. ASSUME NEW w \in Users
      PROVE  /\ ~Running(view[w]) => view'[w] = view[w]
             /\ Running(view[w]) =>
                    \E c \in SUBSET Namespaces :
                       /\ Accessible(w)' \subseteq c
                       /\ view[w].could \subseteq c
                       /\ view'[w] = [view[w] EXCEPT !.undisturbed = FALSE,
                                                     !.could = c]
  <2>1. /\ view[w] \in ViewRecords
        /\ Running(view[w]) => Accessible(w) \subseteq view[w].could
    BY DEF ViewsInv, Right
  <2>2. CASE Regrant(u)
    <3>1. view'[w] = IF Running(view[w])
                       THEN [view[w] EXCEPT !.undisturbed = FALSE,
                                            !.could = @ \cup Accessible(w)']
                       ELSE view[w]
      BY <2>2 DEF Regrant, Disturb
    <3>2. Accessible(w)' \subseteq Namespaces
      BY DEF Accessible
    <3> QED BY <2>1, <3>1, <3>2 DEF ViewRecords
  <2>3. CASE Applied
    <3>1. Disturb(LAMBDA x : {}) /\ grants' = grants
      BY <2>3 DEF Applied
    <3>2. view'[w] = IF Running(view[w])
                       THEN [view[w] EXCEPT !.undisturbed = FALSE,
                                            !.could = @ \cup {}]
                       ELSE view[w]
      BY <3>1 DEF Disturb
    <3>3. Accessible(w)' = Accessible(w)
      BY <3>1 DEF Accessible, canUserAccessNamespace, Allowed
    <3> QED BY <2>1, <3>2, <3>3 DEF ViewRecords
  <2> QED BY <2>2, <2>3
<1>3. ASSUME NEW w \in Users
      PROVE  /\ view'[w] \in ViewRecords
             /\ Faithful(view[w])' /\ Right(w, view[w])'
  <2>1. view[w] \in ViewRecords /\ Faithful(view[w])
    BY DEF ViewsInv
  <2>2. CASE Running(view[w])
    <3>1. PICK c \in SUBSET Namespaces :
              /\ Accessible(w)' \subseteq c /\ view[w].could \subseteq c
              /\ view'[w] = [view[w] EXCEPT !.undisturbed = FALSE, !.could = c]
      BY <1>2, <2>2
    <3>2. view'[w] \in ViewRecords
      BY <2>1, <3>1 DEF ViewRecords
    <3>3. /\ view'[w].undisturbed = FALSE /\ view'[w].could = c
          /\ view'[w].at = view[w].at /\ view'[w].list = view[w].list
          /\ view'[w].next = view[w].next /\ view'[w].shown = view[w].shown
          /\ view'[w].checked = view[w].checked
      BY <2>1, <3>1 DEF ViewRecords
    <3>4. Faithful(view[w])'
      BY <2>1, <3>1, <3>3 DEF Faithful
    <3>5. Right(w, view[w])'
      BY <3>1, <3>3 DEF Right
    <3> QED BY <3>2, <3>4, <3>5
  <2>3. CASE ~Running(view[w])
    <3>1. view'[w] = view[w] /\ view[w].at # "filtering"
      BY <1>2, <2>3 DEF Running
    <3> QED BY <2>1, <2>3, <3>1 DEF Faithful, Right, Running
  <2> QED BY <2>2, <2>3
<1>4. view' \in [Users -> ViewRecords]
  <2>1. view' = [w \in Users |-> view'[w]]
    BY DEF Regrant, Applied, Disturb
  <2> QED BY <1>3, <2>1
<1> QED BY <1>1, <1>3, <1>4 DEF ViewsInv

(* The steps of the process that are about something else.                 *)
LEMMA ViewsStep == ViewsInv /\ [Next]_vars => ViewsInv'
<1> SUFFICES ASSUME ViewsInv, [Next]_vars PROVE ViewsInv'
  OBVIOUS
<1>1. CASE UNCHANGED reading
  <2>1. /\ Snapshot' = Snapshot /\ view' = view /\ grants' = grants
        /\ state' = state
        /\ \A w \in Users : Accessible(w)' = Accessible(w)
    BY <1>1 DEF reading, Snapshot, Accessible, canUserAccessNamespace, Allowed
  <2> QED BY <2>1 DEF ViewsInv, Faithful, Right
<1>2. CASE Crashing
  <2>1. view' = [u \in Users |-> NoView] /\ UNCHANGED <<grants, state>>
    BY <1>2 DEF Crashing
  <2>2. ~Running(NoView) /\ NoView.at # "filtering"
    BY EmptyView
  <2> QED BY <2>1, <2>2, EmptyView DEF ViewsInv, Faithful, Right
<1>3. CASE Browsing
  <2>1. Readers \subseteq Users
    BY ReadersAssumption
  <2>2. CASE \E u \in Readers : ViewRequest(u)
    BY <2>1, <2>2, RequestKeepsViews
  <2>3. CASE (\E u \in Readers : Regrant(u)) \/ (Applied /\ Users # {})
    BY <2>1, <2>3, DisturbanceKeepsViews
  <2>4. CASE Applied /\ Users = {}
    BY <2>4 DEF Applied, Disturb, ViewsInv
  <2> QED BY <1>3, <2>2, <2>3, <2>4 DEF Browsing
<1> QED BY <1>1, <1>2, <1>3 DEF Next, Booting, Editing, vars

THEOREM ViewsAlways == Spec => []ViewsInv
<1>1. Init => ViewsInv
  <2> SUFFICES ASSUME Init PROVE ViewsInv
    OBVIOUS
  <2>1. /\ grants = [u \in Users |-> Granted]
        /\ state = [i \in DOMAIN Objects |-> "pending"]
        /\ view = [u \in Users |-> NoView]
    BY DEF Init
  <2> QED BY <2>1, EmptyView DEF ViewsInv, Right
<1> QED BY <1>1, ViewsStep, PTL DEF Spec

(* Every namespace in an answer was open to the user at some moment of the *)
(* request, whatever went wrong with the reviews in between.               *)
THEOREM OnlyTheAllowedIsShown == Spec => []ShownWasAllowed
<1>1. ViewsInv => ShownWasAllowed
  BY DEF ViewsInv, Faithful, ShownWasAllowed
<1> QED BY <1>1, ViewsAlways, PTL

(* An answer shows a namespace whole or not at all, though permissions may *)
(* change and reviews may fail while the list is filtered.                 *)
THEOREM NamespacesAreWhole == Spec => []WholeNamespaces
<1>1. ViewsInv => WholeNamespaces
  <2> SUFFICES ASSUME ViewsInv, NEW u \in Users, view[u].at = "answered"
               PROVE  \A i, j \in DOMAIN view[u].list :
                          view[u].list[i].namespace = view[u].list[j].namespace
                             => (i \in view[u].shown <=> j \in view[u].shown)
    BY DEF WholeNamespaces
  <2>1. view[u].list \in Seq(Items)
    BY DEF ViewsInv, ViewRecords
  <2>2. /\ DOMAIN view[u].list = 1 .. Len(view[u].list)
        /\ Len(view[u].list) \in Nat
    BY <2>1, Elements
  <2> QED BY <2>2 DEF ViewsInv, Faithful
<1> QED BY <1>1, ViewsAlways, PTL

----------------------------------------------------------------------------

Visible(u) == {i \in DOMAIN Objects : Objects[i].namespace \in Accessible(u)}

(* The answer that the cluster as it is now gives to a user.               *)
Truth(u, k) ==
    Answer([NoView EXCEPT !.kind = k, !.list = Snapshot, !.shown = Visible(u)])

(* Nobody was told anything that they would not be told again.             *)
SeenInv ==
    /\ DOMAIN seen = Users
    /\ \A u \in Users : DOMAIN seen[u] = Kinds
    /\ \A u \in Users, k \in Kinds : seen[u][k] \in {<<>>, <<Truth(u, k)>>}

LEMMA AnswerOf ==
    ASSUME NEW v, NEW w, v.kind = w.kind, v.list = w.list, v.shown = w.shown
    PROVE  Answer(v) = Answer(w)
BY DEF Answer, handleOverview, Overview, handleListVMs,
       handleListRecommendations, Candidate

(* An undisturbed request that has come to the end of its list shows what  *)
(* there is to see.                                                        *)
LEMMA UndisturbedIsTrue ==
    ASSUME ViewsInv, NEW u \in Users, view[u].at = "filtering",
           view[u].undisturbed, view[u].next > Len(view[u].list)
    PROVE  Answer(view[u]) = Truth(u, view[u].kind)
<1>1. /\ view[u] \in ViewRecords /\ Faithful(view[u])
      /\ view[u].list = Snapshot
      /\ \A n \in DOMAIN view[u].checked :
             view[u].checked[n] = TRUE <=> n \in Accessible(u)
  BY DEF ViewsInv, Right
<1>2. /\ DOMAIN view[u].list = 1 .. Len(view[u].list)
      /\ Len(view[u].list) \in Nat
  BY <1>1, Elements DEF ViewRecords
<1>3. view[u].next = Len(view[u].list) + 1
  BY <1>1, <1>2 DEF Faithful, ViewRecords
<1>4. /\ DOMAIN Objects = 1 .. Len(view[u].list)
      /\ \A i \in DOMAIN Objects :
             view[u].list[i].namespace = Objects[i].namespace
  BY <1>1, <1>2 DEF Snapshot
<1>5. view[u].shown = Visible(u)
  BY <1>1, <1>2, <1>3, <1>4 DEF Faithful, Visible
<1> DEFINE w == [NoView EXCEPT !.kind = view[u].kind, !.list = Snapshot,
                               !.shown = Visible(u)]
<1>6. w.kind = view[u].kind /\ w.list = Snapshot /\ w.shown = Visible(u)
  BY DEF NoView
<1>7. Answer(w) = Truth(u, view[u].kind)
  BY DEF Truth
<1> HIDE DEF w
<1> QED BY <1>1, <1>5, <1>6, <1>7, AnswerOf

LEMMA SeenStep == ViewsInv /\ SeenInv /\ [Next]_vars => SeenInv'
<1> SUFFICES ASSUME ViewsInv, SeenInv, [Next]_vars PROVE SeenInv'
  OBVIOUS
<1>1. ASSUME UNCHANGED <<grants, state>>, NEW u \in Users, NEW k \in Kinds
      PROVE  Truth(u, k)' = Truth(u, k)
  <2>1. Snapshot' = Snapshot /\ Visible(u)' = Visible(u)
    BY <1>1 DEF Snapshot, Visible, Accessible, canUserAccessNamespace, Allowed
  <2> QED BY <2>1 DEF Truth
<1>2. CASE UNCHANGED <<grants, state, seen>>
  BY <1>1, <1>2 DEF SeenInv
<1>3. CASE \E u \in Users : Reply(u)
  <2>1. PICK u \in Users : Reply(u)
    BY <1>3
  <2>2. CASE ~view[u].undisturbed
    BY <1>2, <2>1, <2>2 DEF Reply
  <2>3. CASE view[u].undisturbed
    <3>1. Answer(view[u]) = Truth(u, view[u].kind) /\ view[u].kind \in Kinds
      BY <2>1, <2>3, UndisturbedIsTrue DEF Reply, ViewsInv, ViewRecords
    <3>2. seen' = [seen EXCEPT ![u][view[u].kind] = <<Answer(view[u])>>]
      BY <2>1, <2>3 DEF Reply
    <3>3. UNCHANGED <<grants, state>>
      BY <2>1 DEF Reply
    <3> QED BY <1>1, <3>1, <3>2, <3>3 DEF SeenInv
  <2> QED BY <2>2, <2>3
<1>4. CASE seen' = [u \in Users |-> NothingSeen]
  BY <1>4 DEF SeenInv, NothingSeen
<1>5. CASE Browsing
  <2>1. Readers \subseteq Users
    BY ReadersAssumption
  <2>2. CASE \E u \in Readers : ViewRequest(u)
    BY <1>2, <1>3, <2>1, <2>2
       DEF ViewRequest, Ask, Admit, List, ListFails, Filter
  <2>3. CASE (\E u \in Readers : Regrant(u)) \/ Applied
    BY <1>4, <2>3 DEF Regrant, Applied, Disturb
  <2> QED BY <1>5, <2>2, <2>3 DEF Browsing
<1> QED BY <1>2, <1>5 DEF Next, Booting, Crashing, Editing, vars, reading

(* The overview and the lists tell the same user the same story as long as *)
(* nothing changes and nothing fails: each of them tells the truth.        *)
THEOREM PagesTellOneStory == Spec => []PagesAgree
<1>1. Init => SeenInv
  BY DEF Init, SeenInv, NothingSeen
<1>2. ViewsInv /\ SeenInv => PagesAgree
  <2> SUFFICES ASSUME ViewsInv, SeenInv, NEW u \in Users
               PROVE  LET told(k) == seen[u][k][1] IN
        /\ (seen[u]["overview"] # <<>> /\ seen[u]["recommendations"] # <<>>)
              => told("overview")[1].total
                    = Cardinality(DOMAIN told("recommendations"))
        /\ (seen[u]["overview"] # <<>> /\ seen[u]["candidates"] # <<>>)
              => told("overview")[1].downsize
                    = Cardinality(DOMAIN told("candidates"))
        /\ (seen[u]["vms"] # <<>> /\ seen[u]["recommendations"] # <<>>)
              => Range(told("vms"))
                    = {item.namespace : item \in Range(told("recommendations"))}
    BY DEF PagesAgree
  <2> DEFINE some == Visible(u)
             cands == {i \in some : Candidate(Snapshot[i])}
  <2>1. Truth(u, "overview")[1].total = Cardinality(some)
    BY DEF Truth, Answer, handleOverview, Overview, NoView
  <2>2. Truth(u, "overview")[1].downsize = Cardinality(cands)
    BY DEF Truth, Answer, handleOverview, Overview, NoView
  <2>3. Truth(u, "recommendations") = [i \in some |-> Snapshot[i]]
    BY DEF Truth, Answer, handleListRecommendations, NoView
  <2>4. Truth(u, "candidates") = [i \in cands |-> Snapshot[i]]
    BY DEF Truth, Answer, handleListRecommendations, NoView
  <2>5. Truth(u, "vms") = [i \in some |-> Snapshot[i].namespace]
    BY DEF Truth, Answer, handleListVMs, NoView
  <2>6. \A k \in Kinds : seen[u][k] # <<>> => seen[u][k][1] = Truth(u, k)
    BY DEF SeenInv
  <2>7. {"overview", "recommendations", "candidates", "vms"} \subseteq Kinds
    BY DEF Kinds
  <2>8. Range([i \in some |-> Snapshot[i].namespace])
          = {item.namespace : item \in Range([i \in some |-> Snapshot[i]])}
    BY DEF Range
  <2> HIDE DEF some, cands
  <2> QED BY <2>1, <2>2, <2>3, <2>4, <2>5, <2>6, <2>7, <2>8
<1> QED BY <1>1, <1>2, SeenStep, ViewsAlways, PTL DEF Spec

----------------------------------------------------------------------------

(* The types of the process and of the policy.  That the stored policy is  *)
(* valid rests on the form not changing between its validation and the     *)
(* update.                                                                 *)
ProcessInv ==
    /\ phase \in Phases
    /\ crashes \in 0 .. MaxCrashes
    /\ activity \in Activities

Sound(p) == p = NoPolicy \/ (p \in Specs /\ p.lookbackDays \in 1 .. 365)

FormsInv ==
    /\ Sound(policy) /\ Sound(cached)
    /\ \A u \in Users :
        /\ page[u].form \in Specs
        /\ saving[u] # "none" => Valid(page[u].form)

LEMMA ProcessStep == ProcessInv /\ [Next]_vars => ProcessInv'
<1> SUFFICES ASSUME ProcessInv, [Next]_vars PROVE ProcessInv'
  OBVIOUS
<1>1. CASE Booting
  BY <1>1 DEF Booting, Boot, Launch, CreateManager, ReadEnvironment, Exit,
              LoadSigningKey, LoadChannels, StartManager, Elected, ProcessInv,
              Phases
<1>2. CASE Crashing
  BY <1>2, MaxCrashesAssumption
     DEF Crashing, Crash, Exit, ProcessInv, Phases
<1>3. CASE UNCHANGED <<phase, crashes, activity>>
  BY <1>3 DEF ProcessInv
<1> QED BY <1>1, <1>2, <1>3 DEF Next, Browsing, Editing, vars, process

LEMMA DefaultsAreSpecs ==
    /\ DefaultPolicySpec \in Specs /\ defaultSpec \in Specs
    /\ Sound(DefaultPolicySpec)
BY LookbacksAssumption DEF DefaultPolicySpec, defaultSpec, Specs, Sound

LEMMA FormsStep == PagesShowPolicy /\ FormsInv /\ [Next]_vars => FormsInv'
<1> SUFFICES ASSUME PagesShowPolicy, FormsInv, [Next]_vars PROVE FormsInv'
  OBVIOUS
<1>t. /\ page \in [Users -> Pages] /\ saving \in [Users -> Calls]
      /\ \A u \in Users : page[u] \in Pages
  BY DEF PagesShowPolicy, PagesTyped
<1>1. CASE UNCHANGED editing
  BY <1>1 DEF editing, FormsInv
<1>2. ASSUME NEW u \in Users, OpenPage(u) PROVE FormsInv'
  <2>1. PICK spec \in Specs, old, blind \in BOOLEAN :
            page' = [page EXCEPT ![u] = Filled(spec, old, blind)]
    <3>1. PICK readFails \in BOOLEAN, requestFails \in BOOLEAN :
            page' = [page EXCEPT ![u] =
              IF ~requestFails
                 /\ AuthMiddleware(u, "GET", PolicyPath, FALSE) = "next"
                THEN handleGetPolicy(readFails)
                ELSE Filled(defaultSpec, FALSE, TRUE)]
      BY <1>2 DEF OpenPage
    <3>2. (cached = NoPolicy \/ cached \in Specs) /\ behind \in BOOLEAN
      BY DEF FormsInv, Sound, PagesShowPolicy, PagesTyped
    <3> QED BY <3>1, <3>2, DefaultsAreSpecs DEF handleGetPolicy
  <2>2. Filled(spec, old, blind).form = spec
    BY DEF Filled
  <2>3. saving[u] = "none" /\ UNCHANGED <<policy, cached, saving>>
    BY <1>2 DEF OpenPage
  <2> QED BY <1>t, <2>1, <2>2, <2>3 DEF FormsInv
<1>3. ASSUME NEW u \in Users, Edit(u) PROVE FormsInv'
  <2>1. PICK f \in Fields, spec \in Specs :
            page' = [page EXCEPT ![u].form = spec, ![u].edited = @ \cup {f}]
    BY <1>3 DEF Edit
  <2>2. \A v \in Users : page'[v].form = IF v = u THEN spec ELSE page[v].form
    BY <1>t, <2>1 DEF Pages
  <2>3. saving[u] = "none" /\ UNCHANGED <<policy, cached, saving>>
    BY <1>3 DEF Edit
  <2> QED BY <2>2, <2>3 DEF FormsInv
<1>4. ASSUME NEW u \in Users, SavePage(u) PROVE FormsInv'
  BY <1>4, <1>t DEF SavePage, FormsInv
<1>5. ASSUME NEW u \in Users, handleUpdatePolicy(u) PROVE FormsInv'
  <2>1. Sound(page[u].form)
    <3>1. page[u].form \in Specs /\ Valid(page[u].form)
      BY <1>5 DEF handleUpdatePolicy, FormsInv
    <3>2. page[u].form.lookbackDays \in Nat
      BY <3>1, LookbacksAssumption DEF Specs
    <3>3. PICK d \in Nat : d = page[u].form.lookbackDays /\ d > 0 /\ d <= 365
      BY <3>1, <3>2 DEF Valid
    <3>4. d \in 1 .. 365
      BY <3>3
    <3> QED BY <3>1, <3>3, <3>4, Zenon DEF Sound
  <2>2. Sound(policy') /\ cached' = cached
    BY <1>5, <2>1 DEF handleUpdatePolicy, FormsInv
  <2>3. \A v \in Users : page'[v].form = page[v].form
    BY <1>5, <1>t DEF handleUpdatePolicy, Filled, Pages
  <2>4. \A v \in Users : saving'[v] # "none" => saving[v] # "none"
    BY <1>5, <1>t DEF handleUpdatePolicy
  <2> QED BY <2>2, <2>3, <2>4 DEF FormsInv
<1>6. CASE Deliver
  BY <1>6 DEF Deliver, FormsInv
<1>7. CASE Crashing
  <2>1. \A v \in Users : page'[v].form = page[v].form /\ saving'[v] = "none"
    BY <1>7, <1>t DEF Crashing, Pages
  <2> QED BY <1>7, <2>1 DEF Crashing, FormsInv
<1> QED BY <1>1, <1>2, <1>3, <1>4, <1>5, <1>6, <1>7
        DEF Next, Booting, Browsing, Editing, PageRequest, vars

(* The process, the requests and the policy keep their types, and the      *)
(* stored policy is always a valid one: no order of edits, saves, late     *)
(* caches and crashes stores a form that was not validated.                *)
THEOREM BackendTypes == Spec => []TypeOK
<1>1. Init => ProcessInv
  BY MaxCrashesAssumption DEF Init, ProcessInv, Phases
<1>2. Init => FormsInv
  <2> SUFFICES ASSUME Init PROVE FormsInv
    OBVIOUS
  <2>1. /\ policy \in {NoPolicy, DefaultPolicySpec} /\ cached = policy
        /\ page = [u \in Users |-> NoPage]
        /\ saving = [u \in Users |-> "none"]
    BY DEF Init
  <2>2. NoPage.form = defaultSpec
    BY DEF NoPage
  <2>3. Sound(NoPolicy)
    BY DEF Sound
  <2> QED BY <2>1, <2>2, <2>3, DefaultsAreSpecs DEF FormsInv
<1>3. BuiltAsConfigured /\ ProcessInv /\ ViewsInv /\ PagesShowPolicy /\ FormsInv
        => TypeOK
  <2> SUFFICES ASSUME BuiltAsConfigured, ProcessInv, ViewsInv, PagesShowPolicy,
                      FormsInv
               PROVE  TypeOK
    OBVIOUS
  <2>1. StartupTypeOK
    BY DEF BuiltAsConfigured, ProcessInv, StartupTypeOK
  <2>2. ViewsTypeOK
    <3>1. \A u \in Users : view[u] \in ViewRecords /\ Faithful(view[u])
      BY DEF ViewsInv
    <3>2. \A m \in Memories : DOMAIN m \subseteq Namespaces
      BY DEF Memories
    <3> QED BY <3>1, <3>2
            DEF ViewsInv, ViewsTypeOK, ViewRecords, Places, Faithful
  <2>3. PolicyTypeOK
    <3>1. ASSUME NEW u \in Users
          PROVE  page[u] \in [open: BOOLEAN, form: Specs, edited: SUBSET Fields,
                              old: BOOLEAN, blind: BOOLEAN]
      BY DEF PagesShowPolicy, PagesTyped, FormsInv, Pages
    <3> QED BY <3>1
            DEF PagesShowPolicy, PagesTyped, FormsInv, Sound, PolicyTypeOK
  <2> QED BY <2>1, <2>2, <2>3 DEF TypeOK, ProcessInv
<1> QED BY <1>1, <1>2, <1>3, BuiltInit, BuiltStep, PagesInit, PagesStep,
           ProcessStep, FormsStep, ViewsAlways, PTL DEF Spec
=============================================================================
