------------------------------- MODULE Views -------------------------------
(***************************************************************************)
(* The read side of the REST API: the list of recommendations, with and    *)
(* without a query, the overview and the list of VMs.  Each of them is one *)
(* cluster-wide list, taken at one moment, that is then filtered object by *)
(* object: the first object of a namespace costs a SubjectAccessReview,    *)
(* and the answer is remembered for the rest of the request.  Permissions  *)
(* and recommendations may change, and reviews may fail, at every step in  *)
(* between.                                                                *)
(*                                                                         *)
(* What is left of a list after filtering is kept as the set of its        *)
(* positions in the list.                                                  *)
(***************************************************************************)
EXTENDS AccessControl, FiniteSets, Functions

CONSTANTS
    Objects,         \* the VMs and their recommendations, in list order
    Grantable,       \* the permissions an administrator gives and takes
    ReviewsFail      \* may the API server fail to answer a review?

VARIABLES
    state,           \* the state of each recommendation, in the cache
    view,            \* the latest request of each user
    seen             \* what each user was told since things last changed

reading == <<grants, state, view, seen>>

ASSUME ObjectsAssumption ==
    Objects \in Seq([namespace: STRING, direction: STRING])
ASSUME ReviewsFailAssumption == ReviewsFail \in BOOLEAN

Kinds == {"recommendations", "candidates", "overview", "vms"}

(* "candidates" is the list queried for direction downsize, state pending. *)
Path(kind) ==
    Api(CASE kind = "overview" -> <<"overview">>
          [] kind = "vms"      -> <<"vms">>
          [] OTHER             -> <<"recommendations">>)

NoView == [at |-> "idle", kind |-> "overview", list |-> <<>>, next |-> 1,
           checked |-> <<>>, shown |-> {}, could |-> {}, undisturbed |-> TRUE]

NothingSeen == [k \in Kinds |-> <<>>]

Namespaces == {Objects[i].namespace : i \in DOMAIN Objects}

Accessible(user) == {n \in Namespaces : canUserAccessNamespace(user, n, FALSE)}

Running(v) == v.at \notin {"idle", "answered", "forbidden"}

ViewsTypeOK ==
    /\ DOMAIN grants = Users
    /\ state \in [DOMAIN Objects -> {"pending", "applied"}]
    /\ \A u \in Users :
        /\ view[u].at \in {"idle", "asked", "admitted", "filtering",
                           "answered", "forbidden"}
        /\ view[u].kind \in Kinds
        /\ view[u].next \in 1 .. Len(view[u].list) + 1
        /\ view[u].shown \subseteq 1 .. view[u].next - 1
        /\ DOMAIN view[u].checked \subseteq Namespaces
        /\ view[u].could \subseteq Namespaces

ReviewFailure == IF ReviewsFail THEN BOOLEAN ELSE {FALSE}

Ask(u, kind) ==
    /\ ~Running(view[u])
    /\ view' = [view EXCEPT ![u] = [NoView EXCEPT !.at = "asked",
                                                  !.kind = kind,
                                                  !.could = Accessible(u)]]
    /\ UNCHANGED <<grants, state, seen>>

Admit(u) ==
    /\ view[u].at = "asked"
    /\ \E fails \in ReviewFailure :
        view' = [view EXCEPT ![u] =
            IF AuthMiddleware(u, "GET", Path(@.kind), fails) = "next"
              THEN [@ EXCEPT !.at = "admitted"]
              ELSE [@ EXCEPT !.at = "forbidden"]]
    /\ UNCHANGED <<grants, state, seen>>

Snapshot ==
    [i \in DOMAIN Objects |->
        [namespace |-> Objects[i].namespace,
         direction |-> Objects[i].direction, state |-> state[i]]]

List(u) ==
    /\ view[u].at = "admitted"
    /\ view' = [view EXCEPT ![u].at = "filtering",
                            ![u].list = Snapshot]
    /\ UNCHANGED <<grants, state, seen>>

(* The list itself fails: 500.                                             *)
ListFails(u) ==
    /\ view[u].at = "admitted"
    /\ view' = [view EXCEPT ![u] = NoView]
    /\ UNCHANGED <<grants, state, seen>>

(* Mutant of filterByNamespaceAccess: every object is reviewed again.      *)
FilteredWithoutMemory(u, v, fails) ==
    LET ns    == v.list[v.next].namespace
        known == canUserAccessNamespace(u, ns, fails)
    IN  [v EXCEPT !.next = @ + 1,
                  !.shown = IF known THEN @ \cup {v.next} ELSE @,
                  !.undisturbed = @ /\ ~fails]

(* One turn of the loop over the list, with the memory of the namespaces.  *)
filterByNamespaceAccess(u, v, fails) ==
    LET ns    == v.list[v.next].namespace
        known == IF ns \in DOMAIN v.checked
                   THEN v.checked[ns]
                   ELSE canUserAccessNamespace(u, ns, fails)
    IN  [v EXCEPT !.next = @ + 1,
                  !.checked = [n \in DOMAIN @ \cup {ns} |->
                                  IF n = ns THEN known ELSE @[n]],
                  !.shown = IF known THEN @ \cup {v.next} ELSE @,
                  !.undisturbed = @ /\ ~fails]

Filter(u) ==
    /\ view[u].at = "filtering"
    /\ view[u].next <= Len(view[u].list)
    /\ \E fails \in ReviewFailure :
        view' = [view EXCEPT ![u] = filterByNamespaceAccess(u, @, fails)]
    /\ UNCHANGED <<grants, state, seen>>

Candidate(item) == item.direction = "downsize" /\ item.state = "pending"

(* The numbers of the overview page, of the objects it is given; what was  *)
(* applied counts as applied today.                                        *)
Overview(v) ==
    LET Count(Test(_)) == Cardinality({i \in v.shown : Test(v.list[i])})
    IN  [total    |-> Cardinality(v.shown),
         downsize |-> Count(Candidate),
         upsize   |-> Count(LAMBDA item : item.direction = "upsize"
                                          /\ item.state = "pending"),
         applied  |-> Count(LAMBDA item : item.state = "applied")]

(* Mutant of handleOverview: what was applied still counts as a downsize.  *)
handleOverviewInAnyState(v) ==
    <<[Overview(v) EXCEPT !.downsize =
        Cardinality({i \in v.shown : v.list[i].direction = "downsize"})]>>

handleOverview(v) == <<Overview(v)>>

handleListRecommendations(v) ==
    [i \in {j \in v.shown : v.kind = "candidates" => Candidate(v.list[j])} |->
        v.list[i]]

handleListVMs(v) == [i \in v.shown |-> v.list[i].namespace]

Answer(v) ==
    CASE v.kind = "overview" -> handleOverview(v)
      [] v.kind = "vms"      -> handleListVMs(v)
      [] OTHER               -> handleListRecommendations(v)

Reply(u) ==
    /\ view[u].at = "filtering"
    /\ view[u].next > Len(view[u].list)
    /\ view' = [view EXCEPT ![u].at = "answered"]
    /\ seen' = IF view[u].undisturbed
                 THEN [seen EXCEPT ![u][view[u].kind] =
                          <<Answer(view[u])>>]
                 ELSE seen
    /\ UNCHANGED <<grants, state>>

ViewRequest(u) ==
    \/ \E kind \in Kinds : Ask(u, kind)
    \/ Admit(u)
    \/ List(u)
    \/ ListFails(u)
    \/ Filter(u)
    \/ Reply(u)

(* What people were told belongs to the past, and a request under way sees *)
(* two states of the cluster.                                              *)
Disturb(could(_)) ==
    /\ view' = [u \in Users |->
                   IF Running(view[u])
                     THEN [view[u] EXCEPT !.undisturbed = FALSE,
                                          !.could = @ \cup could(u)]
                     ELSE view[u]]
    /\ seen' = [u \in Users |-> NothingSeen]

(* An administrator gives or takes a permission.                           *)
Regrant(u) ==
    \E p \in Grantable :
        /\ grants' = [grants EXCEPT ![u] = IF p \in @ THEN @ \ {p}
                                                      ELSE @ \cup {p}]
        /\ Disturb(LAMBDA w : Accessible(w)')
        /\ UNCHANGED state

(* A recommendation is applied, by whomever.                               *)
Applied ==
    \E i \in DOMAIN Objects :
        /\ state[i] = "pending"
        /\ state' = [state EXCEPT ![i] = "applied"]
        /\ Disturb(LAMBDA w : {})
        /\ UNCHANGED grants

----------------------------------------------------------------------------

(* An answer shows a namespace whole or not at all: permissions that       *)
(* change and reviews that fail while the list is filtered never leave     *)
(* some of a namespace's objects in the answer and others out.             *)
WholeNamespaces ==
    \A u \in Users : view[u].at = "answered" =>
        \A i, j \in DOMAIN view[u].list :
            view[u].list[i].namespace = view[u].list[j].namespace =>
                (i \in view[u].shown <=> j \in view[u].shown)

(* Every namespace in an answer was open to the user at some moment of the *)
(* request, whatever went wrong with the reviews in between.               *)
ShownWasAllowed ==
    \A u \in Users : \A i \in view[u].shown :
        view[u].list[i].namespace \in view[u].could

(* The overview and the lists tell the same user the same story: as long   *)
(* as nothing changes and nothing fails, the overview counts as many       *)
(* objects as the list shows and as many candidates as the query for       *)
(* candidates returns, and the lists of VMs and of recommendations are of  *)
(* the same namespaces.                                                    *)
PagesAgree ==
    \A u \in Users : LET told(k) == seen[u][k][1] IN
        /\ (seen[u]["overview"] # <<>> /\ seen[u]["recommendations"] # <<>>)
              => told("overview")[1].total
                    = Cardinality(DOMAIN told("recommendations"))
        /\ (seen[u]["overview"] # <<>> /\ seen[u]["candidates"] # <<>>)
              => told("overview")[1].downsize
                    = Cardinality(DOMAIN told("candidates"))
        /\ (seen[u]["vms"] # <<>> /\ seen[u]["recommendations"] # <<>>)
              => Range(told("vms"))
                    = {item.namespace : item \in Range(told("recommendations"))}

============================================================================
