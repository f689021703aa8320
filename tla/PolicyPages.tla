---------------------------- MODULE PolicyPages ----------------------------
(***************************************************************************)
(* The cluster's RightsizingPolicy and the pages on which it is edited.    *)
(* A page asks for the policy once, shows a form, and sends the whole form *)
(* back when the user saves.  Both handlers read the policy from the       *)
(* cache: the one that answers the page falls back to the defaults on any  *)
(* error, and so does the page; the one that saves writes over the whole   *)
(* spec with the version it has just read, so that only a save during the  *)
(* call itself, or a cache that is behind, makes it fail.                  *)
(*                                                                         *)
(* Of the fields, two stand for all: the lookback, which is validated, and *)
(* the switch for the auto mode, which is not.  A form does not change     *)
(* while it is being saved.                                                *)
(***************************************************************************)
EXTENDS AccessControl

CONSTANTS
    Lookbacks        \* the lookbacks users type, in days

VARIABLES
    policy,          \* the stored policy, or NoPolicy
    cached,          \* the policy in the manager's cache
    behind,          \* is the cache behind the stored policy?
    page,            \* the form on each user's page
    saving           \* each user's call of handleUpdatePolicy

editing == <<policy, cached, behind, page, saving>>

(* Among them are the defaults, which a form shows first.                  *)
ASSUME LookbacksAssumption ==
    Lookbacks \subseteq Nat /\ {14, 30} \subseteq Lookbacks

Specs == [lookbackDays: Lookbacks, autoMode: BOOLEAN]

(* The defaults of the server, and those of the page itself.               *)
DefaultPolicySpec == [lookbackDays |-> 30, autoMode |-> FALSE]

defaultSpec == [lookbackDays |-> 14, autoMode |-> FALSE]

NoPolicy == [lookbackDays |-> 0, autoMode |-> FALSE]

(* A page knows its form; which fields the user changed; whether the       *)
(* policy it was filled from has been replaced since; and whether it was   *)
(* filled with the defaults because the policy could not be read.          *)
NoPage == [open |-> FALSE, form |-> defaultSpec, edited |-> {},
           old |-> FALSE, blind |-> FALSE]

Fields == DOMAIN DefaultPolicySpec

(* A call that has not begun, one that has read the latest version of the  *)
(* policy, one that has read an older one from the cache, and one during   *)
(* which another call has saved.                                           *)
Calls == {"none", "latest", "older", "overtaken"}

(* Mutant of Valid: every form is taken.                                   *)
ValidAlways(spec) == TRUE

Valid(spec) == spec.lookbackDays > 0 /\ spec.lookbackDays <= 365

PolicyTypeOK ==
    /\ \A p \in {policy, cached} :
        p = NoPolicy \/ (p \in Specs /\ p.lookbackDays \in 1 .. 365)
    /\ behind \in BOOLEAN
    /\ page \in [Users -> [open: BOOLEAN, form: Specs, edited: SUBSET Fields,
                           old: BOOLEAN, blind: BOOLEAN]]
    /\ saving \in [Users -> Calls]

PolicyPath == Api(<<"policy">>)

Filled(spec, isOld, isBlind) ==
    [open |-> TRUE, form |-> spec, edited |-> {}, old |-> isOld,
     blind |-> isBlind]

(* The answer to a page: what the cache holds, or the defaults.            *)
handleGetPolicy(fails) ==
    IF fails \/ cached = NoPolicy
      THEN Filled(DefaultPolicySpec, FALSE, TRUE)
      ELSE Filled(cached, behind, FALSE)

(* A page is opened.  When the request is refused or fails, it shows its   *)
(* own defaults.                                                           *)
OpenPage(u) ==
    /\ saving[u] = "none"
    /\ \E readFails, requestFails \in BOOLEAN :
        page' = [page EXCEPT ![u] =
            IF ~requestFails
               /\ AuthMiddleware(u, "GET", PolicyPath, FALSE) = "next"
              THEN handleGetPolicy(readFails)
              ELSE Filled(defaultSpec, FALSE, TRUE)]
    /\ UNCHANGED <<policy, cached, behind, saving>>

(* The user changes a field; only the last change of each counts.  What is *)
(* changed during a call is not part of the call, as if changed after it.  *)
Edit(u) ==
    /\ page[u].open
    /\ saving[u] = "none"
    /\ \E f \in Fields \ page[u].edited, spec \in Specs :
        /\ spec # page[u].form
        /\ \A g \in Fields \ {f} : spec[g] = page[u].form[g]
        /\ page' = [page EXCEPT ![u].form = spec,
                                ![u].edited = @ \cup {f}]
    /\ UNCHANGED <<policy, cached, behind, saving>>

(* The first half of handleUpdatePolicy: the caller is reviewed, the form  *)
(* validated, and the policy read.  A refusal of any kind leaves the page  *)
(* as it is.                                                               *)
SavePage(u) ==
    /\ page[u].open
    /\ saving[u] = "none"
    /\ AuthMiddleware(u, "PUT", PolicyPath, FALSE) = "next"
    /\ Valid(page[u].form)
    /\ cached # NoPolicy
    /\ saving' = [saving EXCEPT ![u] = IF behind THEN "older"
                                                 ELSE "latest"]
    /\ UNCHANGED <<policy, cached, behind, page>>

(* Mutant of Update: the version is not compared.                          *)
UpdateAlways(u) == TRUE

(* The update compares the version of the policy that was read.            *)
Update(u) == saving[u] = "latest"

(* The second half: the whole spec becomes the form's, or the call fails.  *)
(* A page is out of date once another page's save precedes its own.        *)
handleUpdatePolicy(u) ==
    /\ saving[u] # "none"
    /\ IF Update(u)
         THEN /\ policy' = page[u].form
              /\ behind' = TRUE
              /\ saving' = [v \in Users |->
                               IF v = u \/ saving[v] = "none"
                                 THEN "none"
                                 ELSE "overtaken"]
              /\ page' = [v \in Users |->
                  IF v = u THEN Filled(page[v].form, FALSE, FALSE)
                  ELSE IF page[v].open /\ saving[v] = "none"
                    THEN [page[v] EXCEPT !.old = TRUE]
                    ELSE page[v]]
         ELSE /\ saving' = [saving EXCEPT ![u] = "none"]
              /\ page' = [page EXCEPT ![u].old =
                             @ \/ saving[u] = "overtaken"]
              /\ UNCHANGED <<policy, behind>>
    /\ UNCHANGED cached

PageRequest(u) ==
    \/ OpenPage(u)
    \/ SavePage(u)
    \/ handleUpdatePolicy(u)

(* The cache hears of the latest policy.                                   *)
Deliver ==
    /\ behind
    /\ cached' = policy
    /\ behind' = FALSE
    /\ UNCHANGED <<policy, page, saving>>

----------------------------------------------------------------------------

(* The end of a call that changes only what its user changed, or that      *)
(* comes from a page filled from no policy or from an old one.             *)
SavesEdits(u) ==
    /\ saving[u] # "none" /\ saving'[u] = "none"
    /\ \A f \in Fields : policy'[f] # policy[f] =>
        f \in page[u].edited \/ page[u].old \/ page[u].blind

(* A save changes only what its user changed, except when it comes from a  *)
(* page that was filled from no policy at all, or from one that had been   *)
(* replaced before the user saved: a policy that is replaced during the    *)
(* call makes the call fail.                                               *)
UneditedFieldsSurvive ==
    [][policy' # policy => \E u \in Users : SavesEdits(u)]_editing

============================================================================
