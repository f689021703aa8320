------------------------------ MODULE Backend ------------------------------
(***************************************************************************)
(* The operator's process and the people who use its console: a request is *)
(* served only while the process serves, and ends with it.  What people do *)
(* with the recommendations themselves is the subject of Operator.         *)
(*                                                                         *)
(* The three activities have no state in common but the process and the    *)
(* permissions, so a behaviour is about one of them: the process starts    *)
(* from any configuration, or, from one that works, people look at their   *)
(* recommendations or edit the policy.                                     *)
(***************************************************************************)
EXTENDS Startup, Views, PolicyPages

CONSTANTS
    Activities,      \* what the behaviours are about
    Readers,         \* the users who look at recommendations
    Granted          \* the permissions everyone begins with

ASSUME ReadersAssumption == Readers \subseteq Users

VARIABLE
    activity         \* what this behaviour is about

vars == <<process, reading, editing, activity>>

Working == [demo |-> FALSE, key |-> TRUE, host |-> TRUE, unreadable |-> {},
            file |-> "none", forwarders |-> {}]

PolicyPermissions ==
    {Permission(verb, "rightsizingpolicies", "") : verb \in {"get", "update"}}

TypeOK ==
    /\ StartupTypeOK
    /\ ViewsTypeOK
    /\ PolicyTypeOK
    /\ activity \in Activities

Init ==
    /\ activity \in Activities
    /\ config \in IF activity = "start" THEN Configurations ELSE {Working}
    /\ phase = "down"
    /\ built = NoParts
    /\ crashes = 0
    /\ grants = [u \in Users |-> Granted]
    /\ state = [i \in DOMAIN Objects |-> "pending"]
    /\ view = [u \in Users |-> NoView]
    /\ seen = [u \in Users |-> NothingSeen]
    /\ policy \in IF activity = "edit" THEN {NoPolicy, DefaultPolicySpec}
                                       ELSE {DefaultPolicySpec}
    /\ cached = policy
    /\ behind = FALSE
    /\ page = [u \in Users |-> NoPage]
    /\ saving = [u \in Users |-> "none"]

Booting ==
    /\ Boot
    /\ UNCHANGED <<reading, editing, activity>>

(* The requests under way are lost, the pages stay open in the browsers,   *)
(* and the caches will be filled anew.                                     *)
Crashing ==
    /\ Crash
    /\ view' = [u \in Users |-> NoView]
    /\ page' = [u \in Users |->
                   [page[u] EXCEPT !.old = @ \/ saving[u] = "overtaken"]]
    /\ saving' = [u \in Users |-> "none"]
    /\ cached' = policy
    /\ behind' = FALSE
    /\ UNCHANGED <<grants, state, seen, policy, activity>>

(* What people and the cluster do while the process is down could as well  *)
(* happen before or after, so everything happens while it serves.          *)
Browsing ==
    /\ activity = "browse"
    /\ Serving
    /\ \/ \E u \in Readers : ViewRequest(u)
       \/ \E u \in Readers : Regrant(u)
       \/ Applied
    /\ UNCHANGED <<process, editing, activity>>

Editing ==
    /\ activity = "edit"
    /\ Serving
    /\ \/ \E u \in Users : PageRequest(u)
       \/ \E u \in Users : Edit(u)
       \/ Deliver
    /\ UNCHANGED <<process, reading, activity>>

Next ==
    \/ Booting
    \/ Crashing
    \/ Browsing
    \/ Editing

(* Kubernetes starts a container that has ended, main() goes on from step  *)
(* to step, and a lease that nobody renews can be won.                     *)
Spec == Init /\ [][Next]_vars /\ WF_vars(Booting)

============================================================================
