--------------------------- MODULE Notifications ---------------------------
(***************************************************************************)
(* The notification dispatcher and its forwarders.  A dispatch runs in the *)
(* goroutine of the caller (a REST request or the reconcile) and calls the *)
(* forwarders one after the other; it is about the approval cycle whose    *)
(* link it carries.                                                        *)
(***************************************************************************)
EXTENDS Naturals, Sequences

CONSTANTS
    Forwarders,  \* the configured forwarders: [type, enabled, fallback]
    OwnerKind,   \* what the owner label looks like: a "channel" (#...), an
                 \* "email", a name with a capital C in front ("Cname"), or
                 \* another "name"
    MaxCycles    \* bound on approval cycles

VARIABLES
    todo,        \* positions in Forwarders still to be called, by cycle
    tried,       \* calls made of each type, for each cycle (up to 3)
    cancelled,   \* cycles whose request went away while notices were sent
    known        \* cycles whose link somebody has got

dispatch == <<todo, tried, cancelled, known>>

Cycles == 1 .. MaxCycles

Types == {"slack", "teams", "smtp", "snmp", "pagerduty", "rocketchat",
          "servicenow"}

ASSUME NotificationsAssumption ==
    /\ Forwarders \in Seq([type : STRING, enabled : BOOLEAN,
                           fallback : BOOLEAN])
    /\ OwnerKind \in {"channel", "email", "Cname", "name"}
    /\ MaxCycles \in Nat \ {0}

(* NewDispatcher: disabled forwarders and unknown types are left out.  One *)
(* that cannot be built ends the process at its start.                     *)
Registered ==
    {k \in DOMAIN Forwarders :
        Forwarders[k].enabled /\ Forwarders[k].type \in Types}

(* Where a message can end up: with the owner, in a shared channel, ticket *)
(* or incident, or nowhere.  fallback: for slack and teams a channel to    *)
(* fall back to, for smtp a fixed recipient instead of the owner.          *)

Fallback(f) == IF f.fallback THEN {"shared"} ELSE {"error"}

(* What starts with # or C is taken for a channel and used as it is, an    *)
(* address is looked up twice.                                             *)
SlackSend(f) ==
    CASE OwnerKind \in {"channel", "Cname"} -> {"owner"}
      [] OwnerKind = "email" -> {"owner"} \cup Fallback(f)
      [] OTHER -> Fallback(f)

(* A channel needs the webhook, everything else is looked up.              *)
TeamsSend(f) ==
    IF OwnerKind = "channel" THEN Fallback(f) ELSE {"owner"} \cup Fallback(f)

SMTPSend(f) == IF f.fallback THEN {"shared"} ELSE {"owner"}

(* The trap is only logged.                                                *)
SNMPSend(f) == {"nowhere"}

PagerDutySend(f) == {"shared"}

RocketChatSend(f) == {"shared"}

ServiceNowSend(f) == {"shared"}

Outcomes(f) ==
    CASE f.type = "slack" -> SlackSend(f) \cup {"error"}
      [] f.type = "teams" -> TeamsSend(f) \cup {"error"}
      [] f.type = "smtp" -> SMTPSend(f) \cup {"error"}
      [] f.type = "snmp" -> SNMPSend(f)
      [] f.type = "pagerduty" -> PagerDutySend(f) \cup {"error"}
      [] f.type = "rocketchat" -> RocketChatSend(f) \cup {"error"}
      [] f.type = "servicenow" -> ServiceNowSend(f) \cup {"error"}

(* smtp and snmp do not look at the context.                               *)
UsesContext(f) == f.type \notin {"smtp", "snmp"}

----------------------------------------------------------------------------
SendAll(c) == todo' = [todo EXCEPT ![c] = Registered]

(* Mutant of SendAllExcept: nobody is left out.                            *)
SendAllExceptNone(c, types) == todo' = [todo EXCEPT ![c] = Registered]

SendAllExcept(c, types) ==
    todo' = [todo EXCEPT ![c] = {k \in Registered :
                                     Forwarders[k].type \notin types}]

(* Mutant of AfterSend: the first error ends the loop.                     *)
AfterSendStrict(rest, outcome) == IF outcome = "error" THEN {} ELSE rest

(* An error is collected and the loop goes on.                             *)
AfterSend(rest, outcome) == rest

First(ks) == CHOOSE k \in ks : \A j \in ks : k <= j

(* One turn of the loop in sendFiltered, in the order of registration.     *)
SendNext(c) ==
    /\ todo[c] # {}
    /\ LET k == First(todo[c])
           f == Forwarders[k]
       IN  \E outcome \in IF c \in cancelled /\ UsesContext(f)
                          THEN {"error"} ELSE Outcomes(f) :
               /\ todo' = [todo EXCEPT ![c] = AfterSend(@ \ {k}, outcome)]
               /\ tried' = [tried EXCEPT ![c][f.type] =
                                IF @ < 3 THEN @ + 1 ELSE @]
               /\ known' = IF outcome \in {"owner", "shared"}
                           THEN known \cup {c} ELSE known
    /\ UNCHANGED cancelled

(* The client of the request that sends the notices disconnects.           *)
Disconnect(c) ==
    /\ todo[c] # {} /\ c \notin cancelled
    /\ cancelled' = cancelled \cup {c}
    /\ UNCHANGED <<todo, tried, known>>

============================================================================
