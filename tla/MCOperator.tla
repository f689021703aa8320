----------------------------- MODULE MCOperator -----------------------------
(***************************************************************************)
(* Instances of Operator for TLC: what is deployed, and the requests that  *)
(* people make in each.                                                    *)
(***************************************************************************)
EXTENDS Operator

Deployed(demo, key, notifications, host) ==
    [demo |-> demo, key |-> key, notifications |-> notifications,
     host |-> host]

Plain == Deployed(FALSE, FALSE, FALSE, FALSE)
Signed == Deployed(FALSE, TRUE, FALSE, TRUE)
Notifying == Deployed(FALSE, TRUE, TRUE, TRUE)

Op(verb) == [verb |-> verb, restart |-> "later"]
OpAt(verb, restart) == [verb |-> verb, restart |-> restart]

RaceOps == {OpAt("apply", "future"), OpAt("approve", "future"), Op("revert"),
            Op("reject"), Op("ownerExclude")}

RevertOps == {Op("revert")}

ApprovalOps == {Op("apply"), OpAt("approve", "future"), OpAt("approve", "due"),
                Op("revert")}

ApplyOps == {Op("apply")}

NowOps == {OpAt("apply", "now")}

RejectOps == {Op("apply"), Op("reject")}

=============================================================================
