--------------------------- MODULE ApprovalProxy ---------------------------
(***************************************************************************)
(* The approval proxy: a process of its own between the owner's browser    *)
(* and the backend's internal API.  It keeps no state; what happens is in  *)
(* the browser's tabs, and in requests that are under way.                 *)
(*                                                                         *)
(* A link is the number of the approval cycle whose token it carries.      *)
(***************************************************************************)
EXTENDS Naturals

CONSTANT Tabs   \* tabs in which approval links are open

VARIABLE tab    \* what each tab shows, or waits for

Closed == [at |-> "closed", link |-> 0, shown |-> "none", action |-> "none",
           code |-> 0]

Actions == {"approve", "reject", "exclude"}

Final == {"approve", "reject", "exclude", "error"}

Show(t, page) ==
    tab' = [tab EXCEPT ![t].at = page, ![t].action = "none", ![t].code = 0]

(* The page is rendered from the recommendation as it is now, whatever its *)
(* state; the fetch may fail.                                              *)
handleGetApprove(t, link, valid, proposal) ==
    /\ tab[t].at \in Final \cup {"closed", "form"}
    /\ \/ /\ valid
          /\ tab' = [tab EXCEPT ![t] = [Closed EXCEPT !.at = "form",
                                                      !.link = link,
                                                      !.shown = proposal]]
       \/ tab' = [tab EXCEPT ![t] = [Closed EXCEPT !.at = "error"]]

(* The token is validated once more, when the form comes back.             *)
handlePostApprove(t, action, valid) ==
    /\ tab[t].at = "form"
    /\ tab' = [tab EXCEPT ![t].at = IF valid THEN "posted" ELSE "error",
                          ![t].action = action]

(* Mutant of Body: the key that handleOwnerReject reads.                   *)
BodyWithAction(action) ==
    CASE action = "exclude" -> [reason |-> "given", action |-> "exclude"]
      [] action = "reject" -> [reason |-> "given"]
      [] OTHER -> [restartOption |-> "later"]

(* The JSON the proxy sends.                                               *)
Body(action) ==
    CASE action = "exclude" -> [reason |-> "given", exclude |-> "true"]
      [] action = "reject" -> [reason |-> "given"]
      [] OTHER -> [restartOption |-> "later"]

Path(action) == IF action = "approve" THEN "owner-approve" ELSE "owner-reject"

(* Mutant of Result: the status code is not looked at.                     *)
ResultUnchecked(t) == tab[t].action

Result(t) == IF tab[t].code >= 400 THEN "error" ELSE tab[t].action

Answer(t) == tab[t].at = "served" /\ Show(t, Result(t))

(* The request does not reach the backend, or its answer does not come     *)
(* back.                                                                   *)
NoAnswer(t) == tab[t].at \in {"posted", "served"} /\ Show(t, "error")

(* The owner goes back to the form and may send it again.                  *)
Back(t) == tab[t].at \in Final /\ tab[t].link # 0 /\ Show(t, "form")

============================================================================
