--------------------------- MODULE MCApprovalFlow ---------------------------
(***************************************************************************)
(* Instances of ApprovalFlow for TLC.                                      *)
(***************************************************************************)
EXTENDS ApprovalFlow, TLC

Forwarder(type, enabled, fallback) ==
    [type |-> type, enabled |-> enabled, fallback |-> fallback]

(* One that can fail, one that opens tickets, one that is switched off, and *)
(* one whose type is misspelled.                                           *)
SomeForwarders ==
    <<Forwarder("slack", TRUE, FALSE), Forwarder("teams", FALSE, FALSE),
      Forwarder("email", TRUE, FALSE), Forwarder("servicenow", TRUE, FALSE)>>

Interchangeable == Permutations(Proposals) \cup Permutations(Tabs)

=============================================================================
