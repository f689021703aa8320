----------------------------- MODULE MCBackend -----------------------------
(* Small instances of Backend for TLC.                                     *)
EXTENDS Backend

CONSTANTS u1, u2

(* Up to two channels, of every type.                                      *)
MCTypes == {S \in SUBSET {"slack", "teams", "smtp", "smtpLogin", "snmp",
                          "pagerduty", "rocketchat", "servicenow"} :
                Cardinality(S) \in 1 .. 2}
Documented == {"ovro-system"}

MCUsers == {u1, u2}
OneUser == {u1}

Object(namespace, direction) ==
    [namespace |-> namespace, direction |-> direction]

(* Two namespaces, the objects of one of them around that of the other.    *)
MCObjects == <<Object("a", "downsize"), Object("b", "downsize"),
               Object("a", "upsize")>>

Reads(namespace) ==
    Permission("get", "rightsizingrecommendations", namespace)

ReadsVms == Permission("get", "virtualmachines", "")

MCGrantable == {Reads(""), Reads("a"), Reads("b")}
MCGranted == {Reads(""), ReadsVms} \cup PolicyPermissions

============================================================================
