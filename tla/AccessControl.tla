--------------------------- MODULE AccessControl ---------------------------
(***************************************************************************)
(* Who may call what on the REST API.  Every route but the internal ones   *)
(* goes through AuthMiddleware, which asks Kubernetes who the caller is    *)
(* and whether they hold a permission worked out from the HTTP method and  *)
(* the path alone; the handlers that answer with objects of several        *)
(* namespaces ask again for each namespace.                                *)
(*                                                                         *)
(* A path is the sequence of its segments.  A permission is the verb,      *)
(* resource and namespace of a SubjectAccessReview, all of them in the     *)
(* operator's API group; namespace "" stands for the whole cluster.        *)
(***************************************************************************)
EXTENDS Naturals, Sequences

CONSTANT
    Users        \* the people who use the console

VARIABLE
    grants       \* the permissions each of them holds

Api(path) == <<"api", "v1">> \o path

Permission(verb, resource, namespace) ==
    [verb |-> verb, resource |-> resource, namespace |-> namespace]

httpMethodToVerb(method) ==
    CASE method = "GET"            -> "get"
      [] method \in {"POST", "PUT"} -> "update"
      [] method = "DELETE"         -> "delete"

extractNamespaceFromPath(path) ==
    IF Len(path) >= 5 /\ path[3] \in {"recommendations", "vms"}
      THEN path[4]
      ELSE ""

resourceFromPath(path) ==
    CASE path[3] = "policy" -> "rightsizingpolicies"
      [] path[3] = "vms"    -> "virtualmachines"
      [] OTHER              -> "rightsizingrecommendations"

(* Kubernetes' answer to a review: permissions add up, and one held for    *)
(* the whole cluster is held in every namespace.                           *)
Allowed(user, permission) ==
    \E p \in grants[user] :
        /\ p.verb = permission.verb
        /\ p.resource = permission.resource
        /\ p.namespace \in {"", permission.namespace}

(* The answers AuthMiddleware may give to a caller whose token is good:    *)
(* "next" hands the request to the handler.  A review that fails, of the   *)
(* token or of the permission, is a refusal, as a bad token would be.      *)
AuthMiddleware(user, method, path, reviewFails) ==
    IF /\ ~reviewFails
       /\ Allowed(user, Permission(httpMethodToVerb(method),
                                   resourceFromPath(path),
                                   extractNamespaceFromPath(path)))
      THEN "next"
      ELSE "forbidden"

(* Mutant of canUserAccessNamespace: a review that fails allows.           *)
canUserAccessNamespaceFailsOpen(user, namespace, reviewFails) ==
    \/ reviewFails
    \/ Allowed(user, Permission("get", "rightsizingrecommendations",
                                namespace))

(* The second question: may the user read recommendations there?           *)
canUserAccessNamespace(user, namespace, reviewFails) ==
    /\ ~reviewFails
    /\ Allowed(user, Permission("get", "rightsizingrecommendations",
                                namespace))

============================================================================
