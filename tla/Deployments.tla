---------------------------- MODULE Deployments ----------------------------
(***************************************************************************)
(* The ways in which main() can put the operator together: demo mode, a    *)
(* signing key for approval tokens, notification channels, and the host    *)
(* name of the approval route.  Channels are looked at only when there is  *)
(* a key, and demo mode makes up a key and a host when it is given none.   *)
(***************************************************************************)

Deployments ==
    {d \in [demo: BOOLEAN, key: BOOLEAN, notifications: BOOLEAN,
            host: BOOLEAN] :
        /\ d.notifications => d.key
        /\ d.demo /\ ~d.key => d.host}

============================================================================
