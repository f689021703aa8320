------------------------------ MODULE Startup ------------------------------
(***************************************************************************)
(* The life of the operator's process, as main() runs it: it creates the   *)
(* manager, reads the environment, the signing key and the notification    *)
(* configuration, builds the two controllers and the REST API server from  *)
(* what it found, and starts the manager, which waits for the leader lease *)
(* before it fills its caches and lets the API server listen.  Whatever    *)
(* main() cannot read ends the process; Kubernetes starts it again with    *)
(* the same configuration.                                                 *)
(*                                                                         *)
(* The secrets of the notification channels are read through the manager's *)
(* client.  That client reads from the caches, and a cache that has not    *)
(* been started answers every read with an error, so a channel that needs  *)
(* a secret cannot be built before the manager runs.                       *)
(***************************************************************************)
EXTENDS Naturals, Deployments

CONSTANTS
    EnabledTypes,    \* the sets of forwarders a configuration may enable
    SecretNamespaces,\* the namespaces in which the forwarders' secrets are
    MaxCrashes       \* how often the process may be killed

VARIABLES
    config,          \* what the process finds: it never changes
    phase,           \* how far main() is
    built,           \* what it has put together so far
    crashes          \* how often it was killed

process == <<config, phase, built, crashes>>

ASSUME MaxCrashesAssumption == MaxCrashes \in Nat

(* The forwarders there are; SMTP without a login and with one.            *)
ASSUME EnabledTypesAssumption ==
    EnabledTypes \subseteq SUBSET {"slack", "teams", "smtp", "smtpLogin", "snmp",
                                  "pagerduty", "rocketchat", "servicenow"}

(* The notification configuration: no file, one that cannot be parsed or   *)
(* lacks a field a forwarder requires, or a complete one.                  *)
Files == {"none", "malformed", "complete"}

(* Demo mode, a signing key, a host for the approval route, and the files  *)
(* that are named but cannot be read: the certificates of the manager's    *)
(* servers, the key, and the certificate of the API server.                *)
Configurations ==
    {c \in [demo: BOOLEAN, key: BOOLEAN, host: BOOLEAN,
            unreadable: SUBSET {"certificates", "key", "serving"},
            file: Files, forwarders: EnabledTypes \cup {{}}] :
        /\ "key" \in c.unreadable => c.key
        /\ c.forwarders # {} => c.file = "complete"}

Phases == {"down", "flags", "environment", "approval", "channels",
           "manager", "electing", "serving"}

(* What the controllers and the API server are given.                      *)
Parts == [demo: BOOLEAN, tokens: BOOLEAN, resolver: BOOLEAN,
          notifier: BOOLEAN, host: BOOLEAN]

NoParts == [demo |-> FALSE, tokens |-> FALSE, resolver |-> FALSE,
            notifier |-> FALSE, host |-> FALSE]

StartupTypeOK ==
    /\ config \in Configurations
    /\ phase \in Phases
    /\ built \in Parts
    /\ crashes \in 0 .. MaxCrashes

Serving == phase = "serving"

Exit ==
    /\ phase' = "down"
    /\ built' = NoParts

(* The kubelet starts the container, which reads its flags.                *)
Launch ==
    /\ phase = "down"
    /\ phase' = "flags"
    /\ UNCHANGED <<config, built, crashes>>

(* The certificate watchers, the manager and the clients.                  *)
CreateManager ==
    /\ phase = "flags"
    /\ IF "certificates" \in config.unreadable
         THEN Exit
         ELSE phase' = "environment" /\ UNCHANGED built
    /\ UNCHANGED <<config, crashes>>

(* Demo mode without a key makes one up, and a host to go with it.         *)
ReadEnvironment ==
    /\ phase = "environment"
    /\ phase' = "approval"
    /\ LET madeUp == config.demo /\ ~config.key
       IN  built' = [NoParts EXCEPT !.demo = config.demo,
                                    !.tokens = madeUp,
                                    !.host = config.host \/ madeUp]
    /\ UNCHANGED <<config, crashes>>

(* Mutant of LoadSigningKey: the notification configuration is read in any *)
(* case.                                                                   *)
LoadSigningKeyThenChannels ==
    /\ phase = "approval"
    /\ IF "key" \in config.unreadable
         THEN Exit
         ELSE /\ phase' = "channels"
              /\ built' = [built EXCEPT !.tokens = @ \/ config.key,
                                        !.resolver = config.key]
    /\ UNCHANGED <<config, crashes>>

(* Only a process with a key goes on to the notification configuration.    *)
LoadSigningKey ==
    /\ phase = "approval"
    /\ \/ /\ ~config.key
          /\ phase' = "manager"
          /\ UNCHANGED built
       \/ /\ config.key /\ "key" \notin config.unreadable
          /\ phase' = "channels"
          /\ built' = [built EXCEPT !.tokens = TRUE, !.resolver = TRUE]
       \/ /\ "key" \in config.unreadable
          /\ Exit
    /\ UNCHANGED <<config, crashes>>

(* k8sSecretGetter: the secret is there and the cache has been started.    *)
GetSecretData(namespace) == namespace \in SecretNamespaces /\ Serving

(* The namespaces in which each constructor looks for its secret.  SMTP    *)
(* has one when it logs in, SNMP never.                                    *)
NewSlackForwarder == {"ovro-system"}

NewTeamsForwarder == {"ovro-system"}

NewSMTPForwarder(login) == IF login THEN {"ovro-system"} ELSE {}

NewSNMPForwarder == {}

NewPagerDutyForwarder == {"default"}

NewRocketChatForwarder == {"default"}

NewServiceNowForwarder == {"default"}

SecretsRead(type) ==
    CASE type = "slack"      -> NewSlackForwarder
      [] type = "teams"      -> NewTeamsForwarder
      [] type = "smtp"       -> NewSMTPForwarder(FALSE)
      [] type = "smtpLogin"  -> NewSMTPForwarder(TRUE)
      [] type = "snmp"       -> NewSNMPForwarder
      [] type = "pagerduty"  -> NewPagerDutyForwarder
      [] type = "rocketchat" -> NewRocketChatForwarder
      [] type = "servicenow" -> NewServiceNowForwarder

(* Every enabled forwarder is built, or none is.                           *)
NewDispatcher ==
    \A type \in config.forwarders :
        \A namespace \in SecretsRead(type) : GetSecretData(namespace)

(* Mutant of LoadChannels: a missing file ends the process.                *)
LoadChannelsOrExit ==
    /\ phase = "channels"
    /\ IF config.file = "complete" /\ NewDispatcher
         THEN /\ phase' = "manager"
              /\ built' = [built EXCEPT !.notifier = TRUE]
         ELSE Exit
    /\ UNCHANGED <<config, crashes>>

LoadChannels ==
    /\ phase = "channels"
    /\ \/ /\ config.file = "none"
          /\ phase' = "manager"
          /\ UNCHANGED built
       \/ /\ config.file = "complete" /\ NewDispatcher
          /\ phase' = "manager"
          /\ built' = [built EXCEPT !.notifier = TRUE]
       \/ /\ config.file = "malformed" \/ ~NewDispatcher
          /\ Exit
    /\ UNCHANGED <<config, crashes>>

(* The controllers, the health checks and the API server are registered    *)
(* and the manager is started.                                             *)
StartManager ==
    /\ phase = "manager"
    /\ phase' = "electing"
    /\ UNCHANGED <<config, built, crashes>>

(* The lease is won and the caches are filled: everything runs, unless the *)
(* API server cannot listen, which ends the manager.                       *)
Elected ==
    /\ phase = "electing"
    /\ IF "serving" \in config.unreadable
         THEN Exit
         ELSE phase' = "serving" /\ UNCHANGED built
    /\ UNCHANGED <<config, crashes>>

(* The process is killed, or loses its lease, which ends it as well.       *)
Crash ==
    /\ phase # "down"
    /\ crashes < MaxCrashes
    /\ crashes' = crashes + 1
    /\ Exit
    /\ UNCHANGED config

Boot ==
    \/ Launch
    \/ CreateManager
    \/ ReadEnvironment
    \/ LoadSigningKey
    \/ LoadChannels
    \/ StartManager
    \/ Elected

----------------------------------------------------------------------------

(* The deployment, in the sense of the model of the controllers and the    *)
(* handlers, that a process amounts to.                                    *)
DeploymentOf(parts) ==
    [demo |-> parts.demo, key |-> parts.resolver,
     notifications |-> parts.notifier, host |-> parts.host]

(* Whatever the flags, the environment and the files: a process that       *)
(* serves is put together as one of the deployments that the model of the  *)
(* controllers and handlers covers, with a token manager exactly where     *)
(* that model has one.                                                     *)
ServesAKnownDeployment ==
    Serving =>
        /\ DeploymentOf(built) \in Deployments
        /\ built.tokens = (built.demo \/ built.resolver)

(* What main() can make a process of: the files that are named can be      *)
(* read, and there is no channel with a secret next to a key.              *)
Startable ==
    /\ config.unreadable = {}
    /\ config.key =>
        /\ config.file # "malformed"
        /\ config.forwarders \subseteq {"smtp", "snmp"}

(* However often it is killed on the way, a process that is given such a   *)
(* configuration serves again and again.  Any other never does: it ends    *)
(* each time it is started, so a channel with a secret, which is looked    *)
(* for in a cache that has not been started, is never used.                *)
ServesIffStartable ==
    /\ Startable => []<>Serving
    /\ ~Startable => []~Serving

(* The forwarders look for their secrets where the secrets are.            *)
SecretsWhereDocumented ==
    phase = "channels" =>
        \A type \in config.forwarders :
            SecretsRead(type) \subseteq SecretNamespaces

============================================================================
