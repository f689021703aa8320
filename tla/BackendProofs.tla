--------------------------- MODULE BackendProofs ---------------------------
(***************************************************************************)
(* Proofs about the process and the policy pages, for any users, sets of   *)
(* forwarders, lookbacks and number of crashes.                            *)
(***************************************************************************)
EXTENDS Backend, TLAPS

----------------------------------------------------------------------------
(* What main() has put together at each phase, compared with what it was   *)
(* configured with.                                                        *)
BuiltAsConfigured ==
    LET madeUp == config.demo /\ ~config.key IN
    /\ config \in Configurations
    /\ built \in Parts
    /\ phase \in {"approval", "channels", "manager", "electing", "serving"} =>
        /\ built.demo = config.demo
        /\ built.host = (config.host \/ madeUp)
        /\ built.notifier => built.resolver
    /\ phase = "approval" =>
        /\ built.tokens = madeUp
        /\ ~built.resolver
    /\ phase = "channels" => config.key
    /\ phase \in {"channels", "manager", "electing", "serving"} =>
        /\ built.tokens = (madeUp \/ config.key)
        /\ built.resolver = config.key

LEMMA BuiltInit == Init => BuiltAsConfigured
  <1> SUFFICES ASSUME Init PROVE BuiltAsConfigured
      OBVIOUS
  <1>1. config \in Configurations
    <2>1. Working \in Configurations
      BY DEF Configurations, Working, Files
    <2> QED BY <2>1 DEF Init
  <1>2. built \in Parts /\ phase = "down"
    BY DEF Init, NoParts, Parts
  <1> QED BY <1>1, <1>2 DEF BuiltAsConfigured

(* The steps of main() keep what they have built in line with the          *)
(* configuration.                                                          *)
LEMMA BuiltBoot == BuiltAsConfigured /\ Boot => BuiltAsConfigured'
  <1> SUFFICES ASSUME BuiltAsConfigured, Boot PROVE BuiltAsConfigured'
      OBVIOUS
  <1>c. config' = config /\ config \in Configurations
    BY DEF BuiltAsConfigured, Boot, Launch, CreateManager, ReadEnvironment,
           LoadSigningKey, LoadChannels, StartManager, Elected
  <1>t. config.demo \in BOOLEAN /\ config.key \in BOOLEAN
        /\ config.host \in BOOLEAN
    BY <1>c DEF Configurations
  <1>e. Exit => BuiltAsConfigured'
    BY <1>c DEF Exit, BuiltAsConfigured, NoParts, Parts
  <1>1. CASE Launch
    BY <1>1, <1>c DEF Launch, BuiltAsConfigured
  <1>2. CASE CreateManager
    BY <1>2, <1>c, <1>e DEF CreateManager, BuiltAsConfigured
  <1>3. CASE ReadEnvironment
    BY <1>3, <1>c, <1>t DEF ReadEnvironment, BuiltAsConfigured, NoParts, Parts
  <1>4. CASE LoadSigningKey
    BY <1>4, <1>c, <1>t, <1>e DEF LoadSigningKey, BuiltAsConfigured, Parts
  <1>5. CASE LoadChannels
    BY <1>5, <1>c, <1>t, <1>e DEF LoadChannels, BuiltAsConfigured, Parts
  <1>6. CASE StartManager
    BY <1>6, <1>c DEF StartManager, BuiltAsConfigured
  <1>7. CASE Elected
    BY <1>7, <1>c, <1>e DEF Elected, BuiltAsConfigured
  <1> QED BY <1>1, <1>2, <1>3, <1>4, <1>5, <1>6, <1>7 DEF Boot

LEMMA BuiltStep == BuiltAsConfigured /\ [Next]_vars => BuiltAsConfigured'
  <1> SUFFICES ASSUME BuiltAsConfigured, [Next]_vars PROVE BuiltAsConfigured'
      OBVIOUS
  <1>1. CASE Booting
    BY <1>1, BuiltBoot DEF Booting
  <1>2. CASE Crashing
    BY <1>2 DEF Crashing, Crash, Exit, BuiltAsConfigured, NoParts, Parts
  <1>3. CASE UNCHANGED process
    BY <1>3 DEF process, BuiltAsConfigured
  <1>4. Browsing \/ Editing \/ UNCHANGED vars => UNCHANGED process
    BY DEF Browsing, Editing, vars
  <1> QED BY <1>1, <1>2, <1>3, <1>4 DEF Next

(* A process that serves is one of the deployments that the model of the   *)
(* controllers and handlers covers, for every configuration and every      *)
(* number of crashes.                                                      *)
THEOREM KnownDeployment == Spec => []ServesAKnownDeployment
  <1>1. BuiltAsConfigured => ServesAKnownDeployment
    <2> SUFFICES ASSUME BuiltAsConfigured, Serving
                 PROVE  /\ DeploymentOf(built) \in Deployments
                        /\ built.tokens = (built.demo \/ built.resolver)
        BY DEF ServesAKnownDeployment
    <2>1. /\ built \in Parts
          /\ built.demo = config.demo
          /\ built.host = (config.host \/ (config.demo /\ ~config.key))
          /\ built.notifier => built.resolver
          /\ built.tokens = ((config.demo /\ ~config.key) \/ config.key)
          /\ built.resolver = config.key
      BY DEF BuiltAsConfigured, Serving
    <2>2. DeploymentOf(built) \in Deployments
      BY <2>1 DEF DeploymentOf, Deployments, Parts
    <2>3. built.tokens = (built.demo \/ built.resolver)
      BY <2>1, Zenon DEF Parts
    <2> QED BY <2>2, <2>3
  <1> QED BY <1>1, BuiltInit, BuiltStep, PTL DEF Spec

----------------------------------------------------------------------------
(* What a process that has come so far was not stopped by.                 *)
PassedSoFar ==
    /\ config \in Configurations
    /\ phase \in {"environment", "approval", "channels", "manager",
                  "electing", "serving"} => "certificates" \notin config.unreadable
    /\ phase \in {"channels", "manager", "electing", "serving"} =>
           "key" \notin config.unreadable
    /\ phase \in {"manager", "electing", "serving"} /\ config.key =>
           /\ config.file # "malformed"
           /\ config.forwarders \subseteq {"smtp", "snmp"}
    /\ phase = "serving" => "serving" \notin config.unreadable

(* No constructor finds a secret before the caches run.                    *)
LEMMA NoSecretsYet ==
    ASSUME config \in Configurations, ~Serving, NewDispatcher
    PROVE  config.forwarders \subseteq {"smtp", "snmp"}
  <1> SUFFICES ASSUME NEW type \in config.forwarders,
                      type \notin {"smtp", "snmp"}
               PROVE  FALSE
      OBVIOUS
  <1>1. SecretsRead(type) = {}
    BY DEF NewDispatcher, GetSecretData
  <1>2. type \in {"slack", "teams", "smtpLogin", "pagerduty", "rocketchat",
                  "servicenow"}
    BY EnabledTypesAssumption DEF Configurations
  <1> QED
    BY <1>1, <1>2 DEF SecretsRead, NewSlackForwarder, NewTeamsForwarder,
           NewSMTPForwarder, NewPagerDutyForwarder, NewRocketChatForwarder,
           NewServiceNowForwarder

LEMMA PassedStep == PassedSoFar /\ [Next]_vars => PassedSoFar'
  <1> SUFFICES ASSUME PassedSoFar, [Next]_vars PROVE PassedSoFar'
      OBVIOUS
  <1>1. CASE Booting
    <2>c. config' = config /\ config \in Configurations
      BY <1>1 DEF PassedSoFar, Booting, Boot, Launch, CreateManager,
             ReadEnvironment, LoadSigningKey, LoadChannels, StartManager, Elected
    <2>1. CASE Launch \/ CreateManager \/ ReadEnvironment
      BY <2>1, <2>c DEF Launch, CreateManager, ReadEnvironment, Exit, PassedSoFar
    <2>2. CASE LoadSigningKey
      <3>1. ~config.key => "key" \notin config.unreadable
        BY <2>c DEF Configurations
      <3> QED BY <2>2, <2>c, <3>1 DEF LoadSigningKey, Exit, PassedSoFar
    <2>3. CASE LoadChannels
      <3>1. config.file = "none" => config.forwarders = {}
        BY <2>c DEF Configurations
      <3>2. NewDispatcher => config.forwarders \subseteq {"smtp", "snmp"}
        BY <2>3, <2>c, NoSecretsYet DEF LoadChannels, Serving
      <3> QED BY <2>3, <2>c, <3>1, <3>2 DEF LoadChannels, Exit, PassedSoFar
    <2>4. CASE StartManager \/ Elected
      BY <2>4, <2>c DEF StartManager, Elected, Exit, PassedSoFar
    <2> QED BY <1>1, <2>1, <2>2, <2>3, <2>4 DEF Booting, Boot
  <1>2. CASE Crashing
    BY <1>2 DEF Crashing, Crash, Exit, PassedSoFar
  <1>3. CASE UNCHANGED process
    BY <1>3 DEF process, PassedSoFar
  <1>4. Browsing \/ Editing \/ UNCHANGED vars => UNCHANGED process
    BY DEF Browsing, Editing, vars
  <1> QED BY <1>1, <1>2, <1>3, <1>4 DEF Next

(* Only what is Startable ever serves, however often it is tried: the half *)
(* of ServesIffStartable that is about what never happens.  In particular  *)
(* no process with a key and a channel with a secret comes up.             *)
THEOREM OnlyStartableServes == Spec => [](Serving => Startable)
  <1>1. Init => PassedSoFar
    <2>1. Working \in Configurations
      BY DEF Configurations, Working, Files
    <2> QED BY <2>1 DEF Init, PassedSoFar
  <1>2. PassedSoFar => (Serving => Startable)
    BY DEF PassedSoFar, Serving, Startable, Configurations
  <1> QED BY <1>1, <1>2, PassedStep, PTL DEF Spec

----------------------------------------------------------------------------
(* What a page that is up to date shows, where its user has not changed    *)
(* it: the stored policy.  A call that was overtaken no longer counts.     *)
UpToDate(u) ==
    /\ page[u].open
    /\ ~page[u].old
    /\ ~page[u].blind
    /\ saving[u] # "overtaken"

AnySpec == Specs \cup {DefaultPolicySpec, defaultSpec, NoPolicy}

Pages == [open: BOOLEAN, form: AnySpec, edited: SUBSET Fields, old: BOOLEAN,
          blind: BOOLEAN]

PagesTyped ==
    /\ page \in [Users -> Pages]
    /\ saving \in [Users -> Calls]
    /\ policy \in AnySpec /\ cached \in AnySpec
    /\ behind \in BOOLEAN

Shows(u) ==
    /\ saving[u] # "none" => page[u].open
    /\ UpToDate(u) => \A f \in Fields \ page[u].edited :
                          page[u].form[f] = policy[f]

PagesShowPolicy ==
    /\ PagesTyped
    /\ ~behind => cached = policy
    /\ \A u \in Users : Shows(u)

LEMMA PagesInit == Init => PagesShowPolicy
  <1> SUFFICES ASSUME Init PROVE PagesShowPolicy
      OBVIOUS
  <1>1. NoPage \in Pages /\ "none" \in Calls
    BY DEF NoPage, Pages, AnySpec, Calls
  <1>2. PagesTyped
    BY <1>1 DEF Init, PagesTyped, AnySpec
  <1>3. \A u \in Users : Shows(u)
    BY DEF Init, Shows, UpToDate, NoPage
  <1> QED BY <1>2, <1>3 DEF PagesShowPolicy, Init

LEMMA PagesOpen ==
    ASSUME PagesShowPolicy, NEW u \in Users, OpenPage(u)
    PROVE  PagesShowPolicy'
  <1>1. PICK new \in {Filled(defaultSpec, FALSE, TRUE), handleGetPolicy(TRUE),
                      handleGetPolicy(FALSE)} : page' = [page EXCEPT ![u] = new]
    <2>1. PICK readFails \in BOOLEAN, requestFails \in BOOLEAN :
            page' = [page EXCEPT ![u] =
              IF ~requestFails
                 /\ AuthMiddleware(u, "GET", PolicyPath, FALSE) = "next"
                THEN handleGetPolicy(readFails)
                ELSE Filled(defaultSpec, FALSE, TRUE)]
      BY DEF OpenPage
    <2> QED BY <2>1
  <1>2. UNCHANGED <<policy, cached, behind, saving>> /\ saving[u] = "none"
    BY DEF OpenPage
  <1>3. new \in {Filled(defaultSpec, FALSE, TRUE),
                 Filled(DefaultPolicySpec, FALSE, TRUE),
                 Filled(cached, behind, FALSE)}
    BY DEF handleGetPolicy
  <1>4. new \in Pages
    <2>1. /\ cached \in AnySpec /\ behind \in BOOLEAN
          /\ DefaultPolicySpec \in AnySpec /\ defaultSpec \in AnySpec
      BY DEF AnySpec, PagesShowPolicy, PagesTyped
    <2>2. ASSUME NEW spec \in AnySpec, NEW old \in BOOLEAN, NEW blind \in BOOLEAN
          PROVE  Filled(spec, old, blind) \in Pages
      BY DEF Filled, Pages
    <2> QED BY <1>3, <2>1, <2>2
  <1>5. PagesTyped'
    BY <1>1, <1>2, <1>4 DEF PagesTyped, PagesShowPolicy
  <1>6. ASSUME NEW v \in Users PROVE Shows(v)'
    <2>1. CASE v # u
      BY <1>1, <1>2, <2>1 DEF PagesShowPolicy, PagesTyped, Shows, UpToDate
    <2>2. CASE v = u
      <3>1. page'[u] = new /\ saving'[u] = "none"
        BY <1>1, <1>2 DEF PagesShowPolicy, PagesTyped
      <3>2. ~behind => cached = policy
        BY DEF PagesShowPolicy
      <3> QED BY <1>2, <1>3, <2>2, <3>1, <3>2 DEF Filled, Shows, UpToDate
    <2> QED BY <2>1, <2>2
  <1> QED BY <1>2, <1>5, <1>6 DEF PagesShowPolicy

LEMMA PagesEdit ==
    ASSUME PagesShowPolicy, NEW u \in Users, Edit(u)
    PROVE  PagesShowPolicy'
  <1>1. PICK f \in Fields \ page[u].edited, spec \in Specs :
          /\ \A g \in Fields \ {f} : spec[g] = page[u].form[g]
          /\ page' = [page EXCEPT ![u].form = spec,
                                  ![u].edited = @ \cup {f}]
    BY DEF Edit
  <1>2. UNCHANGED <<policy, cached, behind, saving>> /\ page[u].open
    BY DEF Edit
  <1>3. page \in [Users -> Pages]
    BY DEF PagesShowPolicy, PagesTyped
  <1>4. page'[u] = [page[u] EXCEPT !.form = spec, !.edited = @ \cup {f}]
    BY <1>1, <1>3
  <1>5. /\ page'[u].form = spec /\ page'[u].edited = page[u].edited \cup {f}
        /\ page'[u].open = page[u].open /\ page'[u].old = page[u].old
        /\ page'[u].blind = page[u].blind
    BY <1>3, <1>4 DEF Pages
  <1>6. PagesTyped'
    <2>1. page[u] \in Pages /\ spec \in AnySpec /\ f \in Fields
      BY <1>3 DEF AnySpec
    <2>a. page[u].edited \cup {f} \in SUBSET Fields
      BY <2>1 DEF Pages
    <2>b. page'[u] \in Pages
      BY <2>1, <2>a, <1>4 DEF Pages
    <2>2. page' \in [Users -> Pages]
      BY <2>b, <1>1, <1>3
    <2> QED BY <2>2, <1>2 DEF PagesTyped, PagesShowPolicy
  <1>7. ASSUME NEW v \in Users PROVE Shows(v)'
    <2>1. CASE v # u
      BY <1>1, <1>2, <1>3, <2>1 DEF PagesShowPolicy, Shows, UpToDate
    <2>2. CASE v = u
      <3>1. Shows(u)
        BY DEF PagesShowPolicy
      <3>2. UpToDate(u)' => UpToDate(u)
        BY <1>2, <1>5 DEF UpToDate
      <3>3. \A g \in Fields \ page'[u].edited :
              g \in Fields \ page[u].edited /\ page'[u].form[g] = page[u].form[g]
        BY <1>1, <1>5
      <3> QED BY <3>1, <3>2, <3>3, <1>2, <1>5, <2>2 DEF Shows
    <2> QED BY <2>1, <2>2
  <1> QED BY <1>2, <1>6, <1>7 DEF PagesShowPolicy

LEMMA PagesSave ==
    ASSUME PagesShowPolicy, NEW u \in Users, SavePage(u)
    PROVE  PagesShowPolicy'
  <1>1. PICK call \in {"older", "latest"} : saving' = [saving EXCEPT ![u] = call]
    BY DEF SavePage
  <1>2. /\ UNCHANGED <<policy, cached, behind, page>>
        /\ page[u].open /\ saving[u] = "none"
    BY DEF SavePage
  <1>3. saving \in [Users -> Calls]
    BY DEF PagesShowPolicy, PagesTyped
  <1>4. PagesTyped'
    BY <1>1, <1>2, <1>3 DEF PagesTyped, PagesShowPolicy, Calls
  <1>5. ASSUME NEW v \in Users PROVE Shows(v)'
    BY <1>1, <1>2, <1>3 DEF PagesShowPolicy, Shows, UpToDate
  <1> QED BY <1>2, <1>4, <1>5 DEF PagesShowPolicy

(* A call that succeeds makes every other page old, or overtaken.          *)
LEMMA PagesUpdate ==
    ASSUME PagesShowPolicy, NEW u \in Users, handleUpdatePolicy(u)
    PROVE  PagesShowPolicy'
  <1>t. page \in [Users -> Pages] /\ saving \in [Users -> Calls]
    BY DEF PagesShowPolicy, PagesTyped
  <1>p. page[u] \in Pages
    BY <1>t
  <1>1. CASE Update(u)
    <2>1. /\ policy' = page[u].form /\ behind' = TRUE /\ UNCHANGED cached
          /\ saving' = [v \in Users |->
                           IF v = u \/ saving[v] = "none" THEN "none"
                                                         ELSE "overtaken"]
          /\ page' = [v \in Users |->
                IF v = u THEN Filled(page[v].form, FALSE, FALSE)
                ELSE IF page[v].open /\ saving[v] = "none"
                  THEN [page[v] EXCEPT !.old = TRUE]
                  ELSE page[v]]
      BY <1>1 DEF handleUpdatePolicy
    <2>2. ASSUME NEW v \in Users PROVE page'[v] \in Pages /\ Shows(v)'
      <3>1. page[v] \in Pages
        BY <1>t
      <3>2. CASE v = u
        <4>1. page'[v] = Filled(page[u].form, FALSE, FALSE) /\ saving'[v] = "none"
          BY <2>1, <3>2
        <4> QED BY <4>1, <2>1, <3>1, <3>2 DEF Filled, Pages, Shows, UpToDate
      <3>3. CASE v # u /\ saving[v] # "none"
        <4>1. page'[v] = page[v] /\ saving'[v] = "overtaken"
          BY <2>1, <3>3
        <4>2. page[v].open
          BY <3>3 DEF PagesShowPolicy, Shows
        <4> QED BY <4>1, <4>2, <3>1 DEF Shows, UpToDate
      <3>4. CASE v # u /\ saving[v] = "none" /\ page[v].open
        <4>1. page'[v] = [page[v] EXCEPT !.old = TRUE] /\ saving'[v] = "none"
          BY <2>1, <3>4
        <4>2. page'[v] \in Pages /\ page'[v].old = TRUE
          BY <4>1, <3>1 DEF Pages
        <4> QED BY <4>1, <4>2 DEF Shows, UpToDate
      <3>5. CASE v # u /\ saving[v] = "none" /\ ~page[v].open
        <4>1. page'[v] = page[v] /\ saving'[v] = "none"
          BY <2>1, <3>5
        <4> QED BY <4>1, <3>1, <3>5 DEF Shows, UpToDate
      <3> QED BY <3>2, <3>3, <3>4, <3>5
    <2>3. page' \in [Users -> Pages]
      <3>1. DOMAIN page' = Users
        BY <2>1
      <3> QED BY <3>1, <2>1, <2>2
    <2>4. saving' \in [Users -> Calls]
      BY <2>1 DEF Calls
    <2>5. policy' \in AnySpec /\ cached' \in AnySpec
      BY <1>p, <2>1 DEF Pages, PagesShowPolicy, PagesTyped
    <2> QED BY <2>1, <2>2, <2>3, <2>4, <2>5 DEF PagesShowPolicy, PagesTyped
  <1>2. CASE ~Update(u)
    <2>1. /\ UNCHANGED <<policy, behind, cached>>
          /\ saving' = [saving EXCEPT ![u] = "none"]
          /\ page' = [page EXCEPT ![u].old = @ \/ saving[u] = "overtaken"]
      BY <1>2 DEF handleUpdatePolicy
    <2>2. /\ page'[u].open = page[u].open /\ page'[u].form = page[u].form
          /\ page'[u].edited = page[u].edited
          /\ page'[u].blind = page[u].blind
          /\ page'[u].old = (page[u].old \/ saving[u] = "overtaken")
          /\ page'[u] \in Pages
      BY <2>1, <1>t, <1>p DEF Pages
    <2>3. page' \in [Users -> Pages] /\ saving' \in [Users -> Calls]
      BY <2>1, <2>2, <1>t DEF Calls
    <2>4. ASSUME NEW v \in Users PROVE Shows(v)'
      <3>1. CASE v # u
        BY <2>1, <1>t, <3>1 DEF PagesShowPolicy, Shows, UpToDate
      <3>2. CASE v = u
        BY <2>1, <2>2, <1>t, <3>2 DEF PagesShowPolicy, Shows, UpToDate
      <3> QED BY <3>1, <3>2
    <2> QED BY <2>1, <2>3, <2>4 DEF PagesShowPolicy, PagesTyped
  <1> QED BY <1>1, <1>2

LEMMA PagesDeliver ==
    ASSUME PagesShowPolicy, Deliver
    PROVE  PagesShowPolicy'
  BY DEF PagesShowPolicy, PagesTyped, Shows, UpToDate, Deliver

(* A crash ends every call; the pages of those overtaken are old.          *)
LEMMA PagesCrash ==
    ASSUME PagesShowPolicy, Crashing
    PROVE  PagesShowPolicy'
  <1>1. /\ page' = [u \in Users |->
                       [page[u] EXCEPT !.old = @ \/ saving[u] = "overtaken"]]
        /\ saving' = [u \in Users |-> "none"]
        /\ cached' = policy /\ behind' = FALSE /\ policy' = policy
    BY DEF Crashing
  <1>2. ASSUME NEW u \in Users PROVE page'[u] \in Pages /\ Shows(u)'
    <2>1. page[u] \in Pages /\ Shows(u)
      BY DEF PagesShowPolicy, PagesTyped
    <2>2. /\ page'[u] = [page[u] EXCEPT !.old = @ \/ saving[u] = "overtaken"]
          /\ saving'[u] = "none"
      BY <1>1
    <2>3. /\ page'[u].open = page[u].open /\ page'[u].form = page[u].form
          /\ page'[u].edited = page[u].edited
          /\ page'[u].blind = page[u].blind
          /\ page'[u].old = (page[u].old \/ saving[u] = "overtaken")
          /\ page'[u] \in Pages
      BY <2>1, <2>2 DEF Pages
    <2> QED BY <1>1, <2>1, <2>2, <2>3 DEF Shows, UpToDate
  <1>3. page' \in [Users -> Pages]
    <2>1. DOMAIN page' = Users
      BY <1>1
    <2> QED BY <2>1, <1>1, <1>2
  <1>4. saving' \in [Users -> Calls]
    BY <1>1 DEF Calls
  <1>5. PagesTyped'
    BY <1>1, <1>3, <1>4 DEF PagesTyped, PagesShowPolicy
  <1> QED BY <1>1, <1>2, <1>5 DEF PagesShowPolicy

LEMMA PagesStep == PagesShowPolicy /\ [Next]_vars => PagesShowPolicy'
  <1> SUFFICES ASSUME PagesShowPolicy, [Next]_vars PROVE PagesShowPolicy'
      OBVIOUS
  <1>1. CASE UNCHANGED editing
    BY <1>1 DEF editing, PagesShowPolicy, PagesTyped, Shows, UpToDate
  <1>2. CASE Booting
    BY <1>1, <1>2 DEF Booting
  <1>3. CASE Crashing
    BY <1>3, PagesCrash
  <1>4. CASE Browsing
    BY <1>1, <1>4 DEF Browsing
  <1>5. CASE Editing
    <2>1. CASE Deliver
      BY <2>1, PagesDeliver
    <2>2. CASE \E u \in Users : PageRequest(u) \/ Edit(u)
      BY <2>2, PagesOpen, PagesEdit, PagesSave, PagesUpdate DEF PageRequest
    <2> QED BY <1>5, <2>1, <2>2 DEF Editing
  <1>6. CASE UNCHANGED vars
    BY <1>1, <1>6 DEF vars
  <1> QED BY <1>2, <1>3, <1>4, <1>5, <1>6 DEF Next

(* Only the second half of handleUpdatePolicy writes the policy.           *)
LEMMA OnlyUpdatesWrite ==
    ASSUME [Next]_vars, policy' # policy
    PROVE  \E u \in Users : handleUpdatePolicy(u) /\ Update(u)
  <1>1. CASE Editing
    BY <1>1 DEF Editing, PageRequest, OpenPage, SavePage, Edit, Deliver,
                handleUpdatePolicy
  <1>2. CASE Booting \/ Crashing \/ Browsing \/ UNCHANGED vars
    BY <1>2 DEF Booting, Crashing, Browsing, vars, editing
  <1> QED BY <1>1, <1>2 DEF Next

(* Whatever the users, the lookbacks and the number of pages that are open *)
(* at once, a save of the policy page changes only what its user changed,  *)
(* unless the page was filled with the defaults or was out of date before  *)
(* the call: the version check of handleUpdatePolicy covers the rest.      *)
THEOREM UneditedSurvive == Spec => UneditedFieldsSurvive
  <1>1. PagesShowPolicy /\ [Next]_vars =>
          [policy' # policy => \E u \in Users : SavesEdits(u)]_editing
    <2> SUFFICES ASSUME PagesShowPolicy, [Next]_vars, policy' # policy
                 PROVE  \E u \in Users : SavesEdits(u)
        OBVIOUS
    <2>1. PICK u \in Users : handleUpdatePolicy(u) /\ Update(u)
      BY OnlyUpdatesWrite
    <2>2. saving[u] = "latest" /\ policy' = page[u].form
      BY <2>1 DEF handleUpdatePolicy, Update
    <2>3. saving'[u] = "none"
      BY <2>1 DEF handleUpdatePolicy
    <2>4. Shows(u) /\ page[u] \in Pages
      BY DEF PagesShowPolicy, PagesTyped
    <2>5. SavesEdits(u)
      BY <2>2, <2>3, <2>4 DEF SavesEdits, Shows, UpToDate, Pages
    <2> QED BY <2>5
  <1> QED BY <1>1, PagesInit, PagesStep, PTL DEF Spec, UneditedFieldsSurvive

============================================================================
