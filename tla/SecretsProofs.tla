------------------------------ MODULE SecretsProofs ------------------------------
(***************************************************************************)
(* For every set of passwords and any number of runs: the types of Secrets,  *)
(* the agreement of the passwords, and that a live stack has its secrets.    *)
(***************************************************************************)
EXTENDS Secrets, TLAPS

\* generate_password makes a password that is not among the three it is told of.
LEMMA FreshIsNew ==
    ASSUME NEW p \in Passwords \cup {None}, NEW q \in Passwords \cup {None},
           NEW r \in Passwords \cup {None}
    PROVE  Fresh({p, q, r}) \in Passwords \ {p, q, r}
<1>1. \E x \in Passwords : x \notin {p, q, r}
  <2>1. Passwords \ {p, q, r} # {}
    BY SecretsConstants, Zenon
  <2> QED BY <2>1
<1> DEFINE chosen == CHOOSE x \in Passwords : x \notin {p, q, r}
<1>2. chosen \in Passwords /\ chosen \notin {p, q, r}
  BY <1>1, Zenon
<1>3. Fresh({p, q, r}) = chosen
  BY DEF Fresh
<1> QED BY <1>2, <1>3

\* A run of post_init of core starts with two new passwords, a create of api with one.
LEMMA PasswordsAreNew ==
    ASSUME TypeOK
    PROVE  /\ Fresh({vault.auth, vault.keycloak, keycloak.admin}) \in Passwords
           /\ Fresh({vault.realm, keycloak.bossadmin}) \in Passwords
           /\ Fresh({vault.endpointDb, stack.password}) \in Passwords
<1>1. /\ vault.auth \in Passwords \cup {None} /\ vault.keycloak \in Passwords \cup {None}
      /\ vault.realm \in Passwords \cup {None} /\ vault.endpointDb \in Passwords \cup {None}
      /\ keycloak.admin \in Passwords \cup {None}
      /\ keycloak.bossadmin \in Passwords \cup {None}
      /\ stack.password \in Passwords \cup {None}
  BY DEF TypeOK, Store, Server, Stack
<1>2. Fresh({vault.auth, vault.keycloak, keycloak.admin}) \in Passwords
  BY <1>1, FreshIsNew
<1>3. Fresh({vault.realm, keycloak.bossadmin, keycloak.bossadmin}) \in Passwords
  BY <1>1, FreshIsNew
<1>4. Fresh({vault.endpointDb, stack.password, stack.password}) \in Passwords
  BY <1>1, FreshIsNew
<1>5. Fresh({vault.realm, keycloak.bossadmin}) \in Passwords
  <2>1. {vault.realm, keycloak.bossadmin, keycloak.bossadmin}
          = {vault.realm, keycloak.bossadmin}
    OBVIOUS
  <2> QED BY <1>3, <2>1, Zenon
<1>6. Fresh({vault.endpointDb, stack.password}) \in Passwords
  <2>1. {vault.endpointDb, stack.password, stack.password}
          = {vault.endpointDb, stack.password}
    OBVIOUS
  <2> QED BY <1>4, <2>1, Zenon
<1> QED BY <1>2, <1>5, <1>6

--------------------------------------------------------------------------------
(***************************************************************************)
(* What the steps write keeps the types.                                   *)
(***************************************************************************)
Password == Passwords \cup {None}
Keys == SUBSET {"url", "public_uri"}

\* What is stored in Vault has the types of what is written to it.
LEMMA StoreFields ==
    ASSUME NEW v \in Store
    PROVE  /\ v.auth \in Password /\ v.keycloak \in Password /\ v.realm \in Password
           /\ v.endpointDb \in Password /\ v.endpointAuth \in Keys
BY DEF Store, Password, Keys

\* A write to one path of Vault leaves a store.
LEMMA StoreUpdates ==
    ASSUME NEW v \in Store, NEW p \in Password, NEW b \in BOOLEAN, NEW k \in Keys
    PROVE  /\ [v EXCEPT !.initialized = b] \in Store
           /\ [v EXCEPT !.auth = p] \in Store
           /\ [v EXCEPT !.keycloak = p, !.master = b] \in Store
           /\ [v EXCEPT !.realm = p] \in Store
           /\ [v EXCEPT !.endpointAuth = k] \in Store
           /\ [v EXCEPT !.endpoint = b] \in Store
           /\ [v EXCEPT !.endpointDb = p] \in Store
BY DEF Store, Password, Keys

CoreAtAny == CoreSteps \cup {"idle"}

\* What post_init of core remembers, and what a step of it may change of that.
LEMMA CoreUpdates ==
    ASSUME NEW c \in CoreRun, NEW pc \in CoreAtAny, NEW p \in Password, NEW q \in Password,
           NEW b \in BOOLEAN, NEW k \in Keys
    PROVE  /\ c.password \in Password /\ c.realm \in Password /\ c.seen \in Keys
           /\ c.update \in BOOLEAN
           /\ NoCore \in CoreRun
           /\ [c EXCEPT !.pc = pc] \in CoreRun
           /\ [c EXCEPT !.pc = pc, !.password = p] \in CoreRun
           /\ [c EXCEPT !.pc = pc, !.password = p, !.realm = q] \in CoreRun
           /\ [c EXCEPT !.pc = pc, !.realm = p] \in CoreRun
           /\ [c EXCEPT !.pc = pc, !.update = b] \in CoreRun
           /\ [c EXCEPT !.pc = pc, !.update = b, !.password = p] \in CoreRun
           /\ [c EXCEPT !.pc = pc, !.seen = k] \in CoreRun
BY DEF CoreRun, CoreAtAny, Password, Keys, NoCore

ApiAtAny == ApiSteps \cup {"idle"}

\* The same for create and post_init of api.
LEMMA ApiUpdates ==
    ASSUME NEW a \in ApiRun, NEW pc \in ApiAtAny, NEW p \in Password, NEW k \in Keys
    PROVE  /\ a.password \in Password /\ a.seen \in Keys
           /\ NoApi \in ApiRun
           /\ [a EXCEPT !.pc = pc] \in ApiRun
           /\ [a EXCEPT !.pc = pc, !.password = p] \in ApiRun
           /\ [a EXCEPT !.pc = pc, !.seen = k] \in ApiRun
BY DEF ApiRun, ApiAtAny, Password, Keys, NoApi

\* The same for the Keycloak server.
LEMMA ServerUpdates ==
    ASSUME NEW s \in Server, NEW p \in Password, NEW b \in BOOLEAN
    PROVE  /\ s.admin \in Password /\ s.bossadmin \in Password
           /\ [s EXCEPT !.admin = p] \in Server
           /\ [s EXCEPT !.bossadmin = p] \in Server
           /\ [s EXCEPT !.redirect = b] \in Server
BY DEF Server, Password

\* The steps' names, and the keys that they write to VAULT_ENDPOINT_AUTH.
LEMMA StepNames ==
    /\ "idle" \in CoreAtAny /\ CoreSteps \subseteq CoreAtAny
    /\ {"initialize", "save token", "auth", "write auth", "keycloak", "write keycloak",
        "realm", "write realm", "endpoint auth", "read url", "write url", "admin",
        "log in"} \subseteq CoreAtAny
    /\ {"write endpoint", "write db", "read uri", "write uri", "launch", "wait",
        "revoke endpoint", "revoke db", "credentials", "redirect", "token", "idle"}
         \subseteq ApiAtAny
    /\ {"url"} \in Keys /\ {"public_uri"} \in Keys
BY DEF CoreAtAny, ApiAtAny, CoreSteps, ApiSteps, Keys

--------------------------------------------------------------------------------
\* Vault.update adds a key to those that it has read.
LEMMA AddsKey ==
    ASSUME NEW k \in Keys
    PROVE  k \cup {"url"} \in Keys /\ k \cup {"public_uri"} \in Keys
BY DEF Keys

TokenNeeded == core.pc \notin {"idle", "initialize", "save token"} => tokenFile

\* Every call of post_init of core keeps the types, and needs Vault's token on disk.
LEMMA CoreStepsKeepTypes == TypeOK /\ CoreStep => TypeOK'
<1> SUFFICES ASSUME TypeOK, CoreStep PROVE TypeOK'
  OBVIOUS
<1>1. /\ vault \in Store /\ keycloak \in Server /\ stack \in Stack
      /\ core \in CoreRun /\ api \in ApiRun
      /\ tokenFile \in BOOLEAN /\ ready \in BOOLEAN /\ patient \in BOOLEAN
      /\ crashes \in 0 .. MaxCrashes /\ TokenNeeded
  BY DEF TypeOK, TokenNeeded
<1>2. /\ core.pc \in CoreAtAny /\ core.password \in Password /\ core.realm \in Password
      /\ core.update \in BOOLEAN /\ core.seen \in Keys
  BY <1>1 DEF CoreRun, CoreAtAny, Password, Keys
<1>3. UNCHANGED <<api, stack, crashes, patient>>
  BY DEF CoreStep, Initialize, SaveToken, ReadAuth, WriteAuth, ReadKeycloak, WriteKeycloak,
         ReadRealm, WriteRealm, CheckEndpointAuth, ReadUrl, WriteUrl, AddAdmin,
         CreateRealm, CoreAt, bounds
<1>4. /\ vault' \in Store /\ keycloak' \in Server /\ core' \in CoreRun
      /\ tokenFile' \in BOOLEAN /\ ready' \in BOOLEAN
  <2> USE <1>1, <1>2, StepNames DEF CoreAt, CoreGoes
  <2>1. CASE Initialize BY <2>1, StoreUpdates, CoreUpdates DEF Initialize
  <2>2. CASE SaveToken BY <2>2, CoreUpdates DEF SaveToken
  <2>3. CASE ReadAuth BY <2>3, StoreFields, CoreUpdates DEF ReadAuth
  <2>4. CASE WriteAuth BY <2>4, StoreUpdates, CoreUpdates DEF WriteAuth
  <2>5. CASE ReadKeycloak BY <2>5, StoreFields, CoreUpdates DEF ReadKeycloak
  <2>6. CASE WriteKeycloak BY <2>6, StoreUpdates, CoreUpdates DEF WriteKeycloak
  <2>7. CASE ReadRealm BY <2>7, StoreFields, CoreUpdates DEF ReadRealm
  <2>8. CASE WriteRealm BY <2>8, StoreUpdates, CoreUpdates DEF WriteRealm
  <2>9. CASE CheckEndpointAuth BY <2>9, CoreUpdates DEF CheckEndpointAuth
  <2>10. CASE ReadUrl BY <2>10, StoreFields, CoreUpdates DEF ReadUrl
  <2>11. CASE WriteUrl BY <2>11, StoreUpdates, CoreUpdates, AddsKey DEF WriteUrl
  <2>12. CASE AddAdmin
    <3> DEFINE p == IF keycloak.admin = None THEN core.password ELSE keycloak.admin
    <3>1. p \in Password BY ServerUpdates
    <3>2. keycloak' = [keycloak EXCEPT !.admin = p] BY <2>12 DEF AddAdmin
    <3>3. keycloak' \in Server BY <3>1, <3>2, ServerUpdates
    <3> QED BY <2>12, <3>3, CoreUpdates DEF AddAdmin
  <2>13. CASE CreateRealm
    <3> DEFINE p == IF keycloak.bossadmin = None THEN core.realm ELSE keycloak.bossadmin
    <3>1. p \in Password BY ServerUpdates
    <3>2. keycloak' = [keycloak EXCEPT !.bossadmin = p] \/ keycloak' = keycloak
      BY <2>13 DEF CreateRealm
    <3>3. keycloak' \in Server BY <3>1, <3>2, ServerUpdates
    <3>4. core' \in CoreRun
      <4>1. core' = NoCore BY <2>13 DEF CreateRealm
      <4>2. NoCore \in CoreRun BY DEF NoCore, CoreRun
      <4> QED BY ONLY <4>1, <4>2
    <3>5. ready' \in BOOLEAN BY <2>13 DEF CreateRealm
    <3>6. vault' \in Store /\ tokenFile' \in BOOLEAN BY <2>13 DEF CreateRealm
    <3> QED BY <3>3, <3>4, <3>5, <3>6
  <2> QED BY <2>1, <2>2, <2>3, <2>4, <2>5, <2>6, <2>7, <2>8,
            <2>9, <2>10, <2>11, <2>12, <2>13 DEF CoreStep
<1>5. TokenNeeded'
  <2> USE <1>1 DEF CoreAt, CoreGoes, TokenNeeded, CoreRun, NoCore
  <2>1. CASE Initialize BY <2>1 DEF Initialize
  <2>2. CASE SaveToken BY <2>2 DEF SaveToken
  <2>3. CASE ReadAuth BY <2>3 DEF ReadAuth
  <2>4. CASE WriteAuth BY <2>4 DEF WriteAuth
  <2>5. CASE ReadKeycloak BY <2>5 DEF ReadKeycloak
  <2>6. CASE WriteKeycloak BY <2>6 DEF WriteKeycloak
  <2>7. CASE ReadRealm BY <2>7 DEF ReadRealm
  <2>8. CASE WriteRealm BY <2>8 DEF WriteRealm
  <2>9. CASE CheckEndpointAuth BY <2>9 DEF CheckEndpointAuth
  <2>10. CASE ReadUrl BY <2>10 DEF ReadUrl
  <2>11. CASE WriteUrl BY <2>11 DEF WriteUrl
  <2>12. CASE AddAdmin BY <2>12 DEF AddAdmin
  <2>13. CASE CreateRealm BY <2>13 DEF CreateRealm
  <2> QED BY <2>1, <2>2, <2>3, <2>4, <2>5, <2>6, <2>7, <2>8,
            <2>9, <2>10, <2>11, <2>12, <2>13 DEF CoreStep
<1> QED BY <1>1, <1>3, <1>4, <1>5 DEF TypeOK, TokenNeeded

\* Every call of create and post_init of api keeps the types.
LEMMA ApiStepsKeepTypes == TypeOK /\ ApiStep => TypeOK'
<1> SUFFICES ASSUME TypeOK, ApiStep PROVE TypeOK'
  OBVIOUS
<1>1. /\ vault \in Store /\ keycloak \in Server /\ stack \in Stack
      /\ core \in CoreRun /\ api \in ApiRun
      /\ tokenFile \in BOOLEAN /\ ready \in BOOLEAN /\ patient \in BOOLEAN
      /\ crashes \in 0 .. MaxCrashes /\ TokenNeeded
  BY DEF TypeOK, TokenNeeded
<1>2. /\ api.password \in Password /\ api.seen \in Keys /\ vault.endpointAuth \in Keys
      /\ None \in Password
  BY <1>1 DEF ApiRun, Store, Password, Keys
<1>3. UNCHANGED <<core, tokenFile, ready, crashes, patient>>
  BY DEF ApiStep, WriteEndpoint, WriteEndpointDb, ReadPublicUri, WritePublicUri, Launch,
         Wait, RevokeEndpoint, RevokeEndpointDb, ReadCredentials, AddRedirect, GetToken,
         ApiAt, bounds
<1>4. /\ vault' \in Store /\ keycloak' \in Server /\ stack' \in Stack /\ api' \in ApiRun
  <2> USE <1>1, <1>2, StepNames DEF ApiAt, ApiGoes, servers
  <2>1. CASE WriteEndpoint BY <2>1, StoreUpdates, ApiUpdates DEF WriteEndpoint
  <2>2. CASE WriteEndpointDb BY <2>2, StoreUpdates, ApiUpdates DEF WriteEndpointDb
  <2>3. CASE ReadPublicUri BY <2>3, ApiUpdates DEF ReadPublicUri
  <2>4. CASE WritePublicUri BY <2>4, StoreUpdates, ApiUpdates, AddsKey DEF WritePublicUri
  <2>5. CASE Launch BY <2>5, ApiUpdates DEF Launch, Stack, Password
  <2>6. CASE Wait BY <2>6, ApiUpdates DEF Wait
  <2>7. CASE RevokeEndpoint BY <2>7, StoreUpdates, ApiUpdates DEF RevokeEndpoint
  <2>8. CASE RevokeEndpointDb BY <2>8, StoreUpdates, ApiUpdates DEF RevokeEndpointDb
  <2>9. CASE ReadCredentials BY <2>9, ApiUpdates DEF ReadCredentials
  <2>10. CASE AddRedirect BY <2>10, ApiUpdates, ServerUpdates DEF AddRedirect
  <2>11. CASE GetToken BY <2>11, ApiUpdates DEF GetToken
  <2> QED BY <2>1, <2>2, <2>3, <2>4, <2>5, <2>6, <2>7, <2>8, <2>9, <2>10, <2>11 DEF ApiStep
<1> QED BY <1>1, <1>3, <1>4 DEF TypeOK, TokenNeeded

\* Every step of the specification keeps the types.
LEMMA TypesKept == TypeOK /\ [Next]_vars => TypeOK'
<1> SUFFICES ASSUME TypeOK, [Next]_vars PROVE TypeOK'
  OBVIOUS
<1>1. /\ vault \in Store /\ keycloak \in Server /\ stack \in Stack
      /\ core \in CoreRun /\ api \in ApiRun
      /\ tokenFile \in BOOLEAN /\ ready \in BOOLEAN /\ patient \in BOOLEAN
      /\ crashes \in 0 .. MaxCrashes /\ TokenNeeded
  BY DEF TypeOK, TokenNeeded
<1> USE StepNames DEF bounds, servers
<1>2. NoCore \in CoreRun /\ NoCore.pc = "idle" /\ NoApi \in ApiRun /\ Passwords \subseteq Password
      /\ None \in Password
  BY DEF NoCore, NoApi, CoreRun, ApiRun, Password
<1>3. CASE PostInit
  <2>1. core' \in CoreRun
    BY <1>1, <1>2, <1>3, PasswordsAreNew, CoreUpdates DEF PostInit
  <2>2. core'.pc = "initialize"
    BY <1>3 DEF PostInit, NoCore
  <2> QED BY <1>1, <1>3, <2>1, <2>2 DEF PostInit, CoreAt, TypeOK
<1>4. CASE CoreStep BY <1>4, CoreStepsKeepTypes
<1>5. CASE CreateApi
  <2>1. api' \in ApiRun
    BY <1>1, <1>2, <1>5, PasswordsAreNew, ApiUpdates DEF CreateApi
  <2> QED BY <1>1, <1>5, <2>1 DEF CreateApi, ApiAt, TypeOK, TokenNeeded
<1>6. CASE PostInitApi
  <2>1. api' \in ApiRun
    BY <1>1, <1>2, <1>6, ApiUpdates DEF PostInitApi
  <2> QED BY <1>1, <1>6, <2>1 DEF PostInitApi, ApiAt, TypeOK, TokenNeeded
<1>7. CASE DeleteApi
  BY <1>1, <1>7 DEF DeleteApi, ApiAt, TypeOK, TokenNeeded, Stack
<1>8. CASE ApiStep BY <1>8, ApiStepsKeepTypes
<1>9. ASSUME Crash PROVE crashes' \in 0 .. MaxCrashes
  <2>1. crashes \in 0 .. MaxCrashes BY <1>1
  <2>2. crashes < MaxCrashes /\ crashes' = crashes + 1 BY <1>9 DEF Crash
  <2> QED BY ONLY <2>1, <2>2, SecretsConstants
<1>10. CASE CoreDies
  BY <1>1, <1>2, <1>9, <1>10 DEF CoreDies, TypeOK
<1>11. CASE ApiDies
  BY <1>1, <1>2, <1>9, <1>11 DEF ApiDies, TypeOK, TokenNeeded
<1>12. CASE ApiRaises
  BY <1>1, <1>2, <1>9, <1>12, ApiUpdates DEF ApiRaises, ApiGoes, TypeOK, TokenNeeded
<1>13. CASE CloudFormation
  BY <1>1, <1>13 DEF CloudFormation, TypeOK, TokenNeeded, Stack
<1>14. CASE UNCHANGED vars
  BY <1>1, <1>14 DEF vars, TypeOK, TokenNeeded
<1> QED BY <1>3, <1>4, <1>5, <1>6, <1>7, <1>8, <1>10, <1>11, <1>12, <1>13, <1>14 DEF Next

--------------------------------------------------------------------------------
(***************************************************************************)
(* The inductive invariant.                                                *)
(***************************************************************************)
\* An account in which nothing has been run satisfies the types and the invariant.
LEMMA InductiveInit == Init => TypeOK /\ Inductive
<1> SUFFICES ASSUME Init PROVE TypeOK /\ Inductive
  OBVIOUS
<1>1. TypeOK
  <2>1. vault \in Store BY DEF Init, Store
  <2>2. keycloak \in Server /\ stack \in Stack BY DEF Init, Server, Stack
  <2>3. core \in CoreRun /\ core.pc = "idle" BY DEF Init, CoreRun, NoCore
  <2>4. api \in ApiRun BY DEF Init, ApiRun, NoApi
  <2>5. tokenFile \in BOOLEAN /\ ready \in BOOLEAN /\ patient \in BOOLEAN BY DEF Init
  <2>6. crashes \in 0 .. MaxCrashes BY SecretsConstants DEF Init
  <2> QED BY <2>1, <2>2, <2>3, <2>4, <2>5, <2>6 DEF TypeOK
<1>2. VaultComesFirst
  BY DEF Init, VaultComesFirst, CredentialsAgree
<1>3. CoreKnows
  BY DEF Init, CoreKnows, NoCore, AfterAuth, AfterKeycloak, AfterRealm
<1>4. ApiKnows /\ LiveStackHasItsSecrets
  BY DEF Init, ApiKnows, LiveStackHasItsSecrets, NoApi, BeforeLaunch
<1> QED BY <1>1, <1>2, <1>3, <1>4 DEF Inductive

\* What the steps of core do to Vault, Keycloak and their own run.
LEMMA CoreStepsKeepVaultFirst ==
    TypeOK /\ VaultComesFirst /\ CoreKnows /\ CoreStep => VaultComesFirst' /\ CoreKnows'
<1> SUFFICES ASSUME TypeOK, VaultComesFirst, CoreKnows, CoreStep
             PROVE  VaultComesFirst' /\ CoreKnows'
  OBVIOUS
<1>1. vault \in Store /\ keycloak \in Server /\ core \in CoreRun
  BY DEF TypeOK
<1> USE <1>1 DEF Store, Server, CoreRun, NoCore, CoreAt, CoreGoes, VaultComesFirst,
                 CredentialsAgree, CoreKnows, AfterAuth, AfterKeycloak, AfterRealm
<1>2. CASE Initialize BY <1>2 DEF Initialize
<1>3. CASE SaveToken BY <1>3 DEF SaveToken
<1>4. CASE ReadAuth BY <1>4 DEF ReadAuth
<1>5. CASE WriteAuth BY <1>5 DEF WriteAuth
<1>6. CASE ReadKeycloak BY <1>6 DEF ReadKeycloak
<1>7. CASE WriteKeycloak BY <1>7 DEF WriteKeycloak
<1>8. CASE ReadRealm BY <1>8 DEF ReadRealm
<1>9. CASE WriteRealm BY <1>9 DEF WriteRealm
<1>10. CASE CheckEndpointAuth BY <1>10 DEF CheckEndpointAuth
<1>11. CASE ReadUrl BY <1>11 DEF ReadUrl
<1>12. CASE WriteUrl BY <1>12 DEF WriteUrl
<1>13. CASE AddAdmin BY <1>13 DEF AddAdmin
<1>14. CASE CreateRealm BY <1>14 DEF CreateRealm
<1> QED BY ONLY CoreStep, <1>2, <1>3, <1>4, <1>5, <1>6, <1>7, <1>8, <1>9, <1>10, <1>11,
           <1>12, <1>13, <1>14 DEF CoreStep

\* They leave alone what api relies on: its stack, and its two secrets in Vault.
LEMMA CoreStepsKeepApi ==
    TypeOK /\ ApiKnows /\ LiveStackHasItsSecrets /\ CoreStep
        => ApiKnows' /\ LiveStackHasItsSecrets'
<1> SUFFICES ASSUME TypeOK, ApiKnows, LiveStackHasItsSecrets, CoreStep
             PROVE  ApiKnows' /\ LiveStackHasItsSecrets'
  OBVIOUS
<1>1. vault \in Store
  BY DEF TypeOK
<1>2. UNCHANGED <<api, stack, patient>>
  BY DEF CoreStep, Initialize, SaveToken, ReadAuth, WriteAuth, ReadKeycloak, WriteKeycloak,
         ReadRealm, WriteRealm, CheckEndpointAuth, ReadUrl, WriteUrl, AddAdmin,
         CreateRealm, CoreAt, bounds
<1>3. vault'.endpoint = vault.endpoint /\ vault'.endpointDb = vault.endpointDb
  BY <1>1 DEF Store, CoreStep, Initialize, SaveToken, ReadAuth, WriteAuth, ReadKeycloak,
              WriteKeycloak, ReadRealm, WriteRealm, CheckEndpointAuth, ReadUrl, WriteUrl,
              AddAdmin, CreateRealm
<1> QED BY <1>2, <1>3 DEF ApiKnows, LiveStackHasItsSecrets, BeforeLaunch

\* What the steps of api do to its own run, its stack and its two secrets.
LEMMA ApiStepsKeepApi ==
    TypeOK /\ ApiKnows /\ LiveStackHasItsSecrets /\ ApiStep
        => ApiKnows' /\ LiveStackHasItsSecrets'
<1> SUFFICES ASSUME TypeOK, ApiKnows, LiveStackHasItsSecrets, ApiStep
             PROVE  ApiKnows' /\ LiveStackHasItsSecrets'
  OBVIOUS
<1>1. vault \in Store /\ stack \in Stack /\ api \in ApiRun
  BY DEF TypeOK
<1> USE <1>1 DEF Store, Stack, ApiRun, NoApi, ApiAt, ApiGoes, servers, bounds, ApiKnows,
                 LiveStackHasItsSecrets, BeforeLaunch
<1>2. CASE WriteEndpoint BY <1>2 DEF WriteEndpoint
<1>3. CASE WriteEndpointDb BY <1>3 DEF WriteEndpointDb
<1>4. CASE ReadPublicUri BY <1>4 DEF ReadPublicUri
<1>5. CASE WritePublicUri BY <1>5 DEF WritePublicUri
<1>6. CASE Launch BY <1>6 DEF Launch
<1>7. CASE Wait
  <2>1. UNCHANGED <<vault, stack, patient>>
    BY <1>7 DEF Wait
  <2>2. \/ api'.pc = "credentials"
        \/ stack.status = "failed" /\ api'.pc = "revoke endpoint"
    BY <1>7 DEF Wait
  <2> QED BY <2>1, <2>2
<1>8. CASE RevokeEndpoint BY <1>8 DEF RevokeEndpoint
<1>9. CASE RevokeEndpointDb
  <2>1. UNCHANGED <<stack, patient>> /\ api'.pc = "idle"
    BY <1>9 DEF RevokeEndpointDb
  <2>2. patient => stack.status = "failed"
    BY <1>9 DEF RevokeEndpointDb
  <2> QED BY <2>1, <2>2
<1>10. CASE ReadCredentials
  <2>1. UNCHANGED <<vault, stack, patient>>
    BY <1>10 DEF ReadCredentials
  <2>2. api'.pc \in {"redirect", "idle"}
    BY <1>10 DEF ReadCredentials
  <2> QED BY <2>1, <2>2
<1>11. CASE AddRedirect
  <2>1. UNCHANGED <<vault, stack, patient>>
    BY <1>11 DEF AddRedirect
  <2>2. api'.pc \in {"token", "idle"}
    BY <1>11 DEF AddRedirect
  <2> QED BY <2>1, <2>2
<1>12. CASE GetToken BY <1>12 DEF GetToken
<1> QED BY ONLY ApiStep, <1>2, <1>3, <1>4, <1>5, <1>6, <1>7, <1>8, <1>9, <1>10, <1>11,
           <1>12 DEF ApiStep

\* They leave alone what core relies on.
LEMMA ApiStepsKeepCore ==
    TypeOK /\ VaultComesFirst /\ CoreKnows /\ ApiStep => VaultComesFirst' /\ CoreKnows'
<1> SUFFICES ASSUME TypeOK, VaultComesFirst, CoreKnows, ApiStep
             PROVE  VaultComesFirst' /\ CoreKnows'
  OBVIOUS
<1>1. vault \in Store /\ keycloak \in Server
  BY DEF TypeOK
<1>2. UNCHANGED core
  BY DEF ApiStep, WriteEndpoint, WriteEndpointDb, ReadPublicUri, WritePublicUri, Launch,
         Wait, RevokeEndpoint, RevokeEndpointDb, ReadCredentials, AddRedirect, GetToken,
         ApiAt
<1>3. /\ vault'.auth = vault.auth /\ vault'.keycloak = vault.keycloak
      /\ vault'.master = vault.master /\ vault'.realm = vault.realm
  BY <1>1 DEF Store, ApiStep, WriteEndpoint, WriteEndpointDb, ReadPublicUri,
              WritePublicUri, Launch, Wait, RevokeEndpoint, RevokeEndpointDb,
              ReadCredentials, AddRedirect, GetToken, servers
<1>4. keycloak'.admin = keycloak.admin /\ keycloak'.bossadmin = keycloak.bossadmin
  BY <1>1 DEF Server, ApiStep, WriteEndpoint, WriteEndpointDb, ReadPublicUri,
              WritePublicUri, Launch, Wait, RevokeEndpoint, RevokeEndpointDb,
              ReadCredentials, AddRedirect, GetToken, servers
<1> QED BY ONLY <1>2, <1>3, <1>4, VaultComesFirst, CoreKnows
        DEF VaultComesFirst, CredentialsAgree, CoreKnows

\* The invariant is inductive: every step of the specification keeps it.
LEMMA InductiveKept == TypeOK /\ Inductive /\ [Next]_vars => Inductive'
<1> SUFFICES ASSUME TypeOK, Inductive, [Next]_vars PROVE Inductive'
  OBVIOUS
<1>1. VaultComesFirst /\ CoreKnows /\ ApiKnows /\ LiveStackHasItsSecrets
  BY DEF Inductive
<1>2. /\ vault \in Store /\ keycloak \in Server /\ stack \in Stack
      /\ core \in CoreRun /\ api \in ApiRun
  BY DEF TypeOK
<1>3. CASE PostInit
  <2>1. UNCHANGED <<vault, keycloak, stack, api, patient>>
    BY <1>3 DEF PostInit, CoreAt, bounds
  <2>2. core'.pc = "initialize" /\ core'.password \in Passwords /\ core'.realm \in Passwords
    BY <1>3, PasswordsAreNew DEF PostInit, NoCore
  <2>3. core'.password # None /\ core'.realm # None
    BY <2>2, SecretsConstants
  <2>4. CoreKnows'
    BY <2>2, <2>3 DEF CoreKnows, AfterAuth, AfterKeycloak, AfterRealm
  <2>5. VaultComesFirst' /\ ApiKnows' /\ LiveStackHasItsSecrets'
    BY <1>1, <2>1 DEF VaultComesFirst, CredentialsAgree, ApiKnows, LiveStackHasItsSecrets
  <2> QED BY <2>4, <2>5 DEF Inductive
<1>4. CASE CoreStep
  BY <1>1, <1>4, CoreStepsKeepVaultFirst, CoreStepsKeepApi DEF Inductive
<1>5. CASE ApiStep
  BY <1>1, <1>5, ApiStepsKeepApi, ApiStepsKeepCore DEF Inductive
<1>6. CASE CoreDies
  <2>1. UNCHANGED <<vault, keycloak, stack, api, patient>>
    BY <1>6 DEF CoreDies, servers
  <2>2. CoreKnows'
    BY <1>6 DEF CoreDies, NoCore, CoreKnows, AfterAuth, AfterKeycloak, AfterRealm
  <2>3. VaultComesFirst' /\ ApiKnows' /\ LiveStackHasItsSecrets'
    BY <1>1, <2>1 DEF VaultComesFirst, CredentialsAgree, ApiKnows, LiveStackHasItsSecrets
  <2> QED BY <2>2, <2>3 DEF Inductive
<1>7. ASSUME UNCHANGED <<vault, core>>,
             keycloak'.admin = keycloak.admin, keycloak'.bossadmin = keycloak.bossadmin
      PROVE  VaultComesFirst' /\ CoreKnows'
  BY <1>1, <1>7 DEF VaultComesFirst, CredentialsAgree, CoreKnows
<1>8. CASE CreateApi
  <2>1. ApiKnows' /\ LiveStackHasItsSecrets'
    BY <1>1, <1>8 DEF CreateApi, ApiAt, NoApi, servers, bounds, ApiKnows,
                      LiveStackHasItsSecrets, BeforeLaunch
  <2> QED BY <1>7, <1>8, <2>1 DEF Inductive, CreateApi, ApiAt, servers
<1>9. CASE PostInitApi
  <2>1. ApiKnows' /\ LiveStackHasItsSecrets'
    BY <1>1, <1>9 DEF PostInitApi, ApiAt, NoApi, servers, bounds, ApiKnows,
                      LiveStackHasItsSecrets, BeforeLaunch
  <2> QED BY <1>7, <1>9, <2>1 DEF Inductive, PostInitApi, ApiAt, servers
<1>10. CASE DeleteApi
  <2>1. ApiKnows' /\ LiveStackHasItsSecrets'
    BY <1>1, <1>10 DEF DeleteApi, ApiAt, bounds, ApiKnows, LiveStackHasItsSecrets,
                       BeforeLaunch
  <2> QED BY <1>7, <1>10, <2>1 DEF Inductive, DeleteApi, ApiAt
<1>11. CASE ApiDies
  <2>1. ApiKnows' /\ LiveStackHasItsSecrets'
    BY <1>1, <1>11 DEF ApiDies, NoApi, servers, ApiKnows, LiveStackHasItsSecrets,
                       BeforeLaunch
  <2> QED BY <1>7, <1>11, <2>1 DEF Inductive, ApiDies, servers
<1>12. CASE ApiRaises
  <2>1. ApiKnows' /\ LiveStackHasItsSecrets'
    BY <1>1, <1>2, <1>12 DEF ApiRaises, ApiGoes, ApiRun, servers, ApiKnows,
                             LiveStackHasItsSecrets, BeforeLaunch
  <2> QED BY <1>7, <1>12, <2>1 DEF Inductive, ApiRaises, servers
<1>13. CASE CloudFormation
  <2>1. ApiKnows' /\ LiveStackHasItsSecrets'
    BY <1>1, <1>2, <1>13 DEF CloudFormation, Stack, bounds, ApiKnows,
                             LiveStackHasItsSecrets, BeforeLaunch
  <2> QED BY <1>7, <1>13, <2>1 DEF Inductive, CloudFormation
<1>14. CASE UNCHANGED vars
  <2>1. UNCHANGED <<vault, core, keycloak, stack, api, patient>>
    BY <1>14 DEF vars
  <2>2. ApiKnows' /\ LiveStackHasItsSecrets'
    BY <1>1, <2>1 DEF ApiKnows, LiveStackHasItsSecrets
  <2> QED BY <1>7, <2>1, <2>2 DEF Inductive
<1> QED BY <1>3, <1>4, <1>5, <1>6, <1>8, <1>9, <1>10, <1>11, <1>12, <1>13, <1>14 DEF Next

--------------------------------------------------------------------------------
\* What is stored has its type in every state, and past the file with Vault's token no
\* step of post_init of core is taken without it.
THEOREM TypeCorrect == Spec => []TypeOK
<1>1. Init => TypeOK
  BY InductiveInit
<1>2. TypeOK /\ [Next]_vars => TypeOK'
  BY TypesKept
<1> QED BY <1>1, <1>2, PTL DEF Spec

\* What each run of core or api may assume at each of its steps, whatever the other does.
THEOREM RunsKnow == Spec => []Inductive
<1>1. Init => Inductive
  BY InductiveInit
<1>2. TypeOK /\ Inductive /\ [Next]_vars => Inductive'
  BY InductiveKept
<1> QED BY <1>1, <1>2, TypeCorrect, PTL DEF Spec

\* post_init of core, run any number of times and stopped anywhere, keeps the passwords
\* in Vault and those of the Keycloak users the same.
THEOREM CredentialsStayInAgreement == Spec => []CredentialsAgree
<1>1. Inductive => CredentialsAgree
  BY DEF Inductive, VaultComesFirst
<1> QED BY <1>1, RunsKnow, PTL

\* "revoking secrets" never takes those of an api stack that is up or may come up, as
\* long as nothing raises while the stack is created.
THEOREM LiveStackKeepsItsSecrets == Spec => []LiveStackHasItsSecrets
<1>1. Inductive => LiveStackHasItsSecrets
  BY DEF Inductive
<1> QED BY <1>1, RunsKnow, PTL
================================================================================
