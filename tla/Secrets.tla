-------------------------------- MODULE Secrets --------------------------------
(***************************************************************************)
(* The secrets that core and api leave in Vault, in Keycloak and in the     *)
(* stack of the api: post_init of configs/core.py with initialize of        *)
(* lib/vault.py, create and post_init of configs/api.py.  One post_init of  *)
(* core and one command on api may be under way at a time; nothing but the  *)
(* existence of the core stack orders them.  Each call to Vault, Keycloak   *)
(* or CloudFormation is a step, and each may be the last one of its run.    *)
(***************************************************************************)
EXTENDS Naturals

CONSTANTS Passwords,    \* generate_password makes one that nothing uses
          MaxCrashes    \* bound: runs that die or raise in the middle

None == 0

ASSUME SecretsConstants ==
    /\ MaxCrashes \in Nat
    /\ None \notin Passwords
    /\ \A p, q, r \in Passwords \cup {None} : Passwords \ {p, q, r} # {}

VARIABLES vault,      \* initialized, and what is stored, by path
          tokenFile,  \* vault_token is in the private directory
          keycloak,   \* the server: its two users, and the client's redirect
          stack,      \* of the api: its status and the password of its database
          core,       \* post_init of core
          api,        \* create or post_init of api
          ready,      \* post_init of core has come to its end
          crashes,
          patient     \* assumed of a behaviour: no exception, KeyboardInterrupt
                      \* included, while the stack of the api is created

vars == <<vault, tokenFile, keycloak, stack, core, api, ready, crashes, patient>>
servers == <<keycloak, stack>>
bounds == <<crashes, patient>>

Store == [initialized : BOOLEAN,
          auth : Passwords \cup {None},                    \* VAULT_AUTH
          keycloak : Passwords \cup {None},                \* VAULT_KEYCLOAK
          master : BOOLEAN,                                \* its realm key
          realm : Passwords \cup {None},                   \* VAULT_REALM
          endpointAuth : SUBSET {"url", "public_uri"},     \* VAULT_ENDPOINT_AUTH
          endpoint : BOOLEAN,                              \* VAULT_ENDPOINT
          endpointDb : Passwords \cup {None}]              \* VAULT_ENDPOINT_DB

Server == [admin : Passwords \cup {None}, bossadmin : Passwords \cup {None},
           redirect : BOOLEAN]

Stack == [status : {"none", "creating", "up", "failed"}, password : Passwords \cup {None}]

CoreSteps == {"initialize", "save token", "auth", "write auth", "keycloak",
              "write keycloak", "realm", "write realm", "endpoint auth", "read url",
              "write url", "admin", "log in"}

ApiSteps == {"write endpoint", "write db", "read uri", "write uri", "launch", "wait",
             "revoke endpoint", "revoke db", "credentials", "redirect", "token"}

CoreRun == [pc : CoreSteps \cup {"idle"}, password : Passwords \cup {None},
            realm : Passwords \cup {None}, update : BOOLEAN,
            seen : SUBSET {"url", "public_uri"}]

ApiRun == [pc : ApiSteps \cup {"idle"}, password : Passwords \cup {None},
           seen : SUBSET {"url", "public_uri"}]

NoCore == [pc |-> "idle", password |-> None, realm |-> None, update |-> FALSE, seen |-> {}]
NoApi == [pc |-> "idle", password |-> None, seen |-> {}]

Init ==
    /\ vault = [initialized |-> FALSE, auth |-> None, keycloak |-> None, master |-> FALSE,
                realm |-> None, endpointAuth |-> {}, endpoint |-> FALSE,
                endpointDb |-> None]
    /\ tokenFile = FALSE
    /\ keycloak = [admin |-> None, bossadmin |-> None, redirect |-> FALSE]
    /\ stack = [status |-> "none", password |-> None]
    /\ core = NoCore
    /\ api = NoApi
    /\ ready = FALSE
    /\ crashes = 0
    /\ patient \in BOOLEAN

Fresh(used) == CHOOSE p \in Passwords : p \notin used

CoreAt(pc) == core.pc = pc /\ UNCHANGED <<api, stack, bounds>>
ApiAt(pc) == api.pc = pc /\ UNCHANGED <<core, tokenFile, ready, bounds>>
CoreGoes(pc) == core' = [core EXCEPT !.pc = pc]
ApiGoes(pc) == api' = [api EXCEPT !.pc = pc]

--------------------------------------------------------------------------------
\* post_init of core.  The command needs the core stack only.
PostInit ==
    /\ CoreAt("idle")
    /\ core' = [NoCore EXCEPT
                  !.pc = "initialize",
                  !.password = Fresh({vault.auth, vault.keycloak, keycloak.admin}),
                  !.realm = Fresh({vault.realm, keycloak.bossadmin})]
    /\ UNCHANGED <<vault, tokenFile, keycloak, ready>>

\* The root token is given out once, when Vault is initialized.  Without the file
\* everything after that raises VaultError.
Initialize ==
    /\ CoreAt("initialize")
    /\ vault' = [vault EXCEPT !.initialized = TRUE]
    /\ CoreGoes(IF ~ vault.initialized THEN "save token"
                ELSE IF tokenFile THEN "auth" ELSE "idle")
    /\ UNCHANGED <<tokenFile, keycloak, ready>>

SaveToken ==
    /\ CoreAt("save token")
    /\ tokenFile' = TRUE
    /\ CoreGoes("auth")
    /\ UNCHANGED <<vault, keycloak, ready>>

ReadAuthOnlyToLog ==
    /\ CoreAt("auth")
    /\ CoreGoes("write auth")
    /\ UNCHANGED <<vault, tokenFile, keycloak, ready>>

\* A password that is there is kept.
ReadAuth ==
    /\ CoreAt("auth")
    /\ core' = IF vault.auth = None THEN [core EXCEPT !.pc = "write auth"]
               ELSE [core EXCEPT !.pc = "keycloak", !.password = vault.auth]
    /\ UNCHANGED <<vault, tokenFile, keycloak, ready>>

WriteAuth ==
    /\ CoreAt("write auth")
    /\ vault' = [vault EXCEPT !.auth = core.password]
    /\ CoreGoes("keycloak")
    /\ UNCHANGED <<tokenFile, keycloak, ready>>

\* One that differs from that of auth wins; VAULT_AUTH stays as it is.
ReadKeycloak ==
    /\ CoreAt("keycloak")
    /\ core' = CASE vault.keycloak = None ->
                      [core EXCEPT !.pc = "write keycloak", !.update = TRUE]
                 [] vault.keycloak = core.password -> [core EXCEPT !.pc = "realm"]
                 [] OTHER -> [core EXCEPT !.pc = "write keycloak", !.update = FALSE,
                                          !.password = vault.keycloak]
    /\ UNCHANGED <<vault, tokenFile, keycloak, ready>>

\* The update names the realm, the rewrite does not.
WriteKeycloak ==
    /\ CoreAt("write keycloak")
    /\ vault' = [vault EXCEPT !.keycloak = core.password, !.master = core.update]
    /\ CoreGoes("realm")
    /\ UNCHANGED <<tokenFile, keycloak, ready>>

\* The same for bossadmin's.
ReadRealm ==
    /\ CoreAt("realm")
    /\ core' = IF vault.realm = None THEN [core EXCEPT !.pc = "write realm"]
               ELSE [core EXCEPT !.pc = "endpoint auth", !.realm = vault.realm]
    /\ UNCHANGED <<vault, tokenFile, keycloak, ready>>

WriteRealm ==
    /\ CoreAt("write realm")
    /\ vault' = [vault EXCEPT !.realm = core.realm]
    /\ CoreGoes("endpoint auth")
    /\ UNCHANGED <<tokenFile, keycloak, ready>>

\* The url is left out when there is anything at VAULT_ENDPOINT_AUTH.
CheckEndpointAuth ==
    /\ CoreAt("endpoint auth")
    /\ CoreGoes(IF vault.endpointAuth = {} THEN "read url" ELSE "admin")
    /\ UNCHANGED <<vault, tokenFile, keycloak, ready>>

\* Vault.update reads what is there and writes it back with the new keys.
ReadUrl ==
    /\ CoreAt("read url")
    /\ core' = [core EXCEPT !.pc = "write url", !.seen = vault.endpointAuth]
    /\ UNCHANGED <<vault, tokenFile, keycloak, ready>>

WriteUrl ==
    /\ CoreAt("write url")
    /\ vault' = [vault EXCEPT !.endpointAuth = core.seen \cup {"url"}]
    /\ CoreGoes("admin")
    /\ UNCHANGED <<tokenFile, keycloak, ready>>

AddAdminOnce ==
    /\ CoreAt("admin")
    /\ IF keycloak.admin = None
       THEN CoreGoes("log in") /\ keycloak' = [keycloak EXCEPT !.admin = core.password]
       ELSE core' = NoCore /\ UNCHANGED keycloak
    /\ UNCHANGED <<vault, tokenFile, ready>>

\* "This fails if the user already exists, but execution will continue."
AddAdmin ==
    /\ CoreAt("admin")
    /\ keycloak' = [keycloak EXCEPT !.admin = IF @ = None THEN core.password ELSE @]
    /\ CoreGoes("log in")
    /\ UNCHANGED <<vault, tokenFile, ready>>

\* The same goes for the realm, once the login has worked.
CreateRealm ==
    /\ CoreAt("log in")
    /\ core' = NoCore
    /\ IF core.password = keycloak.admin
       THEN /\ keycloak' = [keycloak EXCEPT !.bossadmin = IF @ = None THEN core.realm ELSE @]
            /\ ready' = TRUE
       ELSE UNCHANGED <<keycloak, ready>>
    /\ UNCHANGED <<vault, tokenFile>>

CoreStep ==
    \/ Initialize \/ SaveToken \/ ReadAuth \/ WriteAuth \/ ReadKeycloak \/ WriteKeycloak
    \/ ReadRealm \/ WriteRealm \/ CheckEndpointAuth \/ ReadUrl \/ WriteUrl
    \/ AddAdmin \/ CreateRealm

--------------------------------------------------------------------------------
\* create of api, which build_dependency_graph lets through while there is no stack
\* of it.  Without a token file it ends at once.
CreateApi ==
    /\ ApiAt("idle")
    /\ tokenFile /\ stack.status = "none"
    /\ api' = [NoApi EXCEPT !.pc = "write endpoint",
                            !.password = Fresh({vault.endpointDb, stack.password})]
    /\ UNCHANGED <<vault, servers>>

WriteEndpoint ==
    /\ ApiAt("write endpoint")
    /\ vault' = [vault EXCEPT !.endpoint = TRUE]
    /\ ApiGoes("write db")
    /\ UNCHANGED servers

WriteEndpointDb ==
    /\ ApiAt("write db")
    /\ vault' = [vault EXCEPT !.endpointDb = api.password]
    /\ ApiGoes("read uri")
    /\ UNCHANGED servers

ReadPublicUri ==
    /\ ApiAt("read uri")
    /\ api' = [api EXCEPT !.pc = "write uri", !.seen = vault.endpointAuth]
    /\ UNCHANGED <<vault, servers>>

WritePublicUri ==
    /\ ApiAt("write uri")
    /\ vault' = [vault EXCEPT !.endpointAuth = api.seen \cup {"public_uri"}]
    /\ ApiGoes("launch")
    /\ UNCHANGED servers

Launch ==
    /\ ApiAt("launch")
    /\ stack' = [status |-> "creating", password |-> api.password]
    /\ ApiGoes("wait")
    /\ UNCHANGED <<vault, keycloak>>

Wait ==
    /\ ApiAt("wait")
    /\ stack.status \in {"up", "failed"}
    /\ ApiGoes(IF stack.status = "up" THEN "credentials" ELSE "revoke endpoint")
    /\ UNCHANGED <<vault, servers>>

RevokeEndpoint ==
    /\ ApiAt("revoke endpoint")
    /\ vault' = [vault EXCEPT !.endpoint = FALSE]
    /\ ApiGoes("revoke db")
    /\ UNCHANGED servers

RevokeEndpointDb ==
    /\ ApiAt("revoke db")
    /\ vault' = [vault EXCEPT !.endpointDb = None]
    /\ api' = NoApi
    /\ UNCHANGED servers

\* post_init by itself.
PostInitApi ==
    /\ ApiAt("idle")
    /\ tokenFile /\ stack.status = "up"
    /\ api' = [NoApi EXCEPT !.pc = "credentials"]
    /\ UNCHANGED <<vault, servers>>

ReadCredentialsInTry ==
    /\ ApiAt("credentials")
    /\ ApiGoes(IF vault.auth # None /\ "url" \in vault.endpointAuth THEN "redirect"
               ELSE "revoke endpoint")
    /\ UNCHANGED <<vault, servers>>

\* vault.read(...)['url'] raises KeyError without a url; what VAULT_AUTH and
\* VAULT_REALM hold is read with it and does not change once it is there.
ReadCredentials ==
    /\ ApiAt("credentials")
    /\ api' = IF "url" \in vault.endpointAuth THEN [api EXCEPT !.pc = "redirect"]
              ELSE NoApi
    /\ UNCHANGED <<vault, servers>>

\* It takes the administrator's login and the realm that post_init of core creates.
AddRedirect ==
    /\ ApiAt("redirect")
    /\ IF vault.auth = keycloak.admin /\ keycloak.bossadmin # None
       THEN ApiGoes("token") /\ keycloak' = [keycloak EXCEPT !.redirect = TRUE]
       ELSE api' = NoApi /\ UNCHANGED keycloak
    /\ UNCHANGED <<vault, stack>>

\* The token of bossadmin, and with it the group of the ingest users.
GetToken ==
    /\ ApiAt("token")
    /\ api' = NoApi
    /\ UNCHANGED <<vault, servers>>

\* A deletion leaves the secrets where they are.
DeleteApi ==
    /\ ApiAt("idle")
    /\ stack.status \in {"up", "failed"}
    /\ stack' = [status |-> "none", password |-> None]
    /\ UNCHANGED <<vault, keycloak, api>>

ApiStep ==
    \/ WriteEndpoint \/ WriteEndpointDb \/ ReadPublicUri \/ WritePublicUri \/ Launch \/ Wait
    \/ RevokeEndpoint \/ RevokeEndpointDb \/ ReadCredentials \/ AddRedirect \/ GetToken

--------------------------------------------------------------------------------
CloudFormation ==
    /\ stack.status = "creating"
    /\ \E s \in {"up", "failed"} : stack' = [stack EXCEPT !.status = s]
    /\ UNCHANGED <<vault, tokenFile, keycloak, core, api, ready, bounds>>

Crash == crashes < MaxCrashes /\ crashes' = crashes + 1

CoreDies ==
    /\ core.pc # "idle" /\ Crash
    /\ core' = NoCore
    /\ UNCHANGED <<vault, tokenFile, servers, api, ready, patient>>

ApiDies ==
    /\ api.pc # "idle" /\ Crash
    /\ api' = NoApi
    /\ UNCHANGED <<vault, tokenFile, servers, core, ready, patient>>

\* The bare except around config.create.
ApiRaises ==
    /\ api.pc \in {"launch", "wait"} /\ ~ patient /\ Crash
    /\ ApiGoes("revoke endpoint")
    /\ UNCHANGED <<vault, tokenFile, servers, core, ready, patient>>

Next ==
    \/ PostInit \/ CoreStep \/ CoreDies
    \/ CreateApi \/ PostInitApi \/ DeleteApi \/ ApiStep \/ ApiDies \/ ApiRaises
    \/ CloudFormation

\* An operator runs post_init of core again as long as it fails, as the messages at the
\* end of bin/cloudformation.py say.
Fairness == WF_vars(CoreStep) /\ SF_vars(PostInit /\ ~ ready)

Spec == Init /\ [][Next]_vars
FairSpec == Spec /\ Fairness

--------------------------------------------------------------------------------
\* Besides the types: nothing is written to Vault before the token is on disk.
TypeOK ==
    /\ vault \in Store /\ keycloak \in Server /\ stack \in Stack
    /\ core \in CoreRun /\ api \in ApiRun
    /\ tokenFile \in BOOLEAN /\ ready \in BOOLEAN /\ patient \in BOOLEAN
    /\ core.pc \notin {"idle", "initialize", "save token"} => tokenFile
    /\ crashes \in 0 .. MaxCrashes

\* What Vault says of the two Keycloak users is what Keycloak was told, and its two
\* entries for the administrator agree, wherever earlier runs of post_init stopped and
\* although each of them made passwords of its own.
CredentialsAgree ==
    /\ vault.keycloak # None => vault.keycloak = vault.auth /\ vault.master
    /\ keycloak.admin # None => keycloak.admin = vault.keycloak
    /\ keycloak.bossadmin # None => keycloak.bossadmin = vault.realm

\* An api stack that is up, or may come up, finds in Vault its key and the password
\* that its database was made with: "revoking secrets" is for stacks that failed.
\* Assumed: no exception while the stack is created, for any exception revokes.
LiveStackHasItsSecrets ==
    patient /\ stack.status \in {"creating", "up"} =>
        vault.endpoint /\ vault.endpointDb = stack.password

TokenIsLost == vault.initialized /\ ~ tokenFile /\ core.pc # "save token"

\* "Then run the following command: post-init": repeated, it gets through, however it
\* was interrupted, unless that was between the initialization of Vault and the file
\* with its token.
PostInitConverges == <>ready \/ <>[]TokenIsLost

\* configs/api.py: post_init is "outside the try/except so it can be run again if there
\* is an error".  With core set up to its end, no run of it ends for lack of a url.
PostInitCanBeRepeated ==
    [][(api.pc = "credentials" /\ ready /\ api'.pc = "idle") => crashes' > crashes]_vars

--------------------------------------------------------------------------------
(***************************************************************************)
(* The inductive invariant behind CredentialsAgree and                     *)
(* LiveStackHasItsSecrets: what a run knows of the state at each step.      *)
(***************************************************************************)

\* A secret is in Vault before Keycloak is told.
VaultComesFirst ==
    /\ CredentialsAgree
    /\ vault.keycloak # None => vault.auth # None
    /\ keycloak.admin # None => vault.keycloak # None
    /\ keycloak.bossadmin # None => vault.realm # None

AfterRealm == {"endpoint auth", "read url", "write url", "admin", "log in"}
AfterKeycloak == AfterRealm \cup {"realm", "write realm"}
AfterAuth == AfterKeycloak \cup {"keycloak", "write keycloak"}

CoreKnows ==
    /\ core.pc # "idle" => core.password # None /\ core.realm # None
    /\ core.pc = "write auth" => vault.auth = None
    /\ core.pc \in AfterAuth => vault.auth = core.password
    /\ core.pc = "write keycloak" => core.update /\ vault.keycloak = None
    /\ core.pc \in AfterKeycloak => vault.keycloak = core.password
    /\ core.pc = "write realm" => vault.realm = None
    /\ core.pc \in AfterRealm => vault.realm = core.realm

BeforeLaunch == {"write endpoint", "write db", "read uri", "write uri", "launch"}

ApiKnows ==
    /\ api.pc \in BeforeLaunch => stack.status = "none"
    /\ api.pc \in BeforeLaunch \ {"write endpoint"} => vault.endpoint
    /\ api.pc \in {"read uri", "write uri", "launch"} => vault.endpointDb = api.password
    /\ patient /\ api.pc \in {"revoke endpoint", "revoke db"} => stack.status = "failed"

\* What a run of core remembers is what Vault holds at the path it has passed, and a
\* path that it is about to write is still empty; an api that is being created has its
\* secrets there before its stack.  The properties above follow from this, and every
\* step keeps it.
Inductive == VaultComesFirst /\ CoreKnows /\ ApiKnows /\ LiveStackHasItsSecrets

================================================================================
