------------------------------ MODULE Templates ------------------------------
(***************************************************************************)
(* The stacks of one bosslet, seen through their templates: what create,   *)
(* update and delete of the configurations build, launch and remove, and   *)
(* what of it the next configuration finds.  One command runs at a time;   *)
(* how commands interleave, wait and roll back is in StackLifecycle.       *)
(***************************************************************************)
EXTENDS Configs, Naturals

CONSTANTS AllZones,    \* the availability zones the region may come to have
          FirstZones,  \* those it has at first
          Limited,     \* the zones AVAILABILITY_ZONE_USAGE leaves for lambdas
                       \* and pipelines
          MaxTroubles, \* bound: deletions, updates and failures together
          MaxLeaves    \* bound: stacks at a time that no other depends on

ASSUME ZonesAssumption ==
  /\ FirstZones \subseteq AllZones
  /\ FirstZones \cap Limited # {}
  /\ \A z \in AllZones : {InternalKey(z), ExternalKey(z)} \cap LambdaKeys = {}
  /\ MaxTroubles \in Nat /\ MaxLeaves \in Nat

VARIABLES setting,   \* AUTH_RDS and REDIS_SESSION_TYPE
          zones,     \* the availability zones of the region
          stacks,    \* configuration |-> its stack: whether it is there, the
                     \* things it created and those of them it will keep
          loose,     \* things no stack owns: kept buckets, upload queues
          building,  \* the command that runs, with its template
          troubles   \* how many deletions, updates and failures there were

bosslet == <<setting, zones, stacks, loose, building, troubles>>

NoStack == [status |-> "none", owns |-> {}, keeps |-> {}]
Broken(owns, keeps) == [status |-> "broken", owns |-> owns, keeps |-> keeps]
Idle == [op |-> "none", config |-> "core", zone |-> "a", template |-> EmptyTemplate]

\* Things of the account that no configuration creates.
ACCOUNT == {Topic, ExternalZone, <<"export", StepFcnRole>>}

Owned == UNION {stacks[c].owns : c \in ConfigNames}
there == ACCOUNT \union loose \union Owned

\* azs_lookup: all zones, or those AVAILABILITY_ZONE_USAGE leaves for a use.
azs_lookup(limits) == zones \cap limits

Setting ==
  [rds |-> setting.rds, session |-> setting.session, there |-> there,
   zones |-> zones, asg |-> azs_lookup(AllZones), lambda |-> azs_lookup(Limited)]

Deployed(c) == stacks[c].status = "deployed"

BossletTypeOK ==
  /\ setting \in [rds : BOOLEAN, session : BOOLEAN]
  /\ FirstZones \subseteq zones /\ zones \subseteq AllZones
  /\ \A c \in ConfigNames :
       /\ stacks[c].status \in {"none", "deployed", "broken"}
       /\ stacks[c].status = "none" => stacks[c] = NoStack
       /\ stacks[c].keeps \subseteq stacks[c].owns
  /\ building.op \in {"none", "create", "update"}
  /\ building.config \in ConfigNames
  /\ troubles \in 0..MaxTroubles
  /\ \A t \in there : t[1] \in DOMAIN RESOURCES => IsAName(t)

BossletInit ==
  /\ setting \in [rds : BOOLEAN, session : BOOLEAN]
  /\ zones = FirstZones
  /\ stacks = [c \in ConfigNames |-> NoStack]
  /\ loose = {}
  /\ building = Idle
  /\ troubles = 0

Trouble == troubles < MaxTroubles /\ troubles' = troubles + 1

-----------------------------------------------------------------------------
(***************************************************************************)
(* create and update: create_config looks up and builds.                   *)
(***************************************************************************)
Build(op, c) ==
  /\ building.op = "none"
  /\ \E zone \in azs_lookup(Limited) :
       /\ c = "backup" \/ zone = CHOOSE z \in azs_lookup(Limited) : TRUE
       /\ building' = [op |-> op, config |-> c, zone |-> zone,
                        template |-> create_config(c, Setting, zone)]
  /\ UNCHANGED <<setting, zones, stacks, loose>>

Leaves == {c \in ConfigNames : \A d \in ConfigNames : c \notin DEPENDENCIES[d]}
RoomFor(c) ==
  c \in Leaves => Cardinality({d \in Leaves : stacks[d].status # "none"}) < MaxLeaves

\* The dependencies have to be there by name (build_dependency_graph).
Create(c) ==
  /\ stacks[c].status = "none" /\ RoomFor(c)
  /\ \A d \in DEPENDENCIES[c] : stacks[d].status # "none"
  /\ Build("create", c)
  /\ UNCHANGED troubles

\* core is not updated without an external database.
Update(c) ==
  /\ Deployed(c)
  /\ c = "core" => setting.rds
  /\ Trouble
  /\ Build("update", c)

\* A lookup that raises ends the command.  Of a template CloudFormation needs
\* that its references resolve and the things named in it exist; a lookup
\* that answered None is refused as the value of an argument or property.
\* Only the subnet of a pipeline is left out when it is None.
Launches(template) ==
  /\ template.must \subseteq there
  /\ \A k \in DOMAIN template.res :
       /\ template.res[k].refs \subseteq DOMAIN template.res \union template.args
       /\ template.res[k].names \subseteq there \union Makes(template)
  /\ building.config = "backup" \/ template.may \subseteq there

\* The stack now has what its template says.  Buckets that were in the old
\* template and are not in the new one stay, outside of the stack.
Launched ==
  LET c == building.config
      template == building.template
  IN /\ building.op # "none"
     /\ Launches(template)
     /\ stacks' = [stacks EXCEPT ![c] =
                     [status |-> "deployed", owns |-> Makes(template),
                      keeps |-> Kept(template)]]
     /\ loose' = (loose \union stacks[c].keeps) \ Makes(template)
     /\ building' = Idle
     /\ UNCHANGED <<setting, zones, troubles>>

\* A creation is rolled back: of what it had created the kept part stays.  An
\* update is rolled back to the stack as it was.
LaunchFails ==
  LET c == building.config IN
  /\ building.op # "none"
  /\ Trouble
  /\ \/ /\ building.op = "create"
        /\ \E made \in {{}, Kept(building.template)} : loose' = loose \union made
        /\ stacks' = [stacks EXCEPT ![c] = Broken({}, {})]
     \/ building.op = "update" /\ UNCHANGED <<stacks, loose>>
  /\ building' = Idle
  /\ UNCHANGED <<setting, zones>>

\* create_config raises, CloudFormation refuses the template, or an update has
\* nothing to change.
Refused ==
  /\ building.op # "none"
  /\ building.op = "update" \/ ~ Launches(building.template)
  /\ building' = Idle
  /\ UNCHANGED <<setting, zones, stacks, loose, troubles>>

-----------------------------------------------------------------------------
(***************************************************************************)
(* delete                                                                  *)
(***************************************************************************)
\* sqs_delete_all, which only delete of api calls, and the queues it hits: of the
\* domain of the bosslet whatever stack owns them, if they are written that way.
sqs_delete_all(c) ==
  IF c = "api" THEN {t \in there : t[1] \in {"sqs", "upload"} /\ StartsWithDomain(t)}
  ELSE {}

\* CloudFormation cannot remove exports that another stack imports, nor the
\* network while other stacks have machines in it.
InUse(c) ==
  \/ c = "api" /\ stacks["idindexing"].owns # {}
  \/ c = "core" /\ \E d \in {"redis", "api", "cachedb", "activities", "cloudwatch"} :
                     stacks[d].owns # {}

\* The queues go first; then the stack goes, except for what it keeps, or
\* fails to: then any part of it may be gone.
Delete(c) ==
  /\ building.op = "none" /\ stacks[c].status # "none"
  /\ Trouble
  /\ LET swept == sqs_delete_all(c)
         left  == [d \in ConfigNames |->
                     [stacks[d] EXCEPT !.owns = @ \ swept, !.keeps = @ \ swept]]
     IN \/ /\ ~ InUse(c)
           /\ stacks' = [left EXCEPT ![c] = NoStack]
           /\ loose' = (loose \ swept) \union left[c].keeps
        \/ /\ stacks' = [left EXCEPT ![c] = Broken(left[c].owns, left[c].keeps)]
           /\ loose' = loose \ swept
        \/ /\ ~ InUse(c)
           /\ stacks' = [left EXCEPT ![c] = Broken({}, {})]
           /\ loose' = (loose \ swept) \union left[c].keeps
  /\ UNCHANGED <<setting, zones, building>>

-----------------------------------------------------------------------------
(***************************************************************************)
(* The surroundings                                                        *)
(***************************************************************************)
\* The endpoint creates the upload queue of an ingest job.
IngestStarts ==
  /\ Deployed("api") /\ UploadQueue \notin loose /\ building.op = "none"
  /\ loose' = loose \union {UploadQueue}
  /\ UNCHANGED <<setting, zones, stacks, building, troubles>>

\* AWS opens an availability zone in the region.
ZoneOpens ==
  /\ zones # AllZones /\ building.op = "none"
  /\ \E z \in AllZones \ zones : zones' = zones \union {z}
  /\ UNCHANGED <<setting, stacks, loose, building, troubles>>

BossletNext ==
  \/ \E c \in ConfigNames : Create(c) \/ Update(c) \/ Delete(c)
  \/ Launched \/ LaunchFails \/ Refused
  \/ IngestStarts \/ ZoneOpens

BossletSpec == BossletInit /\ [][BossletNext]_bosslet

-----------------------------------------------------------------------------
(***************************************************************************)
(* Properties                                                              *)
(***************************************************************************)
\* The configurations each one stands on, directly or not, are all deployed.
Under ==
  [c \in ConfigNames |->
     LET Depth[n \in 0..Cardinality(ConfigNames)] ==
           IF n = 0 THEN DEPENDENCIES[c]
           ELSE LET nearer == Depth[n - 1]
                IN nearer \union UNION {DEPENDENCIES[d] : d \in nearer}
     IN Depth[Cardinality(ConfigNames)]]
Sound(c) == \A d \in Under[c] : Deployed(d)

\* What resource k of a template is created after.
Before(template, k) ==
  LET own(S) == UNION {template.res[x].refs : x \in S} \cap DOMAIN template.res
      Depth[n \in 0..10] ==
        IF n = 0 THEN own({k})
        ELSE LET nearer == Depth[n - 1] IN nearer \union own(nearer)
  IN Depth[10]

IsBucketPolicy(resource) ==
  resource.refs = {} /\ \E t \in resource.names : t[1] = "s3"

\* No call of a template replaces the resource of an earlier one, and
\* CloudFormation can create the resources of every template in some order:
\* references resolve, none waits for itself, and a resource that names a
\* thing of the same template by text waits for it.  Only bucket policies do
\* not: CloudFormation may create them before their bucket.
CanBeCreated ==
  LET template == building.template
      keys == DOMAIN template.res
  IN /\ template.twice = {}
     /\ building.op # "none" /\ Sound(building.config) =>
          /\ \A k \in keys :
               /\ template.res[k].refs \subseteq keys \union template.args
               /\ k \notin Before(template, k)
               /\ \A t \in template.res[k].names \ there :
                    \/ \E m \in Before(template, k) : t \in template.res[m].makes
                    \/ IsBucketPolicy(template.res[k]) /\ t \in Makes(template)
          /\ building.config = "backup" =>
               LET subnet == BackupSubnet(Setting, building.zone)
               IN /\ Pipelines!Resolves(VaultPipeline(subnet))
                  /\ Pipelines!Resolves(rds_copy(subnet))
                  /\ Pipelines!Resolves(DDBPipeline)

\* On deployed dependencies every lookup of create_config finds its thing.
\* The exception is the subnet of the backup pipelines, in a zone that opened
\* after core created the subnets.
LookupsFind ==
  building.op # "none" /\ Sound(building.config) =>
    /\ building.template.must \subseteq there
    /\ building.template.may \subseteq
         there \union {Subnet(InternalKey(z)) : z \in zones \ FirstZones}

\* No two resources, of one stack or of two, create a thing of the same name,
\* and none a thing that is there already: a bucket that outlived its stack is
\* not created again.
NamesAreUnique ==
  /\ \A k, m \in DOMAIN building.template.res :
       k # m => building.template.res[k].makes \cap building.template.res[m].makes = {}
  /\ \A c, d \in ConfigNames : c # d => stacks[c].owns \cap stacks[d].owns = {}
  /\ building.op # "none" =>
       Makes(building.template) \cap (there \ stacks[building.config].owns) = {}

\* Buckets outlive every command: creations that are rolled back, updates
\* whose template has them no more, and deletions, complete or not.
DataIsKept == [][{t \in there : t[1] = "s3"} \subseteq there']_bosslet

\* No command takes anything from the stack of another configuration.  The comment
\* at sqs_delete_all (configs/api.py:397) expects that delete of api takes the queues
\* of others; it would if names.py wrote them with the domain first and dashed.
OthersAreLeftAlone ==
  [][\A c, d \in ConfigNames :
       stacks'[c] # stacks[c] /\ stacks'[d] # stacks[d] => c = d]_bosslet
=============================================================================
