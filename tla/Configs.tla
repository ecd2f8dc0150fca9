------------------------------- MODULE Configs -------------------------------
(***************************************************************************)
(* create_config of the configurations of cloud_formation/configs: the     *)
(* template each one builds, from what it looks up in the account.         *)
(*                                                                         *)
(* A create_config is given the setting it runs in:                        *)
(*   rds, session - AUTH_RDS and REDIS_SESSION_TYPE of the bosslet         *)
(*   zones, asg, lambda, pipeline - the availability zones of the region   *)
(*                  and those AVAILABILITY_ZONE_USAGE leaves for each use  *)
(*   there        - the things that exist, by name                         *)
(* The machine images, roles, profiles and certificates of the account are *)
(* taken to be there (their lookups raise otherwise, before anything is    *)
(* changed) and are left out.                                              *)
(***************************************************************************)
EXTENDS TemplateCalls

Pipelines == INSTANCE DataPipeline

ConfigNames == {"core", "redis", "api", "cachedb", "activities", "idindexing",
                "cloudwatch", "dynamolambda", "backup", "copycuboid"}

\* The DEPENDENCIES of every configuration.
DEPENDENCIESWithoutApi ==
  [core |-> {}, redis |-> {"core"}, api |-> {"core", "redis"},
   cachedb |-> {"core", "redis"},
   activities |-> {"core", "api", "redis", "cachedb"},
   idindexing |-> {"activities", "cachedb"}, cloudwatch |-> {"core", "api"},
   dynamolambda |-> {"api"}, backup |-> {"core", "api"}, copycuboid |-> {}]
DEPENDENCIES ==
  [core |-> {}, redis |-> {"core"}, api |-> {"core", "redis"},
   cachedb |-> {"core", "redis", "api"},
   activities |-> {"core", "api", "redis", "cachedb"},
   idindexing |-> {"activities", "cachedb"}, cloudwatch |-> {"core", "api"},
   dynamolambda |-> {"api"}, backup |-> {"core", "api"}, copycuboid |-> {}]

If(condition, call) == IF condition THEN <<call>> ELSE << >>
OnlyIf(condition, keys) == IF condition THEN keys ELSE {}

DnsTopic == build("dns", "sns")
InternalSg == build("internal", "sg")

-----------------------------------------------------------------------------
(***************************************************************************)
(* core                                                                    *)
(***************************************************************************)
\* create_asg_elb: the group waits for its balancer, which waits for deps.
\* The list of security groups is extended for the balancer after the group
\* was given the same list, so the machines get all of them too.
create_asg_elb(key, hostname, isubnets, esubnets, sgs, deps) ==
  << add_autoscale_group(key, hostname,
                         isubnets \union {key \o "LoadBalancer", "DNSSNS"},
                         {"InternalSecurityGroup"} \union sgs),
     add_loadbalancer(key \o "LoadBalancer", hostname,
                      esubnets \union {"InternalSecurityGroup"} \union sgs \union deps) >>

\* The subnets of its own template.
OwnSubnets(s) ==
  {Subnet(k) : k \in UNION {{InternalKey(z), ExternalKey(z)} : z \in s.zones}}

CoreMachines(s) ==
  << add_vpc, add_subnet("InternalSubnet", build("internal", "subnet")),
     add_subnet("ExternalSubnet", build("external", "subnet")), add_all_subnets(s.zones),
     find_all_subnets(s.asg, OwnSubnets(s)), add_arg("StackName"),
     add_custom_resource("DeleteENI", {"DeleteENILambda", "StackName"}),
     add_lambda("DeleteENILambda", build("delete_eni", "lambda"), {}),
     add_ec2_instance("Bastion", build("bastion", "dns"),
                      {"ExternalSubnet", "InternalSecurityGroup",
                       "BastionSecurityGroup", "AttachInternetGateway"}),
     add_kms_key("VaultKey", build("vault", "key")),
     add_dynamo_table("VaultTable", build("vault", "ddb")),
     add_autoscale_group("Vault", build("vault", "dns"),
                         internal(s.asg, OwnSubnets(s)) \union
                           {"DNSSNS", "VaultKey", "VaultTable", "DNSLambda",
                            "DNSLambdaExecute"},
                         {"InternalSecurityGroup", "VaultKey"}) >>

CoreAuth(s) ==
  LET deps == {"AuthSecurityGroup", "AttachInternetGateway", "DNSLambda", "DNSSNS",
               "DNSLambdaExecute"} \union OnlyIf(s.rds, {"AuthDB"})
  IN create_asg_elb("Auth", build("auth", "dns"), internal(s.asg, OwnSubnets(s)),
                    external(s.asg, OwnSubnets(s)), {"AuthSecurityGroup"}, deps)
     \o << add_public_dns("AuthLoadBalancer", "auth") >>
     \o If(s.rds, add_rds_db("AuthDB", build("auth_db", "rds"),
                             internal(s.zones, OwnSubnets(s)), {"InternalSecurityGroup"}))

CoreNetwork(s) ==
  << add_lambda("DNSLambda", build("dns", "lambda"), {"DNSZone"}),
     add_lambda_permission("DNSLambdaExecute", {"DNSLambda"}, {}),
     add_sns_topic("DNSSNS", DnsTopic, {"DNSLambda"}),
     add_security_group("InternalSecurityGroup", InternalSg, {}),
     add_security_group("BastionSecurityGroup", build("ssh", "sg"), {}),
     add_security_group("AuthSecurityGroup", build("auth", "sg"), {"NATIP"}),
     add_route_table("InternalRouteTable", build("internal", "rt"),
                     {InternalKey(z) : z \in s.zones} \union {"InternalSubnet"}),
     add_route_table_route("InternalNatRoute", "InternalRouteTable", "NAT", {"NAT"}),
     add_route_table("InternetRouteTable", build("internet", "rt"),
                     {ExternalKey(z) : z \in s.zones} \union {"ExternalSubnet"}),
     add_route_table_route("InternetRoute", "InternetRouteTable", "InternetGateway",
                           {"AttachInternetGateway"}),
     add_internet_gateway("InternetGateway", build("internet", "gw")),
     add_endpoint("S3Endpoint", {"InternalRouteTable", "InternetRouteTable"}),
     add_endpoint("DynamoDBEndpoint", {"InternalRouteTable", "InternetRouteTable"}),
     add_nat("NAT", {"ExternalSubnet", "AttachInternetGateway"}) >>

core(s) == CoreMachines(s) \o CoreAuth(s) \o CoreNetwork(s)

-----------------------------------------------------------------------------
(***************************************************************************)
(* redis and api                                                           *)
(***************************************************************************)
RedisCaches(s) ==
  LET subnets == internal(s.zones, s.there) IN
  << find_vpc, find_all_subnets(s.zones, s.there), sg_lookup_all(InternalSg),
     add_redis_replication("Cache", build("cache", "redis"), subnets, TRUE),
     add_redis_replication("CacheState", build("cache_state", "redis"), subnets, FALSE) >>

redis(s) ==
  RedisCaches(s)
  \o If(s.session, add_redis_replication("CacheSession", build("cache_session", "redis"),
                                         internal(s.zones, s.there), FALSE))

ApiQueues ==
  << add_sqs_queue("index_deadletter", {}), add_sqs_queue("index_cuboids_keys", {}),
     add_output("index_cuboids_keys"), add_sqs_queue("deadletter", {}),
     add_sqs_queue("downsample_queue", {}), add_sqs_queue("s3flush", {"deadletter"}),
     add_sqs_policy("sqsEndpointPolicy", {"deadletter", "s3flush"}),
     add_sqs_policy("sqsCachemgrPolicy", {"deadletter", "s3flush"}) >>

ApiTables ==
  << add_dynamo_table_from_json("EndpointMetaDB", build("meta", "ddb")),
     add_dynamo_table_from_json("s3Index", build("s3_index", "ddb")),
     add_dynamo_table_from_json("tileIndex", build("tile_index", "ddb")),
     add_dynamo_table_from_json("idIndIndex", build("id_index", "ddb")),
     add_dynamo_table_from_json("idCountIndex", build("id_count_index", "ddb")) >>

\* The queues whose addresses the user data of the endpoint mentions.
EndpointUserData ==
  {"s3flush", "deadletter", "index_deadletter", "index_cuboids_keys", "downsample_queue"}

ApiLookups(s) ==
  << sns_topic_lookup(DnsTopic), sns_topic_lookup(Topic), find_vpc,
     find_all_subnets(s.zones, s.there), find_all_subnets(s.asg, s.there),
     sg_lookup_all(InternalSg),
     add_security_group("AllHttpHttpsSecurityGroup", build("https", "sg"), {}) >>

ApiMachines(s) ==
  << add_app_loadbalancer("EndpointAppLoadBalancer", build("endpoint_elb", "dns"),
                          external(s.asg, s.there) \union {"AllHttpHttpsSecurityGroup"}),
     add_public_dns("EndpointAppLoadBalancer", "api"),
     add_autoscale_group("Endpoint", build("endpoint", "dns"),
                         internal(s.asg, s.there) \union
                           {TargetGroup("EndpointAppLoadBalancer"), "EndpointDB"},
                         EndpointUserData),
     add_autoscale_policy("EndpointScaleUp", "Endpoint"),
     add_autoscale_policy("EndpointScaleDown", "Endpoint"),
     add_rds_db("EndpointDB", build("endpoint_db", "dns"), internal(s.zones, s.there), {}) >>

api(s) == ApiLookups(s) \o ApiQueues \o ApiMachines(s) \o ApiTables

-----------------------------------------------------------------------------
(***************************************************************************)
(* cachedb                                                                 *)
(***************************************************************************)
\* A bucket is created only if it is not there yet; its policy always is.
BucketAndPolicyAlways(key, name, there) ==
  << add_s3_bucket(key, name), add_s3_bucket_policy(key \o "Policy", name) >>
BucketAndPolicy(key, name, there) ==
  If(~ s3_bucket_exists(name, there), add_s3_bucket(key, name))
    \o << add_s3_bucket_policy(key \o "Policy", name) >>

CachedbBuckets(s) ==
  BucketAndPolicy("cuboidBucket", build("cuboid_bucket", "s3"), s.there)
    \o BucketAndPolicy("deleteBucket", build("delete_bucket", "s3"), s.there)
    \o BucketAndPolicy("tileBucket", build("tile_bucket", "s3"), s.there)
    \o BucketAndPolicy("ingestBucket", build("ingest_bucket", "s3"), s.there)

CacheRole == {"LambdaCacheExecutionRole"}

CachedbLambdas ==
  << add_sqs_queue("ingest_cleanup_dlq", {}), add_sqs_queue("cuboid_import_dlq", {}),
     add_sqs_policy("cuboidImportDlqPolicy", {"cuboid_import_dlq"}),
     add_lambda("MultiLambda", build("multi_lambda", "lambda"),
                CacheRole \union {"InternalSecurityGroup"} \union LambdaKeys),
     add_lambda("TileUploadedLambda", build("tile_uploaded", "lambda"), CacheRole),
     add_lambda("TileIngestLambda", build("tile_ingest", "lambda"), CacheRole),
     add_lambda("DeleteTileObjsLambda", build("delete_tile_objs", "lambda"),
                CacheRole \union {"ingest_cleanup_dlq"}),
     add_lambda("DeleteTileEntryLambda", build("delete_tile_index_entry", "lambda"),
                CacheRole \union {"ingest_cleanup_dlq"}),
     add_lambda("CuboidImportLambda", build("cuboid_import_lambda", "lambda"),
                {"CuboidImportLambdaRole", "cuboid_import_dlq"}),
     add_lambda("VolumetricIngestLambda",
                build("volumetric_ingest_queue_upload_lambda", "lambda"), CacheRole) >>

build_user_data ==
  << sqs_lookup_url(build("s3flush", "sqs")), sqs_lookup_url(build("deadletter", "sqs")),
     sns_topic_lookup(Topic) >>

ImportPermission(there) ==
  add_lambda_permission("ingestBucketInvokeCuboidImportLambda",
                        OnlyIf(~ s3_bucket_exists(build("ingest_bucket", "s3"), there),
                               {"ingestBucket"}) \union {"CuboidImportLambda"},
                        {build("cuboid_import_lambda", "lambda")})

CachedbArguments ==
  << find_vpc, rt_lookup(build("internal", "rt")), add_all_lambda_subnets,
     Adds([k \in {l \o "RTA" : l \in LambdaKeys} |->
             Resource({CHOOSE l \in LambdaKeys : k = l \o "RTA"}, {}, {})]),
     add_arg("StackName"), lambda_arn_lookup(build("delete_eni", "lambda")),
     add_arg("DeleteENILambda"),
     add_custom_resource("DeleteENI", {"DeleteENILambda", "StackName"}),
     subnet_id_lookup(build("internal", "subnet")), add_arg("InternalSubnet"),
     sg_lookup(InternalSg), add_arg("InternalSecurityGroup"),
     add_arg("LambdaCacheExecutionRole"), add_arg("CuboidImportLambdaRole") >>

cachedb(s) ==
  build_user_data \o CachedbArguments \o CachedbBuckets(s)
  \o << add_ec2_instance("CacheManager", build("cachemanager", "dns"),
                         {"InternalSubnet", "InternalSecurityGroup"}) >>
  \o CachedbLambdas \o << ImportPermission(s.there) >>

-----------------------------------------------------------------------------
(***************************************************************************)
(* activities and idindexing                                               *)
(***************************************************************************)
StepFcnRole == "startStepFcnLambdaRole"

activities(s) ==
  << find_vpc, sg_lookup_all(InternalSg), find_all_subnets(s.zones, s.there),
     find_all_subnets(s.asg, s.there), sns_topic_lookup(Topic),
     lambda_arn_lookup(build("multi_lambda", "lambda")),
     add_event_rule("DeleteEventRule", build("delete_event_rule", "dns")),
     add_lambda_permission("DeleteRulePerm", {"DeleteEventRule"},
                           {build("multi_lambda", "lambda")}),
     add_autoscale_group("Activities", build("activities", "dns"),
                         internal(s.asg, s.there), {}),
     add_lambda("IngestLambda", build("ingest_lambda", "lambda"), {}),
     add_lambda_permission("IngestLambdaExecute", {"IngestLambda"}, {}),
     add_lambda("DownsampleVolumeLambda", build("downsample_volume", "lambda"),
                {"DownsampleDLQ"}),
     export_lookup(StepFcnRole), add_lambda("startSfnLambda", build("start_sfn", "lambda"), {}),
     add_sns_topic("DownsampleDLQ", build("downsample_dlq", "sns"), {"DownsampleDLQLambda"}),
     add_lambda("DownsampleDLQLambda", build("downsample_dlq", "lambda"), {}),
     add_lambda_permission("DownsampleDLQLambdaExecute", {"DownsampleDLQLambda"}, {}) >>

IndexLambda(key, resource) == add_lambda(key, build(resource, "lambda"), CacheRole)

idindexing(s) ==
  << add_arg("LambdaCacheExecutionRole"),
     IndexLambda("indexS3WriterLambda", "index_s3_writer"),
     IndexLambda("indexWriteIdLambda", "index_write_id"),
     IndexLambda("indexWriteFailedLambda", "index_write_failed"),
     IndexLambda("indexFindCuboidsLambda", "index_find_cuboids"),
     IndexLambda("indexBatchEnqueueCuboidsLambda", "index_batch_enqueue_cuboids"),
     IndexLambda("indexEnqueueCuboidIdsLambda", "index_enqueue_ids"),
     IndexLambda("indexLoadIdsFromS3Lambda", "index_load_ids_from_s3"),
     sqs_lookup_arn(build("index_deadletter", "sqs")), add_sqs_queue("index_ids_queue", {}),
     add_lambda_event_source("startIndexIdWriter", {"index_ids_queue"},
                             {build("start_sfn", "lambda")}),
     add_lambda_event_source("startCuboidSupervisor", {},
                             {build("start_sfn", "lambda"),
                              <<"export", "index_cuboids_keys">>}) >>

-----------------------------------------------------------------------------
(***************************************************************************)
(* cloudwatch, dynamolambda and copycuboid                                 *)
(***************************************************************************)
cloudwatch(s) ==
  << find_vpc, find_all_subnets(s.lambda, s.there), sg_lookup(InternalSg),
     lb_lookup(build("endpoint_elb", "dns")), sns_topic_lookup(Topic), add_cloudwatch,
     add_arg("VaultConsulHealthChecker"),
     add_lambda("VaultLambda", build("vault_monitor", "lambda"),
                {"VaultConsulHealthChecker"} \union internal(s.lambda, s.there)),
     add_cloudwatch_rule("VaultCheck", build("vault_check", "cw"), {"VaultLambda"}),
     add_lambda_permission("VaultPerms", {"VaultCheck"}, {build("vault_monitor", "lambda")}) >>

dynamolambda(s) ==
  << add_arg("LambdaCacheExecutionRole"),
     add_lambda("DynamoLambda", build("dynamo_lambda", "lambda"), CacheRole),
     add_cloudwatch_rule("TriggerDynamoAutoscale", build("trigger_dynamo_autoscale", "cw"),
                         {"DynamoLambda"}),
     add_lambda_permission("TriggerPerms", {"TriggerDynamoAutoscale"},
                           {build("dynamo_lambda", "lambda")}) >>

copycuboid(s) ==
  << add_arg("LambdaCacheExecutionRole"), add_sqs_queue("copy_cuboid_dlq", {}),
     add_lambda("CopyCuboidLambda", build("copy_cuboid_lambda", "lambda"),
                CacheRole \union {"copy_cuboid_dlq"}) >>

-----------------------------------------------------------------------------
(***************************************************************************)
(* backup.  Its machines run in one zone, chosen at random among those     *)
(* for pipelines ("zone"); the subnet of a zone that core has none in is   *)
(* None.                                                                   *)
(***************************************************************************)
BackupBucket == build("backup", "s3")

BackupPipelines(deps) ==
  << add_data_pipeline("VaultBackupPipeline", "vault-backup", deps),
     add_data_pipeline("DDBPipeline", "dynamo-backup", deps),
     add_data_pipeline("EndpointPipeline", "endpoint-backup", deps) >>

backup(s, zone) ==
  LET bucket == ~ s3_bucket_exists(BackupBucket, s.there)
      deps   == OnlyIf(bucket, {"BackupBucket"})
  IN << subnet_id_lookup(Subnet(InternalKey(zone))) >>
     \o If(bucket, add_s3_bucket("BackupBucket", BackupBucket))
     \o BackupPipelines(deps)
     \o If(s.rds, add_data_pipeline("AuthPipeline", "auth-backup", deps))

\* The subnet of the machines of the pipelines: none if it was not found.
BackupSubnet(s, zone) == {InternalKey(zone)} \cap internal(s.zones, s.there)

VaultPipeline(subnet) ==
  Pipelines!add_ec2_instance(
    Pipelines!add_s3_bucket(
      Pipelines!add_shell_command(Pipelines!NewPipeline, "VaultBackup", "VaultBucket",
                                  "VaultInstance"),
      "VaultBucket"),
    "VaultInstance", subnet)

rds_copy(subnet) ==
  Pipelines!add_shell_command(
    Pipelines!add_s3_bucket(
      Pipelines!add_ec2_instance(Pipelines!NewPipeline, "RDSInstance", subnet),
      "RDSBucket"),
    "RDSBackup", "RDSBucket", "RDSInstance")

BackupTables == <<"BossMeta", "S3Index", "TileIndex", "IdIndex", "IdCountIndex", "VaultData">>

AddTableCopy(pipeline, name) ==
  Pipelines!add_emr_copy(
    Pipelines!add_ddb_table(Pipelines!add_s3_bucket(pipeline, name \o "Bucket"), name),
    name \o "Copy", name, name \o "Bucket", "BackupCluster")

DDBPipeline ==
  FoldLeft(AddTableCopy, Pipelines!add_emr_cluster(Pipelines!NewPipeline, "BackupCluster"),
           BackupTables)

-----------------------------------------------------------------------------
\* The template of a configuration.
create_config(c, s, zone) ==
  Template(CASE c = "core" -> core(s)
             [] c = "redis" -> redis(s)
             [] c = "api" -> api(s)
             [] c = "cachedb" -> cachedb(s)
             [] c = "activities" -> activities(s)
             [] c = "idindexing" -> idindexing(s)
             [] c = "cloudwatch" -> cloudwatch(s)
             [] c = "dynamolambda" -> dynamolambda(s)
             [] c = "backup" -> backup(s, zone)
             [] c = "copycuboid" -> copycuboid(s))
=============================================================================
