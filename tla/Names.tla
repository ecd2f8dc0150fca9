------------------------------- MODULE Names -------------------------------
(***************************************************************************)
(* lib/names.py: which names a bosslet has.  names.<resource>.<type> is    *)
(* resolved by AWSNames.build through two tables, TYPES (how a name of the *)
(* type is written) and RESOURCES (which types a resource has).  A name    *)
(* is <<type, resource>>; what matters about its written form is its       *)
(* style, because prefixes of names are searched (sqs_delete_all).         *)
(***************************************************************************)
EXTENDS FiniteSets

\* AWSNames.TYPES: the style in which names of each type are written.  A
\* type without a transformation is the fully qualified domain name.
TYPES ==
  [stack |-> "Capitalized", subnet |-> "fqdn", dns |-> "fqdn", lambda |-> "dashed",
   rds |-> "fqdn", sns |-> "dashed", sqs |-> "Capitalized", sg |-> "fqdn",
   rt |-> "fqdn", gw |-> "fqdn", ami |-> "suffix", redis |-> "fqdn",
   ddb |-> "fqdn", s3 |-> "fqdn", sfn |-> "Capitalized", cw |-> "dashed",
   key |-> "fqdn"]

\* AWSNames.RESOURCES, turned around: the resources that have each type.
RESOURCES ==
  [stack |-> {"activities", "api", "backup", "cachedb", "cloudwatch", "copycuboid",
              "core", "dynamolambda", "idindexing", "redis", "test"},
   subnet |-> {"internal", "external"},
   dns |-> {"activities", "auth", "bastion", "cachemanager", "delete_event_rule",
            "endpoint_db", "endpoint_elb", "endpoint", "vault"},
   lambda |-> {"cache_throttle", "copy_cuboid_lambda", "cuboid_import_lambda",
               "delete_eni", "delete_tile_index_entry", "delete_tile_objs", "dns",
               "downsample_dlq", "downsample_volume", "dynamo_lambda",
               "index_batch_enqueue_cuboids", "index_enqueue_ids",
               "index_find_cuboids", "index_load_ids_from_s3", "index_s3_writer",
               "index_write_failed", "index_write_id", "ingest_lambda",
               "multi_lambda", "start_sfn", "tile_ingest", "tile_uploaded",
               "vault_monitor", "volumetric_ingest_queue_upload_lambda"},
   rds |-> {"auth_db", "endpoint_db"},
   sns |-> {"dns", "downsample_dlq"},
   sqs |-> {"copy_cuboid_dlq", "cuboid_import_dlq", "deadletter", "downsample_queue",
            "index_cuboids_keys", "index_deadletter", "index_ids_queue",
            "ingest_cleanup_dlq", "s3flush"},
   sg |-> {"auth", "https", "internal", "ssh"},
   rt |-> {"default", "internal", "internet"},
   gw |-> {"internet"},
   ami |-> {"activities", "auth", "backup", "cachemanager", "endpoint", "vault"},
   redis |-> {"cache", "cache_session", "cache_state", "cache_throttle"},
   ddb |-> {"id_count_index", "id_index", "meta", "s3_index", "tile_index", "vault"},
   s3 |-> {"backup", "cuboid_bucket", "delete_bucket", "ingest_bucket", "tile_bucket"},
   sfn |-> {"complete_ingest", "delete_collection", "delete_coord_frame",
            "delete_cuboid", "delete_experiment", "index_cuboid_supervisor",
            "index_enqueue_cuboids", "index_fanout_id_writers", "index_find_cuboids",
            "index_id_writer", "index_start", "ingest_queue_populate",
            "ingest_queue_upload", "query_deletes", "resolution_hierarchy",
            "volumetric_ingest_queue_upload"},
   cw |-> {"cache_throttle", "trigger_dynamo_autoscale", "vault_check"},
   key |-> {"vault"}]

\* names.<resource>.<type>
build(resource, type) == <<type, resource>>

\* build raises AttributeError for anything else.
IsAName(n) == n[1] \in DOMAIN RESOURCES /\ n[2] \in RESOURCES[n[1]]

\* The queue of an ingest job is not of this table; the endpoint makes it.  As
\* sqs_delete_all expects of it, its name begins with the domain with dashes.
UploadQueue == <<"upload", "ingest_job">>

\* How build writes a name: the resource, then the domain, in the style of the
\* type.  A machine image has no domain in its name.
Domain == "domain"
Written(n) ==
  CASE n = UploadQueue -> [parts |-> <<Domain, n[2]>>, style |-> "dashed"]
    [] n[1] = "ami"    -> [parts |-> <<n[2]>>, style |-> TYPES.ami]
    [] OTHER           -> [parts |-> <<n[2], Domain>>, style |-> TYPES[n[1]]]

\* The search of sqs_delete_all, for the domain with dashes
\* ("integration-boss"): what it finds begins with the domain and writes it
\* this way.  With the domain found anywhere and in any style it would find
\* "DeadletterIntegrationBoss" too.
MentionsDomain(n) == \E k \in DOMAIN Written(n).parts : Written(n).parts[k] = Domain
StartsWithDomain(n) == Written(n).parts[1] = Domain /\ Written(n).style = "dashed"
=============================================================================
