---------------------------- MODULE TemplateCalls ----------------------------
(***************************************************************************)
(* The methods of CloudFormationConfiguration (lib/cloudformation.py) that *)
(* put resources, arguments and outputs into a template.                   *)
(*                                                                         *)
(* A resource is abstracted to                                             *)
(*   refs  - the keys it mentions by Ref, Fn::GetAtt or DependsOn          *)
(*   soft  - keys it depends on only if they are in the template already   *)
(*   makes - the physical things it creates, by name                       *)
(*   names - physical things it mentions by name, as text, and that must   *)
(*           exist when it is created                                      *)
(*   keep  - DeletionPolicy Retain                                         *)
(* and a method call to what it adds: resources by key, arguments, looked  *)
(* up things, outputs.  "refs" of an operator are all the keys its         *)
(* arguments mention.                                                      *)
(***************************************************************************)
EXTENDS Sequences, Functions, SequencesExt, Names

Resource(refs, makes, names) ==
  [refs |-> refs, soft |-> {}, makes |-> makes, names |-> names, keep |-> FALSE]

\* Resources by their keys: one, and two of one call.
At(key, resource) == [k \in {key} |-> resource]
Both(r, s) ==
  [k \in DOMAIN r \union DOMAIN s |-> IF k \in DOMAIN s THEN s[k] ELSE r[k]]

NoCall ==
  [adds |-> << >>, args |-> {}, found |-> {}, must |-> {}, may |-> {}, outs |-> {}]

Adds(resources) == [NoCall EXCEPT !.adds = resources]
Add(key, refs, makes, names) == Adds(At(key, Resource(refs, makes, names)))

-----------------------------------------------------------------------------
(***************************************************************************)
(* Arguments, outputs and lookups.  A lookup either raises when the thing  *)
(* is missing ("must") or answers None, which goes into the template as it *)
(* is ("may").                                                             *)
(***************************************************************************)
\* An argument of a template is its name; its type has CloudFormation check
\* that a value is given and exists (Launches of Templates).
Arg(key) == {key}
add_arg(key) == [NoCall EXCEPT !.args = Arg(key)]
add_output(name) == [NoCall EXCEPT !.outs = {<<"export", name>>}]
Must(things) == [NoCall EXCEPT !.must = things]
May(things) == [NoCall EXCEPT !.may = things]

\* The lookups of lib/aws.py that configurations use.  Those that must find
\* their thing raise, or their callers do when the answer is None.
sns_topic_lookup(name) == Must({name})
lb_lookup(name) == Must({<<"lb", name>>})
lambda_arn_lookup(name) == Must({name})
sqs_lookup_url(name) == Must({name})
sqs_lookup_arn(name) == Must({name})
export_lookup(name) == Must({<<"export", name>>})
sg_lookup(name) == May({name})
sg_lookup_all(name) == May({name})
rt_lookup(name) == May({name})
subnet_id_lookup(name) == May({name})
s3_bucket_exists(name, there) == name \in there

VPC == <<"vpc", "VPC">>
Zone == <<"zone", "internal">>
ExternalZone == <<"zone", "external">>
Topic == <<"topic", "ALERT_TOPIC">>

find_vpc == [add_arg("VPC") EXCEPT !.may = {VPC}]

\* Subnets of zones are named by zone; here, by their key.
Subnet(key) == <<"zone_subnet", key>>
InternalKey(az) == az \o "InternalSubnet"
ExternalKey(az) == az \o "ExternalSubnet"
LambdaKeys == {"LambdaSubnet0", "LambdaSubnet1"}

\* find_all_subnets: a subnet of the template itself, or an argument for
\* one that exists; the others are skipped.  "have" are the subnets there.
found_subnets(zones, have) ==
  {k \in UNION {{InternalKey(z), ExternalKey(z)} : z \in zones} : Subnet(k) \in have}
find_all_subnets(zones, have) ==
  [NoCall EXCEPT !.found = found_subnets(zones, have)]

\* The two lists it returns.
internal(zones, have) == {InternalKey(z) : z \in zones} \cap found_subnets(zones, have)
external(zones, have) == {ExternalKey(z) : z \in zones} \cap found_subnets(zones, have)

-----------------------------------------------------------------------------
(***************************************************************************)
(* Networks                                                                *)
(***************************************************************************)
add_vpc ==
  Adds(Both(At("VPC", Resource({}, {VPC}, {})), At("DNSZone", Resource({"VPC"}, {Zone}, {}))))

add_subnet(key, name) == Add(key, {"VPC"}, {name}, {})

add_all_subnets(zones) ==
  Adds([k \in UNION {{InternalKey(z), ExternalKey(z)} : z \in zones} |->
          Resource({"VPC"}, {Subnet(k)}, {})])

add_all_lambda_subnets ==
  Adds([k \in LambdaKeys |-> Resource({"VPC"}, {Subnet(k)}, {})])

add_endpoint(key, route_tables) == Add(key, {"VPC"} \union route_tables, {}, {})

add_nat(key, refs) ==
  Adds(Both(At(key, Resource(refs \union {key \o "IP"}, {}, {})),
            At(key \o "IP", Resource({}, {}, {}))))

add_security_group(key, name, refs) == Add(key, {"VPC"} \union refs, {name}, {})

add_route_table_association(key, refs) == Add(key, refs, {}, {})

\* One association for every subnet, numbered by its place in the list.
add_route_table(key, name, subnets) ==
  Adds(Both(At(key, Resource({"VPC"}, {name}, {})),
            [k \in {key \o "SubnetAssociation" \o s : s \in subnets} |->
               Resource({key, CHOOSE s \in subnets : k = key \o "SubnetAssociation" \o s},
                        {}, {})]))

\* Exactly one of gateway, peer, instance and nat is given.
add_route_table_route(key, route_table, target, depends_on) ==
  Add(key, {route_table, target} \union depends_on, {}, {})

add_internet_gateway(key, name) ==
  Adds(Both(At(key, Resource({}, {name}, {})),
            At("Attach" \o key, Resource({"VPC", key}, {}, {}))))

\* _add_record_cname and add_route_53_record_set: the record names its
\* hosted zone, and waits for it only if the template has it by now.
RecordAnyTime(key, hostname) ==
  At(key \o "Record", Resource({key}, {<<"record", hostname>>}, {Zone}))
Record(key, hostname) ==
  At(key \o "Record", [Resource({key}, {<<"record", hostname>>}, {Zone})
                        EXCEPT !.soft = {"DNSZone"}])

add_public_dns(target_key, hostname) ==
  Add(target_key \o "Record", {target_key}, {<<"public", hostname>>}, {ExternalZone})

-----------------------------------------------------------------------------
(***************************************************************************)
(* Machines, load balancers and scaling                                    *)
(***************************************************************************)
add_ec2_instance(key, hostname, refs) ==
  Adds(Both(At(key, Resource(refs, {hostname}, {})), Record(key, hostname)))

add_autoscale_group(key, hostname, refs, configuration_refs) ==
  [Adds(Both(At(key, Resource(refs \union {key \o "Configuration"}, {hostname}, {})),
             At(key \o "Configuration", Resource(configuration_refs, {}, {}))))
     EXCEPT !.args = {key \o "Hostname"}]

add_cloudwatch_alarm(key, refs) == Add(key, refs, {}, {})

\* One alarm of the policy, as the configs ask for.
add_autoscale_policy(key, asg) ==
  Adds(Both(At(key, Resource({asg}, {}, {})),
            At(key \o "Alarm1", Resource({key, asg}, {}, {}))))

add_loadbalancer(key, name, refs) == Add(key, refs, {<<"lb", name>>}, {})

\* One HTTPS listener, as the configs ask for: a target group, the listener,
\* its redirect and the balancer.  Listeners of one balancer share the key
\* of the target group.
TargetGroup(key) == key \o "TargetGroup"
add_app_loadbalancer(key, name, refs) ==
  Adds(Both(Both(At(TargetGroup(key), Resource({}, {}, {})),
                 At(key \o "Listener0", Resource({key, TargetGroup(key)}, {}, {}))),
            Both(At(key \o "Listener0Redirect", Resource({key}, {}, {})),
                 At(key, Resource(refs, {<<"lb", name>>}, {})))))

\* The three alarms of a load balancer have fixed keys.
add_cloudwatch ==
  Adds([k \in {"Latency", "SurgeCount", "UnhealthyHostCount"} |-> Resource({}, {}, {})])

-----------------------------------------------------------------------------
(***************************************************************************)
(* Databases, caches, buckets, keys and pipelines                          *)
(***************************************************************************)
SubnetGroup(key, subnets) == At(key \o "SubnetGroup", Resource(subnets, {}, {}))

add_rds_db(key, hostname, subnets, sgs) ==
  Adds(Both(Both(At(key, Resource(sgs \union {key \o "SubnetGroup"}, {hostname}, {})),
                 SubnetGroup(key, subnets)),
            Record(key, hostname)))

add_dynamo_table(key, name) == Add(key, {}, {name}, {})
add_dynamo_table_from_json(key, name) == Add(key, {}, {name}, {})

add_redis_replication(key, hostname, subnets, parameters) ==
  LET group == IF parameters THEN {key \o "ParameterGroup"} ELSE {} IN
  Adds(Both(Both(At(key, Resource({key \o "SubnetGroup"} \union group, {hostname}, {})),
                 SubnetGroup(key, subnets)),
            Both([k \in group |-> Resource({}, {}, {})], Record(key, hostname))))

\* Buckets outlive their stack.
RetainedNever(resource) == resource
Retained(resource) == [resource EXCEPT !.keep = TRUE]
add_s3_bucket(key, name) == Adds(At(key, Retained(Resource({}, {name}, {}))))

\* The bucket is given by its name, also when the template creates it.
add_s3_bucket_policy(key, bucket_name) == Add(key, {}, {}, {bucket_name})

add_kms_key(key, name) ==
  Adds(Both(At(key, Resource({}, {}, {})), At(key \o "Alias", Resource({key}, {name}, {}))))

add_data_pipeline(key, name, depends_on) == Add(key, depends_on, {<<"pipeline", name>>}, {})

add_custom_resource(key, refs) == Add(key, refs, {}, {})

-----------------------------------------------------------------------------
(***************************************************************************)
(* Lambdas, queues, topics and rules                                       *)
(***************************************************************************)
add_lambda(key, name, refs) == Add(key, refs, {name}, {})
add_lambda_permission(key, refs, names) == Add(key, refs, {}, names)
add_lambda_event_source(key, refs, names) == Add(key, refs, {}, names)
add_cloudwatch_rule(key, name, refs) == Add(key, refs, {name}, {})
add_event_rule(key, name) == Add(key, {}, {name}, {})
add_sns_topic(key, name, subscriptions) == Add(key, subscriptions, {name}, {})

\* The key of a queue is its name.
QueueKey(resource) == resource
add_sqs_queueMistyped(resource, dead) ==
  Add(QueueKey(resource), dead, {build(resource, "sns")}, {})
add_sqs_queue(resource, dead) ==
  Add(QueueKey(resource), dead, {build(resource, "sqs")}, {})
add_sqs_policy(key, queues) == Add(key, queues, {}, {})

-----------------------------------------------------------------------------
(***************************************************************************)
(* The template that a sequence of calls builds.  A call that puts a       *)
(* resource under a key in use replaces the earlier one ("twice"); an      *)
(* argument is added once, and a subnet that was found only if the         *)
(* template does not create it.                                            *)
(***************************************************************************)
EmptyTemplate ==
  [res |-> << >>, args |-> {}, must |-> {}, may |-> {}, outs |-> {}, twice |-> {}]

\* The keys of the resources that the calls before the i-th have put there.
KeysBefore(calls, i) == UNION {DOMAIN calls[j].adds : j \in 1..i - 1}

\* The last call that puts a resource under a key.
LastFor(calls, key) ==
  CHOOSE i \in DOMAIN calls :
    key \in DOMAIN calls[i].adds /\ \A j \in i + 1..Len(calls) : key \notin DOMAIN calls[j].adds

Resolved(resource, keys) == [resource EXCEPT !.refs = @ \union (resource.soft \cap keys)]

Template(calls) ==
  [res   |-> [key \in KeysBefore(calls, Len(calls) + 1) |->
                LET i == LastFor(calls, key)
                IN Resolved(calls[i].adds[key], KeysBefore(calls, i))],
   args  |-> UNION {calls[i].args \union (calls[i].found \ KeysBefore(calls, i)) :
                      i \in DOMAIN calls},
   must  |-> UNION {calls[i].must : i \in DOMAIN calls},
   may   |-> UNION {calls[i].may : i \in DOMAIN calls},
   outs  |-> UNION {calls[i].outs : i \in DOMAIN calls},
   twice |-> UNION {DOMAIN calls[i].adds \cap KeysBefore(calls, i) : i \in DOMAIN calls}]

Makes(template) ==
  template.outs \union UNION {template.res[k].makes : k \in DOMAIN template.res}
Kept(template) ==
  UNION {template.res[k].makes : k \in {r \in DOMAIN template.res : template.res[r].keep}}
=============================================================================
