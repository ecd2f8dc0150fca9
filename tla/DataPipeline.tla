---------------------------- MODULE DataPipeline ----------------------------
(***************************************************************************)
(* lib/datapipeline.py: the objects of an AWS Data Pipeline.  An object is *)
(* the names of the other objects it mentions by Ref, by field; a field    *)
(* whose value is None or empty is left out (add_field), which matters for *)
(* the subnet of a machine.                                                *)
(***************************************************************************)
EXTENDS TLC

Object(refs) == [refs |-> refs, subnet |-> {}]

\* The constructor: every pipeline has a schedule and the defaults.
NewPipeline ==
  "DefaultSchedule" :> Object({}) @@ "Default" :> Object({"DefaultSchedule"})

\* add_field, as every method of the class ends: one more object.
add_field(pipeline, name, object) == name :> object @@ pipeline

\* "subnet" is a set: empty when the lookup of the subnet found none.
add_ec2_instance(pipeline, name, subnet) ==
  add_field(pipeline, name, [Object({}) EXCEPT !.subnet = subnet])
add_emr_cluster(pipeline, name) == add_field(pipeline, name, Object({}))
add_ddb_table(pipeline, name) == add_field(pipeline, name, Object({}))
add_s3_bucket(pipeline, name) == add_field(pipeline, name, Object({}))

add_emr_copy(pipeline, name, source, destination, runs_on) ==
  add_field(pipeline, name, Object({source, destination, runs_on}))
add_shell_command(pipeline, name, destination, runs_on) ==
  add_field(pipeline, name, Object({destination, runs_on}))

\* Every mentioned object is one of the pipeline.
Resolves(pipeline) == \A o \in DOMAIN pipeline : pipeline[o].refs \subseteq DOMAIN pipeline
=============================================================================
