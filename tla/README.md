# TLA+ models of the boss-manage tooling

boss-manage creates, updates, migrates, switches off and deletes the AWS
infrastructure of the Boss, a spatial database. It is a set of command line
programs (`bin/`, `lib/`) that an operator runs against CloudFormation,
AutoScaling, IAM, Vault and Keycloak, the stack configurations
(`cloud_formation/configs/`), and lambdas and step functions that then run in
the bosslet by themselves (`cloud_formation/lambda/`,
`cloud_formation/stepfunctions/`). Little of it is concurrent inside one
process. What is hard is that every program is a long sequence of remote calls
that can stop anywhere and is run again by hand, against services that change
meanwhile, with its only memory in tags, files, queues and secrets.

## Contents

| Module | Models | Runs |
|---|---|---|
| `StackStatus` | the CloudFormation statuses that `aws.get_existing_stacks` and the polls tell apart | (with the others) |
| `LaunchRules` | which stacks a command must refuse, and what a good order is | (with the others) |
| `LaunchOrder` | abstract: what `build_dependency_graph` promises, one step from a request to an answer | `graph_all` (refinement) |
| `DependencyGraph` | `build_dependency_graph`, step by step | `graph_all` |
| `StackLifecycle` | `call_configs` with create, update and delete of `CloudFormationConfiguration` | `lifecycle_solo` |
| `StackUpdate` | `CloudFormationConfiguration.update`, `MigrationManager`, `update_migrate` | `update_orderly` |
| `Names` | `lib/names.py`: which names there are and how they are written | `templates` |
| `TemplateCalls` | the methods of `lib/cloudformation.py` that put resources into a template | `templates` |
| `DataPipeline` | `lib/datapipeline.py` | `templates` |
| `Configs` | `create_config` of the ten configurations | `templates` |
| `Templates` | the stacks of a bosslet as their templates make and remove things | `templates` |
| `Secrets` | `post_init` of core, `create` and `post_init` of api, `lib/vault.py` | `secrets_crashes`, `secrets_repeat` |
| `BossSwitch` | `bin/bossSwitch.py` | `switch_repeat` |
| `IamImport` | `bin/iam_utils.py` | `iam_repeat` |
| `VaultDns` | the lambdas `updateRoute53` and `monitors/chk_vault` | `dns_race` |
| `IngestPopulate` | the lambda `ingest_populate` | `populate_jobs` |
| `WorkLedger` | abstract: what indexing promises for each id, whatever hands it on | `index_failures` (refinement) |
| `ObjectIndex` | `bin/run_indexing.py` and the six `index_*.hsd` step functions with their queues | `index_failures`, `index_reenqueue` |
| `DependencyGraphProofs`, `StackUpdateProofs`, `SecretsProofs`, `BossSwitchProofs`, `IamImportProofs`, `ObjectIndexProofs` | theorems about the module of that name | TLAPS |
| `StackProofs` | theorems about `StackLifecycle`, and about `Templates` with the modules it is built from | TLAPS |
| `LambdaProofs` | theorems about `VaultDns` and `IngestPopulate`, the lambdas | TLAPS |

`MC*.tla` hold the definitions of one instance and, for the graph, which
requests, graphs and stacks are combined. Definitions whose names say what they
do wrong (`StartByFullChunks`, `WriteS3IndexOrGoOn`, `PathForUpdateRecordsNew`, ...)
stand before the one they resemble: each is a plausible mistake in it, and with it
in that place TLC finds a property of a passing run violated. `PROJECT.json` pairs
them, and names the source lines of every definition.

## Inventory

**Deployment ordering** (`bin/cloudformation.py`, `build_dependency_graph`).
State: the list of existing stacks read from AWS, the `Node` graph, the list of
roots, `resolved`. It refuses a request (problem stacks, a missing or unfinished
dependency, a cycle) or returns the configurations to act on in order. Correct
means: nothing before its dependencies, nothing deleted before its dependents,
a cycle always found and never invented, an interrupted command accepted again.
Hard: one `seen` list per root, a root list that shrinks while edges are added,
requests that name a configuration twice, statuses left by failed runs.

**Stack life cycle** (`call_configs`, `CloudFormationConfiguration`). State: the
stacks in CloudFormation, the work list of the run. Operations: launch, poll,
`post_init`, delete, update. It calls the ordering once and works for hours on
that answer. Correct: success means it, no launch on a broken dependency, every
wait ends. Hard: polls wait for *a* change of status and not for a good one,
rolled-back stacks keep their name, any step may raise.

**Updates and migrations** (`lib/cloudformation.py` `update`,
`lib/migrations.py`, `update_migrate`). State: the `StackVersion` tag, the file
`progress`, change sets, migrations that have run. Correct: every `post_update`
migration of an update that took effect runs, in order, on a stack at rest. Hard:
the same two records are written by two commands and by CloudFormation.

**Templates** (`configs/*.py` `create_config`, `lib/cloudformation.py` from line
705, `lib/names.py`, `lib/datapipeline.py`). State: what exists in the account, by
name, and which stack owns it. Correct: what a template refers to is in it or
exists, no two stacks make the same thing, buckets outlive stacks, no command
takes what another stack owns. Hard: ten templates find each other's resources by
name only; what they contain depends on the settings of the bosslet, on the zones
the region had when core was created and on what earlier commands left behind.

**Secrets** (`configs/core.py`, `configs/api.py`, `lib/vault.py`,
`lib/keycloak.py`). State: six paths in Vault, the token file, Keycloak's users,
the database password built into the api stack. Correct: they agree, whatever
was interrupted and repeated. Hard: new random passwords at every run, and
read-modify-write of Vault paths.

**Switching a bosslet off and on** (`bin/bossSwitch.py`). State: sizes and health
checks of AutoScaling groups, the tags with their sizes, Vault's content and
`export.json`. Correct: no size is forgotten, secrets are back before other
machines start, the final message is true. Hard: runs that failed half way and
are repeated, in either direction.

**Roles, groups and policies of the account** (`bin/iam_utils.py`). State: the IAM
account. Operations: import, remove, dry run. Correct: a command without an error
has done its work, importing again gets there in the end, nothing that is not
listed changes. Hard: calls are worked out from what was read before, each may be
refused, and roles, groups and policies need each other in an order the operator
chooses.

**Vault in DNS** (`lambda/updateRoute53`, `lambda/monitors/chk_vault.py`). State: a
weighted record for each instance. Two lambdas write it, on notifications and on
a schedule. Correct: healthy instances resolved, sick ones not, dead ones
forgotten. Hard: snapshots used after they are stale; notifications repeated,
late or dropped; a lambda dying between two calls.

**Filling an upload queue** (`lambda/ingest_populate`). State: the queue, and
what each of several lambdas has sent. Correct: every tile exactly once, counts
as sent. Hard: each lambda computes where its share starts with mixed-radix
arithmetic and short last chunks; batches in which some entries fail.

**Object indexing** (`bin/run_indexing.py`, `stepfunctions/index_*.hsd`). State:
executions of six step functions, two queues between them, the S3 index, the id
index, the dead letter queue. Correct: each id is indexed or its failure is on
record. Hard: work is handed on in pages, batches, shares and chunks; any task may
fail after part of its effects and be tried again; loops that put back what failed
give up at some count; every failure goes through a catch of its own.

Interactions: the life cycle calls the ordering (both rest on `LaunchRules`) and,
for `update`, the code of `StackUpdate`; what a launch contains is `Templates`;
its `post_init` step is what `Secrets` spells out for core and api; `BossSwitch`
stops and starts the groups, Vault's among them, whose instances `VaultDns` keeps
in DNS; the queues and lambdas of `ObjectIndex` and `IngestPopulate` are made by
the stacks of `Templates`, and `sqs_delete_all` there removes the upload queues
that `IngestPopulate` fills. Each of these works for hours while the next only sees
its result, so the modules are checked one by one, with the result of the other as
part of the environment.

`hazards` in `PROJECT.json` is the list of what can go wrong and a test would
hardly reach, each at its line with the properties that watch it, or a note why
none does.

## How the modules correspond to the code

Variables carry the names of the code where it has names (`noDeps` is `no_deps`,
`edges` is `Node.edges`, `named` of VaultDns is the described host name);
otherwise they stand for an external service (`status`, `size`, `vault`, `iam`,
`weight`, `mail`) or for the program counter and locals of one run (`run`, `cmd`,
`building`, `core`, `api`, `lambda`, `sweep`). One action is one stretch of code
with at most one remote call that changes something; locals read before a call and
used after it are kept in the run's record, so what may be stale in the code may be
stale in the model. A run that raises, is interrupted or dies is an action of its
own wherever the code has no handler, and leads to the handler where it has one.

- **DependencyGraph**: `ScanExisting` (lines 92-118), the loop over the
  dependencies one dependency at a time (`MissingDependency`,
  `OutsideDependency`, `AddEdge`, `NextConfig`), `resolve()` with an explicit
  stack of calls, each a node and the index of its loop (`NextRoot`, `Descend`,
  `SkipResolved`, `FindCycle`, `Finish`), the length check, the filter with the
  reversal for delete.
- **StackLifecycle**: one operator's run (`idle`, `working`, `polling`,
  `cleanup`, `post_init`) against CloudFormation, which may complete, fail or
  roll back each change.
- **StackUpdate**: `Follow` builds the path of migrations, then preview, pre-update
  loop, change set, poll, clean-up, post-update loop with its callback;
  `update-migrate` enters the same loop from the progress file. A migration is one
  step that ends or raises. `due` and `applied` are the history the properties
  compare with the file `progress`.
- **Templates**: a resource is what it refers to, what it makes by name, what it
  needs by name and whether it is kept; `TemplateCalls` has one operator per method
  and `Configs` one per `create_config`, with the branches on settings, zones and
  lookups. `Create` and `Update` build the template from what exists then,
  `Launched`, `LaunchFails` and `Refused` are the answers of CloudFormation,
  `Delete` is delete with `sqs_delete_all`. `Template(calls)` says what a list of
  calls leaves: under each key the resource of the last call that gives it one, and a
  record or a look-up sees the calls before it. Machine images, roles and certificates
  are taken to be there.
- **Secrets**: one action per call to Vault, Keycloak or CloudFormation, from the
  reading of a path to the write that follows from it. Vault.update is two steps
  (read, write back).
- **BossSwitch**: the loops over the groups with the two calls each (size, health
  check), the tags, the export and the import. Vault is the head of the list, as
  `load_sort` puts it.
- **IamImport**: a command is a list of items; for each the calls are worked out
  from the account as it is then (`NextItem`) and made one by one (`Call`), any of
  them refused by IAM's own rules or failing. Policies are attached by name, users
  and roles of AWS services are left out.
- **VaultDns**: `Describe` and `Create` are the two calls on a launch, `LookUp`
  and `Delete` those on a termination; `StartSweep` is the monitor's snapshot, after
  which it probes, weights and reports one instance after the other.
- **IngestPopulate**: `Start` is the skipping arithmetic, `Messages` the walk from
  there, `Batch` and `SendEntries` the batches with the failed entries sent again.
  `Expected` is the plain walk that the unit test uses as its reference.
- **ObjectIndex**: an execution or message is a record of where it is, what is left
  of its input (`items`), its whole input (`all`, what a dead letter would hold),
  the part at hand and a counter. One action is one task with its retries: it
  succeeds, or fails after some of its effects and goes to its catch. The lambdas
  are in another repository and do what the step functions rely on.

`LaunchOrder` is the abstract specification of the ordering: from the request to
the right refusal, or to *some* sorted list of exactly the stacks to act on.
`AnswersAsPromised` is the refinement; it covers requests that name a configuration
once (a repeated one may be refused as circular, see the hazards). `WorkLedger` is
that of indexing: a book that says of each id whether it is open, indexed,
reported or failed, which moves are possible between these, and that none stays
open. `KeepsTheBooks` is the refinement, with `Standing` as its mapping.

## What the runs check

Ten runs pass and two show a disagreement between the code and what it says of
itself.

| Run | Question | Bounds |
|---|---|---|
| `graph_all` | Is every answer of the traversal the promised one, and what is true during it? | every graph of three configurations with up to two dependencies each (343), with every subset of existing stacks and three commands; a diamond with five kinds of status for each stack; the shipped eight configurations with every set of existing stacks closed under dependencies |
| `lifecycle_solo` | What may be launched, deleted or reported by one operator, run after run? | core, redis, api; three requests; three runs, each ending anywhere |
| `update_orderly` | Do migrations get lost or out of order if update-migrate is run as asked? | five versions, four migrations with and without pre and post; four commands |
| `templates` | Does each template find what it needs, and does no command take what others own? | all ten configurations, with and without external databases; a third zone that opens; two deletions, updates or failures; one of the stacks nobody depends on at a time |
| `secrets_crashes` | Do secrets agree and stay? | four passwords, two crashes, any number of runs |
| `switch_repeat` | Does off and on, failing anywhere and repeated in any order, remember? | Vault, one group, one Auth group; two sizes; four runs, a write to Vault, a rescaling |
| `iam_repeat` | Does an import keep its word, and do repeated ones get there? | a role, a group and a policy of each kind (listed, removed, unlisted); eighteen accounts at first; three orders; two failures, interruptions or removals |
| `dns_race` | Who ends up in DNS? | one instance with three deliveries for each notification, four dying invocations, one more than it takes to drop a notification |
| `populate_jobs` | Is every tile queued once? | 435 geometries: 432 for the arithmetic, and three more also for the interleavings, with up to four failed batches or dead lambdas, two attempts |
| `index_failures` | Is each id indexed or reported, whatever fails? | two ids in one or two cuboids, pages of one cuboid, one failure or repetition anywhere, two attempts at enqueuing, no further write or delivery |
| `secrets_repeat` | Can post_init of api be run again after an error? | *violated*: once core has skipped its url, never |
| `index_reenqueue` | Do ids that cannot be put back end in a dead letter? | *violated*: the error has replaced the input |

Properties, by module:

- **DependencyGraph**: `ResolvedInOrder` (at every moment each resolved node has
  its dependencies before it), `NothingTooEarly` (the answer is safe for create and
  delete, existing stacks taken into account), `AllCanBeResumed` ("create all" and
  "delete all" after any interruption), `AnswersAsPromised` (refinement, with the
  answer coming).
- **StackLifecycle**: `TypeOK`, `SuccessIsReal`, `LaunchNeedsSettledDependencies`,
  `DependentsGoFirst`, `EveryRunEnds`.
- **StackUpdate**: `NothingIsLost`, `MigrateFindsItsPath`, `MigrationsRunInOrder`,
  `PostUpdateFindsNewStack`, `EveryCommandEnds`.
- **Templates**: `BossletTypeOK` (every thing has a name of `lib/names.py`),
  `CanBeCreated` (references resolve, nothing waits for itself, what is named by
  text is waited for), `LookupsFind`, `NamesAreUnique`, `DataIsKept`,
  `OthersAreLeftAlone`.
- **Secrets**: `CredentialsAgree`, `LiveStackHasItsSecrets`, `PostInitConverges`.
- **BossSwitch**: `TagsRemember`, `OthersWaitForVault`, `ReportIsTrue`.
- **IamImport**: `TypeOK` (what IAM guarantees: nothing attached that is not there,
  at most five versions), `CommandsKeepTheirWord`, `RepeatedImportsConverge`,
  `NothingElseChanges`.
- **VaultDns**: `SickGetsNoTraffic`, `OutOfServiceEnds`, `HealthyIsResolved`,
  `GoneIsForgotten`.
- **IngestPopulate**: `SharesAreSlices` (the arithmetic against the plain walk),
  `EveryTileOnce`, `CountIsTrue`.
- **ObjectIndex**: `NothingIsForgotten`, `FailuresAreReported`, `KeepsTheBooks`
  (refinement, with every id settled in the end).

### Why the bounds are enough

The graph algorithm treats configurations alike; three are enough for a chain, a
diamond, a self-loop, a two- and a three-cycle, and a cycle that no root reaches,
and the order in which edges and roots are met is enumerated. What does not
depend on the size is proved. Update, switch, secrets and IAM are about what one
run leaves for the next: three or four commands make every pair (first failure,
repetition, opposite command) and one more. `Templates` is about what one
configuration finds of another, so all ten are there; stacks that nobody depends on
meet each other only in names, which are compared as wholes, so one of them at a
time is enough here; the proofs have no such bound. The DNS records of different instances never meet, except that one
sweep goes through all of them; the cluster of the shipped configuration has one
instance. Geometries cover, on every axis, starts at and off a chunk boundary, exact
and short last chunks, and one or several chunks; the arithmetic is periodic in
these. Four passwords are the number at which a fresh one always exists. Two ids
are what can be divided once by each page, batch, share and chunk. For the
ordering, the life cycle, templates, update, switch, secrets, IAM, DNS, filling a queue and
indexing the proofs have none of these bounds.

### Assumptions, each a constant or a variable of a module

- `NamedOnce` (DependencyGraphProofs): no request repeats a configuration. The order
  is proved without it; that the answer is the promised one is false without it (hazards).
- `Alone` (StackProofs): one operator. With two, the list of stacks that a run
  read at its start is stale when it is used (hazards). The types are proved without it.
- `Orderly` (StackUpdate): update-migrate is run before the next update, as
  `configs/migrations/README.md` asks.
- `Patient` (StackUpdate): update-migrate is not run while the stack is still
  changing. Without it the progress file is removed early (hazards).
- `NoForks` (StackUpdateProofs): no two migration files start at a version. Where
  there are two, `load_migrations` takes the one that glob names last, which
  another checkout may order differently.
- `AllTypesGiven` (IamImportProofs): a command names groups, roles and policies. The
  command line takes fewer, and then `CommandsKeepTheirWord`, which speaks of all of
  them, asks too much. `EntriesDiffer`: no two entries of a file have one name, as in
  what `export` writes.
- `StackVersion` becomes that of the new template when CloudFormation has
  finished with the stack.
- `patient` (Secrets; both values occur, the property names it): nothing raises
  while the api stack is created. Without it a live stack can lose its secrets, as
  `LiveStackHasItsSecrets` says.
- `prompt` (VaultDns; likewise): no instance is terminated while a lambda is at
  work on it. Without it a record can stay behind, as `GoneIsForgotten` says. It names
  a second exception, which is no assumption (`Dropped`; the run has enough dying
  invocations for it): when each try of a TERMINATE dies the notification is dropped,
  and the record stays for good, since the monitor only writes and nobody else deletes.
- `raises` (ObjectIndex; likewise): the lambda that enqueues ids ends a loop without
  success by raising. Without it `FanoutIdWriters` gives up silently after its last
  attempt, as `NothingIsForgotten` says. Which of the two holds is decided by a
  lambda in another repository.
- `ZonesAssumption` (Templates): the subnets of a zone and those of the lambdas have
  different keys. The code spells the first with the letter of the zone and `Internal`
  or `External`, the second with `LambdaSubnet` and a number; that these differ is a
  fact about strings, which TLC evaluates and the provers do not.
- One operator in StackLifecycle, Templates and IamImport; in Secrets one post_init
  of core and one command on api at a time. Two at once are a hazard without a
  property. `run_indexing.py` is run once for a channel.
- `MaxRuns`, `MaxCrashes`, `MaxFaults`, `MaxMishaps`, `MaxTroubles`, `MaxWrites`,
  `MaxRescales` bound how often operator and environment may act, `MaxLeaves` which stacks occur
  together; nothing else is bounded.
- IngestPopulate: the activity that starts the lambdas is in another repository;
  as `ingest_queue_populate.hsd` says, it purges the queue, and it starts a new
  attempt only when the lambdas of the last one have ended.

### Fairness

- *The tool* (`WF` of an operator's steps, of a command's steps, of `CoreStep`, of
  `NextItem \/ Call`): one thread that has no reason to stop between two calls; that
  it may die is an action of its own.
- *CloudFormation* (`WF`): each change comes to an end, with either outcome.
- *The operator* (`SF_vars(PostInit /\ ~ ready)`): runs post-init again as long
  as it fails, which the messages at the end of `bin/cloudformation.py` say to
  do. Strong, since another command may keep coming in between. In IamImport
  (`WF_vars(StartImport)`): imports again.
- *Lambdas* (`WF` of `Handler(i)`, `Monitor(i)`, `StartSweep`): AWS invokes the
  handler as long as there are deliveries left and the monitor every two minutes.
  *Reports* (`SF`): a sick instance is sick at each of infinitely many sweeps, and
  not between them. *Replacement* (`SF`): the AutoScaling group ends an unhealthy
  instance; it is strong because `prompt` allows this only between sweeps.
- *Step functions and queues* (`WF` of a step of some record at work in
  ObjectIndex): AWS runs every execution and delivers every message. Weak fairness
  of all of them together is enough, since there is a bounded amount of work and
  each step uses some of it up.
- Safety runs state none.

`CHECK_DEADLOCK FALSE` is said where the program returns or the bounded commands
have all been given, with the reason in the `.cfg`.

## What is proved

Checked by TLAPS, for every value of the constants that the `ASSUME`s allow.

**DependencyGraphProofs** (any set of configurations, any graph, any request, any
mix of stacks): `TypeCorrect`, `InductiveInvariant`, and from it
`ResolveIsTopological` (`ResolvedInOrder`), `CallsFormAPath`
(`ActiveCallsAreAChain`), `OrderIsSafe` (`NothingTooEarly`).
`ResolvedInOrder` is not inductive: `Finish` appends a node because its loop has
passed all edges. `Inductive` therefore adds what an active call knows
(`CallsCovered`: edges passed lead to resolved nodes; `ActiveCallsAreAChain`: the
calls are a path, so the node returned to finds its edge resolved). For
`NothingTooEarly` it adds what the reading loop has established (`DepsRead`:
every dependency read is either an edge or an existing stack), and what the
filter keeps (`KeptInOrder`). `Phases` and `NodesRequested` say which variables a
phase may have touched and that only requested nodes are met. The step lemma goes
action by action, in five lemmas.

For requests that name a configuration once (`NamedOnce`), `Implements` is the
refinement: every step is the one of `LaunchOrder` or changes nothing it sees. From it
`AnswersAreRight` (whatever was answered is what the rules allow) and `AllIsResumed`
(`AllCanBeResumed`). It needs completeness where the order needs soundness, and that is
`Precise`: a configuration is resolved once and its call is over then (`ResolvedOnce`),
a root is waited for by nobody, and whoever is neither root nor resolved nor active is
waited for by somebody (`RootsAreFree`). So, when the roots have run out, the
configurations not resolved all wait for each other, which is what `Cyclic` says; and a
cycle met inside `resolve()` is the tail of the chain of calls. That the list resolved
is complete is a count: it is as long as the request and repeats nothing.

**StackProofs**, on StackLifecycle (any configurations, dependencies, requests, number of runs):
`TypeCorrect` (`TypeOK`) for any number of operators, and for one (`Alone`)
`KnowledgeInvariant`, with `SuccessHolds` (`SuccessIsReal`), `LaunchesAreSafe`
(`LaunchNeedsSettledDependencies`) and `DeletionsAreSafe` (`DependentsGoFirst`). The
invariant is what a run may go on believing of a list it read hours ago: what a queued
stack depends on is settled or before it in the queue (`CreatesInOrder`), what depends
on a queued stack is gone or before it (`DeletesInOrder`), what it launched and left
behind is complete and initialised (`LaunchesAreReal`). A poll that fails empties the
queue; without that the first two would break at the next stack. The queue is any
member of `Orders`, so these theorems and `Implements` meet at `LaunchRules`.

**StackProofs**, on Templates (any zones, which of them open when, any settings, any
number of deletions, updates and failures, any set of stacks side by side):
`BossletInvHolds`, and from it `BossletTypeCorrect` (`BossletTypeOK`), `NamesStayUnique`
(`NamesAreUnique`), `DataStays` (`DataIsKept`), `OthersStay` (`OthersAreLeftAlone`).
None of the four is inductive. That deleting a stack leaves the others alone needs that
it owns nothing of theirs; that needs what its templates could ever have made, under
other settings and with other things around. `BossletInv` says it: a stack has only
things its configuration `MayMake` and keeps exactly the buckets among them, what is
left without a stack is buckets and upload queues, and the template of a
running command is `Sorted`: no two of its resources make one thing, and it makes only
what is `Fresh`, of this configuration and not a bucket that is there. Most of the
module shows this of the ten templates.
- *One table of makers.* `Maker` gives each thing one configuration and one part of it;
  that two configurations, or two parts of one, never make one thing then is a
  comparison of labels (`ConfigsApart`), not of each thing with every other. A thing
  whose name is built twice in the code, in two templates, would have no row.
- *One list of calls at a time.* `Gives` says of each `add_` method what it makes and
  that it keeps buckets only (`PlainBuild`, `AddsNamed`, `LooksUp`, ...); `TidyRow` takes
  a list of calls, each with things of its own, and `Joined` two lists. Each part of each
  `create_config` is one such lemma (`CoreMachinesTidy`, `ApiQueuesTidy`, ...), for every
  setting and whatever is there. `TemplateSorted` passes from the calls to the template.
- *One step at a time.* `SweptIsLoose` is about `sqs_delete_all`: it follows from `TYPES`
  that what the search for the prefix finds is an upload queue, so no stack loses a queue.
  `KeepsAreKnown`
  and `DeleteEffect` are about buckets: a stack that goes leaves its buckets loose, and
  the next template does not make them again.

**StackUpdateProofs** (any migrations, any checkouts, any number of commands, with
failures anywhere), in three layers, each an invariant that adds to the last and
needs one assumption more. Without any: `TypeCorrect`, `PlansArePaths`
(`PlanIsAPath`), from `PInv`; a plan is sorted, and as a set it is a *path*: it leads
from the version it starts at, each migration of it leads to another or to the end,
and none overlaps another (`Path`, with the lemmas on what remains of one,
`PathGrows`, `PathRest`, `PathTail`). With `Patient`: `PostUpdatesFindTheirStack`
(`PostUpdateFindsNewStack`), from `RInv`, where `Executed` ties a polling update to
the change that CloudFormation makes and `AtRest` says that migrations are planned
and run on a settled stack. With `Orderly` and `NoForks` too: `NoPostUpdateIsLost`
(`NothingIsLost`), `NoMigrationOvertakes` (`MigrationsRunInOrder`) and
`NoRecordIsADeadEnd` (`MigrateFindsItsPath`), from `KInv`. `NothingIsLost` compares
the record with the migrations left over, and says nothing of what an update on its
way will add. `Recorded` strengthens it to: what is left lies on a path from the record to
the version of the stack; `Underway` says the same of the plan CloudFormation has
been given; and one part follows what is left through the program: `Starting`
(nothing), `Effective` (in the plan), `Following` (in the plan or ahead of it),
`Catching` (in the plan and not behind the loop). `NoForks` is used once: the first
migration of the path that is planned must be that of the path on record.

**SecretsProofs** (any set of passwords in which any three leave one, any number
of crashes): `TypeCorrect`, `RunsKnow` (`Inductive`), and from it
`CredentialsStayInAgreement` (`CredentialsAgree`) and `LiveStackKeepsItsSecrets`
(`LiveStackHasItsSecrets`). Agreement is not inductive: a step writes to Keycloak
what the run remembers. `CoreKnows` says what that is worth at each step (from
`keycloak` on the remembered password is the one in Vault, before a write the path
is still empty), `VaultComesFirst` that a secret is in Vault before anybody else
has it, `ApiKnows` that before the launch there is no stack and after it the
password in Vault is the run's. Since core and api write different fields, each
half needs only that the other leaves its fields alone
(`CoreStepsKeepApi`, `ApiStepsKeepCore`).

**BossSwitchProofs** (any list of groups that begins with Vault, any sizes and
number of runs): `TypeCorrect`, `IInvIsInductive`, and from it `NoSizeIsForgotten`
(`TagsRemember`), `NothingStartsWithoutSecrets` (`OthersWaitForVault`),
`ReportsAreTrue` (`ReportIsTrue`). The invariant is what a run knows: the sizes it
read are the last ones (`KnowsSizes`), it stops nothing before all tags are saved
(`HasSaved`), it has a file and no group's size is that of being off (`WillBeOn`),
Vault is first and the secrets follow it (`VaultFirst`), and the groups it has
handled without a warning are as they should be (`Started`, `Stopped`).

**IamImportProofs** (any accounts, files, lists of names, orders of the types, failures
and interruptions): `SoundInvariant`, `TypeCorrect` (`TypeOK`), `OnlyTheListed`
(`NothingElseChanges`), and with `AllTypesGiven` and `EntriesDiffer` `WordsAreKept`
(`CommandsKeepTheirWord`). The calls of a command are a list, but the properties are
about which calls there are: the first part of the module shows of each list the code
builds that its members are a set one can name (`ConcatIsUnion`, `LoopIsUnion`,
`PlanFor`; the concatenation is a recursive function, treated by a least
counterexample). `Sound` says that the account is possible and that a planned call
`Serves` an entry of the file or `Removes` a listed name. `CommandsKeepTheirWord` is not
inductive, since it only speaks at the end. `Kept` is its form on the way: whatever an
entity still needs to be as in the file (`Needed`) is planned, or its type is still an
item of the command. A call that is done takes itself off both (`NeedShrinks`: a call
that serves an entry never makes another necessary), one that fails or is refused ends
`clean`.

**LambdaProofs**, on VaultDns (any instances, deliveries and dying invocations):
`TypeCorrect`, `NoTrafficForTheSick` (`SickGetsNoTraffic`). The types already tie
the monitor's verdict to the instance it is at (`Sweeping`) and a running handler
to a delivery (`Delivering`), which is what the action property needs.

**LambdaProofs**, on IngestPopulate (any starts, stops, sizes and remainders of the
axes, any number of tiles of a lambda, batch size, tries, attempts and mishaps):
`SkippingIsExact` (`SharesAreSlices`), `TilesAreQueuedOnce` (`EveryTileOnce`),
`CountsAreTrue` (`CountIsTrue`), `IngestTypeCorrect`. The first is about the arithmetic
of `Start` alone and takes most of the module. `FlattenSeq` is a recursive function: it
is unfolded once (`FlattenGrows`), and what it computes of any list of lists follows by
induction over the number of lists, in the form of a least counterexample (`Counting`).
Then the walk is described from inside out: the tiles of a column, the columns of a row,
the rows of a layer, the layers of a time step (`TilesAreGood` to `WalkIsGood`); at each
level the list has the length that the factors say and no message twice, because the
message names the step it was made at. Dropping a number of messages from a list of
equal parts drops whole parts and goes on inside the next (`FlatResumes`), which is what
a loop does that takes its start from `Start` in its first round only (`LoopResumes`):
so the four loops, started at the quotients and remainders of `Start`, give the walk
without its first messages (`TilesResume` to `WalkResumes`, `LoopFindsStart`). The last
chunk of z may be shorter than the others; `StartInZ` to `StartInX` show that dividing
by its depth, not by the full one, is right there. `ShareIsSlice` is the result.
For the queue, `SharesPartition` says that each tile is in one lambda's share.
`EveryTileOnce` speaks of the end only and is not inductive; `PopulateInv` also says
what holds on the way: what a lambda has `Left`, in its list or its batch, is of its
share and not listed twice, it has counted the rest, and while nobody has failed the
queue is the bag of what they have sent. A lambda that failed says nothing about the
queue any more, until `Retry` empties it.

**ObjectIndexProofs** (any channel, sizes of pages, batches, shares and chunks, any
number of failures): `TypeCorrect`, `IInvIsInductive`, and from it
`NothingIsEverForgotten` (`NothingIsForgotten`), `FailuresAreAlwaysReported`
(`FailuresAreReported`) and `BooksAreKept`: every step is one of `WorkLedger` or
changes nothing it sees. Each of the many steps is shown to be a `Handover`: the
items of a record go to the records that take its place, to the index or a letter,
or there is an excuse; one lemma then shows that a hand-over keeps the invariant.
`Whole` says that cuboids are not divided before their keys are queued (a key
stands for all ids of its cuboid), `Good` that what `FanoutIdWriters` reads back is
in the S3 index, `Traced` and `Reported` that every item is somewhere, `Honest` that
only a lambda that does not raise gives up.

Only model-checked:

- Liveness, which is out of the prover's reach: `EveryRunEnds`, `EveryCommandEnds`,
  `PostInitConverges`, `RepeatedImportsConverge`, `OutOfServiceEnds`,
  `HealthyIsResolved`, `GoneIsForgotten`, and of the two refinements that the answer
  comes (`LaunchOrder`) and that the books are settled (`WorkLedger`).
- `CanBeCreated` and `LookupsFind` of Templates. Both compare keys of resources that
  are put together from text (`"...RTA"`, `"...LoadBalancer"`, the zone's letter), which the
  provers treat as values they know nothing of. They speak of ten given templates; the
  run checks each of them under every setting, with zones and buckets there or not.

## Findings

1. `secrets_repeat`: the url is skipped when api's `create` has been there first
   (`configs/core.py:375`), and post_init of api fails with a KeyError for good.
2. `index_reenqueue`: the catch of `WriteFailedReEnqueue` gives no result path
   (`stepfunctions/index_id_writer.hsd:141`), so that `WriteIdFailed` has neither the
   ids nor the url of the queue, and they end without a dead letter.

Further disagreements are stated as properties that no run lists; each can be seen
by putting the property into the `.cfg` named:

| Property | The code | How to see it |
|---|---|---|
| `CompletedIsNotRepeated` | `update_stack_version` takes two arguments and is given one (`lib/cloudformation.py:556`): the first `post_update` ends the update with a TypeError, unrecorded, and runs again under update-migrate | `StackUpdate_orderly.cfg` as it is |
| `NothingIsLost` | `update` overwrites `progress` before anything else (`lib/cloudformation.py:553`): the rest of an unfinished update is forgotten | the same with `Orderly = FALSE` |
| `RunningVaultIsKept` | `on` imports `export.json` also into a Vault that was on (`bin/bossSwitch.py:296`) | `BossSwitch_repeat.cfg` as it is |
| `SetupImportsAll` | "import roles groups policies" attaches policies before they are there (`bin/iam_utils.py:795`) | `IamImport_repeat.cfg` with `Orders <- DocumentedOrder`, `Accounts <- EmptyAccount`, `MaxTroubles = 0` |
| `PoliciesAreUpdated` | the document of the file is compared with itself, so a policy that differs is left as it is (`bin/iam_utils.py:693`) | the same file with `MaxTroubles = 0` only |
| `BusyTargetIsReported` | the `DependencyInProgressError` of a busy target is never reached (`bin/cloudformation.py:114`), against its test | `DependencyGraph_all.cfg` with `SPECIFICATION GraphSpec`, `DepGraphs <- OneGraph`, `ArgLists <- OneRequest`, `Actions = {"update"}`, `StackViews <- AllBusy` |

Two comments in the code describe a fault that it does not have (any more). The
properties say the contrary of them; they hold, and are proved for every instance:

| The comment | The code | Property, theorem |
|---|---|---|
| `bin/bossSwitch.py:371`: "if 'off' is re-run the ASGs that were previously turned off will have 0/0/0 saved to the DEFINITION_FILE and mess up turning ASGs back on" | `save_tags` returns before it writes when a group is at 0/0/0 (line 155), and sizes are in tags; there is no `DEFINITION_FILE` but in this comment. With the early return removed (`SaveTagsAlways`) the comment is right | `TagsRemember`, `NoSizeIsForgotten` |
| `configs/api.py:397`, at `sqs_delete_all` in `delete` of api: "Other configs may define SQS queues and we shouldn't delete them", "TODO FIX this so it doesn't bork the stack" | the search is for queues that begin with the domain with dashes, "integration-boss" (`lib/aws.py:742`); `AWSNames.build` puts the resource before the domain and `TYPES` has queues capitalized, "DeadletterIntegrationBoss", so the search finds none that a stack owns, only those of ingest jobs. With a search that ignores place and style (`MentionsDomain`) the comment is right | `OthersAreLeftAlone`, `OthersStay` |

Others were seen while modelling and are in the hazards with a note: dependents of
a rolled-back stack are launched; an unchanged update leaves its change set; two
updates of a Vault path at once lose a key; bucket policies do not wait for their
bucket; a zone that opens after core was created has no subnet to look up.

## Not modelled

`PROJECT.json` lists each part with its reason. In groups:

- *Decided elsewhere*: downsampling, completing an ingest and deleting data. The
  step functions in this repository are a sequence of activities with one catch;
  what an activity does, raises and records is in boss-tools.
- *Decided by AWS or ssh alone*: SSH tunnels, the `delete-eni` lambda, maintenance
  mode, scaling and suspending one group, the execution of data pipelines. One or
  two calls and a wait each.
- *No state between runs*: building lambdas and images, configuration, console,
  single look-ups of `lib/aws.py`, one-off account scripts, Vault by hand.
- *Cannot run*: `bin/restore_backup.py` does not parse,
  `bin/rerun_failed_write_ids.py` ends with a NameError (line 84) before it sends
  anything, `--stop` and `--resume` of `bin/run_indexing.py` raise
  NotImplementedError.
- *Declarations*: Salt states, local testing, Packer.
- Within modelled parts: the text of user data and policies, sizes and classes of
  machines, and alarms beyond their names (Templates); the content of migrations
  (StackUpdate); users and service roles (IamImport).
