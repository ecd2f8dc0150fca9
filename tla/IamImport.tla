------------------------------ MODULE IamImport ------------------------------
(***************************************************************************)
(* bin/iam_utils.py: groups, roles and policies of an AWS account are      *)
(* brought to what three JSON files say (import), or removed.  A command   *)
(* is a sequence of IAM calls worked out from what was read of the account *)
(* beforehand.  Any call may be refused or fail, and the command may be    *)
(* interrupted between any two.                                            *)
(*                                                                         *)
(* Groups and roles are records of one shape; a group has no trust policy  *)
(* and no instance profiles.  Policies are attached by name: their paths,  *)
(* which are part of their ARNs, do not vary.  Roles of AWS services and   *)
(* users are left out.                                                     *)
(***************************************************************************)
EXTENDS Naturals, FiniteSets, SequencesExt, Functions

CONSTANTS Groups, Roles, Policies, Profiles,  \* names
          File,       \* type |-> the entries of its JSON file
          Whitelist,  \* type |-> the names of names.json
          Removed,    \* type |-> the names of removed.json
          Accounts,   \* the accounts the first command may find
          Orders,     \* the orders in which types are given to commands
          MaxTroubles \* bound: removals, failed calls and interruptions

VARIABLES iam,      \* the account
          cmd,      \* the command: items still to do, calls of the current one
          troubles

vars == <<iam, cmd, troubles>>

Types == {"groups", "roles", "policies"}
NamesOf == [groups |-> Groups, roles |-> Roles, policies |-> Policies]

NoEntity ==
  [there |-> FALSE, path |-> "/", trust |-> "none", inline |-> << >>,
   managed |-> {}, profiles |-> {}]
NoPolicy ==
  [there |-> FALSE, path |-> "/", doc |-> "none", described |-> FALSE,
   versions |-> {}, default |-> 0]

\* A function, or record, with this domain.
HasDomain(f, S) == f = [x \in S |-> f[x]]

IsEntity(e) ==
  /\ HasDomain(e, DOMAIN NoEntity)
  /\ e.there \in BOOLEAN /\ (~ e.there => e = NoEntity)
  /\ HasDomain(e.inline, DOMAIN e.inline) /\ IsFiniteSet(DOMAIN e.inline)
  /\ e.managed \subseteq Policies /\ e.profiles \subseteq Profiles
IsPolicy(p) ==
  /\ HasDomain(p, DOMAIN NoPolicy)
  /\ p.there \in BOOLEAN /\ (~ p.there => p = NoPolicy)
  /\ p.there => p.default \in p.versions
  /\ IsFiniteSet(p.versions) /\ Cardinality(p.versions) <= 5

\* Groups and roles refer to policies and profiles that exist, a group has no
\* trust policy and no profiles, and a profile holds one role at most.
IsAccount(a) ==
  /\ HasDomain(a, Types \union {"profiles"})
  /\ HasDomain(a.groups, Groups) /\ \A g \in Groups : IsEntity(a.groups[g])
  /\ HasDomain(a.roles, Roles) /\ \A r \in Roles : IsEntity(a.roles[r])
  /\ HasDomain(a.policies, Policies) /\ \A p \in Policies : IsPolicy(a.policies[p])
  /\ HasDomain(a.profiles, Profiles)
  /\ \A i \in Profiles : HasDomain(a.profiles[i], {"there"}) /\ a.profiles[i].there \in BOOLEAN
  /\ \A g \in Groups : a.groups[g].trust = "none" /\ a.groups[g].profiles = {}
  /\ \A t \in {"groups", "roles"} : \A n \in NamesOf[t] :
       /\ \A p \in a[t][n].managed : a.policies[p].there
       /\ \A i \in a[t][n].profiles : a.profiles[i].there
  /\ \A r, s \in Roles : r # s => a.roles[r].profiles \intersect a.roles[s].profiles = {}

\* An entry of the file of groups or of roles.
IsEntry(r) ==
  /\ HasDomain(r.inline, DOMAIN r.inline) /\ IsFiniteSet(DOMAIN r.inline)
  /\ r.managed \subseteq Policies /\ r.profiles \subseteq Profiles

ASSUME IamAssumption ==
  /\ IsFiniteSet(Policies) /\ IsFiniteSet(Profiles) /\ IsFiniteSet(Groups) /\ IsFiniteSet(Roles)
  /\ \A t \in Types :
       /\ IsFiniteSet(File[t]) /\ \A r \in File[t] : r.name \in NamesOf[t]
       /\ IsFiniteSet(Removed[t]) /\ Removed[t] \subseteq NamesOf[t]
  /\ \A t \in {"groups", "roles"} : \A r \in File[t] : IsEntry(r)
  /\ \A r \in File["groups"] : r.trust = "none" /\ r.profiles = {}
  /\ \A a \in Accounts : IsAccount(a)
  /\ Orders \subseteq Seq(Types)
  /\ MaxTroubles \in Nat

Idle == [op |-> "none", dry |-> FALSE, items |-> << >>, plan |-> << >>, clean |-> TRUE]

-----------------------------------------------------------------------------
(***************************************************************************)
(* The calls of IAM: when one is accepted, and what it does.  IamWrapper   *)
(* catches and prints the errors of its calls; so does update_aws for the  *)
(* creation of policies.  Other errors end the command.                    *)
(***************************************************************************)
Calls(type, fn, on, args) ==
  LET s == SetToSeq(args)
  IN [i \in DOMAIN s |-> [type |-> type, fn |-> fn, on |-> on, arg |-> s[i]]]
OneCall(type, fn, on) == Calls(type, fn, on, {"-"})

Held(profile) == \E r \in Roles : profile \in iam.roles[r].profiles

AcceptedOfEntity(c) ==
  LET e == iam[c.type][c.on] IN
  CASE c.fn = "create" -> ~ e.there
    [] c.fn = "attach" -> e.there /\ iam.policies[c.arg].there
    [] c.fn = "detach" -> c.arg \in e.managed
    [] c.fn = "delete" -> e.managed = {} /\ e.inline = << >> /\ e.profiles = {}
    [] c.fn = "create_instance_profile" -> ~ iam.profiles[c.arg].there
    [] c.fn = "add_to_profile" -> e.there /\ iam.profiles[c.arg].there /\ ~ Held(c.arg)
    [] c.fn = "delete_instance_profile" -> iam.profiles[c.arg].there /\ ~ Held(c.arg)
    [] OTHER -> e.there

AcceptedOfPolicy(c) ==
  LET p == iam.policies[c.on] IN
  CASE c.fn = "create" -> ~ p.there
    [] c.fn = "create_version" -> Cardinality(p.versions) < 5
    [] c.fn = "delete_version" -> c.arg # p.default
    [] c.fn = "delete" ->
         /\ p.versions = {p.default}
         /\ \A g \in Groups : c.on \notin iam.groups[g].managed
         /\ \A r \in Roles : c.on \notin iam.roles[r].managed

Accepted(c) == IF c.type = "policies" THEN AcceptedOfPolicy(c) ELSE AcceptedOfEntity(c)

With(f, x, v) == [y \in DOMAIN f \union {x} |-> IF y = x THEN v ELSE f[y]]

Changed(e, c) ==
  CASE c.fn = "create" -> [NoEntity EXCEPT !.there = TRUE, !.path = c.arg.path,
                                           !.trust = c.arg.trust]
    [] c.fn = "update_trust" -> [e EXCEPT !.trust = c.arg]
    [] c.fn = "put" -> [e EXCEPT !.inline = With(@, c.arg[1], c.arg[2])]
    [] c.fn = "delete_inline" -> [e EXCEPT !.inline = Restrict(@, DOMAIN @ \ {c.arg})]
    [] c.fn = "attach" -> [e EXCEPT !.managed = @ \union {c.arg}]
    [] c.fn = "detach" -> [e EXCEPT !.managed = @ \ {c.arg}]
    [] c.fn = "add_to_profile" -> [e EXCEPT !.profiles = @ \union {c.arg}]
    [] c.fn = "remove_from_profile" -> [e EXCEPT !.profiles = @ \ {c.arg}]
    [] c.fn = "delete" -> NoEntity
    [] OTHER -> e

ChangedPolicy(p, c) ==
  LET next == CHOOSE n \in 1..9 : n \notin p.versions /\ \A v \in p.versions : v < n IN
  CASE c.fn = "create" -> [NoPolicy EXCEPT !.there = TRUE, !.doc = c.arg.doc,
                                           !.versions = {1}, !.default = 1]
    [] c.fn = "create_version" -> [p EXCEPT !.doc = c.arg, !.default = next,
                                            !.versions = @ \union {next}]
    [] c.fn = "delete_version" -> [p EXCEPT !.versions = @ \ {c.arg}]
    [] c.fn = "delete" -> NoPolicy

Done(c) ==
  IF c.type = "policies" THEN [iam EXCEPT !.policies[c.on] = ChangedPolicy(@, c)]
  ELSE LET done == [iam EXCEPT ![c.type][c.on] = Changed(@, c)] IN
       CASE c.fn = "create_instance_profile" -> [done EXCEPT !.profiles[c.arg].there = TRUE]
         [] c.fn = "delete_instance_profile" -> [done EXCEPT !.profiles[c.arg].there = FALSE]
         [] OTHER -> done

\* DryRunWrapper: the calls that a dry run prints instead.
Entities == {"groups", "roles"}
functions ==
  Entities \X {"create", "put", "attach", "detach", "delete_inline", "delete",
               "create_instance_profile", "add_to_profile", "remove_from_profile",
               "delete_instance_profile", "update_trust"}
    \union {"policies"} \X {"create", "create_version", "delete_version", "delete"}
Printed(c) == cmd.dry /\ <<c.type, c.fn>> \in functions

Caught(c) == cmd.op = "import" /\ (c.type # "policies" \/ c.fn = "create")

-----------------------------------------------------------------------------
(***************************************************************************)
(* import: the calls for one type, from the file and from the account.     *)
(***************************************************************************)
Inline(r) == {<<p, r.inline[p]>> : p \in DOMAIN r.inline}

\* Inline and managed policies of a group or role, from r_ to r.
Contents(type, r, r_) ==
  Calls(type, "put", r.name, Inline(r) \ Inline(r_))
    \o Calls(type, "delete_inline", r.name, DOMAIN r_.inline \ DOMAIN r.inline)
    \o Calls(type, "attach", r.name, r.managed \ r_.managed)
    \o Calls(type, "detach", r.name, r_.managed \ r.managed)

NewProfiles(r, profiles) ==
  LET s == SetToSeq(profiles)
  IN FlattenSeq([i \in DOMAIN s |->
       Calls("roles", "create_instance_profile", r.name, {s[i]})
         \o Calls("roles", "add_to_profile", r.name, {s[i]})])

OldProfiles(name, profiles) ==
  LET s == SetToSeq(profiles)
  IN FlattenSeq([i \in DOMAIN s |->
       Calls("roles", "remove_from_profile", name, {s[i]})
         \o Calls("roles", "delete_instance_profile", name, {s[i]})])

group_create(r) == Calls("groups", "create", r.name, {r}) \o Contents("groups", r, NoEntity)
group_update(r, r_) == Contents("groups", r, r_)

role_create(r) ==
  Calls("roles", "create", r.name, {r}) \o Contents("roles", r, NoEntity)
    \o NewProfiles(r, r.profiles)

role_updateKeepingPolicies(r, r_) ==
  Calls("roles", "update_trust", r.name, IF r.trust # r_.trust THEN {r.trust} ELSE {})
    \o Contents("roles", r, [r_ EXCEPT !.managed = @ \intersect r.managed])
    \o NewProfiles(r, r.profiles \ r_.profiles)
    \o OldProfiles(r.name, r_.profiles \ r.profiles)
role_updateWithoutProfiles(r, r_) ==
  Calls("roles", "update_trust", r.name, IF r.trust # r_.trust THEN {r.trust} ELSE {})
    \o Contents("roles", r, r_)

role_update(r, r_) ==
  Calls("roles", "update_trust", r.name, IF r.trust # r_.trust THEN {r.trust} ELSE {})
    \o Contents("roles", r, r_)
    \o NewProfiles(r, r.profiles \ r_.profiles)
    \o OldProfiles(r.name, r_.profiles \ r.profiles)

policy_create(r) == Calls("policies", "create", r.name, {r})

Oldest(versions) == CHOOSE v \in versions : \A w \in versions : v <= w
delete_oldest_policy_version(name, versions) ==
  Calls("policies", "delete_version", name,
        IF Cardinality(versions) = 5 THEN {Oldest(versions)} ELSE {})

\* Both documents are those of the file.
policy_update(r, r_) ==
  LET policy  == r.doc
      policy_ == r.doc
  IN IF policy = policy_ THEN << >>
     ELSE delete_oldest_policy_version(r.name, r_.versions)
            \o Calls("policies", "create_version", r.name, {r.doc})

\* Only what is on the list of names is read from the file.
loadUnfiltered(type) == File[type]
load(type) == {r \in File[type] : r.name \in Whitelist[type]}

Create(type, r) ==
  CASE type = "groups" -> group_create(r)
    [] type = "roles" -> role_create(r)
    [] type = "policies" -> policy_create(r)

Update(type, r, r_) ==
  CASE type = "groups" -> group_update(r, r_)
    [] type = "roles" -> role_update(r, r_)
    [] type = "policies" -> policy_update(r, r_)

\* Of the account, what is on the list of names was read.  A resource whose
\* path differs is left alone.
update_aws(type) ==
  LET s == SetToSeq(load(type))
      calls(r) == LET r_ == iam[type][r.name] IN
                  IF ~ (r_.there /\ r.name \in Whitelist[type]) THEN Create(type, r)
                  ELSE IF r.path # r_.path THEN << >> ELSE Update(type, r, r_)
  IN FlattenSeq([i \in DOMAIN s |-> calls(s[i])])

\* extract raises KeyError for a policy that has a description.
extractFails(type) ==
  type = "policies" /\ \E p \in Whitelist[type] : iam.policies[p].described

-----------------------------------------------------------------------------
(***************************************************************************)
(* remove: the calls for one resource.                                     *)
(***************************************************************************)
group_remove(name) ==
  LET g == iam.groups[name] IN
  Calls("groups", "detach", name, g.managed)
    \o Calls("groups", "delete_inline", name, DOMAIN g.inline)
    \o OneCall("groups", "delete", name)

\* Inline policies of the role stay.
role_remove(name) ==
  LET r == iam.roles[name] IN
  Calls("roles", "detach", name, r.managed) \o OldProfiles(name, r.profiles)
    \o OneCall("roles", "delete", name)

\* Groups are named by their ids, which are not the names of groups.
GroupId == "group_id"
policy_removeSwapped(name) ==
  LET roles == SetToSeq({r \in Roles : name \in iam.roles[r].managed})
  IN FlattenSeq([i \in DOMAIN roles |-> Calls("roles", "detach", name, {roles[i]})])
       \o OneCall("policies", "delete", name)
policy_remove(name) ==
  LET p == iam.policies[name]
      roles == SetToSeq({r \in Roles : name \in iam.roles[r].managed})
  IN Calls("groups", "detach", GroupId,
           IF \E g \in Groups : name \in iam.groups[g].managed THEN {name} ELSE {})
       \o FlattenSeq([i \in DOMAIN roles |-> Calls("roles", "detach", roles[i], {name})])
       \o Calls("policies", "delete_version", name, p.versions \ {p.default})
       \o OneCall("policies", "delete", name)

remove(type, name) ==
  IF ~ iam[type][name].there THEN << >>
  ELSE CASE type = "groups" -> group_remove(name)
         [] type = "roles" -> role_remove(name)
         [] type = "policies" -> policy_remove(name)

-----------------------------------------------------------------------------
(***************************************************************************)
(* The program                                                             *)
(***************************************************************************)
Trouble == troubles < MaxTroubles /\ troubles' = troubles + 1

Init == iam \in Accounts /\ cmd = Idle /\ troubles = 0

Ended == cmd.items = << >> /\ cmd.plan = << >>
Free == Ended \/ cmd.op = "none"

Start(op, dry, items) ==
  /\ Free
  /\ cmd' = [op |-> op, dry |-> dry, clean |-> TRUE, plan |-> << >>, items |-> items]
  /\ UNCHANGED iam

ItemsToImport(order) == [i \in DOMAIN order |-> <<order[i], "all">>]

ItemsToRemove(order) ==
  FlattenSeq([i \in DOMAIN order |->
    LET s == SetToSeq(Removed[order[i]]) IN [j \in DOMAIN s |-> <<order[i], s[j]>>]])

StartImport ==
  \E order \in Orders : Start("import", FALSE, ItemsToImport(order)) /\ UNCHANGED troubles
StartDryRun ==
  \E order \in Orders : Start("import", TRUE, ItemsToImport(order)) /\ Trouble
StartRemove ==
  \E order \in Orders, dry \in BOOLEAN : Start("remove", dry, ItemsToRemove(order)) /\ Trouble

\* The next type or resource: what is there is read, and its calls follow.
NextItem ==
  LET type == cmd.items[1][1]
      name == cmd.items[1][2]
  IN /\ cmd.plan = << >> /\ cmd.items # << >>
     /\ IF cmd.op = "import" /\ extractFails(type) THEN cmd' = Idle
        ELSE cmd' = [cmd EXCEPT !.items = Tail(@),
                       !.plan = IF cmd.op = "import" THEN update_aws(type)
                                ELSE remove(type, name)]
     /\ UNCHANGED <<iam, troubles>>

\* An error is printed and the next call follows, or it ends the command.
Failed(c) ==
  cmd' = IF Caught(c) THEN [cmd EXCEPT !.plan = Tail(@), !.clean = FALSE] ELSE Idle

Call ==
  LET c == cmd.plan[1] IN
  /\ cmd.plan # << >>
  /\ IF Printed(c) THEN iam' = iam /\ cmd' = [cmd EXCEPT !.plan = Tail(@)]
     ELSE IF c.on \in NamesOf[c.type] /\ Accepted(c)
     THEN iam' = Done(c) /\ cmd' = [cmd EXCEPT !.plan = Tail(@)]
     ELSE iam' = iam /\ Failed(c)
  /\ UNCHANGED troubles

\* AWS fails a call.
CallFails ==
  /\ cmd.plan # << >> /\ ~ Printed(cmd.plan[1])
  /\ Trouble
  /\ Failed(cmd.plan[1])
  /\ UNCHANGED iam

Interrupted ==
  /\ ~ Free
  /\ Trouble
  /\ cmd' = Idle
  /\ UNCHANGED iam

Next == StartImport \/ StartDryRun \/ StartRemove \/ NextItem \/ Call \/ CallFails \/ Interrupted

Spec == Init /\ [][Next]_vars

\* A command that runs goes on; the operator imports again and again.
FairSpec == Spec /\ WF_vars(NextItem \/ Call) /\ WF_vars(StartImport)

-----------------------------------------------------------------------------
(***************************************************************************)
(* Properties                                                              *)
(***************************************************************************)
\* The account stays one that IAM can hold, with no reference to what does not
\* exist, and the calls of a command name things of the account.
TypeOK ==
  /\ IsAccount(iam)
  /\ cmd.op \in {"none", "import", "remove"} /\ cmd.clean \in BOOLEAN
  /\ \A i \in DOMAIN cmd.plan :
       cmd.plan[i].on \in NamesOf[cmd.plan[i].type] \union {GroupId}
  /\ troubles \in 0..MaxTroubles

\* A group or role is as the file says, or has another path.
AsInFile(type, r) ==
  LET e == iam[type][r.name] IN
  /\ e.there
  /\ e.path = r.path =>
       /\ e.trust = r.trust /\ e.inline = r.inline
       /\ e.managed = r.managed /\ e.profiles = r.profiles

AllAsInFile == \A t \in {"groups", "roles"} : \A r \in load(t) : AsInFile(t, r)

\* A command that ends without having printed an error has done what it was
\* asked: groups and roles of the list are as in the file, or what was to be
\* removed is gone.  (The documents of policies are not: policy_update.)
CommandsKeepTheirWord ==
  Ended /\ cmd.clean /\ ~ cmd.dry =>
    CASE cmd.op = "import" -> AllAsInFile
      [] cmd.op = "remove" ->
           \A t \in Types : \A n \in Removed[t] : ~ iam[t][n].there
      [] OTHER -> TRUE

\* However calls failed and commands were interrupted, importing again and
\* again, in whatever orders, brings groups and roles to what the file says
\* (unless a policy has a description: then no import of policies gets by).
RepeatedImportsConverge ==
  <>[]((\A p \in Policies : ~ iam.policies[p].described) => AllAsInFile)

\* An import changes nothing whose name is not on the list, and a dry run
\* changes nothing at all.
NothingElseChanges ==
  [][/\ cmd.dry => UNCHANGED iam
     /\ cmd.op = "import" =>
          \A t \in Types : \A n \in NamesOf[t] \ Whitelist[t] : iam'[t][n] = iam[t][n]]_vars

\* docs/InitialAwsSetup.md: "import roles groups policies" imports the initial
\* configuration: in an account without any of it, and if nothing fails.
SetupImportsAll ==
  Ended /\ cmd.op = "import" /\ troubles = 0 => AllAsInFile

\* "Compare and potentially update the referenced IAM Policy": after an import
\* in which nothing failed the documents of policies are those of the file.
PoliciesAreUpdated ==
  Ended /\ cmd.op = "import" /\ troubles = 0 =>
    \A r \in load("policies") : iam.policies[r.name].doc = r.doc
=============================================================================
