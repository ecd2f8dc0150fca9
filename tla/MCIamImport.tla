---------------------------- MODULE MCIamImport ----------------------------
(***************************************************************************)
(* One role, group and policy that are imported, one of each that is       *)
(* removed, and a role that is in the file but not on the list.  The       *)
(* accounts found at first have none of them, other versions of them, or   *)
(* parts of them.                                                          *)
(***************************************************************************)
EXTENDS IamImport, TLC

MCFile ==
  [groups |-> {[name |-> "g", path |-> "/", trust |-> "none", inline |-> ("a" :> "d1"),
                managed |-> {"p", "aws"}, profiles |-> {}]},
   roles |-> {[name |-> n, path |-> "/", trust |-> "t1", inline |-> ("a" :> "d1"),
               managed |-> {"p"}, profiles |-> IF n = "r" THEN {"i"} ELSE {}] :
              n \in {"r", "unlisted"}},
   policies |-> {[name |-> "p", path |-> "/", doc |-> "d1"]}]

MCWhitelist == [groups |-> {"g"}, roles |-> {"r"}, policies |-> {"p"}]
MCRemoved == [groups |-> {"oldg"}, roles |-> {"oldr"}, policies |-> {"old"}]
MCOrders ==
  {<<"policies", "roles", "groups">>, <<"roles", "groups", "policies">>,
   <<"groups", "policies", "roles">>}
DocumentedOrder == {<<"roles", "groups", "policies">>}

Entity(path, trust, inline, managed, profiles) ==
  [there |-> TRUE, path |-> path, trust |-> trust, inline |-> inline,
   managed |-> managed, profiles |-> profiles]
Policy(doc, described, versions) ==
  [there |-> TRUE, path |-> "/", doc |-> doc, described |-> described,
   versions |-> versions, default |-> Cardinality(versions)]

RolesFound ==
  {NoEntity, Entity("/", "t2", "a" :> "d2" @@ "b" :> "d1", {"old"}, {"j"}),
   Entity("/other/", "t2", << >>, {}, {})}
GroupFound(r) == IF r.there THEN Entity("/", "none", "b" :> "d1", {"old"}, {}) ELSE NoEntity
OldRoleFound(r) ==
  Entity("/", "t1", IF r.path = "/" THEN << >> ELSE "a" :> "d1", {"old"}, {"k"})
PoliciesFound == {NoPolicy, Policy("d2", FALSE, 1..5), Policy("d1", TRUE, {1})}

Account(r, g, old, p, free) ==
  [roles |-> [r |-> r, oldr |-> old, unlisted |-> NoEntity],
   groups |-> [g |-> g, oldg |-> Entity("/", "none", "a" :> "d1", {"aws"}, {})],
   policies |-> [p |-> p, old |-> Policy("d1", FALSE, 1..2), aws |-> Policy("d1", FALSE, {1})],
   profiles |-> [i |-> [there |-> free], j |-> [there |-> "j" \in r.profiles],
                 k |-> [there |-> "k" \in old.profiles]]]

MCAccounts ==
  {Account(r, GroupFound(r), OldRoleFound(r), p, free) :
     r \in RolesFound, p \in PoliciesFound, free \in BOOLEAN}

EmptyAccount == {Account(NoEntity, NoEntity, NoEntity, NoPolicy, FALSE)}
=============================================================================
