----------------------------- MODULE WorkLedger -----------------------------
(***************************************************************************)
(* What the indexing of a channel promises, whatever queues and step       *)
(* functions it is made of: an id of a cuboid that was given to it stays   *)
(* open until it is indexed or its failure is on record, in the dead       *)
(* letter queue or as a failed execution.  A record of failure does not    *)
(* keep an id from being indexed later, by another copy of the work.       *)
(***************************************************************************)
CONSTANT Items      \* the ids of the cuboids of the channel

VARIABLES book,     \* item |-> how its indexing stands
          forgets   \* whether work may end without any trace

Standing == {"outside", "open", "indexed", "reported", "failed", "forgotten"}

Moves ==
  {<<"outside", "open">>, <<"open", "reported">>, <<"open", "failed">>,
   <<"failed", "reported">>}
  \union {<<s, "indexed">> : s \in Standing \ {"outside"}}
  \union (IF forgets
          THEN {<<"open", "forgotten">>}
               \union {<<"forgotten", s>> : s \in {"reported", "failed"}}
          ELSE {})

Init == book = [i \in Items |-> "outside"] /\ forgets \in BOOLEAN

Next ==
  /\ UNCHANGED forgets
  /\ book' \in [Items -> Standing]
  /\ \A i \in Items : book'[i] = book[i] \/ <<book[i], book'[i]>> \in Moves

Settled == \A i \in Items : book[i] = "open" ~> book[i] # "open"

Spec == Init /\ [][Next]_<<book, forgets>> /\ Settled
=============================================================================
