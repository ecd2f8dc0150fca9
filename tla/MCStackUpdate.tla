----------------------------- MODULE MCStackUpdate -----------------------------
(***************************************************************************)
(* A configuration with a migration from each version to the next, as core  *)
(* has the first two of, and checkouts at 1, 3 and 5, two of them at 3.      *)
(***************************************************************************)
EXTENDS StackUpdate

MCFiles == {[start |-> 1, stop |-> 2, pre |-> TRUE, post |-> TRUE],
            [start |-> 2, stop |-> 3, pre |-> FALSE, post |-> TRUE],
            [start |-> 3, stop |-> 4, pre |-> TRUE, post |-> FALSE],
            [start |-> 4, stop |-> 5, pre |-> FALSE, post |-> TRUE]}

MCCommits == {"v1", "v3", "v3b", "v5"}

MCVersionOf == [c \in MCCommits |->
                   CASE c = "v1" -> 1 [] c = "v5" -> 5 [] OTHER -> 3]
================================================================================
