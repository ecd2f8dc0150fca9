--------------------------- MODULE MCObjectIndex ---------------------------
(***************************************************************************)
(* Two channels with two ids to index: those of one cuboid, and those of   *)
(* two cuboids.                                                            *)
(***************************************************************************)
EXTENDS ObjectIndex, TLC

OneCuboid == 1 :> "c" @@ 2 :> "c"
TwoCuboids == 1 :> "c" @@ 2 :> "d"
BothChannels == {OneCuboid, TwoCuboids}
=============================================================================
