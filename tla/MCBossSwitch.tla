------------------------------ MODULE MCBossSwitch ------------------------------
(***************************************************************************)
(* Vault, a group that is switched and an Auth group that is not; one size  *)
(* scaled to zero machines without being off.                               *)
(***************************************************************************)
EXTENDS BossSwitch

MCOrder == <<"Vault", "Endpoint", "Auth">>
NoRds == {"Auth"}
Three(min, max, desired) ==
    [k \in Keys |-> CASE k = "min" -> min [] k = "max" -> max [] OTHER -> desired]
MCSizes == {Three(1, 2, 2), Three(0, 1, 0)}
OneSize == {Three(1, 2, 2)}
================================================================================
