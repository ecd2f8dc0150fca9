---------------------------- MODULE MCStackLifecycle ----------------------------
(***************************************************************************)
(* core, redis and api of cloud_formation/configs: a chain with a shortcut. *)
(***************************************************************************)
EXTENDS StackLifecycle

MCConfigs == {"core", "redis", "api"}

MCDeps == [c \in MCConfigs |->
              CASE c = "core"  -> <<>>
                [] c = "redis" -> <<"core">>
                [] c = "api"   -> <<"core", "redis">>]

MCRequests == {<<"core", "redis", "api">>, <<"redis">>, <<"api", "core">>}
================================================================================
