--------------------------- MODULE MCDependencyGraph ---------------------------
(***************************************************************************)
(* Instances of DependencyGraph for TLC: every small graph, every status,  *)
(* and the configurations this repository ships.                           *)
(***************************************************************************)
EXTENDS DependencyGraph

\* DEPENDENCIES of cloud_formation/configs/*.py, for the list "all" stands for
\* in bin/cloudformation.py.
AllList == <<"core", "redis", "api", "cachedb", "activities", "idindexing",
             "cloudwatch", "dynamolambda">>

Shipped == ToSet(AllList)

ShippedDeps ==
    [x \in Shipped |->
        CASE x = "core"         -> <<>>
          [] x = "redis"        -> <<"core">>
          [] x = "api"          -> <<"core", "redis">>
          [] x = "cachedb"      -> <<"core", "redis", "api">>
          [] x = "activities"   -> <<"core", "api", "redis", "cachedb">>
          [] x = "idindexing"   -> <<"activities", "cachedb">>
          [] x = "cloudwatch"   -> <<"core", "api">>
          [] x = "dynamolambda" -> <<"api">>]

--------------------------------------------------------------------------------
\* Three of the configurations, with dependencies of our choosing; the others
\* are there, wait for nothing and are never asked for.
Three == {"core", "redis", "api"}

Alone(S, x) == [c \in Shipped |-> IF c \in Three THEN S[c] ELSE x]

\* Every graph in which a configuration waits for at most two others, itself
\* included: chains, diamonds, self-loops, cycles that no root reaches.
SmallGraphs ==
    {Alone(g, <<>>) :
        g \in [Three -> {<<>>, <<"core">>, <<"redis">>, <<"api">>, <<"core", "redis">>,
                         <<"api", "redis">>, <<"api", "core">>}]}

Diamond ==
    [x \in Shipped |-> CASE x = "redis" -> <<"core">>
                         [] x = "api"   -> <<"redis", "core">>
                         [] OTHER       -> <<>>]

\* With every graph enumerated the order of the request matters only against
\* the order of the edges.
DistinctArgs == {<<"core", "redis", "api">>, <<"api", "core">>, <<"redis", "core">>,
                 <<"core">>}

ThreeActions == {"create", "delete", "post_init"}

Existence == {Alone(v, Absent) : v \in [Three -> {Absent, "CREATE_COMPLETE"}]}

AnyStatus ==
    {Alone(v, Absent) :
        v \in [Three -> {Absent, "UPDATE_COMPLETE", "ROLLBACK_IN_PROGRESS",
                         "UPDATE_ROLLBACK_FAILED", "ROLLBACK_FAILED"}]}

\* What an interrupted "create all" or "delete all" leaves: any existing stack
\* comes with its dependencies.
ClosedViews ==
    { v \in [Shipped -> {Absent, "CREATE_COMPLETE"}] :
        \A x \in Shipped : v[x] # Absent =>
            \A d \in ToSet(ShippedDeps[x]) : v[d] # Absent }

--------------------------------------------------------------------------------
Graphs == SmallGraphs \cup {Diamond, ShippedDeps}
Requests == DistinctArgs \cup {AllList}
Views == Existence \cup AnyStatus \cup ClosedViews

EveryGraph ==
    /\ deps \in SmallGraphs /\ existing \in Existence
    /\ modules \in DistinctArgs /\ action \in ThreeActions

EveryStatus ==
    /\ deps = Diamond /\ existing \in AnyStatus
    /\ modules \in DistinctArgs /\ action \in ThreeActions

Everything ==
    /\ deps = ShippedDeps /\ existing \in ClosedViews
    /\ modules = AllList /\ action \in {"create", "delete"}

StartScenario == (EveryGraph \/ EveryStatus \/ Everything) /\ Start
Scenarios == StartScenario /\ [][Next]_vars /\ WF_vars(Next)

\* All of them are being created when one is to be updated.
OneGraph == {ShippedDeps}
OneRequest == {<<c>> : c \in Shipped}
AllBusy == {[c \in Shipped |-> "CREATE_IN_PROGRESS"], [c \in Shipped |-> "CREATE_COMPLETE"]}
================================================================================
