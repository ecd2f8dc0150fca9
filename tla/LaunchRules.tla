------------------------------ MODULE LaunchRules ------------------------------
(***************************************************************************)
(* When bin/cloudformation.py accepts a command, and in which orders it may *)
(* work through the stacks: the rules build_dependency_graph enforces, as   *)
(* operators over the dependencies, the command, the requested              *)
(* configurations and the stacks that exist.                                *)
(***************************************************************************)
EXTENDS StackStatus, Naturals, SequencesExt

CONSTANT Configs    \* the configurations under cloud_formation/configs

Refuse(kind) == [kind |-> kind, order |-> <<>>]

ProblemsOfTargets(act, named, view) ==
    \E c \in named :
        view[c] \in InProgress \/ (view[c] \in Failed /\ act # "delete")

\* A stack is busy, or is failed and this command is not its deletion.
Problems(act, named, view) ==
    \E c \in Configs :
        \/ view[c] \in InProgress
        \/ view[c] \in Failed /\ (c \notin named \/ act # "delete")

\* A dependency is neither there nor about to be created.
Missing(graph, act, named, view) ==
    \E c \in named : \E d \in ToSet(graph[c]) :
        /\ view[d] = Absent
        /\ IF d \in named THEN act \notin {"create", "delete"}
                          ELSE act = "create"

\* Some requested configurations all wait for each other.
Cyclic(graph, named) ==
    \E S \in SUBSET named : 
        S # {} /\ \A c \in S : ToSet(graph[c]) \cap S # {}

\* The command applies to this configuration.
Applies(act, view, c) == (view[c] = Absent) = (act = "create")

\* c waits for d, directly or through other requested configurations: d is in
\* every set that holds what c waits for and what its own members wait for.
WaitsFor(graph, named, c, d) ==
    LET Edges(x) == ToSet(graph[x]) \cap named
    IN  \A S \in SUBSET named :
            (Edges(c) \subseteq S /\ \A x \in S : Edges(x) \subseteq S) => d \in S

ToDo(act, named, view) == {c \in named : Applies(act, view, c)}

OrdersForward(graph, act, named, view) ==
    { s \in SetToSeqs(ToDo(act, named, view)) :
        \A i, j \in DOMAIN s : WaitsFor(graph, named, s[i], s[j]) => j < i }

\* The requested configurations the command applies to, each after those it waits
\* for; for "delete" the other way around.
Orders(graph, act, named, view) ==
    { s \in SetToSeqs(ToDo(act, named, view)) :
        \A i, j \in DOMAIN s : WaitsFor(graph, named, s[i], s[j]) =>
            IF act = "delete" THEN i < j ELSE j < i }

Answers(graph, act, named, view) ==
    CASE Problems(act, named, view)       -> {Refuse("problems")}
      [] ~ Problems(act, named, view) /\ Missing(graph, act, named, view)
                                          -> {Refuse("missing")}
      [] ~ Problems(act, named, view) /\ ~ Missing(graph, act, named, view)
         /\ Cyclic(graph, named)          -> {Refuse("circular")}
      [] OTHER -> [kind : {"ok"}, order : Orders(graph, act, named, view)]
================================================================================
