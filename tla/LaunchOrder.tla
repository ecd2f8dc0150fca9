------------------------------ MODULE LaunchOrder ------------------------------
(***************************************************************************)
(* What build_dependency_graph (bin/cloudformation.py) promises its        *)
(* caller, whatever the way it computes it: given the command, the         *)
(* configurations named on the command line and the stacks that exist, one *)
(* step either refuses the command for a reason or answers the stacks to   *)
(* act on, each once and in dependency order.  DependencyGraph implements  *)
(* this module.                                                            *)
(***************************************************************************)
EXTENDS LaunchRules

CONSTANTS DepGraphs,  \* the DEPENDENCIES the configurations may declare
          ArgLists,   \* the lists of configurations that may be requested
          Actions,    \* the commands that may be given
          StackViews  \* what list_stacks may answer

ASSUME ConstantsTyped ==
    /\ DepGraphs \subseteq [Configs -> Seq(Configs)]
    /\ ArgLists \subseteq Seq(Configs)
    /\ Actions \subseteq Action
    /\ StackViews \subseteq [Configs -> StackView]

VARIABLES deps, action, modules, existing, outcome

inputs == <<deps, action, modules, existing>>

Outcome == [kind : {"pending", "problems", "missing", "circular",
                    "in_progress", "ok"},
            order : Seq(Configs)]

Pending == Refuse("pending")

Init ==
    /\ deps \in DepGraphs
    /\ action \in Actions
    /\ modules \in ArgLists
    /\ existing \in StackViews
    /\ outcome = Pending

Answer ==
    /\ outcome = Pending
    /\ outcome' \in Answers(deps, action, ToSet(modules), existing)
    /\ UNCHANGED inputs

Safe == Init /\ [][Answer]_<<inputs, outcome>>

\* It does answer.
Spec == Safe /\ <>(outcome # Pending)
================================================================================
