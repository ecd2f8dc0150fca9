---------------------------- MODULE DependencyGraph ----------------------------
(***************************************************************************)
(* build_dependency_graph of bin/cloudformation.py, step by step: the scan *)
(* of the existing stacks, the edges of the graph, the depth-first         *)
(* resolution with its explicit stack of calls, and the final filter.      *)
(***************************************************************************)
EXTENDS LaunchOrder

VARIABLES pc,        \* "scan", "deps", "resolve", "filter" or "done"
          edges,     \* Node.edges: what each requested configuration waits for
          noDeps,    \* roots still to resolve: no_deps, shrinking from the front
          at,        \* the configuration and the dependency being read
          calls,     \* active calls of resolve(), innermost last: the node and
                     \* the index of the edge its loop is at
          seen,      \* nodes entered since the current root
          resolved,  \* nodes in the order resolve() finished them
          kept       \* the first at.config - 1 of them, without those the
                     \* command does not apply to

vars == <<inputs, outcome, pc, edges, noDeps, at, calls, seen, resolved, kept>>

Call == [node : Configs, next : Nat \ {0}]

Place == [config : Nat \ {0}, dep : Nat \ {0}]

FirstPlace == [config |-> 1, dep |-> 1]

named == ToSet(modules)

Start ==
    /\ Init
    /\ pc = "scan"
    /\ edges = [c \in Configs |-> <<>>]
    /\ noDeps = modules
    /\ at = FirstPlace
    /\ calls = <<>>
    /\ seen = {}
    /\ resolved = <<>>
    /\ kept = <<>>

Raise(kind) ==
    /\ pc' = "done"
    /\ outcome' = Refuse(kind)

--------------------------------------------------------------------------------
\* A busy stack stops every command.  A failed one stops it unless the command
\* is about to delete exactly that stack.
MustStop(name) ==
    \/ existing[name] \in InProgress
    \/ existing[name] \in Failed /\ (name \notin named \/ action # "delete")

ScanExisting ==
    /\ pc = "scan"
    /\ IF \E name \in Configs : MustStop(name)
       THEN Raise("problems")
       ELSE pc' = "deps" /\ UNCHANGED outcome
    /\ UNCHANGED <<inputs, edges, noDeps, at, calls, seen, resolved, kept>>

--------------------------------------------------------------------------------
IsMissingOnDelete(dep) ==
    /\ existing[dep] = Absent
    /\ IF dep \in named THEN action # "create" ELSE action = "create"

\* A dependency outside the request must exist when creating; one inside it
\* must exist unless it is created or deleted along.
IsMissing(dep) ==
    /\ existing[dep] = Absent
    /\ \/ dep \notin named /\ action = "create"
       \/ dep \in named /\ action \notin {"create", "delete"}

AtDependency ==
    /\ pc = "deps" /\ at.config <= Len(modules)
    /\ at.dep <= Len(deps[modules[at.config]])

Config == modules[at.config]

Dependency == deps[Config][at.dep]

NextDependency == at' = [config |-> at.config, dep |-> at.dep + 1]

MissingDependency ==
    /\ AtDependency
    /\ IsMissing(Dependency)
    /\ Raise("missing")
    /\ UNCHANGED <<inputs, edges, noDeps, at, calls, seen, resolved, kept>>

OutsideDependency ==
    /\ AtDependency
    /\ ~ IsMissing(Dependency) /\ Dependency \notin named
    /\ NextDependency
    /\ UNCHANGED <<inputs, outcome, pc, edges, noDeps, calls, seen, resolved,
                   kept>>

\* list.remove: the first occurrence goes, if there is one.
DropRoot(c) ==
    IF c \in ToSet(noDeps)
    THEN \E k \in DOMAIN noDeps :
            /\ noDeps[k] = c
            /\ \A j \in 1 .. k - 1 : noDeps[j] # c
            /\ noDeps' = SubSeq(noDeps, 1, k - 1)
                            \o SubSeq(noDeps, k + 1, Len(noDeps))
    ELSE UNCHANGED noDeps

AddEdge ==
    /\ AtDependency
    /\ ~ IsMissing(Dependency) /\ Dependency \in named
    /\ edges' = [edges EXCEPT ![Config] = Append(@, Dependency)]
    /\ DropRoot(Dependency)
    /\ NextDependency
    /\ UNCHANGED <<inputs, outcome, pc, calls, seen, resolved, kept>>

NextConfig ==
    /\ pc = "deps" /\ at.config <= Len(modules)
    /\ at.dep > Len(deps[Config])
    /\ at' = [config |-> at.config + 1, dep |-> 1]
    /\ UNCHANGED <<inputs, outcome, pc, edges, noDeps, calls, seen, resolved,
                   kept>>

StartResolving ==
    /\ pc = "deps" /\ at.config > Len(modules)
    /\ pc' = "resolve"
    /\ UNCHANGED <<inputs, outcome, edges, noDeps, at, calls, seen, resolved,
                   kept>>

--------------------------------------------------------------------------------
\* resolve(root, resolved): a fresh "seen" list for every root.
NextRoot ==
    /\ pc = "resolve" /\ calls = <<>> /\ noDeps # <<>>
    /\ calls' = <<[node |-> Head(noDeps), next |-> 1]>>
    /\ seen' = {Head(noDeps)}
    /\ noDeps' = Tail(noDeps)
    /\ UNCHANGED <<inputs, outcome, pc, edges, at, resolved, kept>>

Top == calls[Len(calls)]

AtEdge == /\ pc = "resolve" /\ calls # <<>>
          /\ Top.next <= Len(edges[Top.node])

Edge == edges[Top.node][Top.next]

SkipResolved ==
    /\ AtEdge
    /\ Edge \in ToSet(resolved)
    /\ calls' = [calls EXCEPT ![Len(calls)] = [node |-> Top.node,
                                             next |-> Top.next + 1]]
    /\ UNCHANGED <<inputs, outcome, pc, edges, noDeps, at, seen, resolved, kept>>

DescendPreOrder ==
    /\ AtEdge
    /\ Edge \notin ToSet(resolved) \cup seen
    /\ calls' = Append(calls, [node |-> Edge, next |-> 1])
    /\ seen' = seen \cup {Edge}
    /\ resolved' = Append(resolved, Edge)
    /\ UNCHANGED <<inputs, outcome, pc, edges, noDeps, at, kept>>

Descend ==
    /\ AtEdge
    /\ Edge \notin ToSet(resolved) \cup seen
    /\ calls' = Append(calls, [node |-> Edge, next |-> 1])
    /\ seen' = seen \cup {Edge}
    /\ UNCHANGED <<inputs, outcome, pc, edges, noDeps, at, resolved, kept>>

FindCycle ==
    /\ AtEdge
    /\ Edge \notin ToSet(resolved) /\ Edge \in seen
    /\ Raise("circular")
    /\ UNCHANGED <<inputs, edges, noDeps, at, calls, seen, resolved, kept>>

\* The end of the loop: the node is resolved.  The loop of the call below
\* is still at the edge that led here and now finds it resolved.
Finish ==
    /\ pc = "resolve" /\ calls # <<>>
    /\ Top.next > Len(edges[Top.node])
    /\ resolved' = Append(resolved, Top.node)
    /\ calls' = SubSeq(calls, 1, Len(calls) - 1)
    /\ UNCHANGED <<inputs, outcome, pc, edges, noDeps, at, seen, kept>>

--------------------------------------------------------------------------------
EndResolvingUnchecked ==
    /\ pc = "resolve" /\ calls = <<>> /\ noDeps = <<>>
    /\ pc' = "filter" /\ at' = FirstPlace
    /\ UNCHANGED <<inputs, outcome, edges, noDeps, calls, seen, resolved, kept>>

\* Everything is resolved, unless some configurations were never reached.
EndResolving ==
    /\ pc = "resolve" /\ calls = <<>> /\ noDeps = <<>>
    /\ IF Len(resolved) # Len(modules)
       THEN Raise("circular") /\ UNCHANGED at
       ELSE pc' = "filter" /\ at' = FirstPlace /\ UNCHANGED outcome
    /\ UNCHANGED <<inputs, edges, noDeps, calls, seen, resolved, kept>>

\* Create skips what exists, every other command what does not.
Filter ==
    /\ pc = "filter" /\ at.config <= Len(resolved)
    /\ LET c == resolved[at.config]
           remove == IF action = "create" THEN existing[c] # Absent
                                          ELSE existing[c] = Absent
       IN  kept' = IF remove THEN kept ELSE Append(kept, c)
    /\ at' = [config |-> at.config + 1, dep |-> 1]
    /\ UNCHANGED <<inputs, outcome, pc, edges, noDeps, calls, seen, resolved>>

ReorderedForward == kept

\* delete turns the list around
Reordered == IF action = "delete" THEN Reverse(kept) ELSE kept

\* A target that is being processed after all is refused.
Return ==
    /\ pc = "filter" /\ at.config > Len(resolved)
    /\ IF \E c \in ToSet(Reordered) : existing[c] \in InProgress
       THEN Raise("in_progress")
       ELSE /\ pc' = "done"
            /\ outcome' = [kind |-> "ok", order |-> Reordered]
    /\ UNCHANGED <<inputs, edges, noDeps, at, calls, seen, resolved, kept>>

--------------------------------------------------------------------------------
ReadDependencies ==
    \/ MissingDependency \/ OutsideDependency \/ AddEdge
    \/ NextConfig \/ StartResolving

Resolve ==
    NextRoot \/ SkipResolved \/ Descend \/ FindCycle \/ Finish \/ EndResolving

Next == ScanExisting \/ ReadDependencies \/ Resolve \/ Filter \/ Return

\* One thread runs the function to its end.
GraphSpec == Start /\ [][Next]_vars /\ WF_vars(Next)

--------------------------------------------------------------------------------
TypeOK ==
    /\ deps \in DepGraphs /\ action \in Actions
    /\ modules \in ArgLists /\ existing \in StackViews
    /\ outcome \in Outcome
    /\ pc \in {"scan", "deps", "resolve", "filter", "done"}
    /\ edges \in [Configs -> Seq(Configs)]
    /\ noDeps \in Seq(Configs)
    /\ at \in Place
    /\ calls \in Seq(Call)
    /\ seen \in SUBSET Configs
    /\ resolved \in Seq(Configs)
    /\ kept \in Seq(Configs)

\* resolve() appends a configuration only after everything it waits for, at
\* every moment of the traversal and whatever the graph: also on the way to a
\* cycle, and when the same configuration was requested twice.
ResolvedInOrder ==
    \A i \in DOMAIN resolved : \A k \in DOMAIN edges[resolved[i]] :
        \E j \in 1 .. i - 1 : resolved[j] = edges[resolved[i]][k]

\* A cycle reported from inside resolve() is a cycle of the graph: a node that
\* was seen and is not resolved is an active call, and the active calls from it
\* to the innermost one each wait for the next.
ActiveCallsAreAChain ==
    pc = "resolve" =>
        /\ seen \subseteq ToSet(resolved) \cup {calls[i].node : i \in DOMAIN calls}
        /\ \A i \in 1 .. Len(calls) - 1 :
              edges[calls[i].node][calls[i].next] = calls[i + 1].node

\* No stack is acted upon too early.  Creating: every dependency of a stack to
\* create exists already or is created before it, also one that was not
\* requested.  Deleting: every requested stack that depends on another goes
\* before it.
NothingTooEarly ==
    outcome.kind = "ok" =>
        \A i \in DOMAIN outcome.order : \A k \in DOMAIN deps[outcome.order[i]] :
            LET d == deps[outcome.order[i]][k] IN
            /\ action = "create" =>
                  existing[d] # Absent \/ \E j \in 1 .. i - 1 : outcome.order[j] = d
            /\ (action = "delete" /\ existing[d] # Absent /\ d \in named) =>
                  \E j \in i + 1 .. Len(outcome.order) : outcome.order[j] = d

\* "create all" and "delete all" can be run again after any interruption that
\* left no stack busy or failed: they are not refused, and act on exactly the
\* stacks that are left to act on.
AllCanBeResumed ==
    (/\ named = Configs /\ ~ Cyclic(deps, named) /\ action \in {"create", "delete"}
     /\ \A c \in Configs : existing[c] \in Settled \cup {Absent}
     /\ outcome # Pending) =>
        /\ outcome.kind = "ok"
        /\ ToSet(outcome.order) = ToDo(action, named, existing)

\* The function answers what LaunchOrder promises: the right refusal, or each
\* stack to act on once, in dependency order, reversed for a deletion; and it
\* does answer (lists that name a configuration once).
AnswersAsPromised == Spec

\* A target that is being processed is reported as DependencyInProgressError,
\* as test_update_in_progress of test/test_dependency_graph.py expects.
BusyTargetIsReported ==
    (/\ outcome.kind # "pending"
     /\ action = "update"
     /\ \A c \in Configs : existing[c] = "CREATE_IN_PROGRESS")
    => outcome.kind = "in_progress"

--------------------------------------------------------------------------------
(***************************************************************************)
(* The inductive invariant behind ResolvedInOrder, ActiveCallsAreAChain    *)
(* and NothingTooEarly.                                                    *)
(***************************************************************************)

\* Which variables have been touched in which phase.
Phases ==
    /\ pc \in {"scan", "deps"} => resolved = <<>> /\ calls = <<>> /\ seen = {}
    /\ pc \in {"scan", "deps", "resolve"} => kept = <<>>
    /\ pc = "scan" => at = FirstPlace
    /\ pc # "done" => outcome = Pending

\* Only requested configurations enter the graph and the traversal.
NodesRequested ==
    /\ \A c \in Configs : \A k \in DOMAIN edges[c] : edges[c][k] \in named
    /\ \A k \in DOMAIN noDeps : noDeps[k] \in named
    /\ \A k \in DOMAIN calls : calls[k].node \in named
    /\ \A k \in DOMAIN resolved : resolved[k] \in named
    /\ \A k \in DOMAIN kept : kept[k] \in named

\* The loop over the dependencies has been at dependency k of modules[i].
WasRead(i, k) ==
    \/ pc = "deps" /\ (i < at.config \/ (i = at.config /\ k < at.dep))
    \/ pc \in {"resolve", "filter"}

WasAccepted(i, k) ==
    LET d == deps[modules[i]][k] IN
    /\ ~ IsMissing(d)
    /\ d \in named => \E m \in DOMAIN edges[modules[i]] : edges[modules[i]][m] = d

DepsRead ==
    \A i \in DOMAIN modules : \A k \in DOMAIN deps[modules[i]] :
        WasRead(i, k) => WasAccepted(i, k)

\* The edges an active call has passed lead to resolved nodes.
CallsCovered ==
    \A i \in DOMAIN calls : \A k \in DOMAIN edges[calls[i].node] :
        k < calls[i].next =>
            \E j \in DOMAIN resolved : resolved[j] = edges[calls[i].node][k]

\* What the filter keeps of the part it has walked, still in order.
KeptInOrder ==
    pc = "filter" =>
        /\ \A i \in DOMAIN resolved :
              (i < at.config /\ Applies(action, existing, resolved[i])) =>
                  \E j \in DOMAIN kept : kept[j] = resolved[i]
        /\ \A i \in DOMAIN kept : \A k \in DOMAIN edges[kept[i]] :
              Applies(action, existing, edges[kept[i]][k]) =>
                  \E j \in 1 .. i - 1 : kept[j] = edges[kept[i]][k]

\* The three safety properties above follow from this, and every step keeps it.
Inductive ==
    /\ Phases /\ NodesRequested /\ DepsRead
    /\ ResolvedInOrder /\ CallsCovered /\ ActiveCallsAreAChain
    /\ KeptInOrder /\ NothingTooEarly

================================================================================
