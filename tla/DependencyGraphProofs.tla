------------------------- MODULE DependencyGraphProofs -------------------------
(***************************************************************************)
(* Proofs about build_dependency_graph for every set of configurations,    *)
(* every dependency graph, request and set of stacks.                      *)
(***************************************************************************)
EXTENDS DependencyGraph, SequenceTheorems, FiniteSetTheorems, TLAPS

\* What TypeOK says of the inputs, once DepGraphs, ArgLists and StackViews are
\* replaced by their types.
LEMMA InputsTyped ==
    ASSUME TypeOK
    PROVE  /\ deps \in [Configs -> Seq(Configs)]
           /\ modules \in Seq(Configs)
           /\ existing \in [Configs -> StackView]
           /\ action \in Action
           /\ named \in SUBSET Configs
<1>1. /\ deps \in [Configs -> Seq(Configs)]
      /\ modules \in Seq(Configs)
      /\ existing \in [Configs -> StackView]
      /\ action \in Action
  BY ConstantsTyped DEF TypeOK
<1> QED BY <1>1 DEF named, ToSet

\* A refusal is an outcome, of the kind it was given.
LEMMA RefusalTyped ==
    \A kind \in {"pending", "problems", "missing", "circular", "in_progress"} :
        Refuse(kind) \in Outcome /\ Refuse(kind).kind = kind
BY DEF Refuse, Outcome

\* The innermost call is a call.
LEMMA TopIsCall == TypeOK /\ calls # <<>> => Top \in Call
BY DEF TypeOK, Top

\* Dropping one element of a list leaves a list of the same elements.
LEMMA DropOne ==
    ASSUME NEW S, NEW s \in Seq(S), NEW k \in DOMAIN s,
           NEW t, t = SubSeq(s, 1, k - 1) \o SubSeq(s, k + 1, Len(s))
    PROVE  /\ t \in Seq(S)
           /\ ToSet(t) \subseteq ToSet(s)
<1> DEFINE T == ToSet(s)
<1>1. \A i \in DOMAIN s : s[i] \in T
  BY DEF ToSet
<1>2. SubSeq(s, 1, k - 1) \in Seq(T) /\ SubSeq(s, k + 1, Len(s)) \in Seq(T)
  BY <1>1, SubSeqProperties
<1>3. t \in Seq(T)
  BY <1>2
<1>4. T \subseteq S
  BY DEF ToSet
<1> HIDE DEF T
<1>5. t \in Seq(S)
  BY <1>3, <1>4, SeqMonotonic
<1>6. \A i \in DOMAIN t : t[i] \in T
  BY <1>3, ElementOfSeq, LenProperties
<1> QED BY <1>5, <1>6 DEF ToSet, T

\* Append adds the last index, for the new element, and keeps the others.
LEMMA AppendIndexes ==
    ASSUME NEW S, NEW s \in Seq(S), NEW e \in S, NEW t, t = Append(s, e)
    PROVE  /\ \A m \in DOMAIN s : m \in DOMAIN t /\ t[m] = s[m]
           /\ Len(s) + 1 \in DOMAIN t
           /\ t[Len(s) + 1] = e
           /\ \A m \in DOMAIN t : m \in DOMAIN s \/ m = Len(s) + 1
<1>1. /\ t \in Seq(S) /\ Len(t) = Len(s) + 1
      /\ \A m \in 1 .. Len(s) : t[m] = s[m]
      /\ t[Len(s) + 1] = e
  BY AppendProperties
<1>2. Len(s) \in Nat /\ DOMAIN s = 1 .. Len(s) /\ DOMAIN t = 1 .. Len(s) + 1
  BY <1>1, LenProperties
<1> QED BY <1>1, <1>2

--------------------------------------------------------------------------------
\* TypeOK holds in every state of build_dependency_graph: the indexes of its
\* loops stay positive and every list it builds holds requested configurations.
LEMMA TypeStart == Start => TypeOK
<1> SUFFICES ASSUME Start PROVE TypeOK
  OBVIOUS
<1>1. modules \in Seq(Configs)
  BY ConstantsTyped DEF Start, Init
<1>2. outcome \in Outcome
  BY RefusalTyped DEF Start, Init, Pending
<1> QED BY <1>1, <1>2 DEF Start, Init, TypeOK, FirstPlace, Place

\* Every step keeps the types.
LEMMA TypeStep == TypeOK /\ [Next]_vars => TypeOK'
<1> SUFFICES ASSUME TypeOK, [Next]_vars PROVE TypeOK'
  OBVIOUS
<1> USE InputsTyped DEF inputs
<1>1. CASE ScanExisting
  BY <1>1, RefusalTyped DEF ScanExisting, Raise, TypeOK
<1>2. CASE MissingDependency
  BY <1>2, RefusalTyped DEF MissingDependency, Raise, TypeOK
<1>3. CASE OutsideDependency
  BY <1>3 DEF OutsideDependency, NextDependency, TypeOK, Place
<1>4. CASE AddEdge
  <2>1. Config \in Configs
    BY <1>4 DEF AddEdge, AtDependency, Config, TypeOK, Place
  <2>2. Dependency \in Configs
    BY <1>4, <2>1 DEF AddEdge, AtDependency, Dependency, Config, TypeOK, Place
  <2>3. noDeps' \in Seq(Configs)
    <3>1. CASE Dependency \in ToSet(noDeps)
      <4>1. PICK k \in DOMAIN noDeps :
              noDeps' = SubSeq(noDeps, 1, k - 1)
                           \o SubSeq(noDeps, k + 1, Len(noDeps))
        BY <1>4, <3>1 DEF AddEdge, DropRoot
      <4> QED BY <4>1, DropOne DEF TypeOK
    <3>2. CASE Dependency \notin ToSet(noDeps)
      BY <1>4, <3>2 DEF AddEdge, DropRoot, TypeOK
    <3> QED BY <3>1, <3>2
  <2>4. edges' \in [Configs -> Seq(Configs)]
    BY <1>4, <2>1, <2>2 DEF AddEdge, TypeOK
  <2> QED BY <1>4, <2>3, <2>4 DEF AddEdge, NextDependency, TypeOK, Place
<1>5. CASE NextConfig
  BY <1>5 DEF NextConfig, TypeOK, Place
<1>6. CASE StartResolving
  BY <1>6 DEF StartResolving, TypeOK
<1>7. CASE NextRoot
  <2>1. Head(noDeps) \in Configs /\ Tail(noDeps) \in Seq(Configs)
    BY <1>7 DEF NextRoot, TypeOK
  <2>2. [node |-> Head(noDeps), next |-> 1] \in Call
    BY <2>1 DEF Call
  <2> QED BY <1>7, <2>1, <2>2 DEF NextRoot, TypeOK
<1>8. CASE SkipResolved
  <2>1. Top \in Call
    BY <1>8, TopIsCall DEF SkipResolved, AtEdge
  <2>2. [node |-> Top.node, next |-> Top.next + 1] \in Call
    BY <2>1 DEF Call
  <2>3. calls' \in Seq(Call)
    BY <1>8, <2>2, ExceptSeq DEF SkipResolved, AtEdge, TypeOK
  <2> QED BY <1>8, <2>3 DEF SkipResolved, TypeOK
<1>9. CASE Descend
  <2>1. Top \in Call
    BY <1>9, TopIsCall DEF Descend, AtEdge
  <2>2. Edge \in Configs
    BY <1>9, <2>1 DEF Descend, AtEdge, Edge, TypeOK, Call
  <2>3. [node |-> Edge, next |-> 1] \in Call
    BY <2>2 DEF Call
  <2> QED BY <1>9, <2>2, <2>3 DEF Descend, TypeOK
<1>10. CASE FindCycle
  BY <1>10, RefusalTyped DEF FindCycle, Raise, TypeOK
<1>11. CASE Finish
  <2>1. Top \in Call
    BY <1>11, TopIsCall DEF Finish
  <2>2. Top.node \in Configs
    BY <2>1 DEF Call
  <2> QED BY <1>11, <2>1, <2>2 DEF Finish, TypeOK
<1>12. CASE EndResolving
  BY <1>12, RefusalTyped DEF EndResolving, Raise, TypeOK, FirstPlace, Place
<1>13. CASE Filter
  <2>1. resolved[at.config] \in Configs
    BY <1>13 DEF Filter, TypeOK, Place
  <2>2. kept' \in Seq(Configs)
    BY <1>13, <2>1 DEF Filter, TypeOK
  <2> QED BY <1>13, <2>2 DEF Filter, TypeOK, Place
<1>14. CASE Return
  <2>1. Reordered \in Seq(Configs)
    BY DEF Reordered, Reverse, TypeOK
  <2>2. [kind |-> "ok", order |-> Reordered] \in Outcome
    BY <2>1 DEF Outcome
  <2> QED BY <1>14, <2>2, RefusalTyped DEF Return, Raise, TypeOK
<1>15. CASE UNCHANGED vars
  BY <1>15 DEF vars, TypeOK
<1> QED
  BY <1>1, <1>2, <1>3, <1>4, <1>5, <1>6, <1>7, <1>8, <1>9, <1>10, <1>11, <1>12,
     <1>13, <1>14, <1>15 DEF Next, ReadDependencies, Resolve

\* TypeOK holds in every reachable state of build_dependency_graph.
THEOREM TypeCorrect == GraphSpec => []TypeOK
<1> QED BY TypeStart, TypeStep, PTL DEF GraphSpec

--------------------------------------------------------------------------------
(***************************************************************************)
(* The inductive invariant, one lemma for the initial state and one for    *)
(* each phase of the function.                                             *)
(***************************************************************************)
\* Nothing is resolved, read or kept when the function starts.
LEMMA InductiveStart == Start => Inductive
<1> SUFFICES ASSUME Start PROVE Inductive
  OBVIOUS
<1>1. /\ pc = "scan" /\ resolved = <<>> /\ calls = <<>> /\ seen = {}
      /\ kept = <<>> /\ at = FirstPlace /\ outcome = Pending
      /\ edges = [c \in Configs |-> <<>>] /\ noDeps = modules
  BY DEF Start, Init
<1>2. outcome.kind = "pending"
  BY <1>1 DEF Pending, Refuse
<1>3. Phases /\ DepsRead /\ ActiveCallsAreAChain /\ KeptInOrder
  BY <1>1 DEF Phases, DepsRead, WasRead, ActiveCallsAreAChain, KeptInOrder
<1>4. NodesRequested
  BY <1>1 DEF NodesRequested, named, ToSet
<1>5. ResolvedInOrder /\ CallsCovered
  BY <1>1 DEF ResolvedInOrder, CallsCovered
<1> QED BY <1>2, <1>3, <1>4, <1>5 DEF Inductive, NothingTooEarly

\* A step that ends in a refusal keeps everything: the lists are left alone.
LEMMA InductiveRaise ==
    ASSUME Inductive, NEW kind \in {"problems", "missing", "circular", "in_progress"},
           Raise(kind),
           UNCHANGED <<inputs, edges, noDeps, at, calls, seen, resolved, kept>>
    PROVE  Inductive'
<1>1. pc' = "done" /\ outcome'.kind # "ok"
  BY DEF Raise, Refuse
<1>2. UNCHANGED <<deps, action, modules, existing, edges, noDeps, at, calls,
                  seen, resolved, kept>>
  BY DEF inputs
<1>3. named' = named
  BY <1>2 DEF named
<1>4. Phases' /\ DepsRead' /\ ActiveCallsAreAChain' /\ KeptInOrder' /\ NothingTooEarly'
  BY <1>1 DEF Phases, DepsRead, WasRead, ActiveCallsAreAChain, KeptInOrder,
              NothingTooEarly
<1>5. NodesRequested' /\ ResolvedInOrder' /\ CallsCovered'
  BY <1>2, <1>3 DEF Inductive, NodesRequested, ResolvedInOrder, CallsCovered
<1> QED BY <1>4, <1>5 DEF Inductive

\* The scan of the existing stacks leaves every list alone.
LEMMA InductiveScan == TypeOK /\ Inductive /\ ScanExisting => Inductive'
<1> SUFFICES ASSUME TypeOK, Inductive, ScanExisting PROVE Inductive'
  OBVIOUS
<1>1. CASE Raise("problems")
  BY <1>1, InductiveRaise DEF ScanExisting
<1>2. CASE pc' = "deps" /\ UNCHANGED outcome
  <2>1. UNCHANGED <<deps, action, modules, existing, edges, noDeps, at, calls,
                    seen, resolved, kept, outcome>>
    BY <1>2 DEF ScanExisting, inputs
  <2>2. named' = named /\ pc = "scan"
    BY <2>1 DEF named, ScanExisting
  <2>3. Phases'
    BY <1>2, <2>1, <2>2 DEF Inductive, Phases
  <2>4. DepsRead'
    BY <1>2, <2>1, <2>2, InputsTyped
       DEF Inductive, Phases, FirstPlace, DepsRead, WasRead
  <2>5. ActiveCallsAreAChain' /\ KeptInOrder'
    BY <1>2 DEF ActiveCallsAreAChain, KeptInOrder
  <2>6. NothingTooEarly'
    BY <2>1, <2>2 DEF Inductive, Phases, NothingTooEarly, Pending, Refuse
  <2>7. NodesRequested' /\ ResolvedInOrder' /\ CallsCovered'
    BY <2>1, <2>2 DEF Inductive, NodesRequested, ResolvedInOrder, CallsCovered
  <2> QED BY <2>3, <2>4, <2>5, <2>6, <2>7 DEF Inductive
<1> QED BY <1>1, <1>2 DEF ScanExisting

\* Reading the dependencies: only DepsRead and NodesRequested are at stake.
LEMMA InductiveRead == TypeOK /\ Inductive /\ ReadDependencies => Inductive'
<1> SUFFICES ASSUME TypeOK, Inductive, ReadDependencies PROVE Inductive'
  OBVIOUS
<1> USE InputsTyped
<1>1. CASE MissingDependency
  BY <1>1, InductiveRaise DEF MissingDependency
<1>2. CASE OutsideDependency \/ AddEdge \/ NextConfig \/ StartResolving
  <2>1. /\ UNCHANGED <<deps, action, modules, existing, calls, seen, resolved,
                       kept, outcome>>
        /\ pc = "deps" /\ pc' \in {"deps", "resolve"}
    BY <1>2 DEF OutsideDependency, AddEdge, NextConfig, StartResolving, inputs,
                AtDependency
  <2>2. named' = named
    BY <2>1 DEF named
  <2>3. resolved = <<>> /\ calls = <<>> /\ seen = {} /\ kept = <<>>
        /\ outcome = Pending
    BY <2>1 DEF Inductive, Phases
  <2>4. Phases'
    BY <2>1, <2>3 DEF Inductive, Phases
  <2>5. ActiveCallsAreAChain' /\ KeptInOrder' /\ ResolvedInOrder' /\ CallsCovered'
    BY <2>1, <2>3 DEF ActiveCallsAreAChain, KeptInOrder, ResolvedInOrder, CallsCovered
  <2>6. NothingTooEarly'
    BY <2>1, <2>3 DEF NothingTooEarly, Pending, Refuse
  <2>7. NodesRequested' /\ DepsRead'
    <3>1. CASE OutsideDependency
      <4>1. UNCHANGED <<edges, noDeps, pc>>
            /\ at' = [config |-> at.config, dep |-> at.dep + 1]
            /\ ~ IsMissing(deps[modules[at.config]][at.dep])
            /\ deps[modules[at.config]][at.dep] \notin named
        BY <3>1 DEF OutsideDependency, NextDependency, Dependency, Config
      <4>2. NodesRequested'
        BY <4>1, <2>1, <2>2 DEF Inductive, NodesRequested
      <4>3. DepsRead'
        <5> SUFFICES ASSUME NEW i \in DOMAIN modules, NEW k \in DOMAIN deps[modules[i]],
                            WasRead(i, k)'
                     PROVE  WasAccepted(i, k)'
          BY <2>1 DEF DepsRead
        <5>1. CASE i = at.config /\ k = at.dep
          BY <4>1, <5>1, <2>1, <2>2 DEF WasAccepted, IsMissing
        <5>2. CASE ~ (i = at.config /\ k = at.dep)
          <6>1. WasRead(i, k)
            BY <4>1, <2>1, <5>2 DEF WasRead, TypeOK, Place
          <6>2. WasAccepted(i, k)
            BY <6>1 DEF Inductive, DepsRead
          <6> QED BY <6>2, <4>1, <2>1, <2>2 DEF WasAccepted, IsMissing
        <5> QED BY <5>1, <5>2
      <4> QED BY <4>2, <4>3
    <3>2. CASE AddEdge
      <4> DEFINE c == modules[at.config]
                 dep == deps[c][at.dep]
      <4>1. /\ UNCHANGED pc
            /\ at' = [config |-> at.config, dep |-> at.dep + 1]
            /\ ~ IsMissing(dep) /\ dep \in named
            /\ edges' = [edges EXCEPT ![c] = Append(@, dep)]
            /\ DropRoot(dep)
        BY <3>2 DEF AddEdge, NextDependency, Dependency, Config
      <4>2. at.config \in DOMAIN modules /\ at.dep \in DOMAIN deps[c]
            /\ c \in Configs /\ dep \in Configs
        <5>1. at.config \in Nat \ {0} /\ at.dep \in Nat \ {0}
          BY DEF TypeOK, Place
        <5>2. at.config <= Len(modules) /\ at.dep <= Len(deps[c])
          BY <3>2 DEF AddEdge, AtDependency
        <5>3. at.config \in DOMAIN modules /\ c \in Configs
          BY <5>1, <5>2
        <5>4. deps[c] \in Seq(Configs)
          BY <5>3
        <5> QED BY <5>1, <5>2, <5>3, <5>4
      <4>3. /\ edges[c] \in Seq(Configs) /\ edges'[c] = Append(edges[c], dep)
            /\ \A x \in Configs : x # c => edges'[x] = edges[x]
        BY <4>1, <4>2 DEF TypeOK
      <4>4. /\ \A m \in DOMAIN edges[c] : m \in DOMAIN edges'[c] /\ edges'[c][m] = edges[c][m]
            /\ Len(edges[c]) + 1 \in DOMAIN edges'[c]
            /\ edges'[c][Len(edges[c]) + 1] = dep
            /\ \A m \in DOMAIN edges'[c] : m \in DOMAIN edges[c] \/ m = Len(edges[c]) + 1
        <5> DEFINE old == edges[c]
                   new == edges'[c]
        <5>1. old \in Seq(Configs) /\ dep \in Configs /\ new = Append(old, dep)
          BY <4>2, <4>3
        <5> HIDE DEF old, new, dep, c
        <5>2. /\ \A m \in DOMAIN old : m \in DOMAIN new /\ new[m] = old[m]
              /\ Len(old) + 1 \in DOMAIN new
              /\ new[Len(old) + 1] = dep
              /\ \A m \in DOMAIN new : m \in DOMAIN old \/ m = Len(old) + 1
          BY <5>1, AppendIndexes
        <5> QED BY <5>2 DEF old, new
      <4>5. \A k \in DOMAIN noDeps' : noDeps'[k] \in named
        <5>1. \A k \in DOMAIN noDeps : noDeps[k] \in named
          BY DEF Inductive, NodesRequested
        <5>2. CASE dep \in ToSet(noDeps)
          <6>1. PICK k \in DOMAIN noDeps :
                  noDeps' = SubSeq(noDeps, 1, k - 1)
                               \o SubSeq(noDeps, k + 1, Len(noDeps))
            BY <4>1, <5>2 DEF DropRoot
          <6>2. ToSet(noDeps') \subseteq ToSet(noDeps)
            <7>1. noDeps \in Seq(Configs)
              BY DEF TypeOK
            <7>2. \A t : t = SubSeq(noDeps, 1, k - 1)
                               \o SubSeq(noDeps, k + 1, Len(noDeps))
                         => ToSet(t) \subseteq ToSet(noDeps)
              BY <7>1, DropOne
            <7> QED BY <6>1, <7>2
          <6> QED BY <5>1, <6>2 DEF ToSet
        <5>3. CASE dep \notin ToSet(noDeps)
          BY <4>1, <5>1, <5>3 DEF DropRoot
        <5> QED BY <5>2, <5>3
      <4>6. NodesRequested'
        <5>1. \A x \in Configs : \A k \in DOMAIN edges'[x] : edges'[x][k] \in named
          BY <4>1, <4>3, <4>4 DEF Inductive, NodesRequested
        <5> QED BY <5>1, <4>5, <2>1, <2>2, <2>3 DEF NodesRequested
      <4>7. DepsRead'
        <5> SUFFICES ASSUME NEW i \in DOMAIN modules, NEW k \in DOMAIN deps[modules[i]],
                            WasRead(i, k)'
                     PROVE  WasAccepted(i, k)'
          BY <2>1 DEF DepsRead
        <5>1. CASE i = at.config /\ k = at.dep
          <6>1. deps[modules[i]][k] = dep
            BY <5>1
          <6>2. \E m \in DOMAIN edges'[modules[i]] : edges'[modules[i]][m] = dep
            BY <4>4, <5>1
          <6> QED BY <6>1, <6>2, <4>1, <2>1, <2>2 DEF WasAccepted, IsMissing
        <5>2. CASE ~ (i = at.config /\ k = at.dep)
          <6>1. WasRead(i, k)
            BY <4>1, <2>1, <5>2 DEF WasRead, TypeOK, Place
          <6>2. WasAccepted(i, k)
            BY <6>1 DEF Inductive, DepsRead
          <6>3. modules[i] \in Configs
            OBVIOUS
          <6>4. \A m \in DOMAIN edges[modules[i]] :
                   /\ m \in DOMAIN edges'[modules[i]]
                   /\ edges'[modules[i]][m] = edges[modules[i]][m]
            BY <6>3, <4>3, <4>4
          <6> QED BY <6>2, <6>4, <2>1, <2>2 DEF WasAccepted, IsMissing
        <5> QED BY <5>1, <5>2
      <4> QED BY <4>6, <4>7
    <3>3. CASE NextConfig \/ StartResolving
      <4>1. UNCHANGED <<edges, noDeps>>
        BY <3>3 DEF NextConfig, StartResolving
      <4>2. NodesRequested'
        BY <4>1, <2>1, <2>2 DEF Inductive, NodesRequested
      <4>3. ASSUME NEW i \in DOMAIN modules, NEW k \in DOMAIN deps[modules[i]],
                   WasRead(i, k)'
            PROVE  WasRead(i, k)
        <5>1. modules[i] \in Configs /\ k <= Len(deps[modules[i]])
          OBVIOUS
        <5>2. CASE NextConfig
          BY <4>3, <5>1, <5>2, <2>1 DEF NextConfig, WasRead, TypeOK, Place, Config
        <5>3. CASE StartResolving
          BY <5>3, <2>1 DEF StartResolving, WasRead, TypeOK, Place
        <5> QED BY <3>3, <5>2, <5>3
      <4>4. DepsRead'
        <5> SUFFICES ASSUME NEW i \in DOMAIN modules, NEW k \in DOMAIN deps[modules[i]],
                            WasRead(i, k)'
                     PROVE  WasAccepted(i, k)'
          BY <2>1 DEF DepsRead
        <5>1. WasAccepted(i, k)
          BY <4>3 DEF Inductive, DepsRead
        <5> QED BY <5>1, <4>1, <2>1, <2>2 DEF WasAccepted, IsMissing
      <4> QED BY <4>2, <4>4
    <3> QED BY <1>2, <3>1, <3>2, <3>3
  <2> QED BY <2>4, <2>5, <2>6, <2>7 DEF Inductive
<1> QED BY <1>1, <1>2 DEF ReadDependencies

\* What no step of the traversal or of the filter disturbs.
LEMMA DepsReadKept ==
    ASSUME TypeOK, Inductive, pc \in {"resolve", "filter"},
           pc' \in {"resolve", "filter"},
           UNCHANGED <<deps, action, modules, existing, edges, outcome>>
    PROVE  named' = named /\ DepsRead' /\ NothingTooEarly' /\ outcome = Pending
<1>1. named' = named
  BY DEF named
<1>2. outcome = Pending
  BY DEF Inductive, Phases
<1>3. DepsRead'
  <2> SUFFICES ASSUME NEW i \in DOMAIN modules, NEW k \in DOMAIN deps[modules[i]]
               PROVE  WasAccepted(i, k)'
    BY DEF DepsRead
  <2>1. WasAccepted(i, k)
    BY DEF Inductive, DepsRead, WasRead
  <2> QED BY <2>1, <1>1 DEF WasAccepted, IsMissing
<1>4. NothingTooEarly'
  BY <1>2 DEF NothingTooEarly, Pending, Refuse
<1> QED BY <1>1, <1>2, <1>3, <1>4

\* The traversal: an edge is passed only when its target is resolved, so the
\* node of a finished call waits for nothing that is not resolved before it.
LEMMA InductiveResolve == TypeOK /\ Inductive /\ Resolve => Inductive'
<1> SUFFICES ASSUME TypeOK, Inductive, Resolve PROVE Inductive'
  OBVIOUS
<1>0. /\ calls \in Seq(Call) /\ resolved \in Seq(Configs) /\ noDeps \in Seq(Configs)
      /\ edges \in [Configs -> Seq(Configs)]
  BY DEF TypeOK
<1>len. /\ Len(calls) \in Nat /\ DOMAIN calls = 1 .. Len(calls)
        /\ Len(resolved) \in Nat /\ DOMAIN resolved = 1 .. Len(resolved)
        /\ Len(noDeps) \in Nat /\ DOMAIN noDeps = 1 .. Len(noDeps)
  BY <1>0
<1>1. CASE FindCycle
  BY <1>1, InductiveRaise DEF FindCycle
<1>2. CASE EndResolving /\ Raise("circular")
  <2>1. UNCHANGED <<inputs, edges, noDeps, at, calls, seen, resolved, kept>>
    BY <1>2 DEF EndResolving, Raise
  <2> QED BY <2>1, <1>2, InductiveRaise
<1>3. CASE EndResolving /\ ~ Raise("circular")
  <2>1. /\ UNCHANGED <<deps, action, modules, existing, edges, outcome, noDeps,
                       calls, seen, resolved, kept>>
        /\ pc = "resolve" /\ pc' = "filter" /\ at' = FirstPlace
    BY <1>3 DEF EndResolving, inputs
  <2>2. named' = named /\ DepsRead' /\ NothingTooEarly' /\ outcome = Pending
    BY <2>1, DepsReadKept
  <2>3. NodesRequested' /\ ResolvedInOrder' /\ CallsCovered'
    BY <2>1, <2>2 DEF Inductive, NodesRequested, ResolvedInOrder, CallsCovered
  <2>4. kept = <<>>
    BY <2>1 DEF Inductive, Phases
  <2>5. Phases' /\ ActiveCallsAreAChain' /\ KeptInOrder'
    BY <2>1, <2>2, <2>4, <1>0 DEF Phases, ActiveCallsAreAChain, KeptInOrder, FirstPlace
  <2> QED BY <2>2, <2>3, <2>5 DEF Inductive
<1>4. CASE NextRoot \/ SkipResolved \/ Descend \/ Finish
  <2>1. /\ UNCHANGED <<deps, action, modules, existing, edges, outcome, kept>>
        /\ pc = "resolve" /\ pc' = "resolve"
    BY <1>4 DEF NextRoot, SkipResolved, Descend, Finish, AtEdge, inputs
  <2>2. named' = named /\ DepsRead' /\ NothingTooEarly' /\ outcome = Pending
    BY <2>1, DepsReadKept
  <2>3. Phases' /\ KeptInOrder'
    BY <2>1, <2>2 DEF Inductive, Phases, KeptInOrder
  <2>4. /\ \A c \in Configs : \A k \in DOMAIN edges[c] : edges[c][k] \in named
        /\ \A k \in DOMAIN noDeps : noDeps[k] \in named
        /\ \A k \in DOMAIN calls : calls[k].node \in named
        /\ \A k \in DOMAIN resolved : resolved[k] \in named
        /\ \A k \in DOMAIN kept : kept[k] \in named
    BY DEF Inductive, NodesRequested
  <2>5. /\ seen \subseteq ToSet(resolved) \cup {calls[i].node : i \in DOMAIN calls}
        /\ \A i \in 1 .. Len(calls) - 1 :
              edges[calls[i].node][calls[i].next] = calls[i + 1].node
    BY <2>1 DEF Inductive, ActiveCallsAreAChain
  <2>6. ResolvedInOrder /\ CallsCovered
    BY DEF Inductive
  <2>7. ASSUME calls # <<>>
        PROVE  /\ Top \in Call /\ Len(calls) \in DOMAIN calls
               /\ Top = calls[Len(calls)] /\ Top.node \in Configs
               /\ Top.next \in Nat \ {0} /\ Top.node \in named
    <3>1. Len(calls) \in DOMAIN calls /\ Top = calls[Len(calls)]
      BY <2>7, <1>0, <1>len DEF Top
    <3>2. Top \in Call
      BY <3>1, <1>0
    <3>3. Top.node \in named
      BY <3>1, <2>4
    <3> QED BY <3>1, <3>2, <3>3 DEF Call
  <2>8. NodesRequested' /\ ResolvedInOrder' /\ CallsCovered' /\ ActiveCallsAreAChain'
    <3>1. CASE NextRoot
      <4>1. /\ calls' = <<[node |-> Head(noDeps), next |-> 1]>>
            /\ seen' = {Head(noDeps)} /\ noDeps' = Tail(noDeps)
            /\ resolved' = resolved /\ noDeps # <<>>
        BY <3>1 DEF NextRoot
      <4>2. Head(noDeps) = noDeps[1] /\ 1 \in DOMAIN noDeps
            /\ \A k \in DOMAIN noDeps' : noDeps'[k] = noDeps[k + 1]
                                        /\ k + 1 \in DOMAIN noDeps
        BY <4>1, <1>0
      <4>3. NodesRequested'
        BY <4>1, <4>2, <2>1, <2>2, <2>4 DEF NodesRequested
      <4>4. ResolvedInOrder' /\ CallsCovered'
        <5>1. ResolvedInOrder'
          BY <4>1, <2>1, <2>6 DEF ResolvedInOrder
        <5>2. DOMAIN calls' = {1} /\ calls'[1].next = 1
          BY <4>1
        <5>3. \A c \in Configs : \A k \in DOMAIN edges[c] : k \in Nat /\ k >= 1
          BY <1>0
        <5>4. calls'[1].node \in Configs
          BY <4>1, <4>2, <1>0
        <5>5. CallsCovered'
          BY <5>2, <5>3, <5>4, <2>1 DEF CallsCovered
        <5> QED BY <5>1, <5>5
      <4>5. ActiveCallsAreAChain'
        BY <4>1 DEF ActiveCallsAreAChain
      <4> QED BY <4>3, <4>4, <4>5
    <3>2. CASE SkipResolved
      <4> DEFINE call == [node |-> Top.node, next |-> Top.next + 1]
      <4>1. /\ calls' = [calls EXCEPT ![Len(calls)] = call]
            /\ UNCHANGED <<noDeps, seen, resolved>> /\ calls # <<>>
            /\ Edge \in ToSet(resolved) /\ Top.next <= Len(edges[Top.node])
        BY <3>2 DEF SkipResolved, AtEdge
      <4>2. /\ DOMAIN calls' = DOMAIN calls /\ Len(calls') = Len(calls)
            /\ \A i \in DOMAIN calls : calls'[i].node = calls[i].node
            /\ \A i \in DOMAIN calls : i # Len(calls) => calls'[i] = calls[i]
            /\ calls'[Len(calls)] = call
        BY <4>1, <2>7, <1>0, ExceptSeq
      <4>3. NodesRequested'
        BY <4>1, <4>2, <2>1, <2>2, <2>4 DEF NodesRequested
      <4>4. ResolvedInOrder'
        BY <4>1, <2>1, <2>6 DEF ResolvedInOrder
      <4>5. CallsCovered'
        <5> SUFFICES ASSUME NEW i \in DOMAIN calls, NEW k \in DOMAIN edges[calls[i].node],
                            k < calls'[i].next
                     PROVE  \E j \in DOMAIN resolved :
                               resolved[j] = edges[calls[i].node][k]
          BY <4>1, <4>2, <2>1 DEF CallsCovered
        <5>1. CASE k < calls[i].next
          BY <5>1, <2>6 DEF CallsCovered
        <5>2. CASE ~ (k < calls[i].next)
          <6>1. calls[i] \in Call
            BY <1>0
          <6>2. i = Len(calls) /\ calls[i].next \in Nat /\ calls[i] = Top
            BY <5>2, <4>2, <6>1, <4>1, <2>7 DEF Call
          <6>3. calls'[i].next = Top.next + 1 /\ k = Top.next
            BY <6>2, <4>2, <5>2, <6>1, <4>1, <2>7, <1>0
          <6> QED BY <6>2, <6>3, <4>1 DEF Edge, ToSet
        <5> QED BY <5>1, <5>2
      <4>6. ActiveCallsAreAChain'
        <5>1. {calls'[i].node : i \in DOMAIN calls'} = {calls[i].node : i \in DOMAIN calls}
          BY <4>2
        <5>2. \A i \in 1 .. Len(calls') - 1 :
                 edges'[calls'[i].node][calls'[i].next] = calls'[i + 1].node
          <6> SUFFICES ASSUME NEW i \in 1 .. Len(calls) - 1
                       PROVE  edges[calls'[i].node][calls'[i].next] = calls'[i + 1].node
            BY <4>2, <2>1
          <6>1. i \in DOMAIN calls /\ i + 1 \in DOMAIN calls
            BY <1>len
          <6>2. i # Len(calls)
            <7>1. \A n \in Nat : \A m \in 1 .. n - 1 : m # n
              OBVIOUS
            <7>2. Len(calls) \in Nat
              BY <1>len
            <7> QED BY <7>1, <7>2
          <6>3. calls'[i] = calls[i] /\ calls'[i + 1].node = calls[i + 1].node
            BY <6>1, <6>2, <4>2
          <6> QED BY <6>3, <2>5
        <5> QED BY <5>1, <5>2, <4>1, <2>5 DEF ActiveCallsAreAChain
      <4> QED BY <4>3, <4>4, <4>5, <4>6
    <3>3. CASE Descend
      <4> DEFINE call == [node |-> Edge, next |-> 1]
      <4>1. /\ calls' = Append(calls, call)
            /\ UNCHANGED <<noDeps, resolved>> /\ calls # <<>>
            /\ seen' = seen \cup {Edge} /\ Top.next <= Len(edges[Top.node])
        BY <3>3 DEF Descend, AtEdge
      <4>2. Edge \in named /\ Edge \in Configs
        BY <4>1, <2>4, <2>7, <1>0 DEF Edge
      <4>3. call \in Call
        BY <4>2 DEF Call
      <4>4. /\ Len(calls') = Len(calls) + 1 /\ DOMAIN calls' = 1 .. Len(calls) + 1
            /\ \A i \in DOMAIN calls : calls'[i] = calls[i]
            /\ calls'[Len(calls) + 1] = call
        BY <4>1, <4>3, <1>0, AppendProperties
      <4>5. NodesRequested'
        BY <4>1, <4>2, <4>4, <2>1, <2>2, <2>4, <1>0 DEF NodesRequested
      <4>6. ResolvedInOrder'
        BY <4>1, <2>1, <2>6 DEF ResolvedInOrder
      <4>7. CallsCovered'
        <5> SUFFICES ASSUME NEW i \in DOMAIN calls', NEW k \in DOMAIN edges[calls'[i].node],
                            k < calls'[i].next
                     PROVE  \E j \in DOMAIN resolved :
                               resolved[j] = edges[calls'[i].node][k]
          BY <4>1, <2>1 DEF CallsCovered
        <5>1. CASE i \in DOMAIN calls
          BY <5>1, <4>4, <2>6 DEF CallsCovered
        <5>2. CASE i \notin DOMAIN calls
          <6>1. calls'[i] = call
            BY <5>2, <4>4, <1>len
          <6>2. edges[Edge] \in Seq(Configs) /\ k < 1
            BY <6>1, <4>2, <1>0
          <6> QED BY <6>1, <6>2
        <5> QED BY <5>1, <5>2
      <4>8. ActiveCallsAreAChain'
        <5>1. seen' \subseteq ToSet(resolved') \cup {calls'[i].node : i \in DOMAIN calls'}
          <6>1. {calls[i].node : i \in DOMAIN calls} \subseteq
                   {calls'[i].node : i \in DOMAIN calls'}
            BY <4>4, <1>len
          <6>2. Edge \in {calls'[i].node : i \in DOMAIN calls'}
            BY <4>4, <1>len
          <6> QED BY <6>1, <6>2, <4>1, <2>5
        <5>2. ASSUME NEW i \in 1 .. Len(calls') - 1
              PROVE  edges'[calls'[i].node][calls'[i].next] = calls'[i + 1].node
          <6>1. CASE i < Len(calls)
            <7>1. i \in 1 .. Len(calls) - 1 /\ i \in DOMAIN calls /\ i + 1 \in DOMAIN calls
              BY <6>1, <4>4, <1>len
            <7> QED BY <7>1, <4>4, <2>1, <2>5
          <6>2. CASE i = Len(calls)
            <7>1. calls'[i] = Top /\ calls'[i + 1] = call
              BY <6>2, <4>1, <4>4, <2>7
            <7>2. edges[Top.node][Top.next] = call.node
              BY DEF Edge
            <7> QED BY <7>1, <7>2, <2>1
          <6> QED BY <6>1, <6>2, <4>4, <1>len
        <5> QED BY <5>1, <5>2 DEF ActiveCallsAreAChain
      <4> QED BY <4>5, <4>6, <4>7, <4>8
    <3>4. CASE Finish
      <4>1. /\ calls' = SubSeq(calls, 1, Len(calls) - 1)
            /\ UNCHANGED <<noDeps, seen>> /\ calls # <<>>
            /\ resolved' = Append(resolved, Top.node)
            /\ Top.next > Len(edges[Top.node])
        BY <3>4 DEF Finish
      <4>2. /\ Len(calls') = Len(calls) - 1
            /\ \A i \in DOMAIN calls' : i \in DOMAIN calls /\ calls'[i] = calls[i]
            /\ \A i \in DOMAIN calls : i \in DOMAIN calls' \/ i = Len(calls)
        <5>1. \A i \in 1 .. Len(calls) - 1 : calls[i] \in Call
          BY <1>0, <1>len
        <5>2. /\ Len(calls') = Len(calls) - 1 /\ calls' \in Seq(Call)
              /\ \A i \in 1 .. Len(calls) - 1 : calls'[i] = calls[i]
          BY <4>1, <5>1, <2>7, <1>len, SubSeqProperties
        <5>3. DOMAIN calls' = 1 .. Len(calls) - 1
          BY <5>2
        <5> QED BY <5>2, <5>3, <1>len
      <4>3. /\ Len(resolved') = Len(resolved) + 1
            /\ DOMAIN resolved' = 1 .. Len(resolved) + 1
            /\ \A i \in DOMAIN resolved : resolved'[i] = resolved[i]
            /\ resolved'[Len(resolved) + 1] = Top.node
        BY <4>1, <2>7, <1>0, AppendProperties
      <4>4. NodesRequested'
        BY <4>1, <4>2, <4>3, <2>1, <2>2, <2>4, <2>7, <1>0 DEF NodesRequested
      <4>5. ResolvedInOrder'
        <5> SUFFICES ASSUME NEW i \in DOMAIN resolved',
                            NEW k \in DOMAIN edges[resolved'[i]]
                     PROVE  \E j \in 1 .. i - 1 : resolved'[j] = edges[resolved'[i]][k]
          BY <2>1 DEF ResolvedInOrder
        <5>1. CASE i \in DOMAIN resolved
          <6>1. PICK j \in 1 .. i - 1 : resolved[j] = edges[resolved[i]][k]
            BY <5>1, <4>3, <2>6 DEF ResolvedInOrder
          <6>2. j \in DOMAIN resolved /\ resolved'[i] = resolved[i]
            BY <5>1, <4>3, <1>len
          <6> QED BY <6>1, <6>2, <4>3
        <5>2. CASE i = Len(resolved) + 1
          <6>1. edges[Top.node] \in Seq(Configs) /\ resolved'[i] = Top.node
            BY <5>2, <4>1, <4>3, <2>7, <1>0
          <6>2. k < Top.next
            BY <6>1, <4>1, <4>3, <2>7
          <6>3. \E j \in DOMAIN resolved : resolved[j] = edges[Top.node][k]
            BY <6>1, <6>2, <4>1, <2>6, <2>7 DEF CallsCovered
          <6>4. PICK j \in DOMAIN resolved : resolved[j] = edges[Top.node][k]
            BY <6>3
          <6>5. j \in 1 .. i - 1 /\ resolved'[j] = resolved[j]
            BY <5>2, <4>3, <1>len
          <6> QED BY <6>1, <6>4, <6>5
        <5> QED BY <5>1, <5>2, <4>3, <1>len
      <4>6. CallsCovered'
        <5> SUFFICES ASSUME NEW i \in DOMAIN calls', NEW k \in DOMAIN edges[calls[i].node],
                            k < calls[i].next
                     PROVE  \E j \in DOMAIN resolved' :
                               resolved'[j] = edges[calls[i].node][k]
          BY <4>2, <2>1 DEF CallsCovered
        <5>1. PICK j \in DOMAIN resolved : resolved[j] = edges[calls[i].node][k]
          BY <4>2, <2>6 DEF CallsCovered
        <5>2. j \in DOMAIN resolved' /\ resolved'[j] = resolved[j]
          BY <4>3, <1>len
        <5> QED BY <5>1, <5>2
      <4>7. ActiveCallsAreAChain'
        <5>1. ASSUME NEW x \in seen
              PROVE  x \in ToSet(resolved') \cup {calls'[i].node : i \in DOMAIN calls'}
          <6>1. CASE x \in ToSet(resolved)
            <7>1. PICK j \in DOMAIN resolved : x = resolved[j]
              BY <6>1 DEF ToSet
            <7>2. j \in DOMAIN resolved' /\ resolved'[j] = x
              BY <7>1, <4>3, <1>len
            <7> QED BY <7>2 DEF ToSet
          <6>2. CASE \E i \in DOMAIN calls : x = calls[i].node
            <7>1. PICK i \in DOMAIN calls : x = calls[i].node
              BY <6>2
            <7>2. CASE i \in DOMAIN calls'
              BY <7>1, <7>2, <4>2
            <7>3. CASE i = Len(calls)
              <8>1. x = Top.node
                BY <7>1, <7>3 DEF Top
              <8> QED BY <8>1, <4>3, <1>len DEF ToSet
            <7> QED BY <7>2, <7>3, <4>2
          <6> QED BY <6>1, <6>2, <2>5
        <5>2. \A i \in 1 .. Len(calls') - 1 :
                 edges'[calls'[i].node][calls'[i].next] = calls'[i + 1].node
          <6> SUFFICES ASSUME NEW i \in 1 .. Len(calls') - 1
                       PROVE  edges[calls'[i].node][calls'[i].next] = calls'[i + 1].node
            BY <2>1
          <6>1. i \in 1 .. Len(calls) - 1 /\ i \in DOMAIN calls' /\ i + 1 \in DOMAIN calls'
            BY <4>2, <4>1, <1>0
          <6> QED BY <6>1, <4>2, <2>5
        <5> QED BY <5>1, <5>2, <4>1 DEF ActiveCallsAreAChain
      <4> QED BY <4>4, <4>5, <4>6, <4>7
    <3> QED BY <1>4, <3>1, <3>2, <3>3, <3>4
  <2> QED BY <2>2, <2>3, <2>8 DEF Inductive
<1> QED BY <1>1, <1>2, <1>3, <1>4 DEF Resolve

\* The filter keeps the order: what a kept configuration waits for was
\* resolved before it, so it was walked before it and kept if it applies.
LEMMA InductiveFilter == TypeOK /\ Inductive /\ Filter => Inductive'
<1> SUFFICES ASSUME TypeOK, Inductive, Filter PROVE Inductive'
  OBVIOUS
<1> DEFINE c == resolved[at.config]
<1>1. /\ UNCHANGED <<deps, action, modules, existing, edges, outcome, noDeps,
                     calls, seen, resolved, pc>>
      /\ pc = "filter" /\ at.config \in DOMAIN resolved /\ c \in Configs
      /\ at' = [config |-> at.config + 1, dep |-> 1]
      /\ at.config \in Nat
  BY DEF Filter, inputs, TypeOK, Place
<1>2. kept' = IF Applies(action, existing, c) THEN Append(kept, c) ELSE kept
  BY <1>1, InputsTyped DEF Filter, Applies
<1>3. named' = named /\ DepsRead' /\ NothingTooEarly' /\ outcome = Pending
  BY <1>1, DepsReadKept
<1>len. /\ kept \in Seq(Configs) /\ Len(kept) \in Nat /\ DOMAIN kept = 1 .. Len(kept)
        /\ resolved \in Seq(Configs) /\ Len(resolved) \in Nat
        /\ DOMAIN resolved = 1 .. Len(resolved)
        /\ edges \in [Configs -> Seq(Configs)]
  BY DEF TypeOK
<1>4. /\ \A i \in DOMAIN kept : i \in DOMAIN kept' /\ kept'[i] = kept[i]
      /\ Applies(action, existing, c) =>
            /\ DOMAIN kept' = 1 .. Len(kept) + 1
            /\ kept'[Len(kept) + 1] = c
      /\ ~ Applies(action, existing, c) => DOMAIN kept' = DOMAIN kept
  <2>1. CASE Applies(action, existing, c)
    <3>1. /\ Append(kept, c) \in Seq(Configs)
          /\ Len(Append(kept, c)) = Len(kept) + 1
          /\ \A i \in 1 .. Len(kept) : Append(kept, c)[i] = kept[i]
          /\ Append(kept, c)[Len(kept) + 1] = c
      BY <1>1, <1>len, AppendProperties
    <3> QED BY <3>1, <2>1, <1>2, <1>len
  <2>2. CASE ~ Applies(action, existing, c)
    BY <2>2, <1>2
  <2> QED BY <2>1, <2>2
<1>5. Phases' /\ ResolvedInOrder' /\ CallsCovered' /\ ActiveCallsAreAChain'
  BY <1>1, <1>3 DEF Inductive, Phases, ResolvedInOrder, CallsCovered,
                    ActiveCallsAreAChain
<1>6. NodesRequested'
  <2>1. c \in named
    BY <1>1 DEF Inductive, NodesRequested
  <2>2. \A i \in DOMAIN kept' : kept'[i] \in named
    <3>1. \A i \in DOMAIN kept : kept[i] \in named
      BY DEF Inductive, NodesRequested
    <3>2. CASE Applies(action, existing, c)
      <4>1. \A i \in DOMAIN kept' : i \in DOMAIN kept \/ i = Len(kept) + 1
        BY <3>2, <1>4, <1>len
      <4> QED BY <4>1, <3>1, <3>2, <2>1, <1>4
    <3>3. CASE ~ Applies(action, existing, c)
      BY <3>3, <3>1, <1>4
    <3> QED BY <3>2, <3>3
  <2> QED BY <2>2, <1>1, <1>3 DEF Inductive, NodesRequested
<1>7. /\ \A i \in DOMAIN resolved :
            (i < at.config /\ Applies(action, existing, resolved[i])) =>
                \E j \in DOMAIN kept : kept[j] = resolved[i]
      /\ \A i \in DOMAIN kept : \A k \in DOMAIN edges[kept[i]] :
            Applies(action, existing, edges[kept[i]][k]) =>
                \E j \in 1 .. i - 1 : kept[j] = edges[kept[i]][k]
  BY <1>1 DEF Inductive, KeptInOrder
<1>8. ASSUME NEW i \in DOMAIN resolved, i < at.config + 1,
             Applies(action, existing, resolved[i])
      PROVE  \E j \in DOMAIN kept' : kept'[j] = resolved[i]
  <2>1. CASE i < at.config
    <3>1. PICK j \in DOMAIN kept : kept[j] = resolved[i]
      BY <2>1, <1>7, <1>8
    <3> QED BY <3>1, <1>4
  <2>2. CASE i = at.config
    <3>1. Applies(action, existing, c)
      BY <2>2, <1>8
    <3>2. Len(kept) + 1 \in DOMAIN kept' /\ kept'[Len(kept) + 1] = c
      BY <3>1, <1>4, <1>len
    <3> QED BY <2>2, <3>2
  <2> QED BY <2>1, <2>2, <1>8, <1>1, <1>len
<1>9. ASSUME NEW i \in DOMAIN kept', NEW k \in DOMAIN edges[kept'[i]],
             Applies(action, existing, edges[kept'[i]][k])
      PROVE  \E j \in 1 .. i - 1 : kept'[j] = edges[kept'[i]][k]
  <2>1. CASE i \in DOMAIN kept
    <3>1. PICK j \in 1 .. i - 1 : kept[j] = edges[kept[i]][k]
      BY <2>1, <1>4, <1>7, <1>9
    <3>2. j \in DOMAIN kept
      BY <2>1, <1>len
    <3> QED BY <2>1, <3>1, <3>2, <1>4
  <2>2. CASE i \notin DOMAIN kept
    <3>1. i = Len(kept) + 1 /\ kept'[i] = c
      BY <2>2, <1>4, <1>len
    <3>2. PICK m \in 1 .. at.config - 1 : resolved[m] = edges[c][k]
      BY <3>1, <1>1, <1>9 DEF Inductive, ResolvedInOrder
    <3>3. m \in DOMAIN resolved /\ m < at.config
      <4>1. at.config \in Nat /\ at.config \in DOMAIN resolved
        BY <1>1
      <4>2. Len(resolved) \in Nat /\ DOMAIN resolved = 1 .. Len(resolved)
        BY <1>len
      <4>3. m \in 1 .. at.config - 1
        BY <3>2
      <4> QED BY ONLY <4>1, <4>2, <4>3
    <3>4. PICK j \in DOMAIN kept : kept[j] = resolved[m]
      BY <3>1, <3>2, <3>3, <1>7, <1>9
    <3> QED BY <3>1, <3>2, <3>4, <1>4, <1>len
  <2> QED BY <2>1, <2>2
<1>10. KeptInOrder'
  <2>1. at'.config = at.config + 1
    BY <1>1
  <2> QED BY <2>1, <1>1, <1>8, <1>9 DEF KeptInOrder, Applies
<1> QED BY <1>3, <1>5, <1>6, <1>10 DEF Inductive

\* The answer: what was read of the dependencies and the order of kept give
\* NothingTooEarly.
LEMMA InductiveReturn == TypeOK /\ Inductive /\ Return => Inductive'
<1> SUFFICES ASSUME TypeOK, Inductive, Return PROVE Inductive'
  OBVIOUS
<1>0. UNCHANGED <<inputs, edges, noDeps, at, calls, seen, resolved, kept>>
  BY DEF Return
<1>1. CASE Raise("in_progress")
  BY <1>0, <1>1, InductiveRaise
<1>2. CASE pc' = "done" /\ outcome' = [kind |-> "ok", order |-> Reordered]
  <2>1. UNCHANGED <<deps, action, modules, existing, edges, noDeps, at, calls,
                    seen, resolved, kept>>
    BY <1>0 DEF inputs
  <2>2. named' = named /\ pc = "filter" /\ at.config > Len(resolved)
    BY <2>1 DEF named, Return
  <2>3. Phases' /\ DepsRead' /\ ActiveCallsAreAChain' /\ KeptInOrder'
    BY <1>2 DEF Phases, DepsRead, WasRead, ActiveCallsAreAChain, KeptInOrder
  <2>4. NodesRequested' /\ ResolvedInOrder' /\ CallsCovered'
    BY <2>1, <2>2 DEF Inductive, NodesRequested, ResolvedInOrder, CallsCovered
  <2>len. /\ kept \in Seq(Configs) /\ Len(kept) \in Nat /\ DOMAIN kept = 1 .. Len(kept)
          /\ edges \in [Configs -> Seq(Configs)]
          /\ modules \in Seq(Configs) /\ deps \in [Configs -> Seq(Configs)]
    BY InputsTyped DEF TypeOK
  <2>5. \A i \in DOMAIN kept : \A k \in DOMAIN edges[kept[i]] :
            Applies(action, existing, edges[kept[i]][k]) =>
                \E j \in 1 .. i - 1 : kept[j] = edges[kept[i]][k]
    BY <2>2 DEF Inductive, KeptInOrder
  \* A dependency of a kept configuration that applies itself comes first; one
  \* that was not requested passed the check for missing dependencies.
  <2>6. ASSUME NEW i \in DOMAIN kept, NEW k \in DOMAIN deps[kept[i]]
        PROVE  LET d == deps[kept[i]][k] IN
               /\ ~ IsMissing(d)
               /\ (d \in named /\ Applies(action, existing, d)) =>
                     \E j \in 1 .. i - 1 : kept[j] = d
    <3>1. kept[i] \in named
      BY DEF Inductive, NodesRequested
    <3>2. PICK m \in DOMAIN modules : modules[m] = kept[i]
      BY <3>1 DEF named, ToSet
    <3>3. WasAccepted(m, k)
      BY <3>2, <2>2 DEF Inductive, DepsRead, WasRead
    <3>4. ASSUME deps[kept[i]][k] \in named, Applies(action, existing, deps[kept[i]][k])
          PROVE  \E j \in 1 .. i - 1 : kept[j] = deps[kept[i]][k]
      <4>1. PICK e \in DOMAIN edges[kept[i]] : edges[kept[i]][e] = deps[kept[i]][k]
        BY <3>2, <3>3, <3>4 DEF WasAccepted
      <4> QED BY <4>1, <3>4, <2>5
    <3> QED BY <3>2, <3>3, <3>4 DEF WasAccepted
  <2>7. NothingTooEarly'
    <3>1. CASE action # "delete"
      <4>1. outcome'.order = kept
        BY <3>1, <1>2 DEF Reordered
      <4>2. ASSUME NEW i \in DOMAIN kept, NEW k \in DOMAIN deps[kept[i]],
                   action = "create", existing[deps[kept[i]][k]] = Absent
            PROVE  \E j \in 1 .. i - 1 : kept[j] = deps[kept[i]][k]
        <5>1. Applies(action, existing, deps[kept[i]][k])
          BY <4>2 DEF Applies
        <5>2. deps[kept[i]][k] \in named
          BY <2>6, <4>2 DEF IsMissing
        <5> QED BY <5>1, <5>2, <2>6
      <4> QED BY <3>1, <4>1, <4>2, <2>1 DEF NothingTooEarly
    <3>2. CASE action = "delete"
      <4> DEFINE n == Len(kept)
      <4>1. outcome'.order = [i \in 1 .. n |-> kept[n - i + 1]]
        BY <3>2, <1>2 DEF Reordered, Reverse
      <4>2. DOMAIN outcome'.order = 1 .. n /\ Len(outcome'.order) = n
            /\ \A i \in 1 .. n : outcome'.order[i] = kept[n - i + 1]
        BY <4>1, <2>len
      <4>3. ASSUME NEW i \in 1 .. n, NEW k \in DOMAIN deps[outcome'.order[i]],
                   existing[deps[outcome'.order[i]][k]] # Absent,
                   deps[outcome'.order[i]][k] \in named
            PROVE  \E j \in i + 1 .. n : outcome'.order[j] = deps[outcome'.order[i]][k]
        <5>1. n - i + 1 \in DOMAIN kept /\ outcome'.order[i] = kept[n - i + 1]
          BY <4>2, <2>len
        <5>2. Applies(action, existing, deps[kept[n - i + 1]][k])
          BY <4>3, <5>1, <3>2 DEF Applies
        <5>3. PICK m \in 1 .. n - i : kept[m] = deps[kept[n - i + 1]][k]
          BY <5>1, <5>2, <4>3, <2>6, <2>len
        <5>4. n - m + 1 \in i + 1 .. n /\ n - (n - m + 1) + 1 = m
          BY <5>3, <2>len
        <5>5. outcome'.order[n - m + 1] = kept[m]
          <6> DEFINE m2 == n - m + 1
          <6>1. m2 \in 1 .. n /\ n - m2 + 1 = m
            BY <5>4, <2>len
          <6>2. outcome'.order[m2] = kept[n - m2 + 1]
            BY <6>1, <4>2
          <6> QED BY <6>1, <6>2
        <5> QED BY <5>1, <5>3, <5>4, <5>5
      <4> QED BY <3>2, <4>2, <4>3, <2>1, <2>2 DEF NothingTooEarly
    <3> QED BY <3>1, <3>2
  <2> QED BY <2>3, <2>4, <2>7 DEF Inductive
<1> QED BY <1>1, <1>2 DEF Return

\* One lemma per phase, put together.
LEMMA InductiveStep == TypeOK /\ Inductive /\ [Next]_vars => Inductive'
<1> SUFFICES ASSUME TypeOK, Inductive, [Next]_vars PROVE Inductive'
  OBVIOUS
<1>1. CASE UNCHANGED vars
  BY <1>1 DEF vars, inputs, Inductive, Phases, NodesRequested, DepsRead, WasRead,
     WasAccepted, IsMissing, ResolvedInOrder, CallsCovered, ActiveCallsAreAChain,
     KeptInOrder, NothingTooEarly, named
<1> QED
  BY <1>1, InductiveScan, InductiveRead, InductiveResolve, InductiveFilter,
     InductiveReturn DEF Next

\* Inductive holds in every reachable state of build_dependency_graph.
THEOREM InductiveInvariant == GraphSpec => []Inductive
<1> QED BY InductiveStart, InductiveStep, TypeCorrect, PTL DEF GraphSpec

\* Every configuration is resolved after everything it waits for, for every
\* graph (cyclic or not) and every request (with or without repetitions).
THEOREM ResolveIsTopological == GraphSpec => []ResolvedInOrder
<1>1. Inductive => ResolvedInOrder
  BY DEF Inductive
<1> QED BY <1>1, InductiveInvariant, PTL

\* The active calls form a path of the graph that holds every node seen and not
\* yet resolved: a cycle reported from inside resolve() exists.
THEOREM CallsFormAPath == GraphSpec => []ActiveCallsAreAChain
<1>1. Inductive => ActiveCallsAreAChain
  BY DEF Inductive
<1> QED BY <1>1, InductiveInvariant, PTL

\* An accepted "create" launches nothing before its dependencies and an accepted
\* "delete" removes nothing before its requested dependents.
THEOREM OrderIsSafe == GraphSpec => []NothingTooEarly
<1>1. Inductive => NothingTooEarly
  BY DEF Inductive
<1> QED BY <1>1, InductiveInvariant, PTL

--------------------------------------------------------------------------------
(***************************************************************************)
(* The answer.  For requests that name a configuration once the function   *)
(* implements LaunchOrder: every refusal is justified, and what is         *)
(* accepted is one of its orders.                                          *)
(***************************************************************************)
\* No request names a configuration twice.
NamedOnce == \A request \in ArgLists : IsInjective(request)

Active == {calls[i].node : i \in DOMAIN calls}

\* A configuration is resolved once, and not before its call has ended.
ResolvedOnce ==
    /\ IsInjective(resolved)
    /\ \A i, j \in DOMAIN calls : calls[i].node = calls[j].node => i = j
    /\ Active \subseteq seen
    /\ Active \cap ToSet(resolved) = {}

\* Every call but the innermost is at one of its edges.
CallsAtEdges == \A i \in 1 .. Len(calls) - 1 : calls[i].next \in DOMAIN edges[calls[i].node]

\* A root is waited for by nobody and still to do; whoever is neither a root, nor
\* resolved, nor active is waited for by somebody.
RootsAreFree ==
    /\ IsInjective(noDeps)
    /\ \A r \in ToSet(noDeps) :
          /\ \A c \in Configs : r \notin ToSet(edges[c])
          /\ r \notin Active \cup ToSet(resolved)
    /\ \A c \in named \ (ToSet(noDeps) \cup Active \cup ToSet(resolved)) :
          \E x \in named : c \in ToSet(edges[x])

EdgesAreDeclared == \A c \in Configs : ToSet(edges[c]) \subseteq ToSet(deps[c])

\* What the scan has ruled out, and what the count at the end of the traversal.
Checked ==
    /\ pc \in {"deps", "resolve", "filter"} => ~ Problems(action, named, existing)
    /\ pc = "filter" => Len(resolved) = Len(modules)

\* The filter keeps what it has walked in the order it found it.
KeepsOrder ==
    /\ \A i \in DOMAIN kept : /\ Applies(action, existing, kept[i])
                              /\ \E a \in DOMAIN resolved : /\ resolved[a] = kept[i]
                                                            /\ a < at.config
    /\ \A i, j \in DOMAIN kept : i < j =>
          \E a, b \in DOMAIN resolved :
              a < b /\ resolved[a] = kept[i] /\ resolved[b] = kept[j]

Answered == outcome # Pending => outcome \in Answers(deps, action, named, existing)

Precise ==
    pc # "done" =>
        /\ ResolvedOnce /\ CallsAtEdges /\ RootsAreFree /\ EdgesAreDeclared /\ Checked
        /\ (pc = "filter" => KeepsOrder)

\* The members of a list that grows by one.
LEMMA AppendMembers ==
    ASSUME NEW S, NEW s \in Seq(S), NEW e \in S
    PROVE  /\ Append(s, e) \in Seq(S)
           /\ ToSet(Append(s, e)) = ToSet(s) \cup {e}
           /\ IsInjective(s) /\ e \notin ToSet(s) => IsInjective(Append(s, e))
<1> DEFINE t == Append(s, e)
<1>1. t \in Seq(S)
  BY AppendProperties
<1>2. /\ \A m \in DOMAIN s : m \in DOMAIN t /\ t[m] = s[m]
      /\ Len(s) + 1 \in DOMAIN t
      /\ t[Len(s) + 1] = e
      /\ \A m \in DOMAIN t : m \in DOMAIN s \/ m = Len(s) + 1
  BY AppendIndexes
<1> HIDE DEF t
<1>3. ToSet(t) \subseteq ToSet(s) \cup {e}
  BY <1>2 DEF ToSet
<1>4. ToSet(s) \cup {e} \subseteq ToSet(t)
  BY <1>2 DEF ToSet
<1>5. IsInjective(s) /\ e \notin ToSet(s) => IsInjective(t)
  BY <1>2 DEF IsInjective, ToSet
<1> QED BY <1>1, <1>3, <1>4, <1>5 DEF t

\* Dropping the k-th element of a list shifts those behind it.
LEMMA DropShifts ==
    ASSUME NEW S, NEW s \in Seq(S), NEW k \in DOMAIN s,
           NEW t, t = SubSeq(s, 1, k - 1) \o SubSeq(s, k + 1, Len(s))
    PROVE  /\ DOMAIN t = 1 .. Len(s) - 1
           /\ \A i \in 1 .. Len(s) - 1 : t[i] = IF i < k THEN s[i] ELSE s[i + 1]
<1>1. PICK n \in Nat : n = Len(s)
  OBVIOUS
<1>2. k \in 1 .. n /\ \A i \in 1 .. n : s[i] \in S
  BY <1>1
<1> DEFINE a == SubSeq(s, 1, k - 1)
           b == SubSeq(s, k + 1, n)
<1>3. /\ 1 \in Int /\ k - 1 \in Int /\ k + 1 \in Int /\ n \in Int
      /\ \A i \in 1 .. k - 1 : s[i] \in S
      /\ \A i \in k + 1 .. n : s[i] \in S
  BY <1>2
<1>4. /\ a \in Seq(S) /\ Len(a) = (IF 1 <= k - 1 THEN (k - 1) - 1 + 1 ELSE 0)
      /\ \A i \in 1 .. (k - 1) - 1 + 1 : a[i] = s[1 + i - 1]
  BY <1>3, SubSeqProperties
<1>5. /\ b \in Seq(S) /\ Len(b) = (IF k + 1 <= n THEN n - (k + 1) + 1 ELSE 0)
      /\ \A i \in 1 .. n - (k + 1) + 1 : b[i] = s[(k + 1) + i - 1]
  BY <1>3, SubSeqProperties
<1>6. t = a \o b
  BY <1>1
<1> HIDE DEF a, b
<1>7. Len(a) = k - 1 /\ \A i \in 1 .. k - 1 : a[i] = s[i]
  BY ONLY <1>2, <1>4, n \in Nat
<1>8. Len(b) = n - k /\ \A i \in 1 .. n - k : b[i] = s[k + i]
  BY ONLY <1>2, <1>5, n \in Nat
<1>9. /\ t \in Seq(S) /\ Len(t) = Len(a) + Len(b)
      /\ \A i \in 1 .. Len(a) + Len(b) : t[i] = IF i <= Len(a) THEN a[i] ELSE b[i - Len(a)]
  BY ONLY <1>4, <1>5, <1>6, ConcatProperties
<1>10. Len(a) + Len(b) = n - 1 /\ DOMAIN t = 1 .. n - 1
  BY ONLY <1>2, <1>7, <1>8, <1>9, n \in Nat
<1>11. ASSUME NEW i \in 1 .. n - 1
       PROVE  t[i] = IF i < k THEN s[i] ELSE s[i + 1]
  <2>1. t[i] = IF i <= k - 1 THEN a[i] ELSE b[i - (k - 1)]
    BY ONLY <1>7, <1>9, <1>10, i \in 1 .. n - 1
  <2>2. CASE i < k
    BY ONLY <1>2, <1>7, <2>1, <2>2, i \in 1 .. n - 1, n \in Nat
  <2>3. CASE ~ (i < k)
    <3>1. i - (k - 1) \in 1 .. n - k /\ k + (i - (k - 1)) = i + 1
      BY ONLY <1>2, <2>3, i \in 1 .. n - 1, n \in Nat
    <3>2. t[i] = b[i - (k - 1)]
      BY ONLY <1>2, <2>1, <2>3, i \in 1 .. n - 1, n \in Nat
    <3> QED BY ONLY <1>8, <2>3, <3>1, <3>2
  <2> QED BY <2>2, <2>3
<1> QED BY <1>1, <1>10, <1>11

\* Dropping one element of a list that holds each once leaves the others.
LEMMA DropDistinct ==
    ASSUME NEW S, NEW s \in Seq(S), NEW k \in DOMAIN s, IsInjective(s),
           NEW t, t = SubSeq(s, 1, k - 1) \o SubSeq(s, k + 1, Len(s))
    PROVE  IsInjective(t) /\ ToSet(t) = ToSet(s) \ {s[k]}
<1>1. PICK n \in Nat : n = Len(s)
  OBVIOUS
<1>2. k \in 1 .. n /\ DOMAIN s = 1 .. n
  BY <1>1
<1>3. /\ DOMAIN t = 1 .. n - 1
      /\ \A i \in 1 .. n - 1 : t[i] = IF i < k THEN s[i] ELSE s[i + 1]
  BY <1>1, DropShifts
<1>4. IsInjective(t)
  <2>1. ASSUME NEW i \in 1 .. n - 1, NEW j \in 1 .. n - 1, t[i] = t[j] PROVE i = j
    <3> DEFINE From(m) == IF m < k THEN m ELSE m + 1
    <3>1. /\ From(i) \in 1 .. n /\ From(j) \in 1 .. n
          /\ t[i] = s[From(i)] /\ t[j] = s[From(j)]
      BY ONLY <1>2, <1>3, n \in Nat, i \in 1 .. n - 1, j \in 1 .. n - 1
    <3>2. From(i) = From(j)
      BY ONLY <1>2, <2>1, <3>1, IsInjective(s) DEF IsInjective
    <3> QED
      BY ONLY <1>2, <3>2, n \in Nat, i \in 1 .. n - 1, j \in 1 .. n - 1
  <2> QED BY ONLY <1>3, <2>1 DEF IsInjective
<1>5. ASSUME NEW i \in 1 .. n - 1 PROVE \E j \in 1 .. n : j # k /\ t[i] = s[j]
  <2>1. CASE i < k
    BY ONLY <1>2, <1>3, <2>1, n \in Nat, i \in 1 .. n - 1
  <2>2. CASE ~ (i < k)
    BY ONLY <1>2, <1>3, <2>2, n \in Nat, i \in 1 .. n - 1
  <2> QED BY <2>1, <2>2
<1>6. ASSUME NEW i \in 1 .. n, i # k PROVE \E j \in 1 .. n - 1 : t[j] = s[i]
  <2>1. CASE i < k
    BY ONLY <1>2, <1>3, <2>1, n \in Nat, i \in 1 .. n - 1
  <2>2. CASE ~ (i < k)
    <3>1. i - 1 \in 1 .. n - 1 /\ t[i - 1] = s[i]
      BY ONLY <1>2, <1>3, <1>6, <2>2, n \in Nat, i \in 1 .. n
    <3> QED BY <3>1
  <2> QED BY <2>1, <2>2
<1>7. ToSet(t) \subseteq ToSet(s) \ {s[k]}
  BY ONLY <1>2, <1>3, <1>5, IsInjective(s) DEF IsInjective, ToSet
<1>8. ToSet(s) \ {s[k]} \subseteq ToSet(t)
  <2> SUFFICES ASSUME NEW x \in ToSet(s) \ {s[k]} PROVE x \in ToSet(t)
    OBVIOUS
  <2>1. PICK i \in 1 .. n : x = s[i] /\ i # k
    BY <1>2 DEF ToSet
  <2>2. PICK j \in 1 .. n - 1 : t[j] = s[i]
    BY <1>6, <2>1
  <2> QED BY <1>3, <2>1, <2>2 DEF ToSet
<1> QED BY <1>4, <1>7, <1>8

\* Before anything is read.
LEMMA PreciseStart == NamedOnce /\ Start => Precise
<1> SUFFICES ASSUME NamedOnce, Start PROVE Precise
  OBVIOUS
<1>1. /\ pc = "scan" /\ edges = [c \in Configs |-> <<>>] /\ noDeps = modules
      /\ calls = <<>> /\ seen = {} /\ resolved = <<>> /\ IsInjective(modules)
  BY DEF Start, Init, NamedOnce
<1>2. ToSet(<<>>) = {} /\ Active = {} /\ IsInjective(<<>>)
  BY <1>1 DEF ToSet, Active, IsInjective
<1>3. ResolvedOnce /\ EdgesAreDeclared /\ Checked
  BY <1>1, <1>2 DEF ResolvedOnce, EdgesAreDeclared, Checked
<1>4. RootsAreFree
  BY <1>1, <1>2 DEF RootsAreFree, named
<1>5. CallsAtEdges
  BY <1>1 DEF CallsAtEdges
<1> QED BY <1>1, <1>3, <1>4, <1>5 DEF Precise

\* The scan lets nothing pass that LaunchRules calls a problem.
LEMMA PreciseScan == Precise /\ ScanExisting => Precise'
<1> SUFFICES ASSUME Precise, ScanExisting, pc' # "done" PROVE Precise'
  BY DEF Precise
<1>1. /\ UNCHANGED <<deps, action, modules, existing, edges, noDeps, at, calls, seen,
                     resolved, kept>>
      /\ pc = "scan" /\ pc' = "deps" /\ \A c \in Configs : ~ MustStop(c)
  BY DEF ScanExisting, Raise, inputs
<1>2. named' = named /\ Active' = Active
  BY <1>1 DEF named, Active
<1>3. ~ Problems(action, named, existing)
  BY <1>1 DEF Problems, MustStop
<1>4. ResolvedOnce' /\ CallsAtEdges' /\ EdgesAreDeclared'
  BY <1>1, <1>2 DEF Precise, ResolvedOnce, CallsAtEdges, EdgesAreDeclared
<1>5. RootsAreFree'
  BY <1>1, <1>2 DEF Precise, RootsAreFree
<1>6. Checked'
  BY <1>1, <1>2, <1>3 DEF Checked
<1> QED BY <1>1, <1>4, <1>5, <1>6 DEF Precise

\* An edge is a declared dependency, and what it leads to is no root any more.
LEMMA PreciseRead == TypeOK /\ Inductive /\ Precise /\ ReadDependencies => Precise'
<1> SUFFICES ASSUME TypeOK, Inductive, Precise, ReadDependencies, pc' # "done" PROVE Precise'
  BY DEF Precise
<1>1. /\ UNCHANGED <<deps, action, modules, existing, calls, seen, resolved, kept>>
      /\ pc = "deps" /\ pc' \in {"deps", "resolve"}
  BY DEF ReadDependencies, MissingDependency, OutsideDependency, AddEdge, NextConfig,
         StartResolving, inputs, AtDependency, Raise
<1>2. named' = named /\ Active' = Active
  BY <1>1 DEF named, Active
<1>3. resolved = <<>> /\ calls = <<>> /\ Active = {} /\ ToSet(resolved) = {}
  BY <1>1 DEF Inductive, Phases, Active, ToSet
<1>4. ResolvedOnce' /\ CallsAtEdges' /\ Checked'
  BY <1>1, <1>2, <1>3 DEF Precise, ResolvedOnce, CallsAtEdges, Checked
<1>5. CASE UNCHANGED <<edges, noDeps>>
  <2>1. EdgesAreDeclared' /\ RootsAreFree'
    BY <1>1, <1>2, <1>5 DEF Precise, EdgesAreDeclared, RootsAreFree
  <2> QED BY <1>1, <1>4, <2>1 DEF Precise
<1>6. CASE AddEdge
  <2> DEFINE d == Dependency
             new == Append(edges[Config], d)
  <2>0. Config \in Configs /\ Config \in named
    BY <1>6, InputsTyped DEF AddEdge, AtDependency, Config, TypeOK, Place, named, ToSet
  <2>1. /\ Config \in Configs /\ Config \in named /\ d \in named /\ d \in Configs
        /\ d \in ToSet(deps[Config])
    <3>1. deps[Config] \in Seq(Configs) /\ at.dep \in DOMAIN deps[Config]
      BY <1>6, <2>0, InputsTyped DEF AddEdge, AtDependency, Config, TypeOK, Place
    <3>2. d \in ToSet(deps[Config]) /\ d \in named
      BY <1>6, <3>1 DEF AddEdge, Dependency, ToSet
    <3> QED BY <2>0, <3>2, InputsTyped
  <2>2. edges' = [edges EXCEPT ![Config] = new] /\ DropRoot(d)
    BY <1>6 DEF AddEdge
  <2>3. /\ edges \in [Configs -> Seq(Configs)] /\ noDeps \in Seq(Configs)
        /\ IsInjective(noDeps)
    BY <1>1 DEF TypeOK, Precise, RootsAreFree
  <2>4. ToSet(new) = ToSet(edges[Config]) \cup {d}
    BY <2>1, <2>3, AppendMembers
  <2> HIDE DEF d, new
  <2>5. \A c \in Configs : ToSet(edges'[c]) =
                IF c = Config THEN ToSet(edges[c]) \cup {d} ELSE ToSet(edges[c])
    BY <2>1, <2>2, <2>3, <2>4
  <2>6. EdgesAreDeclared'
    BY <1>1, <2>1, <2>5 DEF Precise, EdgesAreDeclared
  <2>7. IsInjective(noDeps') /\ ToSet(noDeps') = ToSet(noDeps) \ {d}
    <3>1. CASE d \in ToSet(noDeps)
      <4>1. PICK k \in DOMAIN noDeps :
                /\ noDeps[k] = d
                /\ noDeps' = SubSeq(noDeps, 1, k - 1)
                                \o SubSeq(noDeps, k + 1, Len(noDeps))
        BY <2>2, <3>1 DEF DropRoot
      <4>2. \A t : t = SubSeq(noDeps, 1, k - 1) \o SubSeq(noDeps, k + 1, Len(noDeps))
                      => IsInjective(t) /\ ToSet(t) = ToSet(noDeps) \ {noDeps[k]}
        BY <2>3, DropDistinct
      <4> QED BY <4>1, <4>2
    <3>2. CASE d \notin ToSet(noDeps)
      BY <2>2, <2>3, <3>2 DEF DropRoot
    <3> QED BY <3>1, <3>2
  <2>8. RootsAreFree'
    <3>1. ASSUME NEW r \in ToSet(noDeps')
          PROVE  /\ \A c \in Configs : r \notin ToSet(edges'[c])
                 /\ r \notin Active' \cup ToSet(resolved')
      <4>1. r \in ToSet(noDeps) /\ r # d
        BY <2>7
      <4>2. \A c \in Configs : r \notin ToSet(edges[c])
        BY <1>1, <4>1 DEF Precise, RootsAreFree
      <4> QED BY <1>1, <1>2, <1>3, <2>5, <4>1, <4>2
    <3>2. ASSUME NEW c \in named \ (ToSet(noDeps') \cup Active' \cup ToSet(resolved'))
          PROVE  \E x \in named : c \in ToSet(edges'[x])
      <4>1. CASE c = d
        BY <2>1, <2>5, <4>1
      <4>2. CASE c # d
        <5>1. PICK x \in named : c \in ToSet(edges[x])
          BY <1>1, <1>2, <2>7, <3>2, <4>2 DEF Precise, RootsAreFree
        <5> QED BY <2>5, <5>1, InputsTyped
      <4> QED BY <4>1, <4>2
    <3> QED BY <1>2, <2>7, <3>1, <3>2 DEF RootsAreFree
  <2> QED BY <1>1, <1>4, <2>6, <2>8 DEF Precise
<1> QED
  BY <1>5, <1>6 DEF ReadDependencies, MissingDependency, OutsideDependency, NextConfig,
                    StartResolving, Raise

\* The first element of a list that holds each once, and the others.
LEMMA HeadOrTail ==
    ASSUME NEW S, NEW s \in Seq(S), s # <<>>, IsInjective(s)
    PROVE  /\ Head(s) \in ToSet(s) /\ Head(s) \notin ToSet(Tail(s))
           /\ ToSet(s) = ToSet(Tail(s)) \cup {Head(s)}
           /\ IsInjective(Tail(s))
<1> DEFINE t == Tail(s)
<1>1. PICK n \in Nat : n = Len(s) - 1
  OBVIOUS
<1>2. /\ DOMAIN s = 1 .. n + 1 /\ DOMAIN t = 1 .. n /\ Head(s) = s[1]
      /\ \A i \in 1 .. n : t[i] = s[i + 1]
  BY <1>1
<1> HIDE DEF t
<1>3. IsInjective(t)
  BY ONLY <1>2, n \in Nat, IsInjective(s) DEF IsInjective
<1>4. Head(s) \in ToSet(s)
  BY ONLY <1>2, n \in Nat DEF ToSet
<1>5. Head(s) \notin ToSet(t)
  BY ONLY <1>2, n \in Nat, IsInjective(s) DEF IsInjective, ToSet
<1>6. ToSet(t) \subseteq ToSet(s)
  BY ONLY <1>2, n \in Nat DEF ToSet
<1>7. ASSUME NEW x \in ToSet(s) PROVE x \in ToSet(t) \cup {Head(s)}
  <2>1. PICK i \in 1 .. n + 1 : x = s[i]
    BY ONLY <1>2, x \in ToSet(s) DEF ToSet
  <2>2. CASE i = 1
    BY <1>2, <2>1, <2>2
  <2>3. CASE i # 1
    <3>1. i - 1 \in 1 .. n /\ (i - 1) + 1 = i
      BY ONLY <2>3, i \in 1 .. n + 1, n \in Nat
    <3>2. t[i - 1] = x
      BY ONLY <1>2, <2>1, <3>1
    <3> QED BY ONLY <1>2, <3>1, <3>2 DEF ToSet
  <2> QED BY <2>2, <2>3
<1> QED BY <1>3, <1>4, <1>5, <1>6, <1>7 DEF t

\* A root starts its traversal: it is active instead of waiting for its turn.
LEMMA PreciseNextRoot == TypeOK /\ Inductive /\ Precise /\ NextRoot => Precise'
<1> SUFFICES ASSUME TypeOK, Inductive, Precise, NextRoot PROVE Precise'
  OBVIOUS
<1> DEFINE r == Head(noDeps)
<1>1. /\ UNCHANGED <<deps, action, modules, existing, edges, outcome, resolved>>
      /\ pc = "resolve" /\ pc' = "resolve" /\ noDeps # <<>> /\ calls = <<>>
      /\ calls' = <<[node |-> r, next |-> 1]>> /\ seen' = {r} /\ noDeps' = Tail(noDeps)
  BY DEF NextRoot, inputs
<1>2. Active = {}
  BY <1>1 DEF Active
<1>3. DOMAIN calls' = {1} /\ calls'[1].node = r
  BY <1>1
<1>4. Active' = {r}
  BY <1>3 DEF Active
<1>5. noDeps \in Seq(Configs) /\ IsInjective(noDeps)
  BY <1>1 DEF TypeOK, Precise, RootsAreFree
<1>6. /\ r \in ToSet(noDeps) /\ r \notin ToSet(noDeps')
      /\ ToSet(noDeps) = ToSet(noDeps') \cup {r} /\ IsInjective(noDeps')
  BY <1>1, <1>5, HeadOrTail
<1> HIDE DEF r
<1>7. ResolvedOnce'
  <2>1. r \notin ToSet(resolved) /\ IsInjective(resolved)
    BY <1>1, <1>6 DEF Precise, RootsAreFree, ResolvedOnce
  <2>2. \A i, j \in DOMAIN calls' : i = j
    BY <1>3
  <2> QED BY <1>1, <1>4, <2>1, <2>2 DEF ResolvedOnce
<1>8. RootsAreFree'
  <2>1. named' = named
    BY <1>1 DEF named
  <2>2. RootsAreFree
    BY <1>1 DEF Precise
  <2> QED BY <1>1, <1>2, <1>4, <1>6, <2>1, <2>2 DEF RootsAreFree
<1>9. EdgesAreDeclared' /\ Checked'
  BY <1>1 DEF Precise, EdgesAreDeclared, Checked, named
<1>10. CallsAtEdges'
  BY <1>1 DEF CallsAtEdges
<1> QED BY <1>1, <1>7, <1>8, <1>9, <1>10 DEF Precise

\* An edge to a resolved configuration is passed.
LEMMA PreciseSkipResolved == TypeOK /\ Inductive /\ Precise /\ SkipResolved => Precise'
<1> SUFFICES ASSUME TypeOK, Inductive, Precise, SkipResolved PROVE Precise'
  OBVIOUS
<1> DEFINE call == [node |-> Top.node, next |-> Top.next + 1]
<1>1. /\ UNCHANGED <<deps, action, modules, existing, edges, outcome, noDeps, seen, resolved>>
      /\ pc = "resolve" /\ pc' = "resolve" /\ calls # <<>>
      /\ calls' = [calls EXCEPT ![Len(calls)] = call]
  BY DEF SkipResolved, AtEdge, inputs
<1>2. /\ DOMAIN calls' = DOMAIN calls
      /\ \A i \in DOMAIN calls : calls'[i].node = calls[i].node
  BY <1>1, TopIsCall DEF TypeOK, Top, Call
<1>3. Active' = Active
  BY <1>2 DEF Active
<1>4. ResolvedOnce'
  BY <1>1, <1>2, <1>3 DEF Precise, ResolvedOnce
<1>5. RootsAreFree' /\ EdgesAreDeclared' /\ Checked'
  BY <1>1, <1>3 DEF Precise, RootsAreFree, EdgesAreDeclared, Checked, named
<1>6. CallsAtEdges'
  <2>1. /\ calls \in Seq(Call) /\ Len(calls') = Len(calls)
        /\ \A i \in 1 .. Len(calls) - 1 : calls'[i] = calls[i]
    BY <1>1 DEF TypeOK
  <2> QED BY <1>1, <2>1 DEF Precise, CallsAtEdges
<1> QED BY <1>1, <1>4, <1>5, <1>6 DEF Precise

\* A configuration that was not seen becomes active: it was no root, since the
\* innermost call waits for it.
LEMMA PreciseDescend == TypeOK /\ Inductive /\ Precise /\ Descend => Precise'
<1> SUFFICES ASSUME TypeOK, Inductive, Precise, Descend PROVE Precise'
  OBVIOUS
<1> DEFINE call == [node |-> Edge, next |-> 1]
<1>1. /\ UNCHANGED <<deps, action, modules, existing, edges, outcome, noDeps, resolved>>
      /\ pc = "resolve" /\ pc' = "resolve" /\ calls # <<>>
      /\ Edge \notin ToSet(resolved) /\ Edge \notin seen
      /\ Top.next <= Len(edges[Top.node])
      /\ calls' = Append(calls, call) /\ seen' = seen \cup {Edge}
  BY DEF Descend, AtEdge, inputs
<1>2. Top.node \in Configs /\ Edge \in Configs /\ Edge \in ToSet(edges[Top.node])
  <2>1. Top.node \in Configs /\ Top.next \in Nat \ {0} /\ edges[Top.node] \in Seq(Configs)
    BY <1>1, TopIsCall DEF Call, TypeOK
  <2>2. Top.next \in DOMAIN edges[Top.node]
    BY <1>1, <2>1
  <2> QED BY <2>1, <2>2 DEF Edge, ToSet
<1>3. calls \in Seq(Call) /\ call \in Call
  BY <1>2 DEF TypeOK, Call
<1>4. /\ \A m \in DOMAIN calls : m \in DOMAIN calls' /\ calls'[m] = calls[m]
      /\ Len(calls) + 1 \in DOMAIN calls'
      /\ calls'[Len(calls) + 1] = call
      /\ \A m \in DOMAIN calls' : m \in DOMAIN calls \/ m = Len(calls) + 1
  <2>1. \A t : t = Append(calls, call) =>
            /\ \A m \in DOMAIN calls : m \in DOMAIN t /\ t[m] = calls[m]
            /\ Len(calls) + 1 \in DOMAIN t
            /\ t[Len(calls) + 1] = call
            /\ \A m \in DOMAIN t : m \in DOMAIN calls \/ m = Len(calls) + 1
    BY <1>3, AppendIndexes
  <2> QED BY <1>1, <2>1
<1>5. call.node = Edge
  OBVIOUS
<1> HIDE DEF call
<1>6. Active' = Active \cup {Edge}
  BY <1>4, <1>5 DEF Active
<1>7. ResolvedOnce'
  <2>1. ResolvedOnce /\ Edge \notin Active
    BY <1>1 DEF Precise, ResolvedOnce
  <2>2. \A m \in DOMAIN calls : calls[m].node # Edge
    BY <2>1 DEF Active
  <2>3. ASSUME NEW i \in DOMAIN calls', NEW j \in DOMAIN calls', calls'[i].node = calls'[j].node
        PROVE  i = j
    BY <1>4, <1>5, <2>1, <2>2, <2>3 DEF ResolvedOnce
  <2> QED BY <1>1, <1>6, <2>1, <2>3 DEF ResolvedOnce
<1>8. RootsAreFree'
  <2>1. RootsAreFree /\ named' = named
    BY <1>1 DEF Precise, named
  <2>2. Edge \notin ToSet(noDeps)
    BY <1>2, <2>1 DEF RootsAreFree
  <2> QED BY <1>1, <1>6, <2>1, <2>2 DEF RootsAreFree
<1>9. EdgesAreDeclared' /\ Checked'
  BY <1>1 DEF Precise, EdgesAreDeclared, Checked, named
<1>10. CallsAtEdges'
  <2>1. /\ Len(calls) \in Nat /\ DOMAIN calls = 1 .. Len(calls)
        /\ Len(calls') = Len(calls) + 1
    BY <1>1, <1>3
  <2>2. ASSUME NEW i \in 1 .. Len(calls) PROVE calls[i].next \in DOMAIN edges[calls[i].node]
    <3>1. CASE i = Len(calls)
      <4>1. /\ edges[Top.node] \in Seq(Configs) /\ Top.next \in Nat \ {0}
            /\ Top = calls[Len(calls)]
        BY <1>1, <1>2, TopIsCall DEF Top, Call, TypeOK
      <4>2. Top.next \in DOMAIN edges[Top.node]
        BY <1>1, <4>1
      <4> QED BY <3>1, <4>1, <4>2
    <3>2. CASE i # Len(calls)
      <4>1. i \in 1 .. Len(calls) - 1
        <5>1. \A n \in Nat : \A m \in 1 .. n : m # n => m \in 1 .. n - 1
          OBVIOUS
        <5> QED BY ONLY <2>1, <3>2, <5>1, i \in 1 .. Len(calls)
      <4> QED BY <1>1, <4>1 DEF Precise, CallsAtEdges
    <3> QED BY <3>1, <3>2
  <2>3. \A i \in 1 .. Len(calls) : calls'[i] = calls[i]
    BY <1>4, <2>1
  <2> QED BY <1>1, <2>1, <2>2, <2>3 DEF CallsAtEdges
<1> QED BY <1>1, <1>7, <1>8, <1>9, <1>10 DEF Precise

\* What was active is resolved when its call ends.
LEMMA PreciseFinish == TypeOK /\ Inductive /\ Precise /\ Finish => Precise'
<1> SUFFICES ASSUME TypeOK, Inductive, Precise, Finish PROVE Precise'
  OBVIOUS
<1> DEFINE top == Top.node
<1>1. /\ UNCHANGED <<deps, action, modules, existing, edges, outcome, noDeps, seen>>
      /\ pc = "resolve" /\ pc' = "resolve" /\ calls # <<>>
      /\ calls' = SubSeq(calls, 1, Len(calls) - 1) /\ resolved' = Append(resolved, top)
  BY DEF Finish, inputs
<1>2. /\ top \in Configs /\ resolved \in Seq(Configs) /\ calls \in Seq(Call)
      /\ Len(calls) \in DOMAIN calls /\ calls[Len(calls)].node = top
  BY <1>1, TopIsCall DEF TypeOK, Call, Top
<1>3. /\ \A i \in DOMAIN calls' : i \in DOMAIN calls /\ calls'[i] = calls[i] /\ i # Len(calls)
      /\ \A i \in DOMAIN calls : i \in DOMAIN calls' \/ i = Len(calls)
  <2>1. Len(calls) \in Nat \ {0} /\ DOMAIN calls = 1 .. Len(calls)
    BY <1>1, <1>2
  <2>2. \A i \in 1 .. Len(calls) - 1 : calls[i] \in Call
    BY <1>2
  <2>3. /\ Len(calls') = Len(calls) - 1 /\ calls' \in Seq(Call)
        /\ \A i \in 1 .. Len(calls) - 1 : calls'[i] = calls[i]
    BY <1>1, <2>1, <2>2, SubSeqProperties
  <2>4. DOMAIN calls' = 1 .. Len(calls) - 1
    BY <2>3
  <2> QED BY <2>1, <2>3, <2>4
<1> HIDE DEF top
<1>4. ResolvedOnce
  BY <1>1 DEF Precise
<1>5. top \in Active /\ Active' = Active \ {top}
  BY <1>2, <1>3, <1>4 DEF Active, ResolvedOnce
<1>6. top \notin ToSet(resolved) /\ IsInjective(resolved)
  BY <1>4, <1>5 DEF ResolvedOnce
<1>7. ToSet(resolved') = ToSet(resolved) \cup {top} /\ IsInjective(resolved')
  BY <1>1, <1>2, <1>6, AppendMembers
<1>8. ResolvedOnce'
  <2>1. \A i, j \in DOMAIN calls' : calls'[i].node = calls'[j].node => i = j
    BY <1>3, <1>4 DEF ResolvedOnce
  <2> QED BY <1>1, <1>4, <1>5, <1>7, <2>1 DEF ResolvedOnce
<1>9. RootsAreFree'
  <2>1. RootsAreFree /\ named' = named
    BY <1>1 DEF Precise, named
  <2>2. Active' \cup ToSet(resolved') = Active \cup ToSet(resolved)
    BY <1>5, <1>7
  <2> QED BY <1>1, <2>1, <2>2 DEF RootsAreFree
<1>10. EdgesAreDeclared' /\ Checked'
  BY <1>1 DEF Precise, EdgesAreDeclared, Checked, named
<1>11. CallsAtEdges'
  <2>1. ASSUME NEW i \in 1 .. Len(calls') - 1
        PROVE  i \in 1 .. Len(calls) - 1 /\ calls'[i] = calls[i]
    BY <1>1, <1>2, <1>3
  <2> QED BY <1>1, <2>1 DEF Precise, CallsAtEdges
<1> QED BY <1>1, <1>8, <1>9, <1>10, <1>11 DEF Precise

\* The filter starts only when as many configurations are resolved as requested.
LEMMA PreciseEndResolving == TypeOK /\ Inductive /\ Precise /\ EndResolving => Precise'
<1> SUFFICES ASSUME TypeOK, Inductive, Precise, EndResolving, pc' # "done" PROVE Precise'
  BY DEF Precise
<1>1. /\ UNCHANGED <<deps, action, modules, existing, edges, noDeps, calls, seen, resolved, kept>>
      /\ pc = "resolve" /\ pc' = "filter" /\ Len(resolved) = Len(modules)
  BY DEF EndResolving, inputs, Raise
<1>2. kept = <<>>
  BY <1>1 DEF Inductive, Phases
<1>3. KeepsOrder'
  BY <1>1, <1>2 DEF KeepsOrder
<1>4. ResolvedOnce' /\ CallsAtEdges' /\ RootsAreFree' /\ EdgesAreDeclared' /\ Checked'
  <2>1. Active' = Active /\ named' = named
    BY <1>1 DEF Active, named
  <2>2. ResolvedOnce' /\ CallsAtEdges' /\ EdgesAreDeclared' /\ Checked'
    BY <1>1, <2>1 DEF Precise, ResolvedOnce, CallsAtEdges, EdgesAreDeclared, Checked
  <2>3. RootsAreFree'
    BY <1>1, <2>1 DEF Precise, RootsAreFree
  <2> QED BY <2>2, <2>3
<1> QED BY <1>1, <1>3, <1>4 DEF Precise

\* What the filter keeps stands behind what it kept before, in both lists.
LEMMA PreciseFilter == TypeOK /\ Inductive /\ Precise /\ Filter => Precise'
<1> SUFFICES ASSUME TypeOK, Inductive, Precise, Filter PROVE Precise'
  OBVIOUS
<1> DEFINE c == resolved[at.config]
<1>1. /\ UNCHANGED <<deps, action, modules, existing, edges, noDeps, calls, seen, resolved>>
      /\ pc = "filter" /\ pc' = "filter" /\ at.config <= Len(resolved)
      /\ at'.config = at.config + 1
      /\ kept' = IF Applies(action, existing, c) THEN Append(kept, c) ELSE kept
  BY DEF Filter, inputs, Applies
<1>2. /\ resolved \in Seq(Configs) /\ kept \in Seq(Configs) /\ at.config \in Nat \ {0}
  BY DEF TypeOK, Place
<1>3. /\ DOMAIN resolved \subseteq Nat /\ at.config \in DOMAIN resolved /\ c \in Configs
      /\ DOMAIN kept = 1 .. Len(kept) /\ Len(kept) \in Nat
  BY <1>1, <1>2
<1>4. KeepsOrder
  BY <1>1 DEF Precise
<1>5. KeepsOrder'
  <2>1. CASE ~ Applies(action, existing, c)
    BY <1>1, <1>2, <1>3, <1>4, <2>1 DEF KeepsOrder, Applies
  <2>2. CASE Applies(action, existing, c)
    <3>1. /\ \A m \in DOMAIN kept : m \in DOMAIN kept' /\ kept'[m] = kept[m]
          /\ Len(kept) + 1 \in DOMAIN kept' /\ kept'[Len(kept) + 1] = c
          /\ \A m \in DOMAIN kept' : m \in DOMAIN kept \/ m = Len(kept) + 1
      <4>1. \A t : t = Append(kept, c) =>
                /\ \A m \in DOMAIN kept : m \in DOMAIN t /\ t[m] = kept[m]
                /\ Len(kept) + 1 \in DOMAIN t
                /\ t[Len(kept) + 1] = c
                /\ \A m \in DOMAIN t : m \in DOMAIN kept \/ m = Len(kept) + 1
        BY <1>2, <1>3, AppendIndexes
      <4> QED BY <1>1, <2>2, <4>1
    <3>2. ASSUME NEW i \in DOMAIN kept'
          PROVE  /\ Applies(action, existing, kept'[i])
                 /\ \E a \in DOMAIN resolved : resolved[a] = kept'[i] /\ a < at.config + 1
      <4>1. CASE i \in DOMAIN kept
        <5>1. PICK a \in DOMAIN resolved : resolved[a] = kept[i] /\ a < at.config
          BY <1>4, <4>1 DEF KeepsOrder
        <5>2. a < at.config + 1
          BY <1>2, <1>3, <5>1
        <5> QED BY <1>4, <3>1, <4>1, <5>1, <5>2 DEF KeepsOrder
      <4>2. CASE i = Len(kept) + 1
        BY <1>2, <1>3, <2>2, <3>1, <4>2
      <4> QED BY <3>1, <4>1, <4>2
    <3>3. ASSUME NEW i \in DOMAIN kept', NEW j \in DOMAIN kept', i < j
          PROVE  \E a, b \in DOMAIN resolved :
                    a < b /\ resolved[a] = kept'[i] /\ resolved[b] = kept'[j]
      <4>1. i \in DOMAIN kept
        BY <1>3, <3>1, <3>3
      <4>2. CASE j \in DOMAIN kept
        BY <1>4, <3>1, <3>3, <4>1, <4>2 DEF KeepsOrder
      <4>3. CASE j = Len(kept) + 1
        BY <1>3, <1>4, <3>1, <4>1, <4>3 DEF KeepsOrder
      <4> QED BY <3>1, <4>2, <4>3
    <3> QED BY <1>1, <3>2, <3>3 DEF KeepsOrder, Applies
  <2> QED BY <2>1, <2>2
<1>6. ResolvedOnce' /\ CallsAtEdges' /\ RootsAreFree' /\ EdgesAreDeclared' /\ Checked'
  <2>1. ResolvedOnce /\ CallsAtEdges /\ RootsAreFree /\ EdgesAreDeclared /\ Checked
    BY <1>1 DEF Precise
  <2>2. Active' = Active /\ named' = named
    BY <1>1 DEF Active, named
  <2>3. ResolvedOnce' /\ CallsAtEdges' /\ EdgesAreDeclared'
    BY <1>1, <2>1, <2>2 DEF ResolvedOnce, CallsAtEdges, EdgesAreDeclared
  <2>4. RootsAreFree'
    BY <1>1, <2>1, <2>2 DEF RootsAreFree
  <2>5. Checked'
    BY <1>1, <2>1, <2>2 DEF Checked
  <2> QED BY <2>3, <2>4, <2>5
<1> QED BY <1>1, <1>5, <1>6 DEF Precise

\* One lemma per phase, put together; after Return nothing is left to say.
LEMMA PreciseStep == TypeOK /\ Inductive /\ Precise /\ [Next]_vars => Precise'
<1> SUFFICES ASSUME TypeOK, Inductive, Precise, [Next]_vars PROVE Precise'
  OBVIOUS
<1>1. CASE UNCHANGED vars
  BY <1>1 DEF vars, inputs, Precise, ResolvedOnce, CallsAtEdges, RootsAreFree, EdgesAreDeclared,
              Checked, KeepsOrder, Active, named, Applies
<1>2. CASE Resolve
  <2>1. CASE FindCycle
    BY <2>1 DEF FindCycle, Raise, Precise
  <2> QED
    BY <1>2, <2>1, PreciseNextRoot, PreciseSkipResolved, PreciseDescend, PreciseFinish,
       PreciseEndResolving DEF Resolve
<1>3. CASE Return
  BY <1>3 DEF Return, Raise, Precise
<1> QED
  BY <1>1, <1>2, <1>3, PreciseScan, PreciseRead, PreciseFilter DEF Next

\* If everybody in a finite set is waited for by somebody in it, some of them all
\* wait for each other.
LEMMA Backwards ==
    ASSUME NEW G, NEW U, IsFiniteSet(U), U # {},
           \A c \in U : \E x \in U : c \in ToSet(G[x])
    PROVE  \E S \in SUBSET U : S # {} /\ \A c \in S : ToSet(G[c]) \cap S # {}
<1> DEFINE Fed == {V \in SUBSET U : V # {} /\ \A c \in V : \E x \in V : c \in ToSet(G[x])}
           R == StrictSubsetOrdering(U)
<1>1. U \in Fed
  OBVIOUS
<1>2. IsWellFoundedOn(R, SUBSET U)
  BY FS_FiniteSubsetsOfFinite, FS_StrictSubsetOrderingWellFounded
<1>3. Fed \subseteq SUBSET U /\ Fed # {}
  BY <1>1
<1> HIDE DEF R
<1>4. PICK V \in Fed : \A W \in Fed : <<W, V>> \notin R
  <2> HIDE DEF Fed
  <2> QED BY <1>2, <1>3, WFMin
<1>5. ASSUME NEW c \in V, ToSet(G[c]) \cap V = {} PROVE FALSE
  <2> DEFINE W == V \ {c}
  <2>1. PICK x \in V : c \in ToSet(G[x])
    OBVIOUS
  <2>2. x \in W
    BY <1>5, <2>1
  <2>3. \A d \in W : \E y \in W : d \in ToSet(G[y])
    BY <1>5
  <2>4. W \in Fed
    BY <2>2, <2>3
  <2>5. <<W, V>> \in R
    BY <2>4 DEF R, StrictSubsetOrdering
  <2> QED BY <1>4, <2>4, <2>5
<1> QED BY <1>5

\* A list that holds each member of a finite set once is an arrangement of it.
LEMMA Arranged ==
    ASSUME NEW S, NEW s \in Seq(S), IsInjective(s), ToSet(s) = S
    PROVE  IsFiniteSet(S) /\ Cardinality(S) = Len(s) /\ s \in SetToSeqs(S)
<1>1. PICK n \in Nat : n = Len(s)
  OBVIOUS
<1>2. s \in [1 .. n -> S]
  BY <1>1
<1>3. s \in Bijection(1 .. n, S)
  BY <1>2 DEF Bijection, Injection, Surjection, IsInjective, ToSet
<1>4. IsFiniteSet(1 .. n) /\ Cardinality(1 .. n) = n
  BY FS_Interval
<1>5. IsFiniteSet(S) /\ Cardinality(S) = n
  BY <1>3, <1>4, FS_Bijection DEF ExistsBijection
<1> QED BY <1>1, <1>2, <1>5 DEF SetToSeqs, IsInjective

\* And conversely.
LEMMA Arrangement ==
    ASSUME NEW S, IsFiniteSet(S), NEW s \in SetToSeqs(S)
    PROVE  ToSet(s) = S
<1>1. PICK n \in Nat : n = Cardinality(S)
  BY FS_CardinalityType
<1>2. /\ s \in [1 .. n -> S]
      /\ \A i, j \in 1 .. n : i # j => s[i] # s[j]
  BY <1>1 DEF SetToSeqs
<1>3. IsFiniteSet(1 .. n) /\ Cardinality(1 .. n) = n
  BY FS_Interval
<1>4. s \in Injection(1 .. n, S)
  BY <1>2 DEF Injection, IsInjective
<1>5. s \in Surjection(1 .. n, S)
  BY <1>1, <1>3, <1>4, FS_Injection
<1> QED BY <1>2, <1>5 DEF Surjection, ToSet

\* A request that names each configuration once is as long as it has members.
LEMMA RequestCounted ==
    ASSUME NamedOnce, TypeOK
    PROVE  IsFiniteSet(named) /\ Cardinality(named) = Len(modules)
<1>1. modules \in Seq(named) /\ IsInjective(modules)
  BY InputsTyped DEF NamedOnce, TypeOK, named, ToSet
<1> QED BY <1>1, Arranged DEF named

\* What is resolved was requested, and is counted by the length of the list.
LEMMA ResolvedCounted ==
    ASSUME TypeOK, Inductive, Precise, pc # "done"
    PROVE  /\ ToSet(resolved) \subseteq named
           /\ Cardinality(ToSet(resolved)) = Len(resolved)
<1>1. resolved \in Seq(ToSet(resolved)) /\ IsInjective(resolved)
  BY DEF Precise, ResolvedOnce, TypeOK, ToSet
<1>2. ToSet(resolved) \subseteq named
  BY DEF Inductive, NodesRequested, ToSet
<1> QED BY <1>1, <1>2, Arranged

\* What was left out of the traversal contains a cycle.
LEMMA LeftOutIsCyclic ==
    ASSUME NamedOnce, TypeOK, Inductive, Precise,
           pc = "resolve", calls = <<>>, noDeps = <<>>, Len(resolved) # Len(modules)
    PROVE  Cyclic(deps, named)
<1> DEFINE U == named \ ToSet(resolved)
<1>1. IsFiniteSet(named) /\ Cardinality(named) = Len(modules)
  BY RequestCounted
<1>2. ToSet(resolved) \subseteq named /\ Cardinality(ToSet(resolved)) = Len(resolved)
  BY ResolvedCounted
<1>3. U # {}
  <2>1. Cardinality(ToSet(resolved)) # Cardinality(named)
    BY <1>1, <1>2
  <2>2. ToSet(resolved) # named
    BY <2>1
  <2> QED BY <1>2, <2>2
<1>4. IsFiniteSet(U)
  BY <1>1, FS_Subset
<1>5. ASSUME NEW c \in U PROVE \E x \in U : c \in ToSet(edges[x])
  <2>1. ToSet(noDeps) = {} /\ Active = {}
    BY DEF ToSet, Active
  <2>2. PICK x \in named : c \in ToSet(edges[x])
    BY <2>1 DEF Precise, RootsAreFree
  <2>3. x \notin ToSet(resolved)
    <3> SUFFICES ASSUME NEW i \in DOMAIN resolved, x = resolved[i] PROVE FALSE
      BY DEF ToSet
    <3>1. PICK k \in DOMAIN edges[x] : edges[x][k] = c
      BY <2>2 DEF ToSet
    <3>2. PICK j \in 1 .. i - 1 : resolved[j] = c
      BY <3>1 DEF Inductive, ResolvedInOrder
    <3>3. j \in DOMAIN resolved
      BY DEF TypeOK
    <3> QED BY <3>2, <3>3 DEF ToSet
  <2> QED BY <2>2, <2>3
<1> HIDE DEF U
<1>6. PICK S \in SUBSET U : S # {} /\ \A c \in S : ToSet(edges[c]) \cap S # {}
  BY <1>3, <1>4, <1>5, Backwards
<1>7. S \subseteq named /\ named \subseteq Configs
  BY InputsTyped DEF U
<1>8. \A c \in S : ToSet(deps[c]) \cap S # {}
  BY <1>6, <1>7 DEF Precise, EdgesAreDeclared
<1> QED BY <1>6, <1>7, <1>8 DEF Cyclic

\* The calls from the one that reached the edge's target up to the innermost one
\* are a cycle.
LEMMA FoundIsCyclic ==
    ASSUME TypeOK, Inductive, Precise, FindCycle
    PROVE  Cyclic(deps, named)
<1>1. /\ pc = "resolve" /\ calls # <<>> /\ Top.next <= Len(edges[Top.node])
      /\ Edge \notin ToSet(resolved) /\ Edge \in seen
  BY DEF FindCycle, AtEdge
<1>2. PICK i \in DOMAIN calls : Edge = calls[i].node
  BY <1>1 DEF Inductive, ActiveCallsAreAChain
<1>3. PICK n \in Nat : n = Len(calls)
  BY DEF TypeOK
<1>4. DOMAIN calls = 1 .. n /\ i \in 1 .. n /\ \A j \in 1 .. n : calls[j].node \in named
  <2>1. DOMAIN calls = 1 .. n
    BY <1>3 DEF TypeOK
  <2>2. \A j \in DOMAIN calls : calls[j].node \in named
    BY DEF Inductive, NodesRequested
  <2> QED BY <2>1, <2>2
<1> DEFINE S == {calls[j].node : j \in i .. n}
<1>5. S \subseteq named /\ Edge \in S
  BY <1>2, <1>4
<1>6. ASSUME NEW j \in i .. n
      PROVE  ToSet(edges[calls[j].node]) \cap S # {}
  <2>1. CASE j = n
    <3>1. calls[j] = Top /\ edges[Top.node] \in Seq(Configs) /\ Top.next \in Nat \ {0}
      BY <1>1, <1>3, <2>1, TopIsCall DEF Top, Call, TypeOK
    <3>2. Top.next \in DOMAIN edges[Top.node]
      BY <1>1, <3>1
    <3>3. Edge \in ToSet(edges[Top.node])
      BY <3>2 DEF Edge, ToSet
    <3> QED BY <1>5, <3>1, <3>3
  <2>2. CASE j # n
    <3>1. j \in 1 .. n - 1 /\ j + 1 \in i .. n
      BY <1>4, <2>2
    <3>2. edges[calls[j].node][calls[j].next] = calls[j + 1].node
      BY <1>1, <1>3, <3>1 DEF Inductive, ActiveCallsAreAChain
    <3>3. calls[j].next \in DOMAIN edges[calls[j].node]
      BY <1>1, <1>3, <3>1 DEF Precise, CallsAtEdges
    <3>4. calls[j + 1].node \in ToSet(edges[calls[j].node])
      BY <3>2, <3>3 DEF ToSet
    <3> QED BY <3>1, <3>4
  <2> QED BY <2>1, <2>2
<1>7. \A c \in S : ToSet(edges[c]) \cap S # {}
  BY <1>6
<1> HIDE DEF S
<1>8. named \subseteq Configs
  BY InputsTyped
<1>9. \A c \in S : ToSet(deps[c]) \cap S # {}
  BY <1>1, <1>5, <1>7, <1>8 DEF Precise, EdgesAreDeclared
<1> QED BY <1>5, <1>9 DEF Cyclic

\* No dependency is missing once all have been read.
LEMMA NothingMissing ==
    ASSUME TypeOK, Inductive, pc \in {"resolve", "filter"}
    PROVE  ~ Missing(deps, action, named, existing)
<1> SUFFICES ASSUME NEW c \in named, NEW d \in ToSet(deps[c]),
                    existing[d] = Absent,
                    IF d \in named THEN action \notin {"create", "delete"}
                                   ELSE action = "create"
             PROVE  FALSE
  BY DEF Missing
<1>1. PICK i \in DOMAIN modules : c = modules[i]
  BY DEF named, ToSet
<1>2. PICK k \in DOMAIN deps[c] : d = deps[c][k]
  BY DEF ToSet
<1>3. WasAccepted(i, k)
  BY <1>1, <1>2 DEF Inductive, DepsRead, WasRead
<1> QED BY <1>1, <1>2, <1>3 DEF WasAccepted, IsMissing

\* The filter starts with everything requested resolved, nothing missing, and every
\* dependency within the request among the edges.
LEMMA FilterHasItAll ==
    ASSUME NamedOnce, TypeOK, Inductive, Precise, pc = "filter"
    PROVE  /\ ToSet(resolved) = named
           /\ ~ Problems(action, named, existing)
           /\ ~ Missing(deps, action, named, existing)
           /\ \A c \in named : ToSet(deps[c]) \cap named \subseteq ToSet(edges[c])
<1>1. IsFiniteSet(named) /\ Cardinality(named) = Len(modules)
  BY RequestCounted
<1>2. ToSet(resolved) \subseteq named /\ Cardinality(ToSet(resolved)) = Len(resolved)
  BY ResolvedCounted
<1>3. Len(resolved) = Len(modules) /\ ~ Problems(action, named, existing)
  BY DEF Precise, Checked
<1>4. ToSet(resolved) = named
  BY <1>1, <1>2, <1>3, FS_Subset
<1>5. ASSUME NEW c \in named, NEW d \in ToSet(deps[c]) \cap named
      PROVE  d \in ToSet(edges[c])
  <2>1. PICK i \in DOMAIN modules : c = modules[i]
    BY DEF named, ToSet
  <2>2. PICK k \in DOMAIN deps[c] : d = deps[c][k]
    BY DEF ToSet
  <2>3. WasAccepted(i, k)
    BY <2>1, <2>2 DEF Inductive, DepsRead, WasRead
  <2> QED BY <2>1, <2>2, <2>3 DEF WasAccepted, ToSet
<1> QED BY <1>3, <1>4, <1>5, NothingMissing

\* Each of a set of requested configurations was resolved; the first of them
\* waits for none of the others.
LEMMA FilterIsAcyclic ==
    ASSUME NamedOnce, TypeOK, Inductive, Precise, pc = "filter"
    PROVE  ~ Cyclic(deps, named)
<1> SUFFICES ASSUME NEW S \in SUBSET named, S # {},
                    \A c \in S : ToSet(deps[c]) \cap S # {}
             PROVE  FALSE
  BY DEF Cyclic
<1> DEFINE I == {i \in DOMAIN resolved : resolved[i] \in S}
<1>1. /\ ToSet(resolved) = named
      /\ \A c \in named : ToSet(deps[c]) \cap named \subseteq ToSet(edges[c])
  BY FilterHasItAll
<1>2. DOMAIN resolved \subseteq Nat
  BY DEF TypeOK
<1>3. I \subseteq Nat /\ I # {}
  BY <1>1, <1>2 DEF ToSet
<1>4. PICK i \in I : \A j \in I : <<j, i>> \notin OpToRel(<, Nat)
  <2> HIDE DEF I
  <2> QED BY <1>3, NatLessThanWellFounded, WFMin
<1>5. \A j \in I : ~ (j < i)
  BY <1>3, <1>4 DEF OpToRel
<1>6. PICK d \in S : d \in ToSet(deps[resolved[i]])
  OBVIOUS
<1>7. d \in ToSet(edges[resolved[i]])
  BY <1>1, <1>6
<1>8. PICK k \in DOMAIN edges[resolved[i]] : edges[resolved[i]][k] = d
  BY <1>7 DEF ToSet
<1>9. PICK j \in 1 .. i - 1 : resolved[j] = d
  BY <1>8 DEF Inductive, ResolvedInOrder
<1>10. j \in DOMAIN resolved /\ j < i
  <2>1. resolved \in Seq(Configs) /\ i \in DOMAIN resolved
    BY DEF TypeOK
  <2> QED BY <2>1
<1> QED BY <1>5, <1>9, <1>10

\* What a resolved configuration waits for, directly or not, was resolved before it.
LEMMA WaitsForEarlier ==
    ASSUME NamedOnce, TypeOK, Inductive, Precise, pc = "filter",
           NEW a \in DOMAIN resolved, NEW d, WaitsFor(deps, named, resolved[a], d)
    PROVE  \E b \in DOMAIN resolved : b < a /\ resolved[b] = d
<1> DEFINE S == {resolved[b] : b \in 1 .. a - 1}
<1>1. /\ ToSet(resolved) = named
      /\ \A c \in named : ToSet(deps[c]) \cap named \subseteq ToSet(edges[c])
  BY FilterHasItAll
<1>2. /\ a \in Nat /\ \A b \in 1 .. a - 1 : b \in DOMAIN resolved /\ b < a
  BY DEF TypeOK
<1>3. S \in SUBSET named
  BY <1>1, <1>2 DEF ToSet
<1>4. ASSUME NEW b \in DOMAIN resolved, b <= a
      PROVE  ToSet(deps[resolved[b]]) \cap named \subseteq S
  <2> SUFFICES ASSUME NEW x \in ToSet(deps[resolved[b]]) \cap named PROVE x \in S
    OBVIOUS
  <2>1. resolved[b] \in named
    BY <1>1 DEF ToSet
  <2>2. PICK k \in DOMAIN edges[resolved[b]] : edges[resolved[b]][k] = x
    BY <1>1, <2>1 DEF ToSet
  <2>3. PICK j \in 1 .. b - 1 : resolved[j] = x
    BY <2>2 DEF Inductive, ResolvedInOrder
  <2>4. j \in 1 .. a - 1
    BY <1>4, <1>2 DEF TypeOK
  <2> QED BY <2>3, <2>4
<1>5. ToSet(deps[resolved[a]]) \cap named \subseteq S
  BY <1>2, <1>4
<1>6. \A x \in S : ToSet(deps[x]) \cap named \subseteq S
  BY <1>2, <1>4
<1>7. d \in S
  BY <1>3, <1>5, <1>6 DEF WaitsFor
<1> QED BY <1>2, <1>7

\* So the list that is kept is one of the promised orders.
LEMMA KeptIsAnOrder ==
    ASSUME NamedOnce, TypeOK, Inductive, Precise, pc = "filter", at.config > Len(resolved)
    PROVE  kept \in OrdersForward(deps, action, named, existing)
<1> DEFINE todo == ToDo(action, named, existing)
<1>1. KeepsOrder /\ KeptInOrder /\ IsInjective(resolved) /\ ToSet(resolved) = named
  BY FilterHasItAll DEF Precise, Inductive, ResolvedOnce
<1>2. kept \in Seq(Configs) /\ resolved \in Seq(Configs) /\ at.config \in Nat
  BY DEF TypeOK, Place
<1>3. \A i \in DOMAIN kept : kept[i] \in named
  BY DEF Inductive, NodesRequested
<1>4. \A i \in DOMAIN kept : kept[i] \in todo
  BY <1>1, <1>3 DEF KeepsOrder, ToDo
<1>5. ASSUME NEW c \in todo PROVE \E i \in DOMAIN kept : kept[i] = c
  <2>1. c \in named /\ Applies(action, existing, c)
    BY DEF ToDo
  <2>2. PICK a \in DOMAIN resolved : resolved[a] = c
    BY <1>1, <2>1 DEF ToSet
  <2>3. a < at.config
    BY <1>2
  <2> QED BY <1>1, <2>1, <2>2, <2>3 DEF KeptInOrder
<1> HIDE DEF todo
<1>6. kept \in Seq(todo) /\ ToSet(kept) = todo
  BY <1>2, <1>4, <1>5 DEF ToSet
<1>7. DOMAIN kept \subseteq Nat /\ DOMAIN resolved \subseteq Nat
  BY <1>2
<1>8. IsInjective(kept)
  <2> SUFFICES ASSUME NEW i \in DOMAIN kept, NEW j \in DOMAIN kept, kept[i] = kept[j], i # j
               PROVE  FALSE
    BY DEF IsInjective
  <2>1. \A x, y \in DOMAIN kept : x < y => kept[x] # kept[y]
    BY <1>1, <1>7 DEF KeepsOrder, IsInjective
  <2>2. i < j \/ j < i
    BY <1>7
  <2> QED BY <2>1, <2>2
<1>9. kept \in SetToSeqs(todo)
  BY <1>6, <1>8, Arranged
<1>10. ASSUME NEW i \in DOMAIN kept, NEW j \in DOMAIN kept,
              WaitsFor(deps, named, kept[i], kept[j])
       PROVE  j < i
  <2>1. PICK a \in DOMAIN resolved : resolved[a] = kept[i]
    BY <1>1 DEF KeepsOrder
  <2>2. PICK b \in DOMAIN resolved : b < a /\ resolved[b] = kept[j]
    BY <1>10, <2>1, WaitsForEarlier
  <2>3. i # j
    BY <1>1, <1>7, <2>1, <2>2 DEF IsInjective
  <2>4. ~ (i < j)
    <3> SUFFICES ASSUME i < j PROVE FALSE
      OBVIOUS
    <3>1. PICK x, y \in DOMAIN resolved : x < y /\ resolved[x] = kept[i] /\ resolved[y] = kept[j]
      BY <1>1 DEF KeepsOrder
    <3>2. x = a /\ y = b
      BY <1>1, <2>1, <2>2, <3>1 DEF IsInjective
    <3> QED BY <1>7, <2>2, <3>1, <3>2
  <2> QED BY <1>7, <2>3, <2>4
<1> QED BY <1>9, <1>10 DEF OrdersForward, todo

\* Turned around it is one of the promised orders for a deletion.
LEMMA ReverseIsAnOrder ==
    ASSUME NEW graph, NEW act, NEW request, NEW view, IsFiniteSet(request),
           NEW s \in OrdersForward(graph, act, request, view)
    PROVE  (IF act = "delete" THEN Reverse(s) ELSE s) \in Orders(graph, act, request, view)
<1> DEFINE todo == ToDo(act, request, view)
<1>1. /\ s \in SetToSeqs(todo)
      /\ \A i, j \in DOMAIN s : WaitsFor(graph, request, s[i], s[j]) => j < i
  BY DEF OrdersForward
<1>2. CASE act # "delete"
  BY <1>1, <1>2 DEF Orders
<1>3. CASE act = "delete"
  <2>1. IsFiniteSet(todo)
    BY FS_Subset DEF ToDo
  <2>2. PICK n \in Nat : n = Cardinality(todo)
    BY <2>1, FS_CardinalityType
  <2> HIDE DEF todo
  <2>3. s \in [1 .. n -> todo] /\ \A i, j \in 1 .. n : i # j => s[i] # s[j]
    BY <1>1, <2>2 DEF SetToSeqs
  <2>4. Len(s) = n
    BY <2>3
  <2>5. PICK t : t = Reverse(s)
    OBVIOUS
  <2>6. t = [i \in 1 .. n |-> s[(n - i) + 1]]
    BY <2>4, <2>5 DEF Reverse
  <2>7. \A i \in 1 .. n : (n - i) + 1 \in 1 .. n
    OBVIOUS
  <2>8. t \in [1 .. n -> todo] /\ \A i \in 1 .. n : t[i] = s[(n - i) + 1]
    BY ONLY <2>3, <2>6, <2>7
  <2>9. ASSUME NEW i \in 1 .. n, NEW j \in 1 .. n, i # j PROVE t[i] # t[j]
    <3>1. (n - i) + 1 # (n - j) + 1
      BY ONLY <2>9, n \in Nat, i \in 1 .. n, j \in 1 .. n
    <3> QED BY ONLY <2>3, <2>7, <2>8, <3>1, i \in 1 .. n, j \in 1 .. n
  <2>10. t \in SetToSeqs(todo)
    BY <2>2, <2>8, <2>9 DEF SetToSeqs
  <2>11. ASSUME NEW i \in 1 .. n, NEW j \in 1 .. n, WaitsFor(graph, request, t[i], t[j])
         PROVE  i < j
    <3>1. WaitsFor(graph, request, s[(n - i) + 1], s[(n - j) + 1])
      BY <2>8, <2>11
    <3>2. (n - j) + 1 < (n - i) + 1
      BY <1>1, <2>3, <2>7, <3>1
    <3> QED BY ONLY <3>2, n \in Nat, i \in 1 .. n, j \in 1 .. n
  <2>12. DOMAIN t = 1 .. n
    BY ONLY <2>8
  <2>13. t \in Orders(graph, act, request, view)
    BY <1>3, <2>10, <2>11, <2>12 DEF Orders, todo
  <2> QED BY <1>3, <2>5, <2>13
<1> QED BY <1>2, <1>3

\* The answers the rules allow, case by case.
LEMMA AnswersFromRules ==
    ASSUME NEW graph, NEW act, NEW request, NEW view
    PROVE  /\ Problems(act, request, view) =>
                  Answers(graph, act, request, view) = {Refuse("problems")}
           /\ (~ Problems(act, request, view) /\ Missing(graph, act, request, view)) =>
                  Answers(graph, act, request, view) = {Refuse("missing")}
           /\ (/\ ~ Problems(act, request, view) /\ ~ Missing(graph, act, request, view)
               /\ Cyclic(graph, request)) =>
                  Answers(graph, act, request, view) = {Refuse("circular")}
           /\ (/\ ~ Problems(act, request, view) /\ ~ Missing(graph, act, request, view)
               /\ ~ Cyclic(graph, request)) =>
                  Answers(graph, act, request, view) =
                      [kind : {"ok"}, order : Orders(graph, act, request, view)]
BY DEF Answers

\* The scan refuses what the rules call a problem.
LEMMA ScanAnswers ==
    ASSUME TypeOK, ScanExisting, Raise("problems")
    PROVE  outcome' \in Answers(deps, action, named, existing)
<1>1. \E c \in Configs : MustStop(c)
  BY DEF ScanExisting, Raise
<1>2. Problems(action, named, existing)
  BY <1>1 DEF Problems, MustStop
<1> QED BY <1>2, AnswersFromRules DEF Raise

\* A dependency found missing is missing.
LEMMA MissingAnswers ==
    ASSUME TypeOK, Precise, MissingDependency
    PROVE  outcome' \in Answers(deps, action, named, existing)
<1>1. ~ Problems(action, named, existing)
  BY DEF MissingDependency, AtDependency, Precise, Checked
<1>2. Config \in named /\ Dependency \in ToSet(deps[Config])
  <2>1. /\ modules \in Seq(Configs) /\ deps \in [Configs -> Seq(Configs)] /\ at \in Place
        /\ at.config <= Len(modules) /\ at.dep <= Len(deps[Config])
    BY InputsTyped DEF MissingDependency, AtDependency, TypeOK, Config
  <2>2. at.config \in DOMAIN modules /\ Config \in Configs
    BY <2>1 DEF Place, Config
  <2>3. at.dep \in DOMAIN deps[Config]
    BY <2>1, <2>2 DEF Place
  <2> QED BY <2>2, <2>3 DEF Config, Dependency, named, ToSet
<1>3. Missing(deps, action, named, existing)
  BY <1>2 DEF Missing, MissingDependency, IsMissing
<1> QED BY <1>1, <1>3, AnswersFromRules DEF MissingDependency, Raise

\* A cycle that is reported, from inside the traversal or after it, is one.
LEMMA CircularAnswers ==
    ASSUME NamedOnce, TypeOK, Inductive, Precise,
           FindCycle \/ (EndResolving /\ Raise("circular"))
    PROVE  outcome' \in Answers(deps, action, named, existing)
<1>1. pc = "resolve" /\ outcome' = Refuse("circular")
  BY DEF FindCycle, AtEdge, EndResolving, Raise
<1>2. ~ Problems(action, named, existing) /\ ~ Missing(deps, action, named, existing)
  BY <1>1, NothingMissing DEF Precise, Checked
<1>3. Cyclic(deps, named)
  <2>1. CASE FindCycle
    BY <2>1, FoundIsCyclic
  <2>2. CASE EndResolving /\ Raise("circular")
    <3>1. calls = <<>> /\ noDeps = <<>> /\ Len(resolved) # Len(modules)
      BY <2>2 DEF EndResolving, Raise
    <3> QED BY <1>1, <3>1, LeftOutIsCyclic
  <2> QED BY <2>1, <2>2
<1> QED BY <1>1, <1>2, <1>3, AnswersFromRules

\* A list that is returned is one of the promised orders, and the last refusal of
\* the function, for a target that is busy after all, cannot happen any more.
LEMMA ReturnAnswers ==
    ASSUME NamedOnce, TypeOK, Inductive, Precise, Return
    PROVE  outcome' \in Answers(deps, action, named, existing)
<1>1. pc = "filter" /\ at.config > Len(resolved)
  BY DEF Return
<1>2. /\ ~ Problems(action, named, existing) /\ ~ Missing(deps, action, named, existing)
      /\ ~ Cyclic(deps, named)
  BY <1>1, FilterHasItAll, FilterIsAcyclic
<1>3. Reordered \in Orders(deps, action, named, existing)
  BY <1>1, KeptIsAnOrder, RequestCounted, ReverseIsAnOrder DEF Reordered
<1>4. \A c \in ToSet(Reordered) : existing[c] \notin InProgress
  <2>1. ToSet(Reordered) \subseteq Configs
    <3>1. Reordered \in SetToSeqs(ToDo(action, named, existing))
      BY <1>3 DEF Orders
    <3>2. IsFiniteSet(ToDo(action, named, existing))
      BY RequestCounted, FS_Subset DEF ToDo
    <3>3. ToSet(Reordered) = ToDo(action, named, existing)
      BY <3>1, <3>2, Arrangement
    <3> QED BY <3>3, InputsTyped DEF ToDo
  <2> QED BY <1>2, <2>1 DEF Problems
<1>5. outcome' = [kind |-> "ok", order |-> Reordered]
  BY <1>4 DEF Return
<1>6. Answers(deps, action, named, existing) =
          [kind : {"ok"}, order : Orders(deps, action, named, existing)]
  BY <1>2, AnswersFromRules
<1> QED BY <1>3, <1>5, <1>6

\* Every step is one of the promised answers, or changes neither the inputs nor the
\* outcome.
LEMMA StepAnswers ==
    ASSUME NamedOnce, TypeOK, Inductive, Precise, [Next]_vars
    PROVE  [Answer]_<<inputs, outcome>>
<1>1. CASE UNCHANGED <<inputs, outcome>>
  BY <1>1
<1>2. ASSUME ~ UNCHANGED <<inputs, outcome>>
      PROVE  /\ UNCHANGED inputs /\ outcome = Pending
             /\ outcome' \in Answers(deps, action, named, existing)
  <2>1. CASE ScanExisting /\ Raise("problems")
    BY <2>1, ScanAnswers DEF ScanExisting, Inductive, Phases
  <2>2. CASE MissingDependency
    BY <2>2, MissingAnswers DEF MissingDependency, AtDependency, Inductive, Phases
  <2>3. CASE FindCycle \/ (EndResolving /\ Raise("circular"))
    BY <2>3, CircularAnswers DEF FindCycle, AtEdge, EndResolving, Inductive, Phases
  <2>4. CASE Return
    BY <2>4, ReturnAnswers DEF Return, Inductive, Phases
  <2>5. Next
    BY <1>2 DEF vars
  <2>6. ~ (OutsideDependency \/ AddEdge \/ NextConfig \/ StartResolving
             \/ NextRoot \/ SkipResolved \/ Descend \/ Finish \/ Filter)
    BY <1>2 DEF OutsideDependency, AddEdge, NextConfig, StartResolving, NextRoot,
                SkipResolved, Descend, Finish, Filter
  <2>7. CASE ScanExisting /\ ~ Raise("problems")
    BY <1>2, <2>7 DEF ScanExisting
  <2>8. CASE EndResolving /\ ~ Raise("circular")
    BY <1>2, <2>8 DEF EndResolving
  <2> QED
    BY <2>1, <2>2, <2>3, <2>4, <2>5, <2>6, <2>7, <2>8 DEF Next, ReadDependencies, Resolve
<1> QED BY <1>1, <1>2 DEF Answer, named

\* Precise holds in every reachable state when no request repeats a configuration.
THEOREM PreciseInvariant ==
    ASSUME NamedOnce
    PROVE  GraphSpec => []Precise
<1> QED BY PreciseStart, PreciseStep, TypeCorrect, InductiveInvariant, PTL DEF GraphSpec

\* build_dependency_graph implements LaunchOrder: one step of the abstract
\* specification gives the answer, every other step is one of no change.  That it
\* does answer, the rest of Spec, is a liveness property and left to the runs.
THEOREM Implements ==
    ASSUME NamedOnce
    PROVE  GraphSpec => Safe
<1>1. Start => Init
  BY DEF Start
<1>2. TypeOK /\ Inductive /\ Precise /\ [Next]_vars => [Answer]_<<inputs, outcome>>
  BY StepAnswers
<1> QED
  BY <1>1, <1>2, TypeCorrect, InductiveInvariant, PreciseInvariant, PTL DEF GraphSpec, Safe

\* Whatever has been answered is what the rules allow: no refusal without its reason,
\* no list that leaves a stack out, repeats one or turns an order around.
THEOREM AnswersAreRight ==
    ASSUME NamedOnce
    PROVE  GraphSpec => []Answered
<1>1. Start => Answered
  BY DEF Start, Init, Answered
<1>2. Answered /\ [Answer]_<<inputs, outcome>> => Answered'
  BY DEF Answered, Answer, inputs, named
<1> QED BY <1>1, <1>2, Implements, PTL DEF GraphSpec, Safe

\* "create all" and "delete all" are never refused on the stacks an interruption
\* left, if none is busy or failed, and act on exactly those left to act on.
THEOREM AllIsResumed ==
    ASSUME NamedOnce
    PROVE  GraphSpec => []AllCanBeResumed
<1>1. TypeOK /\ Answered => AllCanBeResumed
  <2> SUFFICES ASSUME TypeOK, Answered, outcome # Pending, named = Configs,
                      ~ Cyclic(deps, named), action \in {"create", "delete"},
                      \A c \in Configs : existing[c] \in Settled \cup {Absent}
               PROVE  /\ outcome.kind = "ok"
                      /\ ToSet(outcome.order) = ToDo(action, named, existing)
    BY DEF AllCanBeResumed
  <2>1. ~ Problems(action, named, existing)
    BY DEF Problems, Settled, InProgress, Failed, Absent
  <2>2. ~ Missing(deps, action, named, existing)
    <3>1. \A c \in Configs : \A d \in ToSet(deps[c]) : d \in Configs
      BY InputsTyped DEF ToSet
    <3> QED BY <3>1 DEF Missing
  <2>3. outcome \in [kind : {"ok"}, order : Orders(deps, action, named, existing)]
    <3>1. Answers(deps, action, named, existing) =
              [kind : {"ok"}, order : Orders(deps, action, named, existing)]
      BY ONLY <2>1, <2>2, ~ Cyclic(deps, named), AnswersFromRules
    <3> QED BY <3>1 DEF Answered
  <2>4. outcome.kind = "ok" /\ outcome.order \in SetToSeqs(ToDo(action, named, existing))
    BY <2>3 DEF Orders
  <2>5. IsFiniteSet(ToDo(action, named, existing))
    BY RequestCounted, FS_Subset DEF ToDo
  <2> QED BY <2>4, <2>5, Arrangement
<1> QED BY <1>1, TypeCorrect, AnswersAreRight, PTL

================================================================================
