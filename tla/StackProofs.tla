------------------------------ MODULE StackProofs ------------------------------
(***************************************************************************)
(* The stacks of a bosslet.                                                *)
(*                                                                         *)
(* StackLifecycle: what a run of bin/cloudformation.py relies on, for      *)
(* every set of configurations, dependencies, requests and commands: the   *)
(* types for any number of operators; that launches and deletions respect  *)
(* dependencies and that success is real for one operator, the only case   *)
(* in which the list of stacks that was read at the start stays true to    *)
(* the end.                                                                *)
(*                                                                         *)
(* Templates: what the stacks own, for any availability zones and however  *)
(* often commands fail: every name is known to names.py and belongs to one *)
(* configuration, buckets are never lost and never created twice, and no   *)
(* command touches the stack of another configuration.                     *)
(***************************************************************************)
EXTENDS StackLifecycle, Templates, SequenceTheorems, FiniteSetTheorems,
        WellFoundedInduction, TLAPS

\* One person (or machine) works on the bosslet.
Alone == \A o, p \in Operators : o = p

\* Where the program counter can be in which command; a run has no result
\* before it ends.
InPlace(r) ==
    /\ r.pc # "idle" => r.result = "none"
    /\ r.pc = "post_init" => r.command = "create"
    /\ r.pc = "cleanup" => r.command = "update"

\* Of a creation: what a stack of the queue depends on is settled already or
\* comes before it in the queue.
CreatesInOrder(r, listed) ==
    r.command = "create" =>
        \A i \in DOMAIN r.queue : \A d \in ToSet(Deps[r.queue[i]]) :
            listed[d] \in Settled \/ \E j \in 1 .. i - 1 : r.queue[j] = d

\* Of a deletion: what was requested and depends on a stack of the queue is
\* gone already or comes before it in the queue.
DeletesInOrder(r, listed) ==
    r.command = "delete" =>
        \A i \in DOMAIN r.queue : \A c \in r.requested :
            DependsOn(c, r.queue[i]) =>
                listed[c] = Absent \/ \E j \in 1 .. i - 1 : r.queue[j] = c

\* Of a creation that has not failed: what it launched and has left behind is
\* complete and initialised, and the stack in post_init is complete.
LaunchesAreReal(r, listed, initialised) ==
    r.command = "create" =>
        /\ r.pc = "post_init" => listed[Head(r.queue)] = "CREATE_COMPLETE"
        /\ r.result # "failed" =>
              \A c \in r.launched \ ToSet(r.queue) :
                  listed[c] = "CREATE_COMPLETE" /\ initialised[c]

Knows(r, listed, initialised) ==
    /\ InPlace(r) /\ CreatesInOrder(r, listed) /\ DeletesInOrder(r, listed)
    /\ LaunchesAreReal(r, listed, initialised)

IInv == TypeOK /\ \A o \in Operators : Knows(run[o], status, ready)

-------------------------------------------------------------------------------
(***************************************************************************)
(* The rules of LaunchRules                                                *)
(***************************************************************************)
\* An arrangement of a finite set lists each of its members once.
LEMMA Arrangement ==
    ASSUME NEW S, IsFiniteSet(S), NEW s \in SetToSeqs(S)
    PROVE  /\ s \in Seq(S) /\ ToSet(s) = S
           /\ \A i, j \in DOMAIN s : i # j => s[i] # s[j]
<1> DEFINE n == Cardinality(S)
<1>1. n \in Nat
  BY FS_CardinalityType
<1>2. /\ s \in [1 .. n -> S]
      /\ \A i, j \in 1 .. n : i # j => s[i] # s[j]
  BY DEF SetToSeqs
<1>3. IsFiniteSet(1 .. n) /\ Cardinality(1 .. n) = n
  BY <1>1, FS_Interval
<1> HIDE DEF n
<1>4. s \in Injection(1 .. n, S)
  BY <1>2 DEF Injection, IsInjective
<1>5. s \in Surjection(1 .. n, S)
  BY <1>3, <1>4, FS_Injection DEF n
<1>6. ToSet(s) = S
  BY <1>2, <1>5 DEF Surjection, ToSet
<1> QED BY <1>1, <1>2, <1>6

\* The configurations of a request are finitely many.
LEMMA RequestIsFinite ==
    ASSUME NEW request \in Seq(Configs)
    PROVE  IsFiniteSet(ToSet(request)) /\ ToSet(request) \subseteq Configs
<1> DEFINE n == Len(request)
<1>1. n \in Nat /\ DOMAIN request = 1 .. n /\ \A i \in 1 .. n : request[i] \in Configs
  OBVIOUS
<1>2. IsFiniteSet(1 .. n)
  BY <1>1, FS_Interval
<1> HIDE DEF n
<1>3. request \in Surjection(1 .. n, ToSet(request))
  BY <1>1 DEF Surjection, ToSet
<1> QED BY <1>1, <1>2, <1>3, FS_Surjection DEF ToSet

\* A configuration waits for the requested ones among its dependencies.
LEMMA WaitsForDependencies ==
    \A graph, named, c : \A d \in ToSet(graph[c]) \cap named : WaitsFor(graph, named, c, d)
BY DEF WaitsFor

\* An accepted command: the stacks of its list were requested, and what the list
\* starts from is as CreatesInOrder or DeletesInOrder say.
LEMMA AnswerIsInOrder ==
    ASSUME NEW command \in Action, NEW request \in Seq(Configs),
           status \in [Configs -> StackView],
           NEW answer \in Answers(Deps, command, ToSet(request), status)
    PROVE  /\ answer.order \in Seq(Configs)
           /\ ToSet(answer.order) \subseteq ToSet(request)
           /\ answer.kind # "ok" => answer.order = <<>>
           /\ (answer.kind = "ok" /\ command = "create") =>
                \A i \in DOMAIN answer.order : \A d \in ToSet(Deps[answer.order[i]]) :
                    status[d] \in Settled \/ \E j \in 1 .. i - 1 : answer.order[j] = d
           /\ (answer.kind = "ok" /\ command = "delete") =>
                \A i \in DOMAIN answer.order : \A c \in ToSet(request) :
                    DependsOn(c, answer.order[i]) =>
                        status[c] = Absent \/ \E j \in 1 .. i - 1 : answer.order[j] = c
<1> DEFINE named == ToSet(request)
           todo == ToDo(command, named, status)
           order == answer.order
<1>1. IsFiniteSet(named) /\ named \subseteq Configs
  BY RequestIsFinite
<1>2. CASE answer.kind # "ok"
  <2>1. answer \in {Refuse("problems"), Refuse("missing"), Refuse("circular")}
    BY <1>2 DEF Answers
  <2>2. order = <<>>
    BY <2>1 DEF Refuse
  <2>3. ToSet(<<>>) = {} /\ <<>> \in Seq(Configs)
    BY DEF ToSet
  <2> QED BY <1>2, <2>2, <2>3
<1>3. CASE answer.kind = "ok"
  <2>1. /\ ~ Problems(command, named, status) /\ ~ Missing(Deps, command, named, status)
        /\ order \in Orders(Deps, command, named, status)
    BY <1>3 DEF Answers, Refuse
  <2>2. IsFiniteSet(todo) /\ todo \subseteq named
    BY <1>1, FS_Subset DEF ToDo
  <2>3. order \in SetToSeqs(todo)
    BY <2>1 DEF Orders
  <2>4. order \in Seq(todo) /\ ToSet(order) = todo
    BY <2>2, <2>3, Arrangement
  <2>5. \A i, j \in DOMAIN order : WaitsFor(Deps, named, order[i], order[j]) =>
            IF command = "delete" THEN i < j ELSE j < i
    BY <2>1 DEF Orders
  <2> HIDE DEF order, todo, named
  <2>6. order \in Seq(Configs) /\ ToSet(order) \subseteq named
    BY <1>1, <2>2, <2>4
  <2>7. /\ DOMAIN order = 1 .. Len(order) /\ Len(order) \in Nat
        /\ \A i \in DOMAIN order : order[i] \in todo
        /\ \A c \in todo : \E j \in DOMAIN order : order[j] = c
    BY <2>4 DEF ToSet
  <2>8. ASSUME command = "create", NEW i \in DOMAIN order, NEW d \in ToSet(Deps[order[i]])
        PROVE  status[d] \in Settled \/ \E j \in 1 .. i - 1 : order[j] = d
    <3>1. order[i] \in named /\ order[i] \in Configs /\ Deps[order[i]] \in Seq(Configs)
      BY <1>1, <2>2, <2>7, LifecycleConstants
    <3>2. d \in Configs
      BY <3>1 DEF ToSet
    <3>3. CASE status[d] # Absent
      BY <2>1, <2>8, <3>2, <3>3 DEF Problems, StackView, Status
    <3>4. CASE status[d] = Absent
      <4>1. d \in named
        BY <2>1, <2>8, <3>1, <3>4 DEF Missing
      <4>2. d \in todo
        BY <2>8, <3>4, <4>1 DEF todo, ToDo, Applies
      <4>3. PICK j \in DOMAIN order : order[j] = d
        BY <2>7, <4>2
      <4>4. WaitsFor(Deps, named, order[i], order[j])
        BY <4>1, <4>3, WaitsForDependencies
      <4>5. j < i
        BY <2>5, <2>8, <4>4
      <4> QED BY <2>7, <4>3, <4>5
    <3> QED BY <3>3, <3>4
  <2>9. ASSUME command = "delete", NEW i \in DOMAIN order, NEW c \in named,
               DependsOn(c, order[i])
        PROVE  status[c] = Absent \/ \E j \in 1 .. i - 1 : order[j] = c
    <3>1. order[i] \in named
      BY <2>2, <2>7
    <3>2. CASE c \notin todo
      BY <2>9, <3>2 DEF todo, ToDo, Applies
    <3>3. CASE c \in todo
      <4>1. PICK j \in DOMAIN order : order[j] = c
        BY <2>7, <3>3
      <4>2. WaitsFor(Deps, named, order[j], order[i])
        BY <2>9, <3>1, <4>1, WaitsForDependencies DEF DependsOn
      <4>3. j < i
        BY <2>5, <2>9, <4>2
      <4> QED BY <2>7, <4>1, <4>3
    <3> QED BY <3>2, <3>3
  <2> QED BY <1>3, <2>6, <2>8, <2>9 DEF order, named
<1> QED BY <1>2, <1>3

-------------------------------------------------------------------------------
(***************************************************************************)
(* Types                                                                   *)
(***************************************************************************)
\* What TypeOK says of one run.
RunOK(r) ==
    /\ r \in Run
    /\ ToSet(r.queue) \cup r.launched \subseteq r.requested
    /\ r.pc \in {"polling", "cleanup", "post_init"} => r.queue # <<>>
    /\ r.pc = "idle" => r.queue = <<>>

\* The runs of an operator are as TypeOK says when they were and the one that
\* changes is.
LEMMA RunsOK ==
    ASSUME TypeOK, NEW o \in Operators, NEW r, RunOK(r), run' = [run EXCEPT ![o] = r],
           status' \in [Configs -> StackView], ready' \in [Configs -> BOOLEAN],
           started' \in 0 .. MaxRuns
    PROVE  TypeOK'
BY DEF TypeOK, RunOK

\* The rest of a list holds nothing new.
LEMMA TailIsPart ==
    ASSUME NEW S, NEW q \in Seq(S), q # <<>>
    PROVE  /\ Tail(q) \in Seq(S) /\ Head(q) \in S /\ Head(q) = q[1]
           /\ Len(q) \in Nat \ {0} /\ DOMAIN q = 1 .. Len(q)
           /\ DOMAIN Tail(q) = 1 .. Len(q) - 1
           /\ \A i \in DOMAIN Tail(q) : Tail(q)[i] = q[i + 1]
           /\ ToSet(q) = ToSet(Tail(q)) \cup {Head(q)}
<1>1. /\ Tail(q) \in Seq(S) /\ Head(q) \in S /\ Head(q) = q[1]
      /\ Len(q) \in Nat \ {0} /\ DOMAIN q = 1 .. Len(q)
      /\ DOMAIN Tail(q) = 1 .. Len(q) - 1
      /\ \A i \in DOMAIN Tail(q) : Tail(q)[i] = q[i + 1]
  OBVIOUS
<1>2. ASSUME NEW i \in DOMAIN q
      PROVE  i = 1 \/ \E j \in DOMAIN Tail(q) : q[i] = Tail(q)[j]
  <2>1. i # 1 => i - 1 \in DOMAIN Tail(q) /\ q[i] = Tail(q)[i - 1]
    BY <1>1
  <2> QED BY <2>1
<1>3. \A i \in DOMAIN Tail(q) : i + 1 \in DOMAIN q
  BY <1>1
<1>4. ToSet(q) \subseteq ToSet(Tail(q)) \cup {Head(q)}
  BY <1>1, <1>2 DEF ToSet
<1>5. ToSet(Tail(q)) \cup {Head(q)} \subseteq ToSet(q)
  BY <1>1, <1>3 DEF ToSet
<1> QED BY <1>1, <1>4, <1>5

\* What an operator's step makes of its run.
Failing(r) == [r EXCEPT !.pc = "idle", !.queue = <<>>, !.result = "failed"]
Advanced(r) == [r EXCEPT !.pc = "working", !.queue = Tail(@)]
Moved(r, pc) == [r EXCEPT !.pc = pc]
Launching(r) == [r EXCEPT !.pc = "polling", !.launched = @ \cup {Head(r.queue)}]
Finished(r) == [r EXCEPT !.pc = "idle", !.result = "ok"]

\* The fields of a run after a step.
LEMMA Fields ==
    ASSUME NEW r \in Run
    PROVE  /\ /\ Failing(r).pc = "idle" /\ Failing(r).queue = <<>>
              /\ Failing(r).result = "failed" /\ Failing(r).command = r.command
              /\ Failing(r).requested = r.requested /\ Failing(r).launched = r.launched
           /\ /\ Advanced(r).pc = "working" /\ Advanced(r).queue = Tail(r.queue)
              /\ Advanced(r).result = r.result /\ Advanced(r).command = r.command
              /\ Advanced(r).requested = r.requested /\ Advanced(r).launched = r.launched
           /\ \A pc : /\ Moved(r, pc).pc = pc /\ Moved(r, pc).queue = r.queue
                      /\ Moved(r, pc).result = r.result /\ Moved(r, pc).command = r.command
                      /\ Moved(r, pc).requested = r.requested /\ Moved(r, pc).launched = r.launched
           /\ /\ Launching(r).pc = "polling" /\ Launching(r).queue = r.queue
              /\ Launching(r).result = r.result /\ Launching(r).command = r.command
              /\ Launching(r).requested = r.requested
              /\ Launching(r).launched = r.launched \cup {Head(r.queue)}
           /\ /\ Finished(r).pc = "idle" /\ Finished(r).queue = r.queue
              /\ Finished(r).result = "ok" /\ Finished(r).command = r.command
              /\ Finished(r).requested = r.requested /\ Finished(r).launched = r.launched
BY DEF Run, Failing, Advanced, Moved, Launching, Finished

\* Each of these leaves a run as TypeOK wants it.
LEMMA StepsOK ==
    ASSUME NEW r, RunOK(r)
    PROVE  /\ RunOK(Failing(r))
           /\ r.queue # <<>> => RunOK(Advanced(r))
           /\ \A pc \in {"polling", "cleanup", "post_init"} : r.queue # <<>> => RunOK(Moved(r, pc))
           /\ r.queue # <<>> => RunOK(Launching(r))
           /\ r.queue = <<>> => RunOK(Finished(r))
<1>1. r \in Run /\ ToSet(<<>>) = {} /\ <<>> \in Seq(Configs)
  BY DEF RunOK, ToSet
<1>2. r.queue \in Seq(Configs) /\ r.launched \in SUBSET Configs
  BY <1>1 DEF Run
<1>3. RunOK(Failing(r))
  <2>1. Failing(r) \in Run
    BY <1>1 DEF Run, Failing
  <2> QED BY <1>1, <2>1, Fields DEF RunOK
<1>4. ASSUME r.queue # <<>> PROVE RunOK(Advanced(r))
  <2>1. Tail(r.queue) \in Seq(Configs) /\ ToSet(Tail(r.queue)) \subseteq ToSet(r.queue)
    BY <1>2, <1>4, TailIsPart
  <2>2. Advanced(r) \in Run
    BY <1>1, <2>1 DEF Run, Advanced
  <2> QED BY <1>1, <2>1, <2>2, Fields DEF RunOK
<1>5. ASSUME r.queue # <<>>, NEW pc \in {"polling", "cleanup", "post_init"}
      PROVE  RunOK(Moved(r, pc))
  <2>1. Moved(r, pc) \in Run
    BY <1>1 DEF Run, Moved
  <2> QED BY <1>1, <1>5, <2>1, Fields DEF RunOK
<1>6. ASSUME r.queue # <<>> PROVE RunOK(Launching(r))
  <2>1. Head(r.queue) \in Configs /\ Head(r.queue) \in ToSet(r.queue)
    BY <1>2, <1>6, TailIsPart
  <2>2. Launching(r) \in Run
    BY <1>1, <1>2, <2>1 DEF Run, Launching
  <2> QED BY <1>1, <1>6, <2>1, <2>2, Fields DEF RunOK
<1>7. ASSUME r.queue = <<>> PROVE RunOK(Finished(r))
  <2>1. Finished(r) \in Run
    BY <1>1 DEF Run, Finished
  <2> QED BY <1>1, <1>7, <2>1, Fields DEF RunOK
<1> QED BY <1>3, <1>4, <1>5, <1>6, <1>7

\* The steps are these.
LEMMA StepsAre ==
    ASSUME TypeOK, NEW o \in Operators
    PROVE  /\ Fail(o) => run' = [run EXCEPT ![o] = Failing(run[o])]
           /\ Advance(o) => run' = [run EXCEPT ![o] = Advanced(run[o])]
           /\ \A pc : GoTo(o, pc) => run' = [run EXCEPT ![o] = Moved(run[o], pc)]
BY DEF TypeOK, Fail, Advance, GoTo, Failing, Advanced, Moved

-------------------------------------------------------------------------------
(***************************************************************************)
(* What a run knows, step by step                                          *)
(***************************************************************************)
\* A step of an operator that turns its run into r: of the right types, and
\* what the run knew before is enough for what it knows afterwards.
Stepped(o, r) ==
    /\ run' = [run EXCEPT ![o] = r]
    /\ RunOK(r)
    /\ status' \in [Configs -> StackView] /\ ready' \in [Configs -> BOOLEAN]
    /\ started' \in 0 .. MaxRuns
    /\ Knows(run[o], status, ready) => Knows(r, status', ready')

\* For one operator that is all there is to show.
LEMMA OnlyRun ==
    ASSUME IInv, Alone, NEW o \in Operators, NEW r, Stepped(o, r)
    PROVE  IInv'
<1>1. TypeOK'
  BY RunsOK DEF IInv, Stepped
<1>2. \A p \in Operators : run'[p] = r
  BY DEF Alone, IInv, TypeOK, Stepped
<1> QED BY <1>1, <1>2 DEF IInv, Stepped

\* A run that fails knows nothing that could become false.
LEMMA FailingKnows ==
    ASSUME NEW r \in Run, NEW listed, NEW initialised
    PROVE  Knows(Failing(r), listed, initialised)
BY Fields DEF Knows, InPlace, CreatesInOrder, DeletesInOrder, LaunchesAreReal

\* The stack at the head may be left behind when it is settled and real (after a
\* creation), or gone (after a deletion).
LEMMA AdvancedKnows ==
    ASSUME NEW r, RunOK(r), r.queue # <<>>, NEW listed, NEW before, NEW after,
           Knows(r, listed, before),
           \A c \in Configs \ {Head(r.queue)} : after[c] = before[c],
           r.command = "create" =>
               listed[Head(r.queue)] = "CREATE_COMPLETE" /\ after[Head(r.queue)],
           r.command = "delete" => listed[Head(r.queue)] = Absent
    PROVE  Knows(Advanced(r), listed, after)
<1> DEFINE q == r.queue
           t == Tail(q)
<1>1. r \in Run /\ q \in Seq(Configs) /\ r.launched \subseteq Configs
  BY DEF RunOK, Run
<1>2. /\ DOMAIN t = 1 .. Len(q) - 1 /\ DOMAIN q = 1 .. Len(q) /\ Len(q) \in Nat \ {0}
      /\ \A i \in DOMAIN t : t[i] = q[i + 1]
      /\ Head(q) = q[1] /\ ToSet(q) = ToSet(t) \cup {Head(q)}
  BY <1>1, TailIsPart
<1>3. ASSUME NEW i \in DOMAIN t, NEW x, NEW j \in 1 .. (i + 1) - 1, q[j] = x
      PROVE  x = Head(q) \/ \E k \in 1 .. i - 1 : t[k] = x
  <2>1. CASE j = 1
    BY <1>2, <1>3, <2>1
  <2>2. CASE j # 1
    <3>1. j - 1 \in 1 .. i - 1 /\ j - 1 \in DOMAIN t
      BY <1>2, <2>2
    <3>2. t[j - 1] = q[j]
      BY <1>2, <3>1
    <3> QED BY <1>3, <3>1, <3>2
  <2> QED BY <2>1, <2>2
<1>4. \A i \in DOMAIN t : i + 1 \in DOMAIN q
  BY <1>2
<1>a. /\ Advanced(r).queue = t /\ Advanced(r).command = r.command
      /\ Advanced(r).requested = r.requested
  BY <1>1, Fields
<1>b. r.command = "create" =>
        \A k \in DOMAIN q : \A d \in ToSet(Deps[q[k]]) :
            listed[d] \in Settled \/ \E j \in 1 .. k - 1 : q[j] = d
  BY DEF Knows, CreatesInOrder
<1>c. r.command = "delete" =>
        \A k \in DOMAIN q : \A c \in r.requested :
            DependsOn(c, q[k]) => listed[c] = Absent \/ \E j \in 1 .. k - 1 : q[j] = c
  BY DEF Knows, DeletesInOrder
<1>d. /\ r.command = "create" => listed[Head(q)] \in Settled
      /\ r.command = "delete" => listed[Head(q)] = Absent
  BY DEF Settled
<1> HIDE DEF q, t
<1>5. CreatesInOrder(Advanced(r), listed)
  <2> SUFFICES ASSUME r.command = "create", NEW i \in DOMAIN t, NEW d \in ToSet(Deps[t[i]])
               PROVE  listed[d] \in Settled \/ \E j \in 1 .. i - 1 : t[j] = d
    BY <1>a DEF CreatesInOrder
  <2>1. listed[d] \in Settled \/ \E j \in 1 .. (i + 1) - 1 : q[j] = d
    BY <1>2, <1>4, <1>b
  <2> QED BY <1>3, <1>d, <2>1
<1>6. DeletesInOrder(Advanced(r), listed)
  <2> SUFFICES ASSUME r.command = "delete", NEW i \in DOMAIN t, NEW c \in r.requested,
                      DependsOn(c, t[i])
               PROVE  listed[c] = Absent \/ \E j \in 1 .. i - 1 : t[j] = c
    BY <1>a DEF DeletesInOrder
  <2>1. listed[c] = Absent \/ \E j \in 1 .. (i + 1) - 1 : q[j] = c
    BY <1>2, <1>4, <1>c
  <2> QED BY <1>3, <1>d, <2>1
<1>7. LaunchesAreReal(Advanced(r), listed, after)
  <2> SUFFICES ASSUME r.command = "create", r.result # "failed",
                      NEW c \in r.launched \ ToSet(t)
               PROVE  listed[c] = "CREATE_COMPLETE" /\ after[c]
    BY <1>1, Fields DEF LaunchesAreReal, t, q
  <2> QED BY <1>1, <1>2 DEF Knows, LaunchesAreReal, q
<1>8. InPlace(Advanced(r))
  BY <1>1, Fields DEF Knows, InPlace, RunOK
<1> QED BY <1>5, <1>6, <1>7, <1>8 DEF Knows

\* A run knows what it knew as long as a creation sees no settled stack change,
\* and a deletion none that is gone come back.
LEMMA StillKnows ==
    ASSUME NEW r, RunOK(r), NEW before, NEW was, NEW after, NEW is,
           Knows(r, before, was),
           r.command = "create" =>
               \A c \in Configs : before[c] \in Settled => after[c] = before[c] /\ is[c] = was[c],
           r.command = "delete" =>
               \A c \in Configs : before[c] = Absent => after[c] = Absent
    PROVE  Knows(r, after, is)
<1>1. r \in Run /\ r.queue \in Seq(Configs) /\ r.launched \subseteq Configs
      /\ r.requested \subseteq Configs /\ (r.pc = "post_init" => r.queue # <<>>)
  BY DEF RunOK, Run
<1>2. \A i \in DOMAIN r.queue : r.queue[i] \in Configs
  BY <1>1
<1>3. \A i \in DOMAIN r.queue : ToSet(Deps[r.queue[i]]) \subseteq Configs
  BY <1>2, LifecycleConstants DEF ToSet
<1>4. CreatesInOrder(r, after)
  BY <1>3 DEF Knows, CreatesInOrder
<1>5. DeletesInOrder(r, after)
  BY <1>1 DEF Knows, DeletesInOrder
<1>6. r.queue # <<>> => Head(r.queue) \in Configs
  BY <1>1
<1>7. LaunchesAreReal(r, after, is)
  BY <1>1, <1>6 DEF Knows, LaunchesAreReal, Settled
<1> QED BY <1>4, <1>5, <1>7 DEF Knows

\* On to a poll or to post_init.
LEMMA AtKnows ==
    ASSUME NEW r, RunOK(r), NEW listed, NEW initialised, Knows(r, listed, initialised),
           NEW pc \in {"polling", "cleanup", "post_init"}, r.pc # "idle",
           pc = "post_init" =>
               r.command = "create" /\ listed[Head(r.queue)] = "CREATE_COMPLETE",
           pc = "cleanup" => r.command = "update"
    PROVE  Knows(Moved(r, pc), listed, initialised)
<1>1. r \in Run
  BY DEF RunOK
<1>2. InPlace(Moved(r, pc))
  BY <1>1, Fields DEF Knows, InPlace
<1>3. CreatesInOrder(Moved(r, pc), listed)
  BY <1>1, Fields DEF Knows, CreatesInOrder
<1>4. DeletesInOrder(Moved(r, pc), listed)
  BY <1>1, Fields DEF Knows, DeletesInOrder
<1>5. LaunchesAreReal(Moved(r, pc), listed, initialised)
  BY <1>1, Fields DEF Knows, LaunchesAreReal
<1> QED BY <1>2, <1>3, <1>4, <1>5 DEF Knows

\* The head of the queue is launched.
LEMMA LaunchingKnows ==
    ASSUME NEW r, RunOK(r), r.queue # <<>>, r.command = "create", r.pc = "working",
           NEW before, NEW was, Knows(r, before, was),
           before[Head(r.queue)] = Absent, NEW after, NEW is,
           \A c \in Configs \ {Head(r.queue)} : after[c] = before[c] /\ is[c] = was[c]
    PROVE  Knows(Launching(r), after, is)
<1>1. r \in Run /\ r.queue \in Seq(Configs) /\ Head(r.queue) \in ToSet(r.queue)
  BY TailIsPart DEF RunOK, Run
<1>2. Knows(r, after, is)
  <2>1. Absent \notin Settled
    BY DEF Absent, Settled
  <2> QED BY <2>1, StillKnows
<1>3. InPlace(Launching(r))
  BY <1>1, <1>2, Fields DEF Knows, InPlace
<1>4. CreatesInOrder(Launching(r), after)
  BY <1>1, <1>2, Fields DEF Knows, CreatesInOrder
<1>5. DeletesInOrder(Launching(r), after)
  BY <1>1, Fields DEF DeletesInOrder
<1>6. LaunchesAreReal(Launching(r), after, is)
  BY <1>1, <1>2, Fields DEF Knows, LaunchesAreReal
<1> QED BY <1>3, <1>4, <1>5, <1>6 DEF Knows

\* The end of the list.
LEMMA FinishedKnows ==
    ASSUME NEW r, RunOK(r), r.queue = <<>>, r.pc = "working",
           NEW listed, NEW initialised, Knows(r, listed, initialised)
    PROVE  Knows(Finished(r), listed, initialised)
<1>1. r \in Run /\ r.result = "none"
  BY DEF RunOK, Knows, InPlace
<1> QED BY <1>1, Fields
        DEF Knows, InPlace, CreatesInOrder, DeletesInOrder, LaunchesAreReal

-------------------------------------------------------------------------------
(***************************************************************************)
(* The actions                                                             *)
(***************************************************************************)
\* The run of an operator is as TypeOK says.
LEMMA ItsRun ==
    ASSUME TypeOK, NEW o \in Operators
    PROVE  /\ RunOK(run[o]) /\ run[o] \in Run
           /\ run[o].queue \in Seq(Configs)
           /\ run[o].queue # <<>> => Current(o) \in Configs
           /\ run[o].pc \in {"polling", "cleanup", "post_init"} => run[o].queue # <<>>
BY DEF TypeOK, RunOK, Run, Current

\* A run that fails while the stacks stay as they are.
LEMMA StepFail ==
    ASSUME TypeOK, NEW o \in Operators, Fail(o), UNCHANGED <<status, ready, started>>
    PROVE  Stepped(o, Failing(run[o]))
BY ItsRun, StepsAre, StepsOK, FailingKnows DEF Stepped, TypeOK

\* A command that is accepted or refused.
LEMMA StepCommand ==
    ASSUME TypeOK, NEW o \in Operators, Command(o)
    PROVE  \E r : Stepped(o, r)
<1>1. PICK command \in Commands, request \in Requests :
        \E answer \in Answers(Deps, command, ToSet(request), status) :
           run' = [run EXCEPT ![o] =
                    [pc |-> IF answer.kind = "ok" THEN "working" ELSE "idle",
                     command |-> command,
                     requested |-> ToSet(request),
                     queue |-> answer.order,
                     launched |-> {},
                     result |-> IF answer.kind = "ok" THEN "none" ELSE "refused"]]
  BY DEF Command
<1>2. PICK answer \in Answers(Deps, command, ToSet(request), status) :
           run' = [run EXCEPT ![o] =
                    [pc |-> IF answer.kind = "ok" THEN "working" ELSE "idle",
                     command |-> command,
                     requested |-> ToSet(request),
                     queue |-> answer.order,
                     launched |-> {},
                     result |-> IF answer.kind = "ok" THEN "none" ELSE "refused"]]
  BY <1>1
<1> DEFINE r == [pc |-> IF answer.kind = "ok" THEN "working" ELSE "idle",
                 command |-> command,
                 requested |-> ToSet(request),
                 queue |-> answer.order,
                 launched |-> {},
                 result |-> IF answer.kind = "ok" THEN "none" ELSE "refused"]
<1>3. command \in Action /\ request \in Seq(Configs) /\ status \in [Configs -> StackView]
  BY LifecycleConstants DEF TypeOK
<1>4. ToSet(request) \subseteq Configs
  BY <1>3, RequestIsFinite
<1>5. /\ answer.order \in Seq(Configs) /\ ToSet(answer.order) \subseteq ToSet(request)
      /\ answer.kind # "ok" => answer.order = <<>>
      /\ (answer.kind = "ok" /\ command = "create") =>
           \A i \in DOMAIN answer.order : \A d \in ToSet(Deps[answer.order[i]]) :
               status[d] \in Settled \/ \E j \in 1 .. i - 1 : answer.order[j] = d
      /\ (answer.kind = "ok" /\ command = "delete") =>
           \A i \in DOMAIN answer.order : \A c \in ToSet(request) :
               DependsOn(c, answer.order[i]) =>
                   status[c] = Absent \/ \E j \in 1 .. i - 1 : answer.order[j] = c
  BY <1>3, AnswerIsInOrder
<1>6. /\ r.pc = (IF answer.kind = "ok" THEN "working" ELSE "idle")
      /\ r.command = command /\ r.requested = ToSet(request) /\ r.queue = answer.order
      /\ r.launched = {} /\ r.result = (IF answer.kind = "ok" THEN "none" ELSE "refused")
  OBVIOUS
<1>7. r \in Run
  BY <1>3, <1>4, <1>5 DEF Run
<1> HIDE DEF r
<1>8. RunOK(r)
  BY <1>5, <1>6, <1>7 DEF RunOK
<1>9. Knows(r, status, ready)
  <2>1. answer.kind # "ok" => DOMAIN answer.order = {}
    BY <1>5
  <2> QED BY <1>5, <1>6, <2>1
          DEF Knows, InPlace, CreatesInOrder, DeletesInOrder, LaunchesAreReal
<1>10. started' \in 0 .. MaxRuns
  BY LifecycleConstants DEF Command, TypeOK
<1>11. Stepped(o, r)
  BY <1>2, <1>8, <1>9, <1>10 DEF Stepped, Command, TypeOK, r
<1> QED BY <1>11

\* create_stack and the poll that follows it.
LEMMA StepCreate ==
    ASSUME TypeOK, NEW o \in Operators, CreateStack(o) \/ PollCreate(o)
    PROVE  \E r : Stepped(o, r)
<1> DEFINE c == Current(o)
<1>1. CASE CreateStack(o) /\ status[c] = Absent
  <2>1. /\ Working(o, "create") /\ c \in Configs
        /\ status' = [status EXCEPT ![c] = "CREATE_IN_PROGRESS"]
        /\ ready' = [ready EXCEPT ![c] = FALSE] /\ started' = started
        /\ run[o].queue # <<>> /\ c = Head(run[o].queue)
    BY <1>1, ItsRun DEF CreateStack, Working, Current
  <2>2. run' = [run EXCEPT ![o] = Launching(run[o])]
    BY <1>1 DEF CreateStack, Launching, TypeOK, Current
  <2>3. /\ status' \in [Configs -> StackView] /\ ready' \in [Configs -> BOOLEAN]
        /\ \A x \in Configs \ {c} : status'[x] = status[x] /\ ready'[x] = ready[x]
    BY <2>1 DEF TypeOK, StackView, Status, InProgress
  <2>4. RunOK(Launching(run[o]))
    BY <2>1, ItsRun, StepsOK
  <2>5. Knows(run[o], status, ready) => Knows(Launching(run[o]), status', ready')
    <3> SUFFICES ASSUME Knows(run[o], status, ready)
                 PROVE  Knows(Launching(run[o]), status', ready')
      OBVIOUS
    <3>1. RunOK(run[o])
      BY ItsRun
    <3>2. /\ run[o].queue # <<>> /\ run[o].command = "create" /\ run[o].pc = "working"
          /\ status[Head(run[o].queue)] = Absent
      BY <1>1, <2>1 DEF Working
    <3>3. \A x \in Configs \ {Head(run[o].queue)} : status'[x] = status[x] /\ ready'[x] = ready[x]
      BY <2>1, <2>3
    <3> HIDE DEF c
    <3> QED BY <3>1, <3>2, <3>3, LaunchingKnows
  <2>6. Stepped(o, Launching(run[o]))
    BY <2>1, <2>2, <2>3, <2>4, <2>5 DEF Stepped, TypeOK
  <2> QED BY <2>6
<1>2. CASE CreateStack(o) /\ status[c] # Absent
  BY <1>2, StepFail DEF CreateStack
<1>3. CASE PollCreate(o) /\ status[c] = "CREATE_COMPLETE"
  <2>1. /\ run[o].command = "create" /\ run[o].pc = "polling" /\ run[o].queue # <<>>
        /\ c = Head(run[o].queue) /\ UNCHANGED <<status, ready, started>>
    BY <1>3, ItsRun DEF PollCreate, Polling, Current
  <2>2. run' = [run EXCEPT ![o] = Moved(run[o], "post_init")]
    BY <1>3, StepsAre DEF PollCreate
  <2>3. RunOK(Moved(run[o], "post_init"))
    BY <2>1, ItsRun, StepsOK
  <2>4. Knows(run[o], status, ready) => Knows(Moved(run[o], "post_init"), status, ready)
    BY <1>3, <2>1, ItsRun, AtKnows
  <2>5. Stepped(o, Moved(run[o], "post_init"))
    BY <2>1, <2>2, <2>3, <2>4 DEF Stepped, TypeOK
  <2> QED BY <2>5
<1>4. CASE PollCreate(o) /\ status[c] # "CREATE_COMPLETE"
  BY <1>4, StepFail DEF PollCreate
<1> QED BY <1>1, <1>2, <1>3, <1>4

\* The next configuration: the stack left behind is as AdvancedKnows asks.
LEMMA StepAdvance ==
    ASSUME TypeOK, NEW o \in Operators, Advance(o), run[o].queue # <<>>,
           UNCHANGED <<status, started>>,
           ready' \in [Configs -> BOOLEAN],
           \A c \in Configs \ {Current(o)} : ready'[c] = ready[c],
           Knows(run[o], status, ready) /\ run[o].command = "create" =>
               status[Current(o)] = "CREATE_COMPLETE" /\ ready'[Current(o)],
           Knows(run[o], status, ready) /\ run[o].command = "delete" =>
               status[Current(o)] = Absent
    PROVE  Stepped(o, Advanced(run[o]))
<1>1. run' = [run EXCEPT ![o] = Advanced(run[o])] /\ RunOK(Advanced(run[o]))
  BY ItsRun, StepsAre, StepsOK
<1>2. ASSUME Knows(run[o], status, ready) PROVE Knows(Advanced(run[o]), status', ready')
  <2>1. Knows(Advanced(run[o]), status, ready')
    BY <1>2, ItsRun, AdvancedKnows DEF Current
  <2> QED BY <2>1
<1> QED BY <1>1, <1>2 DEF Stepped, TypeOK

\* post_init, after a creation or as a command of its own.
LEMMA StepPostInit ==
    ASSUME TypeOK, NEW o \in Operators, PostInit(o)
    PROVE  \E r : Stepped(o, r)
<1>1. run[o].queue # <<>> /\ Current(o) \in Configs
  BY ItsRun DEF PostInit, Working
<1>2. /\ Advance(o) /\ UNCHANGED <<status, started>>
      /\ ready' = [ready EXCEPT ![Current(o)] = TRUE]
  BY DEF PostInit
<1>3. /\ ready' \in [Configs -> BOOLEAN] /\ ready'[Current(o)]
      /\ \A c \in Configs \ {Current(o)} : ready'[c] = ready[c]
  BY <1>1, <1>2 DEF TypeOK
<1>4. ASSUME Knows(run[o], status, ready)
      PROVE  /\ run[o].command = "create" => status[Current(o)] = "CREATE_COMPLETE"
             /\ run[o].command # "delete"
  BY <1>4 DEF Knows, InPlace, LaunchesAreReal, PostInit, Working, Current
<1>5. Stepped(o, Advanced(run[o]))
  BY <1>1, <1>2, <1>3, <1>4, StepAdvance
<1> QED BY <1>5

\* A call that makes CloudFormation work on the stack, in an update or a deletion.
LEMMA StepCall ==
    ASSUME TypeOK, NEW o \in Operators, run[o].pc = "working", run[o].queue # <<>>,
           run[o].command \in {"update", "delete"}, GoTo(o, "polling"),
           UNCHANGED <<ready, started>>, status' \in [Configs -> StackView],
           run[o].command = "delete" =>
               \A c \in Configs : status[c] = Absent => status'[c] = Absent
    PROVE  Stepped(o, Moved(run[o], "polling"))
<1>1. run' = [run EXCEPT ![o] = Moved(run[o], "polling")] /\ RunOK(Moved(run[o], "polling"))
  BY ItsRun, StepsAre, StepsOK
<1>2. ASSUME Knows(run[o], status, ready) PROVE Knows(Moved(run[o], "polling"), status', ready')
  <2>1. Knows(run[o], status', ready')
    BY <1>2, ItsRun, StillKnows
  <2> QED BY <2>1, ItsRun, AtKnows
<1> QED BY <1>1, <1>2 DEF Stepped, TypeOK

\* update_stack and the polls that follow it.
LEMMA StepUpdate ==
    ASSUME TypeOK, NEW o \in Operators, UpdateStack(o) \/ PollUpdate(o) \/ PollCleanup(o)
    PROVE  \E r : Stepped(o, r)
<1> DEFINE c == Current(o)
<1>1. run[o].queue # <<>> /\ c \in Configs /\ UNCHANGED <<ready, started>>
  BY ItsRun DEF UpdateStack, PollUpdate, PollCleanup, Working, Polling
<1>2. CASE Fail(o) /\ UNCHANGED status
  BY <1>1, <1>2, StepFail
<1>3. CASE Advance(o) /\ UNCHANGED status
  <2>1. ready' \in [Configs -> BOOLEAN] /\ \A x \in Configs : ready'[x] = ready[x]
    BY <1>1 DEF TypeOK
  <2>2. Knows(run[o], status, ready) => run[o].command = "update"
    BY DEF UpdateStack, PollUpdate, PollCleanup, Working, Polling, Knows, InPlace
  <2>3. Stepped(o, Advanced(run[o]))
    BY <1>1, <1>3, <2>1, <2>2, StepAdvance
  <2> QED BY <2>3
<1>4. CASE UpdateStack(o) /\ GoTo(o, "polling")
           /\ status' = [status EXCEPT ![c] = "UPDATE_IN_PROGRESS"]
  <2>1. status' \in [Configs -> StackView]
    BY <1>4 DEF TypeOK, StackView, Status, InProgress
  <2>2. Stepped(o, Moved(run[o], "polling"))
    BY <1>1, <1>4, <2>1, StepCall DEF UpdateStack, Working
  <2> QED BY <2>2
<1>5. CASE PollUpdate(o) /\ GoTo(o, "cleanup") /\ UNCHANGED status
  <2>1. run[o].pc = "polling" /\ run[o].command = "update"
    BY <1>5 DEF PollUpdate, Polling
  <2>2. run' = [run EXCEPT ![o] = Moved(run[o], "cleanup")] /\ RunOK(Moved(run[o], "cleanup"))
    BY <1>1, <1>5, ItsRun, StepsAre, StepsOK
  <2>3. Knows(run[o], status, ready) => Knows(Moved(run[o], "cleanup"), status, ready)
    BY <2>1, ItsRun, AtKnows
  <2>4. Stepped(o, Moved(run[o], "cleanup"))
    BY <1>1, <1>5, <2>2, <2>3 DEF Stepped, TypeOK
  <2> QED BY <2>4
<1> QED BY <1>2, <1>3, <1>4, <1>5 DEF UpdateStack, PollUpdate, PollCleanup

\* delete_stack and the poll that follows it.
LEMMA StepDelete ==
    ASSUME TypeOK, NEW o \in Operators, DeleteStack(o) \/ PollDelete(o)
    PROVE  \E r : Stepped(o, r)
<1> DEFINE c == Current(o)
<1>1. /\ run[o].queue # <<>> /\ c \in Configs /\ UNCHANGED <<ready, started>>
      /\ run[o].command = "delete"
  BY ItsRun DEF DeleteStack, PollDelete, Working, Polling
<1>2. CASE Fail(o) /\ UNCHANGED status
  BY <1>1, <1>2, StepFail
<1>3. CASE PollDelete(o) /\ Advance(o) /\ status[c] = Absent
  <2>1. ready' \in [Configs -> BOOLEAN] /\ \A x \in Configs : ready'[x] = ready[x]
    BY <1>1 DEF TypeOK
  <2>2. UNCHANGED status
    BY <1>3 DEF PollDelete
  <2>3. Stepped(o, Advanced(run[o]))
    BY <1>1, <1>3, <2>1, <2>2, StepAdvance
  <2> QED BY <2>3
<1>4. CASE DeleteStack(o) /\ GoTo(o, "polling")
           /\ status' = [status EXCEPT ![c] = IF @ = Absent THEN Absent
                                                            ELSE "DELETE_IN_PROGRESS"]
  <2>1. /\ status' \in [Configs -> StackView]
        /\ \A x \in Configs : status[x] = Absent => status'[x] = Absent
    BY <1>4 DEF TypeOK, StackView, Status, InProgress
  <2>2. Stepped(o, Moved(run[o], "polling"))
    BY <1>1, <1>4, <2>1, StepCall DEF DeleteStack, Working
  <2> QED BY <2>2
<1> QED BY <1>2, <1>3, <1>4 DEF DeleteStack, PollDelete

\* The end of the list.
LEMMA StepDone ==
    ASSUME TypeOK, NEW o \in Operators, Done(o)
    PROVE  \E r : Stepped(o, r)
<1>1. /\ run[o].pc = "working" /\ run[o].queue = <<>> /\ UNCHANGED <<status, ready, started>>
      /\ run' = [run EXCEPT ![o] = Finished(run[o])]
  BY DEF Done, Finished, TypeOK
<1>2. RunOK(Finished(run[o]))
  BY <1>1, ItsRun, StepsOK
<1>3. Knows(run[o], status, ready) => Knows(Finished(run[o]), status, ready)
  BY <1>1, ItsRun, FinishedKnows
<1>4. Stepped(o, Finished(run[o]))
  BY <1>1, <1>2, <1>3 DEF Stepped, TypeOK
<1> QED BY <1>4

\* Every step of an operator.
LEMMA StepOperator ==
    ASSUME TypeOK, NEW o \in Operators, Command(o) \/ OperatorStep(o) \/ Interrupt(o)
    PROVE  \E r : Stepped(o, r)
<1>1. CASE Interrupt(o)
  BY <1>1, StepFail DEF Interrupt
<1> QED BY <1>1, StepCommand, StepCreate, StepPostInit, StepUpdate, StepDelete, StepDone
        DEF OperatorStep

\* CloudFormation takes only stacks further that are in progress.
LEMMA StepCloudFormation ==
    ASSUME TypeOK, NEW c \in Configs, CloudFormation(c)
    PROVE  /\ UNCHANGED <<ready, run, started>>
           /\ status[c] \in InProgress
           /\ status' \in [Configs -> StackView] /\ status'[c] # "DELETE_IN_PROGRESS"
           /\ \A x \in Configs \ {c} : status'[x] = status[x]
<1>1. PICK s \in Outcomes(status[c]) : status' = [status EXCEPT ![c] = s]
  BY DEF CloudFormation
<1>2. /\ status[c] \in InProgress /\ s \in StackView /\ s # "DELETE_IN_PROGRESS"
  BY DEF Outcomes, InProgress, StackView, Status, Settled, Failed, Absent
<1> QED BY <1>1, <1>2 DEF CloudFormation, TypeOK

-------------------------------------------------------------------------------
(***************************************************************************)
(* The theorems                                                            *)
(***************************************************************************)
\* When the first run starts nothing exists.
LEMMA InitIsTyped == Init => IInv
<1> SUFFICES ASSUME Init PROVE IInv
  OBVIOUS
<1>1. NoRun \in Run /\ RunOK(NoRun)
  BY DEF NoRun, Run, RunOK, ToSet, Action
<1>2. Knows(NoRun, status, ready)
  BY DEF NoRun, Knows, InPlace, CreatesInOrder, DeletesInOrder, LaunchesAreReal
<1>3. TypeOK
  BY <1>1, LifecycleConstants DEF Init, TypeOK, RunOK, StackView
<1> QED BY <1>2, <1>3 DEF Init, IInv

\* Every step keeps the types.
LEMMA TypeStep == TypeOK /\ [Next]_vars => TypeOK'
<1> SUFFICES ASSUME TypeOK, [Next]_vars PROVE TypeOK'
  OBVIOUS
<1>1. ASSUME NEW o \in Operators, Command(o) \/ OperatorStep(o) \/ Interrupt(o)
      PROVE  TypeOK'
  BY <1>1, StepOperator, RunsOK DEF Stepped
<1>2. ASSUME NEW c \in Configs, CloudFormation(c)
      PROVE  TypeOK'
  BY <1>2, StepCloudFormation DEF TypeOK
<1>3. CASE UNCHANGED vars
  BY <1>3 DEF vars, TypeOK
<1> QED BY <1>1, <1>2, <1>3 DEF Next

\* However many operators interleave, fail and are interrupted, each works on a
\* configuration of its own request, and only while it has one.
THEOREM TypeCorrect == Spec => []TypeOK
<1>1. Init => TypeOK
  BY InitIsTyped DEF IInv
<1> QED BY <1>1, TypeStep, PTL DEF Spec

\* Every step of one operator keeps what its run knows.
LEMMA KnowledgeStep ==
    ASSUME Alone
    PROVE  IInv /\ [Next]_vars => IInv'
<1> SUFFICES ASSUME IInv, [Next]_vars PROVE IInv'
  OBVIOUS
<1>1. ASSUME NEW o \in Operators, Command(o) \/ OperatorStep(o) \/ Interrupt(o)
      PROVE  IInv'
  <2>1. \E r : Stepped(o, r)
    BY <1>1, StepOperator DEF IInv
  <2> QED BY <2>1, OnlyRun
<1>2. ASSUME NEW c \in Configs, CloudFormation(c)
      PROVE  IInv'
  <2>1. TypeOK' /\ UNCHANGED <<ready, run>>
    BY <1>2, TypeStep, StepCloudFormation DEF IInv, Next
  <2>2. \A x \in Configs : status[x] \in Settled \cup {Absent} => status'[x] = status[x]
    BY <1>2, StepCloudFormation DEF IInv, Settled, Absent, InProgress
  <2>3. ASSUME NEW o \in Operators PROVE Knows(run[o], status', ready')
    BY <2>1, <2>2, ItsRun, StillKnows DEF IInv
  <2> QED BY <2>1, <2>3 DEF IInv
<1>3. CASE UNCHANGED vars
  BY <1>3 DEF vars, IInv, TypeOK
<1> QED BY <1>1, <1>2, <1>3 DEF Next

\* What a run knows holds in every reachable state when one operator works.
THEOREM KnowledgeInvariant ==
    ASSUME Alone
    PROVE  Spec => []IInv
<1> QED BY InitIsTyped, KnowledgeStep, PTL DEF Spec

\* A "create" that reports success has created and initialised every stack it
\* launched, for every graph and every history of failures before it.
THEOREM SuccessHolds ==
    ASSUME Alone
    PROVE  Spec => []SuccessIsReal
<1>1. IInv => SuccessIsReal
  <2> SUFFICES ASSUME IInv, NEW o \in Operators, run[o].result = "ok",
                      run[o].command = "create", NEW c \in run[o].launched
               PROVE  status[c] = "CREATE_COMPLETE" /\ ready[c]
    BY DEF SuccessIsReal
  <2>1. Knows(run[o], status, ready) /\ RunOK(run[o]) /\ run[o] \in Run
    BY ItsRun DEF IInv
  <2>2. run[o].queue = <<>> /\ ToSet(<<>>) = {}
    BY <2>1 DEF Knows, InPlace, RunOK, ToSet
  <2> QED BY <2>1, <2>2 DEF Knows, LaunchesAreReal
<1> QED BY <1>1, KnowledgeInvariant, PTL

\* Only a creation makes a stack appear, and what the stack depends on is settled.
LEMMA LaunchStep ==
    ASSUME IInv, Alone, Next, NEW c \in Configs, NEW d \in Configs, IsLaunched(c), DependsOn(c, d)
    PROVE  status[d] \in Settled
<1>1. ASSUME NEW x \in Configs, CloudFormation(x) PROVE FALSE
  BY <1>1, StepCloudFormation DEF IInv, IsLaunched, InProgress, Absent
<1>2. PICK o \in Operators : Command(o) \/ OperatorStep(o) \/ Interrupt(o)
  BY <1>1 DEF Next
<1>3. CASE CreateStack(o)
  <2>1. Working(o, "create") /\ Current(o) \in Configs /\ c = Current(o)
    BY <1>3, ItsRun DEF CreateStack, Working, IInv, IsLaunched, TypeOK
  <2>2. /\ 1 \in DOMAIN run[o].queue /\ run[o].queue[1] = c
        /\ run[o].command = "create" /\ Knows(run[o], status, ready)
    BY <2>1, ItsRun, TailIsPart DEF IInv, Working, Current
  <2>3. status[d] \in Settled \/ \E j \in 1 .. 1 - 1 : run[o].queue[j] = d
    BY <2>2 DEF Knows, CreatesInOrder, DependsOn
  <2> QED BY <2>3
<1>4. CASE UpdateStack(o)
  <2>1. \/ status' = status
        \/ /\ status[Current(o)] \in Updatable
           /\ status' = [status EXCEPT ![Current(o)] = "UPDATE_IN_PROGRESS"]
    BY <1>4 DEF UpdateStack
  <2> QED BY <2>1 DEF IsLaunched, Updatable, Settled, Absent, IInv, TypeOK
<1>5. CASE DeleteStack(o)
  <2>1. status' = status \/ status' = [status EXCEPT ![Current(o)] =
                                         IF @ = Absent THEN Absent ELSE "DELETE_IN_PROGRESS"]
    BY <1>5 DEF DeleteStack
  <2> QED BY <2>1 DEF IsLaunched, Absent, IInv, TypeOK
<1>6. CASE status' = status
  BY <1>6 DEF IsLaunched
<1> QED
  BY <1>2, <1>3, <1>4, <1>5, <1>6
     DEF Command, OperatorStep, Done, PollCreate, PostInit, PollUpdate, PollCleanup,
         PollDelete, Interrupt

\* No stack is launched while a stack it depends on is missing, busy or failed,
\* whatever failed, rolled back or was interrupted before.
THEOREM LaunchesAreSafe ==
    ASSUME Alone
    PROVE  Spec => LaunchNeedsSettledDependencies
<1>1. IInv /\ [Next]_vars =>
        [\A c, d \in Configs : IsLaunched(c) /\ DependsOn(c, d) => status[d] \in Settled]_vars
  BY LaunchStep
<1> QED BY <1>1, KnowledgeInvariant, PTL DEF Spec, LaunchNeedsSettledDependencies

\* Only a deletion begins to delete a stack, and what was to be deleted with it
\* and depends on it is gone.
LEMMA DeletionStep ==
    ASSUME IInv, Alone, Next, NEW c \in Configs, NEW d \in Configs, NEW o \in Operators,
           status[d] # "DELETE_IN_PROGRESS", status'[d] = "DELETE_IN_PROGRESS",
           c \in run[o].requested, DependsOn(c, d)
    PROVE  status[c] = Absent
<1>1. ASSUME NEW x \in Configs, CloudFormation(x) PROVE FALSE
  BY <1>1, StepCloudFormation DEF IInv
<1>2. Command(o) \/ OperatorStep(o) \/ Interrupt(o)
  BY <1>1 DEF Next, Alone
<1>3. CASE DeleteStack(o)
  <2>1. Working(o, "delete") /\ Current(o) \in Configs /\ d = Current(o)
    BY <1>3, ItsRun DEF DeleteStack, Working, IInv, TypeOK
  <2>2. /\ 1 \in DOMAIN run[o].queue /\ run[o].queue[1] = d
        /\ run[o].command = "delete" /\ Knows(run[o], status, ready)
    BY <2>1, ItsRun, TailIsPart DEF IInv, Working, Current
  <2>3. status[c] = Absent \/ \E j \in 1 .. 1 - 1 : run[o].queue[j] = c
    BY <2>2 DEF Knows, DeletesInOrder
  <2> QED BY <2>3
<1>4. CASE UpdateStack(o) \/ CreateStack(o)
  <2>1. \/ status' = status
        \/ status' = [status EXCEPT ![Current(o)] = "UPDATE_IN_PROGRESS"]
        \/ status' = [status EXCEPT ![Current(o)] = "CREATE_IN_PROGRESS"]
    BY <1>4 DEF UpdateStack, CreateStack
  <2> QED BY <2>1 DEF IInv, TypeOK
<1>5. CASE status' = status
  BY <1>5
<1> QED
  BY <1>2, <1>3, <1>4, <1>5
     DEF Command, OperatorStep, Done, PollCreate, PostInit, PollUpdate, PollCleanup,
         PollDelete, Interrupt

\* A stack is not deleted while a stack that depends on it and is to be deleted
\* by the same run still exists, also when a deletion failed.
THEOREM DeletionsAreSafe ==
    ASSUME Alone
    PROVE  Spec => DependentsGoFirst
<1>1. IInv /\ [Next]_vars =>
        [\A c, d \in Configs, o \in Operators :
            (/\ status[d] # "DELETE_IN_PROGRESS" /\ status'[d] = "DELETE_IN_PROGRESS"
             /\ run[o].pc = "working" /\ c \in run[o].requested /\ DependsOn(c, d))
            => status[c] = Absent]_vars
  BY DeletionStep
<1> QED BY <1>1, KnowledgeInvariant, PTL DEF Spec, DependentsGoFirst

-------------------------------------------------------------------------------
(***************************************************************************)
(* Templates: resources, calls and sequences of calls                      *)
(***************************************************************************)
IsResource(r) ==
    r = [refs |-> r.refs, soft |-> r.soft, makes |-> r.makes, names |-> r.names,
         keep |-> r.keep]

\* Resources that make only things of a set, each of them its own; those that
\* make buckets, and no others, are kept.
Neat(resources, things) ==
    /\ \A k \in DOMAIN resources : IsResource(resources[k])
    /\ \A k \in DOMAIN resources : resources[k].makes \subseteq things
    /\ \A k \in DOMAIN resources : \A t \in resources[k].makes :
           resources[k].keep <=> t[1] = "s3"
    /\ \A k, m \in DOMAIN resources :
           k # m => resources[k].makes \cap resources[m].makes = {}

\* A call that adds such resources.
Gives(call, things) ==
    /\ Neat(call.adds, things)
    /\ call.outs \subseteq things /\ \A t \in call.outs : t[1] # "s3"

\* A sequence of calls, no two of which make a thing of the same name.
Tidy(calls, things) ==
    /\ \E C : calls \in Seq(C)
    /\ \A i \in DOMAIN calls : Gives(calls[i], things)
    /\ \A i, j \in DOMAIN calls : i # j =>
           \A k \in DOMAIN calls[i].adds, m \in DOMAIN calls[j].adds :
               calls[i].adds[k].makes \cap calls[j].adds[m].makes = {}

LEMMA NeatAt ==
    ASSUME NEW key, NEW resource, IsResource(resource), NEW things,
            resource.makes \subseteq things,
           \A t \in resource.makes : resource.keep <=> t[1] = "s3"
    PROVE  Neat(At(key, resource), things)
  BY DEF Neat, At

LEMMA NeatBoth ==
    ASSUME NEW r, NEW s, NEW A, NEW B, Neat(r, A), Neat(s, B), A \cap B = {}
    PROVE  Neat(Both(r, s), A \cup B)
  BY DEF Neat, Both

LEMMA NeatNothing ==
    ASSUME NEW r, \A k \in DOMAIN r : IsResource(r[k]) /\ r[k].makes = {}, NEW things
    PROVE  Neat(r, things)
  BY DEF Neat

LEMMA GivesAdds ==
    ASSUME NEW r, NEW things, Neat(r, things)
    PROVE  Gives(Adds(r), things)
  BY DEF Gives, Adds, NoCall

LEMMA GivesMore ==
    ASSUME NEW call, NEW A, NEW B, Gives(call, A), A \subseteq B
    PROVE  Gives(call, B)
  BY DEF Gives, Neat

LEMMA TidyRow ==
    ASSUME NEW calls, NEW own, NEW things, \E C : calls \in Seq(C),
           \A i \in DOMAIN calls : Gives(calls[i], own[i]) /\ own[i] \subseteq things,
           \A i, j \in DOMAIN calls : i # j => own[i] \cap own[j] = {}
    PROVE  Tidy(calls, things)
<1>1. \A i \in DOMAIN calls : Gives(calls[i], things)
  BY GivesMore, Zenon
<1>2. ASSUME NEW i \in DOMAIN calls, NEW j \in DOMAIN calls, i # j,
             NEW k \in DOMAIN calls[i].adds, NEW m \in DOMAIN calls[j].adds
      PROVE  calls[i].adds[k].makes \cap calls[j].adds[m].makes = {}
  <2>1. calls[i].adds[k].makes \subseteq own[i] /\ calls[j].adds[m].makes \subseteq own[j]
    BY DEF Gives, Neat
  <2>2. own[i] \cap own[j] = {}
    BY <1>2
  <2> QED BY <2>1, <2>2, Zenon
<1> QED BY <1>1, <1>2, Zenon DEF Tidy

LEMMA TidyJoined ==
    ASSUME NEW a, NEW b, NEW A, NEW B, Tidy(a, A), Tidy(b, B), A \cap B = {}
    PROVE  Tidy(a \o b, A \cup B)
<1>1. PICK C : a \in Seq(C)
  BY Zenon DEF Tidy
<1>2. PICK D : b \in Seq(D)
  BY Zenon DEF Tidy
<1>3. a \in Seq(C \cup D) /\ b \in Seq(C \cup D)
  BY <1>1, <1>2
<1>4. a \o b \in Seq(C \cup D) /\ Len(a \o b) = Len(a) + Len(b)
  BY <1>3
<1>5. ASSUME NEW i \in DOMAIN (a \o b)
      PROVE  \/ i \in DOMAIN a /\ (a \o b)[i] = a[i]
             \/ i \notin DOMAIN a /\ i - Len(a) \in DOMAIN b /\ (a \o b)[i] = b[i - Len(a)]
  BY <1>3, <1>4
<1> DEFINE c == a \o b
<1>6. ASSUME NEW i \in DOMAIN c PROVE Gives(c[i], A \cup B)
  <2>0. A \subseteq A \cup B /\ B \subseteq A \cup B
    OBVIOUS
  <2>1. \A j \in DOMAIN a : Gives(a[j], A \cup B)
    BY <2>0, GivesMore, Zenon DEF Tidy
  <2>2. \A j \in DOMAIN b : Gives(b[j], A \cup B)
    BY <2>0, GivesMore, Zenon DEF Tidy
  <2> QED BY <1>5, <2>1, <2>2, Zenon
<1>7. ASSUME NEW i \in DOMAIN a, NEW j \in DOMAIN b,
             NEW k \in DOMAIN a[i].adds, NEW m \in DOMAIN b[j].adds
      PROVE  a[i].adds[k].makes \cap b[j].adds[m].makes = {}
  <2>1. a[i].adds[k].makes \subseteq A
    BY DEF Tidy, Gives, Neat
  <2>2. b[j].adds[m].makes \subseteq B
    BY DEF Tidy, Gives, Neat
  <2> QED BY <2>1, <2>2, Zenon
<1>8. ASSUME NEW i \in DOMAIN c, NEW j \in DOMAIN c, i # j,
             NEW k \in DOMAIN c[i].adds, NEW m \in DOMAIN c[j].adds
      PROVE  c[i].adds[k].makes \cap c[j].adds[m].makes = {}
  <2>1. CASE i \in DOMAIN a /\ j \in DOMAIN a
    <3>1. c[i] = a[i] /\ c[j] = a[j]
      BY <1>5, <2>1, Zenon
    <3> QED BY <3>1, <2>1, <1>8, Zenon DEF Tidy
  <2>2. CASE i \in DOMAIN a /\ j \notin DOMAIN a
    <3>1. c[i] = a[i] /\ c[j] = b[j - Len(a)] /\ j - Len(a) \in DOMAIN b
      BY <1>5, <2>2, Zenon
    <3> QED BY <3>1, <2>2, <1>8, <1>7, Zenon
  <2>3. CASE i \notin DOMAIN a /\ j \in DOMAIN a
    <3>1. c[j] = a[j] /\ c[i] = b[i - Len(a)] /\ i - Len(a) \in DOMAIN b
      BY <1>5, <2>3, Zenon
    <3>2. c[j].adds[m].makes \cap c[i].adds[k].makes = {}
      BY <3>1, <2>3, <1>8, <1>7, Zenon
    <3> QED BY <3>2
  <2>4. CASE i \notin DOMAIN a /\ j \notin DOMAIN a
    <3>1. /\ c[i] = b[i - Len(a)] /\ i - Len(a) \in DOMAIN b
          /\ c[j] = b[j - Len(a)] /\ j - Len(a) \in DOMAIN b
      BY <1>5, <2>4, Zenon
    <3>2. i - Len(a) # j - Len(a)
      BY <1>8, <1>3, <1>4
    <3> QED BY <3>1, <3>2, <1>8, Zenon DEF Tidy
  <2> QED BY <2>1, <2>2, <2>3, <2>4
<1>9. \E E : c \in Seq(E)
  BY <1>4
<1> QED BY <1>6, <1>8, <1>9, Zenon DEF Tidy

\* A set of places in a list has a last member.
LEMMA LastPlace ==
    ASSUME NEW n \in Nat, NEW I, I \subseteq 1 .. n, I # {}
    PROVE  \E i \in I : \A j \in I : ~ (i < j)
<1> DEFINE B == {n - i : i \in I}
<1>1. B \subseteq Nat /\ B # {}
  <2>1. \A i \in I : n - i \in Nat
    OBVIOUS
  <2> QED BY <2>1
<1>2. PICK d \in B : \A e \in B : <<e, d>> \notin OpToRel(<, Nat)
  BY <1>1, NatLessThanWellFounded, WFMin
<1>3. PICK i \in I : d = n - i
  OBVIOUS
<1>4. ASSUME NEW j \in I, i < j PROVE FALSE
  <2>1. n - j \in B /\ n - j < n - i
    BY <1>4
  <2> QED BY <2>1, <1>1, <1>2, <1>3 DEF OpToRel
<1> QED BY <1>4

\* What the templates of the configurations are relied on for.
Sorted(template, things) ==
    /\ Makes(template) \subseteq things
    /\ Kept(template) = {t \in Makes(template) : t[1] = "s3"}
    /\ \A k, m \in DOMAIN template.res :
           k # m => template.res[k].makes \cap template.res[m].makes = {}

LEMMA TemplateSorted ==
    ASSUME NEW calls, NEW things, Tidy(calls, things)
    PROVE  Sorted(Template(calls), things)
<1> DEFINE res == Template(calls).res
           keys == KeysBefore(calls, Len(calls) + 1)
<1>0. PICK C : calls \in Seq(C)
  BY Zenon DEF Tidy
<1>1. /\ DOMAIN res = keys
      /\ \A k \in keys : res[k] = Resolved(calls[LastFor(calls, k)].adds[k],
                                          KeysBefore(calls, LastFor(calls, k)))
  BY DEF Template
<1>2. ASSUME NEW k \in keys
      PROVE  LastFor(calls, k) \in DOMAIN calls /\ k \in DOMAIN calls[LastFor(calls, k)].adds
  <2> DEFINE Is(i) == i \in DOMAIN calls /\ k \in DOMAIN calls[i].adds
  <2>1. PICK j \in 1 .. Len(calls) : k \in DOMAIN calls[j].adds
    BY <1>0 DEF KeysBefore
  <2>2. \E i \in DOMAIN calls : Is(i) /\ \A m \in i + 1 .. Len(calls) : ~ Is(m)
    <3> DEFINE I == {i \in 1 .. Len(calls) : Is(i)}
    <3>1. I # {} /\ I \subseteq 1 .. Len(calls) /\ Len(calls) \in Nat
      BY <1>0, <2>1
    <3>2. PICK i \in I : \A m \in I : ~ (i < m)
      BY <3>1, LastPlace
    <3> QED BY <3>2, <1>0
  <2> QED BY <2>2 DEF LastFor
<1>3. ASSUME NEW k \in keys
      PROVE  LET i == LastFor(calls, k)
             IN  /\ i \in DOMAIN calls /\ k \in DOMAIN calls[i].adds
                 /\ res[k].makes = calls[i].adds[k].makes
                 /\ res[k].keep = calls[i].adds[k].keep
  <2> DEFINE i == LastFor(calls, k)
             r == calls[i].adds[k]
  <2>1. Gives(calls[i], things)
    BY <1>2, Zenon DEF Tidy
  <2>2. IsResource(r)
    BY <1>2, <2>1, Zenon DEF Gives, Neat
  <2>3. \A keys1 : Resolved(r, keys1).makes = r.makes /\ Resolved(r, keys1).keep = r.keep
    <3> HIDE DEF r
    <3> QED BY <2>2 DEF Resolved, IsResource
  <2> QED BY <1>1, <1>2, <2>3
<1>4. ASSUME NEW k \in keys
      PROVE  res[k].makes \subseteq things /\ \A t \in res[k].makes : res[k].keep <=> t[1] =
              "s3"
  <2> DEFINE i == LastFor(calls, k)
  <2>1. Gives(calls[i], things)
    BY <1>3, Zenon DEF Tidy
  <2>2. calls[i].adds[k].makes \subseteq things
    BY <1>3, <2>1, Zenon DEF Gives, Neat
  <2>3. \A t \in calls[i].adds[k].makes : calls[i].adds[k].keep <=> t[1] = "s3"
    BY <1>3, <2>1, Zenon DEF Gives, Neat
  <2> QED BY <1>3, <2>2, <2>3, Zenon
<1>5. ASSUME NEW k \in keys, NEW m \in keys, k # m
      PROVE  res[k].makes \cap res[m].makes = {}
  <2> DEFINE i == LastFor(calls, k)
             j == LastFor(calls, m)
  <2>1. /\ i \in DOMAIN calls /\ k \in DOMAIN calls[i].adds
        /\ j \in DOMAIN calls /\ m \in DOMAIN calls[j].adds
    BY <1>3
  <2>2. calls[i].adds[k].makes \cap calls[j].adds[m].makes = {}
    <3>1. CASE i = j
      BY <2>1, <3>1, <1>5, Zenon DEF Tidy, Gives, Neat
    <3>2. CASE i # j
      BY <2>1, <3>2, Zenon DEF Tidy
    <3> QED BY <3>1, <3>2
  <2> QED BY <1>3, <2>2, Zenon
<1>6. \A t \in Template(calls).outs : t \in things /\ t[1] # "s3"
  <2>1. Template(calls).outs = UNION {calls[i].outs : i \in DOMAIN calls}
    BY DEF Template
  <2>2. \A i \in DOMAIN calls : Gives(calls[i], things)
    BY Zenon DEF Tidy
  <2> QED BY <2>1, <2>2, Zenon DEF Gives
<1>7. Makes(Template(calls)) = Template(calls).outs \cup UNION {res[k].makes : k \in keys}
  BY <1>1 DEF Makes
<1>8. Kept(Template(calls)) = UNION {res[k].makes : k \in {r \in keys : res[r].keep}}
  BY <1>1 DEF Kept
<1> HIDE DEF res, keys
<1>9. Makes(Template(calls)) \subseteq things
  BY <1>7, <1>4, <1>6
<1>10. Kept(Template(calls)) = {t \in Makes(Template(calls)) : t[1] = "s3"}
  BY <1>7, <1>8, <1>4, <1>6
<1> QED BY <1>1, <1>5, <1>9, <1>10 DEF Sorted, res

-------------------------------------------------------------------------------
(***************************************************************************)
(* What the methods add                                                    *)
(***************************************************************************)
\* The record of a machine has its own name.
RecordOf(hostname) == <<"record", hostname>>
Recorded(names) == names \cup {RecordOf(n) : n \in names}

LEMMA RecordedOne ==
    ASSUME NEW n
    PROVE  Recorded({n}) = {n} \cup {RecordOf(n)}
  BY DEF Recorded

\* What is neither a bucket nor a record.
Plain(n) == n[1] \notin {"s3", "record"}

LEMMA PlainNames ==
    ASSUME NEW n, Plain(n)
    PROVE  n[1] # "s3" /\ {n} \cap {RecordOf(n)} = {}
  BY DEF Plain, RecordOf

LEMMA PlainBuild ==
    ASSUME NEW resource, NEW type, type \notin {"s3", "record"}
    PROVE  Plain(build(resource, type))
  BY DEF Plain, build

\* One resource that makes nothing, and one that makes one thing.
LEMMA NeatOne ==
    ASSUME NEW key, NEW refs, NEW names
    PROVE  /\ Neat(At(key, Resource(refs, {}, names)), {})
           /\ \A t : t[1] # "s3" => Neat(At(key, Resource(refs, {t}, names)), {t})
<1>1. Neat(At(key, Resource(refs, {}, names)), {})
  <2>1. IsResource(Resource(refs, {}, names)) /\ Resource(refs, {}, names).makes = {}
    BY DEF IsResource, Resource
  <2> QED BY <2>1, NeatAt
<1>2. ASSUME NEW t, t[1] # "s3"
      PROVE  Neat(At(key, Resource(refs, {t}, names)), {t})
  <2>1. /\ IsResource(Resource(refs, {t}, names)) /\ Resource(refs, {t}, names).makes = {t}
        /\ Resource(refs, {t}, names).keep = FALSE
    BY DEF IsResource, Resource
  <2>2. \A x \in Resource(refs, {t}, names).makes :
           Resource(refs, {t}, names).keep <=> x[1] = "s3"
    BY <2>1, <1>2
  <2>3. Resource(refs, {t}, names).makes \subseteq {t}
    BY <2>1
  <2> QED BY <2>1, <2>2, <2>3, NeatAt
<1> QED BY <1>1, <1>2

LEMMA AddsOne ==
    ASSUME NEW key, NEW refs, NEW names
    PROVE  /\ Gives(Add(key, refs, {}, names), {})
           /\ \A t : t[1] # "s3" => Gives(Add(key, refs, {t}, names), {t})
  BY NeatOne, GivesAdds DEF Add

\* Lookups and arguments add nothing that is made.
LEMMA LooksUp ==
    ASSUME NEW x, NEW y
    PROVE  /\ Gives(Must(x), {}) /\ Gives(May(x), {})
           /\ Gives(add_arg(x), {}) /\ Gives(find_vpc, {})
           /\ Gives(find_all_subnets(x, y), {})
  BY DEF Gives, Neat, Must, May, add_arg, find_vpc, find_all_subnets, NoCall

LEMMA Exports ==
    ASSUME NEW x
    PROVE  Gives(add_output(x), {<<"export", x>>})
  BY DEF Gives, Neat, add_output, NoCall

\* Of two resources of a call the one makes what the other does not.
LEMMA AddsTwo ==
    ASSUME NEW r, NEW s, NEW A, NEW B, Neat(r, A), Neat(s, B), A \cap B = {}
    PROVE  Gives(Adds(Both(r, s)), A \cup B)
  BY NeatBoth, GivesAdds

LEMMA Nats ==
    ASSUME NEW key, NEW refs
    PROVE  Gives(add_nat(key, refs), {})
  BY NeatOne, AddsTwo DEF add_nat

LEMMA Gateways ==
    ASSUME NEW key, NEW name, Plain(name)
    PROVE  Gives(add_internet_gateway(key, name), {name})
<1>1. Gives(add_internet_gateway(key, name), {name} \cup {})
  <2>1. \A k, refs : Neat(At(k, Resource(refs, {name}, {})), {name})
    BY PlainNames, NeatOne
  <2>2. \A k, refs : Neat(At(k, Resource(refs, {}, {})), {})
    BY NeatOne
  <2>3. {name} \cap {} = {}
    OBVIOUS
  <2> QED BY <2>1, <2>2, <2>3, AddsTwo DEF add_internet_gateway
<1>2. {name} \cup {} = {name}
  OBVIOUS
<1> QED BY <1>1, <1>2

LEMMA VPCs == Gives(add_vpc, {VPC, Zone})
<1>1. VPC[1] # "s3" /\ Zone[1] # "s3" /\ VPC # Zone
  BY DEF VPC, Zone
<1>2. Gives(add_vpc, {VPC} \cup {Zone})
  BY <1>1, NeatOne, AddsTwo DEF add_vpc
<1>3. {VPC} \cup {Zone} = {VPC, Zone}
  OBVIOUS
<1> QED BY <1>2, <1>3

LEMMA NeatRecord ==
    ASSUME NEW key, NEW hostname
    PROVE  Neat(Record(key, hostname), {RecordOf(hostname)})
<1> DEFINE r == [Resource({key}, {RecordOf(hostname)}, {Zone}) EXCEPT !.soft = {"DNSZone"}]
<1>1. IsResource(r) /\ r.makes = {RecordOf(hostname)} /\ r.keep = FALSE
  <2>1. ASSUME NEW q, IsResource(q)
        PROVE  LET p == [q EXCEPT !.soft = {"DNSZone"}]
               IN  IsResource(p) /\ p.makes = q.makes /\ p.keep = q.keep
    BY <2>1 DEF IsResource
  <2>2. LET q == Resource({key}, {RecordOf(hostname)}, {Zone})
        IN  IsResource(q) /\ q.makes = {RecordOf(hostname)} /\ q.keep = FALSE
    BY DEF Resource, IsResource
  <2> QED BY <2>1, <2>2
<1>2. RecordOf(hostname)[1] # "s3"
  BY DEF RecordOf
<1> HIDE DEF r
<1>3. \A x \in r.makes : r.keep <=> x[1] = "s3"
  BY <1>1, <1>2
<1>4. Neat(At(key \o "Record", r), {RecordOf(hostname)})
  BY <1>1, <1>3, NeatAt
<1> QED BY <1>4 DEF Record, RecordOf, r

LEMMA Machines ==
    ASSUME NEW key, NEW hostname, Plain(hostname), NEW refs
    PROVE  Gives(add_ec2_instance(key, hostname, refs), Recorded({hostname}))
<1>1. hostname[1] # "s3" /\ {hostname} \cap {RecordOf(hostname)} = {}
  BY PlainNames
<1>2. Gives(add_ec2_instance(key, hostname, refs), {hostname} \cup {RecordOf(hostname)})
  BY <1>1, NeatOne, NeatRecord, AddsTwo DEF add_ec2_instance
<1> QED BY <1>2, RecordedOne

LEMMA Groups ==
    ASSUME NEW key, NEW hostname, Plain(hostname), NEW refs, NEW configuration
    PROVE  Gives(add_autoscale_group(key, hostname, refs, configuration), {hostname})
<1>1. Gives(add_autoscale_group(key, hostname, refs, configuration), {hostname} \cup {})
  <2> DEFINE r == Both(At(key, Resource(refs \union {key \o "Configuration"}, {hostname}, {})),
                       At(key \o "Configuration", Resource(configuration, {}, {})))
  <2>1. Gives(Adds(r), {hostname} \cup {})
    <3>1. Neat(At(key, Resource(refs \union {key \o "Configuration"}, {hostname}, {})),
            {hostname})
      BY PlainNames, NeatOne
    <3>2. Neat(At(key \o "Configuration", Resource(configuration, {}, {})), {})
      BY NeatOne
    <3>3. {hostname} \cap {} = {}
      OBVIOUS
    <3> QED BY <3>1, <3>2, <3>3, AddsTwo
  <2> HIDE DEF r
  <2>2. ASSUME NEW q
        PROVE  LET c == [Adds(r) EXCEPT !.args = q]
               IN  c.adds = Adds(r).adds /\ c.outs = Adds(r).outs
    BY DEF Adds, NoCall
  <2>3. Gives([Adds(r) EXCEPT !.args = {key \o "Hostname"}], {hostname} \cup {})
    BY <2>1, <2>2 DEF Gives
  <2> QED BY <2>3 DEF add_autoscale_group, r
<1>2. {hostname} \cup {} = {hostname}
  OBVIOUS
<1> QED BY <1>1, <1>2

LEMMA GroupPolicies ==
    ASSUME NEW key, NEW asg
    PROVE  Gives(add_autoscale_policy(key, asg), {})
<1>1. {} \cap {} = {} /\ {} \cup {} = {}
  OBVIOUS
<1>2. Gives(add_autoscale_policy(key, asg), {} \cup {})
  BY <1>1, NeatOne, AddsTwo DEF add_autoscale_policy
<1> QED BY <1>1, <1>2

LEMMA Balancers ==
    ASSUME NEW key, NEW name, NEW refs
    PROVE  /\ Gives(add_loadbalancer(key, name, refs), {<<"lb", name>>})
           /\ Gives(add_app_loadbalancer(key, name, refs), {<<"lb", name>>})
<1>1. <<"lb", name>>[1] # "s3"
  OBVIOUS
<1>2. Gives(add_loadbalancer(key, name, refs), {<<"lb", name>>})
  BY <1>1, AddsOne DEF add_loadbalancer
<1>3. Gives(add_app_loadbalancer(key, name, refs), {<<"lb", name>>})
  <2>1. /\ {} \cap {} = {} /\ {} \cup {} = {} /\ {} \cup {<<"lb", name>>} = {<<"lb", name>>}
        /\ {} \cap {<<"lb", name>>} = {}
    OBVIOUS
  <2>2. \A k, R : Neat(At(k, Resource(R, {}, {})), {})
    BY NeatOne
  <2>3. Neat(At(key, Resource(refs, {<<"lb", name>>}, {})), {<<"lb", name>>})
    BY <1>1, NeatOne
  <2>4. \A j, k, Q, R : Neat(Both(At(j, Resource(Q, {}, {})), At(k, Resource(R, {}, {}))), {})
    BY <2>1, <2>2, NeatBoth
  <2>5. \A k, R : Neat(Both(At(k, Resource(R, {}, {})),
                           At(key, Resource(refs, {<<"lb", name>>}, {}))), {<<"lb", name>>})
    BY <2>1, <2>2, <2>3, NeatBoth
  <2> QED BY <2>1, <2>4, <2>5, AddsTwo DEF add_app_loadbalancer
<1> QED BY <1>2, <1>3

\* Databases and caches make themselves and their record.
LEMMA Databases ==
    ASSUME NEW key, NEW hostname, Plain(hostname), NEW subnets, NEW sgs
    PROVE  /\ Gives(add_rds_db(key, hostname, subnets, sgs), Recorded({hostname}))
           /\ \A parameters \in BOOLEAN :
                 Gives(add_redis_replication(key, hostname, subnets, parameters),
                       Recorded({hostname}))
<1>1. hostname[1] # "s3" /\ {hostname} \cap {RecordOf(hostname)} = {}
  BY PlainNames
<1>2. /\ {hostname} \cup {RecordOf(hostname)} = Recorded({hostname})
      /\ {hostname} \cap {} = {} /\ {hostname} \cup {} = {hostname}
      /\ {} \cap {RecordOf(hostname)} = {} /\ {} \cup {RecordOf(hostname)} =
              {RecordOf(hostname)}
  BY RecordedOne
<1>3. \A R : Neat(At(key, Resource(R, {hostname}, {})), {hostname})
  BY <1>1, NeatOne
<1>4. Neat(SubnetGroup(key, subnets), {})
  BY NeatOne DEF SubnetGroup
<1>5. Neat(Record(key, hostname), {RecordOf(hostname)})
  BY NeatRecord
<1>6. \A R : Neat(Both(At(key, Resource(R, {hostname}, {})), SubnetGroup(key, subnets)),
        {hostname})
  BY <1>2, <1>3, <1>4, NeatBoth
<1>7. Gives(add_rds_db(key, hostname, subnets, sgs), Recorded({hostname}))
  <2>1. Gives(add_rds_db(key, hostname, subnets, sgs), {hostname} \cup {RecordOf(hostname)})
    BY <1>1, <1>5, <1>6, AddsTwo DEF add_rds_db
  <2> QED BY <2>1, <1>2
<1>8. ASSUME NEW parameters \in BOOLEAN
      PROVE  Gives(add_redis_replication(key, hostname, subnets, parameters),
                   Recorded({hostname}))
  <2> DEFINE group == IF parameters THEN {key \o "ParameterGroup"} ELSE {}
             f == [k \in group |-> Resource({}, {}, {})]
  <2>1. IsResource(Resource({}, {}, {})) /\ Resource({}, {}, {}).makes = {}
    BY DEF Resource, IsResource
  <2>2. Neat(f, {})
    <3>1. \A k \in DOMAIN f : f[k] = Resource({}, {}, {})
      OBVIOUS
    <3> HIDE DEF f
    <3> QED BY <3>1, <2>1, NeatNothing
  <2>3. Neat(Both(f, Record(key, hostname)), {RecordOf(hostname)})
    <3> HIDE DEF f
    <3> QED BY <1>2, <2>2, <1>5, NeatBoth
  <2>4. Gives(Adds(Both(Both(At(key, Resource({key \o "SubnetGroup"} \union group, {hostname},
          {})),
                             SubnetGroup(key, subnets)),
                        Both(f, Record(key, hostname)))), {hostname} \cup {RecordOf(hostname)})
    <3> HIDE DEF f, group
    <3> QED BY <1>1, <1>6, <2>3, AddsTwo
  <2> QED BY <2>4, <1>2 DEF add_redis_replication
<1> QED BY <1>7, <1>8

LEMMA Buckets ==
    ASSUME NEW key, NEW name, name[1] = "s3"
    PROVE  Gives(add_s3_bucket(key, name), {name})
<1> DEFINE r == Retained(Resource({}, {name}, {}))
<1>1. IsResource(r) /\ r.makes = {name} /\ r.keep = TRUE
  <2>1. ASSUME NEW q, IsResource(q)
        PROVE  IsResource(Retained(q)) /\ Retained(q).makes = q.makes /\ Retained(q).keep = TRUE
    <3>1. DOMAIN q = {"refs", "soft", "makes", "names", "keep"}
      BY <2>1 DEF IsResource
    <3>2. \A x : [q EXCEPT !.keep = x] =
                    [refs |-> q.refs, soft |-> q.soft, makes |-> q.makes,
                     names |-> q.names, keep |-> x]
      BY <2>1, <3>1 DEF IsResource
    <3>3. Retained(q) = [refs |-> q.refs, soft |-> q.soft, makes |-> q.makes,
                         names |-> q.names, keep |-> TRUE]
      BY <3>2, Zenon DEF Retained
    <3> QED BY <3>3 DEF IsResource
  <2>2. IsResource(Resource({}, {name}, {})) /\ Resource({}, {name}, {}).makes = {name}
    BY DEF Resource, IsResource
  <2> QED BY <2>1, <2>2
<1> HIDE DEF r
<1>2. r.makes \subseteq {name} /\ \A t \in r.makes : r.keep <=> t[1] = "s3"
  BY <1>1
<1>3. Neat(At(key, r), {name})
  BY <1>1, <1>2, NeatAt
<1> QED BY <1>3, GivesAdds DEF add_s3_bucket, r

LEMMA Keys ==
    ASSUME NEW key, NEW name, Plain(name)
    PROVE  Gives(add_kms_key(key, name), {name})
<1>1. name[1] # "s3" /\ {} \cap {name} = {}
  BY PlainNames
<1>2. /\ Neat(At(key, Resource({}, {}, {})), {})
      /\ Neat(At(key \o "Alias", Resource({key}, {name}, {})), {name})
  BY <1>1, NeatOne
<1>3. Gives(add_kms_key(key, name), {} \cup {name})
  BY <1>1, <1>2, AddsTwo DEF add_kms_key
<1>4. {} \cup {name} = {name}
  OBVIOUS
<1> QED BY <1>3, <1>4

\* The keys of the subnets of zones, and the subnets.
SubnetKeys(azs) == UNION {{InternalKey(z), ExternalKey(z)} : z \in azs}
SubnetsOf(keys) == {Subnet(k) : k \in keys}

LEMMA NeatSubnets ==
    ASSUME NEW keys, NEW refs
    PROVE  Neat([k \in keys |-> Resource(refs, {Subnet(k)}, {})], SubnetsOf(keys))
<1> DEFINE r == [k \in keys |-> Resource(refs, {Subnet(k)}, {})]
<1>1. ASSUME NEW k \in keys
      PROVE  IsResource(r[k]) /\ r[k].makes = {Subnet(k)} /\ r[k].keep = FALSE
  <2>1. r[k] = Resource(refs, {Subnet(k)}, {})
    OBVIOUS
  <2>2. \A t : LET q == Resource(refs, {t}, {})
               IN  IsResource(q) /\ q.makes = {t} /\ q.keep = FALSE
    BY DEF Resource, IsResource
  <2> HIDE DEF r
  <2> QED BY <2>1, <2>2
<1>2. DOMAIN r = keys
  OBVIOUS
<1>3. \A k, m : Subnet(k)[1] # "s3" /\ (Subnet(k) = Subnet(m) => k = m)
  BY DEF Subnet
<1> HIDE DEF r
<1>4. Neat(r, SubnetsOf(keys))
  <2>1. \A k \in DOMAIN r : IsResource(r[k]) /\ r[k].makes \subseteq SubnetsOf(keys)
    BY <1>1, <1>2 DEF SubnetsOf
  <2>2. ASSUME NEW k \in DOMAIN r, NEW t \in r[k].makes
        PROVE  r[k].keep <=> t[1] = "s3"
    <3>1. r[k].keep = FALSE /\ t = Subnet(k)
      BY <1>1, <1>2
    <3> QED BY <3>1, <1>3
  <2>3. ASSUME NEW k \in DOMAIN r, NEW m \in DOMAIN r, k # m
        PROVE  r[k].makes \cap r[m].makes = {}
    <3>1. r[k].makes = {Subnet(k)} /\ r[m].makes = {Subnet(m)} /\ Subnet(k) # Subnet(m)
      BY <1>1, <1>2, <1>3, <2>3
    <3> QED BY <3>1
  <2> QED BY <2>1, <2>2, <2>3 DEF Neat
<1> QED BY <1>4 DEF r

LEMMA Subnetworks ==
    ASSUME NEW azs
    PROVE  /\ Gives(add_all_subnets(azs), SubnetsOf(SubnetKeys(azs)))
           /\ Gives(add_all_lambda_subnets, SubnetsOf(LambdaKeys))
  BY NeatSubnets, GivesAdds DEF add_all_subnets, add_all_lambda_subnets, SubnetKeys

LEMMA Routes ==
    ASSUME NEW key, NEW name, Plain(name), NEW subnets
    PROVE  Gives(add_route_table(key, name, subnets), {name})
<1> DEFINE keys == {key \o "SubnetAssociation" \o s : s \in subnets}
           R(k) == {key, CHOOSE s \in subnets : k = key \o "SubnetAssociation" \o s}
           f == [k \in keys |-> Resource(R(k), {}, {})]
<1>1. Neat(f, {})
  <2>1. \A k \in DOMAIN f : f[k] = Resource(R(k), {}, {})
    OBVIOUS
  <2>2. \A Q : IsResource(Resource(Q, {}, {})) /\ Resource(Q, {}, {}).makes = {}
    BY DEF Resource, IsResource
  <2> HIDE DEF f
  <2> QED BY <2>1, <2>2, NeatNothing
<1>2. Neat(At(key, Resource({"VPC"}, {name}, {})), {name})
  BY PlainNames, NeatOne
<1>3. {name} \cap {} = {} /\ {name} \cup {} = {name}
  OBVIOUS
<1>4. Gives(Adds(Both(At(key, Resource({"VPC"}, {name}, {})), f)), {name} \cup {})
  <2> HIDE DEF f
  <2> QED BY <1>1, <1>2, <1>3, AddsTwo
<1> QED BY <1>4, <1>3 DEF add_route_table

\* A queue makes one queue, a call without a made thing nothing.
LEMMA AddsNamed ==
    ASSUME NEW key, NEW name, Plain(name), NEW a
    PROVE  /\ Gives(add_subnet(key, name), {name})
           /\ Gives(add_security_group(key, name, a), {name})
           /\ Gives(add_dynamo_table(key, name), {name})
           /\ Gives(add_dynamo_table_from_json(key, name), {name})
           /\ Gives(add_lambda(key, name, a), {name})
           /\ Gives(add_cloudwatch_rule(key, name, a), {name})
           /\ Gives(add_event_rule(key, name), {name})
           /\ Gives(add_sns_topic(key, name, a), {name})
  BY PlainNames, AddsOne
     DEF add_subnet, add_security_group, add_dynamo_table, add_dynamo_table_from_json,
         add_lambda, add_cloudwatch_rule, add_event_rule, add_sns_topic

LEMMA AddsNothing ==
    ASSUME NEW key, NEW a, NEW b, NEW c
    PROVE  /\ Gives(add_endpoint(key, a), {}) /\ Gives(add_custom_resource(key, a), {})
           /\ Gives(add_route_table_route(key, a, b, c), {})
           /\ Gives(add_s3_bucket_policy(key, a), {})
           /\ Gives(add_lambda_permission(key, a, b), {})
           /\ Gives(add_lambda_event_source(key, a, b), {})
           /\ Gives(add_sqs_policy(key, a), {})
  BY AddsOne DEF add_endpoint, add_custom_resource, add_route_table_route, add_s3_bucket_policy,
                 add_lambda_permission, add_lambda_event_source, add_sqs_policy

LEMMA AddsTagged ==
    ASSUME NEW key, NEW a, NEW b
    PROVE  /\ Gives(add_public_dns(key, a), {<<"public", a>>})
           /\ Gives(add_data_pipeline(key, a, b), {<<"pipeline", a>>})
           /\ Gives(add_sqs_queue(a, b), {build(a, "sqs")})
<1>1. /\ <<"public", a>>[1] # "s3" /\ <<"pipeline", a>>[1] # "s3" /\ build(a, "sqs")[1] # "s3"
  BY DEF build
<1> QED BY <1>1, AddsOne DEF add_public_dns, add_data_pipeline, add_sqs_queue

\* How the names that are made are spelled.
LEMMA SpelledSubnets ==
    ASSUME NEW keys, NEW t \in SubnetsOf(keys)
    PROVE  t[1] = "zone_subnet"
<1>1. PICK k \in keys : t = Subnet(k)
  BY DEF SubnetsOf
<1> QED BY <1>1 DEF Subnet

LEMMA SpelledRecords ==
    ASSUME NEW resource, NEW type, NEW t \in Recorded({build(resource, type)})
    PROVE  \/ t[1] = "record" /\ t[2] = build(resource, type)
           \/ t[1] = type /\ t[2] = resource
<1>1. t = build(resource, type) \/ t = RecordOf(build(resource, type))
  BY RecordedOne
<1>2. CASE t = build(resource, type)
  BY <1>2 DEF build
<1>3. CASE t = RecordOf(build(resource, type))
  BY <1>3 DEF RecordOf
<1> QED BY <1>1, <1>2, <1>3

-------------------------------------------------------------------------------
(***************************************************************************)
(* What the configurations create                                          *)
(***************************************************************************)
Of(type, resources) == {build(r, type) : r \in resources}

LEMMA TidyOne ==
    ASSUME NEW call, NEW things, Gives(call, things)
    PROVE  Tidy(<<call>>, things)
<1> DEFINE c == <<call>>
<1>1. c \in Seq({call}) /\ DOMAIN c = {1} /\ c[1] = call
  OBVIOUS
<1> HIDE DEF c
<1>2. Tidy(c, things)
  BY <1>1 DEF Tidy
<1> QED BY <1>2 DEF c

LEMMA TidyPair ==
    ASSUME NEW a, NEW b, NEW A, NEW B, Gives(a, A), Gives(b, B), A \cap B = {}
    PROVE  Tidy(<<a, b>>, A \cup B)
<1> DEFINE c == <<a, b>>
           own == <<A, B>>
<1>1. c \in Seq({a, b}) /\ DOMAIN c = {1, 2} /\ c[1] = a /\ c[2] = b
  OBVIOUS
<1>2. own[1] = A /\ own[2] = B
  OBVIOUS
<1> HIDE DEF c, own
<1>3. \A i \in DOMAIN c : Gives(c[i], own[i]) /\ own[i] \subseteq A \cup B
  BY <1>1, <1>2
<1>4. \A i, j \in DOMAIN c : i # j => own[i] \cap own[j] = {}
  BY <1>1, <1>2
<1>5. Tidy(c, A \cup B)
  BY <1>1, <1>3, <1>4, TidyRow
<1> QED BY <1>5 DEF c

LEMMA TidyIf ==
    ASSUME NEW condition, NEW call, NEW things, condition => Gives(call, things)
    PROVE  Tidy(If(condition, call), things)
<1>1. CASE condition
  BY <1>1, TidyOne DEF If
<1>2. CASE ~ condition
  <2>1. If(condition, call) = << >>
    BY <1>2 DEF If
  <2>2. << >> \in Seq({call}) /\ DOMAIN << >> = {}
    OBVIOUS
  <2> QED BY <2>1, <2>2 DEF Tidy
<1> QED BY <1>1, <1>2

\* More calls that make nothing.
LEMMA TidyQuiet ==
    ASSUME NEW a, NEW b, NEW A, Tidy(a, A), Tidy(b, {})
    PROVE  Tidy(a \o b, A) /\ Tidy(b \o a, A)
<1>1. A \cap {} = {} /\ {} \cap A = {} /\ A \cup {} = A /\ {} \cup A = A
  OBVIOUS
<1>2. Tidy(a \o b, A \cup {}) /\ Tidy(b \o a, {} \cup A)
  BY <1>1, TidyJoined
<1> QED BY <1>1, <1>2

\* A group with its balancer.
LEMMA ScaledBalanced ==
    ASSUME NEW key, NEW host, Plain(host), host[1] # "lb", NEW inner, NEW outer, NEW sgs,
            NEW deps
    PROVE  Tidy(create_asg_elb(key, host, inner, outer, sgs, deps), {host} \cup {<<"lb",
            host>>})
<1> DEFINE a == add_autoscale_group(key, host, inner \cup {key \o "LoadBalancer", "DNSSNS"},
                                    {"InternalSecurityGroup"} \cup sgs)
           b == add_loadbalancer(key \o "LoadBalancer", host,
                                 outer \cup {"InternalSecurityGroup"} \cup sgs \cup deps)
<1>1. Gives(a, {host}) /\ Gives(b, {<<"lb", host>>})
  BY Groups, Balancers
<1>2. {host} \cap {<<"lb", host>>} = {}
  <2>1. <<"lb", host>>[1] = "lb"
    OBVIOUS
  <2> QED BY <2>1
<1>3. create_asg_elb(key, host, inner, outer, sgs, deps) = <<a, b>>
  BY DEF create_asg_elb
<1> HIDE DEF a, b
<1>4. Tidy(<<a, b>>, {host} \cup {<<"lb", host>>})
  BY <1>1, <1>2, TidyPair
<1> QED BY <1>3, <1>4

LEMMA Associations ==
    Gives(Adds([k \in {l \o "RTA" : l \in LambdaKeys} |->
                  Resource({CHOOSE l \in LambdaKeys : k = l \o "RTA"}, {}, {})]), {})
<1> DEFINE keys == {l \o "RTA" : l \in LambdaKeys}
           R(k) == {CHOOSE l \in LambdaKeys : k = l \o "RTA"}
           f == [k \in keys |-> Resource(R(k), {}, {})]
<1>1. Neat(f, {})
  <2>1. \A k \in DOMAIN f : f[k] = Resource(R(k), {}, {})
    OBVIOUS
  <2>2. \A Q : IsResource(Resource(Q, {}, {})) /\ Resource(Q, {}, {}).makes = {}
    BY DEF Resource, IsResource
  <2> HIDE DEF f
  <2> QED BY <2>1, <2>2, NeatNothing
<1> QED BY <1>1, GivesAdds

LEMMA Alarms == Gives(add_cloudwatch, {})
<1> DEFINE f == [k \in {"Latency", "SurgeCount", "UnhealthyHostCount"} |-> Resource({}, {}, {})]
<1>1. Neat(f, {})
  <2>1. \A k \in DOMAIN f : f[k] = Resource({}, {}, {})
    OBVIOUS
  <2>2. IsResource(Resource({}, {}, {})) /\ Resource({}, {}, {}).makes = {}
    BY DEF Resource, IsResource
  <2> HIDE DEF f
  <2> QED BY <2>1, <2>2, NeatNothing
<1> QED BY <1>1, GivesAdds DEF add_cloudwatch

LEMMA BucketTidy ==
    ASSUME NEW key, NEW name, name[1] = "s3", NEW have
    PROVE  Tidy(BucketAndPolicy(key, name, have), {name} \ have)
<1>1. ~ s3_bucket_exists(name, have) => Gives(add_s3_bucket(key, name), {name} \ have)
  <2>1. ASSUME name \notin have PROVE Gives(add_s3_bucket(key, name), {name} \ have)
    <3>1. {name} \ have = {name}
      BY <2>1
    <3> QED BY <3>1, Buckets
  <2> QED BY <2>1 DEF s3_bucket_exists
<1>2. Tidy(<<add_s3_bucket_policy(key \o "Policy", name)>>, {})
  BY AddsNothing, TidyOne
<1> QED BY <1>1, <1>2, TidyIf, TidyQuiet DEF BucketAndPolicy

-------------------------------------------------------------------------------
(***************************************************************************)
(* Who makes what                                                          *)
(***************************************************************************)
\* The configuration that makes a thing, and the part of its template.
Makers ==
    [vpc    |-> [VPC |-> <<"core", 1>>],
     zone   |-> [internal |-> <<"core", 1>>],
     subnet |-> [internal |-> <<"core", 1>>, external |-> <<"core", 1>>],
     lambda |-> [delete_eni |-> <<"core", 1>>, dns |-> <<"core", 3>>,
                 multi_lambda |-> <<"cachedb", 4>>, tile_uploaded |-> <<"cachedb", 4>>,
                 tile_ingest |-> <<"cachedb", 4>>, delete_tile_objs |-> <<"cachedb", 4>>,
                 delete_tile_index_entry |-> <<"cachedb", 4>>,
                 cuboid_import_lambda |-> <<"cachedb", 4>>,
                 volumetric_ingest_queue_upload_lambda |-> <<"cachedb", 4>>,
                 ingest_lambda |-> <<"activities", 1>>,
                 downsample_volume |-> <<"activities", 1>>,
                 start_sfn |-> <<"activities", 1>>, downsample_dlq |-> <<"activities", 1>>,
                 index_s3_writer |-> <<"idindexing", 1>>,
                 index_write_id |-> <<"idindexing", 1>>,
                 index_write_failed |-> <<"idindexing", 1>>,
                 index_find_cuboids |-> <<"idindexing", 1>>,
                 index_batch_enqueue_cuboids |-> <<"idindexing", 1>>,
                 index_enqueue_ids |-> <<"idindexing", 1>>,
                 index_load_ids_from_s3 |-> <<"idindexing", 1>>,
                 vault_monitor |-> <<"cloudwatch", 1>>,
                 dynamo_lambda |-> <<"dynamolambda", 1>>,
                 copy_cuboid_lambda |-> <<"copycuboid", 1>>],
     dns    |-> [bastion |-> <<"core", 1>>, vault |-> <<"core", 1>>, auth |-> <<"core", 2>>,
                 endpoint_elb |-> <<"api", 3>>, endpoint |-> <<"api", 3>>,
                 endpoint_db |-> <<"api", 3>>, cachemanager |-> <<"cachedb", 3>>,
                 delete_event_rule |-> <<"activities", 1>>, activities |-> <<"activities", 1>>],
     key    |-> [vault |-> <<"core", 1>>],
     ddb    |-> [vault |-> <<"core", 1>>, meta |-> <<"api", 4>>, s3_index |-> <<"api", 4>>,
                 tile_index |-> <<"api", 4>>, id_index |-> <<"api", 4>>,
                 id_count_index |-> <<"api", 4>>],
     rds    |-> [auth_db |-> <<"core", 2>>],
     sns    |-> [dns |-> <<"core", 3>>, downsample_dlq |-> <<"activities", 1>>],
     sg     |-> [internal |-> <<"core", 3>>, ssh |-> <<"core", 3>>, auth |-> <<"core", 3>>,
                 https |-> <<"api", 1>>],
     rt     |-> [internal |-> <<"core", 3>>, internet |-> <<"core", 3>>],
     gw     |-> [internet |-> <<"core", 3>>],
     redis  |-> [cache |-> <<"redis", 1>>, cache_state |-> <<"redis", 1>>,
                 cache_session |-> <<"redis", 2>>],
     sqs    |-> [index_deadletter |-> <<"api", 2>>, index_cuboids_keys |-> <<"api", 2>>,
                 deadletter |-> <<"api", 2>>, downsample_queue |-> <<"api", 2>>,
                 s3flush |-> <<"api", 2>>, ingest_cleanup_dlq |-> <<"cachedb", 4>>,
                 cuboid_import_dlq |-> <<"cachedb", 4>>,
                 index_ids_queue |-> <<"idindexing", 1>>,
                 copy_cuboid_dlq |-> <<"copycuboid", 1>>],
     export |-> [index_cuboids_keys |-> <<"api", 2>>],
     public |-> [auth |-> <<"core", 2>>, api |-> <<"api", 3>>],
     s3     |-> [cuboid_bucket |-> <<"cachedb", 2>>, delete_bucket |-> <<"cachedb", 2>>,
                 tile_bucket |-> <<"cachedb", 2>>, ingest_bucket |-> <<"cachedb", 2>>,
                 backup |-> <<"backup", 1>>],
     cw     |-> [vault_check |-> <<"cloudwatch", 1>>,
                 trigger_dynamo_autoscale |-> <<"dynamolambda", 1>>]]

\* Records and balancers have the name of what they are for.
Maker(t) ==
    IF t[1] \in {"record", "lb"} THEN Makers[t[2][1]][t[2][2]]
    ELSE IF t[1] = "zone_subnet"
    THEN IF t[2] \in LambdaKeys THEN <<"cachedb", 1>> ELSE <<"core", 1>>
    ELSE IF t[1] = "pipeline"
    THEN IF t[2] = "auth-backup" THEN <<"backup", 3>> ELSE <<"backup", 2>>
    ELSE Makers[t[1]][t[2]]

BucketParts == {<<"cachedb", 2>>, <<"backup", 1>>}

\* Things of some parts: their names are known to names.py and are of nothing
\* that the account has already, and the buckets are in parts of their own.
Made(things, parts) ==
    \A t \in things :
        /\ Maker(t) \in parts
        /\ t[1] = "s3" <=> Maker(t) \in BucketParts
        /\ t[1] \in DOMAIN RESOURCES => IsAName(t)
        /\ t \notin ACCOUNT /\ t[1] # "upload"

LEMMA TypesOfNames ==
    DOMAIN RESOURCES = {"stack", "subnet", "dns", "lambda", "rds", "sns", "sqs", "sg", "rt",
                        "gw", "ami", "redis", "ddb", "s3", "sfn", "cw", "key"}
  BY SMTT(20) DEF RESOURCES

LEMMA MadeOf ==
    ASSUME NEW type, type \in DOMAIN RESOURCES, type \notin {"record", "s3"},
           NEW resources, resources \subseteq RESOURCES[type], NEW part,
           part \notin BucketParts,
           \A r \in resources : Makers[type][r] = part
    PROVE  Made(Of(type, resources), {part}) /\ Made(Recorded(Of(type, resources)), {part})
<1>1. type \notin {"record", "lb", "zone_subnet", "pipeline", "topic", "zone", "export",
                 "upload"}
  BY TypesOfNames
<1>2. ASSUME NEW t \in Of(type, resources) PROVE t[1] = type /\ t[2] \in resources
  BY DEF Of, build
<1>3. ASSUME NEW t \in Recorded(Of(type, resources)), t \notin Of(type, resources)
      PROVE  t[1] = "record" /\ t[2][1] = type /\ t[2][2] \in resources
  <2>1. PICK n \in Of(type, resources) : t = RecordOf(n)
    BY <1>3 DEF Recorded
  <2> QED BY <2>1, <1>2 DEF RecordOf
<1>4. \A t \in ACCOUNT : t[1] \in {"topic", "zone", "export"}
  BY DEF ACCOUNT, Topic, ExternalZone
<1>5. ASSUME NEW t \in Of(type, resources) PROVE Maker(t) = part /\ IsAName(t)
  BY <1>1, <1>2 DEF Maker, IsAName
<1>6. ASSUME NEW t \in Recorded(Of(type, resources)), t \notin Of(type, resources)
      PROVE  Maker(t) = part /\ t[1] \notin DOMAIN RESOURCES
  <2>1. "record" \notin DOMAIN RESOURCES
    BY TypesOfNames
  <2>2. t[1] = "record" /\ t[2][1] = type /\ t[2][2] \in resources
    BY <1>3, <1>6
  <2>3. Maker(t) = Makers[t[2][1]][t[2][2]]
    BY <2>2 DEF Maker
  <2> QED BY <2>1, <2>2, <2>3
<1>7. Made(Of(type, resources), {part})
  BY <1>1, <1>2, <1>4, <1>5 DEF Made
<1>8. Made(Recorded(Of(type, resources)), {part})
  <2>1. ASSUME NEW t \in Recorded(Of(type, resources)), t \notin Of(type, resources)
        PROVE  /\ Maker(t) = part /\ t[1] \notin DOMAIN RESOURCES /\ t[1] = "record"
               /\ t \notin ACCOUNT
    BY <1>3, <1>4, <1>6, <2>1
  <2> QED BY <2>1, <1>7 DEF Made
<1> QED BY <1>7, <1>8

LEMMA MadeFrom ==
    ASSUME NEW things, NEW part, part \notin BucketParts,
           \A t \in things : Maker(t) = part,
           \A t \in things : t[1] \notin DOMAIN RESOURCES /\ t[1] # "upload",
           \A t \in things : t \notin ACCOUNT
    PROVE  Made(things, {part})
<1>1. "s3" \in DOMAIN RESOURCES
  BY TypesOfNames
<1> QED BY <1>1 DEF Made

LEMMA MadeApart ==
    ASSUME NEW A, NEW B, NEW P, NEW Q, Made(A, P), Made(B, Q), P \cap Q = {}
    PROVE  A \cap B = {} /\ Made(A \cup B, P \cup Q)
  BY DEF Made

LEMMA Joined ==
    ASSUME NEW a, NEW b, NEW A, NEW B, NEW P, NEW Q, P \cap Q = {},
           Tidy(a, A), Made(A, P), Tidy(b, B), Made(B, Q)
    PROVE  Tidy(a \o b, A \cup B) /\ Made(A \cup B, P \cup Q)
  BY MadeApart, TidyJoined, Zenon

\* The zones of the settings are zones of the region.
InRegion(s) == s.zones \subseteq AllZones

CoreMachineThings ==
    {VPC, Zone} \cup SubnetsOf(SubnetKeys(AllZones))
      \cup Of("subnet", {"internal", "external"}) \cup Of("lambda", {"delete_eni"})
      \cup Recorded(Of("dns", {"bastion"})) \cup Of("key", {"vault"}) \cup Of("ddb", {"vault"})
      \cup Of("dns", {"vault"})

LEMMA CoreMachinesTidy ==
    ASSUME NEW s, InRegion(s)
    PROVE  Tidy(CoreMachines(s), CoreMachineThings)
<1> DEFINE c1 == add_vpc
           c2 == add_subnet("InternalSubnet", build("internal", "subnet"))
           c3 == add_subnet("ExternalSubnet", build("external", "subnet"))
           c4 == add_all_subnets(s.zones)
           c5 == find_all_subnets(s.asg, OwnSubnets(s))
           c6 == add_arg("StackName")
           c7 == add_custom_resource("DeleteENI", {"DeleteENILambda", "StackName"})
           c8 == add_lambda("DeleteENILambda", build("delete_eni", "lambda"), {})
           c9 == add_ec2_instance("Bastion", build("bastion", "dns"),
                      {"ExternalSubnet", "InternalSecurityGroup",
                       "BastionSecurityGroup", "AttachInternetGateway"})
           c10 == add_kms_key("VaultKey", build("vault", "key"))
           c11 == add_dynamo_table("VaultTable", build("vault", "ddb"))
           c12 == add_autoscale_group("Vault", build("vault", "dns"),
                         internal(s.asg, OwnSubnets(s)) \union
                           {"DNSSNS", "VaultKey", "VaultTable", "DNSLambda",
                            "DNSLambdaExecute"},
                         {"InternalSecurityGroup", "VaultKey"})
           calls == <<c1, c2, c3, c4, c5, c6, c7, c8, c9, c10, c11, c12>>
           own == <<{VPC, Zone}, {build("internal", "subnet")},
                    {build("external", "subnet")}, SubnetsOf(SubnetKeys(s.zones)), {}, {},
                    {}, {build("delete_eni", "lambda")},
                    Recorded({build("bastion", "dns")}), {build("vault", "key")},
                    {build("vault", "ddb")}, {build("vault", "dns")}>>
<1>1. ASSUME NEW i \in 1 .. 12 PROVE Gives(calls[i], own[i])
  <2>1. Gives(c1, {VPC, Zone})
    BY VPCs
  <2>2. /\ Gives(c2, {build("internal", "subnet")})
        /\ Gives(c3, {build("external", "subnet")})
        /\ Gives(c8, {build("delete_eni", "lambda")}) /\ Gives(c11, {build("vault", "ddb")})
    BY PlainBuild, AddsNamed
  <2>3. Gives(c4, SubnetsOf(SubnetKeys(s.zones)))
    BY Subnetworks
  <2>4. /\ Gives(c5, {}) /\ Gives(c6, {})
    BY LooksUp
  <2>5. Gives(c7, {})
    BY AddsNothing
  <2>6. Gives(c9, Recorded({build("bastion", "dns")}))
    BY PlainBuild, Machines
  <2>7. Gives(c10, {build("vault", "key")})
    BY PlainBuild, Keys
  <2>8. Gives(c12, {build("vault", "dns")})
    BY PlainBuild, Groups
  <2> HIDE DEF c1, c2, c3, c4, c5, c6, c7, c8, c9, c10, c11, c12
  <2>9. /\ Gives(calls[1], own[1]) /\ Gives(calls[2], own[2]) /\ Gives(calls[3], own[3])
        /\ Gives(calls[4], own[4]) /\ Gives(calls[5], own[5]) /\ Gives(calls[6], own[6])
        /\ Gives(calls[7], own[7]) /\ Gives(calls[8], own[8]) /\ Gives(calls[9], own[9])
        /\ Gives(calls[10], own[10]) /\ Gives(calls[11], own[11]) /\ Gives(calls[12], own[12])
    BY <2>1, <2>2, <2>3, <2>4, <2>5, <2>6, <2>7, <2>8
  <2>10. i \in {1, 2, 3, 4, 5, 6, 7, 8, 9, 10, 11, 12}
    OBVIOUS
  <2> HIDE DEF calls, own
  <2> QED BY <2>9, <2>10
<1> DEFINE Row(i, t) ==
             \/ i = 1 /\ (t[1] = "vpc" \/ t[1] = "zone")
             \/ i = 2 /\ t[1] = "subnet" /\ t[2] = "internal"
             \/ i = 3 /\ t[1] = "subnet" /\ t[2] = "external"
             \/ i = 4 /\ t[1] = "zone_subnet"
             \/ i = 8 /\ t[1] = "lambda" /\ t[2] = "delete_eni"
             \/ i = 9 /\ (t[1] = "record" \/ (t[1] = "dns" /\ t[2] = "bastion"))
             \/ i = 10 /\ t[1] = "key" /\ t[2] = "vault"
             \/ i = 11 /\ t[1] = "ddb" /\ t[2] = "vault"
             \/ i = 12 /\ t[1] = "dns" /\ t[2] = "vault"
<1>2. ASSUME NEW i \in 1 .. 12, NEW t \in own[i] PROVE Row(i, t)
  <2>1. i \in {1, 2, 3, 4, 8, 9, 10, 11, 12}
    OBVIOUS
  <2>2. CASE i = 1
    BY <2>2 DEF VPC, Zone
  <2>3. CASE i = 2
    BY <2>3 DEF build
  <2>4. CASE i = 3
    BY <2>4 DEF build
  <2>5. CASE i = 4
    BY <2>5, SpelledSubnets
  <2>6. CASE i = 8
    BY <2>6 DEF build
  <2>7. CASE i = 9
    BY <2>7, SpelledRecords
  <2>8. CASE i = 10
    BY <2>8 DEF build
  <2>9. CASE i = 11
    BY <2>9 DEF build
  <2>10. CASE i = 12
    BY <2>10 DEF build
  <2> HIDE DEF own
  <2> QED BY <2>1, <2>2, <2>3, <2>4, <2>5, <2>6, <2>7, <2>8, <2>9, <2>10
<1>3. \A i, j \in 1 .. 12 : i # j => own[i] \cap own[j] = {}
  <2> HIDE DEF own, Row
  <2>1. ASSUME NEW i \in 1 .. 12, NEW j \in 1 .. 12, i # j,
               NEW t \in own[i], t \in own[j]
        PROVE  FALSE
    <3>1. Row(i, t) /\ Row(j, t)
      BY <1>2, <2>1
    <3>2. CASE i = 1
      BY <2>1, <3>1, <3>2 DEF Row
    <3>3. CASE i = 2
      BY <2>1, <3>1, <3>3 DEF Row
    <3>4. CASE i = 3
      BY <2>1, <3>1, <3>4 DEF Row
    <3>5. CASE i = 4
      BY <2>1, <3>1, <3>5 DEF Row
    <3>6. CASE i = 8
      BY <2>1, <3>1, <3>6 DEF Row
    <3>7. CASE i = 9
      BY <2>1, <3>1, <3>7 DEF Row
    <3>8. CASE i = 10
      BY <2>1, <3>1, <3>8 DEF Row
    <3>9. CASE i = 11
      BY <2>1, <3>1, <3>9 DEF Row
    <3>10. CASE i = 12
      BY <2>1, <3>1, <3>10 DEF Row
    <3> QED BY <3>1, <3>2, <3>3, <3>4, <3>5, <3>6, <3>7, <3>8, <3>9, <3>10 DEF Row
  <2> QED BY <2>1
<1>4. \A i \in 1 .. 12 : own[i] \subseteq CoreMachineThings
  BY DEF CoreMachineThings, Of, SubnetsOf, SubnetKeys, Recorded, InRegion
<1>5. DOMAIN calls = 1 .. 12 /\ \E C : calls \in Seq(C)
  <2> HIDE DEF c1, c2, c3, c4, c5, c6, c7, c8, c9, c10, c11, c12
  <2>1. DOMAIN calls = 1 .. 12
    OBVIOUS
  <2>2. calls \in Seq({c1, c2, c3, c4, c5, c6, c7, c8, c9, c10, c11, c12})
    OBVIOUS
  <2> QED BY <2>1, <2>2
<1>6. Tidy(calls, CoreMachineThings)
  <2> HIDE DEF calls, own
  <2> QED BY <1>1, <1>3, <1>4, <1>5, TidyRow, Zenon
<1> QED BY <1>6 DEF CoreMachines

CoreAuthThings ==
    Of("dns", {"auth"}) \cup {<<"lb", build("auth", "dns")>>, <<"public", "auth">>}
      \cup Recorded(Of("rds", {"auth_db"}))

CoreNetworkThings ==
    Of("lambda", {"dns"}) \cup Of("sns", {"dns"}) \cup Of("sg", {"internal", "ssh", "auth"})
      \cup Of("rt", {"internal", "internet"}) \cup Of("gw", {"internet"})

LEMMA CoreNetworkTidy ==
    ASSUME NEW s
    PROVE  Tidy(CoreNetwork(s), CoreNetworkThings)
<1> DEFINE c1 == add_lambda("DNSLambda", build("dns", "lambda"), {"DNSZone"})
           c2 == add_lambda_permission("DNSLambdaExecute", {"DNSLambda"}, {})
           c3 == add_sns_topic("DNSSNS", DnsTopic, {"DNSLambda"})
           c4 == add_security_group("InternalSecurityGroup", InternalSg, {})
           c5 == add_security_group("BastionSecurityGroup", build("ssh", "sg"), {})
           c6 == add_security_group("AuthSecurityGroup", build("auth", "sg"), {"NATIP"})
           c7 == add_route_table("InternalRouteTable", build("internal", "rt"),
                     {InternalKey(z) : z \in s.zones} \union {"InternalSubnet"})
           c8 == add_route_table_route("InternalNatRoute", "InternalRouteTable", "NAT", {"NAT"})
           c9 == add_route_table("InternetRouteTable", build("internet", "rt"),
                     {ExternalKey(z) : z \in s.zones} \union {"ExternalSubnet"})
           c10 == add_route_table_route("InternetRoute", "InternetRouteTable",
                   "InternetGateway",
                           {"AttachInternetGateway"})
           c11 == add_internet_gateway("InternetGateway", build("internet", "gw"))
           c12 == add_endpoint("S3Endpoint", {"InternalRouteTable", "InternetRouteTable"})
           c13 == add_endpoint("DynamoDBEndpoint", {"InternalRouteTable", "InternetRouteTable"})
           c14 == add_nat("NAT", {"ExternalSubnet", "AttachInternetGateway"})
           calls == <<c1, c2, c3, c4, c5, c6, c7, c8, c9, c10, c11, c12, c13, c14>>
           own == <<{build("dns", "lambda")}, {}, {build("dns", "sns")},
                    {build("internal", "sg")}, {build("ssh", "sg")}, {build("auth", "sg")},
                    {build("internal", "rt")}, {}, {build("internet", "rt")}, {},
                    {build("internet", "gw")}, {}, {}, {}>>
<1>1. ASSUME NEW i \in 1 .. 14 PROVE Gives(calls[i], own[i])
  <2>1. /\ Gives(c1, {build("dns", "lambda")}) /\ Gives(c5, {build("ssh", "sg")})
        /\ Gives(c6, {build("auth", "sg")})
    BY PlainBuild, AddsNamed
  <2>2. /\ Gives(c2, {}) /\ Gives(c8, {}) /\ Gives(c10, {}) /\ Gives(c12, {})
        /\ Gives(c13, {})
    BY AddsNothing
  <2>3. Gives(c3, {build("dns", "sns")})
    BY PlainBuild, AddsNamed DEF DnsTopic
  <2>4. Gives(c4, {build("internal", "sg")})
    BY PlainBuild, AddsNamed DEF InternalSg
  <2>5. /\ Gives(c7, {build("internal", "rt")}) /\ Gives(c9, {build("internet", "rt")})
    BY PlainBuild, Routes
  <2>6. Gives(c11, {build("internet", "gw")})
    BY PlainBuild, Gateways
  <2>7. Gives(c14, {})
    BY Nats
  <2> HIDE DEF c1, c2, c3, c4, c5, c6, c7, c8, c9, c10, c11, c12, c13, c14
  <2>8. /\ Gives(calls[1], own[1]) /\ Gives(calls[2], own[2]) /\ Gives(calls[3], own[3])
        /\ Gives(calls[4], own[4]) /\ Gives(calls[5], own[5]) /\ Gives(calls[6], own[6])
        /\ Gives(calls[7], own[7]) /\ Gives(calls[8], own[8]) /\ Gives(calls[9], own[9])
        /\ Gives(calls[10], own[10]) /\ Gives(calls[11], own[11]) /\ Gives(calls[12], own[12])
        /\ Gives(calls[13], own[13]) /\ Gives(calls[14], own[14])
    BY <2>1, <2>2, <2>3, <2>4, <2>5, <2>6, <2>7
  <2>9. i \in {1, 2, 3, 4, 5, 6, 7, 8, 9, 10, 11, 12, 13, 14}
    OBVIOUS
  <2> HIDE DEF calls, own
  <2> QED BY <2>8, <2>9
<1> DEFINE Row(i, t) ==
             \/ i = 1 /\ t[1] = "lambda" /\ t[2] = "dns"
             \/ i = 3 /\ t[1] = "sns" /\ t[2] = "dns"
             \/ i = 4 /\ t[1] = "sg" /\ t[2] = "internal"
             \/ i = 5 /\ t[1] = "sg" /\ t[2] = "ssh"
             \/ i = 6 /\ t[1] = "sg" /\ t[2] = "auth"
             \/ i = 7 /\ t[1] = "rt" /\ t[2] = "internal"
             \/ i = 9 /\ t[1] = "rt" /\ t[2] = "internet"
             \/ i = 11 /\ t[1] = "gw" /\ t[2] = "internet"
<1>2. ASSUME NEW i \in 1 .. 14, NEW t \in own[i] PROVE Row(i, t)
  <2>1. i \in {1, 3, 4, 5, 6, 7, 9, 11}
    OBVIOUS
  <2>2. CASE i = 1
    BY <2>2 DEF build
  <2>3. CASE i = 3
    BY <2>3 DEF build
  <2>4. CASE i = 4
    BY <2>4 DEF build
  <2>5. CASE i = 5
    BY <2>5 DEF build
  <2>6. CASE i = 6
    BY <2>6 DEF build
  <2>7. CASE i = 7
    BY <2>7 DEF build
  <2>8. CASE i = 9
    BY <2>8 DEF build
  <2>9. CASE i = 11
    BY <2>9 DEF build
  <2> HIDE DEF own
  <2> QED BY <2>1, <2>2, <2>3, <2>4, <2>5, <2>6, <2>7, <2>8, <2>9
<1>3. \A i, j \in 1 .. 14 : i # j => own[i] \cap own[j] = {}
  <2> HIDE DEF own, Row
  <2>1. ASSUME NEW i \in 1 .. 14, NEW j \in 1 .. 14, i # j,
               NEW t \in own[i], t \in own[j]
        PROVE  FALSE
    <3>1. Row(i, t) /\ Row(j, t)
      BY <1>2, <2>1
    <3>2. CASE i = 1
      BY <2>1, <3>1, <3>2 DEF Row
    <3>3. CASE i = 3
      BY <2>1, <3>1, <3>3 DEF Row
    <3>4. CASE i = 4
      BY <2>1, <3>1, <3>4 DEF Row
    <3>5. CASE i = 5
      BY <2>1, <3>1, <3>5 DEF Row
    <3>6. CASE i = 6
      BY <2>1, <3>1, <3>6 DEF Row
    <3>7. CASE i = 7
      BY <2>1, <3>1, <3>7 DEF Row
    <3>8. CASE i = 9
      BY <2>1, <3>1, <3>8 DEF Row
    <3>9. CASE i = 11
      BY <2>1, <3>1, <3>9 DEF Row
    <3> QED BY <3>1, <3>2, <3>3, <3>4, <3>5, <3>6, <3>7, <3>8, <3>9 DEF Row
  <2> QED BY <2>1
<1>4. \A i \in 1 .. 14 : own[i] \subseteq CoreNetworkThings
  BY DEF CoreNetworkThings, Of
<1>5. DOMAIN calls = 1 .. 14 /\ \E C : calls \in Seq(C)
  <2> HIDE DEF c1, c2, c3, c4, c5, c6, c7, c8, c9, c10, c11, c12, c13, c14
  <2>1. DOMAIN calls = 1 .. 14
    OBVIOUS
  <2>2. calls \in Seq({c1, c2, c3, c4, c5, c6, c7, c8, c9, c10, c11, c12, c13, c14})
    OBVIOUS
  <2> QED BY <2>1, <2>2
<1>6. Tidy(calls, CoreNetworkThings)
  <2> HIDE DEF calls, own
  <2> QED BY <1>1, <1>3, <1>4, <1>5, TidyRow, Zenon
<1> QED BY <1>6 DEF CoreNetwork

RedisThings == Recorded(Of("redis", {"cache", "cache_state"}))

LEMMA ApiLookupsTidy ==
    ASSUME NEW s
    PROVE  Tidy(ApiLookups(s), Of("sg", {"https"}))
<1> DEFINE c1 == sns_topic_lookup(DnsTopic)
           c2 == sns_topic_lookup(Topic)
           c3 == find_vpc
           c4 == find_all_subnets(s.zones, s.there)
           c5 == find_all_subnets(s.asg, s.there)
           c6 == sg_lookup_all(InternalSg)
           c7 == add_security_group("AllHttpHttpsSecurityGroup", build("https", "sg"), {})
           calls == <<c1, c2, c3, c4, c5, c6, c7>>
           own == <<{}, {}, {}, {}, {}, {}, {build("https", "sg")}>>
<1>1. ASSUME NEW i \in 1 .. 7 PROVE Gives(calls[i], own[i])
  <2>1. /\ Gives(c1, {}) /\ Gives(c2, {})
    BY LooksUp DEF sns_topic_lookup
  <2>2. /\ Gives(c3, {}) /\ Gives(c4, {}) /\ Gives(c5, {})
    BY LooksUp
  <2>3. Gives(c6, {})
    BY LooksUp DEF sg_lookup_all
  <2>4. Gives(c7, {build("https", "sg")})
    BY PlainBuild, AddsNamed
  <2> HIDE DEF c1, c2, c3, c4, c5, c6, c7
  <2>5. /\ Gives(calls[1], own[1]) /\ Gives(calls[2], own[2]) /\ Gives(calls[3], own[3])
        /\ Gives(calls[4], own[4]) /\ Gives(calls[5], own[5]) /\ Gives(calls[6], own[6])
        /\ Gives(calls[7], own[7])
    BY <2>1, <2>2, <2>3, <2>4
  <2>6. i \in {1, 2, 3, 4, 5, 6, 7}
    OBVIOUS
  <2> HIDE DEF calls, own
  <2> QED BY <2>5, <2>6
<1> DEFINE Row(i, t) ==
             \/ i = 7 /\ t[1] = "sg" /\ t[2] = "https"
<1>2. ASSUME NEW i \in 1 .. 7, NEW t \in own[i] PROVE Row(i, t)
  <2>1. i \in {7}
    OBVIOUS
  <2>2. CASE i = 7
    BY <2>2 DEF build
  <2> HIDE DEF own
  <2> QED BY <2>1, <2>2
<1>3. \A i, j \in 1 .. 7 : i # j => own[i] \cap own[j] = {}
  <2> HIDE DEF own, Row
  <2>1. ASSUME NEW i \in 1 .. 7, NEW j \in 1 .. 7, i # j,
               NEW t \in own[i], t \in own[j]
        PROVE  FALSE
    <3>1. Row(i, t) /\ Row(j, t)
      BY <1>2, <2>1
    <3> QED BY <2>1, <3>1 DEF Row
  <2> QED BY <2>1
<1>4. \A i \in 1 .. 7 : own[i] \subseteq Of("sg", {"https"})
  BY DEF Of
<1>5. DOMAIN calls = 1 .. 7 /\ \E C : calls \in Seq(C)
  <2> HIDE DEF c1, c2, c3, c4, c5, c6, c7
  <2>1. DOMAIN calls = 1 .. 7
    OBVIOUS
  <2>2. calls \in Seq({c1, c2, c3, c4, c5, c6, c7})
    OBVIOUS
  <2> QED BY <2>1, <2>2
<1>6. Tidy(calls, Of("sg", {"https"}))
  <2> HIDE DEF calls, own
  <2> QED BY <1>1, <1>3, <1>4, <1>5, TidyRow, Zenon
<1> QED BY <1>6 DEF ApiLookups

ApiQueueThings ==
    Of("sqs", {"index_deadletter", "index_cuboids_keys", "deadletter", "downsample_queue",
               "s3flush"})
      \cup {<<"export", "index_cuboids_keys">>}

LEMMA ApiQueuesTidy == Tidy(ApiQueues, ApiQueueThings)
<1> DEFINE c1 == add_sqs_queue("index_deadletter", {})
           c2 == add_sqs_queue("index_cuboids_keys", {})
           c3 == add_output("index_cuboids_keys")
           c4 == add_sqs_queue("deadletter", {})
           c5 == add_sqs_queue("downsample_queue", {})
           c6 == add_sqs_queue("s3flush", {"deadletter"})
           c7 == add_sqs_policy("sqsEndpointPolicy", {"deadletter", "s3flush"})
           c8 == add_sqs_policy("sqsCachemgrPolicy", {"deadletter", "s3flush"})
           calls == <<c1, c2, c3, c4, c5, c6, c7, c8>>
           own == <<{build("index_deadletter", "sqs")},
                    {build("index_cuboids_keys", "sqs")},
                    {<<"export", "index_cuboids_keys">>}, {build("deadletter", "sqs")},
                    {build("downsample_queue", "sqs")}, {build("s3flush", "sqs")}, {}, {}>>
<1>1. ASSUME NEW i \in 1 .. 8 PROVE Gives(calls[i], own[i])
  <2>1. /\ Gives(c1, {build("index_deadletter", "sqs")})
        /\ Gives(c2, {build("index_cuboids_keys", "sqs")})
        /\ Gives(c4, {build("deadletter", "sqs")})
        /\ Gives(c5, {build("downsample_queue", "sqs")})
        /\ Gives(c6, {build("s3flush", "sqs")})
    BY AddsTagged
  <2>2. Gives(c3, {<<"export", "index_cuboids_keys">>})
    BY Exports
  <2>3. /\ Gives(c7, {}) /\ Gives(c8, {})
    BY AddsNothing
  <2> HIDE DEF c1, c2, c3, c4, c5, c6, c7, c8
  <2>4. /\ Gives(calls[1], own[1]) /\ Gives(calls[2], own[2]) /\ Gives(calls[3], own[3])
        /\ Gives(calls[4], own[4]) /\ Gives(calls[5], own[5]) /\ Gives(calls[6], own[6])
        /\ Gives(calls[7], own[7]) /\ Gives(calls[8], own[8])
    BY <2>1, <2>2, <2>3
  <2>5. i \in {1, 2, 3, 4, 5, 6, 7, 8}
    OBVIOUS
  <2> HIDE DEF calls, own
  <2> QED BY <2>4, <2>5
<1> DEFINE Row(i, t) ==
             \/ i = 1 /\ t[1] = "sqs" /\ t[2] = "index_deadletter"
             \/ i = 2 /\ t[1] = "sqs" /\ t[2] = "index_cuboids_keys"
             \/ i = 3 /\ t[1] = "export"
             \/ i = 4 /\ t[1] = "sqs" /\ t[2] = "deadletter"
             \/ i = 5 /\ t[1] = "sqs" /\ t[2] = "downsample_queue"
             \/ i = 6 /\ t[1] = "sqs" /\ t[2] = "s3flush"
<1>2. ASSUME NEW i \in 1 .. 8, NEW t \in own[i] PROVE Row(i, t)
  <2>1. i \in {1, 2, 3, 4, 5, 6}
    OBVIOUS
  <2>2. CASE i = 1
    BY <2>2 DEF build
  <2>3. CASE i = 2
    BY <2>3 DEF build
  <2>4. CASE i = 3
    BY <2>4 DEF build
  <2>5. CASE i = 4
    BY <2>5 DEF build
  <2>6. CASE i = 5
    BY <2>6 DEF build
  <2>7. CASE i = 6
    BY <2>7 DEF build
  <2> HIDE DEF own
  <2> QED BY <2>1, <2>2, <2>3, <2>4, <2>5, <2>6, <2>7
<1>3. \A i, j \in 1 .. 8 : i # j => own[i] \cap own[j] = {}
  <2> HIDE DEF own, Row
  <2>1. ASSUME NEW i \in 1 .. 8, NEW j \in 1 .. 8, i # j,
               NEW t \in own[i], t \in own[j]
        PROVE  FALSE
    <3>1. Row(i, t) /\ Row(j, t)
      BY <1>2, <2>1
    <3> QED BY <2>1, <3>1 DEF Row
  <2> QED BY <2>1
<1>4. \A i \in 1 .. 8 : own[i] \subseteq ApiQueueThings
  BY DEF ApiQueueThings, Of
<1>5. DOMAIN calls = 1 .. 8 /\ \E C : calls \in Seq(C)
  <2> HIDE DEF c1, c2, c3, c4, c5, c6, c7, c8
  <2>1. DOMAIN calls = 1 .. 8
    OBVIOUS
  <2>2. calls \in Seq({c1, c2, c3, c4, c5, c6, c7, c8})
    OBVIOUS
  <2> QED BY <2>1, <2>2
<1>6. Tidy(calls, ApiQueueThings)
  <2> HIDE DEF calls, own
  <2> QED BY <1>1, <1>3, <1>4, <1>5, TidyRow, Zenon
<1> QED BY <1>6 DEF ApiQueues

ApiMachineThings ==
    {<<"lb", build("endpoint_elb", "dns")>>, <<"public", "api">>} \cup Of("dns", {"endpoint"})
      \cup Recorded(Of("dns", {"endpoint_db"}))

LEMMA ApiMachinesTidy ==
    ASSUME NEW s
    PROVE  Tidy(ApiMachines(s), ApiMachineThings)
<1> DEFINE c1 == add_app_loadbalancer("EndpointAppLoadBalancer", build("endpoint_elb", "dns"),
                          external(s.asg, s.there) \union {"AllHttpHttpsSecurityGroup"})
           c2 == add_public_dns("EndpointAppLoadBalancer", "api")
           c3 == add_autoscale_group("Endpoint", build("endpoint", "dns"),
                         internal(s.asg, s.there) \union
                           {TargetGroup("EndpointAppLoadBalancer"), "EndpointDB"},
                         EndpointUserData)
           c4 == add_autoscale_policy("EndpointScaleUp", "Endpoint")
           c5 == add_autoscale_policy("EndpointScaleDown", "Endpoint")
           c6 == add_rds_db("EndpointDB", build("endpoint_db", "dns"), internal(s.zones,
                   s.there), {})
           calls == <<c1, c2, c3, c4, c5, c6>>
           own == <<{<<"lb", build("endpoint_elb", "dns")>>}, {<<"public", "api">>},
                    {build("endpoint", "dns")}, {}, {},
                    Recorded({build("endpoint_db", "dns")})>>
<1>1. ASSUME NEW i \in 1 .. 6 PROVE Gives(calls[i], own[i])
  <2>1. Gives(c1, {<<"lb", build("endpoint_elb", "dns")>>})
    BY Balancers
  <2>2. Gives(c2, {<<"public", "api">>})
    BY AddsTagged
  <2>3. Gives(c3, {build("endpoint", "dns")})
    BY PlainBuild, Groups
  <2>4. /\ Gives(c4, {}) /\ Gives(c5, {})
    BY GroupPolicies
  <2>5. Gives(c6, Recorded({build("endpoint_db", "dns")}))
    BY PlainBuild, Databases
  <2> HIDE DEF c1, c2, c3, c4, c5, c6
  <2>6. /\ Gives(calls[1], own[1]) /\ Gives(calls[2], own[2]) /\ Gives(calls[3], own[3])
        /\ Gives(calls[4], own[4]) /\ Gives(calls[5], own[5]) /\ Gives(calls[6], own[6])
    BY <2>1, <2>2, <2>3, <2>4, <2>5
  <2>7. i \in {1, 2, 3, 4, 5, 6}
    OBVIOUS
  <2> HIDE DEF calls, own
  <2> QED BY <2>6, <2>7
<1> DEFINE Row(i, t) ==
             \/ i = 1 /\ t[1] = "lb"
             \/ i = 2 /\ t[1] = "public"
             \/ i = 3 /\ t[1] = "dns" /\ t[2] = "endpoint"
             \/ i = 6 /\ (t[1] = "record" \/ (t[1] = "dns" /\ t[2] = "endpoint_db"))
<1>2. ASSUME NEW i \in 1 .. 6, NEW t \in own[i] PROVE Row(i, t)
  <2>1. i \in {1, 2, 3, 6}
    OBVIOUS
  <2>2. CASE i = 1
    BY <2>2 DEF build
  <2>3. CASE i = 2
    BY <2>3 DEF build
  <2>4. CASE i = 3
    BY <2>4 DEF build
  <2>5. CASE i = 6
    BY <2>5, SpelledRecords
  <2> HIDE DEF own
  <2> QED BY <2>1, <2>2, <2>3, <2>4, <2>5
<1>3. \A i, j \in 1 .. 6 : i # j => own[i] \cap own[j] = {}
  <2> HIDE DEF own, Row
  <2>1. ASSUME NEW i \in 1 .. 6, NEW j \in 1 .. 6, i # j,
               NEW t \in own[i], t \in own[j]
        PROVE  FALSE
    <3>1. Row(i, t) /\ Row(j, t)
      BY <1>2, <2>1
    <3> QED BY <2>1, <3>1 DEF Row
  <2> QED BY <2>1
<1>4. \A i \in 1 .. 6 : own[i] \subseteq ApiMachineThings
  BY DEF ApiMachineThings, Of, Recorded
<1>5. DOMAIN calls = 1 .. 6 /\ \E C : calls \in Seq(C)
  <2> HIDE DEF c1, c2, c3, c4, c5, c6
  <2>1. DOMAIN calls = 1 .. 6
    OBVIOUS
  <2>2. calls \in Seq({c1, c2, c3, c4, c5, c6})
    OBVIOUS
  <2> QED BY <2>1, <2>2
<1>6. Tidy(calls, ApiMachineThings)
  <2> HIDE DEF calls, own
  <2> QED BY <1>1, <1>3, <1>4, <1>5, TidyRow, Zenon
<1> QED BY <1>6 DEF ApiMachines

ApiTableThings ==
    Of("ddb", {"meta", "s3_index", "tile_index", "id_index", "id_count_index"})

LEMMA ApiTablesTidy == Tidy(ApiTables, ApiTableThings)
<1> DEFINE c1 == add_dynamo_table_from_json("EndpointMetaDB", build("meta", "ddb"))
           c2 == add_dynamo_table_from_json("s3Index", build("s3_index", "ddb"))
           c3 == add_dynamo_table_from_json("tileIndex", build("tile_index", "ddb"))
           c4 == add_dynamo_table_from_json("idIndIndex", build("id_index", "ddb"))
           c5 == add_dynamo_table_from_json("idCountIndex", build("id_count_index", "ddb"))
           calls == <<c1, c2, c3, c4, c5>>
           own == <<{build("meta", "ddb")}, {build("s3_index", "ddb")},
                    {build("tile_index", "ddb")}, {build("id_index", "ddb")},
                    {build("id_count_index", "ddb")}>>
<1>1. ASSUME NEW i \in 1 .. 5 PROVE Gives(calls[i], own[i])
  <2>1. /\ Gives(c1, {build("meta", "ddb")}) /\ Gives(c2, {build("s3_index", "ddb")})
        /\ Gives(c3, {build("tile_index", "ddb")}) /\ Gives(c4, {build("id_index", "ddb")})
        /\ Gives(c5, {build("id_count_index", "ddb")})
    BY PlainBuild, AddsNamed
  <2> HIDE DEF c1, c2, c3, c4, c5
  <2>2. /\ Gives(calls[1], own[1]) /\ Gives(calls[2], own[2]) /\ Gives(calls[3], own[3])
        /\ Gives(calls[4], own[4]) /\ Gives(calls[5], own[5])
    BY <2>1
  <2>3. i \in {1, 2, 3, 4, 5}
    OBVIOUS
  <2> HIDE DEF calls, own
  <2> QED BY <2>2, <2>3
<1> DEFINE Row(i, t) ==
             \/ i = 1 /\ t[1] = "ddb" /\ t[2] = "meta"
             \/ i = 2 /\ t[1] = "ddb" /\ t[2] = "s3_index"
             \/ i = 3 /\ t[1] = "ddb" /\ t[2] = "tile_index"
             \/ i = 4 /\ t[1] = "ddb" /\ t[2] = "id_index"
             \/ i = 5 /\ t[1] = "ddb" /\ t[2] = "id_count_index"
<1>2. ASSUME NEW i \in 1 .. 5, NEW t \in own[i] PROVE Row(i, t)
  <2>1. i \in {1, 2, 3, 4, 5}
    OBVIOUS
  <2>2. CASE i = 1
    BY <2>2 DEF build
  <2>3. CASE i = 2
    BY <2>3 DEF build
  <2>4. CASE i = 3
    BY <2>4 DEF build
  <2>5. CASE i = 4
    BY <2>5 DEF build
  <2>6. CASE i = 5
    BY <2>6 DEF build
  <2> HIDE DEF own
  <2> QED BY <2>1, <2>2, <2>3, <2>4, <2>5, <2>6
<1>3. \A i, j \in 1 .. 5 : i # j => own[i] \cap own[j] = {}
  <2> HIDE DEF own, Row
  <2>1. ASSUME NEW i \in 1 .. 5, NEW j \in 1 .. 5, i # j,
               NEW t \in own[i], t \in own[j]
        PROVE  FALSE
    <3>1. Row(i, t) /\ Row(j, t)
      BY <1>2, <2>1
    <3> QED BY <2>1, <3>1 DEF Row
  <2> QED BY <2>1
<1>4. \A i \in 1 .. 5 : own[i] \subseteq ApiTableThings
  BY DEF ApiTableThings, Of
<1>5. DOMAIN calls = 1 .. 5 /\ \E C : calls \in Seq(C)
  <2> HIDE DEF c1, c2, c3, c4, c5
  <2>1. DOMAIN calls = 1 .. 5
    OBVIOUS
  <2>2. calls \in Seq({c1, c2, c3, c4, c5})
    OBVIOUS
  <2> QED BY <2>1, <2>2
<1>6. Tidy(calls, ApiTableThings)
  <2> HIDE DEF calls, own
  <2> QED BY <1>1, <1>3, <1>4, <1>5, TidyRow, Zenon
<1> QED BY <1>6 DEF ApiTables

LEMMA CoreAuthTidy ==
    ASSUME NEW s
    PROVE  Tidy(CoreAuth(s), CoreAuthThings)
<1> DEFINE deps == {"AuthSecurityGroup", "AttachInternetGateway", "DNSLambda", "DNSSNS",
                    "DNSLambdaExecute"} \cup OnlyIf(s.rds, {"AuthDB"})
           pair == create_asg_elb("Auth", build("auth", "dns"), internal(s.asg, OwnSubnets(s)),
                                  external(s.asg, OwnSubnets(s)), {"AuthSecurityGroup"}, deps)
           db == add_rds_db("AuthDB", build("auth_db", "rds"),
                            internal(s.zones, OwnSubnets(s)), {"InternalSecurityGroup"})
           host == build("auth", "dns")
           A == {host} \cup {<<"lb", host>>}
           B == {<<"public", "auth">>}
           C == Recorded({build("auth_db", "rds")})
<1>1. Tidy(pair, A)
  <2>1. Plain(host) /\ host[1] # "lb"
    BY PlainBuild DEF build
  <2> DEFINE inner == internal(s.asg, OwnSubnets(s))
             outer == external(s.asg, OwnSubnets(s))
  <2> HIDE DEF host, deps, inner, outer
  <2>2. Tidy(create_asg_elb("Auth", host, inner, outer, {"AuthSecurityGroup"}, deps),
             {host} \cup {<<"lb", host>>})
    BY <2>1, ScaledBalanced
  <2> QED BY <2>2 DEF inner, outer, host
<1>2. Tidy(<<add_public_dns("AuthLoadBalancer", "auth")>>, B)
  BY AddsTagged, TidyOne
<1>3. Tidy(If(s.rds, db), C)
  <2>1. Gives(db, C)
    BY PlainBuild, Databases
  <2> HIDE DEF db, C
  <2> QED BY <2>1, TidyIf
<1>4. A \cap B = {} /\ (A \cup B) \cap C = {}
  <2>1. \A t \in C : t[1] \in {"record", "rds"}
    BY SpelledRecords
  <2>2. \A t \in A \cup B : t[1] \in {"dns", "lb", "public"}
    BY DEF build
  <2>3. A \cap B = {}
    BY DEF build
  <2> HIDE DEF A, B, C
  <2> QED BY <2>1, <2>2, <2>3
<1>5. (A \cup B) \cup C = CoreAuthThings
  BY DEF CoreAuthThings, Of
<1>6. CoreAuth(s) = (pair \o <<add_public_dns("AuthLoadBalancer", "auth")>>) \o If(s.rds, db)
  BY DEF CoreAuth
<1> HIDE DEF pair, db, A, B, C, deps, host
<1>7. Tidy(pair \o <<add_public_dns("AuthLoadBalancer", "auth")>>, A \cup B)
  BY <1>1, <1>2, <1>4, TidyJoined
<1>8. Tidy(CoreAuth(s), (A \cup B) \cup C)
  BY <1>3, <1>4, <1>6, <1>7, TidyJoined
<1> QED BY <1>5, <1>8

LEMMA RedisCachesTidy ==
    ASSUME NEW s
    PROVE  Tidy(RedisCaches(s), RedisThings)
<1> DEFINE subnets == internal(s.zones, s.there)
           c1 == find_vpc
           c2 == find_all_subnets(s.zones, s.there)
           c3 == sg_lookup_all(InternalSg)
           c4 == add_redis_replication("Cache", build("cache", "redis"), subnets, TRUE)
           c5 == add_redis_replication("CacheState", build("cache_state", "redis"), subnets,
                   FALSE)
           calls == <<c1, c2, c3, c4, c5>>
           own == <<{}, {}, {}, Recorded({build("cache", "redis")}),
                    Recorded({build("cache_state", "redis")})>>
<1>1. ASSUME NEW i \in 1 .. 5 PROVE Gives(calls[i], own[i])
  <2>1. /\ Gives(c1, {}) /\ Gives(c2, {})
    BY LooksUp
  <2>2. Gives(c3, {})
    BY LooksUp DEF sg_lookup_all
  <2>3. /\ Gives(c4, Recorded({build("cache", "redis")}))
        /\ Gives(c5, Recorded({build("cache_state", "redis")}))
    BY PlainBuild, Databases
  <2> HIDE DEF c1, c2, c3, c4, c5
  <2>4. /\ Gives(calls[1], own[1]) /\ Gives(calls[2], own[2]) /\ Gives(calls[3], own[3])
        /\ Gives(calls[4], own[4]) /\ Gives(calls[5], own[5])
    BY <2>1, <2>2, <2>3
  <2>5. i \in {1, 2, 3, 4, 5}
    OBVIOUS
  <2> HIDE DEF calls, own
  <2> QED BY <2>4, <2>5
<1> DEFINE Row(i, t) ==
             \/ i = 4 /\ ((t[1] = "record" /\ t[2] = build("cache",
                   "redis")) \/ (t[1] = "redis" /\ t[2] = "cache"))
             \/ i = 5 /\ ((t[1] = "record" /\ t[2] = build("cache_state",
                   "redis")) \/ (t[1] = "redis" /\ t[2] = "cache_state"))
<1>2. ASSUME NEW i \in 1 .. 5, NEW t \in own[i] PROVE Row(i, t)
  <2>1. i \in {4, 5}
    OBVIOUS
  <2>2. CASE i = 4
    BY <2>2, SpelledRecords
  <2>3. CASE i = 5
    BY <2>3, SpelledRecords
  <2> HIDE DEF own
  <2> QED BY <2>1, <2>2, <2>3
<1>3. \A i, j \in 1 .. 5 : i # j => own[i] \cap own[j] = {}
  <2> HIDE DEF own, Row
  <2>1. ASSUME NEW i \in 1 .. 5, NEW j \in 1 .. 5, i # j,
               NEW t \in own[i], t \in own[j]
        PROVE  FALSE
    <3>1. Row(i, t) /\ Row(j, t)
      BY <1>2, <2>1
    <3> QED BY <2>1, <3>1 DEF Row, build
  <2> QED BY <2>1
<1>4. \A i \in 1 .. 5 : own[i] \subseteq RedisThings
  BY DEF RedisThings, Of, Recorded
<1>5. DOMAIN calls = 1 .. 5 /\ \E C : calls \in Seq(C)
  <2> HIDE DEF c1, c2, c3, c4, c5
  <2>1. DOMAIN calls = 1 .. 5
    OBVIOUS
  <2>2. calls \in Seq({c1, c2, c3, c4, c5})
    OBVIOUS
  <2> QED BY <2>1, <2>2
<1>6. Tidy(calls, RedisThings)
  <2> HIDE DEF calls, own
  <2> QED BY <1>1, <1>3, <1>4, <1>5, TidyRow, Zenon
<1> QED BY <1>6 DEF RedisCaches

LEMMA CachedbArgumentsTidy == Tidy(CachedbArguments, SubnetsOf(LambdaKeys))
<1> DEFINE c1 == find_vpc
           c2 == rt_lookup(build("internal", "rt"))
           c3 == add_all_lambda_subnets
           c4 == Adds([k \in {l \o "RTA" : l \in LambdaKeys} |->
                    Resource({CHOOSE l \in LambdaKeys : k = l \o "RTA"}, {}, {})])
           c5 == add_arg("StackName")
           c6 == lambda_arn_lookup(build("delete_eni", "lambda"))
           c7 == add_arg("DeleteENILambda")
           c8 == add_custom_resource("DeleteENI", {"DeleteENILambda", "StackName"})
           c9 == subnet_id_lookup(build("internal", "subnet"))
           c10 == add_arg("InternalSubnet")
           c11 == sg_lookup(InternalSg)
           c12 == add_arg("InternalSecurityGroup")
           c13 == add_arg("LambdaCacheExecutionRole")
           c14 == add_arg("CuboidImportLambdaRole")
           calls == <<c1, c2, c3, c4, c5, c6, c7, c8, c9, c10, c11, c12, c13, c14>>
           own == <<{}, {}, SubnetsOf(LambdaKeys), {}, {}, {}, {}, {}, {}, {}, {}, {}, {},
                    {}>>
<1>1. ASSUME NEW i \in 1 .. 14 PROVE Gives(calls[i], own[i])
  <2>1. /\ Gives(c1, {}) /\ Gives(c5, {}) /\ Gives(c7, {}) /\ Gives(c10, {})
        /\ Gives(c12, {}) /\ Gives(c13, {}) /\ Gives(c14, {})
    BY LooksUp
  <2>2. Gives(c2, {})
    BY LooksUp DEF rt_lookup
  <2>3. Gives(c3, SubnetsOf(LambdaKeys))
    BY Subnetworks
  <2>4. Gives(c4, {})
    BY Associations
  <2>5. Gives(c6, {})
    BY LooksUp DEF lambda_arn_lookup
  <2>6. Gives(c8, {})
    BY AddsNothing
  <2>7. Gives(c9, {})
    BY LooksUp DEF subnet_id_lookup
  <2>8. Gives(c11, {})
    BY LooksUp DEF sg_lookup
  <2> HIDE DEF c1, c2, c3, c4, c5, c6, c7, c8, c9, c10, c11, c12, c13, c14
  <2>9. /\ Gives(calls[1], own[1]) /\ Gives(calls[2], own[2]) /\ Gives(calls[3], own[3])
        /\ Gives(calls[4], own[4]) /\ Gives(calls[5], own[5]) /\ Gives(calls[6], own[6])
        /\ Gives(calls[7], own[7]) /\ Gives(calls[8], own[8]) /\ Gives(calls[9], own[9])
        /\ Gives(calls[10], own[10]) /\ Gives(calls[11], own[11]) /\ Gives(calls[12], own[12])
        /\ Gives(calls[13], own[13]) /\ Gives(calls[14], own[14])
    BY <2>1, <2>2, <2>3, <2>4, <2>5, <2>6, <2>7, <2>8
  <2>10. i \in {1, 2, 3, 4, 5, 6, 7, 8, 9, 10, 11, 12, 13, 14}
    OBVIOUS
  <2> HIDE DEF calls, own
  <2> QED BY <2>9, <2>10
<1> DEFINE Row(i, t) ==
             \/ i = 3 /\ t[1] = "zone_subnet"
<1>2. ASSUME NEW i \in 1 .. 14, NEW t \in own[i] PROVE Row(i, t)
  <2>1. i \in {3}
    OBVIOUS
  <2>2. CASE i = 3
    BY <2>2, SpelledSubnets
  <2> HIDE DEF own
  <2> QED BY <2>1, <2>2
<1>3. \A i, j \in 1 .. 14 : i # j => own[i] \cap own[j] = {}
  <2> HIDE DEF own, Row
  <2>1. ASSUME NEW i \in 1 .. 14, NEW j \in 1 .. 14, i # j,
               NEW t \in own[i], t \in own[j]
        PROVE  FALSE
    <3>1. Row(i, t) /\ Row(j, t)
      BY <1>2, <2>1
    <3> QED BY <2>1, <3>1 DEF Row
  <2> QED BY <2>1
<1>4. \A i \in 1 .. 14 : own[i] \subseteq SubnetsOf(LambdaKeys)
  OBVIOUS
<1>5. DOMAIN calls = 1 .. 14 /\ \E C : calls \in Seq(C)
  <2> HIDE DEF c1, c2, c3, c4, c5, c6, c7, c8, c9, c10, c11, c12, c13, c14
  <2>1. DOMAIN calls = 1 .. 14
    OBVIOUS
  <2>2. calls \in Seq({c1, c2, c3, c4, c5, c6, c7, c8, c9, c10, c11, c12, c13, c14})
    OBVIOUS
  <2> QED BY <2>1, <2>2
<1>6. Tidy(calls, SubnetsOf(LambdaKeys))
  <2> HIDE DEF calls, own
  <2> QED BY <1>1, <1>3, <1>4, <1>5, TidyRow, Zenon
<1> QED BY <1>6 DEF CachedbArguments

LEMMA UserDataTidy == Tidy(build_user_data, {})
<1> DEFINE c1 == sqs_lookup_url(build("s3flush", "sqs"))
           c2 == sqs_lookup_url(build("deadletter", "sqs"))
           c3 == sns_topic_lookup(Topic)
           calls == <<c1, c2, c3>>
           own == <<{}, {}, {}>>
<1>1. ASSUME NEW i \in 1 .. 3 PROVE Gives(calls[i], own[i])
  <2>1. /\ Gives(c1, {}) /\ Gives(c2, {})
    BY LooksUp DEF sqs_lookup_url
  <2>2. Gives(c3, {})
    BY LooksUp DEF sns_topic_lookup
  <2> HIDE DEF c1, c2, c3
  <2>3. /\ Gives(calls[1], own[1]) /\ Gives(calls[2], own[2]) /\ Gives(calls[3], own[3])
    BY <2>1, <2>2
  <2>4. i \in {1, 2, 3}
    OBVIOUS
  <2> HIDE DEF calls, own
  <2> QED BY <2>3, <2>4
<1>2. \A i \in 1 .. 3 : own[i] = {}
  OBVIOUS
<1>3. \A i, j \in 1 .. 3 : i # j => own[i] \cap own[j] = {}
  <2> HIDE DEF own
  <2> QED BY <1>2
<1>4. \A i \in 1 .. 3 : own[i] \subseteq {}
  OBVIOUS
<1>5. DOMAIN calls = 1 .. 3 /\ \E C : calls \in Seq(C)
  <2> HIDE DEF c1, c2, c3
  <2>1. DOMAIN calls = 1 .. 3
    OBVIOUS
  <2>2. calls \in Seq({c1, c2, c3})
    OBVIOUS
  <2> QED BY <2>1, <2>2
<1>6. Tidy(calls, {})
  <2> HIDE DEF calls, own
  <2> QED BY <1>1, <1>3, <1>4, <1>5, TidyRow, Zenon
<1> QED BY <1>6 DEF build_user_data

CachedbLambdaThings ==
    Of("sqs", {"ingest_cleanup_dlq", "cuboid_import_dlq"})
      \cup Of("lambda", {"multi_lambda", "tile_uploaded", "tile_ingest", "delete_tile_objs",
                         "delete_tile_index_entry", "cuboid_import_lambda",
                         "volumetric_ingest_queue_upload_lambda"})

LEMMA CachedbLambdasTidy == Tidy(CachedbLambdas, CachedbLambdaThings)
<1> DEFINE c1 == add_sqs_queue("ingest_cleanup_dlq", {})
           c2 == add_sqs_queue("cuboid_import_dlq", {})
           c3 == add_sqs_policy("cuboidImportDlqPolicy", {"cuboid_import_dlq"})
           c4 == add_lambda("MultiLambda", build("multi_lambda", "lambda"),
                   CacheRole \union {"InternalSecurityGroup"} \union LambdaKeys)
           c5 == add_lambda("TileUploadedLambda", build("tile_uploaded", "lambda"), CacheRole)
           c6 == add_lambda("TileIngestLambda", build("tile_ingest", "lambda"), CacheRole)
           c7 == add_lambda("DeleteTileObjsLambda", build("delete_tile_objs", "lambda"),
                   CacheRole \union {"ingest_cleanup_dlq"})
           c8 == add_lambda("DeleteTileEntryLambda", build("delete_tile_index_entry",
                   "lambda"), CacheRole \union {"ingest_cleanup_dlq"})
           c9 == add_lambda("CuboidImportLambda", build("cuboid_import_lambda", "lambda"),
                   {"CuboidImportLambdaRole", "cuboid_import_dlq"})
           c10 == add_lambda("VolumetricIngestLambda",
                   build("volumetric_ingest_queue_upload_lambda", "lambda"), CacheRole)
           calls == <<c1, c2, c3, c4, c5, c6, c7, c8, c9, c10>>
           own == <<{build("ingest_cleanup_dlq", "sqs")},
                    {build("cuboid_import_dlq", "sqs")}, {},
                    {build("multi_lambda", "lambda")}, {build("tile_uploaded", "lambda")},
                    {build("tile_ingest", "lambda")},
                    {build("delete_tile_objs", "lambda")},
                    {build("delete_tile_index_entry", "lambda")},
                    {build("cuboid_import_lambda", "lambda")},
                    {build("volumetric_ingest_queue_upload_lambda", "lambda")}>>
<1>1. ASSUME NEW i \in 1 .. 10 PROVE Gives(calls[i], own[i])
  <2>1. /\ Gives(c1, {build("ingest_cleanup_dlq", "sqs")})
        /\ Gives(c2, {build("cuboid_import_dlq", "sqs")})
    BY AddsTagged
  <2>2. Gives(c3, {})
    BY AddsNothing
  <2>3. /\ Gives(c4, {build("multi_lambda", "lambda")})
        /\ Gives(c5, {build("tile_uploaded", "lambda")})
        /\ Gives(c6, {build("tile_ingest", "lambda")})
        /\ Gives(c7, {build("delete_tile_objs", "lambda")})
        /\ Gives(c8, {build("delete_tile_index_entry", "lambda")})
        /\ Gives(c9, {build("cuboid_import_lambda", "lambda")})
        /\ Gives(c10, {build("volumetric_ingest_queue_upload_lambda", "lambda")})
    BY PlainBuild, AddsNamed
  <2> HIDE DEF c1, c2, c3, c4, c5, c6, c7, c8, c9, c10
  <2>4. /\ Gives(calls[1], own[1]) /\ Gives(calls[2], own[2]) /\ Gives(calls[3], own[3])
        /\ Gives(calls[4], own[4]) /\ Gives(calls[5], own[5]) /\ Gives(calls[6], own[6])
        /\ Gives(calls[7], own[7]) /\ Gives(calls[8], own[8]) /\ Gives(calls[9], own[9])
        /\ Gives(calls[10], own[10])
    BY <2>1, <2>2, <2>3
  <2>5. i \in {1, 2, 3, 4, 5, 6, 7, 8, 9, 10}
    OBVIOUS
  <2> HIDE DEF calls, own
  <2> QED BY <2>4, <2>5
<1> DEFINE Row(i, t) ==
             \/ i = 1 /\ t[1] = "sqs" /\ t[2] = "ingest_cleanup_dlq"
             \/ i = 2 /\ t[1] = "sqs" /\ t[2] = "cuboid_import_dlq"
             \/ i = 4 /\ t[1] = "lambda" /\ t[2] = "multi_lambda"
             \/ i = 5 /\ t[1] = "lambda" /\ t[2] = "tile_uploaded"
             \/ i = 6 /\ t[1] = "lambda" /\ t[2] = "tile_ingest"
             \/ i = 7 /\ t[1] = "lambda" /\ t[2] = "delete_tile_objs"
             \/ i = 8 /\ t[1] = "lambda" /\ t[2] = "delete_tile_index_entry"
             \/ i = 9 /\ t[1] = "lambda" /\ t[2] = "cuboid_import_lambda"
             \/ i = 10 /\ t[1] = "lambda" /\ t[2] = "volumetric_ingest_queue_upload_lambda"
<1>2. ASSUME NEW i \in 1 .. 10, NEW t \in own[i] PROVE Row(i, t)
  <2>1. i \in {1, 2, 4, 5, 6, 7, 8, 9, 10}
    OBVIOUS
  <2>2. CASE i = 1
    BY <2>2 DEF build
  <2>3. CASE i = 2
    BY <2>3 DEF build
  <2>4. CASE i = 4
    BY <2>4 DEF build
  <2>5. CASE i = 5
    BY <2>5 DEF build
  <2>6. CASE i = 6
    BY <2>6 DEF build
  <2>7. CASE i = 7
    BY <2>7 DEF build
  <2>8. CASE i = 8
    BY <2>8 DEF build
  <2>9. CASE i = 9
    BY <2>9 DEF build
  <2>10. CASE i = 10
    BY <2>10 DEF build
  <2> HIDE DEF own
  <2> QED BY <2>1, <2>2, <2>3, <2>4, <2>5, <2>6, <2>7, <2>8, <2>9, <2>10
<1>3. \A i, j \in 1 .. 10 : i # j => own[i] \cap own[j] = {}
  <2> HIDE DEF own, Row
  <2>1. ASSUME NEW i \in 1 .. 10, NEW j \in 1 .. 10, i # j,
               NEW t \in own[i], t \in own[j]
        PROVE  FALSE
    <3>1. Row(i, t) /\ Row(j, t)
      BY <1>2, <2>1
    <3>2. CASE i = 1
      BY <2>1, <3>1, <3>2 DEF Row
    <3>3. CASE i = 2
      BY <2>1, <3>1, <3>3 DEF Row
    <3>4. CASE i = 4
      BY <2>1, <3>1, <3>4 DEF Row
    <3>5. CASE i = 5
      BY <2>1, <3>1, <3>5 DEF Row
    <3>6. CASE i = 6
      BY <2>1, <3>1, <3>6 DEF Row
    <3>7. CASE i = 7
      BY <2>1, <3>1, <3>7 DEF Row
    <3>8. CASE i = 8
      BY <2>1, <3>1, <3>8 DEF Row
    <3>9. CASE i = 9
      BY <2>1, <3>1, <3>9 DEF Row
    <3>10. CASE i = 10
      BY <2>1, <3>1, <3>10 DEF Row
    <3> QED BY <3>1, <3>2, <3>3, <3>4, <3>5, <3>6, <3>7, <3>8, <3>9, <3>10 DEF Row
  <2> QED BY <2>1
<1>4. \A i \in 1 .. 10 : own[i] \subseteq CachedbLambdaThings
  BY DEF CachedbLambdaThings, Of
<1>5. DOMAIN calls = 1 .. 10 /\ \E C : calls \in Seq(C)
  <2> HIDE DEF c1, c2, c3, c4, c5, c6, c7, c8, c9, c10
  <2>1. DOMAIN calls = 1 .. 10
    OBVIOUS
  <2>2. calls \in Seq({c1, c2, c3, c4, c5, c6, c7, c8, c9, c10})
    OBVIOUS
  <2> QED BY <2>1, <2>2
<1>6. Tidy(calls, CachedbLambdaThings)
  <2> HIDE DEF calls, own
  <2> QED BY <1>1, <1>3, <1>4, <1>5, TidyRow, Zenon
<1> QED BY <1>6 DEF CachedbLambdas

ActivityThings ==
    Of("dns", {"delete_event_rule", "activities"}) \cup Of("sns", {"downsample_dlq"})
      \cup Of("lambda", {"ingest_lambda", "downsample_volume", "start_sfn", "downsample_dlq"})

LEMMA ActivitiesTidy ==
    ASSUME NEW s
    PROVE  Tidy(activities(s), ActivityThings)
<1> DEFINE c1 == find_vpc
           c2 == sg_lookup_all(InternalSg)
           c3 == find_all_subnets(s.zones, s.there)
           c4 == find_all_subnets(s.asg, s.there)
           c5 == sns_topic_lookup(Topic)
           c6 == lambda_arn_lookup(build("multi_lambda", "lambda"))
           c7 == add_event_rule("DeleteEventRule", build("delete_event_rule", "dns"))
           c8 == add_lambda_permission("DeleteRulePerm", {"DeleteEventRule"},
                                  {build("multi_lambda", "lambda")})
           c9 == add_autoscale_group("Activities", build("activities", "dns"),
                                internal(s.asg, s.there), {})
           c10 == add_lambda("IngestLambda", build("ingest_lambda", "lambda"), {})
           c11 == add_lambda_permission("IngestLambdaExecute", {"IngestLambda"}, {})
           c12 == add_lambda("DownsampleVolumeLambda", build("downsample_volume", "lambda"),
                   {"DownsampleDLQ"})
           c13 == export_lookup(StepFcnRole)
           c14 == add_lambda("startSfnLambda", build("start_sfn", "lambda"), {})
           c15 == add_sns_topic("DownsampleDLQ", build("downsample_dlq", "sns"),
                   {"DownsampleDLQLambda"})
           c16 == add_lambda("DownsampleDLQLambda", build("downsample_dlq", "lambda"), {})
           c17 == add_lambda_permission("DownsampleDLQLambdaExecute", {"DownsampleDLQLambda"},
                   {})
           calls == <<c1, c2, c3, c4, c5, c6, c7, c8, c9, c10, c11, c12, c13, c14, c15, c16,
                   c17>>
           own == <<{}, {}, {}, {}, {}, {}, {build("delete_event_rule", "dns")}, {},
                    {build("activities", "dns")}, {build("ingest_lambda", "lambda")}, {},
                    {build("downsample_volume", "lambda")}, {},
                    {build("start_sfn", "lambda")}, {build("downsample_dlq", "sns")},
                    {build("downsample_dlq", "lambda")}, {}>>
<1>1. ASSUME NEW i \in 1 .. 17 PROVE Gives(calls[i], own[i])
  <2>1. /\ Gives(c1, {}) /\ Gives(c3, {}) /\ Gives(c4, {})
    BY LooksUp
  <2>2. Gives(c2, {})
    BY LooksUp DEF sg_lookup_all
  <2>3. Gives(c5, {})
    BY LooksUp DEF sns_topic_lookup
  <2>4. Gives(c6, {})
    BY LooksUp DEF lambda_arn_lookup
  <2>5. /\ Gives(c7, {build("delete_event_rule", "dns")})
        /\ Gives(c10, {build("ingest_lambda", "lambda")})
        /\ Gives(c12, {build("downsample_volume", "lambda")})
        /\ Gives(c14, {build("start_sfn", "lambda")})
        /\ Gives(c15, {build("downsample_dlq", "sns")})
        /\ Gives(c16, {build("downsample_dlq", "lambda")})
    BY PlainBuild, AddsNamed
  <2>6. /\ Gives(c8, {}) /\ Gives(c11, {}) /\ Gives(c17, {})
    BY AddsNothing
  <2>7. Gives(c9, {build("activities", "dns")})
    BY PlainBuild, Groups
  <2>8. Gives(c13, {})
    BY LooksUp DEF export_lookup
  <2> HIDE DEF c1, c2, c3, c4, c5, c6, c7, c8, c9, c10, c11, c12, c13, c14, c15, c16, c17
  <2>9. /\ Gives(calls[1], own[1]) /\ Gives(calls[2], own[2]) /\ Gives(calls[3], own[3])
        /\ Gives(calls[4], own[4]) /\ Gives(calls[5], own[5]) /\ Gives(calls[6], own[6])
        /\ Gives(calls[7], own[7]) /\ Gives(calls[8], own[8]) /\ Gives(calls[9], own[9])
        /\ Gives(calls[10], own[10]) /\ Gives(calls[11], own[11]) /\ Gives(calls[12], own[12])
        /\ Gives(calls[13], own[13]) /\ Gives(calls[14], own[14]) /\ Gives(calls[15], own[15])
        /\ Gives(calls[16], own[16]) /\ Gives(calls[17], own[17])
    BY <2>1, <2>2, <2>3, <2>4, <2>5, <2>6, <2>7, <2>8
  <2>10. i \in {1, 2, 3, 4, 5, 6, 7, 8, 9, 10, 11, 12, 13, 14, 15, 16, 17}
    OBVIOUS
  <2> HIDE DEF calls, own
  <2> QED BY <2>9, <2>10
<1> DEFINE Row(i, t) ==
             \/ i = 7 /\ t[1] = "dns" /\ t[2] = "delete_event_rule"
             \/ i = 9 /\ t[1] = "dns" /\ t[2] = "activities"
             \/ i = 10 /\ t[1] = "lambda" /\ t[2] = "ingest_lambda"
             \/ i = 12 /\ t[1] = "lambda" /\ t[2] = "downsample_volume"
             \/ i = 14 /\ t[1] = "lambda" /\ t[2] = "start_sfn"
             \/ i = 15 /\ t[1] = "sns" /\ t[2] = "downsample_dlq"
             \/ i = 16 /\ t[1] = "lambda" /\ t[2] = "downsample_dlq"
<1>2. ASSUME NEW i \in 1 .. 17, NEW t \in own[i] PROVE Row(i, t)
  <2>1. i \in {7, 9, 10, 12, 14, 15, 16}
    OBVIOUS
  <2>2. CASE i = 7
    BY <2>2 DEF build
  <2>3. CASE i = 9
    BY <2>3 DEF build
  <2>4. CASE i = 10
    BY <2>4 DEF build
  <2>5. CASE i = 12
    BY <2>5 DEF build
  <2>6. CASE i = 14
    BY <2>6 DEF build
  <2>7. CASE i = 15
    BY <2>7 DEF build
  <2>8. CASE i = 16
    BY <2>8 DEF build
  <2> HIDE DEF own
  <2> QED BY <2>1, <2>2, <2>3, <2>4, <2>5, <2>6, <2>7, <2>8
<1>3. \A i, j \in 1 .. 17 : i # j => own[i] \cap own[j] = {}
  <2> HIDE DEF own, Row
  <2>1. ASSUME NEW i \in 1 .. 17, NEW j \in 1 .. 17, i # j,
               NEW t \in own[i], t \in own[j]
        PROVE  FALSE
    <3>1. Row(i, t) /\ Row(j, t)
      BY <1>2, <2>1
    <3>2. CASE i = 7
      BY <2>1, <3>1, <3>2 DEF Row
    <3>3. CASE i = 9
      BY <2>1, <3>1, <3>3 DEF Row
    <3>4. CASE i = 10
      BY <2>1, <3>1, <3>4 DEF Row
    <3>5. CASE i = 12
      BY <2>1, <3>1, <3>5 DEF Row
    <3>6. CASE i = 14
      BY <2>1, <3>1, <3>6 DEF Row
    <3>7. CASE i = 15
      BY <2>1, <3>1, <3>7 DEF Row
    <3>8. CASE i = 16
      BY <2>1, <3>1, <3>8 DEF Row
    <3> QED BY <3>1, <3>2, <3>3, <3>4, <3>5, <3>6, <3>7, <3>8 DEF Row
  <2> QED BY <2>1
<1>4. \A i \in 1 .. 17 : own[i] \subseteq ActivityThings
  BY DEF ActivityThings, Of
<1>5. DOMAIN calls = 1 .. 17 /\ \E C : calls \in Seq(C)
  <2> HIDE DEF c1, c2, c3, c4, c5, c6, c7, c8, c9, c10, c11, c12, c13, c14, c15, c16, c17
  <2>1. DOMAIN calls = 1 .. 17
    OBVIOUS
  <2>2. calls \in Seq({c1, c2, c3, c4, c5, c6, c7, c8, c9, c10, c11, c12, c13, c14, c15, c16,
          c17})
    OBVIOUS
  <2> QED BY <2>1, <2>2
<1>6. Tidy(calls, ActivityThings)
  <2> HIDE DEF calls, own
  <2> QED BY <1>1, <1>3, <1>4, <1>5, TidyRow, Zenon
<1> QED BY <1>6 DEF activities

IndexThings ==
    Of("lambda", {"index_s3_writer", "index_write_id", "index_write_failed",
                  "index_find_cuboids", "index_batch_enqueue_cuboids", "index_enqueue_ids",
                  "index_load_ids_from_s3"})
      \cup Of("sqs", {"index_ids_queue"})

LEMMA IdindexingTidy ==
    ASSUME NEW s
    PROVE  Tidy(idindexing(s), IndexThings)
<1> DEFINE c1 == add_arg("LambdaCacheExecutionRole")
           c2 == IndexLambda("indexS3WriterLambda", "index_s3_writer")
           c3 == IndexLambda("indexWriteIdLambda", "index_write_id")
           c4 == IndexLambda("indexWriteFailedLambda", "index_write_failed")
           c5 == IndexLambda("indexFindCuboidsLambda", "index_find_cuboids")
           c6 == IndexLambda("indexBatchEnqueueCuboidsLambda", "index_batch_enqueue_cuboids")
           c7 == IndexLambda("indexEnqueueCuboidIdsLambda", "index_enqueue_ids")
           c8 == IndexLambda("indexLoadIdsFromS3Lambda", "index_load_ids_from_s3")
           c9 == sqs_lookup_arn(build("index_deadletter", "sqs"))
           c10 == add_sqs_queue("index_ids_queue", {})
           c11 == add_lambda_event_source("startIndexIdWriter", {"index_ids_queue"},
                                    {build("start_sfn", "lambda")})
           c12 == add_lambda_event_source("startCuboidSupervisor", {},
                                    {build("start_sfn", "lambda"),
                                     <<"export", "index_cuboids_keys">>})
           calls == <<c1, c2, c3, c4, c5, c6, c7, c8, c9, c10, c11, c12>>
           own == <<{}, {build("index_s3_writer", "lambda")},
                    {build("index_write_id", "lambda")},
                    {build("index_write_failed", "lambda")},
                    {build("index_find_cuboids", "lambda")},
                    {build("index_batch_enqueue_cuboids", "lambda")},
                    {build("index_enqueue_ids", "lambda")},
                    {build("index_load_ids_from_s3", "lambda")}, {},
                    {build("index_ids_queue", "sqs")}, {}, {}>>
<1>1. ASSUME NEW i \in 1 .. 12 PROVE Gives(calls[i], own[i])
  <2>1. Gives(c1, {})
    BY LooksUp
  <2>2. /\ Gives(c2, {build("index_s3_writer", "lambda")})
        /\ Gives(c3, {build("index_write_id", "lambda")})
        /\ Gives(c4, {build("index_write_failed", "lambda")})
        /\ Gives(c5, {build("index_find_cuboids", "lambda")})
        /\ Gives(c6, {build("index_batch_enqueue_cuboids", "lambda")})
        /\ Gives(c7, {build("index_enqueue_ids", "lambda")})
        /\ Gives(c8, {build("index_load_ids_from_s3", "lambda")})
    BY PlainBuild, AddsNamed DEF IndexLambda
  <2>3. Gives(c9, {})
    BY LooksUp DEF sqs_lookup_arn
  <2>4. Gives(c10, {build("index_ids_queue", "sqs")})
    BY AddsTagged
  <2>5. /\ Gives(c11, {}) /\ Gives(c12, {})
    BY AddsNothing
  <2> HIDE DEF c1, c2, c3, c4, c5, c6, c7, c8, c9, c10, c11, c12
  <2>6. /\ Gives(calls[1], own[1]) /\ Gives(calls[2], own[2]) /\ Gives(calls[3], own[3])
        /\ Gives(calls[4], own[4]) /\ Gives(calls[5], own[5]) /\ Gives(calls[6], own[6])
        /\ Gives(calls[7], own[7]) /\ Gives(calls[8], own[8]) /\ Gives(calls[9], own[9])
        /\ Gives(calls[10], own[10]) /\ Gives(calls[11], own[11]) /\ Gives(calls[12], own[12])
    BY <2>1, <2>2, <2>3, <2>4, <2>5
  <2>7. i \in {1, 2, 3, 4, 5, 6, 7, 8, 9, 10, 11, 12}
    OBVIOUS
  <2> HIDE DEF calls, own
  <2> QED BY <2>6, <2>7
<1> DEFINE Row(i, t) ==
             \/ i = 2 /\ t[1] = "lambda" /\ t[2] = "index_s3_writer"
             \/ i = 3 /\ t[1] = "lambda" /\ t[2] = "index_write_id"
             \/ i = 4 /\ t[1] = "lambda" /\ t[2] = "index_write_failed"
             \/ i = 5 /\ t[1] = "lambda" /\ t[2] = "index_find_cuboids"
             \/ i = 6 /\ t[1] = "lambda" /\ t[2] = "index_batch_enqueue_cuboids"
             \/ i = 7 /\ t[1] = "lambda" /\ t[2] = "index_enqueue_ids"
             \/ i = 8 /\ t[1] = "lambda" /\ t[2] = "index_load_ids_from_s3"
             \/ i = 10 /\ t[1] = "sqs" /\ t[2] = "index_ids_queue"
<1>2. ASSUME NEW i \in 1 .. 12, NEW t \in own[i] PROVE Row(i, t)
  <2>1. i \in {2, 3, 4, 5, 6, 7, 8, 10}
    OBVIOUS
  <2>2. CASE i = 2
    BY <2>2 DEF build
  <2>3. CASE i = 3
    BY <2>3 DEF build
  <2>4. CASE i = 4
    BY <2>4 DEF build
  <2>5. CASE i = 5
    BY <2>5 DEF build
  <2>6. CASE i = 6
    BY <2>6 DEF build
  <2>7. CASE i = 7
    BY <2>7 DEF build
  <2>8. CASE i = 8
    BY <2>8 DEF build
  <2>9. CASE i = 10
    BY <2>9 DEF build
  <2> HIDE DEF own
  <2> QED BY <2>1, <2>2, <2>3, <2>4, <2>5, <2>6, <2>7, <2>8, <2>9
<1>3. \A i, j \in 1 .. 12 : i # j => own[i] \cap own[j] = {}
  <2> HIDE DEF own, Row
  <2>1. ASSUME NEW i \in 1 .. 12, NEW j \in 1 .. 12, i # j,
               NEW t \in own[i], t \in own[j]
        PROVE  FALSE
    <3>1. Row(i, t) /\ Row(j, t)
      BY <1>2, <2>1
    <3>2. CASE i = 2
      BY <2>1, <3>1, <3>2 DEF Row
    <3>3. CASE i = 3
      BY <2>1, <3>1, <3>3 DEF Row
    <3>4. CASE i = 4
      BY <2>1, <3>1, <3>4 DEF Row
    <3>5. CASE i = 5
      BY <2>1, <3>1, <3>5 DEF Row
    <3>6. CASE i = 6
      BY <2>1, <3>1, <3>6 DEF Row
    <3>7. CASE i = 7
      BY <2>1, <3>1, <3>7 DEF Row
    <3>8. CASE i = 8
      BY <2>1, <3>1, <3>8 DEF Row
    <3>9. CASE i = 10
      BY <2>1, <3>1, <3>9 DEF Row
    <3> QED BY <3>1, <3>2, <3>3, <3>4, <3>5, <3>6, <3>7, <3>8, <3>9 DEF Row
  <2> QED BY <2>1
<1>4. \A i \in 1 .. 12 : own[i] \subseteq IndexThings
  BY DEF IndexThings, Of
<1>5. DOMAIN calls = 1 .. 12 /\ \E C : calls \in Seq(C)
  <2> HIDE DEF c1, c2, c3, c4, c5, c6, c7, c8, c9, c10, c11, c12
  <2>1. DOMAIN calls = 1 .. 12
    OBVIOUS
  <2>2. calls \in Seq({c1, c2, c3, c4, c5, c6, c7, c8, c9, c10, c11, c12})
    OBVIOUS
  <2> QED BY <2>1, <2>2
<1>6. Tidy(calls, IndexThings)
  <2> HIDE DEF calls, own
  <2> QED BY <1>1, <1>3, <1>4, <1>5, TidyRow, Zenon
<1> QED BY <1>6 DEF idindexing

WatchThings == Of("lambda", {"vault_monitor"}) \cup Of("cw", {"vault_check"})

LEMMA CloudwatchTidy ==
    ASSUME NEW s
    PROVE  Tidy(cloudwatch(s), WatchThings)
<1> DEFINE c1 == find_vpc
           c2 == find_all_subnets(s.lambda, s.there)
           c3 == sg_lookup(InternalSg)
           c4 == lb_lookup(build("endpoint_elb", "dns"))
           c5 == sns_topic_lookup(Topic)
           c6 == add_cloudwatch
           c7 == add_arg("VaultConsulHealthChecker")
           c8 == add_lambda("VaultLambda", build("vault_monitor", "lambda"),
                   {"VaultConsulHealthChecker"} \union internal(s.lambda, s.there))
           c9 == add_cloudwatch_rule("VaultCheck", build("vault_check", "cw"), {"VaultLambda"})
           c10 == add_lambda_permission("VaultPerms", {"VaultCheck"}, {build("vault_monitor",
                   "lambda")})
           calls == <<c1, c2, c3, c4, c5, c6, c7, c8, c9, c10>>
           own == <<{}, {}, {}, {}, {}, {}, {}, {build("vault_monitor", "lambda")},
                    {build("vault_check", "cw")}, {}>>
<1>1. ASSUME NEW i \in 1 .. 10 PROVE Gives(calls[i], own[i])
  <2>1. /\ Gives(c1, {}) /\ Gives(c2, {}) /\ Gives(c7, {})
    BY LooksUp
  <2>2. Gives(c3, {})
    BY LooksUp DEF sg_lookup
  <2>3. Gives(c4, {})
    BY LooksUp DEF lb_lookup
  <2>4. Gives(c5, {})
    BY LooksUp DEF sns_topic_lookup
  <2>5. Gives(c6, {})
    BY Alarms
  <2>6. /\ Gives(c8, {build("vault_monitor", "lambda")})
        /\ Gives(c9, {build("vault_check", "cw")})
    BY PlainBuild, AddsNamed
  <2>7. Gives(c10, {})
    BY AddsNothing
  <2> HIDE DEF c1, c2, c3, c4, c5, c6, c7, c8, c9, c10
  <2>8. /\ Gives(calls[1], own[1]) /\ Gives(calls[2], own[2]) /\ Gives(calls[3], own[3])
        /\ Gives(calls[4], own[4]) /\ Gives(calls[5], own[5]) /\ Gives(calls[6], own[6])
        /\ Gives(calls[7], own[7]) /\ Gives(calls[8], own[8]) /\ Gives(calls[9], own[9])
        /\ Gives(calls[10], own[10])
    BY <2>1, <2>2, <2>3, <2>4, <2>5, <2>6, <2>7
  <2>9. i \in {1, 2, 3, 4, 5, 6, 7, 8, 9, 10}
    OBVIOUS
  <2> HIDE DEF calls, own
  <2> QED BY <2>8, <2>9
<1> DEFINE Row(i, t) ==
             \/ i = 8 /\ t[1] = "lambda" /\ t[2] = "vault_monitor"
             \/ i = 9 /\ t[1] = "cw" /\ t[2] = "vault_check"
<1>2. ASSUME NEW i \in 1 .. 10, NEW t \in own[i] PROVE Row(i, t)
  <2>1. i \in {8, 9}
    OBVIOUS
  <2>2. CASE i = 8
    BY <2>2 DEF build
  <2>3. CASE i = 9
    BY <2>3 DEF build
  <2> HIDE DEF own
  <2> QED BY <2>1, <2>2, <2>3
<1>3. \A i, j \in 1 .. 10 : i # j => own[i] \cap own[j] = {}
  <2> HIDE DEF own, Row
  <2>1. ASSUME NEW i \in 1 .. 10, NEW j \in 1 .. 10, i # j,
               NEW t \in own[i], t \in own[j]
        PROVE  FALSE
    <3>1. Row(i, t) /\ Row(j, t)
      BY <1>2, <2>1
    <3> QED BY <2>1, <3>1 DEF Row
  <2> QED BY <2>1
<1>4. \A i \in 1 .. 10 : own[i] \subseteq WatchThings
  BY DEF WatchThings, Of
<1>5. DOMAIN calls = 1 .. 10 /\ \E C : calls \in Seq(C)
  <2> HIDE DEF c1, c2, c3, c4, c5, c6, c7, c8, c9, c10
  <2>1. DOMAIN calls = 1 .. 10
    OBVIOUS
  <2>2. calls \in Seq({c1, c2, c3, c4, c5, c6, c7, c8, c9, c10})
    OBVIOUS
  <2> QED BY <2>1, <2>2
<1>6. Tidy(calls, WatchThings)
  <2> HIDE DEF calls, own
  <2> QED BY <1>1, <1>3, <1>4, <1>5, TidyRow, Zenon
<1> QED BY <1>6 DEF cloudwatch

DynamoThings == Of("lambda", {"dynamo_lambda"}) \cup Of("cw", {"trigger_dynamo_autoscale"})

LEMMA DynamolambdaTidy ==
    ASSUME NEW s
    PROVE  Tidy(dynamolambda(s), DynamoThings)
<1> DEFINE c1 == add_arg("LambdaCacheExecutionRole")
           c2 == add_lambda("DynamoLambda", build("dynamo_lambda", "lambda"), CacheRole)
           c3 == add_cloudwatch_rule("TriggerDynamoAutoscale",
                   build("trigger_dynamo_autoscale", "cw"),
                                {"DynamoLambda"})
           c4 == add_lambda_permission("TriggerPerms", {"TriggerDynamoAutoscale"},
                                  {build("dynamo_lambda", "lambda")})
           calls == <<c1, c2, c3, c4>>
           own == <<{}, {build("dynamo_lambda", "lambda")},
                    {build("trigger_dynamo_autoscale", "cw")}, {}>>
<1>1. ASSUME NEW i \in 1 .. 4 PROVE Gives(calls[i], own[i])
  <2>1. Gives(c1, {})
    BY LooksUp
  <2>2. /\ Gives(c2, {build("dynamo_lambda", "lambda")})
        /\ Gives(c3, {build("trigger_dynamo_autoscale", "cw")})
    BY PlainBuild, AddsNamed
  <2>3. Gives(c4, {})
    BY AddsNothing
  <2> HIDE DEF c1, c2, c3, c4
  <2>4. /\ Gives(calls[1], own[1]) /\ Gives(calls[2], own[2]) /\ Gives(calls[3], own[3])
        /\ Gives(calls[4], own[4])
    BY <2>1, <2>2, <2>3
  <2>5. i \in {1, 2, 3, 4}
    OBVIOUS
  <2> HIDE DEF calls, own
  <2> QED BY <2>4, <2>5
<1> DEFINE Row(i, t) ==
             \/ i = 2 /\ t[1] = "lambda" /\ t[2] = "dynamo_lambda"
             \/ i = 3 /\ t[1] = "cw" /\ t[2] = "trigger_dynamo_autoscale"
<1>2. ASSUME NEW i \in 1 .. 4, NEW t \in own[i] PROVE Row(i, t)
  <2>1. i \in {2, 3}
    OBVIOUS
  <2>2. CASE i = 2
    BY <2>2 DEF build
  <2>3. CASE i = 3
    BY <2>3 DEF build
  <2> HIDE DEF own
  <2> QED BY <2>1, <2>2, <2>3
<1>3. \A i, j \in 1 .. 4 : i # j => own[i] \cap own[j] = {}
  <2> HIDE DEF own, Row
  <2>1. ASSUME NEW i \in 1 .. 4, NEW j \in 1 .. 4, i # j,
               NEW t \in own[i], t \in own[j]
        PROVE  FALSE
    <3>1. Row(i, t) /\ Row(j, t)
      BY <1>2, <2>1
    <3> QED BY <2>1, <3>1 DEF Row
  <2> QED BY <2>1
<1>4. \A i \in 1 .. 4 : own[i] \subseteq DynamoThings
  BY DEF DynamoThings, Of
<1>5. DOMAIN calls = 1 .. 4 /\ \E C : calls \in Seq(C)
  <2> HIDE DEF c1, c2, c3, c4
  <2>1. DOMAIN calls = 1 .. 4
    OBVIOUS
  <2>2. calls \in Seq({c1, c2, c3, c4})
    OBVIOUS
  <2> QED BY <2>1, <2>2
<1>6. Tidy(calls, DynamoThings)
  <2> HIDE DEF calls, own
  <2> QED BY <1>1, <1>3, <1>4, <1>5, TidyRow, Zenon
<1> QED BY <1>6 DEF dynamolambda

CopyThings == Of("lambda", {"copy_cuboid_lambda"}) \cup Of("sqs", {"copy_cuboid_dlq"})

LEMMA CopycuboidTidy ==
    ASSUME NEW s
    PROVE  Tidy(copycuboid(s), CopyThings)
<1> DEFINE c1 == add_arg("LambdaCacheExecutionRole")
           c2 == add_sqs_queue("copy_cuboid_dlq", {})
           c3 == add_lambda("CopyCuboidLambda", build("copy_cuboid_lambda", "lambda"),
                   CacheRole \union {"copy_cuboid_dlq"})
           calls == <<c1, c2, c3>>
           own == <<{}, {build("copy_cuboid_dlq", "sqs")},
                    {build("copy_cuboid_lambda", "lambda")}>>
<1>1. ASSUME NEW i \in 1 .. 3 PROVE Gives(calls[i], own[i])
  <2>1. Gives(c1, {})
    BY LooksUp
  <2>2. Gives(c2, {build("copy_cuboid_dlq", "sqs")})
    BY AddsTagged
  <2>3. Gives(c3, {build("copy_cuboid_lambda", "lambda")})
    BY PlainBuild, AddsNamed
  <2> HIDE DEF c1, c2, c3
  <2>4. /\ Gives(calls[1], own[1]) /\ Gives(calls[2], own[2]) /\ Gives(calls[3], own[3])
    BY <2>1, <2>2, <2>3
  <2>5. i \in {1, 2, 3}
    OBVIOUS
  <2> HIDE DEF calls, own
  <2> QED BY <2>4, <2>5
<1> DEFINE Row(i, t) ==
             \/ i = 2 /\ t[1] = "sqs" /\ t[2] = "copy_cuboid_dlq"
             \/ i = 3 /\ t[1] = "lambda" /\ t[2] = "copy_cuboid_lambda"
<1>2. ASSUME NEW i \in 1 .. 3, NEW t \in own[i] PROVE Row(i, t)
  <2>1. i \in {2, 3}
    OBVIOUS
  <2>2. CASE i = 2
    BY <2>2 DEF build
  <2>3. CASE i = 3
    BY <2>3 DEF build
  <2> HIDE DEF own
  <2> QED BY <2>1, <2>2, <2>3
<1>3. \A i, j \in 1 .. 3 : i # j => own[i] \cap own[j] = {}
  <2> HIDE DEF own, Row
  <2>1. ASSUME NEW i \in 1 .. 3, NEW j \in 1 .. 3, i # j,
               NEW t \in own[i], t \in own[j]
        PROVE  FALSE
    <3>1. Row(i, t) /\ Row(j, t)
      BY <1>2, <2>1
    <3> QED BY <2>1, <3>1 DEF Row
  <2> QED BY <2>1
<1>4. \A i \in 1 .. 3 : own[i] \subseteq CopyThings
  BY DEF CopyThings, Of
<1>5. DOMAIN calls = 1 .. 3 /\ \E C : calls \in Seq(C)
  <2> HIDE DEF c1, c2, c3
  <2>1. DOMAIN calls = 1 .. 3
    OBVIOUS
  <2>2. calls \in Seq({c1, c2, c3})
    OBVIOUS
  <2> QED BY <2>1, <2>2
<1>6. Tidy(calls, CopyThings)
  <2> HIDE DEF calls, own
  <2> QED BY <1>1, <1>3, <1>4, <1>5, TidyRow, Zenon
<1> QED BY <1>6 DEF copycuboid

PipelineThings == {<<"pipeline", x>> : x \in {"vault-backup", "dynamo-backup",
        "endpoint-backup"}}

LEMMA BackupPipelinesTidy ==
    ASSUME NEW deps
    PROVE  Tidy(BackupPipelines(deps), PipelineThings)
<1> DEFINE c1 == add_data_pipeline("VaultBackupPipeline", "vault-backup", deps)
           c2 == add_data_pipeline("DDBPipeline", "dynamo-backup", deps)
           c3 == add_data_pipeline("EndpointPipeline", "endpoint-backup", deps)
           calls == <<c1, c2, c3>>
           own == <<{<<"pipeline", "vault-backup">>}, {<<"pipeline", "dynamo-backup">>},
                    {<<"pipeline", "endpoint-backup">>}>>
<1>1. ASSUME NEW i \in 1 .. 3 PROVE Gives(calls[i], own[i])
  <2>1. /\ Gives(c1, {<<"pipeline", "vault-backup">>})
        /\ Gives(c2, {<<"pipeline", "dynamo-backup">>})
        /\ Gives(c3, {<<"pipeline", "endpoint-backup">>})
    BY AddsTagged
  <2> HIDE DEF c1, c2, c3
  <2>2. /\ Gives(calls[1], own[1]) /\ Gives(calls[2], own[2]) /\ Gives(calls[3], own[3])
    BY <2>1
  <2>3. i \in {1, 2, 3}
    OBVIOUS
  <2> HIDE DEF calls, own
  <2> QED BY <2>2, <2>3
<1> DEFINE Row(i, t) ==
             \/ i = 1 /\ t[1] = "pipeline" /\ t[2] = "vault-backup"
             \/ i = 2 /\ t[1] = "pipeline" /\ t[2] = "dynamo-backup"
             \/ i = 3 /\ t[1] = "pipeline" /\ t[2] = "endpoint-backup"
<1>2. ASSUME NEW i \in 1 .. 3, NEW t \in own[i] PROVE Row(i, t)
  <2>1. i \in {1, 2, 3}
    OBVIOUS
  <2>2. CASE i = 1
    BY <2>2 DEF build
  <2>3. CASE i = 2
    BY <2>3 DEF build
  <2>4. CASE i = 3
    BY <2>4 DEF build
  <2> HIDE DEF own
  <2> QED BY <2>1, <2>2, <2>3, <2>4
<1>3. \A i, j \in 1 .. 3 : i # j => own[i] \cap own[j] = {}
  <2> HIDE DEF own, Row
  <2>1. ASSUME NEW i \in 1 .. 3, NEW j \in 1 .. 3, i # j,
               NEW t \in own[i], t \in own[j]
        PROVE  FALSE
    <3>1. Row(i, t) /\ Row(j, t)
      BY <1>2, <2>1
    <3> QED BY <2>1, <3>1 DEF Row
  <2> QED BY <2>1
<1>4. \A i \in 1 .. 3 : own[i] \subseteq PipelineThings
  BY DEF PipelineThings
<1>5. DOMAIN calls = 1 .. 3 /\ \E C : calls \in Seq(C)
  <2> HIDE DEF c1, c2, c3
  <2>1. DOMAIN calls = 1 .. 3
    OBVIOUS
  <2>2. calls \in Seq({c1, c2, c3})
    OBVIOUS
  <2> QED BY <2>1, <2>2
<1>6. Tidy(calls, PipelineThings)
  <2> HIDE DEF calls, own
  <2> QED BY <1>1, <1>3, <1>4, <1>5, TidyRow, Zenon
<1> QED BY <1>6 DEF BackupPipelines

LEMMA ZoneSubnetsMade ==
    /\ Made(SubnetsOf(SubnetKeys(AllZones)), {<<"core", 1>>})
    /\ Made(SubnetsOf(LambdaKeys), {<<"cachedb", 1>>})
<1>1. \A t \in ACCOUNT : t[1] \in {"topic", "zone", "export"}
  BY DEF ACCOUNT, Topic, ExternalZone
<1>2. "zone_subnet" \notin DOMAIN RESOURCES
  BY TypesOfNames
<1>3. \A key : key \in LambdaKeys =>
          Maker(Subnet(key)) = <<"cachedb", 1>> /\ Subnet(key)[1] = "zone_subnet"
  BY DEF Maker, Subnet
<1>4. \A key : key \notin LambdaKeys =>
          Maker(Subnet(key)) = <<"core", 1>> /\ Subnet(key)[1] = "zone_subnet"
  BY DEF Maker, Subnet
<1>5. SubnetKeys(AllZones) \cap LambdaKeys = {}
  BY ZonesAssumption DEF SubnetKeys
<1>6. ASSUME NEW t, t[1] = "zone_subnet"
      PROVE  /\ ~ (t[1] = "s3") /\ t[1] \notin DOMAIN RESOURCES
             /\ t \notin ACCOUNT /\ t[1] # "upload"
  BY <1>1, <1>2, <1>6
<1>7. Made(SubnetsOf(SubnetKeys(AllZones)), {<<"core", 1>>})
  <2>1. ASSUME NEW t \in SubnetsOf(SubnetKeys(AllZones))
        PROVE  /\ Maker(t) = <<"core", 1>> /\ t[1] \notin DOMAIN RESOURCES
               /\ t[1] # "upload" /\ t \notin ACCOUNT
    <3>1. PICK key \in SubnetKeys(AllZones) : t = Subnet(key)
      BY DEF SubnetsOf
    <3> QED BY <3>1, <1>4, <1>5, <1>6
  <2>2. <<"core", 1>> \notin BucketParts
    BY DEF BucketParts
  <2> QED BY <2>1, <2>2, MadeFrom
<1>8. Made(SubnetsOf(LambdaKeys), {<<"cachedb", 1>>})
  <2>1. ASSUME NEW t \in SubnetsOf(LambdaKeys)
        PROVE  /\ Maker(t) = <<"cachedb", 1>> /\ t[1] \notin DOMAIN RESOURCES
               /\ t[1] # "upload" /\ t \notin ACCOUNT
    <3>1. PICK key \in LambdaKeys : t = Subnet(key)
      BY DEF SubnetsOf
    <3> QED BY <3>1, <1>3, <1>6
  <2>2. <<"cachedb", 1>> \notin BucketParts
    BY DEF BucketParts
  <2> QED BY <2>1, <2>2, MadeFrom
<1> QED BY <1>7, <1>8

LEMMA CoreMachinesMade == Made(CoreMachineThings, {<<"core", 1>>})
<1> DEFINE subnets == {"internal", "external"}
           lambdas == {"delete_eni"}
           hosts == {"bastion"}
           keys == {"vault"}
           tables == {"vault"}
           otherHosts == {"vault"}
<1>1. <<"core", 1>> \notin BucketParts
  BY DEF BucketParts
<1>2. Made({VPC, Zone}, {<<"core", 1>>})
  <2>1. \A t \in {VPC, Zone} : Maker(t) = <<"core", 1>>
    <3>1. ASSUME NEW t \in {VPC, Zone}
          PROVE  \/ t[1] = "vpc" /\ t[2] = "VPC"
                 \/ t[1] = "zone" /\ t[2] = "internal"
      BY DEF VPC, Zone
    <3>2. Makers["vpc"]["VPC"] = <<"core", 1>> /\ Makers["zone"]["internal"] = <<"core", 1>>
      BY DEF Makers
    <3> QED BY <3>1, <3>2 DEF Maker
  <2>2. \A t \in {VPC, Zone} : t[1] \notin DOMAIN RESOURCES /\ t[1] # "upload"
    BY DEF RESOURCES, VPC, Zone
  <2>3. \A t \in {VPC, Zone} : t \notin ACCOUNT
    BY DEF ACCOUNT, Topic, ExternalZone, StepFcnRole, VPC, Zone
  <2> QED BY <1>1, <2>1, <2>2, <2>3, MadeFrom
<1>3. Made(SubnetsOf(SubnetKeys(AllZones)), {<<"core", 1>>})
  BY ZoneSubnetsMade
<1>4. Made(Of("subnet", subnets), {<<"core", 1>>})
  <2>1. "subnet" \in DOMAIN RESOURCES /\ subnets \subseteq RESOURCES["subnet"]
    BY DEF RESOURCES
  <2>2. \A r \in subnets : Makers["subnet"][r] = <<"core", 1>>
    BY DEF Makers
  <2> HIDE DEF subnets
  <2> QED BY <1>1, <2>1, <2>2, MadeOf
<1>5. Made(Of("lambda", lambdas), {<<"core", 1>>})
  <2>1. "lambda" \in DOMAIN RESOURCES /\ lambdas \subseteq RESOURCES["lambda"]
    BY DEF RESOURCES
  <2>2. \A r \in lambdas : Makers["lambda"][r] = <<"core", 1>>
    BY DEF Makers
  <2> HIDE DEF lambdas
  <2> QED BY <1>1, <2>1, <2>2, MadeOf
<1>6. Made(Recorded(Of("dns", hosts)), {<<"core", 1>>})
  <2>1. "dns" \in DOMAIN RESOURCES /\ hosts \subseteq RESOURCES["dns"]
    BY DEF RESOURCES
  <2>2. \A r \in hosts : Makers["dns"][r] = <<"core", 1>>
    BY DEF Makers
  <2> HIDE DEF hosts
  <2> QED BY <1>1, <2>1, <2>2, MadeOf
<1>7. Made(Of("key", keys), {<<"core", 1>>})
  <2>1. "key" \in DOMAIN RESOURCES /\ keys \subseteq RESOURCES["key"]
    BY DEF RESOURCES
  <2>2. \A r \in keys : Makers["key"][r] = <<"core", 1>>
    BY DEF Makers
  <2> HIDE DEF keys
  <2> QED BY <1>1, <2>1, <2>2, MadeOf
<1>8. Made(Of("ddb", tables), {<<"core", 1>>})
  <2>1. "ddb" \in DOMAIN RESOURCES /\ tables \subseteq RESOURCES["ddb"]
    BY DEF RESOURCES
  <2>2. \A r \in tables : Makers["ddb"][r] = <<"core", 1>>
    BY DEF Makers
  <2> HIDE DEF tables
  <2> QED BY <1>1, <2>1, <2>2, MadeOf
<1>9. Made(Of("dns", otherHosts), {<<"core", 1>>})
  <2>1. "dns" \in DOMAIN RESOURCES /\ otherHosts \subseteq RESOURCES["dns"]
    BY DEF RESOURCES
  <2>2. \A r \in otherHosts : Makers["dns"][r] = <<"core", 1>>
    BY DEF Makers
  <2> HIDE DEF otherHosts
  <2> QED BY <1>1, <2>1, <2>2, MadeOf
<1> QED BY <1>2, <1>3, <1>4, <1>5, <1>6, <1>7, <1>8, <1>9 DEF Made, CoreMachineThings

LEMMA CoreAuthMade == Made(CoreAuthThings, {<<"core", 2>>})
<1> DEFINE hosts == {"auth"}
           databases == {"auth_db"}
<1>1. <<"core", 2>> \notin BucketParts
  BY DEF BucketParts
<1>2. Made({<<"lb", build("auth", "dns")>>, <<"public", "auth">>}, {<<"core", 2>>})
  <2>1. \A t \in {<<"lb", build("auth", "dns")>>, <<"public", "auth">>} : Maker(t) = <<"core",
          2>>
    <3>1. ASSUME NEW t \in {<<"lb", build("auth", "dns")>>, <<"public", "auth">>}
          PROVE  \/ t[1] = "lb" /\ t[2][1] = "dns" /\ t[2][2] = "auth"
                 \/ t[1] = "public" /\ t[2] = "auth"
      BY DEF build
    <3>2. Makers["dns"]["auth"] = <<"core", 2>> /\ Makers["public"]["auth"] = <<"core", 2>>
      BY DEF Makers
    <3> QED BY <3>1, <3>2 DEF Maker
  <2>2. \A t \in {<<"lb", build("auth", "dns")>>, <<"public",
          "auth">>} : t[1] \notin DOMAIN RESOURCES /\ t[1] # "upload"
    BY DEF RESOURCES, build
  <2>3. \A t \in {<<"lb", build("auth", "dns")>>, <<"public", "auth">>} : t \notin ACCOUNT
    BY DEF ACCOUNT, Topic, ExternalZone, StepFcnRole, build
  <2> QED BY <1>1, <2>1, <2>2, <2>3, MadeFrom
<1>3. Made(Of("dns", hosts), {<<"core", 2>>})
  <2>1. "dns" \in DOMAIN RESOURCES /\ hosts \subseteq RESOURCES["dns"]
    BY DEF RESOURCES
  <2>2. \A r \in hosts : Makers["dns"][r] = <<"core", 2>>
    BY DEF Makers
  <2> HIDE DEF hosts
  <2> QED BY <1>1, <2>1, <2>2, MadeOf
<1>4. Made(Recorded(Of("rds", databases)), {<<"core", 2>>})
  <2>1. "rds" \in DOMAIN RESOURCES /\ databases \subseteq RESOURCES["rds"]
    BY DEF RESOURCES
  <2>2. \A r \in databases : Makers["rds"][r] = <<"core", 2>>
    BY DEF Makers
  <2> HIDE DEF databases
  <2> QED BY <1>1, <2>1, <2>2, MadeOf
<1> QED BY <1>2, <1>3, <1>4 DEF Made, CoreAuthThings

LEMMA CoreNetworkMade == Made(CoreNetworkThings, {<<"core", 3>>})
<1> DEFINE lambdas == {"dns"}
           topics == {"dns"}
           groups == {"internal", "ssh", "auth"}
           routes == {"internal", "internet"}
           gateways == {"internet"}
<1>1. <<"core", 3>> \notin BucketParts
  BY DEF BucketParts
<1>2. Made(Of("lambda", lambdas), {<<"core", 3>>})
  <2>1. "lambda" \in DOMAIN RESOURCES /\ lambdas \subseteq RESOURCES["lambda"]
    BY DEF RESOURCES
  <2>2. \A r \in lambdas : Makers["lambda"][r] = <<"core", 3>>
    BY DEF Makers
  <2> HIDE DEF lambdas
  <2> QED BY <1>1, <2>1, <2>2, MadeOf
<1>3. Made(Of("sns", topics), {<<"core", 3>>})
  <2>1. "sns" \in DOMAIN RESOURCES /\ topics \subseteq RESOURCES["sns"]
    BY DEF RESOURCES
  <2>2. \A r \in topics : Makers["sns"][r] = <<"core", 3>>
    BY DEF Makers
  <2> HIDE DEF topics
  <2> QED BY <1>1, <2>1, <2>2, MadeOf
<1>4. Made(Of("sg", groups), {<<"core", 3>>})
  <2>1. "sg" \in DOMAIN RESOURCES /\ groups \subseteq RESOURCES["sg"]
    BY DEF RESOURCES
  <2>2. \A r \in groups : Makers["sg"][r] = <<"core", 3>>
    BY DEF Makers
  <2> HIDE DEF groups
  <2> QED BY <1>1, <2>1, <2>2, MadeOf
<1>5. Made(Of("rt", routes), {<<"core", 3>>})
  <2>1. "rt" \in DOMAIN RESOURCES /\ routes \subseteq RESOURCES["rt"]
    BY DEF RESOURCES
  <2>2. \A r \in routes : Makers["rt"][r] = <<"core", 3>>
    BY DEF Makers
  <2> HIDE DEF routes
  <2> QED BY <1>1, <2>1, <2>2, MadeOf
<1>6. Made(Of("gw", gateways), {<<"core", 3>>})
  <2>1. "gw" \in DOMAIN RESOURCES /\ gateways \subseteq RESOURCES["gw"]
    BY DEF RESOURCES
  <2>2. \A r \in gateways : Makers["gw"][r] = <<"core", 3>>
    BY DEF Makers
  <2> HIDE DEF gateways
  <2> QED BY <1>1, <2>1, <2>2, MadeOf
<1> QED BY <1>2, <1>3, <1>4, <1>5, <1>6 DEF Made, CoreNetworkThings

LEMMA RedisMade == Made(RedisThings, {<<"redis", 1>>})
<1> DEFINE caches == {"cache", "cache_state"}
<1>1. <<"redis", 1>> \notin BucketParts
  BY DEF BucketParts
<1>2. Made(Recorded(Of("redis", caches)), {<<"redis", 1>>})
  <2>1. "redis" \in DOMAIN RESOURCES /\ caches \subseteq RESOURCES["redis"]
    BY DEF RESOURCES
  <2>2. \A r \in caches : Makers["redis"][r] = <<"redis", 1>>
    BY DEF Makers
  <2> HIDE DEF caches
  <2> QED BY <1>1, <2>1, <2>2, MadeOf
<1> QED BY <1>2 DEF Made, RedisThings

LEMMA SessionMade == Made(Recorded(Of("redis", {"cache_session"})), {<<"redis", 2>>})
<1> DEFINE caches == {"cache_session"}
<1>1. <<"redis", 2>> \notin BucketParts
  BY DEF BucketParts
<1>2. Made(Recorded(Of("redis", caches)), {<<"redis", 2>>})
  <2>1. "redis" \in DOMAIN RESOURCES /\ caches \subseteq RESOURCES["redis"]
    BY DEF RESOURCES
  <2>2. \A r \in caches : Makers["redis"][r] = <<"redis", 2>>
    BY DEF Makers
  <2> HIDE DEF caches
  <2> QED BY <1>1, <2>1, <2>2, MadeOf
<1> QED BY <1>2 DEF Made

LEMMA ApiLookupsMade == Made(Of("sg", {"https"}), {<<"api", 1>>})
<1> DEFINE groups == {"https"}
<1>1. <<"api", 1>> \notin BucketParts
  BY DEF BucketParts
<1>2. Made(Of("sg", groups), {<<"api", 1>>})
  <2>1. "sg" \in DOMAIN RESOURCES /\ groups \subseteq RESOURCES["sg"]
    BY DEF RESOURCES
  <2>2. \A r \in groups : Makers["sg"][r] = <<"api", 1>>
    BY DEF Makers
  <2> HIDE DEF groups
  <2> QED BY <1>1, <2>1, <2>2, MadeOf
<1> QED BY <1>2 DEF Made

LEMMA ApiQueuesMade == Made(ApiQueueThings, {<<"api", 2>>})
<1> DEFINE queues == {"index_deadletter", "index_cuboids_keys", "deadletter",
                     "downsample_queue", "s3flush"}
<1>1. <<"api", 2>> \notin BucketParts
  BY DEF BucketParts
<1>2. Made({<<"export", "index_cuboids_keys">>}, {<<"api", 2>>})
  <2>1. \A t \in {<<"export", "index_cuboids_keys">>} : Maker(t) = <<"api", 2>>
    <3>1. ASSUME NEW t \in {<<"export", "index_cuboids_keys">>}
          PROVE  \/ t[1] = "export" /\ t[2] = "index_cuboids_keys"
      OBVIOUS
    <3>2. Makers["export"]["index_cuboids_keys"] = <<"api", 2>>
      BY DEF Makers
    <3> QED BY <3>1, <3>2 DEF Maker
  <2>2. \A t \in {<<"export",
          "index_cuboids_keys">>} : t[1] \notin DOMAIN RESOURCES /\ t[1] # "upload"
    BY DEF RESOURCES
  <2>3. \A t \in {<<"export", "index_cuboids_keys">>} : t \notin ACCOUNT
    BY DEF ACCOUNT, Topic, ExternalZone, StepFcnRole
  <2> QED BY <1>1, <2>1, <2>2, <2>3, MadeFrom
<1>3. Made(Of("sqs", queues), {<<"api", 2>>})
  <2>1. "sqs" \in DOMAIN RESOURCES /\ queues \subseteq RESOURCES["sqs"]
    BY DEF RESOURCES
  <2>2. \A r \in queues : Makers["sqs"][r] = <<"api", 2>>
    BY DEF Makers
  <2> HIDE DEF queues
  <2> QED BY <1>1, <2>1, <2>2, MadeOf
<1> QED BY <1>2, <1>3 DEF Made, ApiQueueThings

LEMMA ApiMachinesMade == Made(ApiMachineThings, {<<"api", 3>>})
<1> DEFINE hosts == {"endpoint"}
           otherHosts == {"endpoint_db"}
<1>1. <<"api", 3>> \notin BucketParts
  BY DEF BucketParts
<1>2. Made({<<"lb", build("endpoint_elb", "dns")>>, <<"public", "api">>}, {<<"api", 3>>})
  <2>1. \A t \in {<<"lb", build("endpoint_elb", "dns")>>, <<"public",
          "api">>} : Maker(t) = <<"api", 3>>
    <3>1. ASSUME NEW t \in {<<"lb", build("endpoint_elb", "dns")>>, <<"public", "api">>}
          PROVE  \/ t[1] = "lb" /\ t[2][1] = "dns" /\ t[2][2] = "endpoint_elb"
                 \/ t[1] = "public" /\ t[2] = "api"
      BY DEF build
    <3>2. Makers["dns"]["endpoint_elb"] = <<"api", 3>> /\ Makers["public"]["api"] = <<"api", 3>>
      BY DEF Makers
    <3> QED BY <3>1, <3>2 DEF Maker
  <2>2. \A t \in {<<"lb", build("endpoint_elb", "dns")>>, <<"public",
          "api">>} : t[1] \notin DOMAIN RESOURCES /\ t[1] # "upload"
    BY DEF RESOURCES, build
  <2>3. \A t \in {<<"lb", build("endpoint_elb", "dns")>>, <<"public",
          "api">>} : t \notin ACCOUNT
    BY DEF ACCOUNT, Topic, ExternalZone, StepFcnRole, build
  <2> QED BY <1>1, <2>1, <2>2, <2>3, MadeFrom
<1>3. Made(Of("dns", hosts), {<<"api", 3>>})
  <2>1. "dns" \in DOMAIN RESOURCES /\ hosts \subseteq RESOURCES["dns"]
    BY DEF RESOURCES
  <2>2. \A r \in hosts : Makers["dns"][r] = <<"api", 3>>
    BY DEF Makers
  <2> HIDE DEF hosts
  <2> QED BY <1>1, <2>1, <2>2, MadeOf
<1>4. Made(Recorded(Of("dns", otherHosts)), {<<"api", 3>>})
  <2>1. "dns" \in DOMAIN RESOURCES /\ otherHosts \subseteq RESOURCES["dns"]
    BY DEF RESOURCES
  <2>2. \A r \in otherHosts : Makers["dns"][r] = <<"api", 3>>
    BY DEF Makers
  <2> HIDE DEF otherHosts
  <2> QED BY <1>1, <2>1, <2>2, MadeOf
<1> QED BY <1>2, <1>3, <1>4 DEF Made, ApiMachineThings

LEMMA ApiTablesMade == Made(ApiTableThings, {<<"api", 4>>})
<1> DEFINE tables == {"meta", "s3_index", "tile_index", "id_index", "id_count_index"}
<1>1. <<"api", 4>> \notin BucketParts
  BY DEF BucketParts
<1>2. Made(Of("ddb", tables), {<<"api", 4>>})
  <2>1. "ddb" \in DOMAIN RESOURCES /\ tables \subseteq RESOURCES["ddb"]
    BY DEF RESOURCES
  <2>2. \A r \in tables : Makers["ddb"][r] = <<"api", 4>>
    BY DEF Makers
  <2> HIDE DEF tables
  <2> QED BY <1>1, <2>1, <2>2, MadeOf
<1> QED BY <1>2 DEF Made, ApiTableThings

LEMMA CachedbLambdasMade == Made(CachedbLambdaThings, {<<"cachedb", 4>>})
<1> DEFINE queues == {"ingest_cleanup_dlq", "cuboid_import_dlq"}
           lambdas == {"multi_lambda", "tile_uploaded", "tile_ingest", "delete_tile_objs",
                      "delete_tile_index_entry", "cuboid_import_lambda",
                      "volumetric_ingest_queue_upload_lambda"}
<1>1. <<"cachedb", 4>> \notin BucketParts
  BY DEF BucketParts
<1>2. Made(Of("sqs", queues), {<<"cachedb", 4>>})
  <2>1. "sqs" \in DOMAIN RESOURCES /\ queues \subseteq RESOURCES["sqs"]
    BY DEF RESOURCES
  <2>2. \A r \in queues : Makers["sqs"][r] = <<"cachedb", 4>>
    BY DEF Makers
  <2> HIDE DEF queues
  <2> QED BY <1>1, <2>1, <2>2, MadeOf
<1>3. Made(Of("lambda", lambdas), {<<"cachedb", 4>>})
  <2>1. "lambda" \in DOMAIN RESOURCES /\ lambdas \subseteq RESOURCES["lambda"]
    BY DEF RESOURCES
  <2>2. \A r \in lambdas : Makers["lambda"][r] = <<"cachedb", 4>>
    BY DEF Makers
  <2> HIDE DEF lambdas
  <2> QED BY <1>1, <2>1, <2>2, MadeOf
<1> QED BY <1>2, <1>3 DEF Made, CachedbLambdaThings

LEMMA ManagerMade == Made(Recorded(Of("dns", {"cachemanager"})), {<<"cachedb", 3>>})
<1> DEFINE hosts == {"cachemanager"}
<1>1. <<"cachedb", 3>> \notin BucketParts
  BY DEF BucketParts
<1>2. Made(Recorded(Of("dns", hosts)), {<<"cachedb", 3>>})
  <2>1. "dns" \in DOMAIN RESOURCES /\ hosts \subseteq RESOURCES["dns"]
    BY DEF RESOURCES
  <2>2. \A r \in hosts : Makers["dns"][r] = <<"cachedb", 3>>
    BY DEF Makers
  <2> HIDE DEF hosts
  <2> QED BY <1>1, <2>1, <2>2, MadeOf
<1> QED BY <1>2 DEF Made

LEMMA ActivitiesMade == Made(ActivityThings, {<<"activities", 1>>})
<1> DEFINE hosts == {"delete_event_rule", "activities"}
           topics == {"downsample_dlq"}
           lambdas == {"ingest_lambda", "downsample_volume", "start_sfn", "downsample_dlq"}
<1>1. <<"activities", 1>> \notin BucketParts
  BY DEF BucketParts
<1>2. Made(Of("dns", hosts), {<<"activities", 1>>})
  <2>1. "dns" \in DOMAIN RESOURCES /\ hosts \subseteq RESOURCES["dns"]
    BY DEF RESOURCES
  <2>2. \A r \in hosts : Makers["dns"][r] = <<"activities", 1>>
    BY DEF Makers
  <2> HIDE DEF hosts
  <2> QED BY <1>1, <2>1, <2>2, MadeOf
<1>3. Made(Of("sns", topics), {<<"activities", 1>>})
  <2>1. "sns" \in DOMAIN RESOURCES /\ topics \subseteq RESOURCES["sns"]
    BY DEF RESOURCES
  <2>2. \A r \in topics : Makers["sns"][r] = <<"activities", 1>>
    BY DEF Makers
  <2> HIDE DEF topics
  <2> QED BY <1>1, <2>1, <2>2, MadeOf
<1>4. Made(Of("lambda", lambdas), {<<"activities", 1>>})
  <2>1. "lambda" \in DOMAIN RESOURCES /\ lambdas \subseteq RESOURCES["lambda"]
    BY DEF RESOURCES
  <2>2. \A r \in lambdas : Makers["lambda"][r] = <<"activities", 1>>
    BY DEF Makers
  <2> HIDE DEF lambdas
  <2> QED BY <1>1, <2>1, <2>2, MadeOf
<1> QED BY <1>2, <1>3, <1>4 DEF Made, ActivityThings

LEMMA IdindexingMade == Made(IndexThings, {<<"idindexing", 1>>})
<1> DEFINE lambdas == {"index_s3_writer", "index_write_id", "index_write_failed",
                      "index_find_cuboids", "index_batch_enqueue_cuboids",
                      "index_enqueue_ids", "index_load_ids_from_s3"}
           queues == {"index_ids_queue"}
<1>1. <<"idindexing", 1>> \notin BucketParts
  BY DEF BucketParts
<1>2. Made(Of("lambda", lambdas), {<<"idindexing", 1>>})
  <2>1. "lambda" \in DOMAIN RESOURCES /\ lambdas \subseteq RESOURCES["lambda"]
    BY DEF RESOURCES
  <2>2. \A r \in lambdas : Makers["lambda"][r] = <<"idindexing", 1>>
    BY DEF Makers
  <2> HIDE DEF lambdas
  <2> QED BY <1>1, <2>1, <2>2, MadeOf
<1>3. Made(Of("sqs", queues), {<<"idindexing", 1>>})
  <2>1. "sqs" \in DOMAIN RESOURCES /\ queues \subseteq RESOURCES["sqs"]
    BY DEF RESOURCES
  <2>2. \A r \in queues : Makers["sqs"][r] = <<"idindexing", 1>>
    BY DEF Makers
  <2> HIDE DEF queues
  <2> QED BY <1>1, <2>1, <2>2, MadeOf
<1> QED BY <1>2, <1>3 DEF Made, IndexThings

LEMMA CloudwatchMade == Made(WatchThings, {<<"cloudwatch", 1>>})
<1> DEFINE lambdas == {"vault_monitor"}
           rules == {"vault_check"}
<1>1. <<"cloudwatch", 1>> \notin BucketParts
  BY DEF BucketParts
<1>2. Made(Of("lambda", lambdas), {<<"cloudwatch", 1>>})
  <2>1. "lambda" \in DOMAIN RESOURCES /\ lambdas \subseteq RESOURCES["lambda"]
    BY DEF RESOURCES
  <2>2. \A r \in lambdas : Makers["lambda"][r] = <<"cloudwatch", 1>>
    BY DEF Makers
  <2> HIDE DEF lambdas
  <2> QED BY <1>1, <2>1, <2>2, MadeOf
<1>3. Made(Of("cw", rules), {<<"cloudwatch", 1>>})
  <2>1. "cw" \in DOMAIN RESOURCES /\ rules \subseteq RESOURCES["cw"]
    BY DEF RESOURCES
  <2>2. \A r \in rules : Makers["cw"][r] = <<"cloudwatch", 1>>
    BY DEF Makers
  <2> HIDE DEF rules
  <2> QED BY <1>1, <2>1, <2>2, MadeOf
<1> QED BY <1>2, <1>3 DEF Made, WatchThings

LEMMA DynamolambdaMade == Made(DynamoThings, {<<"dynamolambda", 1>>})
<1> DEFINE lambdas == {"dynamo_lambda"}
           rules == {"trigger_dynamo_autoscale"}
<1>1. <<"dynamolambda", 1>> \notin BucketParts
  BY DEF BucketParts
<1>2. Made(Of("lambda", lambdas), {<<"dynamolambda", 1>>})
  <2>1. "lambda" \in DOMAIN RESOURCES /\ lambdas \subseteq RESOURCES["lambda"]
    BY DEF RESOURCES
  <2>2. \A r \in lambdas : Makers["lambda"][r] = <<"dynamolambda", 1>>
    BY DEF Makers
  <2> HIDE DEF lambdas
  <2> QED BY <1>1, <2>1, <2>2, MadeOf
<1>3. Made(Of("cw", rules), {<<"dynamolambda", 1>>})
  <2>1. "cw" \in DOMAIN RESOURCES /\ rules \subseteq RESOURCES["cw"]
    BY DEF RESOURCES
  <2>2. \A r \in rules : Makers["cw"][r] = <<"dynamolambda", 1>>
    BY DEF Makers
  <2> HIDE DEF rules
  <2> QED BY <1>1, <2>1, <2>2, MadeOf
<1> QED BY <1>2, <1>3 DEF Made, DynamoThings

LEMMA CopycuboidMade == Made(CopyThings, {<<"copycuboid", 1>>})
<1> DEFINE lambdas == {"copy_cuboid_lambda"}
           queues == {"copy_cuboid_dlq"}
<1>1. <<"copycuboid", 1>> \notin BucketParts
  BY DEF BucketParts
<1>2. Made(Of("lambda", lambdas), {<<"copycuboid", 1>>})
  <2>1. "lambda" \in DOMAIN RESOURCES /\ lambdas \subseteq RESOURCES["lambda"]
    BY DEF RESOURCES
  <2>2. \A r \in lambdas : Makers["lambda"][r] = <<"copycuboid", 1>>
    BY DEF Makers
  <2> HIDE DEF lambdas
  <2> QED BY <1>1, <2>1, <2>2, MadeOf
<1>3. Made(Of("sqs", queues), {<<"copycuboid", 1>>})
  <2>1. "sqs" \in DOMAIN RESOURCES /\ queues \subseteq RESOURCES["sqs"]
    BY DEF RESOURCES
  <2>2. \A r \in queues : Makers["sqs"][r] = <<"copycuboid", 1>>
    BY DEF Makers
  <2> HIDE DEF queues
  <2> QED BY <1>1, <2>1, <2>2, MadeOf
<1> QED BY <1>2, <1>3 DEF Made, CopyThings

BucketThings == Of("s3", {"cuboid_bucket", "delete_bucket", "tile_bucket", "ingest_bucket"})

LEMMA BucketsMade ==
    Made(BucketThings, {<<"cachedb", 2>>}) /\ Made(Of("s3", {"backup"}), {<<"backup", 1>>})
<1>1. \A t \in ACCOUNT : t[1] \in {"topic", "zone", "export"}
  BY DEF ACCOUNT, Topic, ExternalZone
<1>2. \A r \in {"cuboid_bucket", "delete_bucket", "tile_bucket", "ingest_bucket", "backup"} :
          build(r, "s3")[1] = "s3" /\ IsAName(build(r, "s3"))
  BY DEF build, IsAName, RESOURCES
<1>3. \A r \in {"cuboid_bucket", "delete_bucket", "tile_bucket", "ingest_bucket"} :
          Maker(build(r, "s3")) = <<"cachedb", 2>>
  <2>1. \A r \in {"cuboid_bucket", "delete_bucket", "tile_bucket", "ingest_bucket"} :
            Makers["s3"][r] = <<"cachedb", 2>>
    BY DEF Makers
  <2> QED BY <2>1 DEF build, Maker
<1>4. Maker(build("backup", "s3")) = <<"backup", 1>>
  <2>1. Makers["s3"]["backup"] = <<"backup", 1>>
    BY DEF Makers
  <2> QED BY <2>1 DEF build, Maker
<1>5. Made(BucketThings, {<<"cachedb", 2>>})
  BY <1>1, <1>2, <1>3 DEF Made, Of, BucketThings, BucketParts
<1>6. Made(Of("s3", {"backup"}), {<<"backup", 1>>})
  BY <1>1, <1>2, <1>4 DEF Made, Of, BucketParts
<1> QED BY <1>5, <1>6

LEMMA PipelinesMade ==
    /\ Made(PipelineThings, {<<"backup", 2>>})
    /\ Made({<<"pipeline", "auth-backup">>}, {<<"backup", 3>>})
<1>1. "pipeline" \notin DOMAIN RESOURCES
  BY TypesOfNames
<1>2. \A t \in ACCOUNT : t[1] \in {"topic", "zone", "export"}
  BY DEF ACCOUNT, Topic, ExternalZone
<1>3. <<"backup", 2>> \notin BucketParts /\ <<"backup", 3>> \notin BucketParts
  BY DEF BucketParts
<1>4. ASSUME NEW t, t[1] = "pipeline"
      PROVE  t[1] \notin DOMAIN RESOURCES /\ t[1] # "upload" /\ t \notin ACCOUNT
  BY <1>1, <1>2, <1>4
<1>5. \A t \in PipelineThings : t[1] = "pipeline" /\ Maker(t) = <<"backup", 2>>
  <2>1. \A t \in PipelineThings : t[1] = "pipeline" /\ t[2] # "auth-backup"
    BY DEF PipelineThings
  <2> QED BY <2>1 DEF Maker
<1>6. \A t \in {<<"pipeline", "auth-backup">>} :
          t[1] = "pipeline" /\ Maker(t) = <<"backup", 3>>
  <2>1. \A t \in {<<"pipeline", "auth-backup">>} : t[1] = "pipeline" /\ t[2] = "auth-backup"
    OBVIOUS
  <2> QED BY <2>1 DEF Maker
<1>7. Made(PipelineThings, {<<"backup", 2>>})
  BY <1>3, <1>4, <1>5, MadeFrom
<1>8. Made({<<"pipeline", "auth-backup">>}, {<<"backup", 3>>})
  BY <1>3, <1>4, <1>6, MadeFrom
<1> QED BY <1>7, <1>8

-------------------------------------------------------------------------------
(***************************************************************************)
(* The templates of the configurations                                     *)
(***************************************************************************)
MayMake ==
    [core         |-> CoreMachineThings \cup CoreAuthThings \cup CoreNetworkThings,
     redis        |-> RedisThings \cup Recorded(Of("redis", {"cache_session"})),
     api          |-> Of("sg", {"https"}) \cup ApiQueueThings \cup ApiMachineThings
                        \cup ApiTableThings,
     cachedb      |-> SubnetsOf(LambdaKeys) \cup BucketThings
                        \cup Recorded(Of("dns", {"cachemanager"})) \cup CachedbLambdaThings,
     activities   |-> ActivityThings,
     idindexing   |-> IndexThings,
     cloudwatch   |-> WatchThings,
     dynamolambda |-> DynamoThings,
     backup       |-> Of("s3", {"backup"}) \cup PipelineThings
                        \cup {<<"pipeline", "auth-backup">>},
     copycuboid   |-> CopyThings]

\* The parts of a configuration, and what it makes when there are things: of
\* the buckets those that are not there.
Parts(c) == {<<c, n>> : n \in 1 .. 4}
Fresh(c, have) == {t \in MayMake[c] : t[1] = "s3" => t \notin have}

LEMMA MadeMore ==
    ASSUME NEW A, NEW P, NEW Q, Made(A, P), P \subseteq Q
    PROVE  Made(A, Q)
  BY DEF Made

LEMMA TidyMore ==
    ASSUME NEW calls, NEW A, NEW B, Tidy(calls, A), A \subseteq B
    PROVE  Tidy(calls, B)
<1>1. \A i \in DOMAIN calls : Gives(calls[i], B)
  BY GivesMore, Zenon DEF Tidy
<1> QED BY <1>1, Zenon DEF Tidy

\* Without a part for buckets there are none.
LEMMA FreshAll ==
    ASSUME NEW c, NEW calls, NEW things, things = MayMake[c], Made(things, Parts(c)),
           Tidy(calls, things), c \notin {"cachedb", "backup"}, NEW have
    PROVE  Made(MayMake[c], Parts(c)) /\ Tidy(calls, Fresh(c, have))
<1>1. Parts(c) \cap BucketParts = {}
  BY DEF Parts, BucketParts
<1>2. things \subseteq Fresh(c, have)
  BY <1>1 DEF Fresh, Made
<1> QED BY <1>2, TidyMore

LEMMA CoreWhole ==
    ASSUME NEW s, s.zones \subseteq AllZones, NEW have
    PROVE  Made(MayMake["core"], Parts("core")) /\ Tidy(core(s), Fresh("core", have))
<1> DEFINE things == CoreMachineThings \cup CoreAuthThings \cup CoreNetworkThings
<1>0. InRegion(s)
  BY DEF InRegion
<1>1. /\ {<<"core", 1>>} \cap {<<"core", 2>>} = {}
      /\ ({<<"core", 1>>} \cup {<<"core", 2>>}) \cap {<<"core", 3>>} = {}
      /\ {<<"core", 1>>} \cup {<<"core", 2>>} \cup {<<"core", 3>>} \subseteq Parts("core")
  BY DEF Parts
<1>2. /\ Tidy(CoreMachines(s) \o CoreAuth(s), CoreMachineThings \cup CoreAuthThings)
      /\ Made(CoreMachineThings \cup CoreAuthThings, {<<"core", 1>>} \cup {<<"core", 2>>})
  BY <1>0, <1>1, CoreMachinesTidy, CoreMachinesMade, CoreAuthTidy, CoreAuthMade, Joined
<1>3. Tidy(core(s), things) /\ Made(things, {<<"core", 1>>} \cup {<<"core",
                                  2>>} \cup {<<"core", 3>>})
  BY <1>1, <1>2, CoreNetworkTidy, CoreNetworkMade, Joined DEF core
<1>4. Made(things, Parts("core"))
  BY <1>1, <1>3, MadeMore
<1>5. things = MayMake["core"]
  BY DEF MayMake
<1> QED BY <1>3, <1>4, <1>5, FreshAll

LEMMA RedisWhole ==
    ASSUME NEW s, NEW have
    PROVE  Made(MayMake["redis"], Parts("redis")) /\ Tidy(redis(s), Fresh("redis", have))
<1> DEFINE sessions == Recorded(Of("redis", {"cache_session"}))
           things == RedisThings \cup sessions
           cache == add_redis_replication("CacheSession", build("cache_session", "redis"),
                                          internal(s.zones, s.there), FALSE)
<1>1. /\ {<<"redis", 1>>} \cap {<<"redis", 2>>} = {}
      /\ {<<"redis", 1>>} \cup {<<"redis", 2>>} \subseteq Parts("redis")
  BY DEF Parts
<1>2. Tidy(If(s.session, cache), sessions)
  <2>1. Gives(cache, Recorded({build("cache_session", "redis")}))
    BY PlainBuild, Databases
  <2>2. Of("redis", {"cache_session"}) = {build("cache_session", "redis")}
    BY DEF Of
  <2> HIDE DEF cache
  <2> QED BY <2>1, <2>2, TidyIf
<1>3. redis(s) = RedisCaches(s) \o If(s.session, cache)
  BY DEF redis
<1>4. Tidy(redis(s), things) /\ Made(things, {<<"redis", 1>>} \cup {<<"redis", 2>>})
  <2>1. Made(sessions, {<<"redis", 2>>})
    BY SessionMade
  <2> HIDE DEF cache, sessions
  <2>2. /\ Tidy(RedisCaches(s) \o If(s.session, cache), RedisThings \cup sessions)
        /\ Made(RedisThings \cup sessions, {<<"redis", 1>>} \cup {<<"redis", 2>>})
    BY <1>1, <1>2, <2>1, RedisCachesTidy, RedisMade, Joined
  <2> QED BY <1>3, <2>2
<1>5. Made(things, Parts("redis"))
  BY <1>1, <1>4, MadeMore
<1>6. things = MayMake["redis"]
  BY DEF MayMake
<1> QED BY <1>4, <1>5, <1>6, FreshAll

LEMMA ApiWhole ==
    ASSUME NEW s, NEW have
    PROVE  Made(MayMake["api"], Parts("api")) /\ Tidy(api(s), Fresh("api", have))
<1> DEFINE A == Of("sg", {"https"})
           two == A \cup ApiQueueThings
           three == two \cup ApiMachineThings
           things == three \cup ApiTableThings
           P(n) == {<<"api", n>>}
<1>1. /\ P(1) \cap P(2) = {} /\ (P(1) \cup P(2)) \cap P(3) = {}
      /\ (P(1) \cup P(2) \cup P(3)) \cap P(4) = {}
      /\ P(1) \cup P(2) \cup P(3) \cup P(4) \subseteq Parts("api")
  BY DEF Parts
<1>2. Tidy(ApiLookups(s) \o ApiQueues, two) /\ Made(two, P(1) \cup P(2))
  BY <1>1, ApiLookupsTidy, ApiLookupsMade, ApiQueuesTidy, ApiQueuesMade, Joined
<1>3. /\ Tidy(ApiLookups(s) \o ApiQueues \o ApiMachines(s), three)
      /\ Made(three, P(1) \cup P(2) \cup P(3))
  <2> HIDE DEF two
  <2> QED BY <1>1, <1>2, ApiMachinesTidy, ApiMachinesMade, Joined
<1>4. Tidy(api(s), things) /\ Made(things, P(1) \cup P(2) \cup P(3) \cup P(4))
  <2> HIDE DEF three
  <2> QED BY <1>1, <1>3, ApiTablesTidy, ApiTablesMade, Joined DEF api
<1>5. Made(things, Parts("api"))
  BY <1>1, <1>4, MadeMore
<1>6. things = MayMake["api"]
  BY DEF MayMake
<1> HIDE DEF things
<1> QED BY <1>4, <1>5, <1>6, FreshAll

LEMMA CachedbBucketsTidy ==
    ASSUME NEW s
    PROVE  Tidy(CachedbBuckets(s), BucketThings \ s.there)
<1> DEFINE B(r) == {build(r, "s3")} \ s.there
<1>1. \A r, key : Tidy(BucketAndPolicy(key, build(r, "s3"), s.there), B(r))
  <2>1. \A r : build(r, "s3")[1] = "s3"
    BY DEF build
  <2> QED BY <2>1, BucketTidy
<1>2. /\ B("cuboid_bucket") \cap B("delete_bucket") = {}
      /\ (B("cuboid_bucket") \cup B("delete_bucket")) \cap B("tile_bucket") = {}
      /\ (B("cuboid_bucket") \cup B("delete_bucket") \cup B("tile_bucket"))
           \cap B("ingest_bucket") = {}
  BY DEF build
<1>3. BucketThings \ s.there = B("cuboid_bucket") \cup B("delete_bucket") \cup B("tile_bucket")
                                 \cup B("ingest_bucket")
  BY DEF BucketThings, Of
<1> HIDE DEF B
<1>4. Tidy(CachedbBuckets(s), B("cuboid_bucket") \cup B("delete_bucket") \cup B("tile_bucket")
                                \cup B("ingest_bucket"))
  BY <1>1, <1>2, TidyJoined DEF CachedbBuckets
<1> QED BY <1>3, <1>4

LEMMA CachedbWhole ==
    ASSUME NEW s
    PROVE  /\ Made(MayMake["cachedb"], Parts("cachedb"))
           /\ Tidy(cachedb(s), Fresh("cachedb", s.there))
<1> DEFINE manager == Recorded(Of("dns", {"cachemanager"}))
           machine == add_ec2_instance("CacheManager", build("cachemanager", "dns"),
                                       {"InternalSubnet", "InternalSecurityGroup"})
           two(B) == SubnetsOf(LambdaKeys) \cup B
           three(B) == two(B) \cup manager
           things(B) == three(B) \cup CachedbLambdaThings
           P(n) == {<<"cachedb", n>>}
           new == BucketThings \ s.there
<1>1. /\ P(1) \cap P(2) = {} /\ (P(1) \cup P(2)) \cap P(3) = {}
      /\ (P(1) \cup P(2) \cup P(3)) \cap P(4) = {}
      /\ P(1) \cup P(2) \cup P(3) \cup P(4) \subseteq Parts("cachedb")
  BY DEF Parts
<1>2. Made(new, P(2))
  BY BucketsMade DEF Made
<1>3. Tidy(build_user_data \o CachedbArguments, SubnetsOf(LambdaKeys))
  BY UserDataTidy, CachedbArgumentsTidy, TidyQuiet
<1>4. /\ Tidy(build_user_data \o CachedbArguments \o CachedbBuckets(s), two(new))
      /\ Made(two(new), P(1) \cup P(2))
  <2> HIDE DEF new
  <2>1. Tidy(CachedbBuckets(s), new)
    BY CachedbBucketsTidy DEF new
  <2> QED BY <1>1, <1>2, <1>3, <2>1, ZoneSubnetsMade, Joined
<1>5. Tidy(<<machine>>, manager)
  <2>1. Gives(machine, Recorded({build("cachemanager", "dns")}))
    BY PlainBuild, Machines
  <2>2. Of("dns", {"cachemanager"}) = {build("cachemanager", "dns")}
    BY DEF Of
  <2> HIDE DEF machine
  <2> QED BY <2>1, <2>2, TidyOne
<1>6. Tidy(<<ImportPermission(s.there)>>, {})
  <2>1. Gives(ImportPermission(s.there), {})
    BY AddsNothing DEF ImportPermission
  <2> QED BY <2>1, TidyOne
<1>7. cachedb(s) = build_user_data \o CachedbArguments \o CachedbBuckets(s) \o <<machine>>
                     \o CachedbLambdas \o <<ImportPermission(s.there)>>
  BY DEF cachedb
<1> HIDE DEF machine, new, two
<1>8. /\ Tidy(build_user_data \o CachedbArguments \o CachedbBuckets(s) \o <<machine>>,
              three(new))
      /\ Made(three(new), P(1) \cup P(2) \cup P(3))
  BY <1>1, <1>4, <1>5, ManagerMade, Joined
<1> HIDE DEF three
<1>9. /\ Tidy(build_user_data \o CachedbArguments \o CachedbBuckets(s) \o <<machine>>
                \o CachedbLambdas, things(new))
      /\ Made(things(new), P(1) \cup P(2) \cup P(3) \cup P(4))
  BY <1>1, <1>8, CachedbLambdasTidy, CachedbLambdasMade, Joined
<1>10. Tidy(cachedb(s), things(new))
  <2> HIDE DEF things
  <2> QED BY <1>6, <1>7, <1>9, TidyQuiet
<1>11. MayMake["cachedb"] = SubnetsOf(LambdaKeys) \cup BucketThings \cup manager
                              \cup CachedbLambdaThings
  BY DEF MayMake
<1>12. Made(MayMake["cachedb"], Parts("cachedb"))
  <2>1. \A n \in 1 .. 4 : P(n) \subseteq Parts("cachedb")
    BY DEF Parts
  <2>2. /\ Made(SubnetsOf(LambdaKeys), Parts("cachedb")) /\ Made(BucketThings, Parts("cachedb"))
        /\ Made(manager, Parts("cachedb")) /\ Made(CachedbLambdaThings, Parts("cachedb"))
    BY <2>1, ZoneSubnetsMade, BucketsMade, ManagerMade, CachedbLambdasMade, MadeMore
  <2> QED BY <2>2, <1>11 DEF Made
<1>13. things(new) \subseteq Fresh("cachedb", s.there)
  <2>1. \A t \in SubnetsOf(LambdaKeys) \cup manager \cup CachedbLambdaThings : t[1] # "s3"
    <3>1. \A n \in {1, 3, 4} : P(n) \cap BucketParts = {}
      BY DEF BucketParts
    <3> QED BY <3>1, ZoneSubnetsMade, ManagerMade, CachedbLambdasMade DEF Made
  <2> QED BY <2>1, <1>11 DEF Fresh, things, three, two, new
<1> QED BY <1>10, <1>12, <1>13, TidyMore

LEMMA BackupWhole ==
    ASSUME NEW s, NEW zone
    PROVE  /\ Made(MayMake["backup"], Parts("backup"))
           /\ Tidy(backup(s, zone), Fresh("backup", s.there))
<1> DEFINE bucket == ~ s3_bucket_exists(BackupBucket, s.there)
           deps == OnlyIf(bucket, {"BackupBucket"})
           new == {BackupBucket} \ s.there
           auth == {<<"pipeline", "auth-backup">>}
           lookup == <<subnet_id_lookup(Subnet(InternalKey(zone)))>>
           copy == add_data_pipeline("AuthPipeline", "auth-backup", deps)
           P(n) == {<<"backup", n>>}
<1>1. /\ P(1) \cap P(2) = {} /\ (P(1) \cup P(2)) \cap P(3) = {}
      /\ P(1) \subseteq Parts("backup") /\ P(2) \subseteq Parts("backup")
      /\ P(3) \subseteq Parts("backup")
  BY DEF Parts
<1>2. Of("s3", {"backup"}) = {BackupBucket} /\ BackupBucket[1] = "s3"
  BY DEF Of, BackupBucket, build
<1>3. Made(new, P(1))
  BY <1>2, BucketsMade DEF Made
<1>4. Tidy(lookup, {})
  <2>1. Gives(subnet_id_lookup(Subnet(InternalKey(zone))), {})
    BY LooksUp DEF subnet_id_lookup
  <2> QED BY <2>1, TidyOne
<1>5. Tidy(If(bucket, add_s3_bucket("BackupBucket", BackupBucket)), new)
  <2>1. ASSUME bucket PROVE Gives(add_s3_bucket("BackupBucket", BackupBucket), new)
    <3>1. new = {BackupBucket}
      BY <2>1 DEF s3_bucket_exists
    <3> QED BY <3>1, <1>2, Buckets
  <2> HIDE DEF bucket
  <2> QED BY <2>1, TidyIf
<1>6. Tidy(If(s.rds, copy), auth)
  <2>1. Gives(copy, auth)
    BY AddsTagged
  <2> HIDE DEF copy
  <2> QED BY <2>1, TidyIf
<1>7. backup(s, zone) = lookup \o If(bucket, add_s3_bucket("BackupBucket", BackupBucket))
                          \o BackupPipelines(deps) \o If(s.rds, copy)
  BY DEF backup
<1> HIDE DEF lookup, bucket, deps, new, copy
<1>8. Tidy(lookup \o If(bucket, add_s3_bucket("BackupBucket", BackupBucket)), new)
  BY <1>4, <1>5, TidyQuiet
<1>9. /\ Tidy(lookup \o If(bucket, add_s3_bucket("BackupBucket", BackupBucket))
                \o BackupPipelines(deps), new \cup PipelineThings)
      /\ Made(new \cup PipelineThings, P(1) \cup P(2))
  BY <1>1, <1>3, <1>8, BackupPipelinesTidy, PipelinesMade, Joined
<1>10. Tidy(backup(s, zone), new \cup PipelineThings \cup auth)
  <2>1. Made(auth, P(3))
    BY PipelinesMade
  <2> HIDE DEF auth, P
  <2>2. (new \cup PipelineThings) \cap auth = {}
    BY <1>1, <1>9, <2>1 DEF Made
  <2> QED BY <2>2, <1>6, <1>7, <1>9, TidyJoined
<1>11. MayMake["backup"] = {BackupBucket} \cup PipelineThings \cup auth
  BY <1>2 DEF MayMake
<1>12. Made(MayMake["backup"], Parts("backup"))
  <2>1. /\ Made({BackupBucket}, Parts("backup")) /\ Made(PipelineThings, Parts("backup"))
        /\ Made(auth, Parts("backup"))
    <3>1. /\ Made({BackupBucket}, P(1)) /\ Made(PipelineThings, P(2)) /\ Made(auth, P(3))
      BY <1>2, BucketsMade, PipelinesMade
    <3> HIDE DEF auth, P
    <3> QED BY <3>1, <1>1, MadeMore
  <2> QED BY <2>1, <1>11 DEF Made
<1>13. new \cup PipelineThings \cup auth \subseteq Fresh("backup", s.there)
  <2>1. \A t \in PipelineThings \cup auth : t[1] # "s3"
    BY DEF PipelineThings
  <2> QED BY <2>1, <1>11 DEF Fresh, new
<1> QED BY <1>10, <1>12, <1>13, TidyMore

\* The configurations of one part.
LEMMA SmallWhole ==
    ASSUME NEW s, NEW have
    PROVE  /\ \A c \in {"activities", "idindexing", "cloudwatch", "dynamolambda",
                 "copycuboid"} :
                  Made(MayMake[c], Parts(c))
           /\ Tidy(activities(s), Fresh("activities", have))
           /\ Tidy(idindexing(s), Fresh("idindexing", have))
           /\ Tidy(cloudwatch(s), Fresh("cloudwatch", have))
           /\ Tidy(dynamolambda(s), Fresh("dynamolambda", have))
           /\ Tidy(copycuboid(s), Fresh("copycuboid", have))
<1>1. \A c, things : Made(things, {<<c, 1>>}) => Made(things, Parts(c))
  <2>1. \A c : {<<c, 1>>} \subseteq Parts(c)
    BY DEF Parts
  <2> QED BY <2>1, MadeMore
<1>2. /\ Made(ActivityThings, Parts("activities")) /\ Made(IndexThings, Parts("idindexing"))
      /\ Made(WatchThings, Parts("cloudwatch")) /\ Made(DynamoThings, Parts("dynamolambda"))
      /\ Made(CopyThings, Parts("copycuboid"))
  BY <1>1, ActivitiesMade, IdindexingMade, CloudwatchMade, DynamolambdaMade, CopycuboidMade
<1>3. /\ ActivityThings = MayMake["activities"] /\ IndexThings = MayMake["idindexing"]
      /\ WatchThings = MayMake["cloudwatch"] /\ DynamoThings = MayMake["dynamolambda"]
      /\ CopyThings = MayMake["copycuboid"]
  BY DEF MayMake
<1>4. /\ Made(MayMake["activities"], Parts("activities"))
      /\ Tidy(activities(s), Fresh("activities", have))
  BY <1>2, <1>3, ActivitiesTidy, FreshAll
<1>5. /\ Made(MayMake["idindexing"], Parts("idindexing"))
      /\ Tidy(idindexing(s), Fresh("idindexing", have))
  BY <1>2, <1>3, IdindexingTidy, FreshAll
<1>6. /\ Made(MayMake["cloudwatch"], Parts("cloudwatch"))
      /\ Tidy(cloudwatch(s), Fresh("cloudwatch", have))
  BY <1>2, <1>3, CloudwatchTidy, FreshAll
<1>7. /\ Made(MayMake["dynamolambda"], Parts("dynamolambda"))
      /\ Tidy(dynamolambda(s), Fresh("dynamolambda", have))
  BY <1>2, <1>3, DynamolambdaTidy, FreshAll
<1>8. /\ Made(MayMake["copycuboid"], Parts("copycuboid"))
      /\ Tidy(copycuboid(s), Fresh("copycuboid", have))
  BY <1>2, <1>3, CopycuboidTidy, FreshAll
<1> QED BY <1>4, <1>5, <1>6, <1>7, <1>8

\* What create_config builds makes things of the configuration only, and no
\* bucket that is there.
LEMMA ConfigSorted ==
    ASSUME NEW c \in ConfigNames, NEW s, s.zones \subseteq AllZones, NEW zone
    PROVE  Sorted(create_config(c, s, zone), Fresh(c, s.there))
<1> DEFINE F(d) == Fresh(d, s.there)
<1>1. /\ Tidy(core(s), F("core")) /\ Tidy(redis(s), F("redis")) /\ Tidy(api(s), F("api"))
      /\ Tidy(cachedb(s), F("cachedb")) /\ Tidy(activities(s), F("activities"))
      /\ Tidy(idindexing(s), F("idindexing")) /\ Tidy(cloudwatch(s), F("cloudwatch"))
      /\ Tidy(dynamolambda(s), F("dynamolambda")) /\ Tidy(backup(s, zone), F("backup"))
      /\ Tidy(copycuboid(s), F("copycuboid"))
  BY CoreWhole, RedisWhole, ApiWhole, CachedbWhole, SmallWhole, BackupWhole
<1> HIDE DEF F
<1>2. \E calls : Tidy(calls, F(c)) /\ create_config(c, s, zone) = Template(calls)
  BY <1>1 DEF create_config, ConfigNames
<1> QED BY <1>2, TemplateSorted DEF F

\* Names are known, new to the account, and each of one configuration.
LEMMA ConfigsApart ==
    ASSUME NEW c \in ConfigNames
    PROVE  /\ \A t \in MayMake[c] :
                  /\ t \notin ACCOUNT /\ t[1] # "upload"
                  /\ t[1] \in DOMAIN RESOURCES => IsAName(t)
           /\ \A d \in ConfigNames : c # d => MayMake[c] \cap MayMake[d] = {}
<1>1. ASSUME NEW d \in ConfigNames PROVE Made(MayMake[d], Parts(d))
  <2>1. FirstZones \subseteq AllZones
    BY ZonesAssumption
  <2> DEFINE s == [zones |-> FirstZones, there |-> {}]
  <2>2. s.zones \subseteq AllZones
    BY <2>1
  <2> HIDE DEF s
  <2> QED BY <2>2, CoreWhole, RedisWhole, ApiWhole, CachedbWhole, SmallWhole, BackupWhole
          DEF ConfigNames
<1>2. ASSUME NEW d \in ConfigNames, c # d PROVE Parts(c) \cap Parts(d) = {}
  BY <1>2 DEF Parts
<1> QED BY <1>1, <1>2 DEF Made

-------------------------------------------------------------------------------
(***************************************************************************)
(* The bosslet                                                             *)
(***************************************************************************)
\* A stack has only what its configuration makes, and keeps its buckets.
StacksInv ==
    /\ stacks = [c \in ConfigNames |-> stacks[c]]
    /\ \A c \in ConfigNames :
          /\ stacks[c] = [status |-> stacks[c].status, owns |-> stacks[c].owns,
                          keeps |-> stacks[c].keeps]
          /\ stacks[c].status \in {"none", "deployed", "broken"}
          /\ stacks[c].status = "none" => stacks[c] = NoStack
          /\ stacks[c].owns \subseteq MayMake[c]
          /\ stacks[c].keeps = {t \in stacks[c].owns : t[1] = "s3"}

\* Without a stack there are buckets and upload queues.
LooseInv == \A t \in loose : t = UploadQueue \/ (t[1] = "s3" /\ IsAName(t))

\* A template is that of its configuration, for the things that are there.
BuildingInv ==
    /\ building.op \in {"none", "create", "update"} /\ building.config \in ConfigNames
    /\ building.op = "none" => building = Idle
    /\ building.op # "none" => Sorted(building.template, Fresh(building.config, there))
    /\ building.op = "create" => stacks[building.config] = NoStack

BossletInv ==
    /\ setting \in [rds : BOOLEAN, session : BOOLEAN]
    /\ FirstZones \subseteq zones /\ zones \subseteq AllZones
    /\ troubles \in 0 .. MaxTroubles
    /\ StacksInv /\ LooseInv /\ BuildingInv

LEMMA BossletInitInv == BossletInit => BossletInv
<1> SUFFICES ASSUME BossletInit PROVE BossletInv
  OBVIOUS
<1>1. StacksInv
  <2>1. /\ stacks = [c \in ConfigNames |-> stacks[c]]
        /\ \A c \in ConfigNames : stacks[c] = NoStack
    BY DEF BossletInit
  <2>2. /\ NoStack.status = "none" /\ NoStack.owns = {} /\ NoStack.keeps = {}
        /\ NoStack = [status |-> NoStack.status, owns |-> NoStack.owns, keeps |-> NoStack.keeps]
    BY DEF NoStack
  <2> QED BY <2>1, <2>2 DEF StacksInv
<1>2. BuildingInv
  <2>1. building = Idle /\ Idle.op = "none" /\ Idle.config = "core" /\ "core" \in ConfigNames
    BY DEF BossletInit, Idle, ConfigNames
  <2> QED BY <2>1 DEF BuildingInv
<1>3. FirstZones \subseteq zones /\ zones \subseteq AllZones /\ troubles \in 0 .. MaxTroubles
  BY ZonesAssumption DEF BossletInit
<1> QED BY <1>1, <1>2, <1>3 DEF BossletInv, BossletInit, LooseInv

\* Only the bound on troubles has to do with them.
LEMMA TroubleCounted ==
    ASSUME BossletInv, Trouble \/ UNCHANGED troubles
    PROVE  troubles' \in 0 .. MaxTroubles
  BY ZonesAssumption DEF BossletInv, Trouble

\* A queue that a stack makes is written with its resource first (build of
\* AWSNames) and capitalized (TYPES), so the search does not find it; what it finds
\* is an upload queue, and no stack has one.
LEMMA SweptIsLoose ==
    ASSUME StacksInv, LooseInv, NEW c
    PROVE  /\ sqs_delete_all(c) \subseteq {UploadQueue}
           /\ \A d \in ConfigNames :
                 LET swept == sqs_delete_all(c)
                 IN  [stacks[d] EXCEPT !.owns = @ \ swept, !.keeps = @ \ swept] = stacks[d]
<1> DEFINE swept == sqs_delete_all(c)
<1>1. swept \subseteq {UploadQueue}
  <2> SUFFICES ASSUME NEW t \in swept PROVE t = UploadQueue
    OBVIOUS
  <2>1. t \in there /\ t[1] \in {"sqs", "upload"} /\ StartsWithDomain(t)
    BY DEF sqs_delete_all
  <2>2. CASE t[1] = "sqs"
    <3>1. TYPES[t[1]] = "Capitalized"
      BY <2>2 DEF TYPES
    <3>2. t # UploadQueue => Written(t).style = "Capitalized"
      BY <2>2, <3>1 DEF Written
    <3> QED BY <2>1, <3>2 DEF StartsWithDomain
  <2>3. CASE t[1] = "upload"
    <3>1. t \notin ACCOUNT
      BY <2>3 DEF ACCOUNT, Topic, ExternalZone
    <3>2. t \notin Owned
      BY <2>3, ConfigsApart DEF Owned, StacksInv
    <3> QED BY <2>1, <2>3, <3>1, <3>2 DEF there, LooseInv
  <2> QED BY <2>1, <2>2, <2>3
<1>2. ASSUME NEW d \in ConfigNames
      PROVE  stacks[d].owns \ swept = stacks[d].owns /\ stacks[d].keeps \ swept =
              stacks[d].keeps
  <2>1. UploadQueue[1] = "upload"
    BY DEF UploadQueue
  <2>2. UploadQueue \notin stacks[d].owns
    BY <2>1, ConfigsApart DEF StacksInv
  <2> QED BY <1>1, <2>2 DEF StacksInv
<1> HIDE DEF swept
<1>3. ASSUME NEW q, NEW x, NEW y, NEW z, q = [status |-> x, owns |-> y, keeps |-> z],
             y \ swept = y, z \ swept = z
      PROVE  [q EXCEPT !.owns = @ \ swept, !.keeps = @ \ swept] = q
  <2>1. q.owns = y /\ q.keeps = z
    BY <1>3
  <2>2. [q EXCEPT !.owns = y] = q
    BY <1>3
  <2>3. [q EXCEPT !.keeps = z] = q
    BY <1>3
  <2>4. [q EXCEPT !.owns = q.owns \ swept, !.keeps = q.keeps \ swept] =
          [[q EXCEPT !.owns = q.owns \ swept] EXCEPT !.keeps = q.keeps \ swept]
    OBVIOUS
  <2> QED BY <1>3, <2>1, <2>2, <2>3, <2>4
<1>4. ASSUME NEW d \in ConfigNames
      PROVE  [stacks[d] EXCEPT !.owns = @ \ swept, !.keeps = @ \ swept] = stacks[d]
  <2>1. stacks[d] = [status |-> stacks[d].status, owns |-> stacks[d].owns,
                     keeps |-> stacks[d].keeps]
    BY DEF StacksInv
  <2> QED BY <2>1, <1>2, <1>3
<1> QED BY <1>1, <1>4 DEF swept

\* What a deletion does: the stack of its configuration goes or breaks, with
\* its buckets kept, and of the loose things the upload queues may go.
LEMMA DeleteEffect ==
    ASSUME BossletInv, NEW c \in ConfigNames, Delete(c)
    PROVE  /\ building.op = "none" /\ UNCHANGED <<setting, zones, building>>
           /\ Trouble
           /\ \E stack \in {NoStack, Broken({}, {}), Broken(stacks[c].owns, stacks[c].keeps)} :
                 /\ stacks' = [stacks EXCEPT ![c] = stack]
                 /\ \A t \in stacks[c].keeps : t \in stack.owns \/ t \in loose'
           /\ \A t \in loose : t = UploadQueue \/ t \in loose'
           /\ loose' \subseteq loose \cup stacks[c].keeps
<1> DEFINE swept == sqs_delete_all(c)
           left == [d \in ConfigNames |->
                      [stacks[d] EXCEPT !.owns = @ \ swept, !.keeps = @ \ swept]]
<1>1. StacksInv /\ LooseInv
  BY DEF BossletInv
<1>2. left = stacks /\ swept \subseteq {UploadQueue}
  <2>1. swept \subseteq {UploadQueue} /\ \A d \in ConfigNames : left[d] = stacks[d]
    BY <1>1, SweptIsLoose
  <2>2. /\ stacks = [d \in ConfigNames |-> stacks[d]]
        /\ left = [d \in ConfigNames |-> left[d]]
    BY <1>1 DEF StacksInv
  <2> HIDE DEF left
  <2> QED BY <2>1, <2>2
<1>3. /\ building.op = "none" /\ UNCHANGED <<setting, zones, building>> /\ Trouble
      /\ \/ /\ stacks' = [left EXCEPT ![c] = NoStack]
            /\ loose' = (loose \ swept) \cup left[c].keeps
         \/ /\ stacks' = [left EXCEPT ![c] = Broken(left[c].owns, left[c].keeps)]
            /\ loose' = loose \ swept
         \/ /\ stacks' = [left EXCEPT ![c] = Broken({}, {})]
            /\ loose' = (loose \ swept) \cup left[c].keeps
  BY DEF Delete
<1> HIDE DEF left, swept
<1>4. stacks[c].keeps \subseteq stacks[c].owns
  BY <1>1 DEF StacksInv
<1>5. \A owns, keeps : Broken(owns, keeps).owns = owns
  BY DEF Broken
<1> QED BY <1>2, <1>3, <1>4, <1>5

LEMMA StackChanges ==
    ASSUME StacksInv, NEW c \in ConfigNames, NEW stack,
           stack = [status |-> stack.status, owns |-> stack.owns, keeps |-> stack.keeps],
           stack.status \in {"none", "deployed", "broken"},
           stack.status = "none" => stack = NoStack,
           stack.owns \subseteq MayMake[c], stack.keeps = {t \in stack.owns : t[1] = "s3"},
           stacks' = [stacks EXCEPT ![c] = stack]
    PROVE  StacksInv'
<1>1. /\ stacks' = [d \in ConfigNames |-> stacks'[d]]
      /\ \A d \in ConfigNames : stacks'[d] = IF d = c THEN stack ELSE stacks[d]
  BY DEF StacksInv
<1> QED BY <1>1 DEF StacksInv

\* Stacks of which nothing is left.
LEMMA NothingLeft ==
    \A stack \in {NoStack, Broken({}, {})} :
        /\ stack = [status |-> stack.status, owns |-> stack.owns, keeps |-> stack.keeps]
        /\ stack.status \in {"none", "deployed", "broken"}
        /\ stack.status = "none" => stack = NoStack
        /\ stack.owns = {} /\ stack.keeps = {}
<1>1. /\ NoStack = [status |-> "none", owns |-> {}, keeps |-> {}]
      /\ Broken({}, {}) = [status |-> "broken", owns |-> {}, keeps |-> {}]
  BY DEF NoStack, Broken
<1> QED BY <1>1

LEMMA BuildKeeps ==
    ASSUME BossletInv, NEW c \in ConfigNames, NEW op \in {"create", "update"}, Build(op, c),
           op = "create" => stacks[c] = NoStack
    PROVE  BuildingInv' /\ UNCHANGED <<setting, zones, stacks, loose>>
<1>1. PICK zone : building' = [op |-> op, config |-> c, zone |-> zone,
                               template |-> create_config(c, Setting, zone)]
  BY DEF Build
<1>2. UNCHANGED <<setting, zones, stacks, loose>>
  BY DEF Build
<1>3. there' = there
  BY <1>2 DEF there, Owned
<1>4. Setting.zones \subseteq AllZones /\ Setting.there = there
  BY DEF Setting, BossletInv
<1>5. Sorted(create_config(c, Setting, zone), Fresh(c, there))
  BY <1>4, ConfigSorted
<1>6. /\ building'.op = op /\ building'.config = c
      /\ building'.template = create_config(c, Setting, zone)
  BY <1>1
<1>7. Sorted(building'.template, Fresh(building'.config, there'))
  BY <1>3, <1>5, <1>6
<1>8. /\ building'.op \in {"none", "create", "update"} /\ building'.config \in ConfigNames
      /\ building'.op # "none"
      /\ building'.op = "create" => stacks'[building'.config] = NoStack
  BY <1>2, <1>6
<1> QED BY <1>2, <1>7, <1>8 DEF BuildingInv

LEMMA IdleInv ==
    ASSUME building' = Idle
    PROVE  BuildingInv'
<1>1. Idle.op = "none" /\ Idle.config \in ConfigNames
  BY DEF Idle, ConfigNames
<1> QED BY <1>1 DEF BuildingInv

\* A stack that was launched has the things of its template.
LEMMA LaunchedEffect ==
    ASSUME BossletInv, Launched
    PROVE  LET c == building.config
               stack == [status |-> "deployed", owns |-> Makes(building.template),
                         keeps |-> Kept(building.template)]
           IN  /\ c \in ConfigNames
               /\ stacks' = [stacks EXCEPT ![c] = stack]
               /\ loose' = (loose \cup stacks[c].keeps) \ stack.owns
               /\ stack.owns \subseteq Fresh(c, there)
               /\ stack.keeps = {t \in stack.owns : t[1] = "s3"}
               /\ building' = Idle /\ UNCHANGED <<setting, zones, troubles>>
<1>1. Sorted(building.template, Fresh(building.config,
        there)) /\ building.config \in ConfigNames
  BY DEF BossletInv, BuildingInv, Launched
<1> QED BY <1>1 DEF Launched, Sorted

\* Of a failed creation there are at most buckets.
LEMMA LaunchFailsEffect ==
    ASSUME BossletInv, LaunchFails
    PROVE  LET c == building.config
           IN  /\ c \in ConfigNames
               /\ \/ /\ stacks[c] = NoStack
                     /\ stacks' = [stacks EXCEPT ![c] = Broken({}, {})]
                     /\ loose \subseteq loose'
                     /\ \A t \in loose' \ loose : t \in MayMake[c] /\ t[1] = "s3"
                  \/ UNCHANGED <<stacks, loose>>
               /\ Trouble /\ building' = Idle /\ UNCHANGED <<setting, zones>>
<1>1. /\ Sorted(building.template, Fresh(building.config, there))
      /\ building.config \in ConfigNames
      /\ building.op = "create" => stacks[building.config] = NoStack
  BY DEF BossletInv, BuildingInv, LaunchFails
<1>2. \A t \in Kept(building.template) : t \in MayMake[building.config] /\ t[1] = "s3"
  BY <1>1 DEF Sorted, Fresh
<1> QED BY <1>1, <1>2 DEF LaunchFails

\* Buckets have names that are known.
LEMMA KeepsAreKnown ==
    ASSUME NEW c \in ConfigNames, NEW t \in MayMake[c], t[1] = "s3"
    PROVE  IsAName(t)
<1>1. "s3" \in DOMAIN RESOURCES
  BY TypesOfNames
<1> QED BY <1>1, ConfigsApart

LEMMA BossletStep == BossletInv /\ [BossletNext]_bosslet => BossletInv'
<1> SUFFICES ASSUME BossletInv, [BossletNext]_bosslet PROVE BossletInv'
  OBVIOUS
<1>0. StacksInv /\ LooseInv /\ BuildingInv
  BY DEF BossletInv
<1>1. ASSUME NEW c \in ConfigNames, NEW op \in {"create", "update"}, Build(op, c),
             op = "create" => stacks[c] = NoStack, Trouble \/ UNCHANGED troubles
      PROVE  BossletInv'
  <2>1. BuildingInv' /\ UNCHANGED <<setting, zones, stacks, loose>>
    BY <1>1, BuildKeeps
  <2>2. troubles' \in 0 .. MaxTroubles
    BY <1>1, TroubleCounted
  <2>3. StacksInv' /\ LooseInv'
    BY <1>0, <2>1 DEF StacksInv, LooseInv
  <2> QED BY <2>1, <2>2, <2>3 DEF BossletInv
<1>2. ASSUME NEW c \in ConfigNames, Create(c) PROVE BossletInv'
  <2>1. stacks[c] = NoStack
    BY <1>0, <1>2 DEF Create, StacksInv
  <2> QED BY <1>1, <1>2, <2>1 DEF Create
<1>3. ASSUME NEW c \in ConfigNames, Update(c) PROVE BossletInv'
  BY <1>1, <1>3 DEF Update
<1>4. ASSUME NEW c \in ConfigNames, Delete(c) PROVE BossletInv'
  <2>1. /\ building.op = "none" /\ UNCHANGED <<setting, zones, building>> /\ Trouble
        /\ loose' \subseteq loose \cup stacks[c].keeps
    BY <1>4, DeleteEffect
  <2>2. PICK stack \in {NoStack, Broken({}, {}), Broken(stacks[c].owns, stacks[c].keeps)} :
            stacks' = [stacks EXCEPT ![c] = stack]
    BY <1>4, DeleteEffect
  <2>3. StacksInv'
    <3>1. CASE stack \in {NoStack, Broken({}, {})}
      <4>1. stack.owns \subseteq MayMake[c] /\ stack.keeps = {t \in stack.owns : t[1] = "s3"}
        BY <3>1, NothingLeft
      <4> QED BY <1>0, <2>2, <3>1, <4>1, NothingLeft, StackChanges
    <3>2. CASE stack = Broken(stacks[c].owns, stacks[c].keeps)
      <4>1. /\ stack = [status |-> stack.status, owns |-> stack.owns, keeps |-> stack.keeps]
            /\ stack.status = "broken" /\ stack.owns = stacks[c].owns
            /\ stack.keeps = stacks[c].keeps
        BY <3>2 DEF Broken
      <4>2. /\ stacks[c].owns \subseteq MayMake[c]
            /\ stacks[c].keeps = {t \in stacks[c].owns : t[1] = "s3"}
        BY <1>0 DEF StacksInv
      <4> QED BY <1>0, <2>2, <4>1, <4>2, StackChanges
    <3> QED BY <3>1, <3>2
  <2>4. LooseInv'
    <3>1. \A t \in stacks[c].keeps : t[1] = "s3" /\ IsAName(t)
      BY <1>0, KeepsAreKnown DEF StacksInv
    <3> QED BY <1>0, <2>1, <3>1 DEF LooseInv
  <2>5. BuildingInv'
    <3>1. building' = Idle
      BY <1>0, <2>1 DEF BuildingInv
    <3> QED BY <3>1, IdleInv
  <2>6. troubles' \in 0 .. MaxTroubles
    BY <2>1, TroubleCounted
  <2> QED BY <2>1, <2>3, <2>4, <2>5, <2>6 DEF BossletInv
<1>5. ASSUME Launched PROVE BossletInv'
  <2> DEFINE c == building.config
             stack == [status |-> "deployed", owns |-> Makes(building.template),
                       keeps |-> Kept(building.template)]
  <2>1. /\ c \in ConfigNames /\ stacks' = [stacks EXCEPT ![c] = stack]
        /\ loose' = (loose \cup stacks[c].keeps) \ stack.owns
        /\ stack.owns \subseteq Fresh(c, there)
        /\ stack.keeps = {t \in stack.owns : t[1] = "s3"}
        /\ building' = Idle /\ UNCHANGED <<setting, zones, troubles>>
    BY <1>5, LaunchedEffect
  <2>2. /\ stack = [status |-> stack.status, owns |-> stack.owns, keeps |-> stack.keeps]
        /\ stack.status = "deployed"
    OBVIOUS
  <2> HIDE DEF stack, c
  <2>3. stack.owns \subseteq MayMake[c]
    BY <2>1 DEF Fresh
  <2>4. StacksInv'
    BY <1>0, <2>1, <2>2, <2>3, StackChanges
  <2>5. LooseInv'
    <3>1. \A t \in stacks[c].keeps : t[1] = "s3" /\ IsAName(t)
      BY <1>0, <2>1, KeepsAreKnown DEF StacksInv
    <3> QED BY <1>0, <2>1, <3>1 DEF LooseInv
  <2>6. BuildingInv'
    BY <2>1, IdleInv
  <2> QED BY <2>1, <2>4, <2>5, <2>6 DEF BossletInv
<1>6. ASSUME LaunchFails PROVE BossletInv'
  <2> DEFINE c == building.config
  <2>1. /\ c \in ConfigNames /\ Trouble /\ building' = Idle /\ UNCHANGED <<setting, zones>>
        /\ \/ /\ stacks' = [stacks EXCEPT ![c] = Broken({}, {})]
              /\ \A t \in loose' \ loose : t \in MayMake[c] /\ t[1] = "s3"
           \/ UNCHANGED <<stacks, loose>>
    BY <1>6, LaunchFailsEffect
  <2> HIDE DEF c
  <2>2. StacksInv'
    <3>1. CASE stacks' = [stacks EXCEPT ![c] = Broken({}, {})]
      <4> DEFINE stack == Broken({}, {})
      <4>1. /\ stack = [status |-> stack.status, owns |-> stack.owns, keeps |-> stack.keeps]
            /\ stack.status \in {"none", "deployed", "broken"}
            /\ stack.status = "none" => stack = NoStack
            /\ stack.owns \subseteq MayMake[c] /\ stack.keeps = {t \in stack.owns : t[1] = "s3"}
        BY NothingLeft
      <4> HIDE DEF stack
      <4>2. stacks' = [stacks EXCEPT ![c] = stack]
        BY <3>1 DEF stack
      <4> QED BY <1>0, <2>1, <4>1, <4>2, StackChanges
    <3>2. CASE UNCHANGED <<stacks, loose>>
      BY <1>0, <3>2 DEF StacksInv
    <3> QED BY <2>1, <3>1, <3>2
  <2>3. LooseInv'
    <3>1. \A t \in loose' \ loose : t[1] = "s3" /\ IsAName(t)
      BY <2>1, KeepsAreKnown
    <3> QED BY <1>0, <3>1 DEF LooseInv
  <2>4. BuildingInv' /\ troubles' \in 0 .. MaxTroubles
    BY <2>1, IdleInv, TroubleCounted
  <2> QED BY <2>1, <2>2, <2>3, <2>4 DEF BossletInv
<1>7. ASSUME Refused PROVE BossletInv'
  <2>1. building' = Idle /\ UNCHANGED <<setting, zones, stacks, loose, troubles>>
    BY <1>7 DEF Refused
  <2>2. BuildingInv' /\ StacksInv' /\ LooseInv'
    BY <1>0, <2>1, IdleInv DEF StacksInv, LooseInv
  <2> QED BY <2>1, <2>2 DEF BossletInv
<1>8. ASSUME IngestStarts \/ ZoneOpens PROVE BossletInv'
  <2>1. /\ building.op = "none" /\ UNCHANGED <<setting, stacks, building, troubles>>
        /\ loose' \subseteq loose \cup {UploadQueue}
        /\ zones \subseteq zones' /\ zones' \subseteq AllZones
    BY <1>8 DEF IngestStarts, ZoneOpens, BossletInv
  <2>2. building' = Idle
    BY <1>0, <2>1 DEF BuildingInv
  <2>3. BuildingInv' /\ StacksInv' /\ LooseInv'
    BY <1>0, <2>1, <2>2, IdleInv DEF StacksInv, LooseInv
  <2> QED BY <2>1, <2>3 DEF BossletInv
<1>9. ASSUME UNCHANGED bosslet PROVE BossletInv'
  <2>1. UNCHANGED <<setting, zones, stacks, loose, building, troubles>>
    BY <1>9 DEF bosslet
  <2>2. there' = there
    BY <2>1 DEF there, Owned
  <2>3. StacksInv' /\ LooseInv' /\ BuildingInv'
    BY <1>0, <2>1, <2>2 DEF StacksInv, LooseInv, BuildingInv
  <2> QED BY <2>1, <2>3 DEF BossletInv
<1> QED BY <1>2, <1>3, <1>4, <1>5, <1>6, <1>7, <1>8, <1>9 DEF BossletNext

\* The invariant, whatever the zones and however many commands fail.
THEOREM BossletInvHolds == BossletSpec => []BossletInv
  BY BossletInitInv, BossletStep, PTL DEF BossletSpec

\* Types: what is there has a name that names.py knows (build of AWSNames).
THEOREM BossletTypeCorrect == BossletSpec => []BossletTypeOK
<1>1. BossletInv => BossletTypeOK
  <2> SUFFICES ASSUME BossletInv PROVE BossletTypeOK
    OBVIOUS
  <2>1. StacksInv /\ LooseInv /\ BuildingInv
    BY DEF BossletInv
  <2>2. ASSUME NEW t \in there, t[1] \in DOMAIN RESOURCES PROVE IsAName(t)
    <3>1. CASE t \in ACCOUNT
      <4>1. {"topic", "zone", "export"} \cap DOMAIN RESOURCES = {}
        BY TypesOfNames
      <4>2. t[1] \in {"topic", "zone", "export"}
        BY <3>1 DEF ACCOUNT, Topic, ExternalZone
      <4> QED BY <4>1, <4>2, <2>2
    <3>2. CASE t \in loose
      <4>1. UploadQueue[1] \notin DOMAIN RESOURCES
        BY TypesOfNames DEF UploadQueue
      <4> QED BY <2>1, <2>2, <3>2, <4>1 DEF LooseInv
    <3>3. CASE t \in Owned
      <4>1. PICK c \in ConfigNames : t \in stacks[c].owns
        BY <3>3 DEF Owned
      <4>2. t \in MayMake[c]
        BY <2>1, <4>1 DEF StacksInv
      <4> QED BY <4>2, <2>2, ConfigsApart
    <3> QED BY <3>1, <3>2, <3>3 DEF there
  <2>3. \A c \in ConfigNames : stacks[c].keeps \subseteq stacks[c].owns
    BY <2>1 DEF StacksInv
  <2> QED BY <2>1, <2>2, <2>3 DEF BossletTypeOK, BossletInv, StacksInv, BuildingInv
<1> QED BY <1>1, BossletInvHolds, PTL

\* No two resources, of one stack or of two, create a thing of the same name,
\* and none a thing that is there already (create_config of all the
\* configurations, with s3_bucket_exists).
THEOREM NamesStayUnique == BossletSpec => []NamesAreUnique
<1>1. BossletInv => NamesAreUnique
  <2> SUFFICES ASSUME BossletInv PROVE NamesAreUnique
    OBVIOUS
  <2>1. StacksInv /\ LooseInv /\ BuildingInv
    BY DEF BossletInv
  <2>2. \A k, m \in DOMAIN building.template.res :
            k # m => building.template.res[k].makes \cap building.template.res[m].makes = {}
    <3>1. CASE building.op = "none"
      <4>1. DOMAIN building.template.res = {}
        <5>1. building.template = EmptyTemplate
          BY <2>1, <3>1 DEF BuildingInv, Idle
        <5>2. EmptyTemplate.res = << >>
          BY DEF EmptyTemplate
        <5> QED BY <5>1, <5>2
      <4> QED BY <4>1
    <3>2. CASE building.op # "none"
      BY <2>1, <3>2 DEF BuildingInv, Sorted
    <3> QED BY <3>1, <3>2
  <2>3. \A c, d \in ConfigNames : c # d => stacks[c].owns \cap stacks[d].owns = {}
    <3>1. \A c, d \in ConfigNames : c # d => MayMake[c] \cap MayMake[d] = {}
      BY ConfigsApart
    <3>2. \A c \in ConfigNames : stacks[c].owns \subseteq MayMake[c]
      BY <2>1 DEF StacksInv
    <3> QED BY <3>1, <3>2
  <2>4. ASSUME building.op # "none", NEW t \in Makes(building.template), t \in there,
               t \notin stacks[building.config].owns
        PROVE  FALSE
    <3> DEFINE c == building.config
    <3>1. c \in ConfigNames /\ t \in Fresh(c, there)
      BY <2>1, <2>4 DEF BuildingInv, Sorted
    <3> HIDE DEF c
    <3>2. t \in MayMake[c] /\ t[1] # "s3"
      BY <3>1, <2>4 DEF Fresh
    <3>3. t \notin ACCOUNT /\ t[1] # "upload"
      BY <3>1, <3>2, ConfigsApart
    <3>4. t \notin loose
      <4>1. UploadQueue[1] = "upload"
        BY DEF UploadQueue
      <4> QED BY <2>1, <3>2, <3>3, <4>1 DEF LooseInv
    <3>5. ASSUME NEW d \in ConfigNames, t \in stacks[d].owns PROVE d = c
      <4>1. t \in MayMake[d]
        BY <2>1, <3>5 DEF StacksInv
      <4> QED BY <3>1, <3>2, <4>1, ConfigsApart
    <3>6. t \notin Owned
      BY <3>5, <2>4 DEF Owned, c
    <3> QED BY <2>4, <3>3, <3>4, <3>6 DEF there
  <2>5. building.op # "none" =>
            Makes(building.template) \cap (there \ stacks[building.config].owns) = {}
    BY <2>4
  <2> QED BY <2>2, <2>3, <2>5 DEF NamesAreUnique
<1> QED BY <1>1, BossletInvHolds, PTL

\* Buckets outlive every command (DeletionPolicy Retain of add_s3_bucket):
\* the stacks know all of theirs, and a template creates none that is there.
THEOREM DataStays == BossletSpec => DataIsKept
<1>1. ASSUME BossletInv, BossletNext
      PROVE  {t \in there : t[1] = "s3"} \subseteq there'
  <2> SUFFICES ASSUME NEW t \in there, t[1] = "s3" PROVE t \in there'
    OBVIOUS
  <2>0. StacksInv /\ LooseInv /\ BuildingInv
    BY <1>1 DEF BossletInv
  <2>1. CASE t \in ACCOUNT
    BY <2>1 DEF there, ACCOUNT, Topic, ExternalZone
  <2>2. t # UploadQueue
    <3>1. UploadQueue[1] = "upload"
      BY DEF UploadQueue
    <3> QED BY <3>1
  <2>3. \A d \in ConfigNames : t \in stacks[d].owns => t \in stacks[d].keeps
    BY <2>0 DEF StacksInv
  <2>4. ASSUME t \in loose' \/ \E d \in ConfigNames : t \in stacks'[d].owns PROVE t \in there'
    BY <2>4 DEF there, Owned
  <2>5. ASSUME UNCHANGED stacks, loose \subseteq loose' PROVE t \in there'
    <3>1. t \in ACCOUNT \/ t \in loose \/ \E d \in ConfigNames : t \in stacks[d].owns
      BY DEF there, Owned
    <3> QED BY <2>1, <2>4, <2>5, <3>1
  <2>6. ASSUME NEW c \in ConfigNames, NEW stack, stacks' = [stacks EXCEPT ![c] = stack],
               t \in loose => t \in stack.owns \/ t \in loose',
               t \in stacks[c].keeps => t \in stack.owns \/ t \in loose'
        PROVE  t \in there'
    <3>1. \A d \in ConfigNames : stacks'[d] = IF d = c THEN stack ELSE stacks[d]
      BY <2>0, <2>6 DEF StacksInv
    <3>2. t \in ACCOUNT \/ t \in loose \/ \E d \in ConfigNames : t \in stacks[d].owns
      BY DEF there, Owned
    <3>3. CASE t \in loose
      BY <2>4, <2>6, <3>1, <3>3
    <3>4. ASSUME NEW d \in ConfigNames, t \in stacks[d].owns PROVE t \in there'
      <4>1. CASE d = c
        BY <2>3, <2>4, <2>6, <3>1, <3>4, <4>1
      <4>2. CASE d # c
        BY <2>4, <3>1, <3>4, <4>2
      <4> QED BY <4>1, <4>2
    <3> QED BY <2>1, <3>2, <3>3, <3>4
  <2>7. ASSUME NEW c \in ConfigNames, Create(c) \/ Update(c) PROVE t \in there'
    BY <2>5, <2>7 DEF Create, Update, Build
  <2>8. ASSUME NEW c \in ConfigNames, Delete(c) PROVE t \in there'
    <3>1. \E stack : /\ stacks' = [stacks EXCEPT ![c] = stack]
                     /\ t \in stacks[c].keeps => t \in stack.owns \/ t \in loose'
      BY <1>1, <2>8, DeleteEffect
    <3>2. t \in loose => t \in loose'
      BY <1>1, <2>2, <2>8, DeleteEffect
    <3> QED BY <2>6, <2>8, <3>1, <3>2
  <2>9. CASE Launched
    <3>1. \E c \in ConfigNames : \E stack :
             /\ stacks' = [stacks EXCEPT ![c] = stack]
             /\ loose' = (loose \cup stacks[c].keeps) \ stack.owns
      BY <1>1, <2>9, LaunchedEffect
    <3> QED BY <2>6, <3>1
  <2>10. CASE LaunchFails
    <3>1. \/ /\ building.config \in ConfigNames /\ stacks[building.config] = NoStack
             /\ stacks' = [stacks EXCEPT ![building.config] = Broken({}, {})]
             /\ loose \subseteq loose'
          \/ UNCHANGED <<stacks, loose>>
      BY <1>1, <2>10, LaunchFailsEffect
    <3>2. NoStack.keeps = {}
      BY NothingLeft
    <3> QED BY <2>5, <2>6, <3>1, <3>2
  <2>11. CASE Refused \/ IngestStarts \/ ZoneOpens
    BY <2>5, <2>11 DEF Refused, IngestStarts, ZoneOpens
  <2> QED BY <1>1, <2>7, <2>8, <2>9, <2>10, <2>11 DEF BossletNext
<1>2. BossletInv /\ [BossletNext]_bosslet => [{t \in there : t[1] = "s3"} \subseteq
        there']_bosslet
  BY <1>1
<1> QED BY <1>2, BossletInvHolds, PTL DEF BossletSpec, DataIsKept

\* No command takes anything from the stack of another configuration, not
\* even the prefix search of sqs_delete_all.
THEOREM OthersStay == BossletSpec => OthersAreLeftAlone
<1> DEFINE OneStack == \A c, d \in ConfigNames :
                        stacks'[c] # stacks[c] /\ stacks'[d] # stacks[d] => c = d
<1>1. ASSUME BossletInv, BossletNext PROVE OneStack
  <2>1. ASSUME NEW c, NEW stack, stacks' = [stacks EXCEPT ![c] = stack] PROVE OneStack
    BY <1>1, <2>1 DEF BossletInv, StacksInv
  <2>2. ASSUME UNCHANGED stacks PROVE OneStack
    BY <2>2
  <2> HIDE DEF OneStack
  <2>3. ASSUME NEW c \in ConfigNames, Create(c) \/ Update(c) PROVE OneStack
    BY <2>2, <2>3 DEF Create, Update, Build
  <2>4. ASSUME NEW c \in ConfigNames, Delete(c) PROVE OneStack
    BY <1>1, <2>1, <2>4, DeleteEffect
  <2>5. CASE Launched
    BY <1>1, <2>1, <2>5 DEF Launched
  <2>6. CASE LaunchFails
    BY <2>1, <2>2, <2>6 DEF LaunchFails
  <2>7. CASE Refused \/ IngestStarts \/ ZoneOpens
    BY <2>2, <2>7 DEF Refused, IngestStarts, ZoneOpens
  <2> QED BY <1>1, <2>3, <2>4, <2>5, <2>6, <2>7 DEF BossletNext
<1>2. BossletInv /\ [BossletNext]_bosslet => [OneStack]_bosslet
  BY <1>1
<1> QED BY <1>2, BossletInvHolds, PTL DEF BossletSpec, OthersAreLeftAlone
===============================================================================
