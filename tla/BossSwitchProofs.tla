---------------------------- MODULE BossSwitchProofs ----------------------------
(***************************************************************************)
(* For any number of groups, runs, writes and rescalings and with any calls *)
(* failing: no group forgets the size it had, no group is started without   *)
(* the secrets, and what a run reports is so.                               *)
(***************************************************************************)
EXTENDS BossSwitch, TLAPS

--------------------------------------------------------------------------------
(***************************************************************************)
(* The groups in the list of a run                                          *)
(***************************************************************************)
\* The head of a list and the others in it.
LEMMA Lists ==
    ASSUME NEW q \in Seq(Groups), q # <<>>
    PROVE  /\ Head(q) \in Groups /\ Head(q) \in ToSet(q) /\ Tail(q) \in Seq(Groups)
           /\ \A g \in ToSet(q) : g = Head(q) \/ g \in ToSet(Tail(q))
<1>1. Len(q) \in Nat \ {0} /\ Head(q) = q[1] /\ 1 \in DOMAIN q
  OBVIOUS
<1>2. \A g \in ToSet(q) : g = Head(q) \/ g \in ToSet(Tail(q))
  <2> SUFFICES ASSUME NEW i \in 1 .. Len(q), i # 1
               PROVE  q[i] \in ToSet(Tail(q))
    BY <1>1 DEF ToSet
  <2>1. /\ i - 1 \in 1 .. Len(Tail(q)) /\ Tail(q)[i - 1] = q[i]
        /\ DOMAIN Tail(q) = 1 .. Len(Tail(q))
    BY <1>1
  <2> QED BY <2>1 DEF ToSet
<1> QED BY <1>1, <1>2 DEF ToSet

\* The order of the groups, either way, has Vault first or last and all of them.
LEMMA Orders ==
    /\ Order \in Seq(Groups) /\ Order # <<>> /\ Head(Order) = Vault
    /\ Reverse(Order) \in Seq(Groups)
    /\ \A g \in Groups : g \in ToSet(Order) /\ g \in ToSet(Reverse(Order))
<1>1. Order \in Seq(Groups) /\ Order # <<>> /\ Head(Order) = Vault
  BY SwitchConstants DEF Vault
<1>2. Len(Order) \in Nat
  BY <1>1
<1>3. \A i \in 1 .. Len(Order) : Len(Order) - i + 1 \in 1 .. Len(Order)
  BY <1>2
<1>4. Reverse(Order) \in [1 .. Len(Order) -> Groups]
  BY <1>1, <1>3 DEF Reverse
<1>5. Reverse(Order) \in Seq(Groups) /\ DOMAIN Reverse(Order) = 1 .. Len(Order)
  BY <1>2, <1>4
<1>6. ASSUME NEW g \in Groups PROVE g \in ToSet(Reverse(Order))
  <2>1. PICK i \in 1 .. Len(Order) : Order[i] = g
    BY <1>1 DEF Groups, ToSet
  <2>2. /\ Len(Order) - i + 1 \in 1 .. Len(Order)
        /\ (Len(Order) - (Len(Order) - i + 1)) + 1 = i
    BY <1>2
  <2>3. Reverse(Order)[Len(Order) - i + 1] = g
    BY <2>1, <2>2 DEF Reverse
  <2> QED BY <1>5, <2>2, <2>3 DEF ToSet
<1> QED BY <1>1, <1>5, <1>6 DEF Groups

--------------------------------------------------------------------------------
(***************************************************************************)
(* Types, and what the actions make of the run                              *)
(***************************************************************************)
Places == {"idle", "loading", "saving", "starting", "checking", "exporting", "stopping"}

\* x is a run with these fields.
Is(x, pc, queue, asg, imported, problem) ==
    /\ x \in Run
    /\ x.pc = pc /\ x.queue = queue /\ x.asg = asg
    /\ x.imported = imported /\ x.problem = problem

\* The fields of a run.
LEMMA Fields ==
    ASSUME NEW r \in Run
    PROVE  /\ r.pc \in Places /\ r.queue \in Seq(Groups) /\ r.asg \in [Groups -> Size]
           /\ r.found \in [Groups -> Size]
           /\ r.imported \in BOOLEAN /\ r.problem \in BOOLEAN
BY DEF Run, Places

\* What the actions make of a run.
LEMMA Changes ==
    ASSUME NEW r \in Run, NEW pc \in Places, NEW q \in Seq(Groups), NEW b \in BOOLEAN
    PROVE  /\ Is([r EXCEPT !.pc = pc, !.queue = q], pc, q, r.asg, r.imported, r.problem)
           /\ Is([r EXCEPT !.pc = pc, !.queue = q, !.imported = b],
                 pc, q, r.asg, b, r.problem)
           /\ Is([r EXCEPT !.pc = pc], pc, r.queue, r.asg, r.imported, r.problem)
           /\ Is([r EXCEPT !.queue = q], r.pc, q, r.asg, r.imported, r.problem)
           /\ Is([r EXCEPT !.problem = b], r.pc, r.queue, r.asg, r.imported, b)
           /\ \A g \in Groups, new \in Size :
                Is([r EXCEPT !.queue = q, !.asg[g] = new],
                   r.pc, q, [r.asg EXCEPT ![g] = new], r.imported, r.problem)
<1> USE DEF Run, Places, Is
<1>1. Is([r EXCEPT !.pc = pc, !.queue = q], pc, q, r.asg, r.imported, r.problem)
  OBVIOUS
<1>2. Is([r EXCEPT !.pc = pc, !.queue = q, !.imported = b], pc, q, r.asg, b, r.problem)
  OBVIOUS
<1>3. Is([r EXCEPT !.pc = pc], pc, r.queue, r.asg, r.imported, r.problem)
  OBVIOUS
<1>4. Is([r EXCEPT !.queue = q], r.pc, q, r.asg, r.imported, r.problem)
  OBVIOUS
<1>5. Is([r EXCEPT !.problem = b], r.pc, r.queue, r.asg, r.imported, b)
  OBVIOUS
<1>6. ASSUME NEW g \in Groups, NEW new \in Size
      PROVE  Is([r EXCEPT !.queue = q, !.asg[g] = new],
                r.pc, q, [r.asg EXCEPT ![g] = new], r.imported, r.problem)
  OBVIOUS
<1> HIDE DEF Is
<1> QED BY <1>1, <1>2, <1>3, <1>4, <1>5, <1>6

--------------------------------------------------------------------------------
(***************************************************************************)
(* The invariant                                                            *)
(***************************************************************************)
OffRun == {"saving", "stopping", "exporting"}
OnRun == {"loading", "starting", "checking"}
Handled(g) == g \notin ToSet(run.queue)

Types ==
    /\ size \in [Groups -> Size] /\ checked \in [Groups -> BOOLEAN]
    /\ tags \in [Groups -> Size \cup {NoTags}]
    /\ last \in [Groups -> Size \ {Off}]
    /\ secrets \in 0 .. used.writes /\ exported \in Torn .. used.writes
    /\ used \in [runs : 0 .. MaxRuns, writes : 0 .. MaxWrites, rescales : 0 .. MaxRescales]
    /\ run \in Run

\* A run of "off" has found each group with its last size, or off already.
KnowsSizes ==
    run.pc \in OffRun =>
        \A g \in Groups : IF run.asg[g] = Off THEN ~ IsOn(g) ELSE last[g] = run.asg[g]

\* It stops no group before all tags are saved.
HasSaved ==
    /\ run.pc = "saving" => \A g \in Groups : Handled(g) => tags[g] = last[g]
    /\ run.pc \in {"exporting", "stopping"} => \A g \in Groups : tags[g] = last[g]

\* A run of "on" has a file, and gives no group the size it has when it is off.
WillBeOn ==
    /\ run.pc \in OnRun => exported # NoFile
    /\ run.pc = "loading" => \A g \in Groups : Handled(g) => run.asg[g] # Off
    /\ run.pc \in {"starting", "checking"} => \A g \in Groups : run.asg[g] # Off

\* The secrets are put back right after the start of Vault, which is the first.
VaultFirst ==
    /\ run.pc = "starting" => (run.imported \/ run.queue = Order)
    /\ run.pc = "checking" => run.queue # <<>> /\ Head(run.queue) = Vault
    /\ (run.pc = "checking" /\ ~ run.problem) => checked[Vault]

\* Without a warning the groups that have been handled are as they should be.
Started ==
    (run.pc \in {"starting", "checking"} /\ ~ run.problem) =>
        \A g \in Groups \ Unswitched : Handled(g) => IsOn(g) /\ checked[g]
Stopped ==
    /\ (run.pc \in {"stopping", "exporting"} /\ ~ run.problem) =>
          \A g \in Groups \ Unswitched : Handled(g) => ~ IsOn(g) /\ ~ checked[g]
    /\ (run.pc = "exporting" \/ (run.pc = "stopping" /\ Handled(Vault))) => exported >= 0

Knows == KnowsSizes /\ HasSaved /\ WillBeOn /\ VaultFirst /\ Started /\ Stopped

IInv == Types /\ TagsRemember /\ Knows

\* A process that has ended knows nothing.
LEMMA IdleKnowsNothing == ASSUME run'.pc = "idle" PROVE Knows'
BY DEF Knows, KnowsSizes, HasSaved, WillBeOn, VaultFirst, Started, Stopped, OffRun, OnRun

\* Abort and Interrupt: the process ends, and nothing else changes.
LEMMA AbortKeeps ==
    ASSUME IInv, Abort, UNCHANGED <<size, checked, tags, last, used>>,
           secrets' \in 0 .. used.writes, exported' \in Torn .. used.writes
    PROVE  IInv'
<1>1. Is(run', "idle", <<>>, run.asg, run.imported, run.problem)
  <2>1. run \in Run /\ "idle" \in Places /\ <<>> \in Seq(Groups)
    BY DEF IInv, Types, Places
  <2> QED BY <2>1, Changes DEF Abort
<1>2. Knows'
  BY <1>1, IdleKnowsNothing DEF Is
<1>3. Types'
  BY <1>1 DEF IInv, Types, Is
<1>4. TagsRemember'
  BY DEF IInv, TagsRemember, IsOn
<1> QED BY <1>2, <1>3, <1>4 DEF IInv

\* The start of a run: it reads the groups, and remembers those that are on.
LEMMA BeginKeeps ==
    ASSUME IInv, NEW pc \in {"saving", "loading"}, Begin(pc),
           pc = "loading" => exported # NoFile
    PROVE  IInv'
<1>1. /\ run' = [pc |-> pc, queue |-> Order, found |-> size, asg |-> size,
                 imported |-> FALSE, problem |-> FALSE]
      /\ last' = [g \in Groups |-> IF IsOn(g) THEN size[g] ELSE last[g]]
      /\ used' = [used EXCEPT !.runs = @ + 1]
      /\ used.runs < MaxRuns
      /\ UNCHANGED <<size, checked, tags, secrets, exported>>
  BY DEF Begin
<1>2. run' \in Run
  BY <1>1, Orders DEF Run, IInv, Types
<1>3. /\ used'.writes = used.writes
      /\ used' \in [runs : 0 .. MaxRuns, writes : 0 .. MaxWrites, rescales : 0 .. MaxRescales]
  BY <1>1, SwitchConstants DEF IInv, Types
<1>4. last' \in [Groups -> Size \ {Off}]
  BY <1>1 DEF IInv, Types, IsOn
<1>5. Types'
  BY <1>1, <1>2, <1>3, <1>4 DEF IInv, Types
<1>6. TagsRemember'
  BY <1>1 DEF IInv, TagsRemember, IsOn
<1>7. run'.pc = pc /\ run'.queue = Order /\ run'.asg = size
  BY <1>1
<1>8. \A g \in Groups : g \in ToSet(Order)
  BY Orders
<1>9. KnowsSizes' /\ HasSaved'
  BY <1>1, <1>7, <1>8 DEF KnowsSizes, HasSaved, OffRun, Handled, IsOn
<1>10. WillBeOn' /\ VaultFirst' /\ Started' /\ Stopped'
  BY <1>1, <1>7, <1>8 DEF WillBeOn, VaultFirst, Started, Stopped, OnRun, Handled
<1> QED BY <1>5, <1>6, <1>9, <1>10 DEF IInv, Knows

--------------------------------------------------------------------------------
(***************************************************************************)
(* Every action keeps the invariant                                         *)
(***************************************************************************)
\* What the step of a group has handled is that group and what had been before.
LEMMA HandledNext ==
    ASSUME Types, run.queue # <<>>, run'.queue = Tail(run.queue), NEW g, Handled(g)'
    PROVE  g = Head(run.queue) \/ Handled(g)
<1>1. run.queue \in Seq(Groups)
  BY Fields DEF Types
<1> QED BY <1>1, Lists DEF Handled

\* The tags of a group that is on are those of its size, others are left as they are.
LEMMA SaveTagsKeeps == ASSUME IInv, NEW g \in Groups, SaveTags(g) PROVE IInv'
<1>1. /\ run.pc = "saving" /\ run.queue # <<>> /\ Head(run.queue) = g
      /\ tags' = IF run.asg[g] = Off THEN tags ELSE [tags EXCEPT ![g] = run.asg[g]]
      /\ UNCHANGED <<size, checked, secrets, exported, used, last>>
  BY DEF SaveTags, At
<1>2. Is(run', "saving", Tail(run.queue), run.asg, run.imported, run.problem)
  <2>1. run \in Run /\ "saving" \in Places /\ Tail(run.queue) \in Seq(Groups)
    BY <1>1, Fields, Lists DEF IInv, Types, Places
  <2> QED BY <2>1, Changes DEF SaveTags, Move
<1>3. Types'
  <2>1. run.asg \in [Groups -> Size]
    BY Fields DEF IInv, Types
  <2> QED BY <1>1, <1>2, <2>1 DEF IInv, Types, Is
<1>4. /\ tags'[g] = last[g]
      /\ \A h \in Groups \ {g} : tags'[h] = tags[h]
  <2>1. IF run.asg[g] = Off THEN ~ IsOn(g) ELSE last[g] = run.asg[g]
    BY <1>1 DEF IInv, Knows, KnowsSizes, OffRun
  <2>2. tags \in [Groups -> Size \cup {NoTags}]
    BY DEF IInv, Types
  <2> QED BY <1>1, <2>1, <2>2 DEF IInv, TagsRemember
<1>5. TagsRemember'
  BY <1>1, <1>4 DEF IInv, TagsRemember, IsOn
<1>6. \A h \in Groups : Handled(h)' => h = g \/ Handled(h)
  BY <1>1, <1>2, HandledNext DEF IInv, Is
<1>7. HasSaved'
  BY <1>1, <1>2, <1>4, <1>6 DEF IInv, Knows, HasSaved, Is
<1>8. KnowsSizes'
  BY <1>1, <1>2 DEF IInv, Knows, KnowsSizes, Is, IsOn, OffRun
<1>9. WillBeOn' /\ VaultFirst' /\ Started' /\ Stopped'
  BY <1>2 DEF WillBeOn, VaultFirst, Started, Stopped, Is, OnRun
<1> QED BY <1>3, <1>5, <1>7, <1>8, <1>9 DEF IInv, Knows

\* A size that is loaded has no zero in it.
LEMMA LoadTagsKeeps == ASSUME IInv, NEW g \in Groups, LoadTags(g) PROVE IInv'
<1>1. /\ run.pc = "loading" /\ run.queue # <<>> /\ Head(run.queue) = g
      /\ UNCHANGED <<size, checked, tags, secrets, exported, used, last>>
  BY DEF LoadTags, At
<1>2. CASE tags[g] = NoTags
  <2>1. Abort
    BY <1>2 DEF LoadTags
  <2> QED BY <1>1, <2>1, AbortKeeps DEF IInv, Types
<1>3. CASE tags[g] # NoTags
  <2> DEFINE value(k) == IF tags[g][k] = 0 THEN 1 ELSE tags[g][k]
             new(keep) == [k \in Keys |-> IF k \in keep THEN run.asg[g][k] ELSE value(k)]
  <2>1. PICK keep \in SUBSET {k \in Keys : run.asg[g][k] > 0 /\ run.asg[g][k] # value(k)} :
           run' = [run EXCEPT !.queue = Tail(run.queue), !.asg[g] = new(keep)]
    BY <1>3 DEF LoadTags
  <2>2. tags[g] \in [Keys -> Nat]
    BY <1>3 DEF IInv, Types, Size
  <2>3. run.asg \in [Groups -> Size] /\ run.asg[g] \in [Keys -> Nat]
    BY Fields DEF IInv, Types, Size
  <2>4. \A k \in Keys : new(keep)[k] \in Nat \ {0}
    BY <2>1, <2>2, <2>3
  <2>5. new(keep) \in Size /\ new(keep) # Off
    <3>1. new(keep) \in [Keys -> Nat]
      BY <2>4
    <3>2. new(keep)["min"] # 0 /\ Off["min"] = 0
      BY <2>4 DEF Keys, Off
    <3> QED BY <3>1, <3>2 DEF Size
  <2> HIDE DEF new
  <2>6. Is(run', "loading", Tail(run.queue), [run.asg EXCEPT ![g] = new(keep)],
           run.imported, run.problem)
    <3>1. run \in Run /\ "loading" \in Places /\ Tail(run.queue) \in Seq(Groups)
      BY <1>1, Fields, Lists DEF IInv, Types, Places
    <3> QED BY <1>1, <2>1, <2>5, <3>1, Changes
  <2>7. Types'
    BY <1>1, <2>6 DEF IInv, Types, Is
  <2>8. TagsRemember'
    BY <1>1 DEF IInv, TagsRemember, IsOn
  <2>9. \A h \in Groups : Handled(h)' => h = g \/ Handled(h)
    BY <1>1, <2>6, HandledNext DEF IInv, Is
  <2>10. WillBeOn'
    <3>1. \A h \in Groups : Handled(h)' => run'.asg[h] # Off
      BY <1>1, <2>3, <2>5, <2>6, <2>9 DEF IInv, Knows, WillBeOn, Is
    <3> QED BY <1>1, <2>6, <3>1 DEF IInv, Knows, WillBeOn, Is, OnRun
  <2>11. KnowsSizes' /\ HasSaved' /\ VaultFirst' /\ Started' /\ Stopped'
    BY <2>6 DEF KnowsSizes, HasSaved, VaultFirst, Started, Stopped, Is, OffRun
  <2> QED BY <2>7, <2>8, <2>10, <2>11 DEF IInv, Knows
<1> QED BY <1>2, <1>3

\* After the tags of all groups, the groups: from Vault on, or up to Vault.
LEMMA TagsDoneKeeps == ASSUME IInv, TagsDone PROVE IInv'
<1>1. /\ run.pc \in {"saving", "loading"} /\ run.queue = <<>>
      /\ UNCHANGED <<size, checked, tags, secrets, exported, used, last>>
  BY DEF TagsDone
<1>2. \A g : Handled(g)
  BY <1>1 DEF Handled, ToSet
<1>3. run \in Run /\ {"stopping", "starting"} \subseteq Places
  BY DEF IInv, Types, Places
<1>4. TagsRemember'
  BY <1>1 DEF IInv, TagsRemember, IsOn
<1>5. CASE run.pc = "saving"
  <2>1. Is(run', "stopping", Reverse(Order), run.asg, run.imported, run.problem)
    BY <1>3, <1>5, Changes, Orders DEF TagsDone
  <2>2. \A g \in Groups : ~ Handled(g)'
    BY <2>1, Orders DEF Handled, Is
  <2>3. Types'
    BY <1>1, <2>1 DEF IInv, Types, Is
  <2>4. HasSaved'
    BY <1>1, <1>2, <1>5, <2>1 DEF IInv, Knows, HasSaved, Is
  <2>5. KnowsSizes'
    BY <1>1, <1>5, <2>1 DEF IInv, Knows, KnowsSizes, Is, IsOn, OffRun
  <2>6. Vault \in Groups
    BY Orders, Lists
  <2>7. Started' /\ Stopped' /\ WillBeOn' /\ VaultFirst'
    BY <2>1, <2>2, <2>6 DEF Started, Stopped, WillBeOn, VaultFirst, Is, OnRun
  <2> QED BY <1>4, <2>3, <2>4, <2>5, <2>7 DEF IInv, Knows
<1>6. CASE run.pc = "loading"
  <2>1. Is(run', "starting", Order, run.asg, run.imported, run.problem)
    BY <1>3, <1>6, Changes, Orders DEF TagsDone
  <2>2. \A g \in Groups : ~ Handled(g)'
    BY <2>1, Orders DEF Handled, Is
  <2>3. Types'
    BY <1>1, <2>1 DEF IInv, Types, Is
  <2>4. WillBeOn'
    BY <1>1, <1>2, <1>6, <2>1 DEF IInv, Knows, WillBeOn, Is, OnRun
  <2>5. Started' /\ Stopped' /\ KnowsSizes' /\ HasSaved' /\ VaultFirst'
    BY <2>1, <2>2 DEF Started, Stopped, KnowsSizes, HasSaved, VaultFirst, Is, OffRun
  <2> QED BY <1>4, <2>3, <2>4, <2>5 DEF IInv, Knows
<1> QED BY <1>1, <1>5, <1>6

\* The Auth group without a database of its own is passed over.
LEMMA SkipKeeps == ASSUME IInv, NEW g \in Groups, Skip(g) PROVE IInv'
<1>1. /\ run.pc \in {"starting", "stopping"} /\ run.queue # <<>> /\ Head(run.queue) = g
      /\ g \in Unswitched /\ g # Vault
      /\ UNCHANGED <<size, checked, tags, secrets, exported, used, last>>
  BY SwitchConstants DEF Skip, At
<1>2. Is(run', run.pc, Tail(run.queue), run.asg, run.imported, run.problem)
  <2>1. run \in Run /\ run.pc \in Places /\ Tail(run.queue) \in Seq(Groups)
    BY <1>1, Fields, Lists DEF IInv, Types
  <2> QED BY <2>1, Changes DEF Skip, Move
<1>3. Types'
  BY <1>1, <1>2 DEF IInv, Types, Is
<1>4. TagsRemember'
  BY <1>1 DEF IInv, TagsRemember, IsOn
<1>5. \A h \in Groups : Handled(h)' => h = g \/ Handled(h)
  BY <1>1, <1>2, HandledNext DEF IInv, Is
<1>6. KnowsSizes' /\ HasSaved' /\ WillBeOn'
  BY <1>1, <1>2 DEF IInv, Knows, KnowsSizes, HasSaved, WillBeOn, Is, IsOn, OffRun, OnRun
<1>7. VaultFirst'
  BY <1>1, <1>2, Orders DEF IInv, Knows, VaultFirst, Is
<1>8. Started'
  BY <1>1, <1>2, <1>5 DEF IInv, Knows, Started, Is, IsOn
<1>9. Stopped'
  <2>1. Vault \in Groups
    BY Orders, Lists
  <2> QED BY <1>1, <1>2, <1>5, <2>1 DEF IInv, Knows, Stopped, Is, IsOn
<1> QED BY <1>3, <1>4, <1>6, <1>7, <1>8, <1>9 DEF IInv, Knows

\* A size and a health check have been set; or maybe not, with a warning p.
HasResized(g, new, active, then, p) ==
    /\ run' = [then EXCEPT !.problem = p]
    /\ size' \in {size, [size EXCEPT ![g] = new]}
    /\ checked' \in {checked, [checked EXCEPT ![g] = active]}
    /\ ~ p => /\ ~ run.problem
              /\ size' = [size EXCEPT ![g] = new]
              /\ checked' = [checked EXCEPT ![g] = active]
    /\ UNCHANGED <<tags, secrets, exported, used, last>>

\* The run goes on whether or not the calls failed, but not without a warning.
LEMMA ResizeEffect ==
    ASSUME NEW g, NEW new, NEW active, NEW then, Resize(g, new, active, then),
           run \in Run
    PROVE  \E p \in BOOLEAN : HasResized(g, new, active, then, p)
<1>1. run.problem \in BOOLEAN
  BY Fields
<1>2. CASE /\ size' = [size EXCEPT ![g] = new]
           /\ checked' = [checked EXCEPT ![g] = active]
           /\ run' = [then EXCEPT !.problem = run.problem]
  BY <1>1, <1>2 DEF Resize, HasResized
<1>3. CASE /\ size' \in {size, [size EXCEPT ![g] = new]}
           /\ UNCHANGED checked
           /\ run' = [then EXCEPT !.problem = TRUE]
  BY <1>3 DEF Resize, HasResized
<1> QED BY <1>2, <1>3 DEF Resize

\* Group g has been given the size from its tags, or, with a warning p, maybe not.
HasStarted(g, p) ==
    /\ IF g = Vault
       THEN Is(run', "checking", run.queue, run.asg, run.imported, p)
       ELSE Is(run', "starting", Tail(run.queue), run.asg, run.imported, p)
    /\ size' \in {size, [size EXCEPT ![g] = run.asg[g]]}
    /\ checked' \in {checked, [checked EXCEPT ![g] = TRUE]}
    /\ ~ p => /\ ~ run.problem
              /\ size' = [size EXCEPT ![g] = run.asg[g]]
              /\ checked' = [checked EXCEPT ![g] = TRUE]

\* A group is given the size from its tags.
LEMMA StartEffect ==
    ASSUME IInv, NEW g \in Groups, Start(g)
    PROVE  /\ run.pc = "starting" /\ run.queue # <<>> /\ Head(run.queue) = g
           /\ g \notin Unswitched
           /\ UNCHANGED <<tags, secrets, exported, used, last>>
           /\ \E p \in BOOLEAN : HasStarted(g, p)
<1> DEFINE then == IF g = Vault THEN [run EXCEPT !.pc = "checking"]
                                ELSE [run EXCEPT !.queue = Tail(run.queue)]
<1>1. /\ run.pc = "starting" /\ run.queue # <<>> /\ Head(run.queue) = g
      /\ g \notin Unswitched /\ run \in Run
  BY DEF Start, At, IInv, Types
<1>2. IF Valid(run.asg[g])
      THEN Resize(g, run.asg[g], TRUE, then)
      ELSE /\ run' = [then EXCEPT !.problem = TRUE]
           /\ UNCHANGED <<size, checked, tags, secrets, exported, used, last>>
  BY DEF Start
<1>3. IF g = Vault
      THEN Is(then, "checking", run.queue, run.asg, run.imported, run.problem)
      ELSE Is(then, "starting", Tail(run.queue), run.asg, run.imported, run.problem)
  <2>1. "checking" \in Places /\ Tail(run.queue) \in Seq(Groups)
    BY <1>1, Fields, Lists DEF Places
  <2> QED BY <1>1, <2>1, Changes
<1> HIDE DEF then
<1>4. ASSUME NEW p \in BOOLEAN, run' = [then EXCEPT !.problem = p]
      PROVE  IF g = Vault
             THEN Is(run', "checking", run.queue, run.asg, run.imported, p)
             ELSE Is(run', "starting", Tail(run.queue), run.asg, run.imported, p)
  <2>1. then \in Run
    BY <1>3 DEF Is
  <2>2. Is(run', then.pc, then.queue, then.asg, then.imported, p)
    BY <1>4, <2>1, Changes, Fields
  <2> QED BY <1>3, <2>2 DEF Is
<1>5. CASE Valid(run.asg[g])
  <2>1. Resize(g, run.asg[g], TRUE, then)
    BY <1>2, <1>5
  <2>2. PICK p \in BOOLEAN : HasResized(g, run.asg[g], TRUE, then, p)
    BY <1>1, <2>1, ResizeEffect
  <2>3. HasStarted(g, p)
    BY <1>4, <2>2 DEF HasStarted, HasResized
  <2> QED BY <1>1, <2>2, <2>3 DEF HasResized
<1>6. CASE ~ Valid(run.asg[g])
  <2>1. run' = [then EXCEPT !.problem = TRUE] /\ TRUE \in BOOLEAN
    BY <1>2, <1>6
  <2>2. UNCHANGED <<size, checked, tags, secrets, exported, used, last>>
    BY <1>2, <1>6
  <2>3. HasStarted(g, TRUE)
    BY <1>4, <2>1, <2>2 DEF HasStarted
  <2> QED BY <1>1, <2>1, <2>2, <2>3
<1> QED BY <1>5, <1>6

\* What is started is on, and Vault is the first.
LEMMA StartKeeps == ASSUME IInv, NEW g \in Groups, Start(g) PROVE IInv'
<1>1. /\ run.pc = "starting" /\ run.queue # <<>> /\ Head(run.queue) = g
      /\ g \notin Unswitched
      /\ UNCHANGED <<tags, secrets, exported, used, last>>
  BY StartEffect
<1>2. PICK p \in BOOLEAN : HasStarted(g, p)
  BY StartEffect
<1>3. /\ run.asg \in [Groups -> Size] /\ run.asg[g] # Off
      /\ size \in [Groups -> Size] /\ checked \in [Groups -> BOOLEAN]
      /\ exported # NoFile
  BY <1>1, Fields DEF IInv, Types, Knows, WillBeOn, OnRun
<1>4. /\ size' \in [Groups -> Size] /\ checked' \in [Groups -> BOOLEAN]
      /\ \A h \in Groups : IsOn(h) => IsOn(h)'
      /\ \A h \in Groups : checked[h] => checked'[h]
      /\ ~ p => IsOn(g)' /\ checked'[g]
  BY <1>2, <1>3 DEF IsOn, HasStarted
<1>5. run' \in Run /\ run'.pc \in {"checking", "starting"} /\ run'.asg = run.asg
      /\ run'.problem = p
  BY <1>2 DEF Is, HasStarted
<1>6. Types'
  BY <1>1, <1>4, <1>5 DEF IInv, Types
<1>7. TagsRemember'
  BY <1>1, <1>4 DEF IInv, TagsRemember
<1>8. \A h \in Groups : Handled(h)' => (h = g /\ g # Vault) \/ Handled(h)
  <2>1. CASE g = Vault
    BY <1>2, <2>1 DEF Is, Handled, HasStarted
  <2>2. CASE g # Vault
    BY <1>1, <1>2, <2>2, HandledNext DEF IInv, Is, HasStarted
  <2> QED BY <2>1, <2>2
<1>9. WillBeOn'
  BY <1>1, <1>3, <1>5 DEF IInv, Knows, WillBeOn
<1>10. VaultFirst'
  <2>1. CASE g = Vault
    BY <1>1, <1>2, <1>4, <2>1 DEF VaultFirst, Is, HasStarted
  <2>2. CASE g # Vault
    BY <1>1, <1>2, <2>2, Orders DEF IInv, Knows, VaultFirst, Is, HasStarted
  <2> QED BY <2>1, <2>2
<1>11. Started'
  BY <1>1, <1>2, <1>4, <1>5, <1>8 DEF IInv, Knows, Started, HasStarted
<1>12. KnowsSizes' /\ HasSaved' /\ Stopped'
  BY <1>5 DEF KnowsSizes, HasSaved, Stopped, OffRun
<1> QED BY <1>6, <1>7, <1>9, <1>10, <1>11, <1>12 DEF IInv, Knows

\* The secrets are back, or the process ends.
LEMMA ImportKeeps == ASSUME IInv, Import PROVE IInv'
<1>1. run.pc = "checking" /\ UNCHANGED <<size, checked, tags, exported, used, last>>
  BY DEF Import
<1>2. CASE ~ (IsOn(Vault) /\ exported # Torn)
  <2>1. Abort /\ UNCHANGED secrets
    BY <1>2 DEF Import
  <2> QED BY <1>1, <2>1, AbortKeeps DEF IInv, Types
<1>3. CASE IsOn(Vault) /\ exported # Torn
  <2>1. run.queue # <<>> /\ Head(run.queue) = Vault /\ exported # NoFile
        /\ (~ run.problem => checked[Vault]) /\ \A g \in Groups : run.asg[g] # Off
    BY <1>1 DEF IInv, Knows, VaultFirst, WillBeOn, OnRun
  <2>2. Is(run', "starting", Tail(run.queue), run.asg, TRUE, run.problem)
    <3>1. run \in Run /\ "starting" \in Places /\ Tail(run.queue) \in Seq(Groups)
      BY <2>1, Fields, Lists DEF IInv, Types, Places
    <3> QED BY <1>3, <3>1, Changes DEF Import
  <2>3. secrets' = exported /\ exported \in 0 .. used.writes
    <3>1. exported \in Torn .. used.writes /\ exported # Torn /\ exported # NoFile
          /\ used.writes \in Nat
      BY <1>3, <2>1 DEF IInv, Types
    <3> QED BY <1>3, <3>1 DEF Torn, NoFile, Import
  <2>4. Types'
    BY <1>1, <2>2, <2>3 DEF IInv, Types, Is
  <2>5. TagsRemember'
    BY <1>1 DEF IInv, TagsRemember, IsOn
  <2>6. \A h \in Groups : Handled(h)' => h = Vault \/ Handled(h)
    BY <2>1, <2>2, HandledNext DEF IInv, Is
  <2>7. WillBeOn' /\ VaultFirst'
    BY <1>1, <2>1, <2>2 DEF WillBeOn, VaultFirst, Is
  <2>8. Started'
    BY <1>1, <1>3, <2>1, <2>2, <2>6 DEF IInv, Knows, Started, Is, IsOn
  <2>9. KnowsSizes' /\ HasSaved' /\ Stopped'
    BY <2>2 DEF KnowsSizes, HasSaved, Stopped, OffRun, Is
  <2> QED BY <2>4, <2>5, <2>7, <2>8, <2>9 DEF IInv, Knows
<1> QED BY <1>2, <1>3

\* The file is what Vault holds, or torn, or, without Vault, left alone.
LEMMA ExportKeeps == ASSUME IInv, Export PROVE IInv'
<1>1. /\ run.pc = "stopping" /\ run.queue # <<>> /\ Head(run.queue) = Vault
      /\ UNCHANGED <<size, checked, tags, secrets, used, last>>
      /\ secrets \in 0 .. used.writes /\ used.writes \in Nat
      /\ exported \in Torn .. used.writes
  BY DEF Export, At, IInv, Types
<1>2. CASE exported' = secrets /\ run' = [run EXCEPT !.pc = "exporting"]
  <2>1. Is(run', "exporting", run.queue, run.asg, run.imported, run.problem)
    <3>1. /\ run \in Run /\ "exporting" \in Places
          /\ run.queue \in Seq(Groups) /\ run.problem \in BOOLEAN
      BY Fields DEF IInv, Types, Places
    <3> QED BY <1>2, <3>1, Changes
  <2>2. exported' \in Torn .. used.writes /\ exported' >= 0
    BY <1>1, <1>2 DEF Torn
  <2>3. Types'
    BY <1>1, <2>1, <2>2 DEF IInv, Types, Is
  <2>4. TagsRemember'
    BY <1>1 DEF IInv, TagsRemember, IsOn
  <2>5. KnowsSizes' /\ HasSaved'
    BY <1>1, <2>1 DEF IInv, Knows, KnowsSizes, HasSaved, Is, IsOn, OffRun
  <2>6. \A h \in Groups : Handled(h)' => Handled(h)
    BY <2>1 DEF Is, Handled
  <2>7. Stopped'
    BY <1>1, <2>1, <2>2, <2>6 DEF IInv, Knows, Stopped, Is, IsOn
  <2>8. WillBeOn' /\ VaultFirst' /\ Started'
    BY <2>1 DEF WillBeOn, VaultFirst, Started, Is, OnRun
  <2> QED BY <2>3, <2>4, <2>5, <2>7, <2>8 DEF IInv, Knows
<1>3. CASE exported' \in {Torn, exported} /\ Abort
  <2>1. exported' \in Torn .. used.writes
    BY <1>1, <1>3 DEF Torn
  <2> QED BY <1>1, <1>3, <2>1, AbortKeeps
<1> QED BY <1>2, <1>3 DEF Export

\* A group is stopped when its tags are saved, and Vault when its content is.
LEMMA StopKeeps == ASSUME IInv, NEW g \in Groups, Stop(g) PROVE IInv'
<1> DEFINE then == [run EXCEPT !.pc = "stopping", !.queue = Tail(run.queue)]
<1>1. /\ run.pc = IF g = Vault THEN "exporting" ELSE "stopping"
      /\ run.queue # <<>> /\ Head(run.queue) = g
      /\ run \in Run
      /\ Resize(g, Off, FALSE, then)
  BY DEF Stop, At, IInv, Types
<1>2. Is(then, "stopping", Tail(run.queue), run.asg, run.imported, run.problem)
  <2>1. "stopping" \in Places /\ Tail(run.queue) \in Seq(Groups)
    BY <1>1, Fields, Lists DEF Places
  <2> QED BY <1>1, <2>1, Changes
<1> HIDE DEF then
<1>3. PICK p \in BOOLEAN : HasResized(g, Off, FALSE, then, p)
  BY <1>1, ResizeEffect
<1>4. Is(run', "stopping", Tail(run.queue), run.asg, run.imported, p)
  <2>1. then \in Run
    BY <1>2 DEF Is
  <2>2. Is(run', then.pc, then.queue, then.asg, then.imported, p)
    BY <1>3, <2>1, Changes, Fields DEF HasResized
  <2> QED BY <1>2, <2>2 DEF Is
<1>5. /\ size \in [Groups -> Size] /\ checked \in [Groups -> BOOLEAN] /\ Off \in Size
  BY DEF IInv, Types, Off, Size
<1>6. /\ size' \in [Groups -> Size] /\ checked' \in [Groups -> BOOLEAN]
      /\ \A h \in Groups : ~ IsOn(h) => ~ IsOn(h)'
      /\ \A h \in Groups : ~ checked[h] => ~ checked'[h]
      /\ ~ p => ~ run.problem /\ ~ IsOn(g)' /\ ~ checked'[g]
  BY <1>3, <1>5 DEF IsOn, HasResized
<1>7. UNCHANGED <<tags, secrets, exported, used, last>>
  BY <1>3 DEF HasResized
<1>8. Types'
  BY <1>4, <1>6, <1>7 DEF IInv, Types, Is
<1>9. \A h \in Groups : tags[h] = last[h]
  BY <1>1 DEF IInv, Knows, HasSaved
<1>10. TagsRemember' /\ HasSaved'
  BY <1>4, <1>7, <1>9 DEF TagsRemember, HasSaved, Is
<1>11. KnowsSizes'
  BY <1>1, <1>4, <1>6, <1>7 DEF IInv, Knows, KnowsSizes, Is, OffRun
<1>12. \A h \in Groups : Handled(h)' => h = g \/ Handled(h)
  BY <1>1, <1>4, HandledNext DEF IInv, Is
<1>13. Vault \in Groups
  BY Orders, Lists
<1>14. Stopped'
  BY <1>1, <1>4, <1>6, <1>7, <1>12, <1>13 DEF IInv, Knows, Stopped, Is
<1>15. WillBeOn' /\ VaultFirst' /\ Started'
  BY <1>4 DEF WillBeOn, VaultFirst, Started, Is, OnRun
<1> QED BY <1>8, <1>10, <1>11, <1>14, <1>15 DEF IInv, Knows

\* The end of a run.
LEMMA DoneKeeps == ASSUME IInv, Done PROVE IInv'
<1>1. UNCHANGED <<size, checked, tags, secrets, exported, used, last>>
  BY DEF Done
<1>2. Is(run', "idle", run.queue, run.asg, run.imported, run.problem)
  <2>1. /\ run \in Run /\ "idle" \in Places
        /\ run.queue \in Seq(Groups) /\ run.problem \in BOOLEAN
    BY Fields DEF IInv, Types, Places
  <2> QED BY <2>1, Changes DEF Done
<1>3. Knows'
  BY <1>2, IdleKnowsNothing DEF Is
<1>4. Types' /\ TagsRemember'
  BY <1>1, <1>2 DEF IInv, Types, TagsRemember, IsOn, Is
<1> QED BY <1>3, <1>4 DEF IInv

\* The bosslet in use: what is on stays on, and nothing else a run knows changes.
LEMMA UseKeeps == ASSUME IInv, Write \/ \E g \in Groups : Rescale(g) PROVE IInv'
<1>1. UNCHANGED <<checked, tags, exported, run, last>>
  BY DEF Write, Rescale
<1>2. size \in [Groups -> Size] /\ secrets \in 0 .. used.writes
      /\ exported \in Torn .. used.writes
      /\ used \in [runs : 0 .. MaxRuns, writes : 0 .. MaxWrites,
                   rescales : 0 .. MaxRescales]
  BY DEF IInv, Types
<1>3. /\ size' \in [Groups -> Size]
      /\ \A h \in Groups : IsOn(h)' <=> IsOn(h)
  <2>1. CASE Write
    BY <1>2, <2>1 DEF Write, IsOn
  <2>2. CASE \E g \in Groups : Rescale(g)
    <3>1. PICK g \in Groups : Rescale(g)
      BY <2>2
    <3>2. PICK s \in Sizes : size' = [size EXCEPT ![g] = s]
      BY <3>1 DEF Rescale
    <3>3. s \in Size /\ s # Off /\ size[g] # Off
      BY <3>1, SwitchConstants DEF Rescale, IsOn
    <3> QED BY <1>2, <3>2, <3>3 DEF IsOn
  <2> QED BY <2>1, <2>2
<1>4. /\ secrets' \in 0 .. used'.writes /\ exported' \in Torn .. used'.writes
      /\ used' \in [runs : 0 .. MaxRuns, writes : 0 .. MaxWrites,
                    rescales : 0 .. MaxRescales]
  <2>1. CASE Write
    <3>1. /\ used.writes < MaxWrites /\ secrets' = used.writes + 1
          /\ used' = [used EXCEPT !.writes = @ + 1] /\ exported' = exported
      BY <2>1 DEF Write
    <3> QED BY <1>2, <3>1, SwitchConstants DEF Torn
  <2>2. CASE \E g \in Groups : Rescale(g)
    <3>1. /\ used.rescales < MaxRescales /\ secrets' = secrets
          /\ used' = [used EXCEPT !.rescales = @ + 1] /\ exported' = exported
      BY <2>2 DEF Rescale
    <3> QED BY <1>2, <3>1, SwitchConstants
  <2> QED BY <2>1, <2>2
<1>5. Types'
  BY <1>1, <1>3, <1>4 DEF IInv, Types
<1>6. TagsRemember'
  BY <1>1, <1>3 DEF IInv, TagsRemember
<1>7. KnowsSizes' /\ HasSaved'
  BY <1>1, <1>3 DEF IInv, Knows, KnowsSizes, HasSaved, Handled
<1>8. WillBeOn' /\ VaultFirst'
  BY <1>1 DEF IInv, Knows, WillBeOn, VaultFirst, Handled
<1>9. Started' /\ Stopped'
  BY <1>1, <1>3 DEF IInv, Knows, Started, Stopped, Handled
<1> QED BY <1>5, <1>6, <1>7, <1>8, <1>9 DEF IInv, Knows

--------------------------------------------------------------------------------
(***************************************************************************)
(* The theorems                                                             *)
(***************************************************************************)
\* The invariant holds before the first run.
THEOREM IInvHoldsAtFirst == Init => IInv
<1> SUFFICES ASSUME Init PROVE IInv
  OBVIOUS
<1>1. size \in [Groups -> Sizes] /\ Sizes \subseteq Size \ {Off}
  BY SwitchConstants DEF Init
<1>2. size \in [Groups -> Size \ {Off}] /\ size \in [Groups -> Size]
  BY <1>1
<1>3. run \in Run /\ run.pc = "idle"
  BY <1>2 DEF Init, Run
<1>4. Types
  <2>1. used \in [runs : 0 .. MaxRuns, writes : 0 .. MaxWrites, rescales : 0 .. MaxRescales]
        /\ used.writes = 0
    BY SwitchConstants DEF Init
  <2>2. secrets \in 0 .. used.writes /\ exported \in Torn .. used.writes
    BY <2>1 DEF Init, Torn, NoFile
  <2>3. tags \in [Groups -> Size \cup {NoTags}] /\ checked \in [Groups -> BOOLEAN]
        /\ last \in [Groups -> Size \ {Off}]
    BY <1>2 DEF Init
  <2> QED BY <1>2, <1>3, <2>1, <2>2, <2>3 DEF Types
<1>5. TagsRemember
  BY <1>2 DEF TagsRemember, IsOn
<1>6. Knows
  BY <1>3 DEF Knows, KnowsSizes, HasSaved, WillBeOn, VaultFirst, Started, Stopped,
              OffRun, OnRun
<1> QED BY <1>4, <1>5, <1>6 DEF IInv

\* Every step keeps it: of a run of "off" or "on", its failures, and the bosslet in use.
THEOREM IInvIsInductive == IInv /\ [Next]_vars => IInv'
<1> SUFFICES ASSUME IInv, [Next]_vars PROVE IInv'
  OBVIOUS
<1>1. CASE SwitchOff
  <2>1. Begin("saving")
    BY <1>1 DEF SwitchOff
  <2> QED BY <2>1, BeginKeeps
<1>2. CASE SwitchOn
  <2>1. Begin("loading") /\ exported # NoFile
    BY <1>2 DEF SwitchOn
  <2> QED BY <2>1, BeginKeeps
<1>3. CASE Interrupt
  BY <1>3, AbortKeeps DEF Interrupt, IInv, Types
<1>4. CASE \E g \in Groups : Step(g)
  BY <1>4, SaveTagsKeeps, LoadTagsKeeps, SkipKeeps, StartKeeps, StopKeeps DEF Step
<1>5. CASE UNCHANGED vars
  <2>1. UNCHANGED <<size, checked, tags, secrets, exported, run, used, last>>
    BY <1>5 DEF vars
  <2>2. Types' /\ TagsRemember'
    BY <2>1 DEF IInv, Types, TagsRemember, IsOn
  <2>3. Knows'
    BY <2>1 DEF IInv, Knows, KnowsSizes, HasSaved, WillBeOn, VaultFirst, Started, Stopped,
                IsOn, Handled
  <2> QED BY <2>2, <2>3 DEF IInv
<1> QED BY <1>1, <1>2, <1>3, <1>4, <1>5, TagsDoneKeeps, ImportKeeps, ExportKeeps,
           DoneKeeps, UseKeeps DEF Next

\* Hence it holds of every behaviour.
THEOREM InvariantHolds == Spec => []IInv
BY IInvHoldsAtFirst, IInvIsInductive, PTL DEF Spec

\* The types: Vault and the file never hold what has not been written.
THEOREM TypeCorrect == Spec => []TypeOK
<1>1. IInv => TypeOK
  <2> SUFFICES ASSUME Types PROVE TypeOK
    BY DEF IInv
  <2>1. secrets \in 0 .. MaxWrites
    BY SwitchConstants DEF Types
  <2> QED BY <2>1 DEF Types, TypeOK
<1> QED BY <1>1, InvariantHolds, PTL

\* A group that is off has the tags of the size it last had, whatever failed or died
\* on the way, and however often "off" is repeated.
THEOREM NoSizeIsForgotten == Spec => []TagsRemember
<1>1. IInv => TagsRemember
  BY DEF IInv
<1> QED BY <1>1, InvariantHolds, PTL

\* No other group is started before the secrets are back in Vault.
THEOREM NothingStartsWithoutSecrets == Spec => OthersWaitForVault
<1>1. ASSUME IInv, NEW g \in Groups \ {Vault}, At(g, "starting")
      PROVE  run.imported
  BY <1>1, Orders DEF IInv, Knows, VaultFirst, At
<1>2. IInv /\ [Next]_vars =>
        [\A g \in Groups \ {Vault} :
           (At(g, "starting") /\ size'[g] # size[g] /\ run' # run) => run.imported]_vars
  BY <1>1
<1> QED BY <1>2, InvariantHolds, PTL DEF Spec, OthersWaitForVault

\* A run that ends without a warning has switched every group it should have, with its
\* health check; and "off" has the content of Vault in the file.
THEOREM ReportsAreTrue == Spec => ReportIsTrue
<1>1. ASSUME IInv, Done, ~ run.problem, NEW g \in Groups \ Unswitched
      PROVE  IF run.pc = "starting" THEN IsOn(g) /\ checked[g]
                                    ELSE ~ IsOn(g) /\ ~ checked[g] /\ exported >= 0
  <2>1. run.pc \in {"starting", "stopping"} /\ \A h : Handled(h)
    BY <1>1 DEF Done, Handled, ToSet
  <2> QED BY <1>1, <2>1 DEF IInv, Knows, Started, Stopped
<1>2. IInv /\ [Next]_vars =>
        [(Done /\ ~ run.problem) =>
           \A g \in Groups \ Unswitched :
             IF run.pc = "starting" THEN IsOn(g) /\ checked[g]
                                    ELSE ~ IsOn(g) /\ ~ checked[g] /\ exported >= 0]_vars
  BY <1>1
<1> QED BY <1>2, InvariantHolds, PTL DEF Spec, ReportIsTrue

================================================================================
