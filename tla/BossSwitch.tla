------------------------------- MODULE BossSwitch -------------------------------
(***************************************************************************)
(* bin/bossSwitch.py: turning all AutoScaling groups of a bosslet off, with *)
(* their sizes kept in tags and the content of Vault in a file, and on      *)
(* again.  A run works on what it read of the groups at its start; it may   *)
(* end at any point, and may be run again, the same way or the other.       *)
(***************************************************************************)
EXTENDS Integers, SequencesExt

CONSTANTS Order,       \* the groups in the order load_sort gives them, Vault first
          Unswitched,  \* the Auth group without an external database
          Sizes,       \* sizes the groups are created with or scaled to
          MayFail,     \* calls to AWS may fail and the process may die
          MaxRuns, MaxWrites, MaxRescales    \* bounds

Groups == ToSet(Order)
Vault == Order[1]
Keys == {"min", "max", "desired"}
Size == [Keys -> Nat]
Off == [k \in Keys |-> 0]

ASSUME SwitchConstants ==
    /\ Order \in Seq(Groups) /\ Order # <<>> /\ IsInjective(Order)
    /\ Unswitched \subseteq Groups \ {Vault}
    /\ Sizes \subseteq Size \ {Off}
    /\ MayFail \in BOOLEAN
    /\ MaxRuns \in Nat /\ MaxWrites \in Nat /\ MaxRescales \in Nat

VARIABLES size,      \* the groups, as AWS keeps them
          checked,   \* the HealthCheck process of the group is not suspended
          tags,      \* boss_switch.min, .max and .desired
          secrets,   \* the version of what Vault holds
          exported,  \* the version in export.json, if it is whole
          run,       \* the process
          used,      \* runs, writes and rescales so far
          last       \* history: the size of each group when a run last read it,
                     \* unless it was off

vars == <<size, checked, tags, secrets, exported, run, used, last>>

NoTags == [k \in Keys |-> -1]
NoFile == -1
Torn == -2

Run == [pc : {"idle", "loading", "saving", "starting", "checking", "exporting",
              "stopping"},
        queue : Seq(Groups),
        found : [Groups -> Size],   \* read at the start of the run
        asg : [Groups -> Size],     \* min, max and desired of AutoScalingGroup
        imported : BOOLEAN,
        problem : BOOLEAN]

Init ==
    /\ size \in [Groups -> Sizes]
    /\ checked = [g \in Groups |-> TRUE]
    /\ tags = [g \in Groups |-> NoTags]
    /\ secrets = 0
    /\ exported \in {NoFile, 0}
    /\ run = [pc |-> "idle", queue |-> <<>>, found |-> size, asg |-> size,
              imported |-> FALSE, problem |-> FALSE]
    /\ used = [runs |-> 0, writes |-> 0, rescales |-> 0]
    /\ last = size

IsOn(g) == size[g] # Off

At(g, pc) == run.pc = pc /\ run.queue # <<>> /\ Head(run.queue) = g

Move(pc) == run' = [run EXCEPT !.pc = pc, !.queue = Tail(run.queue)]

\* An exception, or the return after a failed export or import.
Abort == run' = [run EXCEPT !.pc = "idle", !.queue = <<>>]

--------------------------------------------------------------------------------
\* load_aws reads all groups.  "on" goes no further without export.json.
Begin(pc) ==
    /\ run.pc = "idle" /\ used.runs < MaxRuns
    /\ run' = [pc |-> pc, queue |-> Order, found |-> size, asg |-> size,
               imported |-> FALSE, problem |-> FALSE]
    /\ last' = [g \in Groups |-> IF IsOn(g) THEN size[g] ELSE last[g]]
    /\ used' = [used EXCEPT !.runs = @ + 1]
    /\ UNCHANGED <<size, checked, tags, secrets, exported>>

SwitchOff == Begin("saving")

SwitchOn == exported # NoFile /\ Begin("loading")

SaveTagsAlways(g) ==
    /\ At(g, "saving")
    /\ tags' = [tags EXCEPT ![g] = run.asg[g]]
    /\ Move("saving")
    /\ UNCHANGED <<size, checked, secrets, exported, used, last>>

\* A group that is off keeps the tags it has.
SaveTags(g) ==
    /\ At(g, "saving")
    /\ tags' = IF run.asg[g] = Off THEN tags ELSE [tags EXCEPT ![g] = run.asg[g]]
    /\ Move("saving")
    /\ UNCHANGED <<size, checked, secrets, exported, used, last>>

\* A saved zero becomes 1.  The operator is asked before a positive value is
\* changed and may keep it, key by key.  values[key] without tags raises KeyError,
\* which load_tags does not catch.
LoadTags(g) ==
    /\ At(g, "loading")
    /\ IF tags[g] = NoTags
       THEN Abort
       ELSE LET value(k) == IF tags[g][k] = 0 THEN 1 ELSE tags[g][k]
                current(k) == run.asg[g][k]
            IN \E keep \in SUBSET {k \in Keys : current(k) > 0 /\ current(k) # value(k)} :
                  run' = [run EXCEPT !.queue = Tail(run.queue),
                             !.asg[g] = [k \in Keys |-> IF k \in keep THEN current(k)
                                                                      ELSE value(k)]]
    /\ UNCHANGED <<size, checked, tags, secrets, exported, used, last>>

\* All tags are there: on goes from Vault to the others, off the other way round.
TagsDone ==
    /\ run.pc \in {"saving", "loading"} /\ run.queue = <<>>
    /\ run' = IF run.pc = "saving"
              THEN [run EXCEPT !.pc = "stopping", !.queue = Reverse(Order)]
              ELSE [run EXCEPT !.pc = "starting", !.queue = Order]
    /\ UNCHANGED <<size, checked, tags, secrets, exported, used, last>>

--------------------------------------------------------------------------------
Skip(g) ==
    /\ run.pc \in {"starting", "stopping"} /\ At(g, run.pc)
    /\ g \in Unswitched
    /\ Move(run.pc)
    /\ UNCHANGED <<size, checked, tags, secrets, exported, used, last>>

ResizeSilently(g, new, active, then) ==
    /\ size' \in {size, [size EXCEPT ![g] = new]}
    /\ checked' \in {checked, [checked EXCEPT ![g] = active]}
    /\ run' = [then EXCEPT !.problem = run.problem]
    /\ UNCHANGED <<tags, secrets, exported, used, last>>

\* update_auto_scaling_group, then resume_processes or suspend_processes.  Either
\* may fail; the run goes on with the next step all the same.
Resize(g, new, active, then) ==
    /\ \/ /\ size' = [size EXCEPT ![g] = new]
          /\ checked' = [checked EXCEPT ![g] = active]
          /\ run' = [then EXCEPT !.problem = run.problem]
       \/ /\ MayFail
          /\ size' \in {size, [size EXCEPT ![g] = new]}
          /\ UNCHANGED checked
          /\ run' = [then EXCEPT !.problem = TRUE]
    /\ UNCHANGED <<tags, secrets, exported, used, last>>

\* AWS refuses a size that is not one.
Valid(s) == s["min"] <= s["desired"] /\ s["desired"] <= s["max"]

Start(g) ==
    /\ At(g, "starting") /\ g \notin Unswitched
    /\ LET then == IF g = Vault THEN [run EXCEPT !.pc = "checking"]
                                ELSE [run EXCEPT !.queue = Tail(run.queue)]
       IN  IF Valid(run.asg[g])
           THEN Resize(g, run.asg[g], TRUE, then)
           ELSE /\ run' = [then EXCEPT !.problem = TRUE]
                /\ UNCHANGED <<size, checked, tags, secrets, exported, used, last>>

ImportOptional ==
    /\ run.pc = "checking"
    /\ secrets' = IF IsOn(Vault) /\ exported # Torn THEN exported ELSE secrets
    /\ run' = [run EXCEPT !.pc = "starting", !.queue = Tail(run.queue),
                          !.imported = IsOn(Vault)]
    /\ UNCHANGED <<size, checked, tags, exported, used, last>>

\* check_vault and vault.import_: every path of the file is written again.
\* Without Vault, with half a file and when the import fails, nothing else is
\* started.
Import ==
    /\ run.pc = "checking"
    /\ IF IsOn(Vault) /\ exported # Torn
       THEN /\ secrets' = exported
            /\ run' = [run EXCEPT !.pc = "starting", !.queue = Tail(run.queue),
                                  !.imported = TRUE]
       ELSE Abort /\ UNCHANGED secrets
    /\ UNCHANGED <<size, checked, tags, exported, used, last>>

\* Vault is stopped only with its content in the file.  A failed export ends the
\* run; the file of the last one is left alone until open(filename, 'w') empties it.
Export ==
    /\ At(Vault, "stopping")
    /\ \/ IsOn(Vault) /\ exported' = secrets /\ run' = [run EXCEPT !.pc = "exporting"]
       \/ IsOn(Vault) /\ MayFail /\ exported' = Torn /\ Abort
       \/ ~ IsOn(Vault) /\ Abort /\ UNCHANGED exported
    /\ UNCHANGED <<size, checked, tags, secrets, used, last>>

Stop(g) ==
    /\ At(g, IF g = Vault THEN "exporting" ELSE "stopping") /\ g \notin Unswitched
    /\ Resize(g, Off, FALSE,
              [run EXCEPT !.pc = "stopping", !.queue = Tail(run.queue)])

Done ==
    /\ run.pc \in {"starting", "stopping"} /\ run.queue = <<>>
    /\ run' = [run EXCEPT !.pc = "idle"]
    /\ UNCHANGED <<size, checked, tags, secrets, exported, used, last>>

\* A call to AWS or to Vault fails, or the process dies.
Interrupt ==
    /\ MayFail /\ run.pc # "idle"
    /\ Abort
    /\ UNCHANGED <<size, checked, tags, secrets, exported, used, last>>

--------------------------------------------------------------------------------
\* The bosslet in use: Vault is written to, and groups are scaled.
Write ==
    /\ IsOn(Vault) /\ used.writes < MaxWrites
    /\ secrets' = used.writes + 1
    /\ used' = [used EXCEPT !.writes = @ + 1]
    /\ UNCHANGED <<size, checked, tags, exported, run, last>>

Rescale(g) ==
    /\ IsOn(g) /\ used.rescales < MaxRescales
    /\ \E s \in Sizes \ {size[g]} : size' = [size EXCEPT ![g] = s]
    /\ used' = [used EXCEPT !.rescales = @ + 1]
    /\ UNCHANGED <<checked, tags, secrets, exported, run, last>>

Step(g) == SaveTags(g) \/ LoadTags(g) \/ Skip(g) \/ Start(g) \/ Stop(g)

Next ==
    \/ SwitchOff \/ SwitchOn \/ TagsDone \/ Import \/ Export \/ Done \/ Interrupt
    \/ Write
    \/ \E g \in Groups : Step(g) \/ Rescale(g)

Spec == Init /\ [][Next]_vars

--------------------------------------------------------------------------------
\* Besides the types: Vault and the file hold contents that have been written.
TypeOK ==
    /\ size \in [Groups -> Size]
    /\ checked \in [Groups -> BOOLEAN]
    /\ tags \in [Groups -> Size \cup {NoTags}]
    /\ secrets \in 0 .. MaxWrites
    /\ exported \in Torn .. used.writes
    /\ run \in Run
    /\ used \in [runs : 0 .. MaxRuns, writes : 0 .. MaxWrites, rescales : 0 .. MaxRescales]
    /\ last \in [Groups -> Size \ {Off}]

\* However often and in whatever order the runs failed, died and were repeated: a
\* group that is off has its tags, with the size it had when the run that turned
\* it off looked at it, and never the 0/0/0 of a later run.  The comment at the end of
\* stopInstances (bossSwitch.py:371) says that a second "off" saves 0/0/0; the early
\* return of save_tags keeps it from that.
TagsRemember == \A g \in Groups : ~ IsOn(g) => tags[g] = last[g]

\* A run of "on" starts no other group before it has put the secrets back.
OthersWaitForVault ==
    [][\A g \in Groups \ {Vault} :
        (At(g, "starting") /\ size'[g] # size[g] /\ run' # run) => run.imported]_vars

\* "Bosslet is on", "TheBoss is off": without a warning every group that is
\* switched has been, with its health check, and Vault is in the file.
ReportIsTrue ==
    [][(Done /\ ~ run.problem) =>
        \A g \in Groups \ Unswitched :
            IF run.pc = "starting" THEN IsOn(g) /\ checked[g]
                                   ELSE ~ IsOn(g) /\ ~ checked[g] /\ exported >= 0]_vars

\* "only work with the machines that didn't get turned on": a run of "on" that
\* finds Vault on already leaves what was written to it since.
RunningVaultIsKept ==
    [][(run.pc = "checking" /\ run'.imported /\ run.found[Vault] # Off)
        => secrets' >= secrets]_vars

================================================================================
