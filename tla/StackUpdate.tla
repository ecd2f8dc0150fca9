------------------------------ MODULE StackUpdate ------------------------------
(***************************************************************************)
(* Updating one stack to a newer template: update of lib/cloudformation.py *)
(* with the MigrationManager of lib/migrations.py, and update_migrate of   *)
(* bin/cloudformation.py, which takes up the post_update migrations of an  *)
(* update that did not get through them.  The two meet in the file         *)
(* "progress", which holds the version up to which migrations have run,    *)
(* and in the StackVersion tag of the stack.  A run may end at any point,  *)
(* by an exception or because its process dies.                            *)
(***************************************************************************)
EXTENDS StackStatus, Integers, SequencesExt

CONSTANTS Files,      \* the migrations of the configuration
          Commits,    \* the checkouts an operator may deploy
          VersionOf,  \* the version of the configuration in a checkout
          Orderly,    \* update-migrate is run before the next update, as
                      \* migrations/README.md asks
          Patient,    \* update-migrate is run only on a stack at rest
          MayFail,    \* migrations may raise and processes may die
          MaxRuns     \* bound: commands given in all

\* AAAABBBB_short_name.py: what it migrates from and to, and the functions it
\* defines.
Migration == [start : Nat, stop : Nat, pre : BOOLEAN, post : BOOLEAN]

ASSUME UpdateConstants ==
    /\ Files \subseteq Migration
    /\ \A f \in Files : f.start < f.stop
    /\ VersionOf \in [Commits -> Nat]
    /\ Orderly \in BOOLEAN /\ Patient \in BOOLEAN /\ MayFail \in BOOLEAN
    /\ MaxRuns \in Nat

VARIABLES status,    \* StackStatus of the stack
          deployed,  \* what it runs: version (the tag) and commit
          target,    \* what CloudFormation is changing it to, and the plan of
                     \* the update that asked for it
          leftover,  \* commits with a change set of a former update still there
          progress,  \* the file "progress"
          run,       \* the process of the operator
          due,       \* post_update migrations of the updates that took effect
          applied,   \* post_update migrations that have run to their end
          started    \* commands given so far

vars == <<status, deployed, target, leftover, progress, run, due, applied, started>>

NoFile == -1

Template == [version : Nat, commit : Commits]

Run == [pc : {"idle", "loading", "preview", "pre", "polling", "cleanup", "post",
              "callback"},
        command : {"update", "update-migrate"},
        commit : Commits,
        preview : BOOLEAN,
        cur : Nat, new : Nat,    \* MigrationManager.cur_ver and new_ver
        at : Nat,                \* cur of load_migrations
        plan : Seq(Files),       \* MigrationManager.migrations
        i : Nat \ {0}]           \* the loop of pre_update or post_update

Init ==
    /\ status = "CREATE_COMPLETE"
    /\ deployed \in {[version |-> VersionOf[c], commit |-> c] : c \in Commits}
    /\ target = [template |-> deployed, plan |-> <<>>]
    /\ leftover = {}
    /\ progress = NoFile
    /\ run = [pc |-> "idle", command |-> "update", commit |-> deployed.commit,
              preview |-> TRUE, cur |-> 0, new |-> 0, at |-> 0, plan |-> <<>>,
              i |-> 1]
    /\ due = {}
    /\ applied = {}
    /\ started = 0

GoTo(pc) == run' = [run EXCEPT !.pc = pc]

NextFile == run' = [run EXCEPT !.i = run.i + 1]

Migrate == run.plan[run.i]

stack == <<status, deployed, target>>
history == <<due, applied>>

--------------------------------------------------------------------------------
\* build_dependency_graph lets the command through, then MigrationManager is
\* built for the version of the stack and the version of the checkout.
Update ==
    /\ run.pc = "idle" /\ started < MaxRuns
    /\ Orderly => progress = NoFile
    /\ status \in Settled
    /\ \E c \in Commits, preview \in BOOLEAN :
          run' = [pc |-> "loading", command |-> "update", commit |-> c,
                  preview |-> preview, cur |-> deployed.version,
                  new |-> VersionOf[c], at |-> deployed.version,
                  plan |-> <<>>, i |-> 1]
    /\ started' = started + 1
    /\ UNCHANGED <<stack, leftover, progress, history>>

\* update_migrate: from the version in the file to the version of the stack.
UpdateMigrate ==
    /\ run.pc = "idle" /\ started < MaxRuns
    /\ Patient => status \in Settled
    /\ progress # NoFile
    /\ run' = [run EXCEPT !.pc = "loading", !.command = "update-migrate",
                          !.cur = progress, !.new = deployed.version,
                          !.at = progress, !.plan = <<>>, !.i = 1]
    /\ started' = started + 1
    /\ UNCHANGED <<stack, leftover, progress, history>>

--------------------------------------------------------------------------------
FollowPrepends ==
    /\ run.pc = "loading" /\ run.at < run.new
    /\ \E f \in Files :
          /\ f.start = run.at /\ f.stop <= run.new
          /\ run' = [run EXCEPT !.plan = <<f>> \o run.plan, !.at = f.stop]
    /\ UNCHANGED <<stack, leftover, progress, history, started>>

\* load_migrations: the file that starts where the last one stopped, any of them
\* when there are several (the order of glob decides).
Follow ==
    /\ run.pc = "loading" /\ run.at < run.new
    /\ \E f \in Files :
          /\ f.start = run.at /\ f.stop <= run.new
          /\ run' = [run EXCEPT !.plan = Append(run.plan, f), !.at = f.stop]
    /\ UNCHANGED <<stack, leftover, progress, history, started>>

DeadEnd ==
    \/ run.at > run.new
    \/ /\ run.at < run.new
       /\ \A f \in Files : f.start = run.at => f.stop > run.new

NoPath ==
    /\ run.pc = "loading" /\ DeadEnd
    /\ GoTo("idle")
    /\ UNCHANGED <<stack, leftover, progress, history, started>>

HasPath(command) ==
    run.pc = "loading" /\ run.at = run.new /\ run.command = command

PathForUpdateRecordsNew ==
    /\ HasPath("update")
    /\ progress' = run.new
    /\ GoTo("preview")
    /\ UNCHANGED <<stack, leftover, history, started>>

\* "Save the migration progress in case there is an exception in one".
PathForUpdate ==
    /\ HasPath("update")
    /\ progress' = run.cur
    /\ GoTo("preview")
    /\ UNCHANGED <<stack, leftover, history, started>>

PathForMigrate ==
    /\ HasPath("update-migrate")
    /\ IF run.plan = <<>> THEN progress' = NoFile /\ GoTo("idle")
                          ELSE UNCHANGED progress /\ GoTo("post")
    /\ UNCHANGED <<stack, leftover, history, started>>

--------------------------------------------------------------------------------
\* The template and the tags are those of the stack.
Unchanged == run.commit = deployed.commit

\* create_change_set, the wait for it and the question to the operator.  An
\* update without changes returns and leaves its change set; a change set that
\* was left makes create_change_set raise.
Preview ==
    /\ run.pc = "preview"
    /\ \/ /\ ~ run.preview
          /\ GoTo("pre") /\ UNCHANGED leftover
       \/ /\ run.preview /\ run.commit \notin leftover
          /\ GoTo("pre") /\ UNCHANGED leftover
       \/ /\ run.preview /\ run.commit \notin leftover /\ Unchanged
          /\ GoTo("idle") /\ leftover' = leftover \cup {run.commit}
       \/ /\ run.preview
          /\ GoTo("idle") /\ UNCHANGED leftover
    /\ UNCHANGED <<stack, progress, history, started>>

\* pre_update runs to its end; that of a file without one is skipped.
PreUpdate ==
    /\ run.pc = "pre" /\ run.i <= Len(run.plan)
    /\ NextFile
    /\ UNCHANGED <<stack, leftover, progress, history, started>>

\* execute_change_set or update_stack: CloudFormation starts to change the stack.
Execute ==
    /\ run.pc = "pre" /\ run.i > Len(run.plan)
    /\ status \in Updatable
    /\ status' = "UPDATE_IN_PROGRESS"
    /\ target' = [template |-> [version |-> run.new, commit |-> run.commit],
                  plan |-> run.plan]
    /\ run' = [run EXCEPT !.pc = "polling", !.i = 1]
    /\ UNCHANGED <<deployed, leftover, progress, history, started>>

PollUntilComplete ==
    /\ run.pc = "polling" /\ status = "UPDATE_COMPLETE"
    /\ GoTo("post")
    /\ UNCHANGED <<stack, leftover, progress, history, started>>

PollLenient ==
    /\ run.pc = "polling" /\ status # "UPDATE_IN_PROGRESS"
    /\ GoTo("post")
    /\ UNCHANGED <<stack, leftover, progress, history, started>>

Poll ==
    /\ run.pc = "polling" /\ status # "UPDATE_IN_PROGRESS"
    /\ CASE status = "UPDATE_COMPLETE" -> GoTo("post")
         [] status = "UPDATE_COMPLETE_CLEANUP_IN_PROGRESS" -> GoTo("cleanup")
         [] OTHER -> GoTo("idle")
    /\ UNCHANGED <<stack, leftover, progress, history, started>>

PollCleanup ==
    /\ run.pc = "cleanup" /\ status # "UPDATE_COMPLETE_CLEANUP_IN_PROGRESS"
    /\ GoTo("post")
    /\ UNCHANGED <<stack, leftover, progress, history, started>>

--------------------------------------------------------------------------------
SkipPostUpdate ==
    /\ run.pc = "post" /\ run.i <= Len(run.plan) /\ ~ Migrate.post
    /\ NextFile
    /\ UNCHANGED <<stack, leftover, progress, history, started>>

PostUpdate ==
    /\ run.pc = "post" /\ run.i <= Len(run.plan) /\ Migrate.post
    /\ applied' = applied \cup {Migrate}
    /\ GoTo("callback")
    /\ UNCHANGED <<stack, leftover, progress, due, started>>

\* update_stack_version of update() is a nested function that takes "self" as
\* well, and is called with the migration alone: TypeError.
UpdateCallback ==
    /\ run.pc = "callback" /\ run.command = "update"
    /\ GoTo("idle")
    /\ UNCHANGED <<stack, leftover, progress, history, started>>

CallbackAhead ==
    /\ run.pc = "callback" /\ run.command = "update-migrate"
    /\ progress' = run.new
    /\ run' = [run EXCEPT !.pc = "post", !.i = run.i + 1]
    /\ UNCHANGED <<stack, leftover, history, started>>

\* The callback of update_migrate: what is behind is recorded.
MigrateCallback ==
    /\ run.pc = "callback" /\ run.command = "update-migrate"
    /\ progress' = Migrate.stop
    /\ run' = [run EXCEPT !.pc = "post", !.i = run.i + 1]
    /\ UNCHANGED <<stack, leftover, history, started>>

Finish ==
    /\ run.pc = "post" /\ run.i > Len(run.plan)
    /\ progress' = NoFile
    /\ GoTo("idle")
    /\ UNCHANGED <<stack, leftover, history, started>>

\* A migration raises, a call to AWS fails, or the process dies.  The change set
\* is deleted, if the process lives that long.
Interrupt ==
    /\ MayFail /\ run.pc # "idle"
    /\ GoTo("idle")
    /\ leftover' \in IF run.pc \in {"preview", "pre"} /\ run.preview
                     THEN {leftover, leftover \cup {run.commit}} ELSE {leftover}
    /\ UNCHANGED <<stack, progress, history, started>>

--------------------------------------------------------------------------------
\* CloudFormation shows the new tag when the new resources are in place.
CloudFormation ==
    /\ \E s \in Outcomes(status) :
          /\ status' = s
          /\ IF s = "UPDATE_COMPLETE_CLEANUP_IN_PROGRESS"
             THEN /\ deployed' = target.template
                  /\ due' = due \cup {f \in ToSet(target.plan) : f.post}
             ELSE UNCHANGED <<deployed, due>>
    /\ UNCHANGED <<target, leftover, progress, run, applied, started>>

Load == Follow \/ NoPath \/ PathForUpdate \/ PathForMigrate

Change == Preview \/ PreUpdate \/ Execute \/ Poll \/ PollCleanup

Post == SkipPostUpdate \/ PostUpdate \/ UpdateCallback \/ MigrateCallback \/ Finish

Next ==
    Update \/ UpdateMigrate \/ Load \/ Change \/ Post \/ Interrupt \/ CloudFormation

Fairness == WF_vars(Load \/ Change \/ Post) /\ WF_vars(CloudFormation)

Spec == Init /\ [][Next]_vars /\ Fairness

--------------------------------------------------------------------------------
\* Besides the types: the loops stay inside the plan, and the stack and the file
\* never name a version that no checkout or migration has.
TypeOK ==
    /\ status \in Status
    /\ deployed \in Template
    /\ target \in [template : Template, plan : Seq(Files)]
    /\ leftover \subseteq Commits
    /\ progress \in Nat \cup {NoFile}
    /\ run \in Run
    /\ run.i <= Len(run.plan) + 1
    /\ run.pc = "callback" => run.i <= Len(run.plan)
    /\ due \subseteq Files /\ applied \subseteq Files
    /\ started \in 0 .. MaxRuns

\* MigrationManager.migrations is a gapless path from the version it was given
\* to the one it has reached, and never passes the version it is to reach.
PlanIsAPath ==
    LET n == Len(run.plan) IN
    /\ \A k \in 1 .. n - 1 : run.plan[k].stop = run.plan[k + 1].start
    /\ \A k \in 1 .. n : run.plan[k].stop <= run.new
    /\ n > 0 => run.plan[1].start = run.cur /\ run.plan[n].stop = run.at
    /\ run.pc \notin {"idle", "loading"} => run.at = run.new

\* "the user can run update-migrate to re-run the failed post_update migration
\* and any other post_update migration(s) that still need to be applied"
\* (migrations/README.md): as long as one of an update that took effect has not
\* run, the progress file is there and reaches back to it.
NothingIsLost ==
    \A f \in due \ applied : progress # NoFile /\ progress <= f.start

\* Whatever update left in the progress file, also of an update that was rolled
\* back, update-migrate finds a path from there to the version of the stack.
MigrateFindsItsPath ==
    (run.pc = "loading" /\ run.command = "update-migrate") => ~ DeadEnd

IsPostUpdate == run.pc = "post" /\ run'.pc = "callback"

\* A post_update migration runs only after every older one that is due, also
\* when several updates and retries lie between the two.
MigrationsRunInOrder ==
    [][IsPostUpdate =>
        \A f \in due : f.stop <= Migrate.start => f \in applied]_vars

\* A post_update migration finds the stack at rest, at its version or later.
PostUpdateFindsNewStack ==
    [][IsPostUpdate =>
        status \in Settled /\ Migrate.stop <= deployed.version]_vars

\* Every command ends, whether the update completes, rolls back or is refused.
EveryCommandEnds == run.pc # "idle" ~> run.pc = "idle"

\* 'The "update-migration" command will allow the user to continue executing
\* migrations from where they failed': what has run is not run again.
CompletedIsNotRepeated == [][IsPostUpdate => Migrate \notin applied]_vars

================================================================================
