---------------------------- MODULE StackUpdateProofs ----------------------------
(***************************************************************************)
(* For any migrations, any checkouts and any number of commands, with       *)
(* migrations that raise and processes that die anywhere: what a run plans  *)
(* is a path; if update-migrate waits for the stack, a post_update finds    *)
(* the stack it was written for; and if it is run before the next update,   *)
(* and no two files start at a version, no post_update is forgotten, none   *)
(* overtakes another, and update-migrate is never without a path.           *)
(***************************************************************************)
EXTENDS StackUpdate, TLAPS

\* load_migrations keeps one file for each start version, the last that glob names.
NoForks == \A f, g \in Files : f.start = g.start => f = g

--------------------------------------------------------------------------------
(***************************************************************************)
(* Paths of migrations, as sets                                             *)
(***************************************************************************)
\* From p or from a migration of S one comes to v or to a migration of S.
Leads(S, p, v) == p = v \/ \E f \in S : f.start = p

\* S is a path from p to v.
Path(S, p, v) ==
    /\ Leads(S, p, v)
    /\ \A f \in S : f.start >= p /\ f.stop <= v /\ Leads(S, f.stop, v)
    /\ \A f, g \in S : f.start < g.start => f.stop <= g.start

\* The migrations of D lie on a path from p to v.
Ahead(D, p, v) == \E S \in SUBSET Files : D \subseteq S /\ Path(S, p, v)

--------------------------------------------------------------------------------
(***************************************************************************)
(* The invariant                                                            *)
(***************************************************************************)
\* The plan of a run is in order and a path from where it started to where it is.
Sorted(q) == \A k, n \in 1 .. Len(q) : k < n => q[k].stop <= q[n].start

Planned ==
    /\ PlanIsAPath
    /\ run.plan = <<>> => run.at = run.cur
    /\ Sorted(run.plan) /\ Path(ToSet(run.plan), run.cur, run.at)

\* Only update changes a stack, and it polls one that changes to its version.
Executed ==
    /\ run.pc \in {"preview", "pre"} => run.command = "update"
    /\ run.pc \in {"polling", "cleanup"} =>
        /\ run.command = "update" /\ run.i = 1
        /\ target.template.version = run.new /\ target.plan = run.plan
        /\ status \in {"UPDATE_COMPLETE_CLEANUP_IN_PROGRESS", "UPDATE_COMPLETE"} =>
              deployed.version = run.new
        /\ run.pc = "cleanup" =>
              status \in {"UPDATE_COMPLETE_CLEANUP_IN_PROGRESS", "UPDATE_COMPLETE"}

Migrating == run.pc = "loading" /\ run.command = "update-migrate"
Posting == run.pc \in {"post", "callback"}

\* Post-update migrations are planned for, and run on, a stack at rest.
AtRest ==
    Migrating \/ Posting => status \in Settled /\ run.new = deployed.version

\* The post_update functions still to be run.
Left == due \ applied

\* The record in the file "progress": without one nothing is left, and with one what
\* is left lies ahead of it.
Recorded ==
    /\ \A f \in due : f.post
    /\ progress = NoFile => Left = {}
    /\ progress # NoFile => Ahead(Left, progress, deployed.version)

\* What an update will add when it takes effect lies ahead of the record, too.
Underway ==
    status = "UPDATE_IN_PROGRESS" =>
        /\ progress = deployed.version /\ Left = {}
        /\ Path(ToSet(target.plan), progress, target.template.version)

\* An update starts with nothing left, and records where it starts.
Starting ==
    (run.command = "update" /\ run.pc \in {"loading", "preview", "pre"}) =>
        /\ Left = {} /\ run.cur = deployed.version /\ status \in Settled
        /\ run.pc = "loading" => progress = NoFile
        /\ run.pc # "loading" => progress = run.cur

\* What is left is in the plan of the update that took effect.
Effective ==
    (run.pc \in {"polling", "cleanup"}
       /\ status \in {"UPDATE_COMPLETE_CLEANUP_IN_PROGRESS", "UPDATE_COMPLETE"}) =>
        progress # NoFile /\ Left \subseteq ToSet(run.plan)

\* update-migrate plans all that is left.
Following ==
    Migrating =>
        /\ progress # NoFile /\ run.i = 1
        /\ Ahead(Left \ ToSet(run.plan), run.at, run.new)

\* The loop has run all of the plan up to where it is.
Behind(k) == k < run.i \/ (k = run.i /\ run.pc = "callback")
Catching ==
    Posting =>
        /\ progress # NoFile
        /\ Left \subseteq ToSet(run.plan)
        /\ \A k \in 1 .. Len(run.plan) :
              (Behind(k) /\ run.plan[k].post) => run.plan[k] \in applied

--------------------------------------------------------------------------------
(***************************************************************************)
(* Facts about paths                                                        *)
(***************************************************************************)
\* A migration leads to a later version.
LEMMA FileFacts ==
    ASSUME NEW f \in Files
    PROVE  f.start \in Nat /\ f.stop \in Nat /\ f.start < f.stop /\ f.post \in BOOLEAN
BY UpdateConstants DEF Migration

\* Nothing is a path to where one is.
LEMMA EmptyPath == ASSUME NEW p PROVE Path({}, p, p)
BY DEF Path, Leads

\* A path ends no earlier than it starts.
LEMMA PathForward ==
    ASSUME NEW S \in SUBSET Files, NEW p \in Int, NEW v \in Int, Path(S, p, v)
    PROVE  p <= v
BY FileFacts DEF Path, Leads

\* A path is continued by a migration from its end.
LEMMA PathGrows ==
    ASSUME NEW S \in SUBSET Files, NEW p \in Int, NEW f \in Files, Path(S, p, f.start)
    PROVE  Path(S \cup {f}, p, f.stop)
<1> DEFINE T == S \cup {f}
<1>1. \A g \in T : g.start \in Nat /\ g.stop \in Nat /\ g.start < g.stop
  BY FileFacts
<1>2. p <= f.start
  BY <1>1, PathForward
<1>3. \A g \in S : g.start >= p /\ g.stop <= f.start /\ Leads(S, g.stop, f.start)
  BY DEF Path
<1>4. Leads(T, p, f.stop) /\ \A g \in S : Leads(T, g.stop, f.stop)
  BY <1>3 DEF Path, Leads
<1>5. \A g \in T : g.start >= p /\ g.stop <= f.stop /\ Leads(T, g.stop, f.stop)
  BY <1>1, <1>2, <1>3, <1>4 DEF Leads
<1>6. \A g, h \in T : g.start < h.start => g.stop <= h.start
  BY <1>1, <1>3 DEF Path
<1> QED BY <1>4, <1>5, <1>6 DEF Path

\* What follows a migration of a path is a path from its end.
LEMMA PathRest ==
    ASSUME NEW S \in SUBSET Files, NEW p \in Int, NEW v \in Int, Path(S, p, v),
           NEW f \in S
    PROVE  Path({g \in S : g.start >= f.stop}, f.stop, v)
<1> DEFINE T == {g \in S : g.start >= f.stop}
<1>1. \A g \in S : g.start \in Nat /\ g.stop \in Nat /\ g.start < g.stop
  BY FileFacts
<1>2. Leads(T, f.stop, v)
  BY <1>1 DEF Path, Leads
<1>3. \A g \in T : g.start >= f.stop /\ g.stop <= v /\ Leads(T, g.stop, v)
  BY <1>1 DEF Path, Leads
<1> QED BY <1>2, <1>3 DEF Path

\* Where no two migrations start at a version, the one that starts where a path does
\* is its first, and the others are a path from there.
LEMMA PathTail ==
    ASSUME NoForks, NEW S \in SUBSET Files, NEW v \in Int, NEW f \in Files,
           Path(S, f.start, v), f.start # v
    PROVE  Path(S \ {f}, f.stop, v)
<1> DEFINE T == S \ {f}
<1>1. \A g \in S : g.start \in Nat /\ g.stop \in Nat /\ g.start < g.stop
  BY FileFacts
<1>2. f \in S
  BY DEF Path, Leads, NoForks
<1>3. \A g \in T : g.start >= f.stop
  BY <1>1, <1>2 DEF Path, NoForks
<1>4. Leads(T, f.stop, v)
  BY <1>1, <1>2 DEF Path, Leads
<1>5. \A g \in T : g.stop <= v /\ Leads(T, g.stop, v)
  BY <1>1, <1>2, <1>3 DEF Path, Leads
<1> QED BY <1>3, <1>4, <1>5 DEF Path

\* Less is ahead if more is.
LEMMA AheadOfLess ==
    ASSUME NEW D, NEW E \in SUBSET D, NEW p, NEW v, Ahead(D, p, v)
    PROVE  Ahead(E, p, v)
BY DEF Ahead

\* What lies ahead of a version lies on no side of it but that one.
LEMMA AheadIsAfter ==
    ASSUME NEW D, NEW p \in Int, NEW v \in Int, Ahead(D, p, v)
    PROVE  p <= v /\ \A f \in D : f \in Files /\ p <= f.start
<1>1. PICK S \in SUBSET Files : D \subseteq S /\ Path(S, p, v)
  BY DEF Ahead
<1>2. p <= v
  BY <1>1, PathForward
<1>3. \A f \in S : f.start >= p /\ f.start \in Nat
  BY <1>1, FileFacts DEF Path
<1> QED BY <1>1, <1>2, <1>3

--------------------------------------------------------------------------------
(***************************************************************************)
(* Plans, and what the actions make of a run                                *)
(***************************************************************************)
\* A plan with one file more.
LEMMA Appended ==
    ASSUME NEW q \in Seq(Files), NEW f \in Files
    PROVE  /\ Append(q, f) \in Seq(Files) /\ Len(Append(q, f)) = Len(q) + 1
           /\ Append(q, f)[Len(q) + 1] = f
           /\ \A k \in 1 .. Len(q) : Append(q, f)[k] = q[k]
           /\ ToSet(Append(q, f)) = ToSet(q) \cup {f}
<1>1. /\ Append(q, f) \in Seq(Files) /\ Len(Append(q, f)) = Len(q) + 1
      /\ Append(q, f)[Len(q) + 1] = f /\ Len(q) \in Nat
      /\ \A k \in 1 .. Len(q) : Append(q, f)[k] = q[k]
  OBVIOUS
<1>2. DOMAIN Append(q, f) = 1 .. Len(q) + 1 /\ DOMAIN q = 1 .. Len(q)
  BY <1>1
<1>3. ToSet(Append(q, f)) = ToSet(q) \cup {f}
  <2>1. \A x : x \in ToSet(Append(q, f)) => x \in ToSet(q) \cup {f}
    BY <1>1, <1>2 DEF ToSet
  <2>2. \A x \in ToSet(q) : x \in ToSet(Append(q, f))
    BY <1>1, <1>2 DEF ToSet
  <2>3. f \in ToSet(Append(q, f))
    BY <1>1, <1>2 DEF ToSet
  <2> QED BY <2>1, <2>2, <2>3
<1> QED BY <1>1, <1>3

\* The migrations of a plan.
LEMMA InPlan ==
    ASSUME NEW q \in Seq(Files)
    PROVE  /\ Len(q) \in Nat /\ ToSet(q) \in SUBSET Files
           /\ \A k \in 1 .. Len(q) : q[k] \in ToSet(q) /\ q[k] \in Files
           /\ \A f \in ToSet(q) : \E k \in 1 .. Len(q) : f = q[k]
<1>1. Len(q) \in Nat /\ DOMAIN q = 1 .. Len(q) /\ \A k \in 1 .. Len(q) : q[k] \in Files
  OBVIOUS
<1> QED BY <1>1 DEF ToSet

Places == {"idle", "loading", "preview", "pre", "polling", "cleanup", "post", "callback"}
Commands == {"update", "update-migrate"}

\* The fields of a run.
LEMMA Fields ==
    ASSUME NEW r \in Run
    PROVE  /\ r.pc \in Places /\ r.command \in Commands /\ r.commit \in Commits
           /\ r.cur \in Nat /\ r.new \in Nat /\ r.at \in Nat
           /\ r.plan \in Seq(Files) /\ r.i \in Nat \ {0}
BY DEF Run, Places, Commands

\* x is the run r gone on to pc and to the i-th file of its plan.
Moved(x, r, pc, i) ==
    /\ x \in Run /\ x.pc = pc /\ x.i = i
    /\ x.command = r.command /\ x.commit = r.commit
    /\ x.cur = r.cur /\ x.new = r.new /\ x.at = r.at /\ x.plan = r.plan

\* GoTo and NextFile.
LEMMA Moves ==
    ASSUME NEW r \in Run, NEW pc \in Places, NEW i \in Nat \ {0}
    PROVE  /\ Moved([r EXCEPT !.pc = pc], r, pc, r.i)
           /\ Moved([r EXCEPT !.i = i], r, r.pc, i)
           /\ Moved([r EXCEPT !.pc = pc, !.i = i], r, pc, i)
<1>1. Moved([r EXCEPT !.pc = pc], r, pc, r.i)
  BY DEF Run, Places, Moved
<1>2. Moved([r EXCEPT !.i = i], r, r.pc, i)
  BY DEF Run, Places, Moved
<1>3. Moved([r EXCEPT !.pc = pc, !.i = i], r, pc, i)
  BY DEF Run, Places, Moved
<1> QED BY <1>1, <1>2, <1>3

\* Where each action takes the run.
LEMMA Effects ==
    ASSUME run \in Run
    PROVE  /\ NoPath \/ UpdateCallback \/ Finish \/ Interrupt =>
                 Moved(run', run, "idle", run.i)
           /\ PathForUpdate => Moved(run', run, "preview", run.i)
           /\ PathForMigrate =>
                 Moved(run', run, IF run.plan = <<>> THEN "idle" ELSE "post", run.i)
           /\ Preview => \E pc \in {"idle", "pre"} : Moved(run', run, pc, run.i)
           /\ PreUpdate => Moved(run', run, "pre", run.i + 1)
           /\ Execute => Moved(run', run, "polling", 1)
           /\ Poll => Moved(run', run,
                            IF status = "UPDATE_COMPLETE" THEN "post"
                            ELSE IF status = "UPDATE_COMPLETE_CLEANUP_IN_PROGRESS"
                                 THEN "cleanup" ELSE "idle", run.i)
           /\ PollCleanup => Moved(run', run, "post", run.i)
           /\ SkipPostUpdate \/ MigrateCallback => Moved(run', run, "post", run.i + 1)
           /\ PostUpdate => Moved(run', run, "callback", run.i)
<1>1. /\ run.i \in Nat \ {0} /\ run.i + 1 \in Nat \ {0} /\ 1 \in Nat \ {0}
      /\ run.pc \in Places
  BY Fields
<1>2. \A pc \in Places : GoTo(pc) => Moved(run', run, pc, run.i)
  BY <1>1, Moves DEF GoTo
<1>3. NextFile => Moved(run', run, run.pc, run.i + 1)
  BY <1>1, Moves DEF NextFile
<1>4. NoPath \/ UpdateCallback \/ Finish \/ Interrupt => Moved(run', run, "idle", run.i)
  BY <1>2 DEF NoPath, UpdateCallback, Finish, Interrupt, Places
<1>5. PathForUpdate => Moved(run', run, "preview", run.i)
  BY <1>2 DEF PathForUpdate, Places
<1>6. PathForMigrate => Moved(run', run, IF run.plan = <<>> THEN "idle" ELSE "post", run.i)
  BY <1>2 DEF PathForMigrate, Places
<1>7. Preview => \E pc \in {"idle", "pre"} : Moved(run', run, pc, run.i)
  BY <1>2 DEF Preview, Places
<1>8. PreUpdate => Moved(run', run, "pre", run.i + 1)
  BY <1>3 DEF PreUpdate
<1>9. Execute => Moved(run', run, "polling", 1)
  BY <1>1, Moves DEF Execute, Places
<1>10. Poll => Moved(run', run,
                     IF status = "UPDATE_COMPLETE" THEN "post"
                     ELSE IF status = "UPDATE_COMPLETE_CLEANUP_IN_PROGRESS"
                          THEN "cleanup" ELSE "idle", run.i)
  BY <1>2 DEF Poll, Places
<1>11. PollCleanup => Moved(run', run, "post", run.i)
  BY <1>2 DEF PollCleanup, Places
<1>12. SkipPostUpdate => Moved(run', run, "post", run.i + 1)
  BY <1>3 DEF SkipPostUpdate
<1>13. MigrateCallback => Moved(run', run, "post", run.i + 1)
  BY <1>1, Moves DEF MigrateCallback, Places
<1>14. PostUpdate => Moved(run', run, "callback", run.i)
  BY <1>2 DEF PostUpdate, Places
<1> QED BY <1>4, <1>5, <1>6, <1>7, <1>8, <1>9, <1>10, <1>11, <1>12, <1>13, <1>14

--------------------------------------------------------------------------------
(***************************************************************************)
(* The types and the plan, with nothing assumed                             *)
(***************************************************************************)
\* Where CloudFormation may take the stack of an update.
Updating == {"CREATE_COMPLETE", "UPDATE_IN_PROGRESS", "UPDATE_COMPLETE_CLEANUP_IN_PROGRESS",
             "UPDATE_COMPLETE", "UPDATE_ROLLBACK_IN_PROGRESS", "UPDATE_ROLLBACK_COMPLETE",
             "UPDATE_ROLLBACK_FAILED"}

StackTypes ==
    /\ status \in Updating /\ deployed \in Template
    /\ target \in [template : Template, plan : Seq(Files)]

RecordTypes ==
    /\ leftover \subseteq Commits /\ progress \in Nat \cup {NoFile}
    /\ due \subseteq Files /\ applied \subseteq Files /\ started \in 0 .. MaxRuns

RunTypes ==
    /\ run \in Run /\ run.i <= Len(run.plan) + 1
    /\ run.pc = "callback" => run.i <= Len(run.plan)

PInv == StackTypes /\ RecordTypes /\ RunTypes /\ Planned

\* Where CloudFormation takes a stack that is updated.
LEMMA OutcomesOfUpdates ==
    ASSUME NEW s \in Updating, NEW r \in Outcomes(s)
    PROVE  /\ r \in Updating /\ r # "UPDATE_IN_PROGRESS" /\ s \notin Settled
           /\ r = "UPDATE_COMPLETE_CLEANUP_IN_PROGRESS" <=>
                 (r # "UPDATE_ROLLBACK_IN_PROGRESS" /\ s = "UPDATE_IN_PROGRESS")
           /\ r = "UPDATE_COMPLETE" <=> s = "UPDATE_COMPLETE_CLEANUP_IN_PROGRESS"
BY DEF Updating, Outcomes, Settled

\* The plan of a run is the same wherever it goes on to.
LEMMA MoveKeepsPlan ==
    ASSUME PInv, NEW pc, NEW i, Moved(run', run, pc, i), i <= Len(run.plan) + 1,
           pc = "callback" => i <= Len(run.plan),
           pc \notin {"idle", "loading"} => run.at = run.new
    PROVE  RunTypes' /\ Planned'
<1>1. RunTypes'
  BY DEF Moved, RunTypes
<1>2. PlanIsAPath'
  BY DEF Moved, PInv, Planned, PlanIsAPath
<1> QED BY <1>1, <1>2 DEF Moved, PInv, Planned, Sorted

\* A run that starts has an empty plan.
LEMMA StartKeepsPlan ==
    ASSUME PInv, Update \/ UpdateMigrate
    PROVE  RunTypes' /\ Planned'
<1>1. <<>> \in Seq(Files) /\ deployed.version \in Nat
  BY DEF PInv, StackTypes, Template
<1>2. /\ run' \in Run /\ run'.pc = "loading" /\ run'.i = 1 /\ run'.plan = <<>>
      /\ run'.at = run'.cur
  <2>1. CASE Update
    <3>1. PICK c \in Commits, preview \in BOOLEAN :
            run' = [pc |-> "loading", command |-> "update", commit |-> c,
                    preview |-> preview, cur |-> deployed.version,
                    new |-> VersionOf[c], at |-> deployed.version, plan |-> <<>>, i |-> 1]
      BY <2>1 DEF Update
    <3>2. VersionOf[c] \in Nat
      BY UpdateConstants
    <3> QED BY <1>1, <3>1, <3>2 DEF Run
  <2>2. CASE UpdateMigrate
    <3>1. progress \in Nat /\ run \in Run
      BY <2>2 DEF PInv, RecordTypes, RunTypes, UpdateMigrate
    <3>2. run' = [run EXCEPT !.pc = "loading", !.command = "update-migrate",
                             !.cur = progress, !.new = deployed.version,
                             !.at = progress, !.plan = <<>>, !.i = 1]
      BY <2>2 DEF UpdateMigrate
    <3>3. run' \in Run
      <4>1. 1 \in Nat \ {0}
        OBVIOUS
      <4> QED BY <1>1, <3>1, <3>2, <4>1 DEF Run
    <3>4. /\ run'.pc = "loading" /\ run'.i = 1 /\ run'.plan = <<>>
          /\ run'.at = progress /\ run'.cur = progress
      BY ONLY <3>1, <3>2 DEF Run
    <3> QED BY <3>3, <3>4
  <2> QED BY <2>1, <2>2
<1>3. Len(<<>>) = 0 /\ ToSet(<<>>) = {}
  BY DEF ToSet
<1>4. RunTypes'
  BY <1>2, <1>3 DEF RunTypes
<1>5. PlanIsAPath' /\ Sorted(run'.plan)
  BY <1>2, <1>3 DEF PlanIsAPath, Sorted
<1>6. Path(ToSet(run'.plan), run'.cur, run'.at)
  BY <1>2, <1>3, EmptyPath
<1> QED BY <1>2, <1>4, <1>5, <1>6 DEF Planned

\* A file is added to the plan.
LEMMA FollowEffect ==
    ASSUME run \in Run, Follow
    PROVE  \E f \in Files :
              /\ f.start = run.at /\ f.stop <= run.new /\ run.at < run.new
              /\ run' \in Run /\ run.pc = "loading" /\ run'.pc = "loading"
              /\ run'.plan = Append(run.plan, f) /\ run'.at = f.stop
              /\ run'.command = run.command /\ run'.cur = run.cur /\ run'.new = run.new
              /\ run'.i = run.i
              /\ UNCHANGED <<stack, leftover, progress, history, started>>
<1>1. PICK f \in Files :
        /\ f.start = run.at /\ f.stop <= run.new
        /\ run' = [run EXCEPT !.plan = Append(run.plan, f), !.at = f.stop]
  BY DEF Follow
<1>2. Append(run.plan, f) \in Seq(Files) /\ f.stop \in Nat
  BY Fields, Appended, FileFacts
<1>3. run' \in Run
  BY <1>1, <1>2 DEF Run
<1>4. /\ run'.plan = Append(run.plan, f) /\ run'.at = f.stop /\ run'.pc = run.pc
      /\ run'.command = run.command /\ run'.cur = run.cur /\ run'.new = run.new
      /\ run'.i = run.i
  BY <1>1 DEF Run
<1> QED BY <1>1, <1>3, <1>4 DEF Follow

\* The plan with it is a path again.
LEMMA FollowKeepsPlan ==
    ASSUME PInv, Follow
    PROVE  RunTypes' /\ Planned'
<1>1. PICK f \in Files :
        /\ f.start = run.at /\ f.stop <= run.new /\ run.at < run.new
        /\ run' \in Run /\ run.pc = "loading" /\ run'.pc = "loading"
        /\ run'.plan = Append(run.plan, f) /\ run'.at = f.stop
        /\ run'.cur = run.cur /\ run'.new = run.new /\ run'.i = run.i
  BY FollowEffect DEF PInv, RunTypes
<1> DEFINE q == run.plan
           n == Len(q)
           new == Append(q, f)
<1>2. /\ q \in Seq(Files) /\ n \in Nat /\ run.at \in Nat /\ run.cur \in Nat
      /\ run.new \in Nat /\ run.i \in Nat
  BY Fields, InPlan DEF PInv, RunTypes
<1>3. /\ Len(new) = n + 1 /\ new[n + 1] = f /\ \A k \in 1 .. n : new[k] = q[k]
      /\ ToSet(new) = ToSet(q) \cup {f}
  BY <1>2, Appended
<1>4. /\ \A k \in 1 .. n : q[k] \in Files /\ q[k] \in ToSet(q)
      /\ ToSet(q) \in SUBSET Files
  BY <1>2, InPlan
<1>5. /\ \A k \in 1 .. n - 1 : q[k].stop = q[k + 1].start
      /\ \A k \in 1 .. n : q[k].stop <= run.new
      /\ n > 0 => q[1].start = run.cur /\ q[n].stop = run.at
      /\ n = 0 => run.at = run.cur
      /\ Sorted(q) /\ Path(ToSet(q), run.cur, run.at)
  <2>1. n = 0 => q = <<>>
    BY <1>2
  <2> QED BY <2>1 DEF PInv, Planned, PlanIsAPath
<1>6. f.start \in Nat /\ f.stop \in Nat /\ f.start < f.stop
  BY FileFacts
<1> HIDE DEF q, n, new
<1>7. /\ \A k \in 1 .. n : new[k].stop = new[k + 1].start
      /\ \A k \in 1 .. n + 1 : new[k].stop <= run.new
      /\ new[1].start = run.cur /\ new[n + 1].stop = f.stop
  <2>1. ASSUME NEW k \in 1 .. n PROVE new[k].stop = new[k + 1].start
    <3>1. CASE k = n
      BY <1>1, <1>2, <1>3, <1>5, <3>1
    <3>2. CASE k # n
      <4>1. k \in 1 .. n - 1 /\ k + 1 \in 1 .. n
        BY <1>2, <3>2
      <4> QED BY <1>3, <1>5, <4>1
    <3> QED BY <3>1, <3>2
  <2>2. ASSUME NEW k \in 1 .. n + 1 PROVE new[k].stop <= run.new
    <3>1. k = n + 1 \/ k \in 1 .. n
      BY <1>2
    <3> QED BY <1>1, <1>3, <1>5, <3>1
  <2>3. new[1].start = run.cur
    <3>1. CASE n = 0
      BY <1>1, <1>3, <1>5, <3>1
    <3>2. CASE n # 0
      <4>1. 1 \in 1 .. n /\ n > 0
        BY <1>2, <3>2
      <4> QED BY <1>3, <1>5, <4>1
    <3> QED BY <3>1, <3>2
  <2> QED BY <1>3, <2>1, <2>2, <2>3
<1>8. Sorted(new)
  <2> SUFFICES ASSUME NEW k \in 1 .. n + 1, NEW l \in 1 .. n + 1, k < l
               PROVE  new[k].stop <= new[l].start
    BY <1>3 DEF Sorted
  <2>1. k \in 1 .. n
    BY <1>2
  <2>2. CASE l = n + 1
    <3>1. q[k].stop <= run.at
      BY <1>4, <1>5, <2>1 DEF Path
    <3> QED BY <1>1, <1>3, <2>1, <2>2, <3>1
  <2>3. CASE l \in 1 .. n
    BY <1>2, <1>3, <1>5, <2>1, <2>3 DEF Sorted, n
  <2> QED BY <1>2, <2>2, <2>3
<1>9. Path(ToSet(new), run.cur, f.stop)
  <2>1. Path(ToSet(q), run.cur, f.start) /\ run.cur \in Int
    BY <1>1, <1>2, <1>5
  <2> QED BY <1>3, <1>4, <2>1, PathGrows
<1>10. RunTypes'
  BY <1>1, <1>2, <1>3 DEF RunTypes, PInv, n, new, q
<1>11. PlanIsAPath'
  <2>1. run'.plan = new /\ Len(run'.plan) = n + 1
    BY <1>1, <1>3 DEF new, q
  <2>2. (n + 1) - 1 = n
    BY <1>2
  <2> QED BY <1>1, <1>7, <2>1, <2>2 DEF PlanIsAPath
<1>12. run'.plan # <<>>
  BY <1>1, <1>2 DEF q
<1> QED BY <1>1, <1>8, <1>9, <1>10, <1>11, <1>12 DEF Planned, new, q

\* The invariant holds at first.
LEMMA PInvAtFirst == Init => PInv
<1> SUFFICES ASSUME Init PROVE PInv
  OBVIOUS
<1>1. PICK c \in Commits : deployed = [version |-> VersionOf[c], commit |-> c]
  BY DEF Init
<1>2. <<>> \in Seq(Files) /\ Len(<<>>) = 0 /\ ToSet(<<>>) = {} /\ VersionOf[c] \in Nat
  BY UpdateConstants DEF ToSet
<1>3. deployed \in Template
  BY <1>1, <1>2 DEF Template
<1>4. StackTypes
  BY <1>2, <1>3 DEF Init, StackTypes, Updating
<1>5. RecordTypes
  BY UpdateConstants DEF Init, RecordTypes
<1>6. /\ run.pc = "idle" /\ run.plan = <<>> /\ run.cur = 0 /\ run.at = 0 /\ run.i = 1
      /\ run \in Run
  BY <1>1, <1>2 DEF Init, Run, Template
<1>7. RunTypes
  BY <1>2, <1>6 DEF RunTypes
<1>8. PlanIsAPath /\ Sorted(run.plan)
  BY <1>2, <1>6 DEF PlanIsAPath, Sorted
<1>9. Path(ToSet(run.plan), run.cur, run.at)
  BY <1>2, <1>6, EmptyPath
<1> QED BY <1>4, <1>5, <1>6, <1>7, <1>8, <1>9 DEF PInv, Planned

\* Each action keeps it.
LEMMA PInvIsInductive == PInv /\ [Next]_vars => PInv'
<1> SUFFICES ASSUME PInv, [Next]_vars PROVE PInv'
  OBVIOUS
<1>1. /\ run \in Run /\ run.pc \in Places /\ run.cur \in Nat /\ run.new \in Nat
      /\ run.at \in Nat /\ run.plan \in Seq(Files) /\ run.i \in Nat \ {0}
      /\ run.commit \in Commits /\ Len(run.plan) \in Nat
      /\ run.i <= Len(run.plan) + 1 /\ MaxRuns \in Nat
  BY Fields, UpdateConstants DEF PInv, RunTypes
<1>2. run.pc \notin {"idle", "loading"} => run.at = run.new
  BY DEF PInv, Planned, PlanIsAPath
<1>3. UNCHANGED stack => StackTypes'
  BY DEF PInv, StackTypes, stack
<1>4. UNCHANGED <<leftover, progress, history, started>> => RecordTypes'
  BY DEF PInv, RecordTypes, history
<1>5. CASE Update \/ UpdateMigrate
  <2>1. UNCHANGED <<stack, leftover, progress, history>> /\ started' = started + 1
        /\ started < MaxRuns
    BY <1>5 DEF Update, UpdateMigrate
  <2>2. RecordTypes'
    BY <1>1, <2>1 DEF PInv, RecordTypes, history
  <2> QED BY <1>3, <1>5, <2>1, <2>2, StartKeepsPlan DEF PInv
<1>6. CASE Follow
  BY <1>3, <1>4, <1>6, FollowKeepsPlan DEF Follow, PInv
<1>7. CASE NoPath \/ UpdateCallback
  <2>1. RunTypes' /\ Planned'
    BY <1>1, <1>7, Effects, MoveKeepsPlan
  <2> QED BY <1>3, <1>4, <1>7, <2>1 DEF NoPath, UpdateCallback, PInv
<1>8. CASE PathForUpdate
  <2>1. RunTypes' /\ Planned'
    BY <1>1, <1>8, Effects, MoveKeepsPlan DEF PathForUpdate, HasPath
  <2>2. RecordTypes'
    BY <1>1, <1>8 DEF PathForUpdate, PInv, RecordTypes, history
  <2> QED BY <1>3, <1>8, <2>1, <2>2 DEF PathForUpdate, PInv
<1>9. CASE PathForMigrate
  <2>1. RunTypes' /\ Planned'
    BY <1>1, <1>9, Effects, MoveKeepsPlan DEF PathForMigrate, HasPath
  <2>2. RecordTypes'
    BY <1>9 DEF PathForMigrate, PInv, RecordTypes, history, NoFile
  <2> QED BY <1>3, <1>9, <2>1, <2>2 DEF PathForMigrate, PInv
<1>10. CASE Preview
  <2>1. RunTypes' /\ Planned'
    BY <1>1, <1>2, <1>10, Effects, MoveKeepsPlan DEF Preview
  <2>2. RecordTypes'
    BY <1>1, <1>10 DEF Preview, PInv, RecordTypes, history
  <2> QED BY <1>3, <1>10, <2>1, <2>2 DEF Preview, PInv
<1>11. CASE PreUpdate
  <2>1. RunTypes' /\ Planned'
    BY <1>1, <1>2, <1>11, Effects, MoveKeepsPlan DEF PreUpdate
  <2> QED BY <1>3, <1>4, <1>11, <2>1 DEF PreUpdate, PInv
<1>12. CASE Execute
  <2>1. RunTypes' /\ Planned'
    BY <1>1, <1>2, <1>12, Effects, MoveKeepsPlan DEF Execute
  <2>2. RecordTypes'
    BY <1>12 DEF Execute, PInv, RecordTypes, history
  <2>3. StackTypes'
    BY <1>1, <1>12 DEF Execute, PInv, StackTypes, Template, Updating
  <2> QED BY <2>1, <2>2, <2>3 DEF PInv
<1>13. CASE Poll
  <2>1. RunTypes' /\ Planned'
    <3>1. run.at = run.new
      BY <1>2, <1>13 DEF Poll
    <3>2. \E pc \in {"post", "cleanup", "idle"} : Moved(run', run, pc, run.i)
      BY <1>1, <1>13, Effects
    <3> QED BY <1>1, <3>1, <3>2, MoveKeepsPlan
  <2> QED BY <1>3, <1>4, <1>13, <2>1 DEF Poll, PInv
<1>14. CASE PollCleanup
  <2>1. RunTypes' /\ Planned'
    BY <1>1, <1>2, <1>14, Effects, MoveKeepsPlan DEF PollCleanup
  <2> QED BY <1>3, <1>4, <1>14, <2>1 DEF PollCleanup, PInv
<1>15. CASE SkipPostUpdate
  <2>1. RunTypes' /\ Planned'
    BY <1>1, <1>2, <1>15, Effects, MoveKeepsPlan DEF SkipPostUpdate
  <2> QED BY <1>3, <1>4, <1>15, <2>1 DEF SkipPostUpdate, PInv
<1>16. CASE PostUpdate
  <2>1. RunTypes' /\ Planned'
    BY <1>1, <1>2, <1>16, Effects, MoveKeepsPlan DEF PostUpdate
  <2>2. Migrate \in Files
    BY <1>1, <1>16, InPlan DEF PostUpdate, Migrate
  <2>3. RecordTypes'
    BY <1>16, <2>2 DEF PostUpdate, PInv, RecordTypes
  <2> QED BY <1>3, <1>16, <2>1, <2>3 DEF PostUpdate, PInv
<1>17. CASE MigrateCallback
  <2>1. run.i \in 1 .. Len(run.plan)
    BY <1>1, <1>17 DEF MigrateCallback, PInv, RunTypes
  <2>2. RunTypes' /\ Planned'
    BY <1>1, <1>2, <1>17, <2>1, Effects, MoveKeepsPlan DEF MigrateCallback
  <2>3. Migrate.stop \in Nat
    BY <1>1, <2>1, InPlan, FileFacts DEF Migrate
  <2>4. RecordTypes'
    BY <1>17, <2>3 DEF MigrateCallback, PInv, RecordTypes, history
  <2> QED BY <1>3, <1>17, <2>2, <2>4 DEF MigrateCallback, PInv
<1>18. CASE Finish
  <2>1. RunTypes' /\ Planned'
    BY <1>1, <1>18, Effects, MoveKeepsPlan
  <2>2. RecordTypes'
    BY <1>18 DEF Finish, PInv, RecordTypes, history, NoFile
  <2> QED BY <1>3, <1>18, <2>1, <2>2 DEF Finish, PInv
<1>19. CASE Interrupt
  <2>1. RunTypes' /\ Planned'
    BY <1>1, <1>19, Effects, MoveKeepsPlan
  <2>2. leftover' \subseteq Commits
    BY <1>1, <1>19 DEF Interrupt, PInv, RecordTypes
  <2>3. RecordTypes'
    BY <1>19, <2>2 DEF Interrupt, PInv, RecordTypes, history
  <2> QED BY <1>3, <1>19, <2>1, <2>3 DEF Interrupt, PInv
<1>20. CASE CloudFormation
  <2>1. RunTypes' /\ Planned'
    BY <1>20 DEF CloudFormation, PInv, RunTypes, Planned, PlanIsAPath
  <2>2. /\ target.template \in Template /\ target.plan \in Seq(Files)
        /\ status \in Updating /\ deployed \in Template
    BY DEF PInv, StackTypes
  <2>3. ToSet(target.plan) \in SUBSET Files
    BY <2>2, InPlan
  <2>4. status' \in Updating
    BY <1>20, <2>2, OutcomesOfUpdates DEF CloudFormation
  <2>5. StackTypes'
    BY <1>20, <2>2, <2>4 DEF CloudFormation, PInv, StackTypes
  <2>6. RecordTypes'
    BY <1>20, <2>3 DEF CloudFormation, PInv, RecordTypes
  <2> QED BY <2>1, <2>5, <2>6 DEF PInv
<1>21. CASE UNCHANGED vars
  BY <1>3, <1>4, <1>21
     DEF vars, stack, history, PInv, RunTypes, Planned, PlanIsAPath, Sorted
<1> QED BY <1>5, <1>6, <1>7, <1>8, <1>9, <1>10, <1>11, <1>12, <1>13, <1>14, <1>15, <1>16,
           <1>17, <1>18, <1>19, <1>20, <1>21 DEF Next, Load, Change, Post

\* The stack and the file never name a version that no checkout or migration has, and
\* the loops of pre_update and post_update stay inside the plan.
THEOREM TypeCorrect == Spec => []TypeOK
<1>1. PInv => TypeOK
  BY DEF PInv, StackTypes, RecordTypes, RunTypes, TypeOK, Updating, Status, InProgress,
         Failed, Settled
<1> QED BY <1>1, PInvAtFirst, PInvIsInductive, PTL DEF Spec

\* load_migrations gives a gapless path of migrations, or none.
THEOREM PlansArePaths == Spec => []PlanIsAPath
<1>1. PInv => PlanIsAPath
  BY DEF PInv, Planned
<1> QED BY <1>1, PInvAtFirst, PInvIsInductive, PTL DEF Spec

--------------------------------------------------------------------------------
(***************************************************************************)
(* Post-update migrations and the stack, if update-migrate waits for it     *)
(***************************************************************************)
RInv == PInv /\ Executed /\ AtRest

\* Only PostUpdate runs a post_update.
LEMMA OnlyPostUpdate ==
    ASSUME run \in Run, [Next]_vars, IsPostUpdate
    PROVE  PostUpdate
<1>1. run.pc = "post" /\ run'.pc = "callback"
  BY DEF IsPostUpdate
<1>2. ~ (Update \/ UpdateMigrate \/ Follow)
  BY <1>1 DEF Update, UpdateMigrate, Follow
<1>3. ~ CloudFormation /\ ~ UNCHANGED vars
  BY <1>1 DEF CloudFormation, vars
<1>4. ~ (Preview \/ PreUpdate \/ Execute \/ Poll \/ PollCleanup)
  BY <1>1 DEF Preview, PreUpdate, Execute, Poll, PollCleanup
<1>5. ~ (NoPath \/ UpdateCallback \/ Finish \/ Interrupt \/ PathForUpdate
           \/ PathForMigrate \/ SkipPostUpdate \/ MigrateCallback)
  BY <1>1, Effects DEF Moved
<1> QED BY <1>2, <1>3, <1>4, <1>5 DEF Next, Load, Change, Post

\* The invariant holds at first.
LEMMA RInvAtFirst == Init => RInv
<1> SUFFICES ASSUME Init PROVE RInv
  OBVIOUS
<1>1. run.pc = "idle"
  BY DEF Init
<1> QED BY <1>1, PInvAtFirst DEF RInv, Executed, AtRest, Migrating, Posting

\* Each action keeps it.
LEMMA RInvIsInductive == ASSUME Patient PROVE RInv /\ [Next]_vars => RInv'
<1> SUFFICES ASSUME RInv, [Next]_vars PROVE Executed' /\ AtRest'
  BY PInvIsInductive DEF RInv
<1>1. run \in Run /\ run.pc \in Places
  BY Fields DEF RInv, PInv, RunTypes
<1>2. /\ status \in Updating /\ target.template \in Template
      /\ target.template.version \in Nat
  BY DEF RInv, PInv, StackTypes, Template
<1>3. CASE Update
  <2>1. run'.pc = "loading" /\ run'.command = "update"
    BY <1>3 DEF Update
  <2> QED BY <2>1 DEF Executed, AtRest, Migrating, Posting
<1>4. CASE UpdateMigrate
  <2>1. /\ run'.pc = "loading" /\ run'.new = deployed.version /\ status \in Settled
        /\ UNCHANGED stack
    BY <1>1, <1>4 DEF UpdateMigrate, Run
  <2> QED BY <2>1 DEF Executed, AtRest, Migrating, Posting, stack
<1>5. CASE Follow
  <2>1. /\ run.pc = "loading" /\ run'.pc = "loading" /\ run'.new = run.new
        /\ run'.command = run.command /\ UNCHANGED stack
    BY <1>1, <1>5, FollowEffect
  <2> QED BY <2>1 DEF RInv, Executed, AtRest, Migrating, Posting, stack
<1>6. CASE NoPath \/ UpdateCallback \/ Finish \/ Interrupt
  <2>1. run'.pc = "idle"
    BY <1>1, <1>6, Effects DEF Moved
  <2> QED BY <2>1 DEF Executed, AtRest, Migrating, Posting
<1>7. CASE PathForUpdate
  <2>1. run'.pc = "preview" /\ run'.command = "update"
    BY <1>1, <1>7, Effects DEF Moved, PathForUpdate, HasPath
  <2> QED BY <2>1 DEF Executed, AtRest, Migrating, Posting
<1>8. CASE PathForMigrate
  <2>1. /\ run'.pc \in {"idle", "post"} /\ run'.new = run.new /\ UNCHANGED stack
        /\ run.pc = "loading" /\ run.command = "update-migrate"
    BY <1>1, <1>8, Effects DEF Moved, PathForMigrate, HasPath
  <2> QED BY <2>1 DEF RInv, Executed, AtRest, Migrating, Posting, stack
<1>9. CASE Preview \/ PreUpdate
  <2>1. /\ run'.pc \in {"idle", "pre"} /\ run'.command = run.command
        /\ run.pc \in {"preview", "pre"}
    BY <1>1, <1>9, Effects DEF Moved, Preview, PreUpdate
  <2> QED BY <2>1 DEF RInv, Executed, AtRest, Migrating, Posting
<1>10. CASE Execute
  <2>1. /\ run'.pc = "polling" /\ run'.i = 1 /\ run'.command = run.command
        /\ run'.new = run.new /\ run'.plan = run.plan /\ run.pc = "pre"
    BY <1>1, <1>10, Effects DEF Moved, Execute
  <2>2. /\ status' = "UPDATE_IN_PROGRESS" /\ target'.plan = run.plan
        /\ target'.template.version = run.new
    BY <1>10 DEF Execute
  <2> QED BY <2>1, <2>2 DEF RInv, Executed, AtRest, Migrating, Posting
<1>11. CASE Poll \/ PollCleanup
  <2>1. /\ run.pc \in {"polling", "cleanup"} /\ UNCHANGED stack
        /\ run'.pc \in {"post", "cleanup", "idle"} /\ run'.command = run.command
        /\ run'.i = run.i /\ run'.new = run.new /\ run'.plan = run.plan
    BY <1>1, <1>11, Effects DEF Moved, Poll, PollCleanup
  <2>2. /\ run'.pc = "post" => status = "UPDATE_COMPLETE"
        /\ run'.pc = "cleanup" => status = "UPDATE_COMPLETE_CLEANUP_IN_PROGRESS"
    BY <1>1, <1>11, Effects DEF Moved, Poll, PollCleanup, RInv, Executed
  <2> QED BY <2>1, <2>2 DEF RInv, Executed, AtRest, Migrating, Posting, Settled, stack
<1>12. CASE SkipPostUpdate \/ PostUpdate \/ MigrateCallback
  <2>1. /\ run.pc \in {"post", "callback"} /\ UNCHANGED stack
        /\ run'.pc \in {"post", "callback"} /\ run'.new = run.new
    BY <1>1, <1>12, Effects DEF Moved, SkipPostUpdate, PostUpdate, MigrateCallback
  <2> QED BY <2>1 DEF RInv, Executed, AtRest, Migrating, Posting, stack
<1>13. CASE CloudFormation
  <2>1. PICK s \in Outcomes(status) :
          /\ status' = s
          /\ IF s = "UPDATE_COMPLETE_CLEANUP_IN_PROGRESS"
             THEN deployed' = target.template ELSE deployed' = deployed
    BY <1>13 DEF CloudFormation
  <2>2. /\ s # "UPDATE_IN_PROGRESS" /\ status \notin Settled
        /\ s = "UPDATE_COMPLETE_CLEANUP_IN_PROGRESS" => status = "UPDATE_IN_PROGRESS"
        /\ s = "UPDATE_COMPLETE" <=> status = "UPDATE_COMPLETE_CLEANUP_IN_PROGRESS"
    BY <1>2, OutcomesOfUpdates
  <2>3. run' = run /\ target' = target
    BY <1>13 DEF CloudFormation
  <2>4. AtRest'
    BY <2>2, <2>3 DEF RInv, AtRest, Migrating, Posting
  <2>5. ASSUME run.pc \in {"polling", "cleanup"},
               s \in {"UPDATE_COMPLETE_CLEANUP_IN_PROGRESS", "UPDATE_COMPLETE"}
        PROVE  deployed'.version = run.new
    BY <2>1, <2>2, <2>5 DEF RInv, Executed
  <2>6. run.pc = "cleanup" => s = "UPDATE_COMPLETE"
    BY <2>2 DEF RInv, Executed, Settled
  <2> QED BY <2>1, <2>3, <2>4, <2>5, <2>6 DEF RInv, Executed
<1>14. CASE UNCHANGED vars
  BY <1>14 DEF vars, RInv, Executed, AtRest, Migrating, Posting
<1> QED BY <1>3, <1>4, <1>5, <1>6, <1>7, <1>8, <1>9, <1>10, <1>11, <1>12, <1>13, <1>14
        DEF Next, Load, Change, Post

\* A post_update migration finds the stack at rest, at its version or later.
THEOREM PostUpdatesFindTheirStack ==
    ASSUME Patient PROVE Spec => PostUpdateFindsNewStack
<1>1. RInv /\ [Next]_vars =>
        [IsPostUpdate => status \in Settled /\ Migrate.stop <= deployed.version]_vars
  <2> SUFFICES ASSUME RInv, [Next]_vars, IsPostUpdate
               PROVE  status \in Settled /\ Migrate.stop <= deployed.version
    OBVIOUS
  <2>1. run \in Run
    BY DEF RInv, PInv, RunTypes
  <2>2. PostUpdate
    BY <2>1, OnlyPostUpdate
  <2>3. run.i \in 1 .. Len(run.plan) /\ run.pc = "post"
    BY <2>1, <2>2, Fields, InPlan DEF PostUpdate
  <2>4. Migrate.stop <= run.new
    BY <2>3 DEF RInv, PInv, Planned, PlanIsAPath, Migrate
  <2> QED BY <2>3, <2>4 DEF RInv, AtRest, Posting
<1> QED BY <1>1, RInvAtFirst, RInvIsInductive, PTL DEF Spec, PostUpdateFindsNewStack

--------------------------------------------------------------------------------
(***************************************************************************)
(* The record, if update-migrate is run before the next update              *)
(***************************************************************************)
\* The progress file and the plans.
Booked == Recorded /\ Underway /\ Starting /\ Effective /\ Following /\ Catching

KInv == RInv /\ Booked

\* Nothing lies ahead on a path that is at its end.
LEMMA NothingAhead ==
    ASSUME NEW D, NEW p \in Int
    PROVE  /\ Ahead({}, p, p)
           /\ Ahead(D, p, p) => D = {}
<1>1. Ahead({}, p, p)
  BY EmptyPath DEF Ahead
<1>2. ASSUME NEW S \in SUBSET Files, Path(S, p, p) PROVE S = {}
  BY <1>2, FileFacts DEF Path
<1> QED BY <1>1, <1>2 DEF Ahead

\* What post_update has not reached lies behind it in the plan.
LEMMA LeftIsLater ==
    ASSUME KInv, Posting, NEW f \in Left
    PROVE  \E k \in 1 .. Len(run.plan) : f = run.plan[k] /\ ~ Behind(k)
<1>1. run.plan \in Seq(Files) /\ f \in ToSet(run.plan) /\ f.post /\ f \notin applied
  BY Fields DEF KInv, RInv, PInv, RunTypes, Booked, Catching, Recorded, Left
<1>2. PICK k \in 1 .. Len(run.plan) : f = run.plan[k]
  BY <1>1, InPlan
<1>3. ~ Behind(k)
  BY <1>1, <1>2 DEF KInv, Booked, Catching
<1> QED BY <1>2, <1>3

\* The invariant holds at first.
LEMMA BookedAtFirst == Init => Booked
<1> SUFFICES ASSUME Init PROVE Booked
  OBVIOUS
<1>1. run.pc = "idle" /\ due = {} /\ progress = NoFile /\ status = "CREATE_COMPLETE"
  BY DEF Init
<1> QED BY <1>1
        DEF Booked, Recorded, Underway, Starting, Effective, Following, Catching, Left,
            Migrating, Posting

\* An update starts.
LEMMA UpdateBooks ==
    ASSUME Orderly, KInv, Update PROVE Booked'
<1>1. /\ run'.pc = "loading" /\ run'.command = "update" /\ run'.cur = deployed.version
      /\ status \in Settled /\ progress = NoFile
      /\ UNCHANGED <<stack, progress, history>>
  BY DEF Update
<1>2. Left' = Left /\ Left = {}
  BY <1>1 DEF KInv, Booked, Recorded, Left, history
<1> QED BY <1>1, <1>2
        DEF KInv, Booked, Recorded, Underway, Starting, Effective, Following, Catching,
            Migrating, Posting, stack, history, Settled

\* update-migrate starts where the record is.
LEMMA UpdateMigrateBooks ==
    ASSUME Patient, KInv, UpdateMigrate PROVE Booked'
<1>1. run \in Run /\ ToSet(<<>>) = {}
  BY DEF KInv, RInv, PInv, RunTypes, ToSet
<1>2. /\ run'.pc = "loading" /\ run'.command = "update-migrate" /\ run'.plan = <<>>
      /\ run'.at = progress /\ run'.new = deployed.version /\ run'.i = 1
      /\ status \in Settled /\ progress # NoFile
      /\ UNCHANGED <<stack, progress, history>>
  BY <1>1 DEF UpdateMigrate, Run
<1>3. Left' = Left
  BY <1>2 DEF Left, history
<1>4. Ahead(Left, progress, deployed.version) /\ Left \ {} = Left
  BY <1>2 DEF KInv, Booked, Recorded
<1>5. Following'
  BY <1>1, <1>2, <1>3, <1>4 DEF Following
<1> QED BY <1>2, <1>3, <1>5
        DEF KInv, Booked, Recorded, Underway, Starting, Effective, Catching, Posting,
            stack, history, Settled

\* What is left is in the plan with the next file, or ahead of it.
LEMMA FollowBooks ==
    ASSUME NoForks, KInv, Follow PROVE Booked'
<1>1. run \in Run /\ run.plan \in Seq(Files) /\ run.new \in Nat /\ run.at \in Nat
  BY Fields DEF KInv, RInv, PInv, RunTypes
<1>2. PICK f \in Files :
        /\ f.start = run.at /\ f.stop <= run.new /\ run.at < run.new
        /\ run' \in Run /\ run.pc = "loading" /\ run'.pc = "loading"
        /\ run'.plan = Append(run.plan, f) /\ run'.at = f.stop
        /\ run'.command = run.command /\ run'.cur = run.cur /\ run'.new = run.new
        /\ run'.i = run.i
        /\ UNCHANGED <<stack, leftover, progress, history, started>>
  BY <1>1, FollowEffect
<1>3. Left' = Left
  BY <1>2 DEF Left, history
<1>4. ToSet(run'.plan) = ToSet(run.plan) \cup {f}
  BY <1>1, <1>2, Appended
<1>5. ASSUME Migrating PROVE Ahead(Left \ ToSet(run'.plan), f.stop, run.new)
  <2>1. PICK S \in SUBSET Files :
          Left \ ToSet(run.plan) \subseteq S /\ Path(S, run.at, run.new)
    BY <1>5 DEF KInv, Booked, Following, Ahead
  <2>2. Path(S \ {f}, f.stop, run.new)
    <3>1. Path(S, f.start, run.new) /\ f.start # run.new /\ run.new \in Int
      BY <1>1, <1>2, <2>1
    <3> QED BY <3>1, PathTail
  <2>3. Left \ ToSet(run'.plan) \subseteq S \ {f}
    BY <1>4, <2>1
  <2> QED BY <2>2, <2>3 DEF Ahead
<1>6. Following'
  BY <1>2, <1>3, <1>5 DEF KInv, Booked, Following, Migrating
<1> QED BY <1>2, <1>3, <1>6
        DEF KInv, Booked, Recorded, Underway, Starting, Effective, Catching, Posting,
            stack, history

\* A command that ends leaves the record as it is.
LEMMA EndBooks ==
    ASSUME KInv, run'.pc = "idle", UNCHANGED <<stack, progress, history>>
    PROVE  Booked'
<1>1. Left' = Left
  BY DEF Left, history
<1> QED BY <1>1
        DEF KInv, Booked, Recorded, Underway, Starting, Effective, Following, Catching,
            Migrating, Posting, stack, history

\* The paths that are found.
LEMMA PathForUpdateBooks ==
    ASSUME KInv, PathForUpdate PROVE Booked'
<1>1. run \in Run /\ deployed.version \in Nat
  BY DEF KInv, RInv, PInv, RunTypes, StackTypes, Template
<1>2. /\ run'.pc = "preview" /\ run'.command = "update" /\ run'.cur = run.cur
      /\ progress' = run.cur /\ UNCHANGED <<stack, history>>
      /\ run.pc = "loading" /\ run.command = "update"
  BY <1>1, Effects DEF PathForUpdate, HasPath, Moved
<1>3. Left = {} /\ run.cur = deployed.version /\ status \in Settled
  BY <1>2 DEF KInv, Booked, Starting
<1>4. Left' = {}
  BY <1>2, <1>3 DEF Left, history
<1>5. progress' # NoFile /\ Ahead({}, progress', deployed.version)
  BY <1>1, <1>2, <1>3, NothingAhead DEF NoFile
<1>6. Recorded'
  BY <1>2, <1>4, <1>5 DEF KInv, Booked, Recorded, stack, history
<1>7. Underway' /\ Starting'
  BY <1>2, <1>3, <1>4 DEF Underway, Starting, stack, Settled
<1> QED BY <1>2, <1>6, <1>7 DEF Booked, Effective, Following, Catching, Migrating, Posting

LEMMA PathForMigrateBooks ==
    ASSUME KInv, PathForMigrate PROVE Booked'
<1>1. ToSet(<<>>) = {}
  BY DEF ToSet
<1>2. run \in Run /\ run.new \in Nat
  BY Fields DEF KInv, RInv, PInv, RunTypes
<1>3. Migrating /\ run.at = run.new /\ UNCHANGED <<stack, history>> /\ status \in Settled
  BY DEF PathForMigrate, HasPath, Migrating, KInv, RInv, AtRest
<1>4. Left \ ToSet(run.plan) = {} /\ progress # NoFile /\ run.i = 1
  BY <1>2, <1>3, NothingAhead DEF KInv, Booked, Following
<1>5. Left' = Left
  BY <1>3 DEF Left, history
<1>6. CASE run.plan = <<>>
  <2>1. Left = {}
    BY <1>1, <1>4, <1>6
  <2>2. run'.pc = "idle" /\ progress' = NoFile
    BY <1>2, <1>6, Effects DEF PathForMigrate, Moved
  <2> QED BY <1>3, <1>5, <2>1, <2>2
          DEF KInv, Booked, Recorded, Underway, Starting, Effective, Following, Catching,
              Migrating, Posting, stack, history, Settled
<1>7. CASE run.plan # <<>>
  <2>1. run'.pc = "post" /\ run'.i = 1 /\ run'.plan = run.plan /\ progress' = progress
    BY <1>2, <1>4, <1>7, Effects DEF PathForMigrate, Moved
  <2>2. Catching'
    BY <1>4, <1>5, <2>1 DEF Catching, Behind
  <2> QED BY <1>3, <1>5, <2>1, <2>2
          DEF KInv, Booked, Recorded, Underway, Starting, Effective, Following, Migrating,
              stack, history
<1> QED BY <1>6, <1>7

\* Before the stack is changed.
LEMMA ChangeBooks ==
    ASSUME KInv, Preview \/ PreUpdate \/ Execute PROVE Booked'
<1>1. /\ run \in Run /\ run.at = run.new /\ run.command = "update"
      /\ run.pc \in {"preview", "pre"}
      /\ UNCHANGED <<progress, history>> /\ deployed' = deployed
  BY DEF KInv, RInv, PInv, RunTypes, Planned, PlanIsAPath, Executed, Preview, PreUpdate,
         Execute, stack
<1>2. /\ Left = {} /\ run.cur = deployed.version /\ progress = run.cur
      /\ status \in Settled
  BY <1>1 DEF KInv, Booked, Starting
<1>3. Left' = Left /\ Recorded'
  BY <1>1 DEF KInv, Booked, Recorded, Left, history
<1>4. CASE Preview \/ PreUpdate
  <2>1. run'.pc \in {"idle", "pre"} /\ run'.cur = run.cur /\ UNCHANGED stack
    BY <1>1, <1>4, Effects DEF Preview, PreUpdate, Moved
  <2> QED BY <1>1, <1>2, <1>3, <2>1
          DEF Booked, Underway, Starting, Effective, Following, Catching, Migrating,
              Posting, stack, Settled
<1>5. CASE Execute
  <2>1. /\ run'.pc = "polling" /\ status' = "UPDATE_IN_PROGRESS"
        /\ target'.plan = run.plan /\ target'.template.version = run.new
    BY <1>1, <1>5, Effects DEF Execute, Moved
  <2>2. Path(ToSet(run.plan), run.cur, run.new)
    BY <1>1 DEF KInv, RInv, PInv, Planned
  <2>3. Underway'
    BY <1>1, <1>2, <1>3, <2>1, <2>2 DEF Underway
  <2> QED BY <1>3, <2>1, <2>3
          DEF Booked, Starting, Effective, Following, Catching, Migrating, Posting
<1> QED BY <1>4, <1>5

\* While it is changed, and when its end is seen.
LEMMA PollBooks ==
    ASSUME KInv, Poll \/ PollCleanup PROVE Booked'
<1>1. run \in Run
  BY DEF KInv, RInv, PInv, RunTypes
<1>2. /\ run.pc \in {"polling", "cleanup"} /\ run.i = 1
      /\ UNCHANGED <<stack, progress, history>>
      /\ run'.pc \in {"post", "cleanup", "idle"} /\ run'.i = 1 /\ run'.plan = run.plan
      /\ run'.pc # "idle" =>
            status \in {"UPDATE_COMPLETE_CLEANUP_IN_PROGRESS", "UPDATE_COMPLETE"}
  BY <1>1, Effects DEF Moved, Poll, PollCleanup, KInv, RInv, Executed
<1>3. Left' = Left
  BY <1>2 DEF Left, history
<1>4. CASE run'.pc = "idle"
  BY <1>2, <1>4, EndBooks
<1>5. CASE run'.pc # "idle"
  <2>1. progress # NoFile /\ Left \subseteq ToSet(run.plan)
    BY <1>2, <1>5 DEF KInv, Booked, Effective
  <2>2. Effective' /\ Catching'
    BY <1>2, <1>3, <2>1 DEF Effective, Catching, Behind
  <2> QED BY <1>2, <1>3, <1>5, <2>2
          DEF KInv, Booked, Recorded, Underway, Starting, Following, Migrating, stack,
              history
<1> QED BY <1>4, <1>5

\* The loop of post_update.
LEMMA PostBooks ==
    ASSUME KInv, SkipPostUpdate \/ PostUpdate PROVE Booked'
<1>1. /\ run \in Run /\ run.i \in Nat /\ Len(run.plan) \in Nat /\ run.plan \in Seq(Files)
      /\ run.pc = "post" /\ run.i \in 1 .. Len(run.plan)
      /\ UNCHANGED <<stack, progress, due>>
  BY Fields, InPlan DEF KInv, RInv, PInv, RunTypes, SkipPostUpdate, PostUpdate, history
<1>2. Posting /\ status \in Settled
  BY <1>1 DEF Posting, KInv, RInv, AtRest
<1>3. run'.plan = run.plan /\ run'.pc \in {"post", "callback"}
  BY <1>1, Effects DEF Moved
<1>4. applied \subseteq applied'
  BY DEF SkipPostUpdate, PostUpdate, history
<1>5. Left' \in SUBSET Left
  BY <1>1, <1>4 DEF Left
<1>6. Recorded'
  <2>1. /\ \A f \in due : f.post
        /\ progress = NoFile => Left = {}
        /\ progress # NoFile => Ahead(Left, progress, deployed.version)
    BY DEF KInv, Booked, Recorded
  <2>2. progress # NoFile => Ahead(Left', progress, deployed.version)
    BY <1>5, <2>1, AheadOfLess
  <2> QED BY <1>1, <1>5, <2>1, <2>2 DEF Recorded, stack
<1>7. Catching'
  <2>1. progress # NoFile /\ Left \subseteq ToSet(run.plan)
    BY <1>2 DEF KInv, Booked, Catching
  <2>2. ASSUME NEW k \in 1 .. Len(run.plan), k < run'.i \/ (k = run'.i /\ run'.pc = "callback"),
               run.plan[k].post
        PROVE  run.plan[k] \in applied'
    <3>1. CASE Behind(k)
      BY <1>2, <1>4, <2>2, <3>1 DEF KInv, Booked, Catching
    <3>2. CASE ~ Behind(k)
      <4>1. k = run.i
        BY <1>1, <2>2, <3>2, Effects DEF Behind, Moved
      <4>2. ~ SkipPostUpdate
        BY <2>2, <4>1 DEF SkipPostUpdate, Migrate
      <4> QED BY <4>1, <4>2 DEF PostUpdate, Migrate
    <3> QED BY <3>1, <3>2
  <2> QED BY <1>1, <1>3, <1>5, <2>1, <2>2 DEF Catching, Behind
<1> QED BY <1>1, <1>2, <1>3, <1>6, <1>7
        DEF Booked, Underway, Starting, Effective, Following, Migrating, stack, Settled

\* The record follows the loop.
LEMMA CallbackBooks ==
    ASSUME KInv, MigrateCallback PROVE Booked'
<1> DEFINE f == run.plan[run.i]
<1>1. /\ run \in Run /\ run.i \in Nat /\ Len(run.plan) \in Nat /\ run.plan \in Seq(Files)
      /\ run.pc = "callback" /\ run.i \in 1 .. Len(run.plan)
      /\ run.cur \in Nat /\ run.new \in Nat
      /\ UNCHANGED <<stack, history>> /\ progress' = f.stop
  BY Fields, InPlan DEF KInv, RInv, PInv, RunTypes, MigrateCallback, Migrate
<1>2. Posting /\ status \in Settled /\ run.at = run.new /\ run.new = deployed.version
  BY <1>1 DEF Posting, KInv, RInv, AtRest, PInv, Planned, PlanIsAPath
<1>3. run'.plan = run.plan /\ run'.pc = "post" /\ run'.i = run.i + 1
  BY <1>1, Effects DEF Moved
<1>4. Left' = Left
  BY <1>1 DEF Left, history
<1>5. f \in ToSet(run.plan) /\ f \in Files /\ ToSet(run.plan) \in SUBSET Files
  BY <1>1, InPlan
<1>6. f.stop \in Nat
  BY <1>5, FileFacts
<1> DEFINE T == {g \in ToSet(run.plan) : g.start >= f.stop}
<1>7. Path(T, f.stop, deployed.version)
  <2>1. Path(ToSet(run.plan), run.cur, deployed.version) /\ run.cur \in Int
        /\ deployed.version \in Int
    BY <1>1, <1>2 DEF KInv, RInv, PInv, Planned
  <2> QED BY <1>5, <2>1, PathRest
<1>8. Left \subseteq T
  <2> SUFFICES ASSUME NEW g \in Left PROVE g \in T
    OBVIOUS
  <2>1. PICK k \in 1 .. Len(run.plan) : g = run.plan[k] /\ ~ Behind(k)
    BY <1>2, LeftIsLater
  <2>2. run.i < k
    BY <1>1, <2>1 DEF Behind
  <2>3. f.stop <= g.start
    BY <1>1, <2>1, <2>2 DEF KInv, RInv, PInv, Planned, Sorted
  <2>4. g \in ToSet(run.plan) /\ g.start \in Nat
    BY <1>1, <2>1, InPlan, FileFacts
  <2> QED BY <1>6, <2>3, <2>4
<1> HIDE DEF f
<1>9. Ahead(Left, f.stop, deployed.version)
  BY <1>5, <1>7, <1>8 DEF Ahead
<1>10. progress' # NoFile
  BY <1>1, <1>6 DEF NoFile
<1>11. Recorded'
  BY <1>1, <1>4, <1>9, <1>10 DEF KInv, Booked, Recorded, stack, history
<1>12. Catching'
  <2>1. Left \subseteq ToSet(run.plan)
    BY <1>2 DEF KInv, Booked, Catching
  <2>2. ASSUME NEW k \in 1 .. Len(run.plan), k < run.i + 1, run.plan[k].post
        PROVE  run.plan[k] \in applied
    <3>1. Behind(k)
      BY <1>1, <2>2 DEF Behind
    <3> QED BY <1>2, <2>2, <3>1 DEF KInv, Booked, Catching
  <2> QED BY <1>1, <1>3, <1>4, <1>10, <2>1, <2>2 DEF Catching, Behind, history
<1> QED BY <1>1, <1>2, <1>3, <1>11, <1>12
        DEF Booked, Underway, Starting, Effective, Following, Migrating, stack, Settled

\* The record is deleted when nothing is left.
LEMMA FinishBooks ==
    ASSUME KInv, Finish PROVE Booked'
<1>1. /\ run \in Run /\ run.i \in Nat /\ Len(run.plan) \in Nat
      /\ run.pc = "post" /\ run.i > Len(run.plan)
      /\ UNCHANGED <<stack, history>> /\ progress' = NoFile
  BY Fields, InPlan DEF KInv, RInv, PInv, RunTypes, Finish
<1>2. Posting /\ status \in Settled /\ run'.pc = "idle"
  BY <1>1, Effects DEF Posting, KInv, RInv, AtRest, Moved
<1>3. Left = {}
  <2>1. \A k \in 1 .. Len(run.plan) : Behind(k)
    BY <1>1 DEF Behind
  <2> QED BY <1>2, <2>1, LeftIsLater
<1>4. Left' = Left
  BY <1>1 DEF Left, history
<1> QED BY <1>1, <1>2, <1>3, <1>4
        DEF KInv, Booked, Recorded, Underway, Starting, Effective, Following, Catching,
            Migrating, Posting, stack, history, Settled

\* CloudFormation goes on, or back.
LEMMA CloudFormationBooks ==
    ASSUME KInv, CloudFormation PROVE Booked'
<1> DEFINE new == {f \in ToSet(target.plan) : f.post}
<1>1. PICK s \in Outcomes(status) :
        /\ status' = s
        /\ IF s = "UPDATE_COMPLETE_CLEANUP_IN_PROGRESS"
           THEN deployed' = target.template /\ due' = due \cup new
           ELSE UNCHANGED <<deployed, due>>
  BY DEF CloudFormation
<1>2. UNCHANGED <<target, leftover, progress, run, applied, started>>
  BY DEF CloudFormation
<1>3. /\ status \in Updating /\ deployed.version \in Nat /\ target.plan \in Seq(Files)
      /\ ToSet(target.plan) \in SUBSET Files
  BY InPlan DEF KInv, RInv, PInv, StackTypes, Template
<1>4. /\ s # "UPDATE_IN_PROGRESS" /\ status \notin Settled
      /\ s = "UPDATE_COMPLETE_CLEANUP_IN_PROGRESS" => status = "UPDATE_IN_PROGRESS"
      /\ s = "UPDATE_COMPLETE" <=> status = "UPDATE_COMPLETE_CLEANUP_IN_PROGRESS"
  BY <1>3, OutcomesOfUpdates
<1>5. ~ Migrating /\ ~ Posting
  BY <1>4 DEF KInv, RInv, AtRest
<1>6. ~ (run.command = "update" /\ run.pc \in {"loading", "preview", "pre"})
  BY <1>4 DEF KInv, Booked, Starting
<1>7. Underway' /\ Starting' /\ Following' /\ Catching'
  BY <1>1, <1>2, <1>4, <1>5, <1>6
     DEF Underway, Starting, Following, Catching, Migrating, Posting
<1>8. CASE s = "UPDATE_COMPLETE_CLEANUP_IN_PROGRESS"
  <2>1. /\ progress = deployed.version /\ Left = {}
        /\ Path(ToSet(target.plan), progress, target.template.version)
    BY <1>4, <1>8 DEF KInv, Booked, Underway
  <2>2. progress # NoFile
    BY <1>3, <2>1 DEF NoFile
  <2>3. Left' \subseteq ToSet(target.plan)
    BY <1>1, <1>2, <1>8, <2>1 DEF Left
  <2>4. Ahead(Left', progress, target.template.version)
    BY <1>3, <2>1, <2>3 DEF Ahead
  <2>5. Recorded'
    BY <1>1, <1>2, <1>8, <2>2, <2>4 DEF KInv, Booked, Recorded
  <2>6. Effective'
    BY <1>2, <2>2, <2>3 DEF Effective, KInv, RInv, Executed
  <2> QED BY <1>7, <2>5, <2>6 DEF Booked
<1>9. CASE s # "UPDATE_COMPLETE_CLEANUP_IN_PROGRESS"
  <2>1. Left' = Left /\ due' = due /\ deployed' = deployed
    BY <1>1, <1>2, <1>9 DEF Left
  <2>2. Recorded'
    BY <1>2, <2>1 DEF KInv, Booked, Recorded
  <2>3. Effective'
    BY <1>1, <1>2, <1>4, <1>9, <2>1 DEF KInv, Booked, Effective
  <2> QED BY <1>7, <2>2, <2>3 DEF Booked
<1> QED BY <1>8, <1>9

\* The invariant holds in every state.
THEOREM InvariantHolds ==
    ASSUME Orderly, Patient, NoForks PROVE Spec => []KInv
<1>1. Init => KInv
  BY RInvAtFirst, BookedAtFirst DEF KInv
<1>2. KInv /\ [Next]_vars => KInv'
  <2> SUFFICES ASSUME KInv, [Next]_vars PROVE Booked'
    BY RInvIsInductive DEF KInv
  <2>1. CASE NoPath \/ UpdateCallback \/ Interrupt
    <3>1. UNCHANGED <<stack, progress, history>>
      BY <2>1 DEF NoPath, UpdateCallback, Interrupt
    <3>2. run'.pc = "idle"
      BY <2>1, Effects DEF Moved, KInv, RInv, PInv, RunTypes
    <3> QED BY <3>1, <3>2, EndBooks
  <2>2. CASE UNCHANGED vars
    BY <2>2 DEF vars, KInv, Booked, Recorded, Underway, Starting, Effective, Following,
                Catching, Behind, Left, Migrating, Posting
  <2> QED BY <2>1, <2>2, UpdateBooks, UpdateMigrateBooks, FollowBooks, PathForUpdateBooks,
             PathForMigrateBooks, ChangeBooks, PollBooks, PostBooks, CallbackBooks,
             FinishBooks, CloudFormationBooks
          DEF Next, Load, Change, Post
<1> QED BY <1>1, <1>2, PTL DEF Spec

\* As long as a post_update of an update that took effect has not run, the progress
\* file is there and reaches back to it.
THEOREM NoPostUpdateIsLost ==
    ASSUME Orderly, Patient, NoForks PROVE Spec => []NothingIsLost
<1>1. KInv => NothingIsLost
  <2> SUFFICES ASSUME KInv, NEW f \in Left PROVE progress # NoFile /\ progress <= f.start
    BY DEF NothingIsLost, Left
  <2>1. progress # NoFile /\ Ahead(Left, progress, deployed.version)
    BY DEF KInv, Booked, Recorded
  <2>2. progress \in Int /\ deployed.version \in Int
    BY <2>1 DEF KInv, RInv, PInv, StackTypes, RecordTypes, Template, NoFile
  <2> QED BY <2>1, <2>2, AheadIsAfter
<1> QED BY <1>1, InvariantHolds, PTL

\* update-migrate finds a path from the version in the file to that of the stack.
THEOREM NoRecordIsADeadEnd ==
    ASSUME Orderly, Patient, NoForks PROVE Spec => []MigrateFindsItsPath
<1>1. KInv => MigrateFindsItsPath
  <2> SUFFICES ASSUME KInv, Migrating PROVE ~ DeadEnd
    BY DEF MigrateFindsItsPath, Migrating
  <2>1. run.at \in Nat /\ run.new \in Nat
    BY Fields DEF KInv, RInv, PInv, RunTypes
  <2>2. PICK S \in SUBSET Files : Path(S, run.at, run.new)
    BY DEF KInv, Booked, Following, Ahead
  <2>3. run.at <= run.new
    BY <2>1, <2>2, PathForward
  <2>4. ASSUME run.at # run.new
        PROVE  \E f \in Files : f.start = run.at /\ f.stop <= run.new
    BY <2>2, <2>4 DEF Path, Leads
  <2>5. \A f \in Files : f.stop <= run.new => ~ (f.stop > run.new)
    BY <2>1, FileFacts
  <2> QED BY <2>1, <2>3, <2>4, <2>5 DEF DeadEnd
<1> QED BY <1>1, InvariantHolds, PTL

\* A post_update migration runs only after every older one that is due.
THEOREM NoMigrationOvertakes ==
    ASSUME Orderly, Patient, NoForks PROVE Spec => MigrationsRunInOrder
<1>1. KInv /\ [Next]_vars =>
        [IsPostUpdate => \A f \in due : f.stop <= Migrate.start => f \in applied]_vars
  <2> SUFFICES ASSUME KInv, [Next]_vars, IsPostUpdate,
                      NEW f \in due, f.stop <= Migrate.start, f \notin applied
               PROVE  FALSE
    OBVIOUS
  <2>1. /\ run \in Run /\ run.plan \in Seq(Files) /\ run.i \in Nat
        /\ Len(run.plan) \in Nat
    BY Fields, InPlan DEF KInv, RInv, PInv, RunTypes
  <2>2. run.i \in 1 .. Len(run.plan) /\ run.pc = "post"
    BY <2>1, OnlyPostUpdate, Fields DEF PostUpdate
  <2>3. PICK k \in 1 .. Len(run.plan) : f = run.plan[k] /\ ~ Behind(k)
    BY <2>2, LeftIsLater DEF Posting, Left
  <2>4. /\ Migrate \in Files /\ f \in Files
        /\ Migrate.start < Migrate.stop /\ f.start < f.stop
        /\ Migrate.start \in Nat /\ Migrate.stop \in Nat /\ f.start \in Nat /\ f.stop \in Nat
    BY <2>1, <2>2, <2>3, InPlan, FileFacts DEF Migrate
  <2>5. CASE k = run.i
    BY <2>3, <2>4, <2>5 DEF Migrate
  <2>6. CASE k # run.i
    <3>1. run.i < k
      BY <2>1, <2>3, <2>6 DEF Behind
    <3>2. Migrate.stop <= f.start
      BY <2>2, <2>3, <3>1 DEF KInv, RInv, PInv, Planned, Sorted, Migrate
    <3> QED BY <2>4, <3>2
  <2> QED BY <2>5, <2>6
<1> QED BY <1>1, InvariantHolds, PTL DEF Spec, MigrationsRunInOrder

================================================================================
