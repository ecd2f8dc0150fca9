----------------------------- MODULE StackLifecycle -----------------------------
(***************************************************************************)
(* call_configs of bin/cloudformation.py with the create, update and       *)
(* delete of lib/cloudformation.py, run by one or more operators against   *)
(* CloudFormation.  A run reads the stacks once, orders its work           *)
(* (LaunchRules, which DependencyGraph implements) and then works through  *)
(* the list: one call to CloudFormation, a poll until the stack leaves the *)
(* "in progress" status of that call, the configuration's own post_init.   *)
(* Anything else than the expected status is an exception that ends the    *)
(* run; so is a lookup that fails, a problem in post_init, or Ctrl-C.      *)
(***************************************************************************)
EXTENDS LaunchRules

CONSTANTS Deps,       \* the dependencies the configurations declare
          Requests,   \* the lists of configurations an operator may name
          Commands,   \* the commands an operator may give
          Operators,  \* people (or machines) running the tool on one bosslet
          MaxRuns     \* bound: runs started in all

ASSUME LifecycleConstants ==
    /\ Deps \in [Configs -> Seq(Configs)]
    /\ Requests \subseteq Seq(Configs)
    /\ Commands \subseteq Action \ {"pre_init"}
    /\ MaxRuns \in Nat

VARIABLES status,   \* the stacks, as CloudFormation keeps them
          ready,    \* post_init has succeeded on this incarnation of the stack
          run,      \* what each operator's process is doing
          started   \* runs started so far

vars == <<status, ready, run, started>>

Run == [pc : {"idle", "working", "polling", "cleanup", "post_init"},
        command : Action,
        requested : SUBSET Configs,
        queue : Seq(Configs),      \* still to do; the head is being worked on
        launched : SUBSET Configs, \* stacks this run has created
        result : {"none", "ok", "refused", "failed"}]

NoRun == [pc |-> "idle", command |-> "create", requested |-> {}, queue |-> <<>>,
          launched |-> {}, result |-> "none"]

Init ==
    /\ status = [c \in Configs |-> Absent]
    /\ ready = [c \in Configs |-> FALSE]
    /\ run = [o \in Operators |-> NoRun]
    /\ started = 0

Current(o) == Head(run[o].queue)

Working(o, command) ==
    run[o].pc = "working" /\ run[o].command = command /\ run[o].queue # <<>>

Polling(o, command) == run[o].pc = "polling" /\ run[o].command = command

GoTo(o, pc) == run' = [run EXCEPT ![o].pc = pc]

\* The next configuration of the list.
Advance(o) ==
    run' = [run EXCEPT ![o].pc = "working", ![o].queue = Tail(@)]

FailKeepingQueue(o) ==
    run' = [run EXCEPT ![o].pc = "idle", ![o].result = "failed"]

\* An exception reaches the top level of the tool.
Fail(o) ==
    run' = [run EXCEPT ![o].pc = "idle", ![o].queue = <<>>, ![o].result = "failed"]

--------------------------------------------------------------------------------
\* build_dependency_graph reads the stacks now and never again in this run.
Command(o) ==
    /\ run[o].pc = "idle" /\ started < MaxRuns
    /\ started' = started + 1
    /\ \E command \in Commands, request \in Requests :
       \E answer \in Answers(Deps, command, ToSet(request), status) :
          run' = [run EXCEPT ![o] =
                    [pc |-> IF answer.kind = "ok" THEN "working" ELSE "idle",
                     command |-> command,
                     requested |-> ToSet(request),
                     queue |-> answer.order,
                     launched |-> {},
                     result |-> IF answer.kind = "ok" THEN "none" ELSE "refused"]]
    /\ UNCHANGED <<status, ready>>

\* The end of the loop in call_configs.
Done(o) ==
    /\ run[o].pc = "working" /\ run[o].queue = <<>>
    /\ run' = [run EXCEPT ![o].pc = "idle", ![o].result = "ok"]
    /\ UNCHANGED <<status, ready, started>>

\* create_stack; AlreadyExistsException becomes a BossManageError.
CreateStack(o) ==
    /\ Working(o, "create")
    /\ IF status[Current(o)] = Absent
       THEN /\ status' = [status EXCEPT ![Current(o)] = "CREATE_IN_PROGRESS"]
            /\ ready' = [ready EXCEPT ![Current(o)] = FALSE]
            /\ run' = [run EXCEPT ![o].pc = "polling",
                                  ![o].launched = @ \cup {Current(o)}]
       ELSE Fail(o) /\ UNCHANGED <<status, ready>>
    /\ UNCHANGED started

PollCreateLenient(o) ==
    /\ Polling(o, "create")
    /\ status[Current(o)] # "CREATE_IN_PROGRESS"
    /\ GoTo(o, "post_init")
    /\ UNCHANGED <<status, ready, started>>

PollCreate(o) ==
    /\ Polling(o, "create")
    /\ status[Current(o)] # "CREATE_IN_PROGRESS"
    /\ IF status[Current(o)] = "CREATE_COMPLETE" THEN GoTo(o, "post_init")
                                                 ELSE Fail(o)
    /\ UNCHANGED <<status, ready, started>>

\* Also the whole work of a "post-init" command on one configuration.
PostInit(o) ==
    /\ run[o].pc = "post_init" \/ Working(o, "post_init")
    /\ ready' = [ready EXCEPT ![Current(o)] = TRUE]
    /\ Advance(o)
    /\ UNCHANGED <<status, started>>

\* update_stack, or create_change_set and execute_change_set; without changes to
\* preview the configuration is skipped.
UpdateStack(o) ==
    /\ Working(o, "update")
    /\ \/ /\ status[Current(o)] \in Updatable
          /\ status' = [status EXCEPT ![Current(o)] = "UPDATE_IN_PROGRESS"]
          /\ GoTo(o, "polling")
       \/ status[Current(o)] \in Updatable /\ Advance(o) /\ UNCHANGED status
       \/ status[Current(o)] \notin Updatable /\ Fail(o) /\ UNCHANGED status
    /\ UNCHANGED <<ready, started>>

\* A rollback is an error as soon as it is seen.
PollUpdate(o) ==
    /\ Polling(o, "update")
    /\ status[Current(o)] # "UPDATE_IN_PROGRESS"
    /\ CASE status[Current(o)] = "UPDATE_COMPLETE" -> Advance(o)
         [] status[Current(o)] = "UPDATE_COMPLETE_CLEANUP_IN_PROGRESS"
                                                  -> GoTo(o, "cleanup")
         [] OTHER                                 -> Fail(o)
    /\ UNCHANGED <<status, ready, started>>

\* The second poll: the update counts as done whatever status the stack has then.
PollCleanup(o) ==
    /\ run[o].pc = "cleanup"
    /\ status[Current(o)] # "UPDATE_COMPLETE_CLEANUP_IN_PROGRESS"
    /\ IF status[Current(o)] = Absent THEN Fail(o) ELSE Advance(o)
    /\ UNCHANGED <<status, ready, started>>

\* delete_stack succeeds on a stack that is gone and is refused during an update.
DeleteStack(o) ==
    /\ Working(o, "delete")
    /\ IF status[Current(o)] \in {"UPDATE_IN_PROGRESS",
                                  "UPDATE_COMPLETE_CLEANUP_IN_PROGRESS",
                                  "UPDATE_ROLLBACK_IN_PROGRESS"}
       THEN Fail(o) /\ UNCHANGED status
       ELSE /\ status' = [status EXCEPT ![Current(o)] =
                            IF @ = Absent THEN Absent ELSE "DELETE_IN_PROGRESS"]
            /\ GoTo(o, "polling")
    /\ UNCHANGED <<ready, started>>

PollDeleteOfNone(o) ==
    /\ Polling(o, "delete")
    /\ status[Current(o)] \notin {"DELETE_IN_PROGRESS", Absent}
    /\ Fail(o)
    /\ UNCHANGED <<status, ready, started>>

\* A stack that is gone makes describe_stacks raise ClientError: deleted.
PollDelete(o) ==
    /\ Polling(o, "delete")
    /\ status[Current(o)] # "DELETE_IN_PROGRESS"
    /\ IF status[Current(o)] = Absent THEN Advance(o) ELSE Fail(o)
    /\ UNCHANGED <<status, ready, started>>

\* A failed lookup, a failed post_init, Ctrl-C.
Interrupt(o) ==
    /\ run[o].pc # "idle"
    /\ Fail(o)
    /\ UNCHANGED <<status, ready, started>>

OperatorStep(o) ==
    \/ Done(o) \/ CreateStack(o) \/ PollCreate(o) \/ PostInit(o)
    \/ UpdateStack(o) \/ PollUpdate(o) \/ PollCleanup(o)
    \/ DeleteStack(o) \/ PollDelete(o)

--------------------------------------------------------------------------------
\* CloudFormation works on a stack by itself.
CloudFormation(c) ==
    /\ \E s \in Outcomes(status[c]) : status' = [status EXCEPT ![c] = s]
    /\ UNCHANGED <<ready, run, started>>

--------------------------------------------------------------------------------
Next ==
    \/ \E o \in Operators : Command(o) \/ OperatorStep(o) \/ Interrupt(o)
    \/ \E c \in Configs : CloudFormation(c)

\* The process that was started runs, and CloudFormation finishes what it works
\* on; nobody has to give a command or to interrupt one.
Fairness ==
    /\ \A o \in Operators : WF_vars(OperatorStep(o))
    /\ \A c \in Configs : WF_vars(CloudFormation(c))

Spec == Init /\ [][Next]_vars /\ Fairness

--------------------------------------------------------------------------------
\* Besides the types: a run works on a configuration it was asked for, and only
\* while it has one.
TypeOK ==
    /\ status \in [Configs -> StackView]
    /\ ready \in [Configs -> BOOLEAN]
    /\ run \in [Operators -> Run]
    /\ started \in 0 .. MaxRuns
    /\ \A o \in Operators :
          /\ ToSet(run[o].queue) \cup run[o].launched \subseteq run[o].requested
          /\ run[o].pc \in {"polling", "cleanup", "post_init"} => run[o].queue # <<>>
          /\ run[o].pc = "idle" => run[o].queue = <<>>

IsLaunched(c) == status[c] = Absent /\ status'[c] # Absent

DependsOn(c, d) == d \in ToSet(Deps[c])

\* One operator: no stack is launched while a stack it depends on is missing,
\* busy or failed, whatever was interrupted, failed or rolled back before.
LaunchNeedsSettledDependencies ==
    [][\A c, d \in Configs :
        IsLaunched(c) /\ DependsOn(c, d) => status[d] \in Settled]_vars

\* One operator: a stack is not deleted while a stack that depends on it and is
\* to be deleted by the same run still exists, also when a deletion failed.
DependentsGoFirst ==
    [][\A c, d \in Configs, o \in Operators :
        (/\ status[d] # "DELETE_IN_PROGRESS" /\ status'[d] = "DELETE_IN_PROGRESS"
         /\ run[o].pc = "working" /\ c \in run[o].requested /\ DependsOn(c, d))
        => status[c] = Absent]_vars

\* One operator: a "create" that reports success has created and initialised
\* every stack it launched.
SuccessIsReal ==
    \A o \in Operators :
        (run[o].result = "ok" /\ run[o].command = "create") =>
            \A c \in run[o].launched : status[c] = "CREATE_COMPLETE" /\ ready[c]

\* Every run ends, however the stacks it waits for turn out.
EveryRunEnds ==
    \A o \in Operators : run[o].pc # "idle" ~> run[o].pc = "idle"

================================================================================
