------------------------------ MODULE StackStatus ------------------------------
(***************************************************************************)
(* The life cycle of one CloudFormation stack, as far as the tooling of    *)
(* this repository tells its states apart, and the commands of             *)
(* bin/cloudformation.py.  CloudFormation itself is external: its states   *)
(* are the ones lib/cloudformation.py waits for and                        *)
(* bin/cloudformation.py filters on.                                       *)
(***************************************************************************)

\* A stack that does not exist: list_stacks does not name it, or names it
\* DELETE_COMPLETE, which get_existing_stacks filters out.
Absent == "ABSENT"

InProgress == {"CREATE_IN_PROGRESS", "ROLLBACK_IN_PROGRESS",
               "UPDATE_IN_PROGRESS", "UPDATE_COMPLETE_CLEANUP_IN_PROGRESS",
               "UPDATE_ROLLBACK_IN_PROGRESS", "DELETE_IN_PROGRESS"}

Failed == {"CREATE_FAILED", "ROLLBACK_FAILED", "UPDATE_ROLLBACK_FAILED",
           "DELETE_FAILED"}

Settled == {"CREATE_COMPLETE", "ROLLBACK_COMPLETE", "UPDATE_COMPLETE",
            "UPDATE_ROLLBACK_COMPLETE"}

Status == InProgress \cup Failed \cup Settled

\* What list_stacks may show of one configuration.
StackView == Status \cup {Absent}

\* Where CloudFormation takes a stack by itself.
Outcomes(s) ==
    CASE s = "CREATE_IN_PROGRESS"          -> {"CREATE_COMPLETE", "ROLLBACK_IN_PROGRESS"}
      [] s = "ROLLBACK_IN_PROGRESS"        -> {"ROLLBACK_COMPLETE", "ROLLBACK_FAILED"}
      [] s = "UPDATE_IN_PROGRESS"          -> {"UPDATE_COMPLETE_CLEANUP_IN_PROGRESS",
                                               "UPDATE_ROLLBACK_IN_PROGRESS"}
      [] s = "UPDATE_COMPLETE_CLEANUP_IN_PROGRESS" -> {"UPDATE_COMPLETE"}
      [] s = "UPDATE_ROLLBACK_IN_PROGRESS" -> {"UPDATE_ROLLBACK_COMPLETE",
                                               "UPDATE_ROLLBACK_FAILED"}
      [] s = "DELETE_IN_PROGRESS"          -> {Absent, "DELETE_FAILED"}
      [] OTHER                             -> {}

\* update_stack and execute_change_set refuse a stack that is busy, failed, gone
\* or was never created completely.
Updatable == Settled \ {"ROLLBACK_COMPLETE"}

\* The actions call_configs runs through the dependency graph ("generate"
\* goes around it, "update-migrate" has a function of its own).
Action == {"create", "update", "delete", "post_init", "pre_init"}
================================================================================
