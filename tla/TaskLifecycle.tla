--------------------------- MODULE TaskLifecycle ---------------------------
(***************************************************************************)
(* The vocabulary of plan tasks: statuses, the transition matrix of        *)
(* TaskStateMachine, and what one call of evaluate_dependencies computes,  *)
(* stated as a least fixed point rather than as the loop of the code.      *)
(* TaskDag shows that the loop computes exactly this; AgentRun uses the    *)
(* fixed point for the calls the engineering agent makes.                  *)
(*                                                                         *)
(* A plan is a pair of functions over its task ids: the status of each     *)
(* task and the ids it depends on.  A dependency may name an id that is    *)
(* no task of the plan: step numbers come from the language model and      *)
(* task n depends on "task-(n-1)" whether or not that step exists.         *)
(***************************************************************************)
EXTENDS Naturals

TaskStatus == {"PENDING", "READY", "RUNNING", "VERIFYING", "DIAGNOSING",
               "REPAIRING", "REVERIFYING", "PASSED", "FAILED", "BLOCKED",
               "SKIPPED"}

TerminalTask == {"PASSED", "FAILED", "BLOCKED", "SKIPPED"}

(* The statuses that block the tasks downstream of them.                   *)
BadTask == {"FAILED", "BLOCKED", "SKIPPED"}

(* ALLOWED_TRANSITIONS, one row per status that has any.                   *)
AllowedTask ==
    ({"PENDING"} \X {"READY", "BLOCKED", "SKIPPED"})
    \cup ({"READY"} \X {"RUNNING", "BLOCKED", "SKIPPED"})
    \cup ({"RUNNING"} \X {"VERIFYING", "FAILED", "BLOCKED"})
    \cup ({"VERIFYING"} \X {"PASSED", "FAILED", "DIAGNOSING", "BLOCKED"})
    \cup ({"DIAGNOSING"} \X {"REPAIRING", "BLOCKED", "FAILED"})
    \cup ({"REPAIRING"} \X {"REVERIFYING", "BLOCKED", "FAILED"})
    \cup ({"REVERIFYING"} \X {"PASSED", "DIAGNOSING", "FAILED", "BLOCKED"})
    \cup ({"FAILED"} \X {"DIAGNOSING", "REPAIRING", "BLOCKED", "PASSED"})

(* validate_transition accepts a status that does not change, and the      *)
(* pairs of the matrix.                                                    *)
CanTransitionTask(from, to) == from = to \/ <<from, to>> \in AllowedTask

----------------------------------------------------------------------------
(* One dependency check of a PENDING task.                                 *)

BlockedBy(t, status, deps) ==
    \E d \in deps[t] : d \notin DOMAIN status \/ status[d] \in BadTask

AllDepsPassed(t, status, deps) ==
    \A d \in deps[t] : d \in DOMAIN status /\ status[d] = "PASSED"

PendingTasks(status) == {t \in DOMAIN status : status[t] = "PENDING"}

(* A set of PENDING tasks that blocking does not lead out of.              *)
ClosedUnderBlocking(X, status, deps) ==
    \A t \in PendingTasks(status) :
        BlockedBy(t, status, deps) \/ deps[t] \cap X # {} => t \in X

(* The PENDING tasks that a missing, failed, blocked or skipped task       *)
(* reaches through PENDING tasks: the least closed set.                    *)
Doomed(status, deps) ==
    {t \in PendingTasks(status) :
        \A X \in SUBSET PendingTasks(status) :
            ClosedUnderBlocking(X, status, deps) => t \in X}

(* evaluate_dependencies: what the statuses are when it returns.           *)
Evaluated(status, deps) ==
    [t \in DOMAIN status |->
        IF status[t] # "PENDING" THEN status[t]
        ELSE IF t \in Doomed(status, deps) THEN "BLOCKED"
        ELSE IF AllDepsPassed(t, status, deps) THEN "READY"
        ELSE "PENDING"]

ReadyTasks(status) == {t \in DOMAIN status : status[t] = "READY"}

(* select_next_task's choice: tasks are ordered by step number.            *)
FirstReady(status) ==
    CHOOSE k \in ReadyTasks(status) : \A l \in ReadyTasks(status) : k <= l

IsPlanComplete(status) == \A t \in DOMAIN status : status[t] \in TerminalTask
=============================================================================
