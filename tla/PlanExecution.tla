--------------------------- MODULE PlanExecution ---------------------------
(***************************************************************************)
(* What the callers of TaskOrchestrator rely on: a plan whose dependencies *)
(* are evaluated in one step, and from whose first READY task the next one *)
(* starts.  The engineering agent reads and writes the statuses between    *)
(* those steps only.  TaskDag, where the evaluation is a loop over the     *)
(* list that mutates what it reads, implements this.                       *)
(***************************************************************************)
EXTENDS TaskLifecycle

CONSTANTS Tasks, RepairVerdicts, NoTask

VARIABLES
    deps,       \* what each task depends on
    status,     \* the statuses between two calls
    current,    \* the task being executed, if any
    finished    \* there was nothing left to start

vars == <<deps, status, current, finished>>

Init ==
    /\ status = [t \in Tasks |-> "PENDING"]
    /\ current = NoTask
    /\ finished = FALSE

Evaluate ==
    /\ current = NoTask
    /\ status' = Evaluated(status, deps)
    /\ finished' = FALSE
    /\ UNCHANGED <<deps, current>>

Start ==
    /\ current = NoTask
    /\ LET now == Evaluated(status, deps) IN
          /\ ReadyTasks(now) # {}
          /\ current' = FirstReady(now)
          /\ status' = [now EXCEPT ![current'] = "RUNNING"]
    /\ finished' = FALSE
    /\ UNCHANGED deps

Finish ==
    /\ current = NoTask
    /\ status' = Evaluated(status, deps)
    /\ ReadyTasks(status') = {}
    /\ finished' = TRUE
    /\ UNCHANGED <<deps, current>>

Succeed ==
    /\ current # NoTask /\ status[current] = "RUNNING"
    /\ status' = [status EXCEPT ![current] = "VERIFYING"]
    /\ UNCHANGED <<deps, current, finished>>

(* The end of a task: a failed execution or a verdict on one that          *)
(* succeeded.                                                              *)
End(verdict) ==
    /\ current # NoTask
    /\ \/ status[current] = "RUNNING" /\ verdict = "FAILED"
       \/ status[current] = "VERIFYING"
    /\ status' = [status EXCEPT ![current] = verdict]
    /\ current' = NoTask
    /\ UNCHANGED <<deps, finished>>

Repair(t, verdict) ==
    /\ current = NoTask
    /\ CanTransitionTask(status[t], verdict)
    /\ status' = [status EXCEPT ![t] = verdict]
    /\ finished' = FALSE
    /\ UNCHANGED <<deps, current>>

Next ==
    \/ Evaluate \/ Start \/ Finish \/ Succeed
    \/ \E verdict \in {"PASSED", "FAILED"} : End(verdict)
    \/ \E t \in Tasks, verdict \in RepairVerdicts : Repair(t, verdict)

Spec == Init /\ [][Next]_vars
=============================================================================
