------------------------------ MODULE TaskDag ------------------------------
(***************************************************************************)
(* TaskOrchestrator: the dependency graph of one in-memory plan and the    *)
(* task lifecycle driven over it.  One thread owns the Plan object, so the *)
(* interesting interleaving is inside evaluate_dependencies: a loop over   *)
(* the task list that mutates the statuses it reads, repeated until a      *)
(* whole pass changes nothing.  The loop is modelled visit by visit.       *)
(*                                                                         *)
(* The orchestrator evaluates any plan it is given, plans whose            *)
(* dependencies are cyclic or name no task included (GET /tasks evaluates  *)
(* a plan that failed validation too).                                     *)
(***************************************************************************)
EXTENDS TaskLifecycle, Sequences, FiniteSets

CONSTANTS
    Tasks,          \* task ids: step numbers, which order the selection
    DepChoices,     \* dependency functions a plan may have
    Orders,         \* orders in which plan.tasks may list the tasks
    RepairVerdicts, \* verdicts record_repair_result may be given
    MaxRepairs,     \* bound on repair results per behaviour
    NoTask          \* stands for None where a task id is expected

ASSUME TasksAssumption == Tasks \subseteq Nat /\ IsFiniteSet(Tasks)

ASSUME DepsAssumption == \A deps \in DepChoices : DOMAIN deps = Tasks

ASSUME OrdersAssumption ==
    \A o \in Orders : /\ o \in [1..Cardinality(Tasks) -> Tasks]
                      /\ \A t \in Tasks : \E i \in DOMAIN o : o[i] = t

ASSUME RepairAssumption ==
    RepairVerdicts \subseteq {"PASSED", "BLOCKED", "FAILED"}

VARIABLES
    deps,       \* task.dependencies of every task
    order,      \* plan.tasks, as a sequence of ids
    status,     \* task.status of every task
    pc,         \* where the owner of the plan is
    visit,      \* index of the next task the loop visits
    changed,    \* the loop's flag
    then,       \* where evaluate_dependencies returns to
    current,    \* the task being executed, if any
    repairs,    \* repair results recorded so far
    entry       \* history: the statuses when the last evaluation began

vars == <<deps, order, status, pc, visit, changed, then, current, repairs,
          entry>>

ASSUME NoTaskAssumption == NoTask \notin Tasks

PCs == {"idle", "eval", "start", "running", "verifying", "none_left"}

TypeOK ==
    /\ deps \in DepChoices
    /\ order \in Orders
    /\ status \in [Tasks -> TaskStatus]
    /\ pc \in PCs
    /\ visit \in Nat
    /\ changed \in BOOLEAN
    /\ then \in {"idle", "start"}
    /\ current \in Tasks \cup {NoTask}
    /\ repairs \in Nat
    /\ entry \in [Tasks -> TaskStatus]

Init ==
    /\ deps \in DepChoices
    /\ order \in Orders
    /\ status = [t \in Tasks |-> "PENDING"]
    /\ pc = "idle"
    /\ visit = 1
    /\ changed = FALSE
    /\ then = "idle"
    /\ current = NoTask
    /\ repairs = 0
    /\ entry = status

----------------------------------------------------------------------------
(* evaluate_dependencies(plan), called with the statuses st: the loop      *)
(* starts its first pass and control comes back to ret when it ends.       *)
CallEvaluate(st, ret) ==
    /\ status' = st
    /\ entry' = st
    /\ visit' = 1
    /\ changed' = FALSE
    /\ pc' = "eval"
    /\ then' = ret

(* Mutants of VisitOutcome: a task is unlocked by any dependency that      *)
(* passed; a dependency that is no task is skipped, as the validator does; *)
(* a missing dependency gets a status of its own.                          *)
VisitOutcomeAny(t) ==
    IF status[t] # "PENDING" THEN status[t]
    ELSE IF BlockedBy(t, status, deps) THEN "BLOCKED"
    ELSE IF deps[t] = {} \/ \E d \in deps[t] : status[d] = "PASSED"
    THEN "READY"
    ELSE "PENDING"

VisitOutcomeSkip(t) ==
    IF status[t] # "PENDING" THEN status[t]
    ELSE IF \E d \in deps[t] \cap Tasks : status[d] \in BadTask
    THEN "BLOCKED"
    ELSE IF AllDepsPassed(t, status, deps) THEN "READY"
    ELSE "PENDING"

VisitOutcomeMissing(t) ==
    IF status[t] = "PENDING" /\ ~(deps[t] \subseteq Tasks) THEN "MISSING"
    ELSE status[t]

(* What the loop does to the task it visits.                               *)
VisitOutcome(t) ==
    IF status[t] # "PENDING" THEN status[t]
    ELSE IF BlockedBy(t, status, deps) THEN "BLOCKED"
    ELSE IF AllDepsPassed(t, status, deps) THEN "READY"
    ELSE "PENDING"

Visit ==
    /\ pc = "eval" /\ visit \in DOMAIN order
    /\ LET t == order[visit] IN
        /\ status' = [status EXCEPT ![t] = VisitOutcome(t)]
        /\ changed' = (changed \/ VisitOutcome(t) # status[t])
    /\ visit' = visit + 1
    /\ UNCHANGED <<deps, order, pc, then, current, repairs, entry>>

(* Mutants of EndPass: one pass only; the flag is never reset.             *)
EndPassOnce ==
    /\ pc = "eval" /\ visit \notin DOMAIN order
    /\ visit' = 1
    /\ changed' = FALSE
    /\ pc' = then
    /\ UNCHANGED <<deps, order, status, then, current, repairs, entry>>

EndPassSticky ==
    /\ pc = "eval" /\ visit \notin DOMAIN order
    /\ visit' = 1
    /\ pc' = IF changed THEN "eval" ELSE then
    /\ UNCHANGED <<deps, order, status, changed, then, current, repairs,
                   entry>>

(* The end of a pass: another one if anything changed, else return.        *)
EndPass ==
    /\ pc = "eval" /\ visit \notin DOMAIN order
    /\ visit' = 1
    /\ changed' = FALSE
    /\ pc' = IF changed THEN "eval" ELSE then
    /\ UNCHANGED <<deps, order, status, then, current, repairs, entry>>

(* get_plan_tasks / start_plan_execution: an evaluation and nothing more.  *)
EvaluateOnly ==
    /\ pc = "idle"
    /\ CallEvaluate(status, "idle")
    /\ UNCHANGED <<deps, order, current, repairs>>

(* select_next_task evaluates first ...                                    *)
SelectNextTask ==
    /\ pc = "idle"
    /\ CallEvaluate(status, "start")
    /\ UNCHANGED <<deps, order, current, repairs>>

(* ... and takes the first READY task by step number, which start_task     *)
(* moves to RUNNING; with no READY task it returns None.                   *)
StartTask ==
    /\ pc = "start" /\ ReadyTasks(status) # {}
    /\ current' = FirstReady(status)
    /\ status' = [status EXCEPT ![current'] = "RUNNING"]
    /\ pc' = "running"
    /\ UNCHANGED <<deps, order, visit, changed, then, repairs, entry>>

NoneLeft ==
    /\ pc = "start" /\ ReadyTasks(status) = {}
    /\ pc' = "none_left"
    /\ UNCHANGED <<deps, order, status, visit, changed, then, current,
                   repairs, entry>>

(* complete_task_execution: success leads to VERIFYING, failure to FAILED  *)
(* and an evaluation that blocks what is downstream.                       *)
CompleteSuccess ==
    /\ pc = "running" /\ status[current] = "RUNNING"
    /\ status' = [status EXCEPT ![current] = "VERIFYING"]
    /\ pc' = "verifying"
    /\ UNCHANGED <<deps, order, visit, changed, then, current, repairs, entry>>

(* Mutant of CompleteFailure: the task is made READY again.                *)
CompleteRetry ==
    /\ pc = "running" /\ status[current] = "RUNNING"
    /\ CallEvaluate([status EXCEPT ![current] = "READY"], "idle")
    /\ current' = NoTask
    /\ UNCHANGED <<deps, order, repairs>>

CompleteFailure ==
    /\ pc = "running" /\ status[current] = "RUNNING"
    /\ CallEvaluate([status EXCEPT ![current] = "FAILED"], "idle")
    /\ current' = NoTask
    /\ UNCHANGED <<deps, order, repairs>>

(* record_verification_result: PASSED or FAILED, then an evaluation.       *)
RecordVerification ==
    /\ pc = "verifying" /\ status[current] = "VERIFYING"
    /\ \E verdict \in {"PASSED", "FAILED"} :
          CallEvaluate([status EXCEPT ![current] = verdict], "idle")
    /\ current' = NoTask
    /\ UNCHANGED <<deps, order, repairs>>

(* record_repair_result: any move the matrix allows to the verdict's       *)
(* status, then an evaluation.                                             *)
RecordRepair ==
    /\ pc \in {"idle", "none_left"} /\ repairs < MaxRepairs
    /\ \E t \in Tasks, verdict \in RepairVerdicts :
          /\ CanTransitionTask(status[t], verdict)
          /\ CallEvaluate([status EXCEPT ![t] = verdict], "idle")
    /\ repairs' = repairs + 1
    /\ UNCHANGED <<deps, order, current>>

Next == \/ EvaluateOnly \/ SelectNextTask \/ Visit \/ EndPass
        \/ StartTask \/ NoneLeft
        \/ CompleteSuccess \/ CompleteFailure \/ RecordVerification
        \/ RecordRepair

(* One thread runs the executor's loop to its end: every step of it that   *)
(* stays enabled is taken.  Nobody is bound to ask for an evaluation or to *)
(* record a repair.                                                        *)
Fairness ==
    /\ WF_vars(Visit \/ EndPass)
    /\ SF_vars(SelectNextTask)
    /\ WF_vars(StartTask \/ NoneLeft)
    /\ WF_vars(CompleteSuccess \/ CompleteFailure)
    /\ WF_vars(RecordVerification)

Spec == Init /\ [][Next]_vars /\ Fairness
----------------------------------------------------------------------------
(* The visits, the passes and the callers' waits for them amount to a plan *)
(* that is evaluated in one step, as the engineering agent takes it to be: *)
(* until the loop returns, whatever it mutates on the way, the plan is the *)
(* one the call was made on, and then it is the least fixed point.         *)
Atomic == INSTANCE PlanExecution
              WITH status <- IF pc \in {"eval", "start"} THEN entry ELSE status,
                   finished <- pc = "none_left"

AtomicEvaluation == Atomic!Spec

(* A task that runs, is verified, passed or failed did so after every task *)
(* it depends on passed, and those are PASSED still: select_next_task      *)
(* never unlocks a task early and no later result takes a pass back.       *)
DependencyOrder ==
    \A t \in Tasks :
        status[t] \in {"READY", "RUNNING", "VERIFYING", "PASSED", "FAILED"}
            => AllDepsPassed(t, status, deps)

Acyclic ==
    \A X \in SUBSET Tasks :
        X # {} => \E t \in X : deps[t] \cap X = {}

(* When select_next_task returns None the executor ends the run, so unless *)
(* the dependencies are cyclic no task may be left unresolved: missing     *)
(* dependencies must have been turned into BLOCKED, not left PENDING.      *)
NoneMeansComplete ==
    pc = "none_left" /\ Acyclic => IsPlanComplete(status)

(* evaluate_dependencies always returns, on cyclic plans too.              *)
EvaluationReturns == pc = "eval" ~> pc # "eval"

(* The executor's loop reaches the end of the plan, whichever tasks fail.  *)
ExecutorEnds == <>(pc = "none_left")
=============================================================================
