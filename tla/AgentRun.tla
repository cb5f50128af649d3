------------------------------ MODULE AgentRun ------------------------------
(***************************************************************************)
(* One engineering-agent run: its row in agent_runs, its plan-approval     *)
(* requests, and the server threads that handle requests about it.         *)
(*                                                                         *)
(* A thread serves one request from beginning to end, background task      *)
(* included (the framework runs it in the same request).  Its database     *)
(* session caches the row it loaded until its next commit, so every        *)
(* handler is a chain of two kinds of steps: one that loads the row and    *)
(* decides, one that writes what was decided, whatever the row holds by    *)
(* then.  State and metadata are separate columns; the plan is part of the *)
(* metadata, which is always written as a whole.                           *)
(***************************************************************************)
EXTENDS TaskLifecycle, Sequences

CONSTANTS
    Threads,     \* request threads
    Kinds,       \* the requests clients send, a subset of RequestKinds
    Tasks,       \* task ids: step numbers, which order the selection
    DepChoices,  \* dependency functions, over subsets of Tasks, of plans
    MaxPlans,    \* bound: plans synthesised successfully per behaviour
    MaxRestarts, \* bound: restarts of the server per behaviour
    NoTask       \* stands for None where a task id is expected

RequestKinds == {"plan", "revise", "context", "approve", "execute", "next",
                 "cancel", "reject", "transition", "resolve"}

ASSUME ThreadsAssumption == Threads # {}

ASSUME KindsAssumption == Kinds \subseteq RequestKinds

ASSUME TasksAssumption == Tasks \subseteq Nat /\ NoTask \notin Tasks

ASSUME DepsAssumption == \A d \in DepChoices : DOMAIN d \subseteq Tasks

ASSUME BoundsAssumption == MaxPlans \in Nat /\ MaxRestarts \in Nat

PlanIds == 1..MaxPlans

----------------------------------------------------------------------------
(* AgentStateMachine.                                                      *)

Terminal == {"COMPLETED", "FAILED", "CANCELLED"}

AgentState == {"IDLE", "UNDERSTANDING", "PLANNING", "AWAITING_APPROVAL",
               "EXECUTING", "VERIFYING"} \cup Terminal

ValidTransitions ==
    ({"IDLE"} \X {"UNDERSTANDING", "FAILED", "CANCELLED"})
    \cup ({"UNDERSTANDING"} \X {"PLANNING", "AWAITING_APPROVAL", "EXECUTING",
                                "COMPLETED", "FAILED", "CANCELLED"})
    \cup ({"PLANNING"} \X {"AWAITING_APPROVAL", "EXECUTING", "FAILED",
                           "CANCELLED"})
    \cup ({"AWAITING_APPROVAL"} \X {"EXECUTING", "PLANNING", "FAILED",
                                    "CANCELLED"})
    \cup ({"EXECUTING"} \X {"AWAITING_APPROVAL", "VERIFYING", "COMPLETED",
                            "FAILED", "CANCELLED"})
    \cup ({"VERIFYING"} \X {"COMPLETED", "FAILED", "CANCELLED"})

----------------------------------------------------------------------------
(* A plan copy: which plan it is a copy of, its status and its tasks'.     *)
(* What never changes about a plan, its dependencies and the validator's   *)
(* verdict, is held once per plan id.                                      *)

PlanStatus == {"NONE", "READY_FOR_APPROVAL", "APPROVED", "REJECTED",
               "INVALID"}

TaskStatuses == UNION {[D -> TaskStatus] : D \in SUBSET Tasks}

Plan == [id : 0..MaxPlans, status : PlanStatus, tasks : TaskStatuses]

NoPlan == [id |-> 0, status |-> "NONE", tasks |-> [t \in {} |-> "PENDING"]]

ApprovalStatus == {"PENDING", "APPROVED", "REJECTED", "EXPIRED"}

Request == [pid : PlanIds, status : ApprovalStatus, at : Nat]

VARIABLES
    state,      \* agent_runs.current_state
    plan,       \* agent_runs.metadata_json["plan"]
    reqs,       \* the PLAN_APPROVAL rows, in order of requested_at
    clock,      \* approvals so far: orders their resolved_at
    deps,       \* the dependencies the model gives each plan
    valid,      \* the verdict PlanValidator gives each plan
    planned,    \* plans synthesised so far
    restarts,   \* restarts so far
    th,         \* the threads
    approved,   \* history: plans an approval row was ever APPROVED for
    succeeded   \* history: <<plan, task>> whose execution succeeded

vars == <<state, plan, reqs, clock, deps, valid, planned, restarts, th,
          approved, succeeded>>

PCs == {"idle", "commit", "create", "g_enter", "sync", "sync_commit",
        "g_route", "g_synth", "g_write", "g_info", "g_await", "g_request",
        "g_error", "ctx", "pl_ctx", "ctx_commit", "pl_synth", "pl_write",
        "pl_expire", "pl_await", "pl_request", "ap_write", "ap_find",
        "ap_create", "resolve", "st_load", "st_save", "st_transition",
        "bg_load", "bg_exec", "bg_write", "cx_mark", "cx_commit",
        "rj_write", "rj_load", "rj_resolve", "rj_transition", "aa_load"}

(* What a thread holds: the plan object it read or made, the task it       *)
(* executes, the approval row it resolves, the rows it lists to resolve    *)
(* after that, the value it is about to write, where it continues, the     *)
(* executor's has_failure, and the state run_graph's own session cached    *)
(* when the graph started.                                                 *)
Thread == [pc : PCs, local : Plan, task : Tasks \cup {NoTask}, req : Nat,
           rows : SUBSET Nat,
           goal : AgentState \cup {"APPROVED", "REJECTED"}, after : PCs,
           failed : BOOLEAN, entered : AgentState]

Idle == [pc |-> "idle", local |-> NoPlan, task |-> NoTask, req |-> 0,
         rows |-> {}, goal |-> "IDLE", after |-> "idle", failed |-> FALSE,
         entered |-> "IDLE"]

TypeOK ==
    /\ state \in AgentState
    /\ plan \in Plan
    /\ reqs \in Seq(Request)
    /\ clock \in Nat
    /\ deps \in [PlanIds -> DepChoices]
    /\ valid \in [PlanIds -> BOOLEAN]
    /\ planned \in 0..MaxPlans
    /\ restarts \in 0..MaxRestarts
    /\ th \in [Threads -> Thread]
    /\ approved \subseteq PlanIds
    /\ succeeded \subseteq PlanIds \X Tasks

(* create_run has inserted the row in IDLE; the thread that did so goes on. *)
Init ==
    /\ state = "IDLE"
    /\ plan = NoPlan
    /\ reqs = <<>>
    /\ clock = 0
    /\ deps \in [PlanIds -> DepChoices]
    /\ valid \in [PlanIds -> BOOLEAN]
    /\ planned = 0
    /\ restarts = 0
    /\ \E c \in Threads :
          th = [t \in Threads |->
                   IF t = c THEN [Idle EXCEPT !.pc = "create"] ELSE Idle]
    /\ approved = {}
    /\ succeeded = {}

----------------------------------------------------------------------------
(* Thread bookkeeping.                                                     *)

Become(t, r) == th' = [th EXCEPT ![t] = r]

Return(t) == Become(t, Idle)

Goto(t, pc) == Become(t, [th[t] EXCEPT !.pc = pc])

(* Where a step ends that several handlers share, with what is needed on.  *)
Continued(t) ==
    IF th[t].after = "idle" THEN Idle
    ELSE [Idle EXCEPT !.pc = th[t].after, !.after = th[t].after,
                      !.local = th[t].local, !.entered = th[t].entered,
                      !.rows = th[t].rows]

unchangedRun == UNCHANGED <<state, plan, reqs, clock, planned, approved,
                            succeeded>>
unchangedEnv == UNCHANGED <<deps, valid, restarts>>

----------------------------------------------------------------------------
(* transition_state, first half: validate the move from the state this     *)
(* session has loaded; an invalid one raises and ends the request.         *)
TransitionTo(t, from, to, then) ==
    IF <<from, to>> \in ValidTransitions
    THEN Become(t, [th[t] EXCEPT !.pc = "commit", !.goal = to,
                                 !.after = then])
    ELSE Return(t)

(* Second half: write the new state over whatever the row holds by now.    *)
Commit(t) ==
    /\ th[t].pc = "commit"
    /\ state' = th[t].goal
    /\ Become(t, Continued(t))
    /\ UNCHANGED <<plan, reqs, clock, planned, approved, succeeded>>
    /\ unchangedEnv

----------------------------------------------------------------------------
(* Approval rows.                                                          *)

Pending == {i \in DOMAIN reqs : reqs[i].status = "PENDING"}

Live == {i \in DOMAIN reqs : reqs[i].status \in {"PENDING", "APPROVED"}}

(* The row assert_execution_authorized looks at: the APPROVED one that was *)
(* resolved last.                                                          *)
IsLatestApproved(i) ==
    /\ reqs[i].status = "APPROVED"
    /\ \A j \in DOMAIN reqs :
          reqs[j].status = "APPROVED" => reqs[j].at <= reqs[i].at

(* Mutant of NewRequest: requested_operation is left empty.                *)
NewRequestUnbound(pid) == [pid |-> 0, status |-> "PENDING", at |-> 0]

NewRequest(pid) == [pid |-> pid, status |-> "PENDING", at |-> 0]

(* Mutant of Authorized: the approval's plan id is not compared.           *)
AuthorizedByAny(p) ==
    /\ p.status = "APPROVED"
    /\ valid[p.id]
    /\ \E i \in DOMAIN reqs : IsLatestApproved(i)

(* assert_execution_authorized on plan copy p, but for the ownership and   *)
(* the repository-revision checks.                                         *)
Authorized(p) ==
    /\ p.status = "APPROVED"
    /\ valid[p.id]
    /\ \E i \in DOMAIN reqs : IsLatestApproved(i) /\ reqs[i].pid = p.id

NewPlan(id) ==
    [id |-> id,
     status |-> IF valid[id] THEN "READY_FOR_APPROVAL" ELSE "INVALID",
     tasks |-> [k \in DOMAIN deps[id] |-> "PENDING"]]

(* Mutant of EvaluatedPlan: unlocks tasks without looking upstream.        *)
EvaluatedPlanEager(p) ==
    [p EXCEPT !.tasks = [k \in DOMAIN p.tasks |->
        IF p.tasks[k] = "PENDING" THEN "READY" ELSE p.tasks[k]]]

(* evaluate_dependencies on a plan object.                                 *)
EvaluatedPlan(p) ==
    IF p.id = 0 THEN p
    ELSE [p EXCEPT !.tasks = Evaluated(p.tasks, deps[p.id])]

----------------------------------------------------------------------------
(* POST /runs: create_run, then run_graph as a background task.            *)

Create(t) ==
    /\ th[t].pc = "create"
    /\ TransitionTo(t, state, "UNDERSTANDING", "g_enter")
    /\ unchangedRun /\ unchangedEnv

(* run_graph loads the run in its own session and never refreshes it.      *)
GraphEnter(t) ==
    /\ th[t].pc = "g_enter"
    /\ Become(t, [th[t] EXCEPT !.pc = "sync", !.after = "g_route",
                               !.entered = state])
    /\ unchangedRun /\ unchangedEnv

(* sync_graph_state_to_run for a node with no plan to store: read the      *)
(* metadata, write all of it back.                                         *)
SyncLoad(t) ==
    /\ th[t].pc = "sync"
    /\ Become(t, [th[t] EXCEPT !.pc = "sync_commit", !.local = plan])
    /\ unchangedRun /\ unchangedEnv

SyncCommit(t) ==
    /\ th[t].pc = "sync_commit"
    /\ plan' = th[t].local
    /\ Become(t, [Continued(t) EXCEPT !.local = NoPlan])
    /\ UNCHANGED <<state, reqs, clock, planned, approved, succeeded>>
    /\ unchangedEnv

(* route_by_intent: chat, explore, explain and clarify only answer; plan   *)
(* and implement synthesise a plan.  A node that raises fails the graph.   *)
GraphRoute(t) ==
    /\ th[t].pc = "g_route"
    /\ \/ Become(t, [th[t] EXCEPT !.pc = "sync", !.after = "g_info"])
       \/ Become(t, [th[t] EXCEPT !.pc = "g_synth", !.after = "g_info"])
       \/ Become(t, [th[t] EXCEPT !.pc = "g_synth", !.after = "g_await"])
       \/ Goto(t, "g_error")
    /\ unchangedRun /\ unchangedEnv

(* A synthesis hands the thread a new plan object, valid or not.           *)
Synthesised(t, pc) ==
    /\ planned < MaxPlans
    /\ planned' = planned + 1
    /\ Become(t, [th[t] EXCEPT !.pc = pc, !.local = NewPlan(planned + 1)])
    /\ UNCHANGED <<state, plan, reqs, clock, approved, succeeded>>

GraphSynth(t) ==
    /\ th[t].pc = "g_synth"
    /\ \/ Synthesised(t, "g_write")
       \/ Goto(t, "g_error") /\ unchangedRun
    /\ unchangedEnv

(* plan_terminal and implement_terminal store the plan they synthesised.   *)
GraphWrite(t) ==
    /\ th[t].pc = "g_write"
    /\ plan' = th[t].local
    /\ Become(t, Continued(t))
    /\ UNCHANGED <<state, reqs, clock, planned, approved, succeeded>>
    /\ unchangedEnv

(* The terminals that only answer complete a run that is not terminal; a   *)
(* move the state machine refuses is logged and dropped.                   *)
GraphInfo(t) ==
    /\ th[t].pc = "g_info"
    /\ IF state \in Terminal THEN Return(t)
       ELSE TransitionTo(t, state, "COMPLETED", "idle")
    /\ unchangedRun /\ unchangedEnv

(* implement_terminal asks for approval, of an invalid plan too.           *)
GraphAwait(t) ==
    /\ th[t].pc = "g_await"
    /\ IF state \in {"IDLE", "UNDERSTANDING", "PLANNING"}
       THEN TransitionTo(t, state, "AWAITING_APPROVAL", "g_request")
       ELSE Goto(t, "g_request")
    /\ unchangedRun /\ unchangedEnv

(* run_graph's handler decides on the row cached when the graph started.   *)
GraphError(t) ==
    /\ th[t].pc = "g_error"
    /\ IF th[t].entered \in Terminal THEN Return(t)
       ELSE TransitionTo(t, th[t].entered, "FAILED", "idle")
    /\ unchangedRun /\ unchangedEnv

(* create_approval_request for the plan the thread holds, which ends both  *)
(* the graph's and the endpoint's way of making a plan.                    *)
RequestApproval(t) ==
    /\ th[t].pc \in {"g_request", "pl_request"}
    /\ reqs' = Append(reqs, NewRequest(th[t].local.id))
    /\ Return(t)
    /\ UNCHANGED <<state, plan, clock, planned, approved, succeeded>>
    /\ unchangedEnv

----------------------------------------------------------------------------
(* POST /runs/{id}/plan and /plan/revise: create_plan.                     *)

(* The idempotent return, for a plan already awaiting its approval.        *)
AlreadyPlanned ==
    /\ state = "AWAITING_APPROVAL"
    /\ plan.id # 0 /\ valid[plan.id]
    /\ Live # {}

PlanBegin(t, force) ==
    /\ th[t].pc = "idle"
    /\ state \notin Terminal
    /\ force \/ ~AlreadyPlanned
    /\ IF state \in {"IDLE", "UNDERSTANDING", "AWAITING_APPROVAL"}
       THEN TransitionTo(t, state, "PLANNING", "pl_ctx")
       ELSE Goto(t, "pl_ctx")
    /\ unchangedRun /\ unchangedEnv

(* POST /runs/{id}/context.                                                *)
ContextBegin(t) ==
    /\ th[t].pc = "idle"
    /\ state \notin Terminal
    /\ Goto(t, "ctx")
    /\ unchangedRun /\ unchangedEnv

(* assemble_repository_context refuses terminal runs and reads the         *)
(* metadata before the assembly ...  An event committed between the two    *)
(* reloads the row, so a run that passed the check when the step began may *)
(* be terminal by the time its metadata is read.                           *)
ContextLoad(t) ==
    /\ th[t].pc \in {"ctx", "pl_ctx"}
    /\ \/ state \in Terminal /\ Return(t)
       \/ Become(t, [th[t] EXCEPT
                !.pc = "ctx_commit", !.local = plan,
                !.after = IF th[t].pc = "pl_ctx" THEN "pl_synth" ELSE "idle"])
    /\ unchangedRun /\ unchangedEnv

(* ... and writes what it read back after it.  A failed assembly ends the  *)
(* request.                                                                *)
ContextCommit(t) ==
    /\ th[t].pc = "ctx_commit"
    /\ \/ plan' = th[t].local
          /\ Become(t, [Continued(t) EXCEPT !.local = NoPlan])
       \/ plan' = plan /\ Return(t)
    /\ UNCHANGED <<state, reqs, clock, planned, approved, succeeded>>
    /\ unchangedEnv

(* PlanningOrchestrator.create_plan; an exception ends the request and     *)
(* leaves the run in the state it is in.                                   *)
PlanSynth(t) ==
    /\ th[t].pc = "pl_synth"
    /\ \/ Synthesised(t, "pl_write")
       \/ Return(t) /\ unchangedRun
    /\ unchangedEnv

PlanWrite(t) ==
    /\ th[t].pc = "pl_write"
    /\ plan' = th[t].local
    /\ IF valid[th[t].local.id] THEN Goto(t, "pl_expire") ELSE Return(t)
    /\ UNCHANGED <<state, reqs, clock, planned, approved, succeeded>>
    /\ unchangedEnv

(* Mutant of PlanExpire: only the PENDING rows expire.                     *)
PlanExpirePending(t) ==
    /\ th[t].pc = "pl_expire"
    /\ reqs' = [i \in DOMAIN reqs |->
                   IF i \in Pending THEN [reqs[i] EXCEPT !.status = "EXPIRED"]
                   ELSE reqs[i]]
    /\ Goto(t, "pl_await")
    /\ UNCHANGED <<state, plan, clock, planned, approved, succeeded>>
    /\ unchangedEnv

(* Earlier approvals and requests do not speak for the new plan.           *)
PlanExpire(t) ==
    /\ th[t].pc = "pl_expire"
    /\ reqs' = [i \in DOMAIN reqs |->
                   IF i \in Live THEN [reqs[i] EXCEPT !.status = "EXPIRED"]
                   ELSE reqs[i]]
    /\ Goto(t, "pl_await")
    /\ UNCHANGED <<state, plan, clock, planned, approved, succeeded>>
    /\ unchangedEnv

PlanAwait(t) ==
    /\ th[t].pc = "pl_await"
    /\ IF state = "PLANNING"
       THEN TransitionTo(t, state, "AWAITING_APPROVAL", "pl_request")
       ELSE Goto(t, "pl_request")
    /\ unchangedRun /\ unchangedEnv

----------------------------------------------------------------------------
(* start_plan_execution up to its first commit.  A run that already        *)
(* executes is returned as a success, and the caller adds its background   *)
(* task all the same.  "moved" is the repository-revision mismatch.        *)
StartChecks(t, moved) ==
    IF state = "EXECUTING"
    THEN Become(t, [Idle EXCEPT !.pc = "bg_load", !.after = "bg_load"])
    ELSE IF state = "AWAITING_APPROVAL" /\ ~moved /\ Authorized(plan)
    THEN Become(t, [Idle EXCEPT !.pc = "st_save",
                                !.local = EvaluatedPlan(plan)])
    ELSE Return(t)

(* Mutant of ApproveBegin: the plan's status is not checked.               *)
ApproveAnyBegin(t) ==
    /\ th[t].pc = "idle"
    /\ state = "AWAITING_APPROVAL" /\ plan.id # 0
    /\ Become(t, [th[t] EXCEPT !.pc = "ap_write",
                     !.local = [plan EXCEPT !.status = "APPROVED"]])
    /\ unchangedRun /\ unchangedEnv

(* POST /runs/{id}/plan/approve, up to approve_plan's first commit.  A     *)
(* plan already APPROVED goes to start_plan_execution on the same row.     *)
ApproveBegin(t) ==
    /\ th[t].pc = "idle"
    /\ state = "AWAITING_APPROVAL" /\ plan.id # 0
    /\ \/ /\ plan.status = "READY_FOR_APPROVAL"
          /\ Become(t, [th[t] EXCEPT !.pc = "ap_write",
                           !.local = [plan EXCEPT !.status = "APPROVED"]])
       \/ /\ plan.status = "APPROVED"
          /\ \E moved \in BOOLEAN : StartChecks(t, moved)
    /\ unchangedRun /\ unchangedEnv

ApproveWrite(t) ==
    /\ th[t].pc = "ap_write"
    /\ plan' = th[t].local
    /\ Goto(t, "ap_find")
    /\ UNCHANGED <<state, reqs, clock, planned, approved, succeeded>>
    /\ unchangedEnv

(* The approval row to resolve: the oldest PENDING one, whichever plan it  *)
(* names; a new one if the run never had any; else none.                   *)
ApproveFind(t) ==
    /\ th[t].pc = "ap_find"
    /\ \/ \E i \in Pending :
             /\ \A j \in Pending : i <= j
             /\ Become(t, [Idle EXCEPT !.pc = "resolve", !.req = i,
                              !.goal = "APPROVED", !.after = "st_load"])
       \/ reqs = <<>> /\ Goto(t, "ap_create")
       \/ /\ Pending = {} /\ reqs # <<>>
          /\ Become(t, [Idle EXCEPT !.pc = "st_load"])
    /\ unchangedRun /\ unchangedEnv

(* The new row, made whatever others have asked for by then.               *)
ApproveCreate(t) ==
    /\ th[t].pc = "ap_create"
    /\ reqs' = Append(reqs, NewRequest(th[t].local.id))
    /\ Become(t, [Idle EXCEPT !.pc = "resolve", !.req = Len(reqs) + 1,
                     !.goal = "APPROVED", !.after = "st_load"])
    /\ UNCHANGED <<state, plan, clock, planned, approved, succeeded>>
    /\ unchangedEnv

(* approve_request / reject_request: the write, after the PENDING check.   *)
Resolve(t) ==
    /\ th[t].pc = "resolve"
    /\ LET i == th[t].req IN
        \/ /\ th[t].goal = "APPROVED"
           /\ reqs' = [reqs EXCEPT ![i] = [@ EXCEPT !.status = "APPROVED",
                                                    !.at = clock + 1]]
           /\ clock' = clock + 1
           /\ approved' = approved \cup {reqs[i].pid}
        \/ /\ th[t].goal = "REJECTED"
           /\ reqs' = [reqs EXCEPT ![i] = [@ EXCEPT !.status = "REJECTED"]]
           /\ UNCHANGED <<clock, approved>>
    /\ Become(t, Continued(t))
    /\ UNCHANGED <<state, plan, planned, succeeded>>
    /\ unchangedEnv

StartLoad(t) ==
    /\ th[t].pc = "st_load"
    /\ \E moved \in BOOLEAN : StartChecks(t, moved)
    /\ unchangedRun /\ unchangedEnv

(* POST /runs/{id}/execute.                                                *)
ExecuteBegin(t) ==
    /\ th[t].pc = "idle"
    /\ state = "AWAITING_APPROVAL" /\ Authorized(plan)
    /\ StartChecks(t, FALSE)
    /\ unchangedRun /\ unchangedEnv

StartSave(t) ==
    /\ th[t].pc = "st_save"
    /\ plan' = th[t].local
    /\ Become(t, [Idle EXCEPT !.pc = "st_transition"])
    /\ UNCHANGED <<state, reqs, clock, planned, approved, succeeded>>
    /\ unchangedEnv

StartTransition(t) ==
    /\ th[t].pc = "st_transition"
    /\ TransitionTo(t, state, "EXECUTING", "bg_load")
    /\ unchangedRun /\ unchangedEnv

----------------------------------------------------------------------------
(* The executor: _background_execute_approved_plan calls execute_next_task *)
(* until it returns None (after = "bg_load"); POST /runs/{id}/tasks/next   *)
(* calls it once (after = "idle").                                         *)

Looping(t) == th[t].after = "bg_load"

NextBegin(t) ==
    /\ th[t].pc = "idle"
    /\ state = "EXECUTING" /\ Authorized(plan)
    /\ Goto(t, "bg_load")
    /\ unchangedRun /\ unchangedEnv

(* complete_run on a row that was loaded in state "from".                  *)
CompleteRun(t, from, success) ==
    IF from \in {"EXECUTING", "VERIFYING"}
    THEN TransitionTo(t, from, IF success THEN "COMPLETED" ELSE "FAILED",
                      "idle")
    ELSE Return(t)

(* execute_next_task raised: the loop fails the run, the endpoint answers  *)
(* with an error.                                                          *)
Raised(t, from) ==
    IF Looping(t) THEN CompleteRun(t, from, FALSE) ELSE Return(t)

(* No task is READY: the loop takes the plan for finished.                 *)
Finished(t) ==
    IF Looping(t) THEN CompleteRun(t, state, ~th[t].failed) ELSE Return(t)

(* execute_next_task up to the call of the executor.  The selected task is *)
(* RUNNING only in the plan object of this thread.                         *)
TaskSelect(t) ==
    /\ th[t].pc = "bg_load"
    /\ LET p == EvaluatedPlan(plan)
           k == FirstReady(p.tasks)
       IN \/ Raised(t, state)
          \/ /\ state = "EXECUTING" /\ Authorized(plan)
             /\ IF ReadyTasks(p.tasks) = {} THEN Finished(t)
                ELSE Become(t, [th[t] EXCEPT
                         !.pc = "bg_exec", !.task = k,
                         !.local = [p EXCEPT !.tasks[k] = "RUNNING"]])
    /\ unchangedRun /\ unchangedEnv

(* Mutant of WithResult: a failed task is put back to be tried again.      *)
WithRetry(p, k, verdict) ==
    [p EXCEPT !.tasks[k] = IF verdict = "FAILED" THEN "READY" ELSE verdict]

(* Mutant of WithResult: the result is taken for a success.                *)
WithSuccess(p, k, verdict) == EvaluatedPlan([p EXCEPT !.tasks[k] = "PASSED"])

(* The executor's result, recorded in the plan object and propagated.      *)
WithResult(p, k, verdict) ==
    EvaluatedPlan([p EXCEPT !.tasks[k] = verdict])

(* The default verifier passes exactly the executions that succeeded.  An  *)
(* exception is handled on the row as it was when the task was selected,   *)
(* or as the commit of an event reloaded it.                               *)
TaskExecute(t) ==
    /\ th[t].pc = "bg_exec"
    /\ LET p == th[t].local
           k == th[t].task
       IN \/ /\ Become(t, [th[t] EXCEPT !.pc = "bg_write",
                               !.local = WithResult(p, k, "PASSED")])
             /\ succeeded' = succeeded \cup {<<p.id, k>>}
          \/ /\ Become(t, [th[t] EXCEPT !.pc = "bg_write", !.failed = TRUE,
                               !.local = WithResult(p, k, "FAILED")])
             /\ UNCHANGED succeeded
          \/ /\ \E from \in {"EXECUTING", state} : Raised(t, from)
             /\ UNCHANGED succeeded
    /\ UNCHANGED <<state, plan, reqs, clock, planned, approved>>
    /\ unchangedEnv

(* Mutant of TaskWrite: the result is not stored.                          *)
TaskForget(t) ==
    /\ th[t].pc = "bg_write"
    /\ Become(t, IF Looping(t)
                 THEN [Idle EXCEPT !.pc = "bg_load", !.after = "bg_load"]
                 ELSE Idle)
    /\ unchangedRun /\ unchangedEnv

(* The whole plan object replaces the stored plan, whatever is stored by   *)
(* then.                                                                   *)
TaskWrite(t) ==
    /\ th[t].pc = "bg_write"
    /\ plan' = th[t].local
    /\ Become(t, IF Looping(t)
                 THEN [Idle EXCEPT !.pc = "bg_load", !.after = "bg_load",
                                   !.failed = th[t].failed]
                 ELSE Idle)
    /\ UNCHANGED <<state, reqs, clock, planned, approved, succeeded>>
    /\ unchangedEnv

----------------------------------------------------------------------------
(* POST /runs/{id}/cancel: the check, a commit of an event that reloads    *)
(* the row, and the write.                                                 *)

(* Mutant of CancelBegin: completed and failed runs are not refused.       *)
CancelAnyBegin(t) ==
    /\ th[t].pc = "idle"
    /\ state # "CANCELLED"
    /\ Goto(t, "cx_mark")
    /\ unchangedRun /\ unchangedEnv

CancelBegin(t) ==
    /\ th[t].pc = "idle"
    /\ state \notin Terminal
    /\ Goto(t, "cx_mark")
    /\ unchangedRun /\ unchangedEnv

CancelMark(t) ==
    /\ th[t].pc = "cx_mark"
    /\ Become(t, [th[t] EXCEPT !.pc = "cx_commit", !.local = plan])
    /\ unchangedRun /\ unchangedEnv

WithoutOpenTasks(p) ==
    [p EXCEPT !.tasks = [k \in DOMAIN p.tasks |->
        IF p.tasks[k] \in {"PENDING", "READY"} THEN "BLOCKED"
        ELSE p.tasks[k]]]

CancelCommit(t) ==
    /\ th[t].pc = "cx_commit"
    /\ state' = "CANCELLED"
    /\ plan' = IF th[t].local.id = 0 THEN plan
               ELSE WithoutOpenTasks(th[t].local)
    /\ Return(t)
    /\ UNCHANGED <<reqs, clock, planned, approved, succeeded>>
    /\ unchangedEnv

----------------------------------------------------------------------------
(* POST /runs/{id}/plan/reject.                                            *)

RejectBegin(t) ==
    /\ th[t].pc = "idle"
    /\ state = "AWAITING_APPROVAL"
    /\ IF plan.id = 0 THEN Goto(t, "rj_load")
       ELSE Become(t, [th[t] EXCEPT !.pc = "rj_write",
                          !.local = [plan EXCEPT !.status = "REJECTED"]])
    /\ unchangedRun /\ unchangedEnv

RejectWrite(t) ==
    /\ th[t].pc = "rj_write"
    /\ plan' = th[t].local
    /\ Become(t, [Idle EXCEPT !.pc = "rj_load"])
    /\ UNCHANGED <<state, reqs, clock, planned, approved, succeeded>>
    /\ unchangedEnv

(* The oldest of the rows listed goes to reject_request, which raises if   *)
(* the row is no longer PENDING; when none is left the run is cancelled.   *)
RejectRows(t, rows) ==
    \/ rows = {} /\ Goto(t, "rj_transition")
    \/ \E i \in rows :
          /\ \A j \in rows : i <= j
          /\ IF reqs[i].status = "PENDING"
             THEN Become(t, [th[t] EXCEPT !.pc = "resolve", !.req = i,
                                !.rows = rows \ {i}, !.goal = "REJECTED",
                                !.after = "rj_resolve"])
             ELSE Return(t)

(* The pending rows are listed once ...                                    *)
RejectLoad(t) ==
    /\ th[t].pc = "rj_load"
    /\ RejectRows(t, Pending)
    /\ unchangedRun /\ unchangedEnv

(* ... and rejected one after the other.                                   *)
RejectResolve(t) ==
    /\ th[t].pc = "rj_resolve"
    /\ RejectRows(t, th[t].rows)
    /\ unchangedRun /\ unchangedEnv

RejectTransition(t) ==
    /\ th[t].pc = "rj_transition"
    /\ TransitionTo(t, state, "CANCELLED", "idle")
    /\ unchangedRun /\ unchangedEnv

----------------------------------------------------------------------------
(* POST /approvals/{id}/approve and /reject: approve_action, reject_action *)
(* resolve any PENDING row, plan approvals included, and resume the run    *)
(* when none is left.                                                      *)

ActionBegin(t) ==
    /\ th[t].pc = "idle"
    /\ \E i \in Pending, verdict \in {"APPROVED", "REJECTED"} :
          Become(t, [th[t] EXCEPT !.pc = "resolve", !.req = i,
                                  !.goal = verdict, !.after = "aa_load"])
    /\ unchangedRun /\ unchangedEnv

ActionLoad(t) ==
    /\ th[t].pc = "aa_load"
    /\ IF state = "AWAITING_APPROVAL" /\ Pending = {}
       THEN TransitionTo(t, state, "EXECUTING", "idle")
       ELSE Return(t)
    /\ unchangedRun /\ unchangedEnv

----------------------------------------------------------------------------
(* POST /runs/{id}/transition: any move the state machine allows.          *)
TransitionBegin(t) ==
    /\ th[t].pc = "idle"
    /\ \E to \in AgentState :
          /\ <<state, to>> \in ValidTransitions
          /\ TransitionTo(t, state, to, "idle")
    /\ unchangedRun /\ unchangedEnv

----------------------------------------------------------------------------
(* The process dies and starts again: the threads are gone, and the        *)
(* startup sequence either reaches recover_in_flight_runs, which fails     *)
(* every run that is not terminal, or breaks off before it.  No task is    *)
(* ever stored as RUNNING, so there is none to block.                      *)
Restart ==
    /\ restarts < MaxRestarts
    /\ restarts' = restarts + 1
    /\ th' = [t \in Threads |-> Idle]
    /\ \/ state' = IF state \in Terminal THEN state ELSE "FAILED"
       \/ state' = state
    /\ UNCHANGED <<plan, reqs, clock, deps, valid, planned, approved,
                   succeeded>>

----------------------------------------------------------------------------
(* A client's request reaches a free thread.  Requests the code answers    *)
(* without changing anything are not steps.                                *)
Begin(t) ==
    \/ "plan" \in Kinds /\ PlanBegin(t, FALSE)
    \/ "revise" \in Kinds /\ PlanBegin(t, TRUE)
    \/ "context" \in Kinds /\ ContextBegin(t)
    \/ "approve" \in Kinds /\ ApproveBegin(t)
    \/ "execute" \in Kinds /\ ExecuteBegin(t)
    \/ "next" \in Kinds /\ NextBegin(t)
    \/ "cancel" \in Kinds /\ CancelBegin(t)
    \/ "reject" \in Kinds /\ RejectBegin(t)
    \/ "transition" \in Kinds /\ TransitionBegin(t)
    \/ "resolve" \in Kinds /\ ActionBegin(t)

(* The steps of a request that is being served.                            *)
Serve(t) ==
    \/ Commit(t) \/ Create(t)
    \/ GraphEnter(t) \/ SyncLoad(t) \/ SyncCommit(t) \/ GraphRoute(t)
    \/ GraphSynth(t) \/ GraphWrite(t) \/ GraphInfo(t) \/ GraphAwait(t)
    \/ GraphError(t) \/ RequestApproval(t)
    \/ ContextLoad(t) \/ ContextCommit(t)
    \/ PlanSynth(t) \/ PlanWrite(t) \/ PlanExpire(t) \/ PlanAwait(t)
    \/ ApproveWrite(t) \/ ApproveFind(t) \/ ApproveCreate(t)
    \/ Resolve(t)
    \/ StartLoad(t) \/ StartSave(t) \/ StartTransition(t)
    \/ TaskSelect(t) \/ TaskExecute(t) \/ TaskWrite(t)
    \/ CancelMark(t) \/ CancelCommit(t)
    \/ RejectWrite(t) \/ RejectLoad(t) \/ RejectResolve(t)
    \/ RejectTransition(t)
    \/ ActionLoad(t)

Next == Restart \/ \E t \in Threads : Begin(t) \/ Serve(t)

Safety == Init /\ [][Next]_vars

(* A request that is being served goes on; clients need not send any.      *)
Fairness == \A t \in Threads : WF_vars(Serve(t))

Spec == Safety /\ Fairness
----------------------------------------------------------------------------
(* What holds however requests interleave.                                 *)

(* The authorisation gate: a task only executes under a plan for which an  *)
(* approval row was APPROVED.  approve_plan resolves whichever request is  *)
(* pending and writes the plan it cached, so a plan may well be marked     *)
(* APPROVED on the strength of another plan's approval;                    *)
(* assert_execution_authorized must keep it from running.                  *)
ExecutesOnlyApproved ==
    \A t \in Threads :
        th[t].pc = "bg_exec" =>
            /\ th[t].local.status = "APPROVED"
            /\ th[t].local.id \in approved

(* A task only executes when every task its plan makes it depend on was    *)
(* executed with success under the same plan, although plan copies with    *)
(* older task statuses are written back at any time.                       *)
ExecutesInOrder ==
    \A t \in Threads :
        th[t].pc = "bg_exec" =>
            \A d \in deps[th[t].local.id][th[t].task] :
                <<th[t].local.id, d>> \in succeeded

(* The stored plan never claims a pass that no execution earned.           *)
PassedMeansExecuted ==
    \A k \in DOMAIN plan.tasks :
        plan.tasks[k] = "PASSED" => <<plan.id, k>> \in succeeded

(* What a run promises about its effects, whatever else happens to it.     *)
Gate == INSTANCE GatedExecution
            WITH needs <- deps, granted <- approved, done <- succeeded

GateSafety == Gate!Spec

----------------------------------------------------------------------------
(* What holds as long as requests about the run come one at a time.        *)

AllIdle == \A t \in Threads : th[t].pc = "idle"

(* AgentStateMachine's terminal lock: a run that reached COMPLETED, FAILED *)
(* or CANCELLED stays there.                                               *)
TerminalLock == [][(state \in Terminal) => state' = state]_vars

(* Between requests at most one approval row is PENDING or APPROVED, and   *)
(* unless the stored plan is invalid that row is about the stored plan:    *)
(* replanning expires what was granted or asked for older plans.  A        *)
(* restart may fall between storing a plan and expiring.                   *)
OneLiveApproval ==
    AllIdle /\ restarts = 0 =>
        /\ \A i, j \in Live : i = j
        /\ plan.id # 0 /\ valid[plan.id] =>
              \A i \in Live : reqs[i].pid = plan.id

(* A rejected plan stays rejected: no later step of any handler turns the  *)
(* stored plan's status back.                                              *)
RejectionIsFinal ==
    [][plan.status = "REJECTED" /\ plan'.id = plan.id
          => plan'.status = "REJECTED"]_vars

(* Every task is executed with success at most once per plan; a restart    *)
(* may lose the record of the last one.                                    *)
NoReexecution ==
    restarts = 0 =>
        \A t \in Threads :
            th[t].pc = "bg_exec" =>
                <<th[t].local.id, th[t].task>> \notin succeeded

(* An executor that starts brings its run to a terminal state, unless the  *)
(* process dies.                                                           *)
ExecutionSettles ==
    \A t \in Threads :
        th[t].pc = "bg_load" /\ Looping(t)
            ~> state \in Terminal \/ restarts > 0

----------------------------------------------------------------------------
(* What the repository says of a run and the code does not keep.           *)

(* routers/agent.py: a repeated approval "returns current run without      *)
(* duplicate worker".                                                      *)
NoDuplicateWorker ==
    \A t, u \in Threads :
        /\ th[t].pc \in {"bg_load", "bg_exec", "bg_write"} /\ Looping(t)
        /\ th[u].pc \in {"bg_load", "bg_exec", "bg_write"} /\ Looping(u)
        => t = u

(* task_ops.py: "Run completed successfully with all tasks passed".  The   *)
(* executor completes a run only when its plan's tasks all PASSED.         *)
CompletedMeansAllPassed ==
    \A t \in Threads :
        th[t].pc = "commit" /\ th[t].goal = "COMPLETED"
            /\ state = "EXECUTING"
        => \A k \in DOMAIN plan.tasks : plan.tasks[k] = "PASSED"
=============================================================================
