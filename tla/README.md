# GitOnboard: TLA+ specifications, model checking and proofs

GitOnboard imports a Git repository, builds a model of it, and lets a user talk
to it and have an *engineering agent* plan and carry out changes in it.  The
backend is one Python process (FastAPI on uvicorn) with a PostgreSQL database;
requests are served partly on the event loop (`async def`) and partly in a
thread pool (`def`), and background tasks run after the response.  This
directory holds the specifications of the parts of it that are protocols rather
than data processing, the TLC configurations that check them, and TLAPS proofs.
Paths below are relative to `src/backend/`.

## 1. Inventory

### Components, state, operations

| Component | State it keeps | Operations that change it | Modules |
|---|---|---|---|
| **Agent run state machine and gate** (`agent/engineering_agent.py`, `plan_ops.py`, `state_machine.py`, `safety/`, `routers/agent.py`) | `agent_runs.current_state`, `metadata_json` (which holds the plan as a whole), rows of `agent_approval_requests` | create, context, plan, revise, approve, reject, execute, next task, cancel, transition, approve/reject a request, startup recovery | `AgentRun`, `GatedExecution` |
| **Task execution** (`agent/task_ops.py`, `routers/agent.py`) | task statuses inside the stored plan; `has_failure` of one background loop | start execution, select, execute, write back, complete the run | `AgentRun` |
| **Task dependency graph** (`agent/tasks/`) | statuses and dependencies of an in-memory `Plan` | evaluate, select, start, complete, record verification, record repair | `TaskLifecycle`, `TaskDag` |
| **Agent graph** (`agent/graph/`) | the graph's state; what its terminals write to the run | route, sync metadata, synthesise, complete / await approval / fail | `AgentRun` |
| **Planning** (`agent/planning/`) | none of its own | validate, synthesise | a verdict and a plan shape in `AgentRun` and `TaskDag` |
| **Repository import** (`services/queue.py`, `worker*.py`, `routers/repo/core.py`, `main.py`) | `jobs`, `analyses`, `repositories` rows, the in-memory queue and active-task table, blobs | import, reanalyse, cancel, delete, process, clean up, recover | `ImportJobs`, `JobLifecycle` |
| **Sandbox shells and terminals** (`services/sandbox_manager.py`, `pty_session.py`) | two maps and their lock; per session a lock, a flag, a shell process, a directory | get or create, execute, time out, close, close all | `SandboxSessions` (not the PTY sessions) |
| **Agent tool loop** (`agent/loop/`) | turn, tool and command counters, recent calls, intervals of lines read | check the limits, ask the model, record a call, run a tool, stop | `LoopGuardrails`, `RepairLoop` |
| **Repair, diagnosis, verification** (`agent/repair/`, `agent/verification/`, `verification/judge.py`) | attempts and failure signatures per task, evidence of one verification | diagnose, register an attempt, run the agent, verify, give up | `RepairLoop`; what the result does to a plan is an action of `TaskDag` |
| **Question answering** (`services/qa_loop.py`) | the same guardrails, calls with known results, retries | ask the model, narrow or refuse a call, dispatch, force an answer | `LoopGuardrails`, `QALoop` |
| **Investigation of a requirement** (`agent/investigation/`) | the store: subtasks with status and dependencies, evidence cards, files read; a worker's notes and counters | plan, dispatch, ask the model, read, end a subtask in six ways, add what was discovered, synthesise | `Investigation` |
| Action policy, task status board, context assembly, worktrees, blob storage, repository intelligence, model providers, authentication, frontend, schema | — | — | not modelled, or only in what a modelled step sees of it (the tool registry in `RepairLoop` and `QALoop`); see section 8 |

### How they interact

* A client's request about a run loads the run's row into the request's own
  database session, decides, and commits.  **Nothing locks the row and nothing
  compares what is overwritten**: two requests, or a request and the background
  executor, share only the committed row.  The session expires its cache at
  its own commits only, so what a thread decides on can be older than the row.
* The plan lives inside one JSON column.  Whoever changes any task status, or
  any other entry of the metadata, writes the *whole* column back.
* `POST /runs` runs the agent graph in the background; the graph uses a session
  of its own to remember the run and others to write to it.
* `POST /plan/approve` resolves an approval request, starts execution and
  leaves a background loop that calls `execute_next_task` until it returns
  `None`; `POST /tasks/next` calls the same function once.
* `execute_next_task` works on an in-memory plan through `TaskOrchestrator`,
  and stores the plan only after the task has run.
* `POST /import` and `/reanalyze` add rows and put the job on an in-memory
  queue; one loop takes jobs off it and runs the worker as an asyncio task.
  The worker shares the event loop with those requests, so it is atomic from
  one `await` to the next; its analysis runs in a pool thread *on the worker's
  database session*, and `DELETE` runs in a pool thread of its own.
* `POST /exec` runs a command in the persistent shell of a run.  The manager's
  lock is held while a shell *starts* and while one is being *closed*; the
  session's lock from before a command is written until it ends; `close()` does not
  take the latter.  The timeout covers the answer, not the writing.
* `repair_task` alternates between the agent's tool loop, which edits the
  worktree, and the verification; a tracker remembers attempts and failures
  across calls.  Both that loop and the question-answering loop make a
  `LoopGuardrails` object of their own and share its code, not its state.
* `LLMAnalysisService.run` gives a question to `QALoop` or, in the mode
  `multi_agent`, to `InvestigationOrchestrator.run`, which has one worker object
  and runs one subtask at a time.  Worker and planner write to one store, but a
  worker gives way only while it waits for the model, and what it notes reaches
  the store when its subtask ends.
* At startup `main.py` means to requeue unfinished imports and then to fail the
  runs that were in flight.

### What is hard here

*Stale rows written back* over what another thread committed (state, plan and
approvals are three separate writes); *order of commits* inside a handler when
the process dies between two of them; *requests in orders nobody tested*
(revise after approve, a generic transition, the generic approvals endpoint
resolving a plan approval); *a loop that mutates what it iterates over*
(`evaluate_dependencies`); *plans with unusual graphs* (cycles, ids that do not
exist) that some of the code accepts and some does not; *failure memory that
lives in one loop*; for imports, *a timed-out thread that cannot be stopped*,
deletion under a running worker, and clean-up of rows that are used afterwards;
for shells, *a process that ends, times out, restarts and is closed* in any
order; for the loops around a model, *counters kept in several places* and
*evidence from before the last change*, and, for the investigation, *subtasks that
end in six ways* of which some keep what the worker found and some do not.
`PROJECT.json` lists these one by one, each at its line, with the property that
would catch it.

### What makes the components correct

* **Run:** terminal states are final; a task is only ever executed under a plan
  a human approved; replanning voids older approvals; a rejection stands; an
  executor ends its run.
* **Executor:** a task runs after what it depends on, once, and its result is
  recorded truthfully; "completed" means every task passed.
* **Dependency graph:** evaluation returns, returns the same answer whatever the
  order of the list, and unlocks nothing early; a plan comes to an end.
* **Import:** every job ends; an unfinished row always has somebody working on
  it (else the repository could never be imported again); at most one analysis
  of a repository is in progress; what finished or was cancelled stays so;
  after a restart unfinished jobs are taken up again; a failed import leaves no
  files behind.
* **Shells:** the two maps agree; a session has at most one process and it is
  never forgotten; an exit code is that of the command; every request is
  answered, unless a shell never reads the rest of a command; the end of the server
  leaves nothing behind that a close would not.
* **Repair:** PASSED means that every required check passed on the worktree as it
  is; attempts are bounded over all calls; work on an unchanged failure stops; a
  cancellation stops tools.
* **Questions:** the loop ends with an answer within its turns; what is known is
  not asked again, and a re-read brings new lines.
* **Investigation:** it ends, whatever its plan and what is discovered; a subtask is
  worked on only when those it depends on have left evidence, and none is given up
  that could have run; no answer is written from nothing.

## 2. Modules

| Module | What it is | Lines of code it stands for |
|---|---|---|
| `TaskLifecycle` | Task statuses, the transition matrix of `tasks/state_machine.py`, and the *specification* of `evaluate_dependencies` as a least fixed point (`Doomed`, `Evaluated`). No state. | `tasks/state_machine.py`, `tasks/orchestrator.py` |
| `TaskDag` | `TaskOrchestrator` over one plan: the evaluation loop one list element at a time, selection, and the three ways a result is recorded. | `tasks/orchestrator.py` |
| `PlanExecution` | The abstract specification of a plan's execution: dependencies evaluated in one step, one task at a time. | — (abstract) |
| `GatedExecution` | The abstract specification of a run: a human grants plans; a task of a granted plan is performed after the tasks it needs. | — (abstract) |
| `AgentRun` | One run with its approval rows and any number of request threads, every handler cut at each point where its session loads or commits the row. Instantiates `GatedExecution`, extends `TaskLifecycle`. | `engineering_agent.py`, `plan_ops.py`, `task_ops.py`, `safety/`, `graph/`, `routers/agent.py`, `main.py` |
| `ImportJobs` | One repository's jobs: the queue loop and its worker at every `await`, the analysis threads, import, reanalysis, cancellation, deletion, restart, database errors. | `services/queue.py`, `worker.py`, `worker_cleanup.py`, `repo_cleanup.py`, `routers/repo/core.py`, `main.py` |
| `JobLifecycle` | The abstract specification of what the status of a job promises to a reader. | — (abstract) |
| `SandboxSessions` | The session manager, its sessions and the shell processes, each coroutine cut at the awaits that give way. | `services/sandbox_manager.py`, `routers/sandbox.py` |
| `LoopGuardrails` | The limits of a tool loop: counters and `record_tool_call`. | `agent/loop/guardrails.py` |
| `RepairLoop` | `repair_task` with the tracker, the agent loop turn by turn, and the verification check by check.  Extends `LoopGuardrails`. | `agent/repair/`, `agent/loop/loop.py`, `agent/verification/`, `verification/judge.py` |
| `QALoop` | `QALoop.run` turn by turn.  Extends `LoopGuardrails`. | `services/qa_loop.py`, `agent/loop/guardrails.py`, `repository_tools/` |
| `Investigation` | `InvestigationOrchestrator.run` with its planner and its worker turn by turn. | `agent/investigation/` |
| `AgentLoops` | The three loops around a model: a behaviour is one of them. | `services/llm_analysis_service.py` |
| `MCTaskDag`, `MCAgentRun`, `MCAgentLoops` | Values of the constants for TLC. | — |
| `TaskLifecycle_proofs`, `TaskDag_proofs`, `AgentRun_proofs`, `ImportJobs_proofs`, `SandboxSessions_proofs`, `RepairLoop_proofs`, `QALoop_proofs`, `AgentLoops_proofs` | Theorems and proofs. | — |

`AgentRun` does not repeat the loop of `TaskDag`: it uses `Evaluated` in one step.
That is justified by the refinement of `PlanExecution`, which TLC checks and which
is proved: to whoever calls the orchestrator, the loop is that step.

### 2.1 TaskDag

| TLA+ | Code |
|---|---|
| `deps`, `order`, `status` | `task.dependencies`, the list `plan.tasks`, `task.status` |
| `pc`, `visit`, `changed`, `then` | position of the owning thread in `evaluate_dependencies`: the list element, the flag, the caller |
| `Visit`, `EndPass` | one iteration of the inner `for`, and the end of one turn of the `while` |
| `SelectNextTask`, `StartTask`, `NoneLeft` | `select_next_task` and `start_task` |
| `CompleteSuccess`, `CompleteFailure` | `complete_task_execution` |
| `RecordVerification`, `RecordRepair` | `record_verification_result`, `record_repair_result` |

`entry` is a history variable: the statuses when the last evaluation began.  It is
also the refinement mapping: `Atomic` (an instance of `PlanExecution`) shows `entry`
for as long as the loop is at work, whatever the list holds by then, and `status`
otherwise.  `EndPass` maps to `Evaluate`, `StartTask` to `Start`, `NoneLeft` to `Finish`, the
recorded results to `Succeed`, `End` and `Repair`, and every visit to a stutter.

### 2.2 AgentRun

| TLA+ | Code |
|---|---|
| `state`, `plan` | the columns `current_state` and `metadata_json["plan"]` |
| `reqs` | the run's `PLAN_APPROVAL` rows in order of `requested_at`; `at` orders `resolved_at` |
| `deps`, `valid` | what a plan's tasks depend on and the validator's verdict: fixed per plan, chosen at the start |
| `th[t]` | a request thread: `pc` (the next load or commit), `local` (the plan object it holds), `rows` (the approval rows a rejection has listed and not reached), `goal`/`after` (the value it is about to write, and what follows), `failed` (`has_failure`), `entered` (the row `run_graph`'s session has cached) |
| `approved`, `succeeded` | history: plans with an approval row that was APPROVED, tasks whose executor reported success |

One action is the code between two accesses to the shared row.  The commit that
ends `transition_state` (`Commit`) is separate from the validation that
precedes it (`TransitionTo`), which is where most interleavings bite.

| Request | Actions, in order |
|---|---|
| `POST /runs` | `Create`, `Commit`, `GraphEnter`, `SyncLoad`, `SyncCommit`, `GraphRoute`, then `GraphSynth`, `GraphWrite` for plans, then `GraphInfo` or `GraphAwait` + `RequestApproval`; `GraphError` from any node that raises |
| `POST /plan`, `/plan/revise` | `PlanBegin`, `Commit`, `ContextLoad`, `ContextCommit`, `PlanSynth`, `PlanWrite`, `PlanExpire`, `PlanAwait`, `Commit`, `RequestApproval` |
| `POST /context` | `ContextBegin`, `ContextLoad`, `ContextCommit` |
| `POST /plan/approve` | `ApproveBegin`, `ApproveWrite`, `ApproveFind`, `ApproveCreate` if the run has no approval row, `Resolve`, `StartLoad`, `StartSave`, `StartTransition`, `Commit`, then the background loop |
| `POST /execute`, background loop | `ExecuteBegin`, ...; `TaskSelect`, `TaskExecute`, `TaskWrite` until no task is READY, then `Commit` of COMPLETED or FAILED |
| `POST /tasks/next` | `NextBegin`, `TaskSelect`, `TaskExecute`, `TaskWrite` |
| `POST /cancel` | `CancelBegin`, `CancelMark`, `CancelCommit` |
| `POST /plan/reject` | `RejectBegin`, `RejectWrite`, `RejectLoad`, then `Resolve` and `RejectResolve` for one pending row after the other, `RejectTransition`, `Commit` |
| `POST /approvals/{id}/...` | `ActionBegin`, `Resolve`, `ActionLoad`, `Commit` |
| `POST /transition` | `TransitionBegin`, `Commit` |
| process restart | `Restart`: every thread is gone; the startup sequence reaches `recover_in_flight_runs` or breaks off before it |

Abstractions, each of which only adds behaviours or removes data no property
looks at: a plan id stands for plan id and version; synthesis yields any shape in
`DepChoices` with any verdict; executors, verifiers, the model's answers and the
graph's intent are nondeterministic; the repository-revision check is a refusal
that may happen at any time (`moved`); ownership checks, history rows and
events are left out.  Where a handler commits an event between two looks at the
row, and the row is loaded again, the model allows what either of them saw:
`ContextLoad` may go on though the run has ended since, and the handler of an
exception in `TaskExecute` may validate its transition from EXECUTING or from
whatever the row holds by then.
`RUNNING` is never stored (a task is RUNNING only in its thread's plan object),
so the recovery of RUNNING tasks has nothing to do.

### 2.3 ImportJobs

| TLA+ | Code |
|---|---|
| `repo`, `gens`, `gen` | the `repositories` row (0: none); deleting and importing again makes a new row with a new hash, a *generation*; the generation each job belongs to |
| `status` | `analysis_jobs.status` and `analyses.status`, which every commit changes together; `"none"`: no row |
| `queue` | `InMemoryQueue.queue` |
| `worker` | the loop's current task: at which `await` or commit it is, for which job, and whether the awaited future had a result |
| `threads` | jobs whose `run_analysis` thread is alive |
| `deleter` | the pool thread in `delete_repo`, between its files, its cascade and its commit |
| `blobs` | prefixes under which files are stored: by repository hash or by id |
| `runtime` | what `asyncio.wait_for` does with a cancellation that arrives when its future is already done: Python 3.11 returns the result, 3.12 raises |

| Action | Code |
|---|---|
| `Import`, `Reanalyze` (`AddJob`) | `core.py:113`, `core.py:214`: the check for an unfinished job and the new rows |
| `Cancel` (`CancelTask`) | `core.py:241`, `queue.py:35`: `task.cancel()`, then the row is Cancelled regardless |
| `DeleteBegin`, `DeleteCascade`, `DeleteCommit` | `core.py:365`: files, loading of the children, deletion (refused by the foreign key if a child was added) |
| `Take`, `Unwind` | the queue loop: next job, and a task that ended by cancellation |
| `Start`, `DownloadDone`, `DownloadTimeout`, `ResumeDownload`, `AnalysisTimeout`, `ResumeAnalysis`, `Save`, `Fail` | `worker.process` from commit to commit |
| `ThreadUpload`, `ThreadEnd` | `run_analysis`, also after the worker gave it up |
| `Restart` | the process dies; the startup recovery queues nothing, because `main.py:239` raises |

A future that is *done* and a worker that has *resumed* are two steps
(`DownloadDone`, `ResumeDownload`): a cancellation between them is the case in
which the two runtimes differ.  While the worker runs without an `await`, from
its Saving commit to its end and in its failure handler, coroutine requests wait
(`LoopBusy`); deletions and threads do not.

Abstractions: one repository of one user; the commits of the analysis and of its
job are one step; one deletion at a time; a database error and a clash on the
shared session are both a *fault* and are bounded; index building, artifacts,
progress rows, notifications and the semantic-index thread are left out;
`enqueue_job` creates a task that puts the job on the queue; the model puts it
there at once, and a cancellation in between sees the same either way.

`JobLifecycle` is what the web client relies on when it polls a status: stages in
order, one end, nothing comes back, no second job beside an unfinished one.
`ImportJobs` instantiates it (`JL`): `row` is `status`, a repository is a
generation, a job is used once it was created.  On the runtime that loses late
cancellations the abstract job may go on from `Cancelled`, and only then.

### 2.4 SandboxSessions

| TLA+ | Code |
|---|---|
| `sessions`, `runSession`, `manager` | `SandboxManager._sessions`, `_run_to_session`, and who holds `_lock` |
| `made`, `closed`, `lock`, `dirs` | a `PersistentShellSession` object: its run and id, `is_closed`, who holds its lock, whether `temp_dir` exists |
| `shell`, `live` | `self.proc` as the event loop sees it (`dead`: exited but not yet noticed; `reaped`: `returncode` is set), and how many processes the object started still run |
| `req`, `closer`, `shutdown` | a request to `/exec`, a `DELETE`, and `close_all_sessions` |

| Action | Code |
|---|---|
| `Reuse`, `Create`, `Created`, `CreateFails` | `get_or_create_session`: by id, then by run, then a new object whose shell is started under the manager's lock |
| `Ask` | a request reaches the endpoint, or is refused because its worktree cannot be resolved, with or without a session |
| `Enter`, `Spawned`, `SpawnFails`, `Run`, `Reply`, `Eof`, `Timeout`, `Respawned` | `execute_command`: lock, replace a shell that ended (noticed by `returncode`, or by a broken pipe), write, wait for the token, kill and restart on a timeout |
| `Drained`, `DrainBroken` | `stdin.drain()` of a command that did not fit into the pipe: the shell reads the rest, or ends |
| `ShellExits`, `Reap` | the operating system and the child watcher |
| `CloseBegin`, `CloseEnd` | `close_session`: out of the maps, flag, drain (which waits where the pipe is full); then kill and remove the directory |
| `ShutdownBegin`, `ShutdownClose`, `ShutdownKill`, `ShutdownEnd` | `close_all_sessions` in the lifespan handler, after the last request |

A free lock is taken without giving way, so `is_closed`, tested right after the
lookup, cannot fail there; but a request that *waits* for the session's lock finds
a session that may have been closed, and starts a shell in it (`revived`).  The
properties say exactly what that leaves: `OnlyRevivedOutlive`, and an exception
for closed sessions in `AnswersAreReal`.  A shell started again does so in the
worktree, not in the directory the client last saw; the model has no
directories.

A command is written, and the pipe drained, *before* the timeout starts
(`sandbox_manager.py:268-274`; `wait_for` is at line 293).  A shell reads its input
as it goes: a command that closes the braces around it early starts to run while
the rest of it is still to be read, and if that rest is more than the pipe and the
stream's buffer hold (about 128 KiB), `drain()` waits until the shell goes on
reading.  In the model `Enter` and `Spawned` may lead to `drain` or, in the second
attempt after a broken pipe, to `redrain`, where no timer runs and the session's lock is held
(`Full`); what leads out is the shell's doing, to which nothing is owed
(`Drained`, `DrainBroken` have no fairness).  A close of that session writes
`exit` into the same pipe and waits too (`draining`), with the manager's lock, so
that then every lookup waits.  `EveryRequestAnswered` says that this is the only
way to stay without an answer: a request is answered or held up for ever by such a
pipe (`HeldUp`), a close ends or waits for ever on one (`Closing`).
`docs/architecture/API_CONTRACT_INVENTORY.md:393` has "Execution timeout enforced
(1-120 seconds, default 30s) with process-group kill and session recovery", which
does not hold of such a command.

Left out: the PTY sessions of the web socket, output text and its
truncation, and the second `SandboxManager` object in `services/`, whose sessions
the shutdown does not reach.

### 2.5 LoopGuardrails, RepairLoop, QALoop, Investigation, AgentLoops

| TLA+ | Code |
|---|---|
| `turn_count`, `tool_call_count`, `command_count`, `recent_signatures`, `record_tool_call` | the fields and the method of `LoopGuardrails` |
| `phase` | where `repair_task` is: at a cycle, in the agent loop (`turn`, `model`, `tool`), in the verification, or back |
| `attempts`, `signatures` | `_task_attempts`, `_task_failure_signatures` of the tracker |
| `fault`, `diff` | what the last verification result says is wrong, and the last diff: with one another the failure signature |
| `strategy`, `evidence` | the checks `VerificationStrategyResolver` can ask for, and what each found in this verification |
| `checker`, `cancelled` | whether the caller passes `cancel_checker`, and the user's cancellation |
| `stale`, `loops_run`, `late`, `model_calls` | history: checks not run since the last change, agent loops that asked the model, tools started after a cancellation, requests to the model |
| `step`, `asked`, `turns`, `executed_tools`, `overflows`, `retries`, `malformed`, `stop_reason`, `answer` | where `QALoop.run` is, and its locals of those names |
| `file_read_ranges`, `UnreadSlice`, `Adjusted`, `Duplicate` | the intervals of `guardrails.py`, as the set of lines they hold, and what is computed from them |
| `statuses`, `dependencies`, `cards`, `files_read` | `InvestigationStateStore`: `tasks` in the order of the dictionary, `evidence` by its subtask and file, `files_read` |
| `inquiry`, `current_task`, `tasks_executed`, `raw_answer` | where `InvestigationOrchestrator.run` is, and its locals |
| `worker_turn`, `unparsed`, `active_findings`, `active_files` | `turn_count` and `consecutive_malformed` of `execute_subtask`, and what the worker object has noted so far |

Abstractions: the model's answers, the effects of tools, verifiers' outcomes and
the validation of an answer are nondeterministic; the time limit may stop a loop at
any turn; a diagnosis is the fault it names; one file is read, which a call names as
the record of its lines does or otherwise.  A read with both lines (`Reads`) is
those two and its *manner*: `context_lines`, `symbol`, and how the file is called.
Line numbers below 1 act as 0 and those beyond the file as `Lines` + 1.

Of the agent loop one thing is left out: `EngineeringAgentLoop.run` (`loop.py:91`)
answers a `RuntimeError` by running the whole loop a second time.  That takes an
exception that no handler inside `run_async` catches, in a caller whose thread has
an event loop; in a thread of the pool `get_event_loop` raises before the loop has
begun, and it runs once.  Nothing outside the tests calls `repair_task` yet, so which
of the two it will be is open; the model has the second, and its bounds per attempt
are for one run of the loop.

Things in this code a reader may not expect, all of which the model contains:

* `run_model.cancel_requested` is an attribute nothing sets, so without a
  `cancel_checker` the repair and the agent loop never see a cancellation.  The
  verification may see it on the row, but its result is then diagnosed as another
  failure (`"cancelled"`) and leads to another attempt.  `CancelStopsTools` is therefore
  conditional on `checker`.
* The Judge takes a vector without a result for a PASS, a verifier that raised
  included; only the aggregator's test of the required checks catches it.  The
  property is stated of the whole, and the mutant that trusts the Judge alone breaks it.
* Two agent loops in a row that fail without a completion signal have the same
  signature (`"not_run"`), which ends the task as stagnant, with an attempt that
  never ran on the list.
* `repair_task` can raise at its last commit (`VerificationRaises`): the attempt
  stays `REPAIRING`, and counts.
* `QALoop` counts a turn before it tests the limit, the agent loop after: with a
  limit of N the former asks N - 1 ordinary times and once for the forced answer.
* When the first line of a read is known, the slice runs from the end of its
  interval to the end of the request, over later intervals too, where the
  docstring says "the first unread interval"; `ReadsBringNewLines` asks for a new
  line, not for new lines only.
* The cut and the test for duplicates look at the two line numbers alone, while
  `read_file` also takes `context_lines` and `symbol`, and both are offered to the
  model.  After lines 1 to 96 a request for 90 to 200 with 25 lines of context is
  cut to 97 to 200, read from 72, and may be truncated before 97; with a symbol
  that is found the lines asked for do not matter at all.  `ReadsBringNewLines`
  therefore promises a new line without condition only to *plain* reads, and to the
  others if what they return reaches the first line asked for.  Ranges that are
  reversed or start before line 1 escape it, and so does a call by a name of the file
  that is not the one the result was recorded under: the record is kept under the
  path the tool found (`guardrails.py:148`), and looked up under the one asked for.
* `run` catches what the model and the tools raise, and nothing else: an exception
  of `on_turn`, or in the checks of a call whose arguments are no dictionary, ends it
  without an answer (`RunRaises`, which can end it anywhere).
* A forced answer that fails leaves the text of the error as the answer of a run
  that reports success: `answer = "error"` with any stop reason.
* A worker whose *model fails* returns a result without the findings it had noted;
  one that is timed out, raises or answers nonsense three times is harvested.
* `InvestigationOrchestrator.run` raises not only when the synthesis fails or times
  out, but also when evidence can be neither stored nor rolled back, or the check of
  the answer raises (`InvestigationRaises`).
* The findings of a final answer may name files that were never read; they are
  evidence like any other.
* `all_failed` in the planner does not count `TIMED_OUT`: when the only subtask ran
  out of time with nothing noted, the model is still asked to write an answer.
  `AnswersFromEvidence` says so.
* A follow-up discovered by a subtask that did not complete is made to depend on
  it, and can never run.  Dependencies in a cycle are not rejected either: all end
  BLOCKED.  A task that is over the budget is BLOCKED too, with a message that blames
  its dependencies.
* The fallback that makes findings of files read without one never has text to make
  them of: a read that brought text left a finding in the same turn.

Of the investigation the model leaves out the copy of the findings in the fact
store, the validation of the answer's text and a client that disconnects.

`AgentLoops` is a composition by choice, not in parallel: an object of guardrails
is made for one loop and used by no other, and a request runs one of the three.

## 3. Runs

| Run | Question | Answer |
|---|---|---|
| `task_dag` | Is the visit-by-visit loop the one step its callers take it for, on every graph, and does the executor always come to an end? | The loop implements `PlanExecution` (`AtomicEvaluation`); `DependencyOrder`, `NoneMeansComplete`, `EvaluationReturns`, `ExecutorEnds` hold |
| `agent_run_sequential` | With one request at a time but in any order, and a restart anywhere: do terminal states lock, do approvals speak for the stored plan, do rejections and passes stand, does every executor settle its run? | `TerminalLock`, `OneLiveApproval`, `RejectionIsFinal`, `NoReexecution`, `ExecutionSettles` hold |
| `agent_run_concurrent` | What survives when two requests interleave at every commit? | `ExecutesOnlyApproved`, `ExecutesInOrder`, `PassedMeansExecuted`, and with them the refinement `GateSafety` |
| `import_jobs` | Is any import lost, duplicated, revived or stuck? | `UnfinishedIsHeld`, `OneUnfinished`, `FinishedStays`, `EveryJobSettles` hold, and the rows implement `JobLifecycle` |
| `sandbox_sessions` | Do requests, timeouts, exits, closes and the end of the server, in any order, leave the maps, the locks and the processes as they should be? | `MapsAgree`, `ShellsAccounted`, `OnlyRevivedOutlive`, `AnswersAreReal`, `ShutdownClean`, `EveryRequestAnswered` hold |
| `agent_loops` | Do the three loops end within their limits, on every mixture of faults and refusals, and is what they report true? | `ModelCallsWithinTurns`, `PassedIsVerified`, `AttemptsBounded`, `NoStagnantWork`, `CancelStopsTools`, `KnownCallsNotRepeated`, `ReadsBringNewLines`, `WorkFollowsFindings`, `AnswersFromEvidence`, `EveryLoopEnds` hold |
| `terminal_lock_concurrent` | Does the terminal lock survive two requests, one of them a cancellation? | No: a CANCELLED run is moved on to UNDERSTANDING |
| `duplicate_worker` | Is a repeated approval idempotent? | No: two background executors |
| `completed_with_blocked` | Does "completed" mean all tasks passed? | No: a dangling dependency leaves a task BLOCKED |
| `cancel_swallowed` | Is a cancelled import cancelled? | Not on Python 3.11 |
| `restart_recovery` | Are unfinished jobs recovered? | No |
| `failed_import_cleanup` | Does a failed import leave nothing in storage? | No |

The last six are runs in which TLC finds the stated property violated:

1. **`TerminalLock`** (`engineering_agent.py:242`).  `transition_state` checks the
   transition against the row its session cached and writes without looking
   again.  In TLC's trace `create_run` has validated `IDLE` to `UNDERSTANDING` when
   a cancellation commits `CANCELLED`, and then writes `UNDERSTANDING` over it.  The
   run's two requests are a creation and a cancellation; every later transition goes
   through the same lines and has the same window.
2. **`NoDuplicateWorker`** (`routers/agent.py:542`).  Both requests read
   `AWAITING_APPROVAL`; the second `start_plan_execution` finds the run
   `EXECUTING` and returns it as a success, and a second loop is added.
3. **`CompletedMeansAllPassed`** (`routers/agent.py:165`).  The validator ignores
   dependencies on ids that do not exist, the orchestrator blocks on them, and
   the executor only remembers failures of tasks it executed.
4. **`CancelSticks`** (`queue.py:37`).  The worker resumes with the result its
   future already had and commits `Analyzing` or `Saving` over `Cancelled`.  As
   soon as the row was Cancelled a new import was allowed, so two analyses of one
   repository can be in progress: `OneUnfinished` and `FinishedStays` are stated,
   and proved, for the runtime that raises.
5. **`RestartRecovers`** (`main.py:239`).  `Analysis` is not imported there.
6. **`FailureCleansUp`** (`worker_cleanup.py:28`).  The prefix is made of the
   repository's id, the files are stored under its hash.

## 4. Bounds

Every bound is a constant, and the proofs hold for all of their values.

* **`task_dag`**: three tasks are enough for a chain, a fork, a join, a cycle
  with a tail and a transitive block that needs a second pass of the loop; every
  irreflexive dependency relation over them and one id that does not exist, in
  step order and reversed, with one repair result.
* **`agent_run_sequential`**: one thread, ten kinds of request, two plans (a
  replanning), a chain, a gap and an empty plan with either verdict, one restart
  between any two steps.  184 824 distinct states.
* **`agent_run_concurrent`**: two threads, which are interchangeable (symmetry;
  only safety is checked), states told apart by the order in which rows that are
  APPROVED were approved and not by the times (`OrderOfApprovals`, a view: nothing
  else is ever asked of the times), two plans over a chain of two tasks, and the kinds
  that touch plans, approvals and executions.  Overwriting another thread's
  commit takes two threads.  There is no restart: what the crashes of the hazards do
  to these properties is a matter of the proofs, which are for any number of them.
  1 705 687 distinct states.
* **`import_jobs`**: three jobs (one worked on, one queued, one new), two
  generations (delete and import again), one restart, one fault, both runtimes.
  197 534 distinct states.
* **`sandbox_sessions`**: two runs, two requests and a closer, so that each lock
  has somebody waiting for it; two objects, so that a session can be closed and
  made again.  `Chosen` is empty: an id of the client's own is one id more under
  which `Create` registers, and clients already send ids of sessions that are
  closed, never started or another run's; the proofs are for any such ids.
  193 987 distinct states.
* **`agent_loops`**: limits of 4 turns, 3 calls, 1 command and 2 repetitions, so
  that each of them can be the one that stops a loop; 2 attempts, 2 equal
  signatures and 2 calls of `repair_task`; the provider's 2 retries, 2 rejected
  answers and 3 malformed replies (5 in the code), all in one question; a file of
  3 lines with ranges that overlap, touch, are reversed or start at 0, one of them
  with context, one with a symbol that is found, one by another name.  For the
  investigation every irreflexive dependency relation over one to three subtasks, a
  plan of four (one over the budget of 3), one file, 3 turns of a worker and, as in
  the code, 3 malformed replies.  289 864 distinct states.
* The violation runs use the smallest bounds that show the behaviour.

`CHECK_DEADLOCK FALSE` is set because the systems may rest: an idle server
waits for clients, and the bounds end every behaviour.

## 5. Fairness

* `TaskDag`: the steps of the thread that runs the executor's loop are weakly
  fair, `SelectNextTask` strongly, since an evaluation for a reader
  (`EvaluateOnly`) may come between; nobody has to read or repair.
* `AgentRun`: `WF_vars(Serve(t))`: a request in progress goes on, as threads of
  the pool do.  No request has to be sent.
* `ImportJobs`: `WF_vars(Work)`: the event loop runs what is ready and the timers
  of `wait_for` expire (120 and 600 seconds); a deletion that began ends.  The
  *analysis thread has no fairness*: it may hang, and `EveryJobSettles` holds all
  the same.
* `SandboxSessions`: `WF_vars(Serve(q))` and `WF_vars(Close(c))`: the event loop
  resumes what is ready, a process starts or fails to, and `wait_for` ends what a
  shell does not answer once the command is written.  No shell has to exit or to
  read the rest of a command (`Drain` has no fairness), and nobody has to stop the
  server.
  Locks need no strong fairness here: there are as many waiters as requests, and
  none comes back.
* `AgentLoops`: the thread or coroutine of the loop runs, and the model, the tools
  and the verifiers answer or fail, as their clients' timeouts see to.  A tool
  handler that hangs for ever would hang `AgentToolRegistry.invoke` with it, whose
  executor waits for its thread on leaving the `with` block; that is assumed not
  to happen.  The user's cancellation has no fairness.  In the investigation
  `wait_for` ends what the model does not answer, in the subtask and in the synthesis.

## 6. Proofs

All theorems are of the form `Safety => ...` or `Spec => ...`, none uses
fairness, and they hold for every value of the constants that satisfies the named assumptions
(finite sets of natural task ids, lists that enumerate the tasks, bounds that are
natural numbers, a marker that is no task, known kinds and runtimes).

**`TaskLifecycle_proofs`** has the facts about `Doomed` and `Evaluated` the others
cite: evaluation keeps types, it unlocks exactly the tasks whose dependencies
passed, and its result is closed.

**`TaskDag_proofs`** (837 obligations): `TypeCorrect`, `DependencyOrderHolds`,
`EvaluationIsCorrect`, `EvaluationIsAtomic`, `NoneLeftIsComplete`, `TasksStartOnce`,
`EvaluationTerminates`.  That the loop ends in the least fixed point
(`EvaluationCorrect`) is not inductive: in the middle of a pass some statuses are old
and some new.  The invariant says that at every visit each status is either what it
was or what the fixed point gives it (`OnTheWay`), and that a pass without a change so
far has only visited tasks that stay as they are; a pass that ends without a change is
then closed under blocking and therefore *is* the least fixed point, whatever the
order of the list.  `EvaluationIsAtomic` is the refinement of `PlanExecution`: with the
fixed point known (`EndsEvaluated`) and no task in execution while the loop runs
(`CurrentOK`), each step maps to a step or a stutter.  `NoneLeftIsComplete` takes, in a
plan without a cycle, a pending task with no pending dependency, which evaluation
would have moved.  `TasksStartOnce` is an action property: evaluations and repairs
never make a task that has started READY again.

**`AgentRun_proofs`**: `TypeCorrect`, `OnlyApprovedExecute`, `OrderOfExecution`,
`PassesEarned`, `GateRefinement` for any number of threads; `TerminalStays`,
`OneApprovalLives`, `RejectionStays`, `ExecutedOnce`, `CompletionIsTruthful` for one
(3203 obligations in all).  Because anything a thread
holds may be written back later, the invariant speaks of *every copy* of a plan,
stored or held: a copy claims no pass that was not earned and has no task READY
too early (`GoodCopy`).  Executions and approvals only grow, so a good copy
stays good, however old it is when it is written back.  Beyond that the
invariant knows, per program counter, what a thread has checked (`ThreadOK`):
at `bg_exec` its copy passed `assert_execution_authorized`, whose second test
(an approved row *for this plan id*) is what makes an approval of another plan
harmless.  There is one lemma per action.  `GateRefinement` maps `Resolve` to
`Grant`, `TaskExecute` to `Perform`, and every other step to a stutter.

Four theorems about requests one at a time (`OneAtATime`: there is one
thread; plans, tasks and restarts are still any number) rest on a second
invariant, `SeqInv`, about the one thread and the row it works on.  It says, per
program counter, that the state a handler decided on is the run's (`StateKnown`;
this is what two threads break), that a copy it holds is the stored plan, or that
it will store a new one (`CopyCurrent`), that every copy records every success so
far (`RecordsKept`, but for the row while a result waits in `bg_write`), and how
far replanning has come in expiring older approvals (`OneLive`).  `RowSeq` is the
part that holds between requests.  A restart may leave the last two broken, which
is why `OneLiveApproval` and `NoReexecution` speak of runs without one.

`CompletionIsTruthful` says under which circumstances the transition's reason, "Run
completed successfully with all tasks passed", is true: requests come one at a time,
the generic transition endpoint is not used, and plans are sound (`SoundPlan`:
dependencies exist and have no cycle).  None of the three can be left out: without
the last TLC shows finding 3, and varying that run's constants shows the other two
(`/transition` to COMPLETED; two threads on one plan).  Its invariant, `DoneInv`,
joins where the thread is with how far the run is (`Position`), and says that stored
plan and copy hold no FAILED or BLOCKED task before execution begins and for as long
as the executor's own `has_failure` is unset (`Truthful`); an evaluation of such a
plan blocks nothing, and finds a task READY unless all passed (`CleanEvaluation`,
which is where acyclicity comes in).

**`ImportJobs_proofs`** (1111 obligations): `TypeCorrect`, `OneInProgress`,
`UnfinishedHeld`, `FinishedKept`.  `OneUnfinished` is not inductive: the worker
commits without reading the row, so it could revive a finished job.  The
invariant says who may write a row: a job is known to the queue or to the worker,
never to both and never twice; what waits in the queue was not started
(`QueueOK`); and where late cancellations are raised, the worker's job is
unfinished or gone until the task unwinds (`WorkerOK`).  The worker's ten actions
are instances of one lemma (`WorkerMoveStep`).  `LifecycleRefinement` shows that
the rows implement `JobLifecycle`: the initial state maps to its initial state,
and every step to one of its steps or to a stutter, with the same invariant.
`WorkEnds` is the part of `EveryJobSettles` that needs no fairness: `WorkLeft`, which
counts jobs to come, jobs queued and the worker's steps, is lessened by every step of
the queue loop and the worker and increased by nothing; and when queue and worker are
empty no job is unfinished (without restarts and faults, see finding 5 and section 4).

**`SandboxSessions_proofs`** (2007 obligations): `TypeCorrect`, `MapsConsistent`, `NoShellLost`,
`CloseEndsShells`, `AnsweredIsRun`, `StopsClean`: all the safety properties of the
run; `LocksReturn`, `RequestsEnd`.  The invariant follows an object through its life: until its shell has
started nobody knows it (`FreshOK`: no lock, no process, in no map), then it is
registered until it is closed (`ShellsKnown`), and `closed` is never reset.  Only
the holder of the session's lock starts a process, and only where none runs
(`RestartsOK`), which makes the count of processes right.  `MapsAgree` needs that
a session in the maps is open (`MapsOK`), so that a lookup that finds nothing
leaves room under both keys; that in turn needs that nobody registers under the id
of a session that is not made yet (`IdsOK`), which is what `uuid4` is assumed for.
`CloseBegin` takes the manager's lock, so it never meets a session being started.
`LocksReturn` relates locks to requests: a session's lock is held by a request that is
in a command on it, the manager's by a request that starts a shell or a closer that
drains one; whoever waits for a lock holds none, so there is no cycle of waiting.
`RequestsEnd` counts: at most eleven steps for a request and four for a close, retries
after a broken pipe, a pipe that is full and restarts after a timeout included, and
nobody else adds to it.

**`RepairLoop_proofs`** (586 obligations): `RepairTypes`, `RepairTurns`, `RepairVerified`,
`RepairBounded`, `RepairNotStagnant`, `RepairCancels`, `RepairEnds`.  The signatures are the
diagnoses of the attempts, in order (`SignaturesMatch`), so a test of one is a test of
the other; an agent loop that has not asked yet is paid for by an attempt
(`WorkOK`); within a verification evidence is newer than the last change
(`EvidenceOK`); and a cancellation that is seen at every turn lets through only
the answer that was pending (`LateOK`).  `RepairEnds` gives each step of `repair_task`
a smaller `RepairWork`: attempts left, turns left in this one, checks not yet run.  A
call begins with at most 1 + `MaxAttempts` * (3 * `MaxTurns` + 6) of it.

**`QALoop_proofs`** (610 obligations): `QATypes`, `QATurns`, `QANotRepeated`, `QANewLines`, `QuestionEnds`.  A turn
that brought data is a known call and its lines are in the intervals
(`TurnsKnown`); the call being dispatched is neither known nor, if it is a read
by the recorded name, asks for a known first line (`AskedNew`), which needs the
end of the interval around a line to exist and the line after it to be new
(`EndOfIsEnd`, `AdjustedIsNew`, by well-founded induction over the lines).  What a
plain read returns begins with that first line; a read that context or a symbol has
moved brings it if its result reaches it, which is what `QANewLines` says.  While the loop goes
on, requests and turns are equal and below the limit, so that the forced answer
is the last one it has room for (`BudgetOK`).  A question ends within 3 * `MaxTurns`
steps, whatever is refused, retried or rejected (`QAWork`).

**`AgentLoops_proofs`** (874 obligations): `TypeCorrect` and `LoopsSafe` carry these results to the
composition the run checks: a step of one loop leaves the others where they started.
`InvestigationInOrder` and `InvestigationAnswers` are about the third loop.  A
subtask that ran follows subtasks that completed (`StartedAfter`), and COMPLETED is
only recorded with a card (`CompletedFound`).  For what is given up, the count of
ended subtasks is `tasks_executed` (`CountOK`): if the budget is spent and the plan
was within it, everything ran and nothing is pending, so a subtask that becomes
BLOCKED was not ready (`BlockedOK`).  `StagesOK` says which statuses can occur in
which stage: at the synthesis none is pending, and without a card none completed.
`LoopsEnd` puts the three measures together (`LoopWork`); for an investigation it counts
the subtasks the budget still allows, whatever is discovered on the way, and the turns
of the one at work.

## 7. What only TLC checks

Liveness and everything that needs `ENABLED`: `EvaluationReturns`,
`ExecutorEnds`, `ExecutionSettles`, `EveryJobSettles`, `EveryRequestAnswered`,
`EveryLoopEnds`.  For five of them the part that depends on the code rather than on the
scheduler is proved all the same, as a natural number that each step lessens:
`EvaluationTerminates`, `WorkEnds`, `RequestsEnd`, `LoopsEnd` (with `RepairEnds` and
`QuestionEnds`), and for `ExecutorEnds` that each evaluation ends and no task starts
twice (`TasksStartOnce`).  What remains to TLC is that a step *is* taken while the number is
not zero: that some action is enabled, and that fairness then lets it happen.  Nothing of
this kind is proved of `ExecutionSettles`.

The six violations are TLC's too.  Every safety property of the runs is
also a theorem; `TerminalLock`, `OneLiveApproval`, `RejectionIsFinal` and
`NoReexecution` only for requests that come one at a time, because with two
threads they do not hold (finding 1; a plan can be executed twice, which is
finding 2's consequence).

## 8. What is not modelled

* Pure data work, which is most of the repository by size: repository
  intelligence (parsing, graph building, indexes, its validation and benchmark
  scripts), context assembly, prompt construction and budgeting, answer
  validation, serialisation.  Sequential functions of text; a model of them would
  be a transliteration, and no step of anything else can come between.
* External services: language models, GitHub, blob storage.  What they answer is
  a nondeterministic choice where a modelled step depends on it.
* Decision tables over command text (action policy, tool policies), ownership
  and authentication checks: they refuse requests before any modelled step.
* The task status board and its events: a row that is overwritten by whoever
  writes last, the generator or a reader that gives it up after three minutes, and
  that nothing else depends on; there is no second state to relate it to.
* The interactive terminals (`pty_session.py`): a map and a lock of the same kind
  as the sessions', around a terminal that is input and output only.
* The frontend: a client that, in the models, may send anything at any time.
* Worktrees and git: file-system effects.
* Transition history and events of a run: append-only records of the modelled
  steps.  One oddity: recovery sets the state before it records the transition, so
  the history says FAILED to FAILED.
* `delete_repo` removes the files before it deletes the row: a refused deletion
  leaves a repository without files.  `ImportJobs` has the rows and the blobs'
  prefix, not what the files are used for.
* The recovery of agent runs is modelled as *may not happen*, because the job
  recovery before it can raise.

## 9. What could come next

* `RepairLoop` inside the executor of `AgentRun`, once the repository calls
  `repair_task` from there; at this commit only its tests do.
* The PTY sessions beside the shells, with the web socket that reattaches.
