---------------------------- MODULE Investigation ----------------------------
(***************************************************************************)
(* InvestigationOrchestrator.run for one question: a planner divides it    *)
(* into subtasks that depend on each other, one worker at a time takes a   *)
(* subtask whose dependencies are completed, and the planner writes the    *)
(* answer from the evidence in the store.  A worker is suspended only      *)
(* while it waits for the model, and only there does the timeout of its    *)
(* subtask cut it off; the orchestrator then harvests what the worker has  *)
(* noted so far.                                                           *)
(***************************************************************************)
EXTENDS Naturals, Sequences, FiniteSets

CONSTANTS
    Files,        \* what read_file can be asked for: a path and its lines
    Plans,        \* the dependencies of the subtasks of each possible plan
    MaxTasks,     \* max_total_tasks
    WorkerTurns,  \* max_turns of the worker
    MaxUnparsed   \* malformed replies in a row that end a subtask (3)

ASSUME InvestigationAssumption ==
    /\ MaxTasks \in Nat /\ WorkerTurns \in Nat
    /\ MaxUnparsed \in Nat /\ MaxUnparsed >= 1

(* _validate_and_build_subtasks drops dependencies on the subtask itself   *)
(* and on unknown ones; it does not look for cycles.  create_plan falls    *)
(* back to a plan of its own rather than return none.                      *)
ASSUME PlansAssumption ==
    \A p \in Plans :
        /\ p # <<>>
        /\ p \in Seq(SUBSET Nat)
        /\ \A t \in 1..Len(p) : p[t] \subseteq (1..Len(p)) \ {t}

VARIABLES
    inquiry,          \* where run is
    statuses,         \* store.tasks, in the order of the dictionary:
    dependencies,     \*   the status and the dependencies of each
    cards,            \* store.evidence: the subtask and the file of a card
    files_read,       \* store.files_read
    tasks_executed,
    current_task,
    worker_turn,      \* turn_count
    unparsed,         \* consecutive_malformed
    active_findings,  \* _active_findings, by their files
    active_files,     \* _active_files_read
    raw_answer        \* how run ended

store == <<statuses, dependencies, cards, files_read>>

worker == <<worker_turn, unparsed, active_findings, active_files>>

invVars == <<inquiry, store, tasks_executed, current_task, worker,
             raw_answer>>

Ended == {"COMPLETED", "FAILED", "TIMED_OUT"}

Statuses == {"PENDING", "RUNNING", "BLOCKED"} \cup Ended

InvTypeOK ==
    /\ inquiry \in {"plan", "dispatch", "working", "synthesis", "done"}
    /\ statuses \in Seq(Statuses)
    /\ dependencies \in Seq(SUBSET Nat)
    /\ Len(dependencies) = Len(statuses)
    /\ cards \subseteq (1..Len(statuses)) \X Files
    /\ files_read \subseteq Files
    /\ tasks_executed \in 0..MaxTasks
    /\ current_task \in Nat
    /\ worker_turn \in 0..WorkerTurns
    /\ unparsed \in 0..MaxUnparsed
    /\ active_findings \subseteq Files
    /\ active_files \subseteq Files
    /\ raw_answer \in {"none", "synthesised", "unsuccessful", "raised"}

InvInit ==
    /\ inquiry = "plan" /\ raw_answer = "none"
    /\ statuses = <<>> /\ dependencies = <<>>
    /\ cards = {} /\ files_read = {}
    /\ tasks_executed = 0 /\ current_task = 0
    /\ worker_turn = 0 /\ unparsed = 0
    /\ active_findings = {} /\ active_files = {}

----------------------------------------------------------------------------
Decompose ==
    /\ inquiry = "plan" /\ inquiry' = "dispatch"
    /\ \E p \in Plans :
          /\ dependencies' = p
          /\ statuses' = [t \in 1..Len(p) |-> "PENDING"]
    /\ UNCHANGED <<cards, files_read, tasks_executed, current_task, worker,
                   raw_answer>>

Pending == {t \in DOMAIN statuses : statuses[t] = "PENDING"}

(* Mutant of Ready: a dependency need not have succeeded.                  *)
ReadyWhenEnded ==
    {t \in Pending : \A d \in dependencies[t] : statuses[d] \in Ended}

(* get_ready_tasks.                                                        *)
Ready ==
    {t \in Pending : \A d \in dependencies[t] : statuses[d] = "COMPLETED"}

(* reset_active_state, and the fresh locals of execute_subtask.            *)
FreshWorker ==
    /\ worker_turn' = 0 /\ unparsed' = 0
    /\ active_findings' = {} /\ active_files' = {}

DispatchTask ==
    /\ inquiry = "dispatch" /\ inquiry' = "working"
    /\ tasks_executed < MaxTasks
    /\ \E t \in Ready :
          /\ \A u \in Ready : t <= u
          /\ current_task' = t
          /\ statuses' = [statuses EXCEPT ![t] = "RUNNING"]
    /\ FreshWorker
    /\ UNCHANGED <<dependencies, cards, files_read, tasks_executed,
                   raw_answer>>

(* No subtask is ready or the budget is spent: the rest is blocked.        *)
EndDispatch ==
    /\ inquiry = "dispatch" /\ inquiry' = "synthesis"
    /\ Ready = {} \/ tasks_executed >= MaxTasks
    /\ statuses' = [t \in DOMAIN statuses |->
                        IF t \in Pending THEN "BLOCKED" ELSE statuses[t]]
    /\ UNCHANGED <<dependencies, cards, files_read, tasks_executed,
                   current_task, worker, raw_answer>>

----------------------------------------------------------------------------
(* The turns of execute_subtask.                                           *)

AsksModel == inquiry = "working" /\ worker_turn < WorkerTurns

(* A tool that is no read, a read that fails, or a tool_call action that   *)
(* carries no call.                                                        *)
UseTool ==
    /\ AsksModel
    /\ worker_turn' = worker_turn + 1 /\ unparsed' = 0
    /\ UNCHANGED <<inquiry, store, tasks_executed, current_task,
                   active_findings, active_files, raw_answer>>

(* A read that brings text leaves a card at once, one for a file.          *)
ReadFile ==
    /\ AsksModel
    /\ worker_turn' = worker_turn + 1 /\ unparsed' = 0
    /\ \E f \in Files :
          /\ active_files' = active_files \cup {f}
          /\ active_findings' \in {active_findings, active_findings \cup {f}}
    /\ UNCHANGED <<inquiry, store, tasks_executed, current_task, raw_answer>>

Unparsable ==
    /\ AsksModel /\ unparsed + 1 < MaxUnparsed
    /\ worker_turn' = worker_turn + 1 /\ unparsed' = unparsed + 1
    /\ UNCHANGED <<inquiry, store, tasks_executed, current_task,
                   active_findings, active_files, raw_answer>>

----------------------------------------------------------------------------
(* The ends of a subtask.                                                  *)

(* How many subtasks may still be added.                                   *)
Slots == IF Len(statuses) < MaxTasks THEN MaxTasks - Len(statuses) ELSE 0

(* What follows from a subtask that did not complete waits for it, in vain.*)
FollowUps(end, added) ==
    [i \in 1..added |-> IF end = "COMPLETED" THEN {} ELSE {current_task}]

(* record_worker_result, then the subtasks that were discovered.           *)
EndSubtask(end, findings, files, added) ==
    /\ inquiry = "working" /\ inquiry' = "dispatch"
    /\ statuses' = [statuses EXCEPT ![current_task] = end]
                      \o [i \in 1..added |-> "PENDING"]
    /\ dependencies' = dependencies \o FollowUps(end, added)
    /\ cards' = cards \cup ({current_task} \X findings)
    /\ files_read' = files_read \cup files
    /\ tasks_executed' = tasks_executed + 1
    /\ FreshWorker
    /\ UNCHANGED <<current_task, raw_answer>>

Outcome(findings) == IF findings # {} THEN "COMPLETED" ELSE "FAILED"

(* The result of a worker whose model fails carries none of its findings.  *)
WorkerModelFails ==
    /\ AsksModel
    /\ EndSubtask("FAILED", {}, {}, 0)

(* final_answer, or findings without the envelope: they may name any file. *)
FinalAnswer ==
    /\ AsksModel
    /\ \E named \in SUBSET Files, added \in 0..Slots :
          LET found == active_findings \cup named IN
          EndSubtask(Outcome(found), found, active_files, added)

TooManyUnparsable ==
    /\ AsksModel /\ unparsed + 1 >= MaxUnparsed
    /\ EndSubtask("FAILED", active_findings, active_files, 0)

(* What was read but left no card had no text: there is nothing to fall    *)
(* back to when there are no findings.                                     *)
TurnsExhausted ==
    /\ worker_turn >= WorkerTurns
    /\ EndSubtask(Outcome(active_findings), active_findings, active_files, 0)

(* wait_for cancels the worker, which waits for the model.                 *)
SubtaskTimesOut ==
    /\ AsksModel
    /\ EndSubtask("TIMED_OUT", active_findings, active_files, 0)

(* An exception in a turn: after a tool, or among the findings of an       *)
(* answer, some of which are in the list by then.                          *)
WorkerRaises ==
    /\ \/ EndSubtask("FAILED", active_findings, active_files, 0)
       \/ /\ AsksModel
          /\ \E named \in SUBSET Files \ {{}}, added \in 0..Slots :
                EndSubtask("FAILED", active_findings \cup named,
                           active_files, added)

----------------------------------------------------------------------------
(* synthesize_answer.                                                      *)

(* Mutant of NothingToSay: blocked subtasks are forgotten.                 *)
NothingFailed ==
    /\ \A t \in DOMAIN statuses : statuses[t] = "FAILED"
    /\ cards = {} /\ files_read = {}

(* all_failed and not has_evidence.                                        *)
NothingToSay ==
    /\ \A t \in DOMAIN statuses : statuses[t] \in {"FAILED", "BLOCKED"}
    /\ cards = {} /\ files_read = {}

Answer(text) ==
    /\ inquiry = "synthesis" /\ inquiry' = "done"
    /\ raw_answer' = text
    /\ UNCHANGED <<store, tasks_executed, current_task, worker>>

Unsuccessful == NothingToSay /\ Answer("unsuccessful")

Synthesise == ~NothingToSay /\ Answer("synthesised")

(* run raises: what a subtask found cannot be stored, nor the transaction  *)
(* rolled back; the synthesis fails or times out; or the check of what it  *)
(* says raises.                                                            *)
InvestigationRaises ==
    /\ inquiry \in {"dispatch", "synthesis"} /\ inquiry' = "done"
    /\ raw_answer' = "raised"
    /\ UNCHANGED <<store, tasks_executed, current_task, worker>>

InvestigationNext ==
    \/ Decompose \/ DispatchTask \/ EndDispatch \/ UseTool \/ ReadFile
    \/ Unparsable \/ WorkerModelFails \/ FinalAnswer \/ TooManyUnparsable
    \/ TurnsExhausted \/ SubtaskTimesOut \/ WorkerRaises \/ Unsuccessful
    \/ Synthesise \/ InvestigationRaises

InvestigationSafety == InvInit /\ [][InvestigationNext]_invVars

(* The coroutine runs; the model and the tools answer or fail.             *)
InvestigationSpec ==
    InvestigationSafety /\ WF_invVars(InvestigationNext)

----------------------------------------------------------------------------
(* Subtasks discovered on the way, failures, timeouts and a budget that    *)
(* runs out included: a subtask is only worked on when each subtask it     *)
(* depends on has left evidence in the store, and the one that is given up *)
(* lacks such a subtask, unless the plan alone was over the budget.        *)
WorkFollowsFindings ==
    \A t \in DOMAIN statuses :
        /\ statuses[t] \notin {"PENDING", "BLOCKED"} =>
              \A d \in dependencies[t] : \E f \in Files : <<d, f>> \in cards
        /\ statuses[t] = "BLOCKED" =>
              \/ \E d \in dependencies[t] : statuses[d] # "COMPLETED"
              \/ Len(statuses) > MaxTasks

(* However the subtasks ended, the model is not asked to write an answer   *)
(* from nothing: something was read or found, or a worker ran out of time. *)
AnswersFromEvidence ==
    raw_answer = "synthesised" =>
        \/ cards # {} \/ files_read # {}
        \/ \E t \in DOMAIN statuses : statuses[t] = "TIMED_OUT"
=============================================================================
