----------------------------- MODULE RepairLoop -----------------------------
(***************************************************************************)
(* RepairController.repair_task for one task: diagnose the failed          *)
(* verification, register an attempt, let EngineeringAgentLoop edit the    *)
(* worktree, verify again, until a verification passes or a limit stops    *)
(* it.  The tracker of attempts and signatures outlives a call, so that a  *)
(* task can be repaired again by the same controller.                      *)
(*                                                                         *)
(* One thread does all this.  The user's cancellation arrives from outside *)
(* between any two steps.  An agent loop sees it through cancel_checker,   *)
(* if the caller passes one; the verification reads cancellation_reason    *)
(* from a row that may not have been refreshed.                            *)
(***************************************************************************)
EXTENDS LoopGuardrails, FiniteSets

CONSTANTS
    AgentCalls,    \* the calls of the engineering agent's tools
    Faults,        \* what a failing check can tell the diagnosis
    Diffs,         \* texts that get_diff can return
    MaxAttempts,   \* max_repair_attempts
    MaxSame,       \* max_repeated_failure_signatures
    MaxCalls,      \* calls of repair_task, to bound the model
    None

ASSUME AgentCallsAssumption == AgentCalls \subseteq Calls

ASSUME NoneAssumption == None \notin Diffs

(* The bounds that the fields of RepairConfig declare.                     *)
ASSUME RepairConfigAssumption ==
    /\ MaxAttempts \in Nat /\ MaxAttempts >= 1
    /\ MaxSame \in Nat /\ MaxSame >= 1
    /\ MaxCalls \in Nat

VARIABLES
    phase,        \* where repair_task is
    requests,     \* how many times it was called
    checker,      \* whether the caller passes cancel_checker
    cancelled,    \* the user has cancelled the run
    strategy,     \* the checks of the task, in order
    attempts,     \* _task_attempts: the verdict and the diagnosis of each
    signatures,   \* _task_failure_signatures
    fault,        \* what current_verif_result says is wrong
    diff,         \* latest_diff
    loop,         \* how the agent loop ended
    evidence,     \* what each check of this verification found
    result,       \* the status of the RepairResult
    stale,        \* history: checks not run since the worktree changed
    loops_run,    \* history: agent loops that asked the model
    late          \* history: tools started since the cancellation

caller == <<requests, checker, cancelled, strategy>>

tracker == <<attempts, signatures>>

history == <<stale, loops_run, late>>

repairVars == <<phase, caller, tracker, fault, diff, loop, evidence, result,
                history>>

rvars == <<guardrails, repairVars>>

Vectors == {"static", "dynamic", "contract"}

(* The strategies of VerificationStrategyResolver; every check in them is  *)
(* required.                                                               *)
Strategies == {<<"static">>, <<"static", "dynamic">>,
               <<"static", "contract">>, <<"static", "dynamic", "contract">>}

(* PASS_BARE: the vector passed and lists no evidence.                     *)
Outcomes == {"PASS", "PASS_BARE", "FAIL", "UNVERIFIED", "ERROR"}

AllFaults == Faults \cup {"not_run", "cancelled"}

Signature == AllFaults \X (Diffs \cup {None})

Attempt == [status : {"REPAIRING", "PASSED", "FAILED"}, failure : Signature]

RepairTypeOK ==
    /\ GuardrailsTypeOK
    /\ phase \in {"idle", "cycle", "turn", "model", "tool", "verify"}
    /\ requests \in Nat
    /\ checker \in BOOLEAN
    /\ cancelled \in BOOLEAN
    /\ strategy \in Strategies
    /\ attempts \in Seq(Attempt)
    /\ signatures \in Seq(Signature)
    /\ fault \in AllFaults
    /\ diff \in Diffs \cup {None}
    /\ loop \in {"none", "COMPLETED_FOR_VERIFICATION", "FAILED", "CANCELLED"}
    /\ evidence \in [Vectors -> Outcomes \cup {"none"}]
    /\ result \in {"none", "PASSED", "BLOCKED", "CANCELLED", "raised"}
    /\ stale \subseteq Vectors
    /\ loops_run \in Nat
    /\ late \in Nat

NoEvidence == [v \in Vectors |-> "none"]

RepairInit ==
    /\ GuardrailsInit
    /\ phase = "idle" /\ requests = 0
    /\ checker \in BOOLEAN /\ cancelled = FALSE
    /\ strategy \in Strategies
    /\ attempts = <<>> /\ signatures = <<>>
    /\ fault \in Faults /\ diff = None
    /\ loop = "none" /\ evidence = NoEvidence /\ result = "none"
    /\ stale = Vectors
    /\ loops_run = 0 /\ late = 0

(* Mutant of SeesCancel: the agent loop asks at its first turn only.       *)
SeesCancelOnce == checker /\ cancelled /\ (phase = "turn" => turn_count = 0)

(* What the agent loop and repair_task ask before they go on.              *)
SeesCancel == checker /\ cancelled

----------------------------------------------------------------------------
(* The verdict on the evidence of a verification.                          *)

RequiredChecks == {strategy[i] : i \in DOMAIN strategy}

Passes(o) == o \in {"PASS", "PASS_BARE"}

(* A vector without a result is given a PASS without evidence: one that    *)
(* was not asked for, and one whose verifier raised.                       *)
JudgeSees(v) ==
    IF evidence[v] \in {"none", "ERROR"} THEN "PASS_BARE" ELSE evidence[v]

(* FAIL, UNVERIFIED, or no concrete evidence in any vector: no PASS.       *)
JudgePasses ==
    /\ \A v \in Vectors : Passes(JudgeSees(v))
    /\ \E v \in Vectors : JudgeSees(v) = "PASS"

(* Mutant of VerificationPasses: the Judge alone decides.                  *)
JudgeDecides == JudgePasses

(* A FAIL and an ERROR bring defects; so does no other outcome.            *)
VerificationPasses ==
    /\ \A v \in RequiredChecks : Passes(evidence[v])
    /\ \A v \in Vectors : evidence[v] \notin {"FAIL", "ERROR"}
    /\ JudgePasses

(* The first check that has not run; none runs after one that failed.      *)
NextChecks ==
    {strategy[i] : i \in {j \in DOMAIN strategy :
        /\ evidence[strategy[j]] = "none"
        /\ \A k \in 1..(j - 1) : Passes(evidence[strategy[k]])}}

----------------------------------------------------------------------------
(* The limits of RepairAttemptTracker.                                     *)

(* Mutant of AttemptAllowed: the limit is tested against the attempts that *)
(* have a verdict.                                                         *)
VerdictsAllowed ==
    Cardinality({i \in DOMAIN attempts : attempts[i].status # "REPAIRING"})
        < MaxAttempts

AttemptAllowed == Len(attempts) + 1 <= MaxAttempts

(* The last MaxSame signatures are all the one just recorded.              *)
Stagnant(s) ==
    /\ Len(s) >= MaxSame
    /\ \A i \in (Len(s) - MaxSame + 1)..Len(s) : s[i] = s[Len(s)]

(* Mutant of Recorded: a repeated signature is not recorded again.         *)
RecordedOnce(sig) ==
    IF signatures # <<>> /\ signatures[Len(signatures)] = sig
    THEN signatures ELSE Append(signatures, sig)

Recorded(sig) == Append(signatures, sig)

(* start_attempt, then record_and_check_signature.                         *)
Register ==
    /\ attempts' = Append(attempts, [status |-> "REPAIRING",
                                     failure |-> <<fault, diff>>])
    /\ signatures' = Recorded(<<fault, diff>>)

----------------------------------------------------------------------------
(* repair_task.                                                            *)

(* A caller brings a verification that failed.                             *)
Call ==
    /\ phase = "idle" /\ requests < MaxCalls
    /\ phase' = "cycle" /\ requests' = requests + 1
    /\ fault' \in Faults /\ diff' = None
    /\ result' = "none" /\ loop' = "none"
    /\ UNCHANGED <<guardrails, checker, cancelled, strategy, tracker,
                   evidence, history>>

Return(status) == phase' = "idle" /\ result' = status

CycleCancelled ==
    /\ phase = "cycle" /\ SeesCancel
    /\ Return("CANCELLED")
    /\ UNCHANGED <<guardrails, caller, tracker, fault, diff, loop,
                   evidence, history>>

(* The attempts are used up, or max_repair_duration_sec is over.           *)
AttemptRefused ==
    /\ phase = "cycle" /\ ~SeesCancel
    /\ (~AttemptAllowed \/ attempts # <<>>)
    /\ Return("BLOCKED")
    /\ UNCHANGED <<guardrails, caller, tracker, fault, diff, loop,
                   evidence, history>>

(* The attempt is registered before the signature is tested: when that     *)
(* blocks the task, the attempt stays REPAIRING and counts.                *)
Stagnation ==
    /\ phase = "cycle" /\ ~SeesCancel /\ AttemptAllowed
    /\ Register
    /\ Stagnant(signatures')
    /\ Return("BLOCKED")
    /\ UNCHANGED <<guardrails, caller, fault, diff, loop, evidence, history>>

StartAttempt ==
    /\ phase = "cycle" /\ ~SeesCancel /\ AttemptAllowed
    /\ Register
    /\ ~Stagnant(signatures')
    /\ phase' = "turn" /\ loop' = "none"
    /\ UNCHANGED <<guardrails, caller, fault, diff, evidence, result, history>>

----------------------------------------------------------------------------
(* EngineeringAgentLoop.run_async.                                         *)

(* However the loop ends, a verification follows.  The guardrails go with  *)
(* the loop.                                                               *)
LoopEnds(status) ==
    /\ loop' = status /\ NewGuardrails
    /\ phase' = "verify" /\ evidence' = NoEvidence

LoopCancelled ==
    /\ phase = "turn" /\ SeesCancel
    /\ LoopEnds("CANCELLED")
    /\ UNCHANGED <<caller, tracker, fault, diff, result,
                   history>>

(* MAX_TURNS_EXCEEDED or, at any turn, EXECUTION_TIMEOUT.                  *)
LoopLimit ==
    /\ phase = "turn" /\ ~SeesCancel
    /\ LoopEnds("FAILED")
    /\ UNCHANGED <<caller, tracker, fault, diff, result,
                   history>>

BeginTurn ==
    /\ phase = "turn" /\ ~SeesCancel
    /\ TurnsLeft(turn_count)
    /\ turn_count' = turn_count + 1
    /\ model_calls' = model_calls + 1
    /\ loops_run' = IF turn_count = 0 THEN loops_run + 1 ELSE loops_run
    /\ phase' = "model"
    /\ UNCHANGED <<tool_call_count, command_count, recent_signatures,
                   caller, tracker, fault, diff, loop, evidence, result,
                   stale, late>>

ModelError ==
    /\ phase = "model"
    /\ LoopEnds("FAILED")
    /\ UNCHANGED <<caller, tracker, fault, diff, result,
                   history>>

(* Nothing but the turn limit stops a model that never answers in form.    *)
MalformedReply ==
    /\ phase = "model"
    /\ phase' = "turn"
    /\ UNCHANGED <<guardrails, caller, tracker, fault, diff, loop,
                   evidence, result, history>>

(* _capture_changes; an empty diff leaves latest_diff as it was.           *)
Complete ==
    /\ phase = "model"
    /\ LoopEnds("COMPLETED_FOR_VERIFICATION")
    /\ diff' \in Diffs \cup {diff}
    /\ UNCHANGED <<caller, tracker, fault, result, history>>

ToolRefused ==
    /\ phase = "model"
    /\ \E c \in AgentCalls : Stops(c)
    /\ LoopEnds("FAILED")
    /\ UNCHANGED <<caller, tracker, fault, diff, result, history>>

StartTool ==
    /\ phase = "model"
    /\ \E c \in AgentCalls : ~Stops(c) /\ record_tool_call(c)
    /\ phase' = "tool"
    /\ late' = IF cancelled THEN late + 1 ELSE late
    /\ UNCHANGED <<turn_count, model_calls, caller, tracker, fault, diff,
                   loop, evidence, result, stale, loops_run>>

(* registry.invoke waits for the handler even when it has timed out.  The  *)
(* handler changed the worktree, or it did not run or failed before that.  *)
EndTool ==
    /\ phase = "tool"
    /\ phase' = "turn"
    /\ stale' \in {stale, Vectors}
    /\ UNCHANGED <<guardrails, caller, tracker, fault, diff, loop,
                   evidence, result, loops_run, late>>

----------------------------------------------------------------------------
(* VerificationDispatcher.verify, and what repair_task makes of it.        *)

(* record_attempt_completion, on the attempt of this cycle.                *)
Verdict(status) ==
    attempts' = [attempts EXCEPT ![Len(attempts)].status = status]

NextCycle(why) ==
    /\ Verdict("FAILED")
    /\ fault' = why
    /\ phase' = "cycle"
    /\ UNCHANGED result

(* The agent did not complete: one made-up check fails.                    *)
NotVerified ==
    /\ phase = "verify" /\ loop # "COMPLETED_FOR_VERIFICATION"
    /\ NextCycle("not_run")
    /\ UNCHANGED <<guardrails, caller, signatures, diff, loop, evidence,
                   history>>

VerificationCancelled ==
    /\ phase = "verify" /\ loop = "COMPLETED_FOR_VERIFICATION"
    /\ cancelled /\ NextChecks # {}
    /\ NextCycle("cancelled")
    /\ UNCHANGED <<guardrails, caller, signatures, diff, loop, evidence,
                   history>>

(* The static verifier always lists what it inspected.                     *)
RunCheck ==
    /\ phase = "verify" /\ loop = "COMPLETED_FOR_VERIFICATION"
    /\ \E v \in NextChecks, o \in Outcomes :
          /\ v = "static" => o # "PASS_BARE"
          /\ evidence' = [evidence EXCEPT ![v] = o]
          /\ stale' = stale \ {v}
    /\ UNCHANGED <<guardrails, phase, caller, tracker, fault, diff, loop,
                   result, loops_run, late>>

Concluded ==
    /\ phase = "verify" /\ loop = "COMPLETED_FOR_VERIFICATION"
    /\ NextChecks = {}

VerificationFails ==
    /\ Concluded /\ ~VerificationPasses
    /\ \E f \in Faults : NextCycle(f)
    /\ UNCHANGED <<guardrails, caller, signatures, diff, loop, evidence,
                   history>>

Repaired ==
    /\ Concluded /\ VerificationPasses
    /\ Verdict("PASSED")
    /\ Return("PASSED")
    /\ UNCHANGED <<guardrails, caller, signatures, fault, diff, loop,
                   evidence, history>>

(* The commit of _persist_and_emit_completion is not guarded: its failure  *)
(* leaves repair_task before the attempt has its verdict.                  *)
VerificationRaises ==
    /\ phase = "verify"
    /\ loop # "COMPLETED_FOR_VERIFICATION" \/ Concluded
       \/ (cancelled /\ NextChecks # {})
    /\ Return("raised")
    /\ UNCHANGED <<guardrails, caller, tracker, fault, diff, loop,
                   evidence, history>>

----------------------------------------------------------------------------
(* Another request records the cancellation, at any time.                  *)
Cancel ==
    /\ ~cancelled
    /\ cancelled' = TRUE
    /\ UNCHANGED <<guardrails, phase, requests, checker, strategy, tracker,
                   fault, diff, loop, evidence, result, history>>

Cycle == CycleCancelled \/ AttemptRefused \/ Stagnation \/ StartAttempt

Turn ==
    \/ LoopCancelled \/ LoopLimit \/ BeginTurn
    \/ ModelError \/ MalformedReply \/ Complete \/ ToolRefused \/ StartTool
    \/ EndTool

Verify ==
    \/ NotVerified \/ VerificationCancelled \/ RunCheck
    \/ VerificationFails \/ Repaired \/ VerificationRaises

(* What the thread of repair_task does once it has been called.            *)
RepairStep == Cycle \/ Turn \/ Verify

RepairNext == Call \/ RepairStep \/ Cancel

(* The thread runs; the model, the tools and the verifiers answer or fail. *)
RepairFairness == WF_rvars(RepairStep)

RepairSafety == RepairInit /\ [][RepairNext]_rvars

RepairSpec == RepairSafety /\ RepairFairness

----------------------------------------------------------------------------
(* PASSED is returned on evidence alone: the agent said that it had        *)
(* finished, every required check passed in this verification, on the      *)
(* worktree as it is now, and the Judge saw concrete evidence.             *)
PassedIsVerified ==
    result = "PASSED" =>
        /\ loop = "COMPLETED_FOR_VERIFICATION"
        /\ \A v \in RequiredChecks : Passes(evidence[v]) /\ v \notin stale
        /\ JudgePasses

(* However often the controller is called for the task and whatever fails, *)
(* the agent is let loose on it at most MaxAttempts times.                 *)
AttemptsBounded == loops_run <= Len(attempts) /\ Len(attempts) <= MaxAttempts

(* The agent never works on a failure that the last MaxSame diagnoses have *)
(* found unchanged: not in one call, nor across the calls for the task.    *)
NoStagnantWork ==
    phase \in {"turn", "model", "tool"} =>
        ~Stagnant([i \in DOMAIN attempts |-> attempts[i].failure])

(* A caller that passes cancel_checker has the agent stop: at most the one *)
(* tool that the model's pending answer asks for is started after the      *)
(* cancellation, whichever attempts and calls follow.                      *)
CancelStopsTools == checker => late <= 1
=============================================================================
