-------------------------- MODULE RepairLoop_proofs --------------------------
(***************************************************************************)
(* What holds of repairs for any limits, any number of calls for a task,   *)
(* any faults the checks can find and any answers of the model.            *)
(*                                                                         *)
(* The tracker is the memory of the task: its signatures are the           *)
(* diagnoses of its attempts, in order, and an agent loop that has not yet *)
(* asked the model is paid for by an attempt that has.  Within a           *)
(* verification, evidence is always newer than the last change of the      *)
(* worktree.                                                               *)
(***************************************************************************)
EXTENDS RepairLoop, SequenceTheorems, FiniteSetTheorems, TLAPS

Working == {"turn", "model", "tool"}

(* The signatures are what the attempts were registered for.               *)
SignaturesMatch ==
    /\ Len(signatures) = Len(attempts)
    /\ \A i \in 1..Len(attempts) : signatures[i] = attempts[i].failure

(* The agent was let loose on a failure that is not stagnant, and no       *)
(* attempt is missing from the tracker.                                    *)
WorkOK ==
    /\ phase \in Working => ~Stagnant(signatures)
    /\ phase = "turn" /\ turn_count = 0 => loops_run < Len(attempts)
    /\ AttemptsBounded

(* A turn is one request to the model.                                     *)
TurnsOK ==
    /\ model_calls = turn_count
    /\ turn_count <= MaxTurns
    /\ phase \in {"model", "tool"} => turn_count >= 1

(* Nothing was changed since a check of this verification ran, and a call  *)
(* that goes on has no result.                                             *)
EvidenceOK ==
    /\ phase = "verify" =>
          \A v \in Vectors : evidence[v] # "none" => v \notin stale
    /\ phase # "idle" => result = "none"
    /\ PassedIsVerified

(* A model that is being asked was asked before the cancellation, or else  *)
(* nobody looks.                                                           *)
LateOK ==
    checker =>
        /\ late <= 1
        /\ late >= 1 => cancelled /\ phase # "model"

RIInv == RepairTypeOK /\ SignaturesMatch /\ WorkOK /\ TurnsOK /\ EvidenceOK
                      /\ LateOK

USE DEF caller, tracker, history, Working

----------------------------------------------------------------------------
(* The sequences.                                                          *)

LEMMA LogTypes == ASSUME RepairTypeOK
                  PROVE  /\ Len(attempts) \in Nat
                         /\ DOMAIN attempts = 1..Len(attempts)
                         /\ \A i \in 1..Len(attempts) : attempts[i] \in Attempt
                         /\ Len(signatures) \in Nat
                         /\ DOMAIN signatures = 1..Len(signatures)
<1>1. attempts \in Seq(Attempt) /\ signatures \in Seq(Signature)
  BY DEF RepairTypeOK
<1> HIDE DEF Attempt, Signature
<1> QED
  BY <1>1, LenProperties, ElementOfSeq

LEMMA ChecksAreVectors == ASSUME RepairTypeOK
                          PROVE  \A i \in DOMAIN strategy : strategy[i] \in Vectors
<1>1. strategy \in Strategies
  BY DEF RepairTypeOK
<1>2. CASE strategy = <<"static">>
  BY <1>2 DEF Vectors
<1>3. CASE strategy = <<"static", "dynamic">>
  BY <1>3 DEF Vectors
<1>4. CASE strategy = <<"static", "contract">>
  BY <1>4 DEF Vectors
<1>5. CASE strategy = <<"static", "dynamic", "contract">>
  BY <1>5 DEF Vectors
<1> QED
  BY <1>1, <1>2, <1>3, <1>4, <1>5 DEF Strategies

(* A new attempt and its signature.                                        *)
LEMMA Registered ==
    ASSUME RepairTypeOK, Register
    PROVE  /\ attempts' \in Seq(Attempt) /\ signatures' \in Seq(Signature)
           /\ Len(attempts') = Len(attempts) + 1
           /\ Len(signatures') = Len(signatures) + 1
           /\ \A i \in 1..Len(attempts) : attempts'[i] = attempts[i]
           /\ \A i \in 1..Len(signatures) : signatures'[i] = signatures[i]
           /\ attempts'[Len(attempts) + 1].failure = <<fault, diff>>
           /\ signatures'[Len(signatures) + 1] = <<fault, diff>>
<1> DEFINE sig == <<fault, diff>>
           new == [status |-> "REPAIRING", failure |-> sig]
<1>1. sig \in Signature
  BY DEF RepairTypeOK, Signature
<1>2. new \in Attempt /\ new.failure = sig
  BY <1>1 DEF Attempt
<1>3. attempts \in Seq(Attempt) /\ signatures \in Seq(Signature)
  BY DEF RepairTypeOK
<1>4. attempts' = Append(attempts, new) /\ signatures' = Append(signatures, sig)
  BY DEF Register, Recorded
<1> HIDE DEF Attempt, Signature, sig, new
<1>5. /\ attempts' \in Seq(Attempt) /\ Len(attempts') = Len(attempts) + 1
      /\ \A i \in 1..Len(attempts) : attempts'[i] = attempts[i]
      /\ attempts'[Len(attempts) + 1] = new
  BY <1>2, <1>3, <1>4, AppendProperties
<1>6. /\ signatures' \in Seq(Signature)
      /\ Len(signatures') = Len(signatures) + 1
      /\ \A i \in 1..Len(signatures) : signatures'[i] = signatures[i]
      /\ signatures'[Len(signatures) + 1] = sig
  BY <1>1, <1>3, <1>4, AppendProperties
<1> QED
  BY <1>2, <1>5, <1>6 DEF sig

(* A verdict changes nothing but the status of the last attempt.           *)
LEMMA Judged ==
    ASSUME RepairTypeOK, NEW s \in {"PASSED", "FAILED"}, Verdict(s)
    PROVE  /\ attempts' \in Seq(Attempt) /\ Len(attempts') = Len(attempts)
           /\ \A i \in 1..Len(attempts) :
                 attempts'[i].failure = attempts[i].failure
<1>1. /\ Len(attempts) \in Nat /\ DOMAIN attempts = 1..Len(attempts)
      /\ \A i \in 1..Len(attempts) : attempts[i] \in Attempt
  BY LogTypes
<1>2. attempts' = [i \in 1..Len(attempts) |->
          IF i = Len(attempts)
          THEN [attempts[Len(attempts)] EXCEPT !.status = s] ELSE attempts[i]]
  BY <1>1 DEF Verdict, RepairTypeOK
<1>3. \A i \in 1..Len(attempts) :
          attempts'[i] \in Attempt /\ attempts'[i].failure = attempts[i].failure
  BY <1>1, <1>2 DEF Attempt
<1>4. attempts' \in Seq(Attempt) /\ Len(attempts') = Len(attempts)
  <2> HIDE DEF Attempt
  <2> QED
    BY <1>1, <1>2, <1>3, IsASeq, LenProperties
<1> QED
  BY <1>3, <1>4

LEMMA StepChecks == ASSUME RepairTypeOK PROVE RequiredChecks \subseteq Vectors
                                              /\ NextChecks \subseteq Vectors
BY ChecksAreVectors DEF RequiredChecks, NextChecks

----------------------------------------------------------------------------
(* Types.                                                                  *)

LEMMA NewGuardrailsType == NewGuardrails => GuardrailsTypeOK'
<1> SUFFICES ASSUME NewGuardrails PROVE GuardrailsTypeOK'
  OBVIOUS
<1>1. recent_signatures' \in Seq(Calls)
  BY EmptySeq DEF NewGuardrails
<1> QED
  BY <1>1 DEF NewGuardrails, GuardrailsTypeOK

LEMMA RecordedCallType ==
    ASSUME GuardrailsTypeOK, NEW c \in Calls, record_tool_call(c)
    PROVE  /\ tool_call_count' \in Nat /\ command_count' \in Nat
           /\ recent_signatures' \in Seq(Calls)
<1>1. Append(recent_signatures, c) \in Seq(Calls)
  BY AppendProperties DEF GuardrailsTypeOK
<1> QED
  BY <1>1 DEF GuardrailsTypeOK, record_tool_call

LEMMA TypeStep == ASSUME RepairTypeOK, RepairNext PROVE RepairTypeOK'
<1> USE DEF RepairTypeOK
<1>0. ASSUME NEW s, s \in {"COMPLETED_FOR_VERIFICATION", "FAILED", "CANCELLED"},
             LoopEnds(s)
      PROVE  /\ GuardrailsTypeOK' /\ phase' = "verify" /\ loop' = s
             /\ evidence' \in [Vectors -> Outcomes \cup {"none"}]
  BY <1>0, NewGuardrailsType DEF LoopEnds, NoEvidence
<1>1. CASE Call
  BY <1>1 DEF Call, AllFaults, guardrails, GuardrailsTypeOK
<1>2. CASE Cycle
  <2>1. ASSUME Register
        PROVE  attempts' \in Seq(Attempt) /\ signatures' \in Seq(Signature)
    BY <2>1, Registered
  <2> QED
    BY <1>2, <2>1
       DEF Cycle, CycleCancelled, AttemptRefused, Stagnation, StartAttempt,
           Return, guardrails, GuardrailsTypeOK
<1>3. CASE Turn
  <2>1. CASE LoopCancelled \/ LoopLimit \/ ModelError \/ ToolRefused
    BY <2>1, <1>0 DEF LoopCancelled, LoopLimit, ModelError, ToolRefused
  <2>2. CASE Complete
    BY <2>2, <1>0 DEF Complete
  <2>3. CASE BeginTurn
    BY <2>3 DEF BeginTurn, GuardrailsTypeOK
  <2>4. CASE MalformedReply \/ EndTool
    BY <2>4 DEF MalformedReply, EndTool, guardrails, GuardrailsTypeOK
  <2>5. CASE StartTool
    <3>1. PICK c \in AgentCalls : record_tool_call(c)
      BY <2>5 DEF StartTool
    <3>2. /\ tool_call_count' \in Nat /\ command_count' \in Nat
          /\ recent_signatures' \in Seq(Calls)
      BY <3>1, AgentCallsAssumption, RecordedCallType
    <3> QED
      BY <2>5, <3>2 DEF StartTool, GuardrailsTypeOK
  <2> QED
    BY <1>3, <2>1, <2>2, <2>3, <2>4, <2>5 DEF Turn
<1>4. CASE Verify
  <2>1. ASSUME NEW s \in {"PASSED", "FAILED"}, Verdict(s)
        PROVE  attempts' \in Seq(Attempt)
    BY <2>1, Judged
  <2>2. CASE NotVerified \/ VerificationCancelled \/ VerificationFails
    BY <2>1, <2>2
       DEF NotVerified, VerificationCancelled, VerificationFails, NextCycle,
           AllFaults, guardrails, GuardrailsTypeOK
  <2>3. CASE RunCheck
    BY <2>3, StepChecks DEF RunCheck, guardrails, GuardrailsTypeOK
  <2>4. CASE Repaired \/ VerificationRaises
    BY <2>1, <2>4
       DEF Repaired, VerificationRaises, Return, guardrails, GuardrailsTypeOK
  <2> QED
    BY <1>4, <2>2, <2>3, <2>4 DEF Verify
<1>5. CASE Cancel
  BY <1>5 DEF Cancel, guardrails, GuardrailsTypeOK
<1> QED
  BY <1>1, <1>2, <1>3, <1>4, <1>5 DEF RepairNext, RepairStep

----------------------------------------------------------------------------
(* The tracker.                                                            *)

LEMMA SignaturesStep ==
    ASSUME RepairTypeOK, SignaturesMatch, RepairNext PROVE SignaturesMatch'
<1>0. Len(attempts) \in Nat /\ Len(signatures) = Len(attempts)
  BY LogTypes DEF SignaturesMatch
<1>1. CASE Register
  <2>1. /\ Len(attempts') = Len(attempts) + 1
        /\ Len(signatures') = Len(attempts) + 1
        /\ \A i \in 1..Len(attempts) :
              attempts'[i] = attempts[i] /\ signatures'[i] = signatures[i]
        /\ signatures'[Len(attempts) + 1] = attempts'[Len(attempts) + 1].failure
    BY <1>0, <1>1, Registered
  <2>2. ASSUME NEW i \in 1..(Len(attempts) + 1)
        PROVE  signatures'[i] = attempts'[i].failure
    <3>1. CASE i = Len(attempts) + 1
      BY <2>1, <3>1
    <3>2. CASE i \in 1..Len(attempts)
      <4>1. signatures[i] = attempts[i].failure
        BY <3>2 DEF SignaturesMatch
      <4> QED
        BY <2>1, <3>2, <4>1
    <3> QED
      BY <1>0, <3>1, <3>2
  <2> QED
    BY <2>1, <2>2 DEF SignaturesMatch
<1>2. CASE signatures' = signatures
           /\ (Verdict("PASSED") \/ Verdict("FAILED"))
  BY <1>0, <1>2, Judged DEF SignaturesMatch
<1>3. CASE UNCHANGED tracker
  BY <1>3 DEF SignaturesMatch
<1> QED
  BY <1>1, <1>2, <1>3
     DEF RepairNext, RepairStep, Call, Cancel, Cycle, CycleCancelled,
         AttemptRefused, Stagnation, StartAttempt, Turn, LoopCancelled,
         LoopLimit, ModelError, ToolRefused, Complete, BeginTurn,
         MalformedReply, EndTool, StartTool, Verify, NotVerified,
         VerificationCancelled, VerificationFails, NextCycle, RunCheck,
         Repaired, VerificationRaises

(* No agent works on a stagnant failure, nor without an attempt.           *)
LEMMA WorkStep ==
    ASSUME RepairTypeOK, WorkOK, TurnsOK, RepairNext PROVE WorkOK'
<1> USE DEF WorkOK, AttemptsBounded
<1>0. Len(attempts) \in Nat /\ loops_run \in Nat /\ turn_count \in Nat
  BY LogTypes DEF RepairTypeOK, GuardrailsTypeOK
<1>1. CASE Call \/ Cancel
  BY <1>1 DEF Call, Cancel, guardrails, Stagnant
<1>2. CASE CycleCancelled \/ AttemptRefused
  BY <1>2 DEF CycleCancelled, AttemptRefused, Return, guardrails
<1>3. CASE Stagnation \/ StartAttempt
  BY <1>0, <1>3, Registered, RepairConfigAssumption
     DEF Stagnation, StartAttempt, Return, AttemptAllowed, guardrails
<1>4. CASE LoopCancelled \/ LoopLimit \/ ModelError \/ ToolRefused \/ Complete
  BY <1>4
     DEF LoopCancelled, LoopLimit, ModelError, ToolRefused, Complete, LoopEnds
<1>5. CASE BeginTurn
  BY <1>0, <1>5 DEF BeginTurn, Stagnant
<1>6. CASE MalformedReply \/ EndTool
  BY <1>0, <1>6 DEF MalformedReply, EndTool, guardrails, Stagnant, TurnsOK
<1>7. CASE StartTool
  BY <1>7 DEF StartTool, Stagnant
<1>8. CASE NotVerified \/ VerificationCancelled \/ VerificationFails
  BY <1>0, <1>8, Judged
     DEF NotVerified, VerificationCancelled, VerificationFails, NextCycle
<1>9. CASE Repaired
  BY <1>0, <1>9, Judged DEF Repaired, Return
<1>10. CASE RunCheck \/ VerificationRaises
  BY <1>10 DEF RunCheck, VerificationRaises, Return
<1> QED
  BY <1>1, <1>2, <1>3, <1>4, <1>5, <1>6, <1>7, <1>8, <1>9, <1>10
     DEF RepairNext, RepairStep, Cycle, Turn, Verify

LEMMA TurnsStep ==
    ASSUME RepairTypeOK, TurnsOK, RepairNext PROVE TurnsOK'
<1> USE DEF TurnsOK, guardrails
<1>0. turn_count \in Nat /\ MaxTurns \in Nat
  BY ConfigAssumption DEF RepairTypeOK, GuardrailsTypeOK
<1>1. CASE Call \/ Cancel \/ Cycle \/ Verify
  BY <1>1
     DEF Call, Cancel, Cycle, CycleCancelled, AttemptRefused, Stagnation,
         StartAttempt, Return, Verify, NotVerified, VerificationCancelled,
         VerificationFails, NextCycle, RunCheck, Repaired, VerificationRaises
<1>2. CASE LoopCancelled \/ LoopLimit \/ ModelError \/ ToolRefused \/ Complete
  BY <1>0, <1>2
     DEF LoopCancelled, LoopLimit, ModelError, ToolRefused, Complete,
         LoopEnds, NewGuardrails
<1>3. CASE BeginTurn
  BY <1>0, <1>3 DEF BeginTurn, TurnsLeft
<1>4. CASE MalformedReply \/ EndTool \/ StartTool
  BY <1>4 DEF MalformedReply, EndTool, StartTool
<1> QED
  BY <1>1, <1>2, <1>3, <1>4 DEF RepairNext, RepairStep, Turn

----------------------------------------------------------------------------
(* Evidence.                                                               *)

LEMMA EvidenceStep ==
    ASSUME RepairTypeOK, EvidenceOK, RepairNext PROVE EvidenceOK'
<1> USE DEF EvidenceOK, PassedIsVerified
<1>1. CASE Call
  BY <1>1 DEF Call
<1>2. CASE Cancel
  <2>1. UNCHANGED <<phase, strategy, loop, evidence, result, stale>>
    BY <1>2 DEF Cancel
  <2>2. RequiredChecks' = RequiredChecks /\ (JudgePasses <=> JudgePasses')
    BY <2>1 DEF RequiredChecks, JudgePasses, JudgeSees
  <2> QED
    BY <2>1, <2>2 DEF Passes
<1>3. CASE Cycle
  BY <1>3
     DEF Cycle, CycleCancelled, AttemptRefused, Stagnation, StartAttempt,
         Return
<1>4. CASE LoopCancelled \/ LoopLimit \/ ModelError \/ ToolRefused \/ Complete
  BY <1>4
     DEF LoopCancelled, LoopLimit, ModelError, ToolRefused, Complete,
         LoopEnds, NoEvidence
<1>5. CASE BeginTurn \/ MalformedReply \/ StartTool \/ EndTool
  BY <1>5 DEF BeginTurn, MalformedReply, StartTool, EndTool
<1>6. CASE NotVerified \/ VerificationCancelled \/ VerificationFails
  BY <1>6
     DEF NotVerified, VerificationCancelled, VerificationFails, Concluded,
         NextCycle
<1>7. CASE RunCheck
  BY <1>7, StepChecks DEF RunCheck, RepairTypeOK
<1>8. CASE Repaired
  <2>1. /\ phase = "verify" /\ loop = "COMPLETED_FOR_VERIFICATION"
        /\ VerificationPasses
    BY <1>8 DEF Repaired, Concluded
  <2>2. \A v \in RequiredChecks : Passes(evidence[v]) /\ v \notin stale
    BY <2>1, StepChecks DEF VerificationPasses, Passes
  <2>3. UNCHANGED <<strategy, evidence, stale, loop>> /\ phase' = "idle"
    BY <1>8 DEF Repaired, Return
  <2>4. RequiredChecks' = RequiredChecks /\ (JudgePasses <=> JudgePasses')
    BY <2>3 DEF RequiredChecks, JudgePasses, JudgeSees
  <2> QED
    BY <2>1, <2>2, <2>3, <2>4 DEF VerificationPasses, Passes
<1>9. CASE VerificationRaises
  BY <1>9 DEF VerificationRaises, Return
<1> QED
  BY <1>1, <1>2, <1>3, <1>4, <1>5, <1>6, <1>7, <1>8, <1>9
     DEF RepairNext, RepairStep, Turn, Verify

----------------------------------------------------------------------------
(* Cancellation.                                                           *)

LEMMA LateStep ==
    ASSUME RepairTypeOK, LateOK, RepairNext PROVE LateOK'
<1> USE DEF LateOK
<1>0. late \in Nat
  BY DEF RepairTypeOK
<1>1. CASE Call \/ Cancel \/ Cycle \/ Verify
  BY <1>1
     DEF Call, Cancel, Cycle, CycleCancelled, AttemptRefused, Stagnation,
         StartAttempt, Return, Verify, NotVerified, VerificationCancelled,
         VerificationFails, NextCycle, RunCheck, Repaired, VerificationRaises
<1>2. CASE LoopCancelled \/ LoopLimit \/ ModelError \/ ToolRefused \/ Complete
  BY <1>2
     DEF LoopCancelled, LoopLimit, ModelError, ToolRefused, Complete, LoopEnds
<1>3. CASE BeginTurn
  BY <1>0, <1>3 DEF BeginTurn, SeesCancel
<1>4. CASE MalformedReply \/ EndTool
  BY <1>4 DEF MalformedReply, EndTool
<1>5. CASE StartTool
  BY <1>0, <1>5 DEF StartTool
<1> QED
  BY <1>1, <1>2, <1>3, <1>4, <1>5 DEF RepairNext, RepairStep, Turn

----------------------------------------------------------------------------
(* The invariant.                                                          *)

LEMMA RepairInitInv == RepairInit => RIInv
<1> SUFFICES ASSUME RepairInit PROVE RIInv
  OBVIOUS
<1> USE DEF RepairInit, GuardrailsInit
<1>1. RepairTypeOK
  <2>1. /\ recent_signatures \in Seq(Calls) /\ attempts \in Seq(Attempt)
        /\ signatures \in Seq(Signature)
    BY EmptySeq
  <2> QED
    BY <2>1 DEF RepairTypeOK, GuardrailsTypeOK, NoEvidence, AllFaults
<1>2. SignaturesMatch /\ WorkOK /\ TurnsOK /\ EvidenceOK /\ LateOK
  BY EmptySeq, ConfigAssumption, RepairConfigAssumption
     DEF SignaturesMatch, WorkOK, AttemptsBounded, TurnsOK, EvidenceOK,
         PassedIsVerified, LateOK
<1> QED
  BY <1>1, <1>2 DEF RIInv

LEMMA RepairNextInv == RIInv /\ RepairNext => RIInv'
BY TypeStep, SignaturesStep, WorkStep, TurnsStep, EvidenceStep, LateStep
   DEF RIInv

LEMMA RepairStutter == RIInv /\ UNCHANGED rvars => RIInv'
<1> SUFFICES ASSUME RIInv, UNCHANGED rvars PROVE RIInv'
  OBVIOUS
<1> USE DEF rvars, repairVars, guardrails
<1>1. RepairTypeOK'
  BY DEF RIInv, RepairTypeOK, GuardrailsTypeOK
<1>2. SignaturesMatch' /\ WorkOK' /\ TurnsOK' /\ LateOK'
  BY DEF RIInv, SignaturesMatch, WorkOK, Stagnant, AttemptsBounded, TurnsOK,
         LateOK
<1>3. EvidenceOK'
  <2>1. RequiredChecks' = RequiredChecks /\ (JudgePasses <=> JudgePasses')
    BY DEF RequiredChecks, JudgePasses, JudgeSees
  <2> QED
    BY <2>1 DEF RIInv, EvidenceOK, PassedIsVerified, Passes
<1> QED
  BY <1>1, <1>2, <1>3 DEF RIInv

LEMMA RepairInvariant == RepairSafety => []RIInv
<1>1. RepairInit => RIInv
  BY RepairInitInv
<1>2. RIInv /\ [RepairNext]_rvars => RIInv'
  BY RepairNextInv, RepairStutter
<1> QED
  BY <1>1, <1>2, PTL DEF RepairSafety

----------------------------------------------------------------------------
(* The theorems.                                                           *)

(* Nothing a repair works with leaves its type.                            *)
THEOREM RepairTypes == RepairSafety => []RepairTypeOK
BY RepairInvariant, PTL DEF RIInv

(* An agent run of a repair asks the model at most MaxTurns times.         *)
THEOREM RepairTurns == RepairSafety => []ModelCallsWithinTurns
<1>1. RIInv => ModelCallsWithinTurns
  BY DEF RIInv, TurnsOK, ModelCallsWithinTurns
<1> QED
  BY <1>1, RepairInvariant, PTL

(* No repair is PASSED but on the evidence of checks that ran after the    *)
(* last change of the worktree.                                            *)
THEOREM RepairVerified == RepairSafety => []PassedIsVerified
<1>1. RIInv => PassedIsVerified
  BY DEF RIInv, EvidenceOK
<1> QED
  BY <1>1, RepairInvariant, PTL

(* However often repair_task is called for a task, the agent works on it   *)
(* at most MaxAttempts times.                                              *)
THEOREM RepairBounded == RepairSafety => []AttemptsBounded
<1>1. RIInv => AttemptsBounded
  BY DEF RIInv, WorkOK
<1> QED
  BY <1>1, RepairInvariant, PTL

(* The agent never works on a failure that the last diagnoses repeat.      *)
THEOREM RepairNotStagnant == RepairSafety => []NoStagnantWork
<1>1. RIInv => NoStagnantWork
  <2> SUFFICES ASSUME RIInv, phase \in Working
               PROVE  ~Stagnant([i \in DOMAIN attempts |-> attempts[i].failure])
    BY DEF NoStagnantWork
  <2> DEFINE failures == [i \in DOMAIN attempts |-> attempts[i].failure]
  <2>1. /\ DOMAIN signatures = DOMAIN attempts
        /\ \A i \in DOMAIN attempts : signatures[i] = attempts[i].failure
    BY LogTypes DEF RIInv, SignaturesMatch
  <2>2. signatures = failures
    BY <2>1 DEF RIInv, RepairTypeOK
  <2> QED
    BY <2>2 DEF RIInv, WorkOK
<1> QED
  BY <1>1, RepairInvariant, PTL

(* With cancel_checker, one tool at most is started after a cancellation.  *)
THEOREM RepairCancels == RepairSafety => []CancelStopsTools
<1>1. RIInv => CancelStopsTools
  BY DEF RIInv, LateOK, CancelStopsTools
<1> QED
  BY <1>1, RepairInvariant, PTL

----------------------------------------------------------------------------
(* The end of a call.                                                      *)

(* The checks of a verification that have not run.                         *)
Unrun == {v \in Vectors : evidence[v] = "none"}

(* An attempt is its start, at most MaxTurns turns of three steps, the end *)
(* of its agent loop, at most three checks and the verdict on them.        *)
AttemptSteps == 3 * MaxTurns + 6

LaterAttempts == (MaxAttempts - Len(attempts)) * AttemptSteps

(* How many steps repair_task can still take.                              *)
RepairWork ==
    CASE phase = "idle"   -> 0
      [] phase = "cycle"  -> LaterAttempts + 1
      [] phase = "verify" -> LaterAttempts + 2 + Cardinality(Unrun)
      [] phase = "turn"   -> LaterAttempts + 6 + 3 * (MaxTurns - turn_count)
      [] phase = "tool"   -> LaterAttempts + 7 + 3 * (MaxTurns - turn_count)
      [] phase = "model"  -> LaterAttempts + 8 + 3 * (MaxTurns - turn_count)

LEMMA VectorsFinite ==
    /\ IsFiniteSet(Vectors) /\ Cardinality(Vectors) = 3
<1>1. IsFiniteSet({"static", "dynamic"}) /\ Cardinality({"static", "dynamic"}) = 2
  <2>1. IsFiniteSet({"static"}) /\ Cardinality({"static"}) = 1
    BY FS_Singleton
  <2>2. {"static", "dynamic"} = {"static"} \cup {"dynamic"}
    OBVIOUS
  <2> QED
    BY <2>1, <2>2, FS_AddElement
<1>2. Vectors = {"static", "dynamic"} \cup {"contract"}
  BY DEF Vectors
<1> QED
  BY <1>1, <1>2, FS_AddElement

LEMMA UnrunCount ==
    /\ IsFiniteSet(Unrun) /\ Cardinality(Unrun) \in 0..3
    /\ Cardinality(Unrun') \in 0..3
<1>1. ASSUME NEW S \in SUBSET Vectors
      PROVE  IsFiniteSet(S) /\ Cardinality(S) \in 0..3
  <2>1. IsFiniteSet(S) /\ Cardinality(S) <= 3
    BY VectorsFinite, FS_Subset
  <2> QED
    BY <2>1, FS_CardinalityType
<1>2. Unrun \in SUBSET Vectors /\ Unrun' \in SUBSET Vectors
  BY DEF Unrun
<1> QED
  BY <1>1, <1>2

(* What one attempt costs.                                                 *)
LEMMA OneAttempt ==
    ASSUME NEW n \in Nat
    PROVE  /\ AttemptSteps \in Nat
           /\ (MaxAttempts - (n + 1)) * AttemptSteps \in Int
           /\ (MaxAttempts - n) * AttemptSteps
                 = (MaxAttempts - (n + 1)) * AttemptSteps + 3 * MaxTurns + 6
           /\ n <= MaxAttempts =>
                 /\ (MaxAttempts - n) * AttemptSteps \in Nat
                 /\ (MaxAttempts - n) * AttemptSteps
                       <= MaxAttempts * AttemptSteps
<1>1. AttemptSteps \in Nat /\ MaxAttempts \in Nat /\ MaxTurns \in Nat
  BY ConfigAssumption, RepairConfigAssumption DEF AttemptSteps
<1>2. ASSUME NEW a \in Int, NEW k \in Nat
      PROVE  a * k = (a - 1) * k + k
  OBVIOUS
<1>3. (MaxAttempts - n) * AttemptSteps
        = (MaxAttempts - (n + 1)) * AttemptSteps + AttemptSteps
  <2>1. MaxAttempts - n \in Int /\ MaxAttempts - n - 1 = MaxAttempts - (n + 1)
    BY <1>1
  <2> HIDE DEF AttemptSteps
  <2> QED
    BY <1>1, <1>2, <2>1
<1>4. ASSUME n <= MaxAttempts
      PROVE  /\ (MaxAttempts - n) * AttemptSteps \in Nat
             /\ (MaxAttempts - n) * AttemptSteps <= MaxAttempts * AttemptSteps
  <2> DEFINE a == MaxAttempts - n
             k == AttemptSteps
  <2>1. a \in Nat /\ k \in Nat /\ MaxAttempts = a + n
    BY <1>1, <1>4
  <2> HIDE DEF a, k
  <2>2. a * k \in Nat /\ n * k \in Nat /\ (a + n) * k = a * k + n * k
    BY <2>1
  <2>3. a * k <= MaxAttempts * k
    BY <2>1, <2>2
  <2> QED
    BY <2>2, <2>3 DEF a, k
<1>5. (MaxAttempts - (n + 1)) * AttemptSteps \in Int
  <2>1. MaxAttempts - (n + 1) \in Int
    BY <1>1
  <2> HIDE DEF AttemptSteps
  <2> QED
    BY <1>1, <2>1
<1> QED
  BY <1>1, <1>3, <1>4, <1>5 DEF AttemptSteps

(* The numbers a measure is made of.                                       *)
LEMMA WorkNumbers ==
    ASSUME RIInv
    PROVE  /\ turn_count \in Nat /\ MaxTurns \in Nat /\ turn_count <= MaxTurns
           /\ Len(attempts) \in Nat /\ Len(attempts) <= MaxAttempts
           /\ LaterAttempts \in Nat
           /\ phase \in {"idle", "cycle", "turn", "model", "tool", "verify"}
<1>1. /\ turn_count \in Nat /\ MaxTurns \in Nat /\ turn_count <= MaxTurns
      /\ Len(attempts) \in Nat /\ Len(attempts) <= MaxAttempts
      /\ phase \in {"idle", "cycle", "turn", "model", "tool", "verify"}
  BY LogTypes, ConfigAssumption
     DEF RIInv, RepairTypeOK, GuardrailsTypeOK, TurnsOK, WorkOK,
         AttemptsBounded
<1> QED
  BY <1>1, OneAttempt DEF LaterAttempts

(* While a call has not returned, a step is left.                          *)
LEMMA RepairWorkType ==
    ASSUME RIInv
    PROVE  RepairWork \in Nat /\ (RepairWork = 0 => phase = "idle")
<1>1. /\ turn_count \in Nat /\ MaxTurns \in Nat /\ turn_count <= MaxTurns
      /\ LaterAttempts \in Nat /\ Cardinality(Unrun) \in 0..3
      /\ phase \in {"idle", "cycle", "turn", "model", "tool", "verify"}
  BY WorkNumbers, UnrunCount
<1>2. MaxTurns - turn_count \in Nat
  BY <1>1
<1>3. CASE phase \in {"idle", "cycle", "verify"}
  BY <1>1, <1>3 DEF RepairWork
<1>4. CASE phase \in {"turn", "tool", "model"}
  BY <1>1, <1>2, <1>4 DEF RepairWork
<1> QED
  BY <1>1, <1>3, <1>4

----------------------------------------------------------------------------
(* The steps.                                                              *)

LEMMA CycleShrinks ==
    ASSUME RIInv, Cycle PROVE RepairWork' < RepairWork
<1>0. phase = "cycle"
  BY DEF Cycle, CycleCancelled, AttemptRefused, Stagnation, StartAttempt
<1>1. RepairWork = LaterAttempts + 1 /\ LaterAttempts \in Nat
  BY <1>0, WorkNumbers DEF RepairWork
<1>2. CASE CycleCancelled \/ AttemptRefused \/ Stagnation
  <2>1. phase' = "idle"
    BY <1>2 DEF CycleCancelled, AttemptRefused, Stagnation, Return
  <2>2. RepairWork' = 0
    BY <2>1 DEF RepairWork
  <2> QED
    BY <1>1, <2>2
<1>3. CASE StartAttempt
  <2>1. phase' = "turn" /\ turn_count' = turn_count
    BY <1>3 DEF StartAttempt, guardrails
  <2>2. Len(attempts') = Len(attempts) + 1
    BY <1>3, Registered DEF StartAttempt, RIInv
  <2>3. turn_count \in Nat /\ MaxTurns \in Nat /\ Len(attempts) \in Nat
    BY WorkNumbers
  <2>4. PICK l \in Int : /\ LaterAttempts' = l
                         /\ LaterAttempts = l + 3 * MaxTurns + 6
    BY <2>2, <2>3, OneAttempt DEF LaterAttempts
  <2>5. RepairWork = l + 3 * MaxTurns + 7
    BY <1>1, <2>3, <2>4
  <2>6. RepairWork' = l + 6 + 3 * (MaxTurns - turn_count)
    BY <2>1, <2>4 DEF RepairWork
  <2>7. \A x, y \in Nat : l + 6 + 3 * (x - y) < l + 3 * x + 7
    OBVIOUS
  <2> QED
    BY <2>3, <2>5, <2>6, <2>7
<1> QED
  BY <1>2, <1>3 DEF Cycle

LEMMA TurnShrinks ==
    ASSUME RIInv, Turn PROVE RepairWork' < RepairWork
<1>0. LaterAttempts' = LaterAttempts
  BY DEF Turn, LoopCancelled, LoopLimit, BeginTurn, ModelError,
         MalformedReply, Complete, ToolRefused, StartTool, EndTool,
         LaterAttempts
<1>1. /\ turn_count \in Nat /\ MaxTurns \in Nat /\ turn_count <= MaxTurns
      /\ LaterAttempts \in Nat /\ Cardinality(Unrun') \in 0..3
  BY WorkNumbers, UnrunCount
<1>2. CASE LoopCancelled \/ LoopLimit \/ ModelError \/ Complete \/ ToolRefused
  <2>1. phase \in {"turn", "model"} /\ phase' = "verify"
    BY <1>2
       DEF LoopCancelled, LoopLimit, ModelError, Complete, ToolRefused,
           LoopEnds
  <2>2. RepairWork' = LaterAttempts + 2 + Cardinality(Unrun')
    BY <1>0, <2>1 DEF RepairWork
  <2>3. RepairWork \in Nat /\ RepairWork >= LaterAttempts + 6
    BY <1>1, <2>1 DEF RepairWork
  <2> QED
    BY <1>1, <2>2, <2>3
<1>3. CASE BeginTurn
  <2>1. phase = "turn" /\ phase' = "model" /\ turn_count' = turn_count + 1
    BY <1>3 DEF BeginTurn
  <2> QED
    BY <1>0, <1>1, <2>1 DEF RepairWork
<1>4. CASE MalformedReply \/ StartTool \/ EndTool
  <2>1. /\ turn_count' = turn_count
        /\ \/ phase = "model" /\ phase' \in {"turn", "tool"}
           \/ phase = "tool" /\ phase' = "turn"
    BY <1>4 DEF MalformedReply, StartTool, EndTool, guardrails
  <2> QED
    BY <1>0, <1>1, <2>1 DEF RepairWork
<1> QED
  BY <1>2, <1>3, <1>4 DEF Turn

(* A verdict is written over an attempt.                                   *)
LEMMA VerdictLength ==
    ASSUME RIInv, NEW s, Verdict(s) PROVE LaterAttempts' = LaterAttempts
<1>1. attempts \in Seq(Attempt)
  BY DEF RIInv, RepairTypeOK
<1>2. Len(attempts') = Len(attempts)
  <2> HIDE DEF Attempt
  <2> QED
    BY <1>1 DEF Verdict
<1> QED
  BY <1>2 DEF LaterAttempts

LEMMA VerifyShrinks ==
    ASSUME RIInv, Verify PROVE RepairWork' < RepairWork
<1>0. phase = "verify"
  BY DEF Verify, NotVerified, VerificationCancelled, RunCheck,
         VerificationFails, Repaired, VerificationRaises, Concluded
<1>1. /\ RepairWork = LaterAttempts + 2 + Cardinality(Unrun)
      /\ LaterAttempts \in Nat /\ Cardinality(Unrun) \in 0..3
  BY <1>0, WorkNumbers, UnrunCount DEF RepairWork
<1>2. CASE NotVerified \/ VerificationCancelled \/ VerificationFails
  <2>1. Verdict("FAILED") /\ phase' = "cycle"
    BY <1>2 DEF NotVerified, VerificationCancelled, VerificationFails, NextCycle
  <2>2. RepairWork' = LaterAttempts + 1
    BY <2>1, VerdictLength DEF RepairWork
  <2> QED
    BY <1>1, <2>2
<1>3. CASE Repaired \/ VerificationRaises
  <2>1. phase' = "idle"
    BY <1>3 DEF Repaired, VerificationRaises, Return
  <2>2. RepairWork' = 0
    BY <2>1 DEF RepairWork
  <2> QED
    BY <1>1, <2>2
<1>4. CASE RunCheck
  <2>1. PICK v \in NextChecks, o \in Outcomes :
            evidence' = [evidence EXCEPT ![v] = o]
    BY <1>4 DEF RunCheck
  <2>2. v \in Vectors /\ evidence[v] = "none"
    BY <2>1, ChecksAreVectors DEF NextChecks, RIInv
  <2>3. o # "none"
    BY DEF Outcomes
  <2>4. evidence \in [Vectors -> Outcomes \cup {"none"}]
    BY DEF RIInv, RepairTypeOK
  <2>5. v \in Unrun /\ Unrun' = Unrun \ {v}
    BY <2>1, <2>2, <2>3, <2>4 DEF Unrun
  <2>6. Cardinality(Unrun') = Cardinality(Unrun) - 1
    BY <2>5, UnrunCount, FS_RemoveElement
  <2>7. phase' = "verify" /\ LaterAttempts' = LaterAttempts
    BY <1>0, <1>4 DEF RunCheck, LaterAttempts
  <2>8. RepairWork' = LaterAttempts + 2 + Cardinality(Unrun')
    BY <2>7 DEF RepairWork
  <2> QED
    BY <1>1, <2>6, <2>8
<1> QED
  BY <1>2, <1>3, <1>4 DEF Verify

(* A call starts with what the attempts that are left can take.            *)
RepairBound == MaxAttempts * AttemptSteps + 1

LEMMA RepairStepShrinks ==
    ASSUME RIInv, RepairStep PROVE RepairWork' < RepairWork
BY CycleShrinks, TurnShrinks, VerifyShrinks DEF RepairStep

LEMMA CallBounded == ASSUME RIInv, Call PROVE RepairWork' <= RepairBound
<1>1. phase' = "cycle" /\ LaterAttempts' = LaterAttempts
  BY DEF Call, LaterAttempts
<1>2. RepairWork' = LaterAttempts + 1
  BY <1>1 DEF RepairWork
<1>3. LaterAttempts \in Nat /\ LaterAttempts <= MaxAttempts * AttemptSteps
  BY WorkNumbers, OneAttempt DEF LaterAttempts
<1>4. MaxAttempts * AttemptSteps \in Nat
  <2>1. MaxAttempts \in Nat /\ AttemptSteps \in Nat
    BY OneAttempt, RepairConfigAssumption
  <2> HIDE DEF AttemptSteps
  <2> QED
    BY <2>1
<1> QED
  BY <1>2, <1>3, <1>4 DEF RepairBound

LEMMA CancelKeeps == ASSUME Cancel PROVE RepairWork' = RepairWork
BY DEF Cancel, guardrails, RepairWork, LaterAttempts, Unrun

(* Whatever the model, the tools and the checks bring, each step of        *)
(* repair_task lessens RepairWork, and a cancellation does not add to it:  *)
(* a call returns within RepairBound steps.  The calls for one task share  *)
(* its attempts.                                                           *)
RepairShrinks ==
    /\ [](RepairWork \in Nat /\ (RepairWork = 0 => phase = "idle"))
    /\ [][\/ RepairStep /\ RepairWork' < RepairWork
          \/ Call /\ RepairWork' <= RepairBound
          \/ Cancel /\ RepairWork' = RepairWork]_rvars

(* repair_task returns within RepairBound of its own steps.                *)
THEOREM RepairEnds == RepairSafety => RepairShrinks
<1>1. RIInv => RepairWork \in Nat /\ (RepairWork = 0 => phase = "idle")
  BY RepairWorkType
<1>2. RIInv /\ [RepairNext]_rvars
        => [\/ RepairStep /\ RepairWork' < RepairWork
            \/ Call /\ RepairWork' <= RepairBound
            \/ Cancel /\ RepairWork' = RepairWork]_rvars
  BY RepairStepShrinks, CallBounded, CancelKeeps DEF RepairNext
<1> QED
  BY <1>1, <1>2, RepairInvariant, PTL DEF RepairSafety, RepairShrinks
=============================================================================
