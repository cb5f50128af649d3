-------------------------- MODULE AgentLoops_proofs --------------------------
(***************************************************************************)
(* What holds of an investigation, for any plans, files and limits, and of *)
(* the three loops together: those that do not run stay where they         *)
(* started, so that what holds of each alone holds of all.                 *)
(***************************************************************************)
EXTENDS AgentLoops, RepairLoop_proofs, QALoop_proofs, FiniteSetTheorems

(* What holds of an investigation.  Statuses and dependencies move only at *)
(* the current task or past the end of the sequences; a COMPLETED subtask  *)
(* has a card for good; and the subtasks that have ended are those that    *)
(* were counted, so that a spent budget leaves none of MaxTasks pending.   *)

DepsKnown ==
    \A t \in 1..Len(statuses) : dependencies[t] \subseteq 1..Len(statuses)

CompletedFound ==
    \A t \in 1..Len(statuses) :
        statuses[t] = "COMPLETED" => \E f \in Files : <<t, f>> \in cards

StartedAfter ==
    \A t \in 1..Len(statuses) :
        statuses[t] \notin {"PENDING", "BLOCKED"} =>
            \A d \in dependencies[t] : statuses[d] = "COMPLETED"

BlockedOK ==
    \A t \in 1..Len(statuses) :
        statuses[t] = "BLOCKED" =>
            \/ \E d \in dependencies[t] : statuses[d] # "COMPLETED"
            \/ Len(statuses) > MaxTasks

StagesOK ==
    /\ inquiry = "plan" => statuses = <<>>
    /\ inquiry = "working" =>
          /\ current_task \in 1..Len(statuses)
          /\ statuses[current_task] = "RUNNING"
          /\ tasks_executed < MaxTasks
    /\ \A t \in 1..Len(statuses) :
          /\ statuses[t] = "RUNNING" =>
                inquiry = "working" /\ t = current_task
          /\ statuses[t] = "PENDING" =>
                inquiry \in {"dispatch", "working", "done"}
          /\ statuses[t] = "BLOCKED" => inquiry \in {"synthesis", "done"}
    /\ raw_answer # "none" => inquiry = "done"

EndedTasks == {t \in 1..Len(statuses) : statuses[t] \in Ended}

CountOK == Cardinality(EndedTasks) = tasks_executed

InvIInv ==
    /\ InvTypeOK /\ DepsKnown /\ CompletedFound /\ StartedAfter /\ BlockedOK
    /\ StagesOK /\ CountOK /\ AnswersFromEvidence

LEMMA InvInitInv == InvInit => InvIInv
<1> SUFFICES ASSUME InvInit PROVE InvIInv
  OBVIOUS
<1> USE InvestigationAssumption DEF InvInit
<1>1. InvTypeOK
  BY DEF InvTypeOK
<1>2. DepsKnown /\ CompletedFound /\ StartedAfter /\ BlockedOK /\ StagesOK
      /\ AnswersFromEvidence
  BY DEF DepsKnown, CompletedFound, StartedAfter, BlockedOK, StagesOK,
         AnswersFromEvidence
<1>3. EndedTasks = {}
  BY DEF EndedTasks
<1> QED
  BY <1>1, <1>2, <1>3, FS_EmptySet DEF InvIInv, CountOK

LEMMA DecomposeInv == ASSUME InvIInv, Decompose PROVE InvIInv'
<1> USE DEF InvIInv, Decompose
<1>1. PICK p \in Plans : dependencies' = p /\ statuses' = [t \in 1..Len(p) |-> "PENDING"]
  OBVIOUS
<1>2. p \in Seq(SUBSET Nat) /\ \A t \in 1..Len(p) : p[t] \subseteq 1..Len(p)
  BY PlansAssumption
<1>3. /\ statuses' \in Seq(Statuses) /\ Len(statuses') = Len(p)
      /\ \A t \in 1..Len(p) : statuses'[t] = "PENDING"
  BY <1>1, <1>2 DEF Statuses
<1>4. cards = {} /\ EndedTasks = {} /\ EndedTasks' = {}
  BY <1>3 DEF InvTypeOK, StagesOK, EndedTasks, Ended
<1>5. InvTypeOK'
  BY <1>1, <1>2, <1>3, <1>4 DEF InvTypeOK, worker
<1>6. DepsKnown' /\ CompletedFound' /\ StartedAfter' /\ BlockedOK'
  BY <1>1, <1>2, <1>3 DEF DepsKnown, CompletedFound, StartedAfter, BlockedOK
<1>7. StagesOK'
  BY <1>3 DEF StagesOK
<1>8. AnswersFromEvidence' /\ CountOK'
  BY <1>4 DEF StagesOK, AnswersFromEvidence, CountOK
<1> QED
  BY <1>5, <1>6, <1>7, <1>8

LEMMA DispatchTaskInv == ASSUME InvIInv, DispatchTask PROVE InvIInv'
<1> USE DEF InvIInv, DispatchTask
<1>1. PICK t \in Ready : /\ current_task' = t
                         /\ statuses' = [statuses EXCEPT ![t] = "RUNNING"]
  OBVIOUS
<1>2. /\ statuses \in Seq(Statuses) /\ t \in 1..Len(statuses)
      /\ statuses[t] = "PENDING"
      /\ \A d \in dependencies[t] : statuses[d] = "COMPLETED"
  BY <1>1 DEF Ready, Pending, InvTypeOK
<1>3. /\ statuses' \in Seq(Statuses) /\ Len(statuses') = Len(statuses)
      /\ statuses'[t] = "RUNNING"
      /\ \A u \in 1..Len(statuses) : u # t => statuses'[u] = statuses[u]
  BY <1>1, <1>2 DEF Statuses
<1>4. InvTypeOK'
  BY <1>1, <1>2, <1>3, InvestigationAssumption DEF InvTypeOK, FreshWorker
<1>5. DepsKnown' /\ CompletedFound'
  BY <1>3 DEF DepsKnown, CompletedFound
<1>6. StartedAfter'
  BY <1>2, <1>3 DEF StartedAfter, DepsKnown
<1>7. BlockedOK'
  BY <1>2, <1>3 DEF StagesOK, BlockedOK
<1>8. StagesOK'
  BY <1>1, <1>2, <1>3 DEF StagesOK
<1>9. EndedTasks' = EndedTasks
  BY <1>2, <1>3 DEF EndedTasks, Ended
<1>10. CountOK' /\ AnswersFromEvidence'
  BY <1>9 DEF CountOK, StagesOK, AnswersFromEvidence
<1> QED
  BY <1>4, <1>5, <1>6, <1>7, <1>8, <1>10

LEMMA PartOfInterval ==
    ASSUME NEW n \in Nat, NEW S \in SUBSET (1..n)
    PROVE  /\ IsFiniteSet(S) /\ Cardinality(S) \in Nat
           /\ Cardinality(S) <= n /\ (Cardinality(S) = n => S = 1..n)
<1>1. IsFiniteSet(1..n) /\ Cardinality(1..n) = n
  BY FS_Interval
<1>2. /\ IsFiniteSet(S) /\ Cardinality(S) <= Cardinality(1..n)
      /\ Cardinality(1..n) = Cardinality(S) => 1..n = S
  BY <1>1, FS_Subset
<1>3. Cardinality(S) \in Nat
  BY <1>2, FS_CardinalityType
<1> QED
  BY <1>1, <1>2, <1>3

(* A spent budget of MaxTasks has ended every one of at most as many.      *)
LEMMA SpentBudget ==
    ASSUME InvIInv, tasks_executed >= MaxTasks, Len(statuses) <= MaxTasks
    PROVE  \A t \in 1..Len(statuses) : statuses[t] \in Ended
<1>1. /\ Len(statuses) \in Nat /\ tasks_executed \in Nat /\ MaxTasks \in Nat
      /\ Cardinality(EndedTasks) = tasks_executed
  BY InvestigationAssumption DEF InvIInv, InvTypeOK, CountOK
<1>2. EndedTasks \in SUBSET (1..Len(statuses))
  BY DEF EndedTasks
<1>3. /\ Cardinality(EndedTasks) <= Len(statuses)
      /\ Cardinality(EndedTasks) = Len(statuses) =>
            EndedTasks = 1..Len(statuses)
  BY <1>1, <1>2, PartOfInterval
<1>4. EndedTasks = 1..Len(statuses)
  BY <1>1, <1>3
<1> QED
  BY <1>4 DEF EndedTasks

LEMMA EndDispatchInv == ASSUME InvIInv, EndDispatch PROVE InvIInv'
<1> USE DEF InvIInv
<1>1. /\ statuses \in Seq(Statuses)
      /\ statuses' = [t \in 1..Len(statuses) |->
                          IF t \in Pending THEN "BLOCKED" ELSE statuses[t]]
      /\ inquiry = "dispatch" /\ inquiry' = "synthesis"
      /\ Ready = {} \/ tasks_executed >= MaxTasks
      /\ UNCHANGED <<dependencies, cards, files_read, tasks_executed,
                     current_task, worker, raw_answer>>
  BY DEF EndDispatch, InvTypeOK
<1>2. /\ statuses' \in Seq(Statuses) /\ Len(statuses') = Len(statuses)
      /\ \A t \in 1..Len(statuses) :
            /\ statuses[t] = "PENDING" => statuses'[t] = "BLOCKED"
            /\ statuses[t] # "PENDING" => statuses'[t] = statuses[t]
  BY <1>1 DEF Pending, Statuses
<1>3. InvTypeOK'
  BY <1>1, <1>2 DEF InvTypeOK, worker
<1>4. DepsKnown'
  BY <1>1, <1>2 DEF DepsKnown
<1>5. CompletedFound'
  BY <1>1, <1>2 DEF CompletedFound
<1>6. StartedAfter'
  BY <1>1, <1>2 DEF StartedAfter, DepsKnown
<1>7. BlockedOK'
  <2> SUFFICES ASSUME NEW t \in 1..Len(statuses), statuses'[t] = "BLOCKED",
                      ~(Len(statuses) > MaxTasks)
               PROVE  \E d \in dependencies[t] : statuses'[d] # "COMPLETED"
    BY <1>1, <1>2 DEF BlockedOK
  <2>1. statuses[t] = "PENDING"
    BY <1>1, <1>2 DEF StagesOK
  <2>2. Len(statuses) <= MaxTasks
    BY InvestigationAssumption DEF InvTypeOK
  <2>3. ~(tasks_executed >= MaxTasks)
    BY <2>1, <2>2, SpentBudget DEF Ended
  <2>4. PICK d \in dependencies[t] : statuses[d] # "COMPLETED"
    BY <1>1, <2>1, <2>3 DEF Ready, Pending
  <2>5. d \in 1..Len(statuses)
    BY DEF DepsKnown
  <2> QED
    BY <1>2, <2>4, <2>5
<1>8. StagesOK'
  BY <1>1, <1>2 DEF StagesOK
<1>9. EndedTasks' = EndedTasks
  <2>1. \A t \in 1..Len(statuses) :
           statuses'[t] \in Ended <=> statuses[t] \in Ended
    BY <1>2 DEF Ended
  <2> QED
    BY <1>2, <2>1 DEF EndedTasks
<1>10. CountOK' /\ AnswersFromEvidence'
  BY <1>1, <1>9 DEF CountOK, StagesOK, AnswersFromEvidence
<1> QED
  BY <1>3, <1>4, <1>5, <1>6, <1>7, <1>8, <1>10

(* A turn touches the worker alone.                                        *)
LEMMA TurnInv ==
    ASSUME InvIInv, UseTool \/ ReadFile \/ Unparsable
    PROVE  InvIInv'
<1> USE DEF InvIInv, store
<1>1. /\ UNCHANGED <<inquiry, statuses, dependencies, cards, files_read,
                     tasks_executed, current_task, raw_answer>>
      /\ AsksModel
  BY DEF UseTool, ReadFile, Unparsable
<1>2. /\ worker_turn' \in 0..WorkerTurns /\ unparsed' \in 0..MaxUnparsed
      /\ active_findings' \subseteq Files /\ active_files' \subseteq Files
  BY InvestigationAssumption
     DEF UseTool, ReadFile, Unparsable, AsksModel, InvTypeOK
<1>3. InvTypeOK'
  BY <1>1, <1>2 DEF InvTypeOK
<1>4. DepsKnown' /\ CompletedFound' /\ StartedAfter' /\ BlockedOK'
      /\ StagesOK' /\ CountOK' /\ AnswersFromEvidence'
  BY <1>1 DEF DepsKnown, CompletedFound, StartedAfter, BlockedOK, StagesOK,
              CountOK, EndedTasks, AnswersFromEvidence
<1> QED
  BY <1>3, <1>4

(* However a subtask ends, if it is COMPLETED only with findings.          *)
LEMMA EndSubtaskInv ==
    ASSUME InvIInv, NEW end \in Ended, NEW F \in SUBSET Files,
           NEW G \in SUBSET Files, NEW k \in Nat,
           end = "COMPLETED" => F # {}, EndSubtask(end, F, G, k)
    PROVE  InvIInv'
<1> USE DEF InvIInv
<1> DEFINE n == Len(statuses)
           c == current_task
<1>0. /\ inquiry = "working" /\ inquiry' = "dispatch"
      /\ cards' = cards \cup ({c} \X F) /\ files_read' = files_read \cup G
      /\ tasks_executed' = tasks_executed + 1
      /\ current_task' = c /\ raw_answer' = raw_answer
  BY DEF EndSubtask
<1>1. /\ statuses \in Seq(Statuses) /\ dependencies \in Seq(SUBSET Nat)
      /\ Len(dependencies) = n /\ n \in Nat
      /\ c \in 1..n /\ statuses[c] = "RUNNING" /\ tasks_executed < MaxTasks
  BY <1>0 DEF InvTypeOK, StagesOK
<1>2. /\ statuses' \in Seq(Statuses) /\ Len(statuses') = n + k
      /\ statuses'[c] = end
      /\ \A t \in 1..n : t # c => statuses'[t] = statuses[t]
      /\ \A t \in 1..(n + k) : t > n => statuses'[t] = "PENDING"
  <2> DEFINE s == [statuses EXCEPT ![c] = end]
             r == [i \in 1..k |-> "PENDING"]
  <2>1. /\ s \in Seq(Statuses) /\ Len(s) = n
        /\ \A t \in 1..n : s[t] = IF t = c THEN end ELSE statuses[t]
    BY <1>1 DEF Statuses
  <2>2. r \in Seq(Statuses) /\ Len(r) = k /\ \A i \in 1..k : r[i] = "PENDING"
    BY DEF Statuses
  <2>3. statuses' = s \o r
    BY DEF EndSubtask
  <2> HIDE DEF s, r
  <2> HIDE DEF n
  <2>4. s \o r \in Seq(Statuses) /\ Len(s \o r) = n + k
    <3>1. s \in Seq(Statuses) /\ r \in Seq(Statuses)
      BY <2>1, <2>2
    <3>2. s \o r \in Seq(Statuses)
      BY <3>1
    <3>3. Len(s) = n /\ Len(r) = k
      BY <2>1, <2>2
    <3>4. Len(s \o r) = n + k
      BY <3>1, <3>3
    <3> QED
      BY <3>2, <3>4
  <2>5. \A t \in 1..n : (s \o r)[t] = s[t]
    BY <1>1, <2>1, <2>2
  <2>6. \A t \in 1..(n + k) : t > n => (s \o r)[t] = "PENDING"
    BY <1>1, <2>1, <2>2
  <2>7. statuses'[c] = end
    BY <1>1, <2>1, <2>3, <2>5
  <2>8. ASSUME NEW t \in 1..n, t # c PROVE statuses'[t] = statuses[t]
    BY <1>1, <2>1, <2>3, <2>5, <2>8
  <2> QED
    BY <2>3, <2>4, <2>6, <2>7, <2>8
<1>3. /\ dependencies' \in Seq(SUBSET Nat) /\ Len(dependencies') = n + k
      /\ \A t \in 1..n : dependencies'[t] = dependencies[t]
      /\ \A t \in 1..(n + k) : t > n => dependencies'[t] \subseteq {c}
  <2> DEFINE r == FollowUps(end, k)
             e == IF end = "COMPLETED" THEN {} ELSE {c}
  <2>1. /\ r \in Seq(SUBSET Nat) /\ Len(r) = k /\ \A i \in 1..k : r[i] = e
    BY <1>1 DEF FollowUps
  <2>2. dependencies' = dependencies \o r
    BY DEF EndSubtask
  <2>3. e \subseteq {c}
    OBVIOUS
  <2> HIDE DEF r, n, e
  <2>4. dependencies \o r \in Seq(SUBSET Nat) /\ Len(dependencies \o r) = n + k
    BY <1>1, <2>1
  <2>5. \A t \in 1..n : (dependencies \o r)[t] = dependencies[t]
    BY <1>1, <2>1
  <2>6. \A t \in 1..(n + k) : t > n => (dependencies \o r)[t] = e
    BY <1>1, <2>1
  <2> QED
    BY <2>2, <2>3, <2>4, <2>5, <2>6
<1>4. InvTypeOK'
  <2>1. cards' \subseteq (1..(n + k)) \X Files
    BY <1>0, <1>1 DEF InvTypeOK
  <2>2. tasks_executed' \in 0..MaxTasks /\ current_task' \in Nat
        /\ files_read' \subseteq Files
    BY <1>0, <1>1, InvestigationAssumption DEF InvTypeOK
  <2>3. /\ worker_turn' \in 0..WorkerTurns /\ unparsed' \in 0..MaxUnparsed
        /\ active_findings' \subseteq Files /\ active_files' \subseteq Files
    BY InvestigationAssumption DEF EndSubtask, FreshWorker
  <2> QED
    BY <1>0, <1>1, <1>2, <1>3, <2>1, <2>2, <2>3 DEF InvTypeOK
<1>5. DepsKnown'
  <2> SUFFICES ASSUME NEW t \in 1..(n + k)
               PROVE  dependencies'[t] \subseteq 1..(n + k)
    BY <1>2 DEF DepsKnown
  <2>1. CASE t \in 1..n
    BY <1>1, <1>3, <2>1 DEF DepsKnown
  <2>2. CASE t > n
    BY <1>1, <1>3, <2>2
  <2> QED
    BY <1>1, <2>1, <2>2
<1>6. CompletedFound'
  <2> SUFFICES ASSUME NEW t \in 1..(n + k), statuses'[t] = "COMPLETED"
               PROVE  \E f \in Files : <<t, f>> \in cards'
    BY <1>2 DEF CompletedFound
  <2>1. t \in 1..n
    BY <1>1, <1>2
  <2>2. CASE t = c
    <3>1. PICK f \in F : TRUE
      BY <1>2, <2>2
    <3> QED
      BY <1>0, <2>2, <3>1
  <2>3. CASE t # c
    <3>1. statuses[t] = "COMPLETED"
      BY <1>2, <2>1, <2>3
    <3>2. PICK f \in Files : <<t, f>> \in cards
      BY <2>1, <3>1 DEF CompletedFound
    <3> QED
      BY <1>0, <3>2
  <2> QED
    BY <2>2, <2>3
<1>7. StartedAfter'
  <2> SUFFICES ASSUME NEW t \in 1..(n + k),
                      statuses'[t] \notin {"PENDING", "BLOCKED"},
                      NEW d \in dependencies'[t]
               PROVE  statuses'[d] = "COMPLETED"
    BY <1>2 DEF StartedAfter
  <2>1. t \in 1..n /\ dependencies'[t] = dependencies[t]
    BY <1>1, <1>2, <1>3
  <2>2. d \in 1..n
    BY <2>1 DEF DepsKnown
  <2>3. statuses[t] \notin {"PENDING", "BLOCKED"}
    BY <1>1, <1>2, <2>1
  <2>4. statuses[d] = "COMPLETED"
    BY <2>1, <2>3 DEF StartedAfter
  <2>5. d # c
    BY <1>1, <2>4
  <2> QED
    BY <1>2, <2>2, <2>4, <2>5
<1>8. \A t \in 1..(n + k) : statuses'[t] # "BLOCKED"
  <2> SUFFICES ASSUME NEW t \in 1..(n + k) PROVE statuses'[t] # "BLOCKED"
    OBVIOUS
  <2>1. CASE t > n
    BY <1>2, <2>1
  <2>2. CASE t = c
    BY <1>2, <2>2 DEF Ended
  <2>3. CASE t \in 1..n /\ t # c
    BY <1>0, <1>2, <2>3 DEF StagesOK
  <2> QED
    BY <1>1, <2>1, <2>2, <2>3
<1>9. BlockedOK'
  BY <1>2, <1>8 DEF BlockedOK
<1>10. \A t \in 1..(n + k) : statuses'[t] # "RUNNING"
  <2> SUFFICES ASSUME NEW t \in 1..(n + k) PROVE statuses'[t] # "RUNNING"
    OBVIOUS
  <2>1. CASE t > n
    BY <1>2, <2>1
  <2>2. CASE t = c
    BY <1>2, <2>2 DEF Ended
  <2>3. CASE t \in 1..n /\ t # c
    BY <1>2, <2>3 DEF StagesOK
  <2> QED
    BY <1>1, <2>1, <2>2, <2>3
<1>11. StagesOK'
  BY <1>0, <1>2, <1>8, <1>10 DEF StagesOK
<1>12. CountOK'
  <2>1. EndedTasks' \subseteq EndedTasks \cup {c}
    BY <1>1, <1>2 DEF EndedTasks, Ended
  <2>2. EndedTasks \cup {c} \subseteq EndedTasks' /\ c \notin EndedTasks
    BY <1>1, <1>2 DEF EndedTasks, Ended
  <2>3. EndedTasks \in SUBSET (1..n)
    BY DEF EndedTasks
  <2>4. IsFiniteSet(EndedTasks)
    BY <1>1, <2>3, PartOfInterval
  <2>5. Cardinality(EndedTasks \cup {c}) = Cardinality(EndedTasks) + 1
    BY <2>2, <2>4, FS_AddElement
  <2>6. EndedTasks' = EndedTasks \cup {c}
    BY <2>1, <2>2
  <2> QED
    BY <1>0, <2>5, <2>6 DEF CountOK
<1>13. AnswersFromEvidence'
  BY <1>0 DEF StagesOK, AnswersFromEvidence
<1> QED
  BY <1>4, <1>5, <1>6, <1>7, <1>9, <1>11, <1>12, <1>13

LEMMA SubtaskEndsInv ==
    ASSUME InvIInv, \/ WorkerModelFails \/ FinalAnswer \/ TooManyUnparsable
                    \/ TurnsExhausted \/ SubtaskTimesOut \/ WorkerRaises
    PROVE  InvIInv'
<1>1. /\ active_findings \in SUBSET Files /\ active_files \in SUBSET Files
      /\ Slots \in Nat
  BY InvestigationAssumption DEF InvIInv, InvTypeOK, Slots
<1>2. \A F : Outcome(F) \in Ended /\ (Outcome(F) = "COMPLETED" => F # {})
  BY DEF Outcome, Ended
<1>3. {} \in SUBSET Files /\ 0 \in Nat /\ "FAILED" \in Ended
      /\ "TIMED_OUT" \in Ended
  BY DEF Ended
<1>4. CASE WorkerModelFails
  BY <1>3, <1>4, EndSubtaskInv DEF WorkerModelFails
<1>5. CASE FinalAnswer
  <2>1. PICK named \in SUBSET Files, k \in 0..Slots :
           EndSubtask(Outcome(active_findings \cup named),
                      active_findings \cup named, active_files, k)
    BY <1>5 DEF FinalAnswer
  <2>2. active_findings \cup named \in SUBSET Files /\ k \in Nat
    BY <1>1
  <2> QED
    BY <1>1, <1>2, <2>1, <2>2, EndSubtaskInv
<1>6. CASE TooManyUnparsable
  BY <1>1, <1>3, <1>6, EndSubtaskInv DEF TooManyUnparsable
<1>7. CASE TurnsExhausted
  BY <1>1, <1>2, <1>3, <1>7, EndSubtaskInv DEF TurnsExhausted
<1>8. CASE SubtaskTimesOut
  BY <1>1, <1>3, <1>8, EndSubtaskInv DEF SubtaskTimesOut
<1>9. CASE WorkerRaises
  <2>1. CASE EndSubtask("FAILED", active_findings, active_files, 0)
    BY <1>1, <1>3, <2>1, EndSubtaskInv
  <2>2. ASSUME NEW named \in SUBSET Files, NEW k \in 0..Slots,
               EndSubtask("FAILED", active_findings \cup named,
                          active_files, k)
        PROVE  InvIInv'
    <3>1. active_findings \cup named \in SUBSET Files /\ k \in Nat
      BY <1>1
    <3> QED
      BY <1>1, <1>3, <2>2, <3>1, EndSubtaskInv
  <2> QED
    BY <1>9, <2>1, <2>2 DEF WorkerRaises
<1> QED
  BY <1>4, <1>5, <1>6, <1>7, <1>8, <1>9

LEMMA RaisesInv == ASSUME InvIInv, InvestigationRaises PROVE InvIInv'
<1> USE DEF InvIInv, store, worker, InvestigationRaises
<1>1. /\ UNCHANGED <<statuses, dependencies, cards, files_read,
                     tasks_executed, current_task>>
      /\ inquiry \in {"dispatch", "synthesis"} /\ inquiry' = "done"
      /\ raw_answer' = "raised"
  OBVIOUS
<1>2. InvTypeOK'
  BY DEF InvTypeOK
<1>3. DepsKnown' /\ CompletedFound' /\ StartedAfter' /\ BlockedOK' /\ CountOK'
  BY <1>1 DEF DepsKnown, CompletedFound, StartedAfter, BlockedOK, CountOK,
              EndedTasks
<1>4. StagesOK' /\ AnswersFromEvidence'
  BY <1>1 DEF StagesOK, AnswersFromEvidence
<1> QED
  BY <1>2, <1>3, <1>4

LEMMA AnswerInv ==
    ASSUME InvIInv, Unsuccessful \/ Synthesise
    PROVE  InvIInv'
<1> USE DEF InvIInv, store, worker, Unsuccessful, Synthesise, Answer
<1>1. /\ UNCHANGED <<statuses, dependencies, cards, files_read,
                     tasks_executed, current_task>>
      /\ inquiry = "synthesis" /\ inquiry' = "done"
  OBVIOUS
<1>2. InvTypeOK'
  BY DEF InvTypeOK
<1>3. DepsKnown' /\ CompletedFound' /\ StartedAfter' /\ BlockedOK' /\ CountOK'
  BY <1>1 DEF DepsKnown, CompletedFound, StartedAfter, BlockedOK, CountOK,
              EndedTasks
<1>4. StagesOK'
  BY <1>1 DEF StagesOK
<1>5. AnswersFromEvidence'
  <2> SUFFICES ASSUME ~NothingToSay, cards = {}, files_read = {}
               PROVE  \E t \in 1..Len(statuses) : statuses[t] = "TIMED_OUT"
    BY <1>1 DEF AnswersFromEvidence, InvTypeOK
  <2>1. PICK t \in 1..Len(statuses) :
           statuses[t] \notin {"FAILED", "BLOCKED"}
    BY DEF NothingToSay, InvTypeOK
  <2>2. statuses[t] \in Statuses
    BY DEF InvTypeOK
  <2>3. statuses[t] \in {"COMPLETED", "TIMED_OUT"}
    BY <1>1, <2>1, <2>2 DEF StagesOK, Statuses, Ended
  <2> QED
    BY <2>3 DEF CompletedFound
<1> QED
  BY <1>2, <1>3, <1>4, <1>5

LEMMA InvestigationStutter == ASSUME InvIInv, UNCHANGED invVars
                              PROVE  InvIInv'
<1> USE DEF invVars, store, worker, InvIInv
<1>1. InvTypeOK' /\ DepsKnown' /\ CompletedFound' /\ StartedAfter'
  BY DEF InvTypeOK, DepsKnown, CompletedFound, StartedAfter
<1>2. BlockedOK' /\ StagesOK' /\ CountOK' /\ AnswersFromEvidence'
  BY DEF BlockedOK, StagesOK, CountOK, EndedTasks, AnswersFromEvidence
<1> QED
  BY <1>1, <1>2

LEMMA InvestigationNextInv == ASSUME InvIInv, InvestigationNext
                              PROVE  InvIInv'
<1> QED
  BY DecomposeInv, DispatchTaskInv, EndDispatchInv, TurnInv, SubtaskEndsInv,
     AnswerInv, RaisesInv DEF InvestigationNext

(* A subtask is started only when what it depends on is COMPLETED, and a   *)
(* COMPLETED subtask has left a card.                                      *)
LEMMA InvestigationSafe == InvIInv => WorkFollowsFindings
<1> SUFFICES ASSUME InvIInv PROVE WorkFollowsFindings
  OBVIOUS
<1>1. DOMAIN statuses = 1..Len(statuses)
  BY DEF InvIInv, InvTypeOK
<1> QED
  BY <1>1 DEF InvIInv, StartedAfter, DepsKnown, CompletedFound, BlockedOK,
              WorkFollowsFindings

----------------------------------------------------------------------------
(* The composition.                                                        *)

(* What remains of the invariant of a loop that does not run.              *)
RepairRests == phase = "idle" /\ SignaturesMatch /\ AttemptsBounded
                              /\ EvidenceOK /\ LateOK

IInv ==
    /\ TypeOK
    /\ driver = "repair" => RIInv /\ QAInv
    /\ driver # "repair" => QIInv /\ RepairRests
    /\ InvIInv

USE DEF caller, tracker, history, counters, evidenceVars

LEMMA InitIInv == Init => IInv
<1> SUFFICES ASSUME Init PROVE IInv
  OBVIOUS
<1>1. /\ RIInv /\ QIInv /\ InvIInv /\ phase = "idle"
      /\ driver \in Drivers
  BY RepairInitInv, QAInitInv, InvInitInv DEF Init, RepairInit
<1>2. TypeOK /\ QAInv /\ RepairRests
  BY <1>1 DEF TypeOK, RIInv, QIInv, QAInv, InvIInv, WorkOK, RepairRests
<1> QED
  BY <1>1, <1>2 DEF IInv

(* A question is not touched by a repair, but for the guardrails.          *)
LEMMA QARests == ASSUME QAInv, GuardrailsTypeOK', UNCHANGED qaVars
                 PROVE  QAInv'
<1> USE DEF QAInv, qaVars
<1>1. QATypeOK'
  BY DEF QATypeOK
<1>2. TurnsKnown' /\ AskedNew' /\ MalformedOK' /\ KnownCallsNotRepeated'
      /\ ReadsBringNewLines'
  BY DEF TurnsKnown, AskedNew, MalformedOK, KnownCallsNotRepeated,
         ReadsBringNewLines
<1> QED
  BY <1>1, <1>2

(* Nor is a repair by a question.                                          *)
LEMMA RepairRestsOn == ASSUME RepairRests, UNCHANGED repairVars
                       PROVE  RepairRests'
<1> USE DEF RepairRests, repairVars
<1>1. SignaturesMatch' /\ AttemptsBounded' /\ LateOK'
  BY DEF SignaturesMatch, AttemptsBounded, LateOK
<1>2. EvidenceOK'
  <2>1. RequiredChecks' = RequiredChecks /\ (JudgePasses <=> JudgePasses')
    BY DEF RequiredChecks, JudgePasses, JudgeSees
  <2> QED
    BY <2>1 DEF EvidenceOK, PassedIsVerified, Passes
<1> QED
  BY <1>1, <1>2

LEMMA RepairActsInv == ASSUME IInv, RepairActs PROVE IInv'
<1>1. /\ driver = "repair" /\ RepairNext
      /\ UNCHANGED <<qaVars, invVars, driver>>
      /\ RIInv /\ QAInv /\ InvIInv
  BY DEF RepairActs, IInv
<1>2. RIInv'
  BY <1>1, RepairNextInv
<1>3. RepairTypeOK' /\ GuardrailsTypeOK'
  BY <1>2 DEF RIInv, RepairTypeOK
<1>4. QAInv'
  BY <1>1, <1>3, QARests
<1>5. InvIInv'
  BY <1>1, InvestigationStutter
<1>6. TypeOK'
  BY <1>1, <1>3, <1>4, <1>5 DEF TypeOK, QAInv, InvIInv, Drivers
<1> QED
  BY <1>1, <1>2, <1>4, <1>5, <1>6 DEF IInv

LEMMA QAActsInv == ASSUME IInv, QAActs PROVE IInv'
<1>1. /\ driver = "question" /\ QANext
      /\ UNCHANGED <<repairVars, invVars, driver>>
      /\ QIInv /\ RepairRests /\ RepairTypeOK /\ InvIInv
  BY DEF QAActs, IInv, TypeOK
<1>2. QIInv'
  BY <1>1, QANextInv
<1>3. QATypeOK' /\ GuardrailsTypeOK'
  BY <1>2 DEF QIInv, QAInv, QATypeOK
<1>4. RepairRests'
  BY <1>1, RepairRestsOn
<1>5. RepairTypeOK'
  BY <1>1, <1>3 DEF RepairTypeOK, repairVars
<1>6. InvIInv'
  BY <1>1, InvestigationStutter
<1>7. TypeOK'
  BY <1>1, <1>3, <1>5, <1>6 DEF TypeOK, InvIInv, Drivers
<1> QED
  BY <1>1, <1>2, <1>4, <1>6, <1>7 DEF IInv

LEMMA InvestigationActsInv == ASSUME IInv, InvestigationActs PROVE IInv'
<1>1. /\ driver = "investigation" /\ InvestigationNext
      /\ UNCHANGED rvars /\ UNCHANGED qaVars /\ driver' = driver
      /\ QIInv /\ RepairRests /\ InvIInv /\ RepairTypeOK /\ QATypeOK
  BY DEF InvestigationActs, IInv, TypeOK
<1>2. InvIInv'
  BY <1>1, InvestigationNextInv
<1>3. UNCHANGED qvars /\ UNCHANGED repairVars
  BY <1>1 DEF rvars, qvars
<1>4. QIInv' /\ RepairRests'
  BY <1>1, <1>3, QAStutter, RepairRestsOn
<1>5. RepairTypeOK' /\ QATypeOK'
  BY <1>1 DEF RepairTypeOK, QATypeOK, GuardrailsTypeOK, repairVars, qaVars,
              rvars, guardrails
<1>6. TypeOK'
  BY <1>1, <1>2, <1>5 DEF TypeOK, InvIInv, Drivers
<1> QED
  BY <1>1, <1>2, <1>4, <1>6 DEF IInv

LEMMA StutterInv == ASSUME IInv, UNCHANGED vars PROVE IInv'
<1>1. UNCHANGED rvars /\ UNCHANGED qvars /\ UNCHANGED repairVars
      /\ UNCHANGED qaVars /\ UNCHANGED invVars /\ driver' = driver
  BY DEF vars, rvars, qvars
<1>2. RIInv => RIInv'
  BY <1>1, RepairStutter
<1>3. QIInv => QIInv'
  BY <1>1, QAStutter
<1>4. RepairRests => RepairRests'
  BY <1>1, RepairRestsOn
<1>5. RepairTypeOK' /\ QATypeOK' /\ GuardrailsTypeOK'
  BY <1>1 DEF IInv, TypeOK, RepairTypeOK, QATypeOK, GuardrailsTypeOK,
              repairVars, qaVars, rvars, guardrails
<1>6. QAInv => QAInv'
  BY <1>1, <1>5, QARests
<1>7. InvIInv => InvIInv'
  BY <1>1, InvestigationStutter
<1> QED
  BY <1>1, <1>2, <1>3, <1>4, <1>5, <1>6, <1>7 DEF IInv, TypeOK, InvIInv

LEMMA Invariant == Spec => []IInv
<1>1. IInv /\ [Next]_vars => IInv'
  BY RepairActsInv, QAActsInv, InvestigationActsInv, StutterInv DEF Next
<1> QED
  BY <1>1, InitIInv, PTL DEF Spec

----------------------------------------------------------------------------
(* Whichever loop runs, everything it works with keeps its type.           *)
THEOREM TypeCorrect == Spec => []TypeOK
<1>1. IInv => TypeOK
  BY DEF IInv
<1> QED
  BY <1>1, Invariant, PTL

(* Whichever loop runs, the model is asked at most MaxTurns times under    *)
(* one LoopGuardrails object, and what the properties say of a repair and  *)
(* of a question holds.                                                    *)
THEOREM LoopsSafe ==
    Spec => [](/\ ModelCallsWithinTurns
               /\ PassedIsVerified /\ AttemptsBounded /\ CancelStopsTools
               /\ KnownCallsNotRepeated /\ ReadsBringNewLines)
<1>1. IInv => /\ ModelCallsWithinTurns
              /\ PassedIsVerified /\ AttemptsBounded /\ CancelStopsTools
              /\ KnownCallsNotRepeated /\ ReadsBringNewLines
  BY DEF IInv, TypeOK, RIInv, TurnsOK, WorkOK, EvidenceOK, LateOK, QIInv,
         QAInv, BudgetOK, RepairRests, ModelCallsWithinTurns, CancelStopsTools
<1> QED
  BY <1>1, Invariant, PTL

(* Whatever the plan, the answers of the model and the ways subtasks end,  *)
(* run works on a subtask only after every one it depends on has left      *)
(* evidence, and gives up only those that lack one.                        *)
THEOREM InvestigationInOrder == Spec => []WorkFollowsFindings
<1>1. IInv => WorkFollowsFindings
  BY InvestigationSafe DEF IInv
<1> QED
  BY <1>1, Invariant, PTL

(* synthesize_answer asks the model for an answer only when something was  *)
(* read or found, or a subtask timed out.                                  *)
THEOREM InvestigationAnswers == Spec => []AnswersFromEvidence
<1>1. IInv => AnswersFromEvidence
  BY DEF IInv, InvIInv
<1> QED
  BY <1>1, Invariant, PTL

----------------------------------------------------------------------------
(* The end of an investigation.                                            *)

(* A subtask is its dispatch, at most WorkerTurns turns and its end.       *)
SubtaskSteps == WorkerTurns + 2

LaterSubtasks == (MaxTasks - tasks_executed) * SubtaskSteps

(* How many steps run can still take; a subtask that is worked on has had  *)
(* its dispatch and its turns.                                             *)
InvWork ==
    CASE inquiry = "done"      -> 0
      [] inquiry = "synthesis" -> 1
      [] inquiry = "dispatch"  -> LaterSubtasks + 2
      [] inquiry = "working"   -> LaterSubtasks + 1 - worker_turn
      [] inquiry = "plan"      -> MaxTasks * SubtaskSteps + 3

(* What one subtask costs.                                                 *)
LEMMA OneSubtask ==
    ASSUME InvTypeOK
    PROVE  /\ SubtaskSteps \in Nat /\ MaxTasks * SubtaskSteps \in Nat
           /\ LaterSubtasks \in Nat
           /\ LaterSubtasks = (MaxTasks - (tasks_executed + 1)) * SubtaskSteps
                                  + WorkerTurns + 2
           /\ (MaxTasks - (tasks_executed + 1)) * SubtaskSteps \in Int
           /\ tasks_executed < MaxTasks => LaterSubtasks >= WorkerTurns + 2
           /\ tasks_executed = 0 => LaterSubtasks = MaxTasks * SubtaskSteps
<1>1. /\ MaxTasks \in Nat /\ WorkerTurns \in Nat
      /\ tasks_executed \in 0..MaxTasks /\ SubtaskSteps \in Nat
  BY InvestigationAssumption DEF InvTypeOK, SubtaskSteps
<1> DEFINE a == MaxTasks - tasks_executed
           k == SubtaskSteps
<1>2. a \in Nat /\ k \in Nat /\ k = WorkerTurns + 2
      /\ a - 1 = MaxTasks - (tasks_executed + 1)
      /\ (tasks_executed < MaxTasks => a - 1 \in Nat)
      /\ (tasks_executed = 0 => a = MaxTasks)
  BY <1>1 DEF SubtaskSteps
<1>3. LaterSubtasks = a * k
  BY DEF LaterSubtasks
<1> HIDE DEF a, k
<1>4. /\ a * k \in Nat /\ a * k = (a - 1) * k + k /\ (a - 1) * k \in Int
      /\ (a - 1 \in Nat => (a - 1) * k \in Nat)
  BY <1>2
<1>5. MaxTasks * k \in Nat
  BY <1>1, <1>2
<1>6. tasks_executed < MaxTasks => LaterSubtasks >= k
  BY <1>2, <1>3, <1>4
<1>7. k = SubtaskSteps
  BY DEF k
<1> QED
  BY <1>1, <1>2, <1>3, <1>4, <1>5, <1>6, <1>7

(* While an investigation has not ended, a step is left.                   *)
LEMMA InvWorkType ==
    ASSUME InvIInv PROVE InvWork \in Nat /\ (InvWork = 0 => inquiry = "done")
<1>1. /\ LaterSubtasks \in Nat /\ MaxTasks * SubtaskSteps \in Nat
      /\ inquiry = "working" => LaterSubtasks >= WorkerTurns + 2
  BY OneSubtask DEF InvIInv, StagesOK
<1>2. /\ worker_turn \in 0..WorkerTurns /\ WorkerTurns \in Nat
      /\ inquiry \in {"plan", "dispatch", "working", "synthesis", "done"}
  BY InvestigationAssumption DEF InvIInv, InvTypeOK
<1>3. CASE inquiry = "working"
  BY <1>1, <1>2, <1>3 DEF InvWork
<1>4. CASE inquiry # "working"
  BY <1>1, <1>2, <1>4 DEF InvWork
<1> QED
  BY <1>3, <1>4

(* A subtask ends before its turns are over.                               *)
LEMMA EndShrinks ==
    ASSUME InvIInv, NEW end, NEW findings, NEW files, NEW added,
           EndSubtask(end, findings, files, added)
    PROVE  InvWork' < InvWork
<1>1. /\ inquiry = "working" /\ inquiry' = "dispatch"
      /\ tasks_executed' = tasks_executed + 1
  BY DEF EndSubtask
<1>2. /\ worker_turn \in 0..WorkerTurns /\ WorkerTurns \in Nat
  BY InvestigationAssumption DEF InvIInv, InvTypeOK
<1> DEFINE left == (MaxTasks - (tasks_executed + 1)) * SubtaskSteps
<1>3. left \in Int /\ LaterSubtasks = left + WorkerTurns + 2
  BY OneSubtask DEF InvIInv
<1>4. LaterSubtasks' = left
  BY <1>1 DEF LaterSubtasks, SubtaskSteps
<1> HIDE DEF left
<1>5. InvWork' = left + 2
  BY <1>1, <1>4 DEF InvWork
<1>6. InvWork = left + WorkerTurns + 3 - worker_turn
  BY <1>1, <1>2, <1>3 DEF InvWork
<1> QED
  BY <1>2, <1>3, <1>5, <1>6

LEMMA InvWorkStep ==
    ASSUME InvIInv, InvestigationNext PROVE InvWork' < InvWork
<1>0. /\ worker_turn \in 0..WorkerTurns /\ WorkerTurns \in Nat
      /\ LaterSubtasks \in Nat /\ MaxTasks * SubtaskSteps \in Nat
      /\ tasks_executed \in Nat
  BY OneSubtask, InvestigationAssumption DEF InvIInv, InvTypeOK
<1>1. CASE Decompose
  <2>1. /\ inquiry = "plan" /\ inquiry' = "dispatch"
        /\ LaterSubtasks' = LaterSubtasks
    BY <1>1 DEF Decompose, LaterSubtasks
  <2>2. InvWork' = LaterSubtasks + 2
    BY <2>1 DEF InvWork
  <2>3. InvWork = MaxTasks * SubtaskSteps + 3
    BY <2>1 DEF InvWork
  <2>4. LaterSubtasks <= MaxTasks * SubtaskSteps
    <3>1. EndedTasks = {}
      BY <2>1 DEF InvIInv, StagesOK, EndedTasks
    <3>2. tasks_executed = 0
      BY <3>1, FS_EmptySet DEF InvIInv, CountOK
    <3> QED
      BY <1>0, <3>2, OneSubtask DEF InvIInv
  <2> QED
    BY <1>0, <2>2, <2>3, <2>4
<1>2. CASE DispatchTask
  <2>1. /\ inquiry = "dispatch" /\ inquiry' = "working" /\ worker_turn' = 0
        /\ LaterSubtasks' = LaterSubtasks
    BY <1>2 DEF DispatchTask, FreshWorker, LaterSubtasks
  <2>2. InvWork = LaterSubtasks + 2
    BY <2>1 DEF InvWork
  <2>3. InvWork' = LaterSubtasks + 1
    BY <1>0, <2>1 DEF InvWork
  <2> QED
    BY <1>0, <2>2, <2>3
<1>3. CASE EndDispatch
  <2>1. inquiry = "dispatch" /\ inquiry' = "synthesis"
    BY <1>3 DEF EndDispatch
  <2>2. InvWork = LaterSubtasks + 2 /\ InvWork' = 1
    BY <2>1 DEF InvWork
  <2> QED
    BY <1>0, <2>2
<1>4. CASE UseTool \/ ReadFile \/ Unparsable
  <2>1. /\ inquiry = "working" /\ inquiry' = "working"
        /\ worker_turn' = worker_turn + 1
        /\ LaterSubtasks' = LaterSubtasks
    BY <1>4 DEF UseTool, ReadFile, Unparsable, AsksModel, LaterSubtasks
  <2>2. InvWork = LaterSubtasks + 1 - worker_turn
    BY <2>1 DEF InvWork
  <2>3. InvWork' = LaterSubtasks + 1 - (worker_turn + 1)
    BY <2>1 DEF InvWork
  <2> QED
    BY <1>0, <2>2, <2>3
<1>5. CASE WorkerModelFails \/ FinalAnswer \/ TooManyUnparsable
           \/ TurnsExhausted \/ SubtaskTimesOut \/ WorkerRaises
  <2>1. \E end, findings, files, added :
            EndSubtask(end, findings, files, added)
    BY <1>5 DEF WorkerModelFails, FinalAnswer, TooManyUnparsable,
                TurnsExhausted, SubtaskTimesOut, WorkerRaises
  <2> QED
    BY <2>1, EndShrinks
<1>6. CASE Unsuccessful \/ Synthesise
  <2>1. inquiry = "synthesis" /\ inquiry' = "done"
    BY <1>6 DEF Unsuccessful, Synthesise, Answer
  <2>2. InvWork = 1 /\ InvWork' = 0
    BY <2>1 DEF InvWork
  <2> QED
    BY <2>2
<1>7. CASE InvestigationRaises
  <2>1. inquiry # "done" /\ InvWork' = 0
    BY <1>7 DEF InvestigationRaises, InvWork
  <2>2. InvWork \in Nat /\ (InvWork = 0 => inquiry = "done")
    BY InvWorkType
  <2> QED
    BY <2>1, <2>2
<1> QED
  BY <1>1, <1>2, <1>3, <1>4, <1>5, <1>6, <1>7 DEF InvestigationNext

(* A loop that has stopped has said how.                                   *)
Answered ==
    /\ step = "done" => answer # "none"
    /\ inquiry = "done" => raw_answer # "none"

LEMMA AnsweredStep == ASSUME Answered, Next PROVE Answered'
<1> USE DEF Answered
<1>1. ASSUME QANext PROVE step' = "done" => answer' # "none"
  <2>1. CASE QABeginTurn \/ QALimit \/ Overflow \/ EmptyToolCall
             \/ AnswerRejected \/ DuplicateAnswered \/ DuplicateRefused
             \/ ToolLimit \/ Dispatch \/ ToolAnswers \/ ToolFindsNothing
    <3>1. step' # "done"
      BY <2>1
         DEF QABeginTurn, QALimit, Overflow, EmptyToolCall, AnswerRejected,
             DuplicateAnswered, DuplicateRefused, ToolLimit, Dispatch,
             ToolAnswers, ToolFindsNothing
    <3> QED
      BY <3>1
  <2>2. CASE ModelFailed \/ AnswerTaken \/ ForcedAnswer \/ RunRaises
    BY <2>2 DEF ModelFailed, AnswerTaken, ForcedAnswer, RunRaises, Stop
  <2>3. CASE Malformed
    BY <2>3 DEF Malformed, Stop
  <2> QED
    BY <1>1, <2>1, <2>2, <2>3 DEF QANext
<1>2. ASSUME InvestigationNext PROVE inquiry' = "done" => raw_answer' # "none"
  <2>1. CASE Unsuccessful \/ Synthesise \/ InvestigationRaises
    BY <2>1 DEF Unsuccessful, Synthesise, InvestigationRaises, Answer
  <2>2. CASE Decompose \/ DispatchTask \/ EndDispatch \/ WorkerModelFails
             \/ FinalAnswer \/ TooManyUnparsable \/ TurnsExhausted
             \/ SubtaskTimesOut \/ WorkerRaises
    <3>1. inquiry' # "done"
      BY <2>2
         DEF Decompose, DispatchTask, EndDispatch, WorkerModelFails,
             FinalAnswer, TooManyUnparsable, TurnsExhausted,
             SubtaskTimesOut, WorkerRaises, EndSubtask
    <3> QED
      BY <3>1
  <2>3. CASE UseTool \/ ReadFile \/ Unparsable
    <3>1. inquiry = "working" /\ inquiry' = "working"
      BY <2>3 DEF UseTool, ReadFile, Unparsable, AsksModel
    <3> QED
      BY <3>1
  <2> QED
    BY <1>2, <2>1, <2>2, <2>3 DEF InvestigationNext
<1>3. CASE RepairActs
  BY <1>3 DEF RepairActs, qaVars, invVars
<1>4. CASE QAActs
  BY <1>1, <1>4 DEF QAActs, invVars
<1>5. CASE InvestigationActs
  BY <1>2, <1>5 DEF InvestigationActs, qaVars
<1> QED
  BY <1>3, <1>4, <1>5 DEF Next

----------------------------------------------------------------------------
(* The steps that the loop that runs can still take.                       *)
LoopWork ==
    CASE driver = "repair"        -> RepairWork
      [] driver = "question"      -> QAWork
      [] driver = "investigation" -> InvWork

(* What EveryLoopEnds waits for.                                           *)
Over ==
    CASE driver = "repair"        -> phase = "idle"
      [] driver = "question"      -> step = "done" /\ answer # "none"
      [] driver = "investigation" -> raw_answer # "none"

LEMMA WorkLeft == ASSUME IInv, Answered
                  PROVE  LoopWork \in Nat /\ (LoopWork = 0 => Over)
<1>1. CASE driver = "repair"
  <2>1. RepairWork \in Nat /\ (RepairWork = 0 => phase = "idle")
    BY <1>1, RepairWorkType DEF IInv
  <2> QED
    BY <1>1, <2>1 DEF LoopWork, Over
<1>2. CASE driver = "question"
  <2>1. QAWork \in Nat /\ (QAWork = 0 => step = "done")
    BY <1>2, QAWorkType DEF IInv
  <2> QED
    BY <1>2, <2>1 DEF LoopWork, Over, Answered
<1>3. CASE driver = "investigation"
  <2>1. InvWork \in Nat /\ (InvWork = 0 => inquiry = "done")
    BY InvWorkType DEF IInv
  <2> QED
    BY <1>3, <2>1 DEF LoopWork, Over, Answered
<1> QED
  BY <1>1, <1>2, <1>3 DEF IInv, TypeOK, Drivers

(* The part of EveryLoopEnds that needs no fairness.  Whatever the model   *)
(* answers, every step of the loop that runs lessens LoopWork, which is a  *)
(* natural number and zero only when the loop is over; a new call of       *)
(* repair_task sets it to RepairBound at most, and a cancellation leaves   *)
(* it as it is.                                                            *)
LoopsShrink ==
    /\ [](LoopWork \in Nat /\ (LoopWork = 0 => Over))
    /\ [][\/ LoopWork' < LoopWork
          \/ Call /\ LoopWork' <= RepairBound
          \/ Cancel /\ LoopWork' = LoopWork]_vars

(* Whichever loop a request runs, it comes to its end or to an exhausted   *)
(* limit in a bounded number of its own steps.                             *)
THEOREM LoopsEnd == Spec => LoopsShrink
<1>1. Init => Answered
  BY DEF Init, QAInit, InvInit, Answered
<1>2. Answered /\ [Next]_vars => Answered'
  <2>1. Answered /\ UNCHANGED vars => Answered'
    BY DEF vars, qaVars, invVars, Answered
  <2> QED
    BY <2>1, AnsweredStep
<1>3. IInv /\ Answered => LoopWork \in Nat /\ (LoopWork = 0 => Over)
  BY WorkLeft
<1>4. IInv /\ [Next]_vars
        => [\/ LoopWork' < LoopWork
            \/ Call /\ LoopWork' <= RepairBound
            \/ Cancel /\ LoopWork' = LoopWork]_vars
  <2> SUFFICES ASSUME IInv, Next
               PROVE  \/ LoopWork' < LoopWork
                      \/ Call /\ LoopWork' <= RepairBound
                      \/ Cancel /\ LoopWork' = LoopWork
    OBVIOUS
  <2>1. CASE RepairActs
    <3>1. RIInv /\ RepairNext /\ driver = "repair" /\ driver' = driver
      BY <2>1 DEF RepairActs, IInv
    <3>2. LoopWork = RepairWork /\ LoopWork' = RepairWork'
      BY <3>1 DEF LoopWork
    <3> QED
      BY <3>1, <3>2, RepairStepShrinks, CallBounded, CancelKeeps DEF RepairNext
  <2>2. CASE QAActs
    <3>1. QIInv /\ QANext /\ driver = "question" /\ driver' = driver
      BY <2>2 DEF QAActs, IInv
    <3>2. LoopWork = QAWork /\ LoopWork' = QAWork'
      BY <3>1 DEF LoopWork
    <3> QED
      BY <3>1, <3>2, QAWorkStep
  <2>3. CASE InvestigationActs
    <3>1. /\ InvIInv /\ InvestigationNext
          /\ driver = "investigation" /\ driver' = driver
      BY <2>3 DEF InvestigationActs, IInv
    <3>2. LoopWork = InvWork /\ LoopWork' = InvWork'
      BY <3>1 DEF LoopWork
    <3> QED
      BY <3>1, <3>2, InvWorkStep
  <2> QED
    BY <2>1, <2>2, <2>3 DEF Next
<1> QED
  BY <1>1, <1>2, <1>3, <1>4, Invariant, PTL DEF Spec, LoopsShrink
=============================================================================
