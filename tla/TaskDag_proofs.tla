--------------------------- MODULE TaskDag_proofs ---------------------------
(***************************************************************************)
(* What holds of TaskDag for every finite set of tasks, every dependency   *)
(* relation and every list order.  The induction goes over the visits of   *)
(* the loop: at any moment each task has either the status it had when the *)
(* evaluation began or the one the least fixed point gives it, and as long *)
(* as a pass changed nothing the tasks it visited are stable.              *)
(***************************************************************************)
EXTENDS TaskDag, TaskLifecycle_proofs, FiniteSetTheorems

(* Only the statuses the orchestrator assigns occur.                       *)
Reached ==
    \A t \in Tasks : status[t] \in {"PENDING", "READY", "RUNNING",
                                    "VERIFYING", "PASSED", "FAILED",
                                    "BLOCKED"}

(* A task in progress is the current one.                                  *)
Active ==
    \A t \in Tasks :
        /\ status[t] = "RUNNING" => pc = "running" /\ current = t
        /\ status[t] = "VERIFYING" => pc = "verifying" /\ current = t

(* What a status may be in the middle of an evaluation that began with     *)
(* the statuses st.                                                        *)
OnTheWay(t, st) ==
    \/ status[t] = st[t]
    \/ /\ st[t] = "PENDING" /\ status[t] = "BLOCKED" /\ t \in Doomed(st, deps)
    \/ /\ st[t] = "PENDING" /\ status[t] = "READY"
       /\ AllDepsPassed(t, st, deps)

Loop ==
    pc = "eval" =>
        /\ visit \in Nat \ {0}
        /\ \A t \in Tasks : OnTheWay(t, entry)
        /\ ~changed => \A i \in DOMAIN order :
                          i < visit => VisitOutcome(order[i]) = status[order[i]]

Settled == pc \in {"start", "none_left"} => status = Evaluated(entry, deps)

NoneReady == pc = "none_left" => ReadyTasks(status) = {}

(* Evaluating visit by visit ends in the least fixed point, whatever the   *)
(* order of plan.tasks: the multi-pass loop of evaluate_dependencies       *)
(* neither misses a transitive block nor blocks a task without a cause.    *)
EvaluationCorrect ==
    (pc = "start" \/ (pc = "eval" /\ visit \notin DOMAIN order /\ ~changed))
        => status = Evaluated(entry, deps)

IInv == TypeOK /\ Reached /\ Active /\ DependencyOrder /\ Loop /\ Settled
            /\ NoneReady
-----------------------------------------------------------------------------
(* The order of plan.tasks lists tasks, and every task.                    *)
LEMMA OrderListsTasks ==
    ASSUME TypeOK
    PROVE  /\ \A i \in DOMAIN order : order[i] \in Tasks
           /\ \A t \in Tasks : \E i \in DOMAIN order : order[i] = t
           /\ DOMAIN order = 1..Cardinality(Tasks)
           /\ Cardinality(Tasks) \in Nat
<1>1. Cardinality(Tasks) \in Nat
  BY TasksAssumption, FS_CardinalityType
<1> QED BY <1>1, OrdersAssumption DEF TypeOK

(* A task the loop visits moves the way the least fixed point says.        *)
LEMMA VisitOnTheWay ==
    ASSUME TypeOK, NEW t \in Tasks, \A u \in Tasks : OnTheWay(u, entry)
    PROVE  \/ VisitOutcome(t) = status[t]
           \/ /\ entry[t] = "PENDING" /\ VisitOutcome(t) = "BLOCKED"
              /\ t \in Doomed(entry, deps)
           \/ /\ entry[t] = "PENDING" /\ VisitOutcome(t) = "READY"
              /\ AllDepsPassed(t, entry, deps)
<1>1. DOMAIN status = Tasks /\ DOMAIN entry = Tasks
  BY DEF TypeOK
<1>2. CASE status[t] = "PENDING" /\ BlockedBy(t, status, deps)
  <2>1. VisitOutcome(t) = "BLOCKED" /\ t \in PendingTasks(entry)
    BY <1>1, <1>2 DEF VisitOutcome, OnTheWay, PendingTasks
  <2>2. PICK d \in deps[t] : d \notin Tasks \/ status[d] \in BadTask
    BY <1>1, <1>2 DEF BlockedBy
  <2>3. \/ d \notin Tasks \/ entry[d] \in BadTask
        \/ d \in Doomed(entry, deps)
    BY <2>2 DEF OnTheWay, BadTask
  <2>4. BlockedBy(t, entry, deps) \/ deps[t] \cap Doomed(entry, deps) # {}
    BY <1>1, <2>2, <2>3 DEF BlockedBy
  <2> QED BY <2>1, <2>4, DoomedClosed DEF ClosedUnderBlocking, PendingTasks
<1>3. CASE /\ status[t] = "PENDING" /\ ~BlockedBy(t, status, deps)
           /\ AllDepsPassed(t, status, deps)
  <2>1. VisitOutcome(t) = "READY" /\ entry[t] = "PENDING"
    BY <1>3 DEF VisitOutcome, OnTheWay
  <2>2. AllDepsPassed(t, entry, deps)
    BY <1>1, <1>3 DEF AllDepsPassed, OnTheWay
  <2> QED BY <2>1, <2>2
<1> QED BY <1>2, <1>3 DEF VisitOutcome

(* When a pass ended without a change the statuses are the least fixed     *)
(* point of those the evaluation began with.                               *)
LEMMA StableIsEvaluated ==
    ASSUME TypeOK, \A t \in Tasks : OnTheWay(t, entry),
           \A t \in Tasks : VisitOutcome(t) = status[t]
    PROVE  status = Evaluated(entry, deps)
<1> DEFINE X == {t \in PendingTasks(entry) : status[t] = "BLOCKED"}
<1>1. DOMAIN status = Tasks /\ DOMAIN entry = Tasks
  BY DEF TypeOK
<1>2. ASSUME NEW t \in PendingTasks(entry),
             BlockedBy(t, entry, deps) \/ deps[t] \cap X # {}
      PROVE  t \in X
  <2>1. t \in Tasks /\ entry[t] = "PENDING"
    BY <1>1 DEF PendingTasks
  <2>2. ~AllDepsPassed(t, entry, deps)
    BY <1>2 DEF AllDepsPassed, BlockedBy, BadTask, PendingTasks
  <2>3. BlockedBy(t, status, deps)
    <3>1. CASE BlockedBy(t, entry, deps)
      BY <1>1, <3>1 DEF BlockedBy, OnTheWay, BadTask
    <3>2. CASE deps[t] \cap X # {}
      BY <1>1, <3>2 DEF BlockedBy, BadTask
    <3> QED BY <1>2, <3>1, <3>2
  <2>4. status[t] # "PENDING"
    BY <2>1, <2>3 DEF VisitOutcome
  <2> QED BY <2>1, <2>2, <2>4 DEF OnTheWay
<1>3. Doomed(entry, deps) \subseteq X
  <2>1. ClosedUnderBlocking(X, entry, deps)
    BY <1>2 DEF ClosedUnderBlocking
  <2> QED BY <2>1 DEF Doomed
<1>4. ASSUME NEW t \in Tasks
      PROVE  status[t] = Evaluated(entry, deps)[t]
  <2>1. CASE entry[t] # "PENDING"
    BY <1>1, <2>1 DEF Evaluated, OnTheWay
  <2>2. CASE entry[t] = "PENDING" /\ t \in Doomed(entry, deps)
    BY <1>1, <1>3, <2>2 DEF Evaluated
  <2>3. CASE /\ entry[t] = "PENDING" /\ t \notin Doomed(entry, deps)
             /\ AllDepsPassed(t, entry, deps)
    <3>1. AllDepsPassed(t, status, deps) /\ ~BlockedBy(t, status, deps)
      BY <1>1, <2>3 DEF AllDepsPassed, BlockedBy, OnTheWay, BadTask
    <3>2. status[t] # "PENDING"
      BY <3>1 DEF VisitOutcome
    <3> QED BY <1>1, <2>3, <3>2 DEF Evaluated, OnTheWay
  <2>4. CASE /\ entry[t] = "PENDING" /\ t \notin Doomed(entry, deps)
             /\ ~AllDepsPassed(t, entry, deps)
    BY <1>1, <2>4 DEF Evaluated, OnTheWay
  <2> QED BY <2>1, <2>2, <2>3, <2>4
<1>5. Evaluated(entry, deps) \in [Tasks -> TaskStatus]
  BY EvaluatedFacts DEF TypeOK
<1> QED BY <1>1, <1>4, <1>5 DEF TypeOK
-----------------------------------------------------------------------------
(* The invariant is inductive.                                             *)

LEMMA Statuses ==
    /\ {"PENDING", "READY", "RUNNING", "VERIFYING", "PASSED", "FAILED",
        "BLOCKED"} \subseteq TaskStatus
  BY DEF TaskStatus

LEMMA InitIInv == ASSUME Init PROVE IInv
<1>1. TypeOK
  BY Statuses DEF Init, TypeOK, PCs
<1>2. Reached /\ Active /\ DependencyOrder /\ Loop /\ Settled /\ NoneReady
  BY DEF Init, Reached, Active, DependencyOrder, Loop, Settled, NoneReady
<1> QED BY <1>1, <1>2 DEF IInv

(* Every action that ends in a call of evaluate_dependencies hands it      *)
(* statuses with no task in progress and nothing unlocked too early.       *)
LEMMA CallIInv ==
    ASSUME IInv, NEW st \in [Tasks -> TaskStatus], NEW ret \in {"idle", "start"},
           CallEvaluate(st, ret), UNCHANGED <<deps, order>>,
           current' \in Tasks \cup {NoTask}, repairs' \in Nat,
           \A t \in Tasks : st[t] \in {"PENDING", "READY", "PASSED", "FAILED",
                                       "BLOCKED"},
           \A t \in Tasks : st[t] \in {"READY", "PASSED", "FAILED"}
                                => AllDepsPassed(t, st, deps)
    PROVE  IInv'
<1>1. TypeOK'
  BY DEF IInv, TypeOK, CallEvaluate, PCs
<1>2. Reached' /\ Active' /\ Settled' /\ NoneReady'
  BY DEF CallEvaluate, Reached, Active, Settled, NoneReady
<1>3. DependencyOrder'
  BY DEF CallEvaluate, DependencyOrder, AllDepsPassed
<1>4. Loop'
  <2>1. \A t \in Tasks : OnTheWay(t, entry)'
    BY DEF CallEvaluate, OnTheWay
  <2>2. ~(\E i \in DOMAIN order : i < 1)
    BY OrderListsTasks DEF IInv
  <2> QED BY <2>1, <2>2 DEF CallEvaluate, Loop
<1> QED BY <1>1, <1>2, <1>3, <1>4 DEF IInv

LEMMA VisitIInv == ASSUME IInv, Visit PROVE IInv'
<1> DEFINE t == order[visit]
<1> USE DEF IInv
<1>1. /\ t \in Tasks /\ pc = "eval" /\ pc' = "eval" /\ visit \in Nat \ {0}
      /\ visit' = visit + 1 /\ deps' = deps /\ order' = order
      /\ entry' = entry /\ current' = current
      /\ status' = [status EXCEPT ![t] = VisitOutcome(t)]
      /\ changed' = (changed \/ VisitOutcome(t) # status[t])
  BY OrderListsTasks DEF Visit, Loop
<1>2. /\ status \in [Tasks -> TaskStatus] /\ entry \in [Tasks -> TaskStatus]
      /\ changed \in BOOLEAN
  BY DEF TypeOK
<1>3. \/ VisitOutcome(t) = status[t]
      \/ /\ entry[t] = "PENDING" /\ VisitOutcome(t) = "BLOCKED"
         /\ t \in Doomed(entry, deps)
      \/ /\ entry[t] = "PENDING" /\ VisitOutcome(t) = "READY"
         /\ AllDepsPassed(t, entry, deps)
  BY <1>1, VisitOnTheWay DEF Loop
<1>4. TypeOK'
  BY <1>1, <1>2, <1>3, Statuses DEF TypeOK, Visit
<1>5. Reached' /\ Active'
  BY <1>1, <1>2, <1>3 DEF Reached, Active
<1>6. \/ VisitOutcome(t) = status[t]
      \/ status[t] = "PENDING" /\ VisitOutcome(t) = "BLOCKED"
      \/ /\ status[t] = "PENDING" /\ VisitOutcome(t) = "READY"
         /\ AllDepsPassed(t, status, deps)
  BY DEF VisitOutcome
<1>7. DependencyOrder'
  <2> SUFFICES ASSUME NEW u \in Tasks,
                      status'[u] \in {"READY", "RUNNING", "VERIFYING",
                                      "PASSED", "FAILED"}
               PROVE  AllDepsPassed(u, status', deps)
    BY <1>1 DEF DependencyOrder
  <2>1. AllDepsPassed(u, status, deps)
    BY <1>1, <1>2, <1>6 DEF DependencyOrder
  <2> QED BY <2>1, <1>1, <1>2, <1>6 DEF AllDepsPassed
<1>8. Loop'
  <2>1. \A u \in Tasks : OnTheWay(u, entry)'
    BY <1>1, <1>2, <1>3 DEF Loop, OnTheWay
  <2>2. ASSUME ~changed' PROVE status' = status /\ ~changed
    BY <2>2, <1>1, <1>2
  <2>3. ASSUME ~changed', NEW i \in DOMAIN order, i < visit + 1
        PROVE  VisitOutcome(order[i])' = status'[order[i]]
    <3>1. VisitOutcome(order[i])' = VisitOutcome(order[i])
      BY <1>1, <2>2, <2>3 DEF VisitOutcome
    <3>2. i < visit \/ i = visit
      BY <1>1, <2>3, OrderListsTasks
    <3>3. VisitOutcome(order[i]) = status[order[i]]
      BY <1>1, <1>2, <2>2, <2>3, <3>2 DEF Loop
    <3> QED BY <2>2, <2>3, <3>1, <3>3
  <2> QED BY <1>1, <2>1, <2>3 DEF Loop
<1>9. Settled' /\ NoneReady'
  BY <1>1 DEF Settled, NoneReady
<1> QED BY <1>4, <1>5, <1>7, <1>8, <1>9

LEMMA EndPassIInv == ASSUME IInv, EndPass PROVE IInv'
<1> USE DEF IInv
<1>1. TypeOK'
  BY DEF TypeOK, EndPass, PCs
<1>2. Reached' /\ DependencyOrder' /\ NoneReady'
  BY DEF Reached, EndPass, DependencyOrder, TypeOK, NoneReady
<1>3. Active'
  BY DEF Active, EndPass, TypeOK
<1>4. Loop'
  <2>1. ~(\E i \in DOMAIN order : i < 1)
    BY OrderListsTasks
  <2>2. pc' = "eval" => \A t \in Tasks : OnTheWay(t, entry)'
    BY DEF EndPass, Loop, OnTheWay
  <2> QED BY <2>1, <2>2 DEF EndPass, Loop
<1>5. Settled'
  <2>1. CASE changed
    BY <2>1 DEF EndPass, Settled
  <2>2. CASE ~changed
    <3>1. /\ pc = "eval" /\ visit \notin DOMAIN order /\ visit \in Nat \ {0}
          /\ \A t \in Tasks : OnTheWay(t, entry)
          /\ \A i \in DOMAIN order :
                i < visit => VisitOutcome(order[i]) = status[order[i]]
      BY <2>2 DEF EndPass, Loop
    <3>2. \A i \in DOMAIN order : i < visit
      BY <3>1, OrderListsTasks
    <3>3. \A t \in Tasks : VisitOutcome(t) = status[t]
      BY <3>1, <3>2, OrderListsTasks
    <3>4. status = Evaluated(entry, deps)
      BY <3>1, <3>3, StableIsEvaluated
    <3> QED BY <3>4 DEF EndPass, Settled
  <2> QED BY <2>1, <2>2
<1> QED BY <1>1, <1>2, <1>3, <1>4, <1>5

(* The statuses at rest: outside an evaluation and with no task being      *)
(* executed, none is RUNNING or VERIFYING.                                 *)
LEMMA AtRest ==
    ASSUME IInv, NEW k, NEW v \in {"PASSED", "FAILED", "BLOCKED"},
           \A t \in Tasks : status[t] \in {"RUNNING", "VERIFYING"} => t = k
    PROVE  LET st == [status EXCEPT ![k] = v] IN
           /\ st \in [Tasks -> TaskStatus]
           /\ \A t \in Tasks : st[t] \in {"PENDING", "READY", "PASSED",
                                          "FAILED", "BLOCKED"}
<1> USE DEF IInv
<1>1. status \in [Tasks -> TaskStatus] /\ v \in TaskStatus
  BY Statuses DEF TypeOK
<1> QED BY <1>1 DEF Reached

(* A result leaves the dependency order intact when the task it is given   *)
(* to was not PASSED, or keeps that pass, and its upstream tasks passed.   *)
LEMMA ResultInOrder ==
    ASSUME IInv, NEW k \in Tasks, NEW v \in {"PASSED", "FAILED", "BLOCKED"},
           status[k] = "PASSED" => v = "PASSED",
           v \in {"PASSED", "FAILED"} => AllDepsPassed(k, status, deps)
    PROVE  LET st == [status EXCEPT ![k] = v] IN
           \A t \in Tasks : st[t] \in {"READY", "PASSED", "FAILED"}
                               => AllDepsPassed(t, st, deps)
<1> USE DEF IInv
<1> DEFINE st == [status EXCEPT ![k] = v]
<1>1. status \in [Tasks -> TaskStatus]
  BY DEF TypeOK
<1> SUFFICES ASSUME NEW t \in Tasks, st[t] \in {"READY", "PASSED", "FAILED"}
             PROVE  AllDepsPassed(t, st, deps)
  OBVIOUS
<1>2. AllDepsPassed(t, status, deps)
  BY <1>1 DEF DependencyOrder
<1> QED BY <1>1, <1>2 DEF AllDepsPassed

LEMMA ReEvaluateIInv ==
    ASSUME IInv, EvaluateOnly \/ SelectNextTask PROVE IInv'
<1> USE DEF IInv
<1>1. \A t \in Tasks : status[t] \in {"PENDING", "READY", "PASSED",
                                      "FAILED", "BLOCKED"}
  BY DEF EvaluateOnly, SelectNextTask, Reached, Active
<1>2. \A t \in Tasks : status[t] \in {"READY", "PASSED", "FAILED"}
                          => AllDepsPassed(t, status, deps)
  BY DEF DependencyOrder
<1>3. /\ status \in [Tasks -> TaskStatus] /\ UNCHANGED <<deps, order>>
      /\ current' \in Tasks \cup {NoTask} /\ repairs' \in Nat
  BY DEF EvaluateOnly, SelectNextTask, TypeOK
<1> QED BY <1>1, <1>2, <1>3, CallIInv DEF EvaluateOnly, SelectNextTask

LEMMA ResultIInv ==
    ASSUME IInv, CompleteFailure \/ RecordVerification PROVE IInv'
<1> USE DEF IInv
<1>1. PICK v \in {"PASSED", "FAILED"} :
          CallEvaluate([status EXCEPT ![current] = v], "idle")
  BY DEF CompleteFailure, RecordVerification
<1> DEFINE st == [status EXCEPT ![current] = v]
<1>2. /\ pc \in {"running", "verifying"}
      /\ status[current] \in {"RUNNING", "VERIFYING"}
      /\ UNCHANGED <<deps, order, repairs>> /\ current' = NoTask
  BY DEF CompleteFailure, RecordVerification
<1>3. \A t \in Tasks : status[t] \in {"RUNNING", "VERIFYING"} => t = current
  BY DEF Active
<1>4. /\ st \in [Tasks -> TaskStatus]
      /\ \A t \in Tasks : st[t] \in {"PENDING", "READY", "PASSED",
                                      "FAILED", "BLOCKED"}
  BY <1>3, AtRest
<1>5. \A t \in Tasks : st[t] \in {"READY", "PASSED", "FAILED"}
                          => AllDepsPassed(t, st, deps)
  <2>1. CASE current \in Tasks
    <3>1. AllDepsPassed(current, status, deps)
      BY <1>2, <2>1 DEF DependencyOrder
    <3>2. status[current] # "PASSED"
      BY <1>2
    <3> QED BY <2>1, <3>1, <3>2, ResultInOrder
  <2>2. CASE current \notin Tasks
    <3>1. st = status
      BY <2>2 DEF TypeOK
    <3> QED BY <3>1 DEF DependencyOrder
  <2> QED BY <2>1, <2>2
<1>6. repairs' \in Nat
  BY <1>2 DEF TypeOK
<1> QED BY <1>1, <1>2, <1>4, <1>5, <1>6, CallIInv

(* A repair may turn FAILED into PASSED, and the matrix keeps it from      *)
(* touching a task whose dependencies did not all pass, but for BLOCKED.   *)
LEMMA RepairIInv == ASSUME IInv, RecordRepair PROVE IInv'
<1> USE DEF IInv
<1>1. PICK k \in Tasks, v \in RepairVerdicts :
          /\ CanTransitionTask(status[k], v)
          /\ CallEvaluate([status EXCEPT ![k] = v], "idle")
  BY DEF RecordRepair
<1> DEFINE st == [status EXCEPT ![k] = v]
<1>2. v \in {"PASSED", "FAILED", "BLOCKED"}
  BY RepairAssumption
<1>3. \A t \in Tasks : status[t] \in {"PENDING", "READY", "PASSED",
                                      "FAILED", "BLOCKED"}
  BY DEF RecordRepair, Reached, Active
<1>4. /\ status[k] = "PASSED" => v = "PASSED"
      /\ v \in {"PASSED", "FAILED"} => status[k] \in {"PASSED", "FAILED"}
  BY <1>1, <1>2, <1>3 DEF CanTransitionTask, AllowedTask
<1>5. /\ st \in [Tasks -> TaskStatus]
      /\ \A t \in Tasks : st[t] \in {"PENDING", "READY", "PASSED",
                                      "FAILED", "BLOCKED"}
  BY <1>2, <1>3, AtRest
<1>6. v \in {"PASSED", "FAILED"} => AllDepsPassed(k, status, deps)
  BY <1>4 DEF DependencyOrder
<1>7. \A t \in Tasks : st[t] \in {"READY", "PASSED", "FAILED"}
                          => AllDepsPassed(t, st, deps)
  BY <1>2, <1>4, <1>6, ResultInOrder
<1>8. /\ UNCHANGED <<deps, order>> /\ current' \in Tasks \cup {NoTask}
      /\ repairs' \in Nat
  BY DEF RecordRepair, TypeOK
<1> QED BY <1>1, <1>5, <1>7, <1>8, CallIInv

LEMMA StartTaskIInv == ASSUME IInv, StartTask PROVE IInv'
<1> USE DEF IInv
<1>1. status \in [Tasks -> TaskStatus] /\ DOMAIN status \subseteq Nat
  BY TasksAssumption DEF TypeOK
<1>2. /\ current' \in Tasks /\ status[current'] = "READY"
      /\ status' = [status EXCEPT ![current'] = "RUNNING"]
      /\ pc = "start" /\ pc' = "running" /\ deps' = deps
  BY <1>1, FirstReadyIsReady DEF StartTask, ReadyTasks
<1>3. TypeOK'
  BY <1>2, Statuses DEF StartTask, TypeOK, PCs
<1>4. Reached' /\ Active'
  BY <1>1, <1>2 DEF Reached, Active
<1>5. DependencyOrder'
  <2> SUFFICES ASSUME NEW t \in Tasks,
                      status'[t] \in {"READY", "RUNNING", "VERIFYING",
                                      "PASSED", "FAILED"}
               PROVE  AllDepsPassed(t, status', deps)
    BY <1>2 DEF DependencyOrder
  <2>1. AllDepsPassed(t, status, deps)
    BY <1>1, <1>2 DEF DependencyOrder
  <2> QED BY <1>1, <1>2, <2>1 DEF AllDepsPassed
<1>6. Loop' /\ Settled' /\ NoneReady'
  BY <1>2 DEF Loop, Settled, NoneReady
<1> QED BY <1>3, <1>4, <1>5, <1>6

LEMMA NoneLeftIInv == ASSUME IInv, NoneLeft PROVE IInv'
<1> USE DEF IInv
<1>1. TypeOK'
  BY DEF NoneLeft, TypeOK, PCs
<1>2. Reached' /\ Active'
  BY DEF NoneLeft, Reached, Active
<1>3. DependencyOrder'
  BY DEF NoneLeft, DependencyOrder, AllDepsPassed
<1>4. Loop' /\ Settled' /\ NoneReady'
  BY DEF NoneLeft, Loop, Settled, NoneReady, ReadyTasks
<1> QED BY <1>1, <1>2, <1>3, <1>4

LEMMA CompleteSuccessIInv == ASSUME IInv, CompleteSuccess PROVE IInv'
<1> USE DEF IInv
<1>1. /\ status \in [Tasks -> TaskStatus] /\ pc = "running"
      /\ status[current] = "RUNNING" /\ pc' = "verifying"
      /\ status' = [status EXCEPT ![current] = "VERIFYING"]
      /\ deps' = deps /\ current' = current
  BY DEF CompleteSuccess, TypeOK
<1>2. TypeOK'
  BY <1>1, Statuses DEF CompleteSuccess, TypeOK, PCs
<1>3. Reached' /\ Active'
  BY <1>1 DEF Reached, Active
<1>4. DependencyOrder'
  <2> SUFFICES ASSUME NEW t \in Tasks,
                      status'[t] \in {"READY", "RUNNING", "VERIFYING",
                                      "PASSED", "FAILED"}
               PROVE  AllDepsPassed(t, status', deps)
    BY <1>1 DEF DependencyOrder
  <2>1. AllDepsPassed(t, status, deps)
    BY <1>1 DEF DependencyOrder
  <2> QED BY <1>1, <2>1 DEF AllDepsPassed
<1>5. Loop' /\ Settled' /\ NoneReady'
  BY <1>1 DEF Loop, Settled, NoneReady
<1> QED BY <1>2, <1>3, <1>4, <1>5

LEMMA StutterIInv == ASSUME IInv, UNCHANGED vars PROVE IInv'
<1> USE DEF IInv, vars
<1>1. TypeOK' /\ Reached' /\ Active'
  BY DEF TypeOK, Reached, Active
<1>2. DependencyOrder' /\ Settled' /\ NoneReady'
  BY DEF DependencyOrder, AllDepsPassed, Settled, NoneReady
<1>3. Loop'
  BY DEF Loop, OnTheWay, VisitOutcome
<1> QED BY <1>1, <1>2, <1>3

(* Every step of the orchestrator preserves the invariant.                 *)
LEMMA StepIInv == ASSUME IInv, [Next]_vars PROVE IInv'
<1>1. CASE EvaluateOnly \/ SelectNextTask
  BY <1>1, ReEvaluateIInv
<1>2. CASE Visit
  BY <1>2, VisitIInv
<1>3. CASE EndPass
  BY <1>3, EndPassIInv
<1>4. CASE StartTask
  BY <1>4, StartTaskIInv
<1>5. CASE NoneLeft
  BY <1>5, NoneLeftIInv
<1>6. CASE CompleteSuccess
  BY <1>6, CompleteSuccessIInv
<1>7. CASE CompleteFailure \/ RecordVerification
  BY <1>7, ResultIInv
<1>8. CASE RecordRepair
  BY <1>8, RepairIInv
<1>9. CASE UNCHANGED vars
  BY <1>9, StutterIInv
<1> QED BY <1>1, <1>2, <1>3, <1>4, <1>5, <1>6, <1>7, <1>8, <1>9 DEF Next
-----------------------------------------------------------------------------
(* The results.                                                            *)

(* The invariant holds in every reachable state.                           *)
THEOREM Invariance == Spec => []IInv
<1>1. Init => IInv
  BY InitIInv
<1>2. IInv /\ [Next]_vars => IInv'
  BY StepIInv
<1> QED BY <1>1, <1>2, PTL DEF Spec

(* The types: in particular an evaluation never assigns a status outside   *)
(* PlanTaskStatus and the loop variable of evaluate_dependencies never     *)
(* runs below the list.                                                    *)
THEOREM TypeCorrect == Spec => []TypeOK
<1>1. IInv => TypeOK
  BY DEF IInv
<1> QED BY <1>1, Invariance, PTL

(* select_next_task never unlocks a task early, and no result recorded     *)
(* later takes back a pass that unlocked something.                        *)
THEOREM DependencyOrderHolds == Spec => []DependencyOrder
<1>1. IInv => DependencyOrder
  BY DEF IInv
<1> QED BY <1>1, Invariance, PTL

(* What the loop has computed when it is about to return.                  *)
LEMMA EndsEvaluated == ASSUME IInv PROVE EvaluationCorrect
<1> USE DEF IInv
<1>1. CASE pc = "start"
  BY <1>1 DEF Settled, EvaluationCorrect
<1>2. CASE pc = "eval" /\ visit \notin DOMAIN order /\ ~changed
  <2>1. \A i \in DOMAIN order : i < visit
    BY <1>2, OrderListsTasks DEF Loop
  <2>2. \A t \in Tasks : VisitOutcome(t) = status[t]
    BY <1>2, <2>1, OrderListsTasks DEF Loop
  <2>3. status = Evaluated(entry, deps)
    BY <1>2, <2>2, StableIsEvaluated DEF Loop
  <2> QED BY <2>3 DEF EvaluationCorrect
<1> QED BY <1>1, <1>2 DEF EvaluationCorrect

(* The multi-pass loop of evaluate_dependencies computes the least fixed   *)
(* point whatever the order of plan.tasks.                                 *)
THEOREM EvaluationIsCorrect == Spec => []EvaluationCorrect
  BY EndsEvaluated, Invariance, PTL

(* A task left PENDING by an evaluation waits for one that is not final,   *)
(* so where nothing is READY or in progress PENDING tasks form a cycle.    *)
LEMMA PendingWaits ==
    ASSUME IInv, pc = "none_left", NEW t \in Tasks, status[t] = "PENDING"
    PROVE  \E d \in deps[t] \cap Tasks : status[d] = "PENDING"
<1> USE DEF IInv
<1>1. DOMAIN status = Tasks /\ DOMAIN entry = Tasks
  BY DEF TypeOK
<1>2. status = Evaluated(entry, deps)
  BY DEF Settled
<1>3. /\ entry[t] = "PENDING" /\ t \notin Doomed(entry, deps)
      /\ ~AllDepsPassed(t, entry, deps)
  BY <1>1, <1>2 DEF Evaluated
<1>4. PICK d \in deps[t] : ~(d \in Tasks /\ entry[d] = "PASSED")
  BY <1>1, <1>3 DEF AllDepsPassed
<1>5. ~BlockedBy(t, entry, deps) /\ deps[t] \cap Doomed(entry, deps) = {}
  BY <1>1, <1>3, DoomedClosed DEF ClosedUnderBlocking, PendingTasks
<1>6. d \in Tasks /\ entry[d] \notin BadTask /\ d \notin Doomed(entry, deps)
  BY <1>1, <1>4, <1>5 DEF BlockedBy
<1>7. status[d] \notin {"READY", "RUNNING", "VERIFYING"}
  BY <1>1, <1>6 DEF NoneReady, ReadyTasks, Active
<1>8. status[d] \notin {"PASSED", "FAILED", "BLOCKED"}
  BY <1>1, <1>2, <1>4, <1>6 DEF Evaluated, BadTask
<1>9. status[d] = "PENDING"
  BY <1>6, <1>7, <1>8 DEF Reached
<1> QED BY <1>6, <1>9

(* When select_next_task finds nothing to run, nothing is left to run:     *)
(* without a cycle every task is in a terminal status.                     *)
THEOREM NoneLeftIsComplete == Spec => []NoneMeansComplete
<1>1. ASSUME IInv PROVE NoneMeansComplete
  <2> USE <1>1 DEF IInv
  <2> SUFFICES ASSUME pc = "none_left", Acyclic, NEW t \in Tasks
               PROVE  status[t] \in TerminalTask
    BY DEF NoneMeansComplete, IsPlanComplete, TypeOK
  <2> DEFINE X == {u \in Tasks : status[u] = "PENDING"}
  <2>1. \A u \in X : deps[u] \cap X # {}
    BY PendingWaits
  <2>2. X = {}
    BY <2>1 DEF Acyclic
  <2>3. status[t] \notin {"PENDING", "READY", "RUNNING", "VERIFYING"}
    BY <2>2 DEF NoneReady, ReadyTasks, Active, TypeOK
  <2> QED BY <2>3 DEF Reached, TerminalTask
<1> QED BY <1>1, Invariance, PTL
-----------------------------------------------------------------------------
(* The evaluation is one step to its callers.                              *)

(* A task is taken up when it is started and laid down with its result.    *)
CurrentOK ==
    IF pc \in {"running", "verifying"} THEN current \in Tasks
                                       ELSE current = NoTask

LEMMA InitCurrent == ASSUME Init PROVE CurrentOK
  BY DEF Init, CurrentOK

LEMMA StepCurrent == ASSUME IInv, CurrentOK, [Next]_vars PROVE CurrentOK'
<1>1. CASE StartTask
  <2>1. DOMAIN status \subseteq Nat /\ DOMAIN status = Tasks
    BY TasksAssumption DEF IInv, TypeOK
  <2>2. current' \in Tasks /\ pc' = "running"
    BY <1>1, <2>1, FirstReadyIsReady DEF StartTask, ReadyTasks
  <2> QED BY <2>2 DEF CurrentOK
<1>2. CASE EvaluateOnly \/ SelectNextTask \/ RecordRepair
  BY <1>2 DEF EvaluateOnly, SelectNextTask, RecordRepair, CallEvaluate,
              CurrentOK
<1>3. CASE Visit
  BY <1>3 DEF Visit, CurrentOK
<1>4. CASE EndPass
  BY <1>4 DEF EndPass, CurrentOK, IInv, TypeOK
<1>5. CASE NoneLeft \/ CompleteSuccess
  BY <1>5 DEF NoneLeft, CompleteSuccess, CurrentOK
<1>6. CASE CompleteFailure \/ RecordVerification
  BY <1>6 DEF CompleteFailure, RecordVerification, CallEvaluate, CurrentOK
<1>7. CASE UNCHANGED vars
  BY <1>7 DEF vars, CurrentOK
<1> QED BY <1>1, <1>2, <1>3, <1>4, <1>5, <1>6, <1>7 DEF Next

(* The statuses a caller sees.                                             *)
Seen == IF pc \in {"eval", "start"} THEN entry ELSE status

(* A call begins with the statuses it was made with.                       *)
LEMMA CallSeen ==
    ASSUME NEW st, NEW ret, CallEvaluate(st, ret)
    PROVE  Seen' = st /\ pc' = "eval"
  BY DEF CallEvaluate, Seen

(* PlanExecution and TaskDag mean the same by the operators they share.    *)
LEMMA SameVocabulary ==
    ASSUME NEW st, NEW dp
    PROVE  /\ Atomic!Evaluated(st, dp) = Evaluated(st, dp)
           /\ Atomic!ReadyTasks(st) = ReadyTasks(st)
           /\ Atomic!FirstReady(st) = FirstReady(st)
<1>1. Atomic!BadTask = BadTask
  BY DEF Atomic!BadTask, BadTask
<1>2. Atomic!PendingTasks(st) = PendingTasks(st)
  BY DEF Atomic!PendingTasks, PendingTasks
<1>3. \A t : /\ Atomic!BlockedBy(t, st, dp) <=> BlockedBy(t, st, dp)
             /\ Atomic!AllDepsPassed(t, st, dp) <=> AllDepsPassed(t, st, dp)
  BY <1>1 DEF Atomic!BlockedBy, BlockedBy, Atomic!AllDepsPassed, AllDepsPassed
<1>4. \A X : Atomic!ClosedUnderBlocking(X, st, dp)
               <=> ClosedUnderBlocking(X, st, dp)
  BY <1>2, <1>3 DEF Atomic!ClosedUnderBlocking, ClosedUnderBlocking
<1>5. Atomic!Doomed(st, dp) = Doomed(st, dp)
  BY <1>2, <1>4 DEF Atomic!Doomed, Doomed
<1>6. Atomic!Evaluated(st, dp) = Evaluated(st, dp)
  BY <1>3, <1>5 DEF Atomic!Evaluated, Evaluated
<1>7. Atomic!ReadyTasks(st) = ReadyTasks(st)
  BY DEF Atomic!ReadyTasks, ReadyTasks
<1>8. Atomic!FirstReady(st) = FirstReady(st)
  BY <1>7 DEF Atomic!FirstReady, FirstReady
<1> QED BY <1>6, <1>7, <1>8

LEMMA InitAtomic == ASSUME Init PROVE Atomic!Init
  BY DEF Init, Atomic!Init

LEMMA AtomicStep ==
    ASSUME IInv, CurrentOK, [Next]_vars
    PROVE  [Atomic!Next]_<<deps, Seen, current, pc = "none_left">>
<1> DEFINE avars == <<deps, Seen, current, pc = "none_left">>
<1>1. CASE EvaluateOnly \/ SelectNextTask
  <2>1. Seen' = status /\ pc' = "eval" /\ pc = "idle"
    BY <1>1, CallSeen DEF EvaluateOnly, SelectNextTask
  <2>2. UNCHANGED avars
    BY <1>1, <2>1 DEF EvaluateOnly, SelectNextTask, Seen
  <2> QED BY <2>2
<1>2. CASE Visit
  <2>1. UNCHANGED avars
    BY <1>2 DEF Visit, Seen
  <2> QED BY <2>1
<1>3. CASE EndPass
  <2>1. CASE changed \/ then = "start"
    <3>1. UNCHANGED avars
      BY <1>3, <2>1 DEF EndPass, Seen
    <3> QED BY <3>1
  <2>2. CASE ~changed /\ then # "start"
    <3>1. status = Evaluated(entry, deps)
      BY <1>3, <2>2, EndsEvaluated DEF EndPass, EvaluationCorrect
    <3>2. pc' = "idle" /\ pc = "eval" /\ status' = status /\ deps' = deps
          /\ current' = current
      BY <1>3, <2>2 DEF EndPass, IInv, TypeOK
    <3>3. Seen = entry /\ Seen' = status /\ current = NoTask
      BY <3>2 DEF Seen, CurrentOK
    <3>4. Atomic!Evaluate
      BY <3>1, <3>2, <3>3, SameVocabulary DEF Atomic!Evaluate, Seen
    <3> QED BY <3>4 DEF Atomic!Next
  <2> QED BY <2>1, <2>2
<1>4. CASE StartTask
  <2>1. /\ status = Evaluated(entry, deps) /\ current = NoTask
        /\ Seen = entry /\ pc' = "running" /\ Seen' = status'
    BY <1>4, EndsEvaluated DEF StartTask, EvaluationCorrect, CurrentOK, Seen
  <2>2. Atomic!Start
    BY <1>4, <2>1, SameVocabulary DEF StartTask, Atomic!Start, Seen
  <2> QED BY <2>2 DEF Atomic!Next
<1>5. CASE NoneLeft
  <2>1. /\ status = Evaluated(entry, deps) /\ current = NoTask
        /\ Seen = entry /\ pc' = "none_left" /\ Seen' = status
    BY <1>5, EndsEvaluated DEF NoneLeft, EvaluationCorrect, CurrentOK, Seen
  <2>2. Atomic!Finish
    BY <1>5, <2>1, SameVocabulary DEF NoneLeft, Atomic!Finish, Seen
  <2> QED BY <2>2 DEF Atomic!Next
<1>6. CASE CompleteSuccess
  <2>1. Seen = status /\ Seen' = status' /\ pc' = "verifying" /\ pc = "running"
    BY <1>6 DEF CompleteSuccess, Seen
  <2>2. current # NoTask
    BY <2>1, NoTaskAssumption DEF CurrentOK
  <2>3. Atomic!Succeed
    BY <1>6, <2>1, <2>2 DEF CompleteSuccess, Atomic!Succeed, Seen
  <2> QED BY <2>3 DEF Atomic!Next
<1>7. CASE CompleteFailure \/ RecordVerification
  <2>1. PICK v \in {"PASSED", "FAILED"} :
            /\ CallEvaluate([status EXCEPT ![current] = v], "idle")
            /\ \/ status[current] = "RUNNING" /\ v = "FAILED"
               \/ status[current] = "VERIFYING"
    BY <1>7 DEF CompleteFailure, RecordVerification
  <2>2. /\ pc \in {"running", "verifying"} /\ current' = NoTask
        /\ deps' = deps
    BY <1>7 DEF CompleteFailure, RecordVerification
  <2>3. Seen = status /\ Seen' = [status EXCEPT ![current] = v] /\ pc' = "eval"
    BY <2>1, <2>2, CallSeen DEF Seen
  <2>4. current # NoTask
    BY <2>2, NoTaskAssumption DEF CurrentOK
  <2>5. Atomic!End(v)
    BY <2>1, <2>2, <2>3, <2>4 DEF Atomic!End, Seen
  <2> QED BY <2>5 DEF Atomic!Next
<1>8. CASE RecordRepair
  <2>1. PICK k \in Tasks, v \in RepairVerdicts :
            /\ CanTransitionTask(status[k], v)
            /\ CallEvaluate([status EXCEPT ![k] = v], "idle")
    BY <1>8 DEF RecordRepair
  <2>2. /\ pc \in {"idle", "none_left"} /\ deps' = deps
        /\ current' = current
    BY <1>8 DEF RecordRepair
  <2>3. Seen = status /\ Seen' = [status EXCEPT ![k] = v] /\ pc' = "eval"
    BY <2>1, <2>2, CallSeen DEF Seen
  <2>4. Atomic!Repair(k, v)
    BY <2>1, <2>2, <2>3 DEF Atomic!Repair, Atomic!CanTransitionTask,
       CanTransitionTask, Atomic!AllowedTask, AllowedTask, Seen, CurrentOK
  <2> QED BY <2>4 DEF Atomic!Next
<1>9. CASE UNCHANGED vars
  <2>1. UNCHANGED avars
    BY <1>9 DEF vars, Seen
  <2> QED BY <2>1
<1> QED BY <1>1, <1>2, <1>3, <1>4, <1>5, <1>6, <1>7, <1>8, <1>9 DEF Next

(* To whoever calls it, the orchestrator evaluates a plan in one step, and *)
(* what it then computes is the least fixed point: the detailed loop       *)
(* implements PlanExecution, on which AgentRun's use of Evaluated rests.   *)
THEOREM EvaluationIsAtomic == Spec => AtomicEvaluation
<1>1. Init => Atomic!Init
  BY InitAtomic
<1>2. Init => CurrentOK
  BY InitCurrent
<1>3. IInv /\ CurrentOK /\ [Next]_vars => CurrentOK'
  BY StepCurrent
<1>4. IInv /\ CurrentOK /\ [Next]_vars => [Atomic!Next]_Atomic!vars
  BY AtomicStep DEF Atomic!vars, Seen
<1> QED BY <1>1, <1>2, <1>3, <1>4, Invariance, PTL
    DEF Spec, AtomicEvaluation, Atomic!Spec
-----------------------------------------------------------------------------
(* Nothing is started twice, and evaluations end.                          *)

(* A task that was started or given up is never unlocked again, by no      *)
(* evaluation and no result of a repair: the executor gets it once.        *)
Waiting == {"PENDING", "READY"}

StartedOnce ==
    [][\A t \in Tasks : status[t] \notin Waiting
                            => status'[t] \notin Waiting]_vars

LEMMA CallKeepsStarted ==
    ASSUME IInv, NEW k, NEW v \in {"PASSED", "FAILED", "BLOCKED"}, NEW ret,
           CallEvaluate([status EXCEPT ![k] = v], ret)
    PROVE  \A t \in Tasks : status[t] \notin Waiting
                               => status'[t] \notin Waiting
  BY DEF IInv, TypeOK, CallEvaluate, Waiting

LEMMA StartedStep ==
    ASSUME IInv, [Next]_vars
    PROVE  \A t \in Tasks : status[t] \notin Waiting
                               => status'[t] \notin Waiting
<1>1. CASE EvaluateOnly \/ SelectNextTask
  BY <1>1 DEF EvaluateOnly, SelectNextTask, CallEvaluate
<1>2. CASE Visit
  BY <1>2 DEF Visit, VisitOutcome, IInv, TypeOK, Waiting
<1>3. CASE EndPass \/ NoneLeft \/ UNCHANGED vars
  BY <1>3 DEF EndPass, NoneLeft, vars
<1>4. CASE StartTask \/ CompleteSuccess
  BY <1>4 DEF StartTask, CompleteSuccess, IInv, TypeOK, Waiting
<1>5. CASE CompleteFailure \/ RecordVerification
  BY <1>5, CallKeepsStarted DEF CompleteFailure, RecordVerification
<1>6. CASE RecordRepair
  <2>1. PICK k \in Tasks, v \in {"PASSED", "FAILED", "BLOCKED"} :
            CallEvaluate([status EXCEPT ![k] = v], "idle")
    BY <1>6, RepairAssumption DEF RecordRepair
  <2> QED BY <2>1, CallKeepsStarted
<1> QED BY <1>1, <1>2, <1>3, <1>4, <1>5, <1>6 DEF Next

(* However often a plan is evaluated and repaired, select_next_task hands  *)
(* out each task at most once.                                             *)
THEOREM TasksStartOnce == Spec => StartedOnce
  BY StartedStep, Invariance, PTL DEF Spec, StartedOnce

(* How far an evaluation may still have to go: the passes that can yet     *)
(* change a status, each over the whole list, and what is left of this one.*)
Round == Cardinality(Tasks) + 2

Passes == 2 * Cardinality(PendingTasks(status)) + (IF changed THEN 1 ELSE 0)

Remaining ==
    IF pc = "eval" THEN Passes * Round + (Round - visit) ELSE 0

(* The loop index stays within one step of the list.                       *)
VisitOK == pc = "eval" => visit \in 1..(Cardinality(Tasks) + 1)

LEMMA VisitBound ==
    /\ Init => VisitOK
    /\ IInv /\ VisitOK /\ [Next]_vars => VisitOK'
<1>1. Init => VisitOK
  BY DEF Init, VisitOK
<1>2. ASSUME IInv, VisitOK, [Next]_vars PROVE VisitOK'
  <2>1. DOMAIN order = 1..Cardinality(Tasks) /\ Cardinality(Tasks) \in Nat
    BY <1>2, OrderListsTasks DEF IInv
  <2>2. CASE Visit
    BY <1>2, <2>1, <2>2 DEF Visit, VisitOK
  <2>3. CASE ~Visit
    BY <1>2, <2>1, <2>3
       DEF Next, vars, VisitOK, EvaluateOnly, SelectNextTask, EndPass,
           StartTask, NoneLeft, CompleteSuccess, CompleteFailure,
           RecordVerification, RecordRepair, CallEvaluate
  <2> QED BY <2>2, <2>3
<1> QED BY <1>1, <1>2

(* Fewer passes outweigh any place in the list.                            *)
LEMMA FewerPasses ==
    ASSUME NEW m \in Nat, NEW a \in Nat, NEW b \in Nat, b < a,
           NEW c \in Nat, NEW d \in 0..(m - 1)
    PROVE  b * m + d < a * m + c
<1>1. PICK k \in Nat : a = b + 1 + k
  <2>1. a - b - 1 \in Nat
    OBVIOUS
  <2> QED BY <2>1
<1>2. k * m \in Nat
  OBVIOUS
<1>3. a * m = b * m + m + k * m
  BY <1>1
<1>4. b * m \in Nat
  OBVIOUS
<1> HIDE <1>1
<1> QED BY <1>2, <1>3, <1>4

LEMMA PendingCount ==
    ASSUME TypeOK
    PROVE  /\ IsFiniteSet(PendingTasks(status))
           /\ Cardinality(PendingTasks(status)) \in Nat
<1>1. PendingTasks(status) \subseteq Tasks
  BY DEF TypeOK, PendingTasks
<1> QED BY <1>1, TasksAssumption, FS_Subset, FS_CardinalityType

LEMMA EvaluationStep ==
    ASSUME IInv, IInv', VisitOK, VisitOK', pc = "eval", Next
    PROVE  Remaining \in Nat /\ Remaining' \in Nat /\ Remaining' < Remaining
<1> DEFINE n == Cardinality(Tasks)
           P == Cardinality(PendingTasks(status))
<1>1. n \in Nat /\ DOMAIN order = 1..n /\ Round = n + 2 /\ Round' = n + 2
  BY OrderListsTasks DEF IInv, Round
<1>2. P \in Nat /\ P' \in Nat /\ changed \in BOOLEAN /\ changed' \in BOOLEAN
  <2>1. P \in Nat
    BY PendingCount DEF IInv
  <2>2. PendingTasks(status)' \subseteq Tasks
    BY DEF PendingTasks, IInv, TypeOK
  <2>3. P' \in Nat
    BY <2>2, TasksAssumption, FS_Subset, FS_CardinalityType
  <2>4. changed \in BOOLEAN /\ changed' \in BOOLEAN
    BY DEF IInv, TypeOK
  <2> QED BY <2>1, <2>3, <2>4
<1>3. visit \in 1..(n + 1) /\ (pc' = "eval" => visit' \in 1..(n + 1))
  BY DEF VisitOK
<1>4. /\ Passes = 2 * P + (IF changed THEN 1 ELSE 0)
      /\ Passes' = 2 * P' + (IF changed' THEN 1 ELSE 0)
      /\ Passes \in Nat /\ Passes' \in Nat
  BY <1>2 DEF Passes
<1>5. Visit \/ EndPass
  BY DEF Next, EvaluateOnly, SelectNextTask, StartTask, NoneLeft,
         CompleteSuccess, CompleteFailure, RecordVerification, RecordRepair
<1> HIDE DEF n, P
<1>6. Passes * Round \in Nat /\ Passes' * Round \in Nat
  BY <1>1, <1>4
<1>7. /\ Round - visit \in 1..(Round - 1)
      /\ pc' = "eval" => Round' - visit' \in 1..(Round - 1)
  BY <1>1, <1>3
<1>8. Remaining = Passes * Round + (Round - visit) /\ Remaining \in Nat
      /\ Remaining > 0
  BY <1>1, <1>3, <1>6, <1>7 DEF Remaining
<1>9. pc' = "eval" => /\ Remaining' = Passes' * Round + (Round' - visit')
                      /\ Remaining' \in Nat
  BY <1>1, <1>3, <1>6, <1>7 DEF Remaining
<1>10. CASE pc' # "eval"
  BY <1>8, <1>10 DEF Remaining
<1>11. CASE pc' = "eval" /\ Passes' < Passes
  <2>1. Round \in Nat
    BY <1>1
  <2>2. Passes' * Round + (Round' - visit') < Passes * Round + (Round - visit)
    BY <1>3, <1>4, <1>7, <1>11, <2>1, FewerPasses
  <2> QED BY <1>8, <1>9, <1>11, <2>2
<1>12. CASE EndPass /\ pc' = "eval"
  <2>1. changed /\ ~changed' /\ status' = status
    BY <1>2, <1>12 DEF EndPass, IInv, TypeOK
  <2>2. P' = P
    BY <2>1 DEF P
  <2>3. Passes' < Passes
    BY <1>2, <1>4, <2>1, <2>2
  <2> QED BY <1>11, <1>12, <2>3
<1>13. CASE Visit
  <2> DEFINE t == order[visit]
  <2>1. /\ t \in Tasks /\ visit' = visit + 1 /\ pc' = "eval"
        /\ status' = [status EXCEPT ![t] = VisitOutcome(t)]
        /\ changed' = (changed \/ VisitOutcome(t) # status[t])
    BY <1>13, OrderListsTasks DEF Visit, IInv
  <2>2. status \in [Tasks -> TaskStatus]
    BY DEF IInv, TypeOK
  <2>3. CASE VisitOutcome(t) = status[t]
    <3>1. status' = status /\ changed' = changed
      BY <1>2, <2>1, <2>2, <2>3
    <3>2. Passes' = Passes
      BY <3>1 DEF Passes
    <3> QED BY <1>1, <1>3, <1>6, <1>8, <1>9, <2>1, <3>2
  <2>4. CASE VisitOutcome(t) # status[t]
    <3>1. status[t] = "PENDING" /\ VisitOutcome(t) # "PENDING"
      BY <2>4 DEF VisitOutcome
    <3>2. /\ t \in PendingTasks(status)
          /\ PendingTasks(status)' = PendingTasks(status) \ {t}
      BY <2>1, <2>2, <3>1 DEF PendingTasks
    <3>3. P' = P - 1
      BY <3>2, PendingCount, FS_RemoveElement DEF IInv, P
    <3>4. Passes' < Passes
      BY <1>2, <1>4, <3>3
    <3> QED BY <1>11, <2>1, <3>4
  <2> QED BY <2>3, <2>4
<1> QED BY <1>5, <1>10, <1>12, <1>13

(* evaluate_dependencies returns, from any statuses and on cyclic plans    *)
(* too: every step it takes brings a natural number down.                  *)
EvaluationShrinks ==
    [][pc = "eval" => /\ Remaining \in Nat /\ Remaining' \in Nat
                      /\ Remaining' < Remaining]_vars

(* The while loop of evaluate_dependencies ends on every plan.             *)
THEOREM EvaluationTerminates == Spec => EvaluationShrinks
<1>1. Spec => []VisitOK
  BY VisitBound, Invariance, PTL DEF Spec
<1>2. /\ IInv /\ IInv' /\ VisitOK /\ VisitOK' /\ [Next]_vars
      => [pc = "eval" => /\ Remaining \in Nat /\ Remaining' \in Nat
                         /\ Remaining' < Remaining]_vars
  BY EvaluationStep
<1> QED BY <1>1, <1>2, Invariance, PTL DEF Spec, EvaluationShrinks
=============================================================================
