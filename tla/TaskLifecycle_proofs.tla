------------------------ MODULE TaskLifecycle_proofs ------------------------
(***************************************************************************)
(* Facts about the operators of TaskLifecycle that the proofs about        *)
(* TaskDag and AgentRun rest on.                                           *)
(***************************************************************************)
EXTENDS TaskLifecycle, WellFoundedInduction, TLAPS

(* A non-empty set of numbers has a least one.                             *)
LEMMA LeastNat ==
    ASSUME NEW S \in SUBSET Nat, S # {}
    PROVE  \E k \in S : \A l \in S : k <= l
<1>1. IsWellFoundedOn(OpToRel(<, Nat), Nat)
  BY NatLessThanWellFounded
<1>2. PICK k \in S : \A l \in S : ~(<<l, k>> \in OpToRel(<, Nat))
  BY <1>1, WFMin
<1>3. \A l \in S : ~(l < k)
  BY <1>2 DEF OpToRel
<1> QED BY <1>3

(* select_next_task picks a READY task whenever there is one.              *)
LEMMA FirstReadyIsReady ==
    ASSUME NEW status, DOMAIN status \subseteq Nat, ReadyTasks(status) # {}
    PROVE  FirstReady(status) \in ReadyTasks(status)
<1>1. ReadyTasks(status) \in SUBSET Nat
  BY DEF ReadyTasks
<1>2. \E k \in ReadyTasks(status) : \A l \in ReadyTasks(status) : k <= l
  BY <1>1, LeastNat
<1> QED BY <1>2 DEF FirstReady

(* An evaluation only moves PENDING tasks, only to READY or BLOCKED, and   *)
(* to READY only when everything upstream passed.                          *)
LEMMA EvaluatedFacts ==
    ASSUME NEW D, NEW status \in [D -> TaskStatus], NEW deps
    PROVE  /\ Evaluated(status, deps) \in [D -> TaskStatus]
           /\ \A k \in D :
                 \/ Evaluated(status, deps)[k] = status[k]
                 \/ /\ status[k] = "PENDING"
                    /\ Evaluated(status, deps)[k] = "BLOCKED"
                 \/ /\ status[k] = "PENDING"
                    /\ Evaluated(status, deps)[k] = "READY"
                    /\ AllDepsPassed(k, status, deps)
<1>1. DOMAIN status = D
  OBVIOUS
<1>2. "BLOCKED" \in TaskStatus /\ "READY" \in TaskStatus
      /\ "PENDING" \in TaskStatus
  BY DEF TaskStatus
<1> QED BY <1>1, <1>2 DEF Evaluated

(* Doomed is closed under blocking ...                                     *)
LEMMA DoomedClosed ==
    ASSUME NEW status, NEW deps
    PROVE  ClosedUnderBlocking(Doomed(status, deps), status, deps)
<1> SUFFICES ASSUME NEW t \in PendingTasks(status),
                    \/ BlockedBy(t, status, deps)
                    \/ deps[t] \cap Doomed(status, deps) # {},
                    NEW X \in SUBSET PendingTasks(status),
                    ClosedUnderBlocking(X, status, deps)
             PROVE  t \in X
  BY DEF ClosedUnderBlocking, Doomed
<1>1. Doomed(status, deps) \subseteq X
  BY DEF Doomed
<1> QED BY <1>1 DEF ClosedUnderBlocking

(* ... and no smaller set of PENDING tasks is: a task whose dependencies   *)
(* all passed is not in it.                                                *)
LEMMA PassedNotDoomed ==
    ASSUME NEW status, NEW deps, NEW t, AllDepsPassed(t, status, deps)
    PROVE  t \notin Doomed(status, deps)
<1> DEFINE X == Doomed(status, deps) \ {t}
<1>1. X \in SUBSET PendingTasks(status)
  BY DEF Doomed
<1>2. ASSUME NEW u \in PendingTasks(status),
             BlockedBy(u, status, deps) \/ deps[u] \cap X # {}
      PROVE  u \in X
  <2>1. u \in Doomed(status, deps)
    BY <1>2, DoomedClosed DEF ClosedUnderBlocking
  <2>2. u # t
    BY <1>1, <1>2 DEF AllDepsPassed, BlockedBy, PendingTasks, BadTask
  <2> QED BY <2>1, <2>2
<1>3. ClosedUnderBlocking(X, status, deps)
  BY <1>2 DEF ClosedUnderBlocking
<1> QED BY <1>1, <1>3 DEF Doomed
=============================================================================
