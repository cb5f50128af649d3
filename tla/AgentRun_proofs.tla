--------------------------- MODULE AgentRun_proofs ---------------------------
(***************************************************************************)
(* What holds of AgentRun for every number of threads, plans, tasks and    *)
(* restarts, however requests interleave.  Handlers write back rows they   *)
(* read long before, so the invariant speaks of every copy of a plan that  *)
(* is around, the stored one and those the threads hold: a copy may be     *)
(* old, but what it claims was true once, and the claims that matter never *)
(* become false.                                                           *)
(***************************************************************************)
EXTENDS AgentRun, TaskLifecycle_proofs, SequenceTheorems

(* Where a shared step may return to.                                      *)
Resumable == {"idle", "g_enter", "g_route", "g_info", "g_await", "g_request",
              "pl_ctx", "pl_synth", "pl_request", "st_load", "bg_load",
              "rj_resolve", "aa_load"}

(* The steps that work on a plan the thread holds.                         *)
NeedsPlan == {"g_write", "g_await", "g_request", "pl_write", "pl_expire",
              "pl_await", "pl_request", "ap_write", "ap_find", "ap_create",
              "bg_exec", "bg_write"}

(* A plan copy claims no pass that was not earned and no task is READY in  *)
(* it too early, given the dependencies dp and the executions sc.          *)
GoodCopy(p, dp, sc) ==
    /\ p \in Plan
    /\ p.id = 0 => DOMAIN p.tasks = {}
    /\ p.id # 0 => DOMAIN p.tasks = DOMAIN dp[p.id]
    /\ \A k \in DOMAIN p.tasks :
          /\ p.tasks[k] = "PASSED" => <<p.id, k>> \in sc
          /\ p.tasks[k] = "READY" => \A d \in dp[p.id][k] : <<p.id, d>> \in sc

(* A thread about to execute a task may do so.                             *)
MayExecute(r, dp, sc, ap) ==
    /\ r.local.status = "APPROVED"
    /\ r.local.id \in ap
    /\ r.task \in DOMAIN r.local.tasks
    /\ \A d \in dp[r.local.id][r.task] : <<r.local.id, d>> \in sc

ThreadOK(r, dp, sc, ap, rows) ==
    /\ r \in Thread
    /\ r.after \in Resumable
    /\ GoodCopy(r.local, dp, sc)
    /\ r.rows \subseteq rows
    /\ r.pc \in NeedsPlan => r.local.id # 0
    /\ r.pc \in {"sync", "sync_commit"} => r.after \in {"g_route", "g_info"}
    /\ r.pc = "ctx_commit" => r.after \in {"pl_synth", "idle"}
    /\ r.pc = "resolve" => /\ r.req \in rows
                           /\ r.goal \in {"APPROVED", "REJECTED"}
                           /\ r.after \in {"st_load", "rj_resolve", "aa_load"}
    /\ r.pc = "commit" => /\ r.goal \in AgentState
                          /\ r.after \in NeedsPlan => r.local.id # 0
    /\ r.pc = "bg_exec" => MayExecute(r, dp, sc, ap)

(* An approval row that is APPROVED was counted as an approval.            *)
ApprovalsKept ==
    \A i \in DOMAIN reqs : reqs[i].status = "APPROVED" => reqs[i].pid \in approved

SharedOK ==
    /\ state \in AgentState
    /\ GoodCopy(plan, deps, succeeded)
    /\ reqs \in Seq(Request)
    /\ ApprovalsKept
    /\ clock \in Nat
    /\ deps \in [PlanIds -> DepChoices]
    /\ valid \in [PlanIds -> BOOLEAN]
    /\ planned \in 0..MaxPlans
    /\ restarts \in 0..MaxRestarts
    /\ approved \subseteq PlanIds
    /\ succeeded \subseteq PlanIds \X Tasks

IInv ==
    /\ SharedOK
    /\ th \in [Threads -> Thread]
    /\ \A t \in Threads :
          ThreadOK(th[t], deps, succeeded, approved, DOMAIN reqs)
-----------------------------------------------------------------------------
(* Plan copies.                                                            *)

(* The statuses of a plan copy are a function over some of the tasks.      *)
LEMMA StatusFunctions ==
    /\ \A f \in TaskStatuses : /\ DOMAIN f \subseteq Tasks
                               /\ f \in [DOMAIN f -> TaskStatus]
    /\ \A D \in SUBSET Tasks : [D -> TaskStatus] \subseteq TaskStatuses
  BY DEF TaskStatuses

LEMMA EmptyCopy == ASSUME NEW dp, NEW sc PROVE GoodCopy(NoPlan, dp, sc)
<1>1. [t \in {} |-> "PENDING"] \in [{} -> TaskStatus]
  OBVIOUS
<1>2. [t \in {} |-> "PENDING"] \in TaskStatuses
  <2>1. {} \in SUBSET Tasks
    OBVIOUS
  <2> QED BY <1>1, <2>1, StatusFunctions
<1>3. NoPlan \in Plan
  BY <1>2, BoundsAssumption DEF NoPlan, Plan, PlanStatus
<1> QED BY <1>3 DEF GoodCopy, NoPlan

(* A synthesised plan has run nothing.                                     *)
LEMMA NewCopy ==
    ASSUME NEW id \in PlanIds, NEW sc, deps \in [PlanIds -> DepChoices],
           valid \in [PlanIds -> BOOLEAN]
    PROVE  GoodCopy(NewPlan(id), deps, sc) /\ NewPlan(id).id # 0
<1> DEFINE f == [k \in DOMAIN deps[id] |-> "PENDING"]
<1>1. DOMAIN deps[id] \in SUBSET Tasks
  BY DepsAssumption
<1>2. f \in [DOMAIN deps[id] -> TaskStatus]
  BY DEF TaskStatus
<1>3. f \in TaskStatuses
  BY <1>1, <1>2, StatusFunctions
<1>4. id \in 0..MaxPlans /\ id # 0
  BY BoundsAssumption DEF PlanIds
<1>5. NewPlan(id) \in Plan
  BY <1>3, <1>4 DEF NewPlan, Plan, PlanStatus
<1> QED BY <1>4, <1>5 DEF GoodCopy, NewPlan

(* A plan copy stays good when only its status changes.                    *)
LEMMA StatusOnly ==
    ASSUME NEW p, NEW dp, NEW sc, GoodCopy(p, dp, sc), NEW s \in PlanStatus
    PROVE  LET q == [p EXCEPT !.status = s] IN
           /\ GoodCopy(q, dp, sc) /\ q.id = p.id /\ q.status = s
           /\ q.tasks = p.tasks
  BY DEF GoodCopy, Plan

(* A plan copy with new task statuses is good if those are.                *)
LEMMA TasksOnly ==
    ASSUME NEW p, NEW dp, NEW sc, NEW sc2, GoodCopy(p, dp, sc),
           sc \subseteq sc2,
           NEW f \in [DOMAIN p.tasks -> TaskStatus],
           \A k \in DOMAIN p.tasks :
              /\ f[k] = "PASSED" => <<p.id, k>> \in sc2
              /\ f[k] = "READY" => \A d \in dp[p.id][k] : <<p.id, d>> \in sc2
    PROVE  LET q == [p EXCEPT !.tasks = f] IN
           /\ GoodCopy(q, dp, sc2) /\ q.id = p.id /\ q.status = p.status
           /\ q.tasks = f
<1>1. p \in Plan /\ p.tasks \in TaskStatuses
  BY DEF GoodCopy, Plan
<1>2. f \in TaskStatuses
  BY <1>1, StatusFunctions
<1> DEFINE q == [p EXCEPT !.tasks = f]
<1>3. q \in Plan /\ q.id = p.id /\ q.status = p.status /\ q.tasks = f
  BY <1>1, <1>2 DEF Plan
<1> QED BY <1>3 DEF GoodCopy

(* An evaluation keeps a plan copy good.                                   *)
LEMMA EvaluatedCopy ==
    ASSUME NEW p, NEW sc, GoodCopy(p, deps, sc)
    PROVE  /\ GoodCopy(EvaluatedPlan(p), deps, sc)
           /\ EvaluatedPlan(p).id = p.id
           /\ EvaluatedPlan(p).status = p.status
           /\ DOMAIN EvaluatedPlan(p).tasks = DOMAIN p.tasks
<1> DEFINE f == Evaluated(p.tasks, deps[p.id])
<1>1. CASE p.id = 0
  BY <1>1 DEF EvaluatedPlan
<1>2. CASE p.id # 0
  <2>1. p.tasks \in [DOMAIN p.tasks -> TaskStatus]
    BY StatusFunctions DEF GoodCopy, Plan
  <2>2. /\ f \in [DOMAIN p.tasks -> TaskStatus]
        /\ \A k \in DOMAIN p.tasks :
              \/ f[k] = p.tasks[k]
              \/ f[k] = "BLOCKED"
              \/ f[k] = "READY" /\ AllDepsPassed(k, p.tasks, deps[p.id])
    BY <2>1, EvaluatedFacts
  <2>3. ASSUME NEW k \in DOMAIN p.tasks
        PROVE  /\ f[k] = "PASSED" => <<p.id, k>> \in sc
               /\ f[k] = "READY" => \A d \in deps[p.id][k] : <<p.id, d>> \in sc
    BY <2>2 DEF GoodCopy, AllDepsPassed
  <2>4. EvaluatedPlan(p) = [p EXCEPT !.tasks = f]
    BY <1>2 DEF EvaluatedPlan
  <2>5. DOMAIN f = DOMAIN p.tasks
    BY <2>2
  <2> HIDE DEF f
  <2> QED BY <2>2, <2>3, <2>4, <2>5, TasksOnly
<1> QED BY <1>1, <1>2

(* What is true of a copy stays true.                                      *)
LEMMA CopyKept ==
    ASSUME NEW p, NEW dp, NEW sc, NEW sc2, GoodCopy(p, dp, sc), sc \subseteq sc2
    PROVE  GoodCopy(p, dp, sc2)
  BY DEF GoodCopy
-----------------------------------------------------------------------------
(* Threads and steps.                                                      *)

LEMMA ControlPoints == Resumable \subseteq PCs /\ NeedsPlan \subseteq PCs
  BY DEF Resumable, NeedsPlan, PCs

LEMMA IdleOK ==
    ASSUME NEW dp, NEW sc, NEW ap, NEW rows
    PROVE  /\ ThreadOK(Idle, dp, sc, ap, rows)
           /\ Idle.local = NoPlan /\ Idle.after = "idle" /\ Idle.pc = "idle"
<1>1. GoodCopy(NoPlan, dp, sc) /\ NoPlan \in Plan
  BY EmptyCopy DEF GoodCopy
<1>2. Idle \in Thread
  BY <1>1 DEF Idle, Thread, PCs, AgentState, Terminal
<1> QED BY <1>1, <1>2 DEF ThreadOK, Idle, Resumable, NeedsPlan

(* What is true of a thread stays true while other threads move.           *)
LEMMA ThreadKept ==
    ASSUME NEW r, NEW dp, NEW sc, NEW sc2, NEW ap, NEW ap2, NEW rows,
           NEW rows2, ThreadOK(r, dp, sc, ap, rows),
           sc \subseteq sc2, ap \subseteq ap2, rows \subseteq rows2
    PROVE  ThreadOK(r, dp, sc2, ap2, rows2)
<1>1. GoodCopy(r.local, dp, sc2)
  BY CopyKept DEF ThreadOK
<1>2. MayExecute(r, dp, sc, ap) => MayExecute(r, dp, sc2, ap2)
  BY DEF MayExecute
<1> QED BY <1>1, <1>2 DEF ThreadOK

(* One thread moves; nothing that other threads rely on is taken back.     *)
LEMMA ThreadStep ==
    ASSUME IInv, NEW t \in Threads, NEW r, Become(t, r), deps' = deps,
           SharedOK', approved \subseteq approved',
           succeeded \subseteq succeeded', DOMAIN reqs \subseteq DOMAIN reqs',
           ThreadOK(r, deps, succeeded', approved', DOMAIN reqs')
    PROVE  IInv'
<1>1. r \in Thread
  BY DEF ThreadOK
<1>2. th \in [Threads -> Thread] /\ th' = [th EXCEPT ![t] = r]
  BY DEF IInv, Become
<1>3. th' \in [Threads -> Thread]
  BY <1>1, <1>2
<1>4. ASSUME NEW u \in Threads
      PROVE  ThreadOK(th'[u], deps', succeeded', approved', DOMAIN reqs')
  <2>1. CASE u = t
    BY <1>2, <2>1
  <2>2. CASE u # t
    <3>1. th'[u] = th[u]
      BY <1>2, <2>2
    <3>2. ThreadOK(th[u], deps, succeeded, approved, DOMAIN reqs)
      BY DEF IInv
    <3> QED BY <3>1, <3>2, ThreadKept
  <2> QED BY <2>1, <2>2
<1> QED BY <1>3, <1>4 DEF IInv

(* A step that loads and decides.                                          *)
LEMMA QuietStep ==
    ASSUME IInv, NEW t \in Threads, NEW r, Become(t, r), unchangedRun,
           unchangedEnv, ThreadOK(r, deps, succeeded, approved, DOMAIN reqs)
    PROVE  IInv'
<1>1. SharedOK'
  BY DEF IInv, SharedOK, unchangedRun, unchangedEnv, ApprovalsKept
<1> QED BY <1>1, ThreadStep DEF unchangedRun, unchangedEnv

(* A step that writes the run's row.                                       *)
LEMMA RowStep ==
    ASSUME IInv, NEW t \in Threads, NEW r, Become(t, r), unchangedEnv,
           state' \in AgentState, GoodCopy(plan', deps, succeeded),
           UNCHANGED <<reqs, clock, planned, approved, succeeded>>,
           ThreadOK(r, deps, succeeded, approved, DOMAIN reqs)
    PROVE  IInv'
<1>1. SharedOK'
  BY DEF IInv, SharedOK, unchangedEnv, ApprovalsKept
<1> QED BY <1>1, ThreadStep DEF unchangedEnv

(* A step that writes approval rows and approves none.                     *)
LEMMA RowsStep ==
    ASSUME IInv, NEW t \in Threads, NEW r, Become(t, r), unchangedEnv,
           UNCHANGED <<state, plan, clock, planned, approved, succeeded>>,
           reqs' \in Seq(Request), DOMAIN reqs \subseteq DOMAIN reqs',
           \A i \in DOMAIN reqs' :
              reqs'[i].status = "APPROVED" => /\ i \in DOMAIN reqs
                                             /\ reqs'[i] = reqs[i],
           ThreadOK(r, deps, succeeded, approved, DOMAIN reqs')
    PROVE  IInv'
<1>1. SharedOK'
  BY DEF IInv, SharedOK, unchangedEnv, ApprovalsKept
<1> QED BY <1>1, ThreadStep DEF unchangedEnv

LEMMA Transitions ==
    /\ \A from, to : <<from, to>> \in ValidTransitions => to \in AgentState
    /\ Terminal \subseteq AgentState
<1>1. ValidTransitions \subseteq AgentState \X AgentState
  BY DEF ValidTransitions, AgentState, Terminal
<1> QED BY <1>1 DEF AgentState

(* transition_state's first half, from wherever it is called.              *)
LEMMA TransitionStep ==
    ASSUME IInv, NEW t \in Threads, NEW from, NEW to, NEW then \in Resumable,
           then \in NeedsPlan => th[t].local.id # 0,
           TransitionTo(t, from, to, then), unchangedRun, unchangedEnv
    PROVE  IInv'
<1>1. CASE <<from, to>> \notin ValidTransitions
  <2>1. Become(t, Idle)
    BY <1>1 DEF TransitionTo, Return
  <2> QED BY <2>1, IdleOK, QuietStep
<1>2. CASE <<from, to>> \in ValidTransitions
  <2> DEFINE r == [th[t] EXCEPT !.pc = "commit", !.goal = to, !.after = then]
  <2>1. Become(t, r)
    BY <1>2 DEF TransitionTo
  <2>2. to \in AgentState
    BY <1>2, Transitions
  <2>3. /\ th[t] \in Thread /\ GoodCopy(th[t].local, deps, succeeded)
        /\ th[t].rows \subseteq DOMAIN reqs
    BY DEF IInv, ThreadOK
  <2>4. /\ r \in Thread /\ r.pc = "commit" /\ r.goal = to /\ r.after = then
        /\ r.local = th[t].local /\ r.rows = th[t].rows
    <3>1. "commit" \in PCs /\ then \in PCs
      BY ControlPoints DEF PCs
    <3> QED BY <2>2, <2>3, <3>1 DEF Thread
  <2>5. ThreadOK(r, deps, succeeded, approved, DOMAIN reqs)
    BY <2>2, <2>3, <2>4 DEF ThreadOK, NeedsPlan
  <2> QED BY <2>1, <2>5, QuietStep
<1> QED BY <1>1, <1>2

(* The end of a request.                                                   *)
LEMMA ReturnStep ==
    ASSUME IInv, NEW t \in Threads, Return(t), unchangedRun, unchangedEnv
    PROVE  IInv'
  BY IdleOK, QuietStep DEF Return

(* The steps whose only condition on a thread is that it is well formed.   *)
Plain == PCs \ ({"sync", "sync_commit", "ctx_commit", "resolve", "commit",
                 "bg_exec"} \cup NeedsPlan)

(* A thread that goes on elsewhere with what it holds.                     *)
LEMMA GotoOK ==
    ASSUME NEW r, NEW dp, NEW sc, NEW ap, NEW rows, NEW pc \in PCs,
           ThreadOK(r, dp, sc, ap, rows),
           \/ pc \in Plain
           \/ pc \in NeedsPlan \ {"bg_exec"} /\ r.local.id # 0
    PROVE  LET q == [r EXCEPT !.pc = pc] IN
           /\ ThreadOK(q, dp, sc, ap, rows)
           /\ q.local = r.local /\ q.after = r.after /\ q.pc = pc
<1> DEFINE q == [r EXCEPT !.pc = pc]
<1>1. /\ q \in Thread /\ q.pc = pc /\ q.local = r.local
      /\ q.after = r.after /\ q.rows = r.rows
  BY DEF ThreadOK, Thread
<1> HIDE DEF q
<1>2. ThreadOK(q, dp, sc, ap, rows)
  BY <1>1 DEF ThreadOK, Plain, NeedsPlan
<1> QED BY <1>1, <1>2 DEF q

(* A shared step that is left.                                             *)
LEMMA ContinuedOK ==
    ASSUME IInv, NEW t \in Threads,
           th[t].after \in NeedsPlan => th[t].local.id # 0
    PROVE  /\ ThreadOK(Continued(t), deps, succeeded, approved, DOMAIN reqs)
           /\ Continued(t).pc = th[t].after
           /\ Continued(t).after = th[t].after
<1>1. /\ th[t] \in Thread /\ th[t].after \in Resumable
      /\ GoodCopy(th[t].local, deps, succeeded)
      /\ th[t].rows \subseteq DOMAIN reqs
  BY DEF IInv, ThreadOK
<1>2. CASE th[t].after = "idle"
  BY <1>2, IdleOK DEF Continued
<1>3. CASE th[t].after # "idle"
  <2> DEFINE r == [Idle EXCEPT !.pc = th[t].after, !.after = th[t].after,
                     !.local = th[t].local, !.entered = th[t].entered,
                     !.rows = th[t].rows]
  <2>1. Continued(t) = r
    BY <1>3 DEF Continued
  <2>2. Idle \in Thread
    BY IdleOK DEF ThreadOK
  <2>3. /\ r \in Thread /\ r.pc = th[t].after /\ r.after = th[t].after
        /\ r.local = th[t].local /\ r.rows = th[t].rows
    <3>1. th[t].after \in PCs
      BY <1>1, ControlPoints
    <3>2. /\ th[t].local \in Plan /\ th[t].entered \in AgentState
          /\ th[t].rows \in SUBSET Nat
      BY <1>1 DEF Thread
    <3> QED BY <2>2, <3>1, <3>2 DEF Thread
  <2> HIDE DEF r
  <2>4. ThreadOK(r, deps, succeeded, approved, DOMAIN reqs)
    BY <1>1, <2>3 DEF ThreadOK, NeedsPlan, Resumable
  <2> QED BY <2>1, <2>3, <2>4
<1> QED BY <1>2, <1>3

(* A thread that goes on elsewhere with a plan it read or made.            *)
LEMMA HoldOK ==
    ASSUME NEW r, NEW dp, NEW sc, NEW ap, NEW rows, NEW pc \in PCs, NEW p,
           ThreadOK(r, dp, sc, ap, rows), GoodCopy(p, dp, sc),
           \/ pc \in Plain
           \/ pc \in NeedsPlan \ {"bg_exec"} /\ p.id # 0
    PROVE  ThreadOK([r EXCEPT !.pc = pc, !.local = p], dp, sc, ap, rows)
<1> DEFINE q == [r EXCEPT !.pc = pc, !.local = p]
<1>1. p \in Plan
  BY DEF GoodCopy
<1>2. /\ q \in Thread /\ q.pc = pc /\ q.local = p /\ q.after = r.after
      /\ q.rows = r.rows
  BY <1>1 DEF ThreadOK, Thread
<1> HIDE DEF q
<1>3. ThreadOK(q, dp, sc, ap, rows)
  BY <1>2 DEF ThreadOK, Plain, NeedsPlan
<1> QED BY <1>3 DEF q

(* The same when the thread only drops or swaps its plan.                  *)
LEMMA SwapOK ==
    ASSUME NEW r, NEW dp, NEW sc, NEW ap, NEW rows, NEW p,
           ThreadOK(r, dp, sc, ap, rows), GoodCopy(p, dp, sc), r.pc \in Plain
    PROVE  ThreadOK([r EXCEPT !.local = p], dp, sc, ap, rows)
<1> DEFINE q == [r EXCEPT !.local = p]
<1>1. p \in Plan
  BY DEF GoodCopy
<1>2. /\ q \in Thread /\ q.pc = r.pc /\ q.local = p /\ q.after = r.after
      /\ q.rows = r.rows
  BY <1>1 DEF ThreadOK, Thread
<1> HIDE DEF q
<1>3. ThreadOK(q, dp, sc, ap, rows)
  BY <1>2 DEF ThreadOK, Plain, NeedsPlan
<1> QED BY <1>3 DEF q

(* The background executor between two tasks.                              *)
LEMMA LoopOK ==
    ASSUME NEW dp, NEW sc, NEW ap, NEW rows, NEW f \in BOOLEAN
    PROVE  /\ ThreadOK([Idle EXCEPT !.pc = "bg_load", !.after = "bg_load",
                                    !.failed = f], dp, sc, ap, rows)
           /\ ThreadOK([Idle EXCEPT !.pc = "bg_load", !.after = "bg_load"],
                       dp, sc, ap, rows)
<1> DEFINE q == [Idle EXCEPT !.pc = "bg_load", !.after = "bg_load",
                             !.failed = f]
<1> DEFINE o == [Idle EXCEPT !.pc = "bg_load", !.after = "bg_load"]
<1>1. /\ Idle \in Thread /\ GoodCopy(Idle.local, dp, sc)
      /\ Idle.rows \subseteq rows
      /\ "bg_load" \in PCs /\ "bg_load" \in Resumable
  BY IdleOK DEF ThreadOK, PCs, Resumable
<1>2. /\ q \in Thread /\ q.pc = "bg_load" /\ q.after = "bg_load"
      /\ q.local = Idle.local /\ q.rows = Idle.rows
      /\ o \in Thread /\ o.pc = "bg_load" /\ o.after = "bg_load"
      /\ o.local = Idle.local /\ o.rows = Idle.rows
  BY <1>1 DEF Thread
<1> HIDE DEF q, o
<1>3. ThreadOK(q, dp, sc, ap, rows) /\ ThreadOK(o, dp, sc, ap, rows)
  BY <1>1, <1>2 DEF ThreadOK, NeedsPlan
<1> QED BY <1>3 DEF q, o

(* A thread about to resolve an approval row.                              *)
LEMMA ResolverOK ==
    ASSUME NEW r, NEW dp, NEW sc, NEW ap, NEW rows, NEW i \in rows, i \in Nat,
           NEW verdict \in {"APPROVED", "REJECTED"},
           NEW after \in {"st_load", "aa_load"},
           ThreadOK(r, dp, sc, ap, rows)
    PROVE  ThreadOK([r EXCEPT !.pc = "resolve", !.req = i, !.goal = verdict,
                              !.after = after], dp, sc, ap, rows)
<1> DEFINE q == [r EXCEPT !.pc = "resolve", !.req = i, !.goal = verdict,
                          !.after = after]
<1>1. /\ r \in Thread /\ GoodCopy(r.local, dp, sc)
      /\ "resolve" \in PCs /\ after \in PCs /\ after \in Resumable
  BY DEF ThreadOK, PCs, Resumable
<1>2. /\ q \in Thread /\ q.pc = "resolve" /\ q.req = i /\ q.goal = verdict
      /\ q.after = after /\ q.local = r.local /\ q.rows = r.rows
  BY <1>1 DEF Thread
<1> HIDE DEF q
<1>3. ThreadOK(q, dp, sc, ap, rows)
  BY <1>1, <1>2 DEF ThreadOK, NeedsPlan
<1> QED BY <1>3 DEF q
-----------------------------------------------------------------------------
(* One lemma per step.                                                     *)

LEMMA ThreadFacts ==
    ASSUME IInv, NEW t \in Threads
    PROVE  /\ ThreadOK(th[t], deps, succeeded, approved, DOMAIN reqs)
           /\ th[t] \in Thread
           /\ GoodCopy(th[t].local, deps, succeeded)
           /\ GoodCopy(plan, deps, succeeded)
           /\ th[t].after \in Resumable
           /\ state \in AgentState
  BY DEF IInv, ThreadOK, SharedOK

LEMMA PlainPoints ==
    {"idle", "g_enter", "g_route", "g_synth", "g_info", "g_error", "ctx",
     "pl_ctx", "pl_synth", "st_load", "st_save", "st_transition", "bg_load",
     "cx_mark", "cx_commit", "rj_write", "rj_load", "rj_resolve",
     "rj_transition", "aa_load"} \subseteq Plain
  BY DEF Plain, PCs, NeedsPlan

(* The endpoints and steps that only move on to another step.              *)
LEMMA GotoStep ==
    ASSUME IInv, NEW t \in Threads, NEW pc \in PCs, Goto(t, pc),
           unchangedRun, unchangedEnv,
           \/ pc \in Plain
           \/ pc \in NeedsPlan \ {"bg_exec"} /\ th[t].local.id # 0
    PROVE  IInv'
  BY ThreadFacts, GotoOK, QuietStep DEF Goto

LEMMA CommitIInv ==
    ASSUME IInv, NEW t \in Threads, Commit(t) PROVE IInv'
<1>1. th[t].goal \in AgentState
      /\ (th[t].after \in NeedsPlan => th[t].local.id # 0)
  BY ThreadFacts DEF Commit, ThreadOK
<1>2. ThreadOK(Continued(t), deps, succeeded, approved, DOMAIN reqs)
  BY <1>1, ContinuedOK
<1> QED BY <1>1, <1>2, ThreadFacts, RowStep DEF Commit

LEMMA CreateIInv ==
    ASSUME IInv, NEW t \in Threads, Create(t) PROVE IInv'
  BY TransitionStep DEF Create, Resumable, NeedsPlan

LEMMA GraphEnterIInv ==
    ASSUME IInv, NEW t \in Threads, GraphEnter(t) PROVE IInv'
<1> DEFINE r == [th[t] EXCEPT !.pc = "sync", !.after = "g_route",
                              !.entered = state]
<1>1. "sync" \in PCs /\ "g_route" \in PCs /\ "g_route" \in Resumable
  BY DEF PCs, Resumable
<1>2. /\ r \in Thread /\ r.pc = "sync" /\ r.after = "g_route"
      /\ r.local = th[t].local /\ r.rows = th[t].rows
  BY <1>1, ThreadFacts DEF Thread
<1>3. Become(t, r) /\ unchangedRun /\ unchangedEnv
  BY DEF GraphEnter
<1> HIDE DEF r
<1>4. ThreadOK(r, deps, succeeded, approved, DOMAIN reqs)
  BY <1>1, <1>2, ThreadFacts DEF ThreadOK, NeedsPlan
<1> QED BY <1>3, <1>4, QuietStep

LEMMA SyncLoadIInv ==
    ASSUME IInv, NEW t \in Threads, SyncLoad(t) PROVE IInv'
<1> DEFINE r == [th[t] EXCEPT !.pc = "sync_commit", !.local = plan]
<1>1. "sync_commit" \in PCs /\ plan \in Plan
  BY ThreadFacts DEF PCs, GoodCopy
<1>2. /\ r \in Thread /\ r.pc = "sync_commit" /\ r.after = th[t].after
      /\ r.local = plan /\ r.rows = th[t].rows
  BY <1>1, ThreadFacts DEF Thread
<1>3. /\ Become(t, r) /\ unchangedRun /\ unchangedEnv
      /\ th[t].after \in {"g_route", "g_info"}
  BY ThreadFacts DEF SyncLoad, ThreadOK
<1> HIDE DEF r
<1>4. ThreadOK(r, deps, succeeded, approved, DOMAIN reqs)
  BY <1>2, <1>3, ThreadFacts DEF ThreadOK, NeedsPlan
<1> QED BY <1>3, <1>4, QuietStep

LEMMA SyncCommitIInv ==
    ASSUME IInv, NEW t \in Threads, SyncCommit(t) PROVE IInv'
<1>1. th[t].after \in {"g_route", "g_info"}
  BY ThreadFacts DEF SyncCommit, ThreadOK
<1>2. /\ ThreadOK(Continued(t), deps, succeeded, approved, DOMAIN reqs)
      /\ Continued(t).pc \in Plain
  BY <1>1, ContinuedOK, PlainPoints DEF NeedsPlan
<1>3. ThreadOK([Continued(t) EXCEPT !.local = NoPlan], deps, succeeded,
               approved, DOMAIN reqs)
  BY <1>2, EmptyCopy, SwapOK
<1> QED BY <1>3, ThreadFacts, RowStep DEF SyncCommit

LEMMA GraphRouteIInv ==
    ASSUME IInv, NEW t \in Threads, GraphRoute(t) PROVE IInv'
<1>1. CASE Goto(t, "g_error")
  BY <1>1, GotoStep, PlainPoints DEF GraphRoute, PCs
<1>2. ASSUME NEW pc \in {"sync", "g_synth"},
             NEW after \in {"g_info", "g_await"}, pc = "sync" => after = "g_info",
             Become(t, [th[t] EXCEPT !.pc = pc, !.after = after])
      PROVE  IInv'
  <2> DEFINE r == [th[t] EXCEPT !.pc = pc, !.after = after]
  <2>1. pc \in PCs /\ after \in PCs /\ after \in Resumable
    BY DEF PCs, Resumable
  <2>2. /\ r \in Thread /\ r.pc = pc /\ r.after = after
        /\ r.local = th[t].local /\ r.rows = th[t].rows
    BY <2>1, ThreadFacts DEF Thread
  <2> HIDE DEF r
  <2>3. ThreadOK(r, deps, succeeded, approved, DOMAIN reqs)
    BY <1>2, <2>1, <2>2, ThreadFacts DEF ThreadOK, NeedsPlan
  <2> QED BY <1>2, <2>3, QuietStep DEF r, GraphRoute
<1> QED BY <1>1, <1>2 DEF GraphRoute

LEMMA SynthesisedIInv ==
    ASSUME IInv, NEW t \in Threads, NEW pc \in {"g_write", "pl_write"},
           Synthesised(t, pc), unchangedEnv
    PROVE  IInv'
<1> DEFINE p == NewPlan(planned + 1)
<1>1. /\ deps \in [PlanIds -> DepChoices] /\ valid \in [PlanIds -> BOOLEAN]
      /\ planned + 1 \in PlanIds /\ planned' \in 0..MaxPlans
  BY BoundsAssumption DEF IInv, SharedOK, Synthesised, PlanIds
<1>2. GoodCopy(p, deps, succeeded) /\ p.id # 0
  BY <1>1, NewCopy
<1>3. pc \in PCs /\ pc \in NeedsPlan \ {"bg_exec"}
  BY DEF PCs, NeedsPlan
<1> DEFINE r == [th[t] EXCEPT !.pc = pc, !.local = p]
<1>4. /\ Become(t, r)
      /\ UNCHANGED <<state, plan, reqs, clock, approved, succeeded, deps>>
  BY DEF Synthesised, unchangedEnv
<1>5. ThreadOK(r, deps, succeeded, approved, DOMAIN reqs)
  <2> HIDE DEF p
  <2> QED BY <1>2, <1>3, ThreadFacts, HoldOK
<1> HIDE DEF r
<1>6. SharedOK'
  BY <1>1, <1>4 DEF IInv, SharedOK, unchangedEnv, ApprovalsKept
<1> QED BY <1>4, <1>5, <1>6, ThreadStep

LEMMA GraphSynthIInv ==
    ASSUME IInv, NEW t \in Threads, GraphSynth(t) PROVE IInv'
<1>1. CASE Synthesised(t, "g_write")
  BY <1>1, SynthesisedIInv DEF GraphSynth
<1>2. CASE Goto(t, "g_error") /\ unchangedRun
  BY <1>2, GotoStep, PlainPoints DEF GraphSynth, PCs
<1> QED BY <1>1, <1>2 DEF GraphSynth

LEMMA GraphWriteIInv ==
    ASSUME IInv, NEW t \in Threads, GraphWrite(t) PROVE IInv'
<1>1. th[t].local.id # 0
  BY ThreadFacts DEF GraphWrite, ThreadOK, NeedsPlan
<1> QED BY <1>1, ThreadFacts, ContinuedOK, RowStep DEF GraphWrite

LEMMA GraphInfoIInv ==
    ASSUME IInv, NEW t \in Threads, GraphInfo(t) PROVE IInv'
  BY ReturnStep, TransitionStep DEF GraphInfo, Resumable, NeedsPlan

LEMMA GraphAwaitIInv ==
    ASSUME IInv, NEW t \in Threads, GraphAwait(t) PROVE IInv'
<1>1. th[t].local.id # 0
  BY ThreadFacts DEF GraphAwait, ThreadOK, NeedsPlan
<1>2. CASE Goto(t, "g_request")
  BY <1>1, <1>2, GotoStep DEF GraphAwait, PCs, NeedsPlan
<1>3. CASE TransitionTo(t, state, "AWAITING_APPROVAL", "g_request")
  BY <1>1, <1>3, TransitionStep DEF GraphAwait, Resumable
<1> QED BY <1>2, <1>3 DEF GraphAwait

LEMMA GraphErrorIInv ==
    ASSUME IInv, NEW t \in Threads, GraphError(t) PROVE IInv'
  BY ReturnStep, TransitionStep DEF GraphError, Resumable, NeedsPlan

(* A request for the plan a thread holds.                                  *)
LEMMA NewRequestOK ==
    ASSUME IInv, NEW t \in Threads, th[t].local.id # 0
    PROVE  /\ NewRequest(th[t].local.id) \in Request
           /\ NewRequest(th[t].local.id).status = "PENDING"
<1>1. th[t].local.id \in 0..MaxPlans
  BY ThreadFacts DEF GoodCopy, Plan
<1>2. th[t].local.id \in PlanIds
  BY <1>1, BoundsAssumption DEF PlanIds
<1> QED BY <1>2 DEF NewRequest, Request, ApprovalStatus

LEMMA RequestApprovalIInv ==
    ASSUME IInv, NEW t \in Threads, RequestApproval(t) PROVE IInv'
<1> DEFINE q == NewRequest(th[t].local.id)
<1>1. th[t].local.id # 0
  BY ThreadFacts DEF RequestApproval, ThreadOK, NeedsPlan
<1>2. q \in Request /\ q.status = "PENDING"
  BY <1>1, NewRequestOK
<1>3. reqs' = Append(reqs, q) /\ reqs \in Seq(Request)
  BY DEF RequestApproval, IInv, SharedOK
<1> HIDE DEF q
<1>4. /\ reqs' \in Seq(Request) /\ DOMAIN reqs \subseteq DOMAIN reqs'
      /\ \A i \in DOMAIN reqs' :
            reqs'[i].status = "APPROVED" => /\ i \in DOMAIN reqs
                                           /\ reqs'[i] = reqs[i]
  BY <1>2, <1>3
<1> QED BY <1>4, IdleOK, RowsStep DEF RequestApproval, Return

LEMMA PlanBeginIInv ==
    ASSUME IInv, NEW t \in Threads, NEW force \in BOOLEAN, PlanBegin(t, force)
    PROVE  IInv'
<1>1. CASE Goto(t, "pl_ctx")
  BY <1>1, GotoStep, PlainPoints DEF PlanBegin, PCs
<1>2. CASE TransitionTo(t, state, "PLANNING", "pl_ctx")
  BY <1>2, TransitionStep DEF PlanBegin, Resumable, NeedsPlan
<1> QED BY <1>1, <1>2 DEF PlanBegin

LEMMA ContextBeginIInv ==
    ASSUME IInv, NEW t \in Threads, ContextBegin(t) PROVE IInv'
  BY GotoStep, PlainPoints DEF ContextBegin, PCs

LEMMA ContextLoadIInv ==
    ASSUME IInv, NEW t \in Threads, ContextLoad(t) PROVE IInv'
<1>1. CASE Return(t)
  BY <1>1, ReturnStep DEF ContextLoad
<1>2. ASSUME NEW after \in {"pl_synth", "idle"},
             Become(t, [th[t] EXCEPT !.pc = "ctx_commit", !.local = plan,
                                     !.after = after])
      PROVE  IInv'
  <2> DEFINE r == [th[t] EXCEPT !.pc = "ctx_commit", !.local = plan,
                                !.after = after]
  <2>1. /\ "ctx_commit" \in PCs /\ plan \in Plan
        /\ after \in PCs /\ after \in Resumable
    BY ThreadFacts DEF PCs, GoodCopy, Resumable
  <2>2. /\ r \in Thread /\ r.pc = "ctx_commit" /\ r.after = after
        /\ r.local = plan /\ r.rows = th[t].rows
    BY <2>1, ThreadFacts DEF Thread
  <2>3. Become(t, r) /\ unchangedRun /\ unchangedEnv
    BY <1>2 DEF ContextLoad
  <2> HIDE DEF r
  <2>4. ThreadOK(r, deps, succeeded, approved, DOMAIN reqs)
    BY <2>1, <2>2, ThreadFacts DEF ThreadOK, NeedsPlan
  <2> QED BY <2>3, <2>4, QuietStep
<1> QED BY <1>1, <1>2 DEF ContextLoad

LEMMA ContextCommitIInv ==
    ASSUME IInv, NEW t \in Threads, ContextCommit(t) PROVE IInv'
<1>1. CASE plan' = plan /\ Return(t)
  BY <1>1, ThreadFacts, IdleOK, RowStep DEF ContextCommit, Return
<1>2. CASE /\ plan' = th[t].local
           /\ Become(t, [Continued(t) EXCEPT !.local = NoPlan])
  <2>1. th[t].after \in {"pl_synth", "idle"}
    BY ThreadFacts DEF ContextCommit, ThreadOK
  <2>2. /\ ThreadOK(Continued(t), deps, succeeded, approved, DOMAIN reqs)
        /\ Continued(t).pc \in Plain
    BY <2>1, ContinuedOK, PlainPoints DEF NeedsPlan
  <2>3. ThreadOK([Continued(t) EXCEPT !.local = NoPlan], deps, succeeded,
                 approved, DOMAIN reqs)
    BY <2>2, EmptyCopy, SwapOK
  <2> QED BY <1>2, <2>3, ThreadFacts, RowStep DEF ContextCommit
<1> QED BY <1>1, <1>2 DEF ContextCommit

LEMMA PlanSynthIInv ==
    ASSUME IInv, NEW t \in Threads, PlanSynth(t) PROVE IInv'
<1>1. CASE Synthesised(t, "pl_write")
  BY <1>1, SynthesisedIInv DEF PlanSynth
<1>2. CASE Return(t) /\ unchangedRun
  BY <1>2, ReturnStep DEF PlanSynth
<1> QED BY <1>1, <1>2 DEF PlanSynth

(* A step that stores the plan a thread holds and goes on to pc.           *)
LEMMA WriteGotoStep ==
    ASSUME IInv, NEW t \in Threads, NEW pc \in PCs, Goto(t, pc), unchangedEnv,
           plan' = th[t].local,
           UNCHANGED <<state, reqs, clock, planned, approved, succeeded>>,
           \/ pc \in Plain
           \/ pc \in NeedsPlan \ {"bg_exec"} /\ th[t].local.id # 0
    PROVE  IInv'
  BY ThreadFacts, GotoOK, RowStep DEF Goto

LEMMA PlanWriteIInv ==
    ASSUME IInv, NEW t \in Threads, PlanWrite(t) PROVE IInv'
<1>1. th[t].local.id # 0
  BY ThreadFacts DEF PlanWrite, ThreadOK, NeedsPlan
<1>2. CASE Goto(t, "pl_expire")
  BY <1>1, <1>2, WriteGotoStep DEF PlanWrite, PCs, NeedsPlan
<1>3. CASE Return(t)
  BY <1>3, ThreadFacts, IdleOK, RowStep DEF PlanWrite, Return
<1> QED BY <1>2, <1>3 DEF PlanWrite

(* The rows with the status of some rewritten.                             *)
Rewritten(S, s) ==
    [i \in DOMAIN reqs |->
        IF i \in S THEN [reqs[i] EXCEPT !.status = s] ELSE reqs[i]]

(* Rewriting a status to anything but APPROVED approves nothing.           *)
LEMMA RowsRewritten ==
    ASSUME reqs \in Seq(Request), NEW S, NEW s \in {"EXPIRED", "REJECTED"}
    PROVE  /\ Rewritten(S, s) \in Seq(Request)
           /\ DOMAIN Rewritten(S, s) = DOMAIN reqs
           /\ \A i \in DOMAIN reqs :
                 Rewritten(S, s)[i].status = "APPROVED" =>
                    Rewritten(S, s)[i] = reqs[i]
<1> DEFINE new == Rewritten(S, s)
<1>1. reqs \in [1..Len(reqs) -> Request] /\ Len(reqs) \in Nat
  OBVIOUS
<1>2. ASSUME NEW i \in DOMAIN reqs
      PROVE  /\ new[i] \in Request
             /\ new[i].status = "APPROVED" => new[i] = reqs[i]
  <2>1. reqs[i] \in Request
    BY <1>1
  <2>2. [reqs[i] EXCEPT !.status = s] \in Request
        /\ [reqs[i] EXCEPT !.status = s].status = s
    BY <2>1 DEF Request, ApprovalStatus
  <2> QED BY <2>1, <2>2 DEF Rewritten
<1>3. DOMAIN new = DOMAIN reqs /\ new = [i \in DOMAIN new |-> new[i]]
  BY DEF Rewritten
<1> HIDE DEF new
<1>4. new \in [1..Len(reqs) -> Request]
  BY <1>1, <1>2, <1>3
<1>5. new \in Seq(Request)
  BY <1>1, <1>4, SeqDef
<1> QED BY <1>2, <1>3, <1>5 DEF new

LEMMA PlanExpireIInv ==
    ASSUME IInv, NEW t \in Threads, PlanExpire(t) PROVE IInv'
<1>1. reqs \in Seq(Request) /\ reqs' = Rewritten(Live, "EXPIRED")
  BY DEF IInv, SharedOK, PlanExpire, Rewritten
<1>2. /\ reqs' \in Seq(Request) /\ DOMAIN reqs' = DOMAIN reqs
      /\ \A i \in DOMAIN reqs' :
            reqs'[i].status = "APPROVED" => reqs'[i] = reqs[i]
  BY <1>1, RowsRewritten
<1>3. th[t].local.id # 0
  BY ThreadFacts DEF PlanExpire, ThreadOK, NeedsPlan
<1>4. "pl_await" \in PCs /\ "pl_await" \in NeedsPlan \ {"bg_exec"}
  BY DEF PCs, NeedsPlan
<1>5. ThreadOK([th[t] EXCEPT !.pc = "pl_await"], deps, succeeded, approved,
               DOMAIN reqs)
  BY <1>3, <1>4, ThreadFacts, GotoOK
<1> QED BY <1>2, <1>5, RowsStep DEF PlanExpire, Goto

LEMMA PlanAwaitIInv ==
    ASSUME IInv, NEW t \in Threads, PlanAwait(t) PROVE IInv'
<1>1. th[t].local.id # 0
  BY ThreadFacts DEF PlanAwait, ThreadOK, NeedsPlan
<1>2. CASE Goto(t, "pl_request")
  BY <1>1, <1>2, GotoStep DEF PlanAwait, PCs, NeedsPlan
<1>3. CASE TransitionTo(t, state, "AWAITING_APPROVAL", "pl_request")
  BY <1>1, <1>3, TransitionStep DEF PlanAwait, Resumable
<1> QED BY <1>2, <1>3 DEF PlanAwait

(* start_plan_execution up to its first commit.                            *)
LEMMA StartStep ==
    ASSUME IInv, NEW t \in Threads, NEW moved \in BOOLEAN,
           StartChecks(t, moved), unchangedRun, unchangedEnv
    PROVE  IInv'
<1>1. CASE Become(t, [Idle EXCEPT !.pc = "bg_load", !.after = "bg_load"])
  BY <1>1, LoopOK, QuietStep
<1>2. CASE Become(t, [Idle EXCEPT !.pc = "st_save",
                                  !.local = EvaluatedPlan(plan)])
  <2>1. GoodCopy(EvaluatedPlan(plan), deps, succeeded)
    BY ThreadFacts, EvaluatedCopy
  <2>2. "st_save" \in PCs /\ "st_save" \in Plain
    BY PlainPoints DEF PCs
  <2>3. ThreadOK([Idle EXCEPT !.pc = "st_save", !.local = EvaluatedPlan(plan)],
                 deps, succeeded, approved, DOMAIN reqs)
    BY <2>1, <2>2, IdleOK, HoldOK
  <2> QED BY <1>2, <2>3, QuietStep
<1>3. CASE Return(t)
  BY <1>3, ReturnStep
<1> QED BY <1>1, <1>2, <1>3 DEF StartChecks

LEMMA ApproveBeginIInv ==
    ASSUME IInv, NEW t \in Threads, ApproveBegin(t) PROVE IInv'
<1>1. CASE Become(t, [th[t] EXCEPT !.pc = "ap_write",
                         !.local = [plan EXCEPT !.status = "APPROVED"]])
  <2> DEFINE p == [plan EXCEPT !.status = "APPROVED"]
  <2>1. GoodCopy(p, deps, succeeded) /\ p.id # 0
    BY ThreadFacts, StatusOnly DEF ApproveBegin, PlanStatus
  <2>2. "ap_write" \in PCs /\ "ap_write" \in NeedsPlan \ {"bg_exec"}
    BY DEF PCs, NeedsPlan
  <2> HIDE DEF p
  <2>3. ThreadOK([th[t] EXCEPT !.pc = "ap_write", !.local = p],
                 deps, succeeded, approved, DOMAIN reqs)
    BY <2>1, <2>2, ThreadFacts, HoldOK
  <2> QED BY <1>1, <2>3, QuietStep DEF ApproveBegin, p
<1>2. CASE \E moved \in BOOLEAN : StartChecks(t, moved)
  BY <1>2, StartStep DEF ApproveBegin
<1> QED BY <1>1, <1>2 DEF ApproveBegin

LEMMA ApproveWriteIInv ==
    ASSUME IInv, NEW t \in Threads, ApproveWrite(t) PROVE IInv'
<1>1. th[t].local.id # 0
  BY ThreadFacts DEF ApproveWrite, ThreadOK, NeedsPlan
<1>2. "ap_find" \in PCs /\ "ap_find" \in NeedsPlan \ {"bg_exec"}
  BY DEF PCs, NeedsPlan
<1> QED BY <1>1, <1>2, WriteGotoStep DEF ApproveWrite

LEMMA ApproveFindIInv ==
    ASSUME IInv, NEW t \in Threads, ApproveFind(t) PROVE IInv'
<1> DEFINE r(i) == [Idle EXCEPT !.pc = "resolve", !.req = i,
                                !.goal = "APPROVED", !.after = "st_load"]
<1>1. reqs \in Seq(Request)
  BY DEF IInv, SharedOK
<1>2. th[t].local.id # 0
  BY ThreadFacts DEF ApproveFind, ThreadOK, NeedsPlan
<1>3. ASSUME NEW rows, NEW i \in rows, i \in Nat
      PROVE  ThreadOK(r(i), deps, succeeded, approved, rows)
  BY <1>3, IdleOK, ResolverOK
<1> HIDE DEF r
<1>4. CASE \E i \in Pending : Become(t, r(i))
  <2>1. PICK i \in Pending : Become(t, r(i))
    BY <1>4
  <2>2. i \in DOMAIN reqs /\ i \in Nat
    BY <1>1 DEF Pending
  <2>3. ThreadOK(r(i), deps, succeeded, approved, DOMAIN reqs)
    BY <1>3, <2>2
  <2> QED BY <2>1, <2>3, QuietStep DEF ApproveFind
<1>5. CASE Goto(t, "ap_create")
  <2>1. "ap_create" \in PCs /\ "ap_create" \in NeedsPlan \ {"bg_exec"}
    BY DEF PCs, NeedsPlan
  <2> QED BY <1>2, <1>5, <2>1, GotoStep DEF ApproveFind
<1>6. CASE Become(t, [Idle EXCEPT !.pc = "st_load"])
  <2>1. "st_load" \in PCs /\ "st_load" \in Plain
    BY PlainPoints DEF PCs
  <2>2. ThreadOK([Idle EXCEPT !.pc = "st_load"], deps, succeeded, approved,
                 DOMAIN reqs)
    BY <2>1, IdleOK, GotoOK
  <2> QED BY <1>6, <2>2, QuietStep DEF ApproveFind
<1> QED BY <1>4, <1>5, <1>6 DEF ApproveFind, r

(* The row made for an approval nobody asked for is pending.               *)
LEMMA ApproveCreateIInv ==
    ASSUME IInv, NEW t \in Threads, ApproveCreate(t) PROVE IInv'
<1> DEFINE q == NewRequest(th[t].local.id)
           i == Len(reqs) + 1
           r == [Idle EXCEPT !.pc = "resolve", !.req = i,
                             !.goal = "APPROVED", !.after = "st_load"]
<1>1. th[t].local.id # 0
  BY ThreadFacts DEF ApproveCreate, ThreadOK, NeedsPlan
<1>2. q \in Request /\ q.status = "PENDING"
  BY <1>1, NewRequestOK
<1>3. /\ reqs' = Append(reqs, q) /\ reqs \in Seq(Request) /\ Become(t, r)
      /\ UNCHANGED <<state, plan, clock, planned, approved, succeeded>>
      /\ unchangedEnv
  BY DEF ApproveCreate, IInv, SharedOK
<1> HIDE DEF q
<1>4. /\ reqs' \in Seq(Request) /\ DOMAIN reqs \subseteq DOMAIN reqs'
      /\ \A j \in DOMAIN reqs' :
            reqs'[j].status = "APPROVED" => /\ j \in DOMAIN reqs
                                           /\ reqs'[j] = reqs[j]
  BY <1>2, <1>3
<1>5. i \in DOMAIN reqs' /\ i \in Nat
  BY <1>3
<1> HIDE DEF i
<1>6. ThreadOK(r, deps, succeeded, approved, DOMAIN reqs')
  BY <1>5, IdleOK, ResolverOK
<1> QED BY <1>3, <1>4, <1>6, RowsStep

(* Approving or rejecting a row keeps the account of the approvals.        *)
LEMMA ResolveIInv ==
    ASSUME IInv, NEW t \in Threads, Resolve(t) PROVE IInv'
<1> DEFINE i == th[t].req
<1>1. /\ i \in DOMAIN reqs
      /\ th[t].after \in {"st_load", "rj_resolve", "aa_load"}
      /\ reqs \in Seq(Request) /\ clock \in Nat /\ approved \subseteq PlanIds
  BY ThreadFacts DEF Resolve, ThreadOK, IInv, SharedOK
<1>2. reqs[i] \in Request /\ reqs[i].pid \in PlanIds
  <2>1. \A j \in DOMAIN reqs : reqs[j] \in Request
    BY <1>1, ElementOfSeq
  <2> QED BY <1>1, <2>1 DEF Request
<1>3. ASSUME NEW q \in Request, reqs' = [reqs EXCEPT ![i] = q]
      PROVE  /\ reqs' \in Seq(Request) /\ DOMAIN reqs' = DOMAIN reqs
             /\ reqs'[i] = q
             /\ \A j \in DOMAIN reqs : j # i => reqs'[j] = reqs[j]
  BY <1>1, <1>3
<1>4. /\ approved \subseteq approved' /\ approved' \subseteq PlanIds
      /\ clock' \in Nat /\ reqs' \in Seq(Request) /\ DOMAIN reqs' = DOMAIN reqs
      /\ ApprovalsKept'
  <2>1. CASE /\ reqs' = [reqs EXCEPT ![i] = [@ EXCEPT !.status = "APPROVED",
                                                      !.at = clock + 1]]
             /\ clock' = clock + 1
             /\ approved' = approved \cup {reqs[i].pid}
    <3> DEFINE q == [reqs[i] EXCEPT !.status = "APPROVED", !.at = clock + 1]
    <3>1. q \in Request /\ q.pid = reqs[i].pid
      <4>1. clock + 1 \in Nat /\ "APPROVED" \in ApprovalStatus
        BY <1>1 DEF ApprovalStatus
      <4> HIDE DEF i
      <4> QED BY <1>2, <4>1 DEF Request
    <3>2. reqs' = [reqs EXCEPT ![i] = q]
      BY <2>1
    <3> HIDE DEF q
    <3>3. /\ reqs' \in Seq(Request) /\ DOMAIN reqs' = DOMAIN reqs
          /\ reqs'[i] = q
          /\ \A j \in DOMAIN reqs : j # i => reqs'[j] = reqs[j]
      BY <1>3, <3>1, <3>2
    <3>4. ApprovalsKept'
      BY <2>1, <3>1, <3>3 DEF ApprovalsKept, IInv, SharedOK
    <3> QED BY <1>1, <1>2, <2>1, <3>3, <3>4
  <2>2. CASE /\ reqs' = [reqs EXCEPT ![i] = [@ EXCEPT !.status = "REJECTED"]]
             /\ UNCHANGED <<clock, approved>>
    <3> DEFINE q == [reqs[i] EXCEPT !.status = "REJECTED"]
    <3>1. q \in Request /\ q.status = "REJECTED"
      BY <1>2 DEF Request, ApprovalStatus
    <3>2. reqs' = [reqs EXCEPT ![i] = q]
      BY <2>2
    <3> HIDE DEF q
    <3>3. /\ reqs' \in Seq(Request) /\ DOMAIN reqs' = DOMAIN reqs
          /\ reqs'[i] = q
          /\ \A j \in DOMAIN reqs : j # i => reqs'[j] = reqs[j]
      BY <1>3, <3>1, <3>2
    <3>4. ApprovalsKept'
      BY <2>2, <3>1, <3>3 DEF ApprovalsKept, IInv, SharedOK
    <3> QED BY <1>1, <2>2, <3>3, <3>4
  <2> QED BY <2>1, <2>2 DEF Resolve
<1>5. ThreadOK(Continued(t), deps, succeeded, approved', DOMAIN reqs')
  <2>1. ThreadOK(Continued(t), deps, succeeded, approved, DOMAIN reqs)
    BY <1>1, ContinuedOK DEF NeedsPlan
  <2> QED BY <1>4, <2>1, ThreadKept
<1>6. /\ Become(t, Continued(t))
      /\ UNCHANGED <<state, plan, planned, succeeded, deps, valid, restarts>>
  BY DEF Resolve, unchangedEnv
<1>7. SharedOK'
  BY <1>4, <1>6 DEF IInv, SharedOK
<1> QED BY <1>4, <1>5, <1>6, <1>7, ThreadStep

LEMMA StartLoadIInv ==
    ASSUME IInv, NEW t \in Threads, StartLoad(t) PROVE IInv'
  BY StartStep DEF StartLoad

LEMMA ExecuteBeginIInv ==
    ASSUME IInv, NEW t \in Threads, ExecuteBegin(t) PROVE IInv'
  BY StartStep DEF ExecuteBegin

LEMMA StartSaveIInv ==
    ASSUME IInv, NEW t \in Threads, StartSave(t) PROVE IInv'
<1>1. "st_transition" \in PCs /\ "st_transition" \in Plain
  BY PlainPoints DEF PCs
<1>2. ThreadOK([Idle EXCEPT !.pc = "st_transition"], deps, succeeded,
               approved, DOMAIN reqs)
  BY <1>1, IdleOK, GotoOK
<1> QED BY <1>2, ThreadFacts, RowStep DEF StartSave

LEMMA StartTransitionIInv ==
    ASSUME IInv, NEW t \in Threads, StartTransition(t) PROVE IInv'
  BY TransitionStep DEF StartTransition, Resumable, NeedsPlan

LEMMA NextBeginIInv ==
    ASSUME IInv, NEW t \in Threads, NextBegin(t) PROVE IInv'
  BY GotoStep, PlainPoints DEF NextBegin, PCs

(* The ends of the executor.                                               *)
LEMMA CompleteRunStep ==
    ASSUME IInv, NEW t \in Threads, NEW from, NEW success,
           CompleteRun(t, from, success), unchangedRun, unchangedEnv
    PROVE  IInv'
<1>1. CASE Return(t)
  BY <1>1, ReturnStep
<1>2. ASSUME NEW to, TransitionTo(t, from, to, "idle") PROVE IInv'
  BY <1>2, TransitionStep DEF Resumable, NeedsPlan
<1> QED BY <1>1, <1>2 DEF CompleteRun

LEMMA RaisedStep ==
    ASSUME IInv, NEW t \in Threads, NEW from, Raised(t, from), unchangedRun,
           unchangedEnv
    PROVE  IInv'
  BY CompleteRunStep, ReturnStep DEF Raised

LEMMA FinishedStep ==
    ASSUME IInv, NEW t \in Threads, Finished(t), unchangedRun, unchangedEnv
    PROVE  IInv'
  BY CompleteRunStep, ReturnStep DEF Finished

(* What the gate lets through was approved.                                *)
LEMMA AuthorizedApproved ==
    ASSUME IInv, NEW p, Authorized(p)
    PROVE  p.status = "APPROVED" /\ p.id \in approved /\ p.id # 0
<1>1. p.id \in approved
  BY DEF IInv, SharedOK, ApprovalsKept, Authorized, IsLatestApproved
<1>2. approved \subseteq PlanIds /\ 0 \notin PlanIds
  BY DEF IInv, SharedOK, PlanIds
<1> QED BY <1>1, <1>2 DEF Authorized

(* A plan copy with one task's status set anew.                            *)
WithStatus(p, k, s) == [p EXCEPT !.tasks[k] = s]

(* It is good if the new status claims nothing that is not so.             *)
LEMMA OneTask ==
    ASSUME NEW p, NEW dp, NEW sc, GoodCopy(p, dp, sc),
           NEW k \in DOMAIN p.tasks, NEW s \in TaskStatus \ {"READY"},
           s = "PASSED" => <<p.id, k>> \in sc
    PROVE  /\ GoodCopy(WithStatus(p, k, s), dp, sc)
           /\ WithStatus(p, k, s).id = p.id
           /\ WithStatus(p, k, s).status = p.status
           /\ DOMAIN WithStatus(p, k, s).tasks = DOMAIN p.tasks
<1> DEFINE f == [p.tasks EXCEPT ![k] = s]
<1>1. p \in Plan /\ p.tasks \in [DOMAIN p.tasks -> TaskStatus]
  BY StatusFunctions DEF GoodCopy, Plan
<1>2. f \in [DOMAIN p.tasks -> TaskStatus]
  BY <1>1
<1>3. ASSUME NEW l \in DOMAIN p.tasks
      PROVE  /\ f[l] = "PASSED" => <<p.id, l>> \in sc
             /\ f[l] = "READY" => \A d \in dp[p.id][l] : <<p.id, d>> \in sc
  BY <1>1 DEF GoodCopy
<1>4. WithStatus(p, k, s) = [p EXCEPT !.tasks = f]
  BY <1>1 DEF Plan, WithStatus
<1>5. DOMAIN f = DOMAIN p.tasks
  OBVIOUS
<1> HIDE DEF f
<1> QED BY <1>2, <1>3, <1>4, <1>5, TasksOnly

(* The selection: the gate and the evaluation make what MayExecute asks.   *)
LEMMA TaskSelectIInv ==
    ASSUME IInv, NEW t \in Threads, TaskSelect(t) PROVE IInv'
<1> DEFINE p == EvaluatedPlan(plan)
           k == FirstReady(p.tasks)
           q == WithStatus(p, k, "RUNNING")
           r == [th[t] EXCEPT !.pc = "bg_exec", !.task = k, !.local = q]
<1>1. unchangedRun /\ unchangedEnv
  BY DEF TaskSelect
<1>2. CASE Raised(t, state)
  BY <1>1, <1>2, RaisedStep
<1>3. CASE Finished(t)
  BY <1>1, <1>3, FinishedStep
<1>4. CASE Authorized(plan) /\ ReadyTasks(p.tasks) # {} /\ Become(t, r)
  <2>1. plan.status = "APPROVED" /\ plan.id \in approved /\ plan.id # 0
    BY <1>4, AuthorizedApproved
  <2>2. GoodCopy(p, deps, succeeded) /\ p.id = plan.id /\ p.status = plan.status
    BY ThreadFacts, EvaluatedCopy
  <2>3. k \in DOMAIN p.tasks /\ p.tasks[k] = "READY" /\ k \in Tasks
    <3>1. DOMAIN p.tasks \subseteq Tasks
      BY <2>2, StatusFunctions DEF GoodCopy, Plan
    <3>2. k \in ReadyTasks(p.tasks)
      BY <1>4, <3>1, TasksAssumption, FirstReadyIsReady
    <3> QED BY <3>1, <3>2 DEF ReadyTasks
  <2>4. \A d \in deps[plan.id][k] : <<plan.id, d>> \in succeeded
    BY <2>2, <2>3 DEF GoodCopy
  <2> HIDE DEF p, k
  <2>5. /\ GoodCopy(q, deps, succeeded) /\ q.id = plan.id
        /\ q.status = "APPROVED" /\ k \in DOMAIN q.tasks
    <3>1. "RUNNING" \in TaskStatus \ {"READY"}
      BY DEF TaskStatus
    <3> QED BY <2>1, <2>2, <2>3, <3>1, OneTask
  <2> HIDE DEF q
  <2>6. /\ r \in Thread /\ r.pc = "bg_exec" /\ r.task = k /\ r.local = q
        /\ r.after = th[t].after /\ r.rows = th[t].rows
    <3>1. q \in Plan /\ "bg_exec" \in PCs
      BY <2>5 DEF GoodCopy, PCs
    <3> QED BY <2>3, <3>1, ThreadFacts DEF Thread
  <2>7. Become(t, r)
    BY <1>4
  <2> HIDE DEF r
  <2>8. ThreadOK(r, deps, succeeded, approved, DOMAIN reqs)
    BY <2>1, <2>4, <2>5, <2>6, ThreadFacts DEF ThreadOK, MayExecute, NeedsPlan
  <2> QED BY <1>1, <2>7, <2>8, QuietStep
<1> QED BY <1>2, <1>3, <1>4 DEF TaskSelect, WithStatus

(* The execution: a success is recorded before the copy claims the pass.   *)
LEMMA TaskExecuteIInv ==
    ASSUME IInv, NEW t \in Threads, TaskExecute(t) PROVE IInv'
<1> DEFINE p == th[t].local
           k == th[t].task
<1>1. /\ GoodCopy(p, deps, succeeded) /\ k \in DOMAIN p.tasks /\ p.id # 0
      /\ p.id \in PlanIds /\ k \in Tasks
  <2>1. /\ GoodCopy(p, deps, succeeded)
        /\ MayExecute(th[t], deps, succeeded, approved)
    BY ThreadFacts DEF TaskExecute, ThreadOK
  <2>2. approved \subseteq PlanIds /\ 0 \notin PlanIds
    BY DEF IInv, SharedOK, PlanIds
  <2>3. DOMAIN p.tasks \subseteq Tasks
    BY <2>1, StatusFunctions DEF GoodCopy, Plan
  <2> QED BY <2>1, <2>2, <2>3 DEF MayExecute
<1>2. ASSUME NEW s \in {"PASSED", "FAILED"}, NEW sc2,
             succeeded \subseteq sc2, s = "PASSED" => <<p.id, k>> \in sc2
      PROVE  /\ GoodCopy(WithResult(p, k, s), deps, sc2)
             /\ WithResult(p, k, s).id = p.id
  <2>1. s \in TaskStatus \ {"READY"}
    BY DEF TaskStatus
  <2>2. /\ GoodCopy(WithStatus(p, k, s), deps, sc2)
        /\ WithStatus(p, k, s).id = p.id
    <3>1. GoodCopy(p, deps, sc2)
      BY <1>1, <1>2, CopyKept
    <3> HIDE DEF p, k
    <3> QED BY <1>1, <1>2, <2>1, <3>1, OneTask
  <2>3. WithResult(p, k, s) = EvaluatedPlan(WithStatus(p, k, s))
    BY DEF WithResult, WithStatus
  <2> QED BY <2>2, <2>3, EvaluatedCopy
<1>3. "bg_write" \in PCs /\ "bg_write" \in NeedsPlan \ {"bg_exec"}
  BY DEF PCs, NeedsPlan
<1>4. /\ UNCHANGED <<state, plan, reqs, clock, planned, approved>>
      /\ unchangedEnv
  BY DEF TaskExecute
<1>5. CASE /\ Become(t, [th[t] EXCEPT !.pc = "bg_write",
                            !.local = WithResult(p, k, "PASSED")])
           /\ succeeded' = succeeded \cup {<<p.id, k>>}
  <2>1. GoodCopy(plan, deps, succeeded')
    BY <1>5, ThreadFacts, CopyKept
  <2>2. SharedOK'
    BY <1>1, <1>4, <1>5, <2>1 DEF IInv, SharedOK, ApprovalsKept, unchangedEnv
  <2>3. GoodCopy(WithResult(p, k, "PASSED"), deps, succeeded')
        /\ WithResult(p, k, "PASSED").id # 0
    BY <1>1, <1>2, <1>5
  <2>4. ThreadOK(th[t], deps, succeeded', approved, DOMAIN reqs)
    BY <1>5, ThreadFacts, ThreadKept
  <2>5. ThreadOK([th[t] EXCEPT !.pc = "bg_write",
                               !.local = WithResult(p, k, "PASSED")],
                 deps, succeeded', approved, DOMAIN reqs)
    BY <1>3, <2>3, <2>4, HoldOK
  <2> QED BY <1>4, <1>5, <2>2, <2>5, ThreadStep DEF unchangedEnv
<1>6. CASE /\ Become(t, [th[t] EXCEPT !.pc = "bg_write", !.failed = TRUE,
                            !.local = WithResult(p, k, "FAILED")])
           /\ UNCHANGED succeeded
  <2> DEFINE q == WithResult(p, k, "FAILED")
             r == [th[t] EXCEPT !.pc = "bg_write", !.failed = TRUE, !.local = q]
  <2>1. GoodCopy(q, deps, succeeded) /\ q.id # 0
    BY <1>1, <1>2
  <2>2. Become(t, r)
    BY <1>6
  <2> HIDE DEF q
  <2>3. /\ r \in Thread /\ r.pc = "bg_write" /\ r.local = q
        /\ r.after = th[t].after /\ r.rows = th[t].rows
    <3>1. q \in Plan
      BY <2>1 DEF GoodCopy
    <3> QED BY <1>3, <3>1, ThreadFacts DEF Thread
  <2> HIDE DEF r
  <2>4. ThreadOK(r, deps, succeeded, approved, DOMAIN reqs)
    BY <2>1, <2>3, ThreadFacts DEF ThreadOK, NeedsPlan
  <2> QED BY <1>4, <1>6, <2>2, <2>4, QuietStep DEF unchangedRun
<1>7. CASE /\ \E from \in {"EXECUTING", state} : Raised(t, from)
           /\ UNCHANGED succeeded
  BY <1>4, <1>7, RaisedStep DEF unchangedRun
<1> QED BY <1>5, <1>6, <1>7 DEF TaskExecute

LEMMA TaskWriteIInv ==
    ASSUME IInv, NEW t \in Threads, TaskWrite(t) PROVE IInv'
<1>1. th[t].failed \in BOOLEAN
  BY ThreadFacts DEF Thread
<1> DEFINE r == IF Looping(t)
                THEN [Idle EXCEPT !.pc = "bg_load", !.after = "bg_load",
                                  !.failed = th[t].failed]
                ELSE Idle
<1>2. ThreadOK(r, deps, succeeded, approved, DOMAIN reqs)
  BY <1>1, LoopOK, IdleOK
<1>3. Become(t, r)
  BY DEF TaskWrite
<1> HIDE DEF r
<1> QED BY <1>2, <1>3, ThreadFacts, RowStep DEF TaskWrite

LEMMA CancelBeginIInv ==
    ASSUME IInv, NEW t \in Threads, CancelBegin(t) PROVE IInv'
  BY GotoStep, PlainPoints DEF CancelBegin, PCs

LEMMA CancelMarkIInv ==
    ASSUME IInv, NEW t \in Threads, CancelMark(t) PROVE IInv'
<1>1. "cx_commit" \in PCs /\ "cx_commit" \in Plain
  BY PlainPoints DEF PCs
<1>2. ThreadOK([th[t] EXCEPT !.pc = "cx_commit", !.local = plan],
               deps, succeeded, approved, DOMAIN reqs)
  BY <1>1, ThreadFacts, HoldOK
<1> QED BY <1>2, QuietStep DEF CancelMark

LEMMA CancelCommitIInv ==
    ASSUME IInv, NEW t \in Threads, CancelCommit(t) PROVE IInv'
<1> DEFINE p == th[t].local
           f == [k \in DOMAIN p.tasks |->
                    IF p.tasks[k] \in {"PENDING", "READY"} THEN "BLOCKED"
                    ELSE p.tasks[k]]
<1>1. GoodCopy(p, deps, succeeded) /\ p.tasks \in [DOMAIN p.tasks -> TaskStatus]
  BY ThreadFacts, StatusFunctions DEF GoodCopy, Plan
<1>2. "BLOCKED" \in TaskStatus
  BY DEF TaskStatus
<1>3. f \in [DOMAIN p.tasks -> TaskStatus]
  BY <1>1, <1>2
<1>4. ASSUME NEW k \in DOMAIN p.tasks
      PROVE  /\ f[k] = "PASSED" => <<p.id, k>> \in succeeded
             /\ f[k] = "READY" =>
                   \A d \in deps[p.id][k] : <<p.id, d>> \in succeeded
  BY <1>1 DEF GoodCopy
<1>5. WithoutOpenTasks(p) = [p EXCEPT !.tasks = f]
  BY DEF WithoutOpenTasks
<1>6. GoodCopy(WithoutOpenTasks(p), deps, succeeded)
  <2> HIDE DEF f
  <2> QED BY <1>1, <1>3, <1>4, <1>5, TasksOnly
<1>7. GoodCopy(plan', deps, succeeded)
  BY <1>6, ThreadFacts DEF CancelCommit
<1>8. state' \in AgentState
  BY DEF CancelCommit, AgentState, Terminal
<1> QED BY <1>7, <1>8, IdleOK, RowStep DEF CancelCommit, Return

LEMMA RejectBeginIInv ==
    ASSUME IInv, NEW t \in Threads, RejectBegin(t) PROVE IInv'
<1>1. CASE Goto(t, "rj_load")
  BY <1>1, GotoStep, PlainPoints DEF RejectBegin, PCs
<1>2. CASE Become(t, [th[t] EXCEPT !.pc = "rj_write",
                         !.local = [plan EXCEPT !.status = "REJECTED"]])
  <2> DEFINE p == [plan EXCEPT !.status = "REJECTED"]
  <2>1. GoodCopy(p, deps, succeeded)
    BY ThreadFacts, StatusOnly DEF PlanStatus
  <2>2. "rj_write" \in PCs /\ "rj_write" \in Plain
    BY PlainPoints DEF PCs
  <2> HIDE DEF p
  <2>3. ThreadOK([th[t] EXCEPT !.pc = "rj_write", !.local = p],
                 deps, succeeded, approved, DOMAIN reqs)
    BY <2>1, <2>2, ThreadFacts, HoldOK
  <2> QED BY <1>2, <2>3, QuietStep DEF RejectBegin, p
<1> QED BY <1>1, <1>2 DEF RejectBegin

LEMMA RejectWriteIInv ==
    ASSUME IInv, NEW t \in Threads, RejectWrite(t) PROVE IInv'
<1>1. "rj_load" \in PCs /\ "rj_load" \in Plain
  BY PlainPoints DEF PCs
<1>2. ThreadOK([Idle EXCEPT !.pc = "rj_load"], deps, succeeded, approved,
               DOMAIN reqs)
  BY <1>1, IdleOK, GotoOK
<1> QED BY <1>2, ThreadFacts, RowStep DEF RejectWrite

(* The next of the rows listed.                                            *)
LEMMA RejectRowsStep ==
    ASSUME IInv, NEW t \in Threads, NEW rows \in SUBSET DOMAIN reqs,
           RejectRows(t, rows), unchangedRun, unchangedEnv
    PROVE  IInv'
<1>1. CASE Goto(t, "rj_transition")
  BY <1>1, GotoStep, PlainPoints DEF PCs
<1>2. CASE Return(t)
  BY <1>2, ReturnStep
<1>3. ASSUME NEW i \in rows,
             Become(t, [th[t] EXCEPT !.pc = "resolve", !.req = i,
                           !.rows = rows \ {i}, !.goal = "REJECTED",
                           !.after = "rj_resolve"])
      PROVE  IInv'
  <2> DEFINE r == [th[t] EXCEPT !.pc = "resolve", !.req = i,
                      !.rows = rows \ {i}, !.goal = "REJECTED",
                      !.after = "rj_resolve"]
  <2>1. DOMAIN reqs \subseteq Nat
    BY DEF IInv, SharedOK
  <2>2. "resolve" \in PCs /\ "rj_resolve" \in PCs /\ "rj_resolve" \in Resumable
    BY DEF PCs, Resumable
  <2>3. /\ r \in Thread /\ r.pc = "resolve" /\ r.req = i
        /\ r.rows = rows \ {i} /\ r.goal = "REJECTED"
        /\ r.after = "rj_resolve" /\ r.local = th[t].local
    BY <2>1, <2>2, ThreadFacts DEF Thread
  <2> HIDE DEF r
  <2>4. ThreadOK(r, deps, succeeded, approved, DOMAIN reqs)
    BY <2>2, <2>3, ThreadFacts DEF ThreadOK, NeedsPlan
  <2> QED BY <1>3, <2>4, QuietStep DEF r
<1> QED BY <1>1, <1>2, <1>3 DEF RejectRows

LEMMA RejectLoadIInv ==
    ASSUME IInv, NEW t \in Threads, RejectLoad(t) PROVE IInv'
<1>1. Pending \in SUBSET DOMAIN reqs
  BY DEF Pending
<1> QED BY <1>1, RejectRowsStep DEF RejectLoad

LEMMA RejectResolveIInv ==
    ASSUME IInv, NEW t \in Threads, RejectResolve(t) PROVE IInv'
<1>1. th[t].rows \in SUBSET DOMAIN reqs
  BY ThreadFacts DEF ThreadOK
<1> QED BY <1>1, RejectRowsStep DEF RejectResolve

LEMMA RejectTransitionIInv ==
    ASSUME IInv, NEW t \in Threads, RejectTransition(t) PROVE IInv'
  BY TransitionStep DEF RejectTransition, Resumable, NeedsPlan

LEMMA ActionBeginIInv ==
    ASSUME IInv, NEW t \in Threads, ActionBegin(t) PROVE IInv'
<1>1. PICK i \in Pending, verdict \in {"APPROVED", "REJECTED"} :
         Become(t, [th[t] EXCEPT !.pc = "resolve", !.req = i,
                                 !.goal = verdict, !.after = "aa_load"])
  BY DEF ActionBegin
<1>2. reqs \in Seq(Request)
  BY DEF IInv, SharedOK
<1>3. i \in DOMAIN reqs /\ i \in Nat
  BY <1>2 DEF Pending
<1>4. ThreadOK([th[t] EXCEPT !.pc = "resolve", !.req = i, !.goal = verdict,
                             !.after = "aa_load"],
               deps, succeeded, approved, DOMAIN reqs)
  BY <1>3, ThreadFacts, ResolverOK
<1> QED BY <1>1, <1>4, QuietStep DEF ActionBegin

LEMMA ActionLoadIInv ==
    ASSUME IInv, NEW t \in Threads, ActionLoad(t) PROVE IInv'
  BY ReturnStep, TransitionStep DEF ActionLoad, Resumable, NeedsPlan

LEMMA TransitionBeginIInv ==
    ASSUME IInv, NEW t \in Threads, TransitionBegin(t) PROVE IInv'
  BY TransitionStep DEF TransitionBegin, Resumable, NeedsPlan

LEMMA RestartIInv == ASSUME IInv, Restart PROVE IInv'
<1>1. /\ UNCHANGED <<plan, reqs, clock, deps, valid, planned, approved,
                     succeeded>>
      /\ restarts' \in 0..MaxRestarts /\ state' \in AgentState
      /\ th' = [t \in Threads |-> Idle]
  <2>1. state \in AgentState /\ restarts \in 0..MaxRestarts
    BY DEF IInv, SharedOK
  <2>2. "FAILED" \in AgentState
    BY DEF AgentState, Terminal
  <2>3. restarts' \in 0..MaxRestarts
    BY <2>1, BoundsAssumption DEF Restart
  <2> QED BY <2>1, <2>2, <2>3 DEF Restart
<1>2. SharedOK'
  BY <1>1 DEF IInv, SharedOK, ApprovalsKept
<1>3. ThreadOK(Idle, deps', succeeded', approved', DOMAIN reqs')
      /\ Idle \in Thread
  BY IdleOK DEF ThreadOK
<1> QED BY <1>1, <1>2, <1>3 DEF IInv
-----------------------------------------------------------------------------
(* The invariant of every run.                                             *)

LEMMA InitIInv == Init => IInv
<1> SUFFICES ASSUME Init PROVE IInv
  OBVIOUS
<1>1. SharedOK
  <2>1. GoodCopy(plan, deps, succeeded)
    BY EmptyCopy DEF Init
  <2>2. reqs \in Seq(Request) /\ ApprovalsKept
    BY DEF Init, ApprovalsKept
  <2> QED BY <2>1, <2>2, BoundsAssumption DEF Init, SharedOK, AgentState
<1>2. ThreadOK([Idle EXCEPT !.pc = "create"], deps, succeeded, approved,
               DOMAIN reqs)
  <2>1. "create" \in PCs /\ "create" \in Plain
    BY DEF PCs, Plain, NeedsPlan
  <2> QED BY <2>1, IdleOK, GotoOK
<1>3. ThreadOK(Idle, deps, succeeded, approved, DOMAIN reqs)
  BY IdleOK
<1>4. [Idle EXCEPT !.pc = "create"] \in Thread /\ Idle \in Thread
  BY <1>2, <1>3 DEF ThreadOK
<1>5. PICK c \in Threads :
         th = [t \in Threads |->
                  IF t = c THEN [Idle EXCEPT !.pc = "create"] ELSE Idle]
  BY DEF Init
<1> DEFINE first == [Idle EXCEPT !.pc = "create"]
<1> HIDE DEF first
<1>6. \A t \in Threads : th[t] = first \/ th[t] = Idle
  BY <1>5 DEF first
<1>7. th \in [Threads -> Thread]
  BY <1>4, <1>5
<1> QED BY <1>1, <1>2, <1>3, <1>6, <1>7 DEF IInv, first

LEMMA BeginIInv ==
    ASSUME IInv, NEW t \in Threads, Begin(t) PROVE IInv'
  BY PlanBeginIInv, ContextBeginIInv, ApproveBeginIInv, ExecuteBeginIInv,
     NextBeginIInv, CancelBeginIInv, RejectBeginIInv, TransitionBeginIInv,
     ActionBeginIInv DEF Begin

LEMMA ServeIInv ==
    ASSUME IInv, NEW t \in Threads, Serve(t) PROVE IInv'
<1>1. CASE \/ Commit(t) \/ Create(t) \/ GraphEnter(t) \/ SyncLoad(t)
           \/ SyncCommit(t) \/ GraphRoute(t) \/ GraphSynth(t)
           \/ GraphWrite(t) \/ GraphInfo(t) \/ GraphAwait(t) \/ GraphError(t)
  BY <1>1, CommitIInv, CreateIInv, GraphEnterIInv, SyncLoadIInv,
     SyncCommitIInv, GraphRouteIInv, GraphSynthIInv, GraphWriteIInv,
     GraphInfoIInv, GraphAwaitIInv, GraphErrorIInv
<1>2. CASE \/ RequestApproval(t) \/ ContextLoad(t) \/ ContextCommit(t)
           \/ PlanSynth(t) \/ PlanWrite(t) \/ PlanExpire(t) \/ PlanAwait(t)
           \/ ApproveWrite(t) \/ ApproveFind(t) \/ ApproveCreate(t)
           \/ Resolve(t)
  BY <1>2, RequestApprovalIInv, ContextLoadIInv, ContextCommitIInv,
     PlanSynthIInv, PlanWriteIInv, PlanExpireIInv, PlanAwaitIInv,
     ApproveWriteIInv, ApproveFindIInv, ApproveCreateIInv, ResolveIInv
<1>3. CASE \/ StartLoad(t) \/ StartSave(t) \/ StartTransition(t)
           \/ TaskSelect(t) \/ TaskExecute(t) \/ TaskWrite(t)
           \/ CancelMark(t) \/ CancelCommit(t) \/ RejectWrite(t)
           \/ RejectLoad(t) \/ RejectResolve(t) \/ RejectTransition(t)
           \/ ActionLoad(t)
  BY <1>3, StartLoadIInv, StartSaveIInv, StartTransitionIInv,
     TaskSelectIInv, TaskExecuteIInv, TaskWriteIInv, CancelMarkIInv,
     CancelCommitIInv, RejectWriteIInv, RejectLoadIInv, RejectResolveIInv,
     RejectTransitionIInv, ActionLoadIInv
<1> QED BY <1>1, <1>2, <1>3 DEF Serve

LEMMA StutterIInv == ASSUME IInv, UNCHANGED vars PROVE IInv'
<1>1. UNCHANGED <<state, plan, reqs, clock, deps, valid, planned, restarts,
                  th, approved, succeeded>>
  BY DEF vars
<1>2. SharedOK'
  BY <1>1 DEF IInv, SharedOK, ApprovalsKept
<1> QED BY <1>1, <1>2 DEF IInv

LEMMA StepIInv == IInv /\ [Next]_vars => IInv'
<1> SUFFICES ASSUME IInv, [Next]_vars PROVE IInv'
  OBVIOUS
<1>1. CASE Restart
  BY <1>1, RestartIInv
<1>2. ASSUME NEW t \in Threads, Begin(t) \/ Serve(t) PROVE IInv'
  BY <1>2, BeginIInv, ServeIInv
<1>3. CASE UNCHANGED vars
  BY <1>3, StutterIInv
<1> QED BY <1>1, <1>2, <1>3 DEF Next

(* The inductive invariant holds in every behaviour: every plan copy, the  *)
(* stored one and the threads', claims only what was once earned.          *)
THEOREM Invariance == Safety => []IInv
<1> QED BY InitIInv, StepIInv, PTL DEF Safety

(* Types: every row, plan copy and thread stays well formed, whatever is   *)
(* written back and whenever.                                              *)
THEOREM TypeCorrect == Safety => []TypeOK
<1>1. IInv => TypeOK
  BY DEF IInv, SharedOK, GoodCopy, TypeOK
<1> QED BY <1>1, Invariance, PTL

(* The authorisation gate: assert_execution_authorized lets no task run    *)
(* under a plan that was never approved, although approve_plan may mark a  *)
(* plan APPROVED on another plan's request and every handler may write     *)
(* back a plan it read long before.                                        *)
THEOREM OnlyApprovedExecute == Safety => []ExecutesOnlyApproved
<1>1. IInv => ExecutesOnlyApproved
  BY DEF IInv, ThreadOK, MayExecute, ExecutesOnlyApproved
<1> QED BY <1>1, Invariance, PTL

(* Execution order: whatever task execute_next_task runs, every task its   *)
(* plan makes it depend on was executed with success under the same plan.  *)
THEOREM OrderOfExecution == Safety => []ExecutesInOrder
<1>1. IInv => ExecutesInOrder
  BY DEF IInv, ThreadOK, MayExecute, ExecutesInOrder
<1> QED BY <1>1, Invariance, PTL

(* No lie about results: the plan stored in the run's row never claims a   *)
(* task PASSED that was not executed with success under that plan.         *)
THEOREM PassesEarned == Safety => []PassedMeansExecuted
<1>1. IInv => PassedMeansExecuted
  BY DEF IInv, SharedOK, GoodCopy, PassedMeansExecuted
<1> QED BY <1>1, Invariance, PTL
-----------------------------------------------------------------------------
(* Refinement: a run implements GatedExecution.                            *)

(* What the abstraction speaks of only changes when a row is resolved or a *)
(* task is executed.                                                       *)
LEMMA BeginKeepsGate ==
    ASSUME NEW t \in Threads, Begin(t)
    PROVE  UNCHANGED <<deps, approved, succeeded>>
  BY DEF Begin, PlanBegin, ContextBegin, ApproveBegin, ExecuteBegin,
         NextBegin, CancelBegin, RejectBegin, TransitionBegin, ActionBegin,
         unchangedRun, unchangedEnv

LEMMA ServeKeepsGate ==
    ASSUME NEW t \in Threads, Serve(t)
    PROVE  \/ UNCHANGED <<deps, approved, succeeded>>
           \/ Resolve(t) \/ TaskExecute(t)
<1>1. CASE \/ Commit(t) \/ Create(t) \/ GraphEnter(t) \/ SyncLoad(t)
           \/ SyncCommit(t) \/ GraphRoute(t) \/ GraphSynth(t)
           \/ GraphWrite(t) \/ GraphInfo(t) \/ GraphAwait(t) \/ GraphError(t)
  BY <1>1 DEF Commit, Create, GraphEnter, SyncLoad, SyncCommit, GraphRoute,
              GraphSynth, GraphWrite, GraphInfo, GraphAwait, GraphError,
              Synthesised, unchangedRun, unchangedEnv
<1>2. CASE \/ RequestApproval(t) \/ ContextLoad(t) \/ ContextCommit(t)
           \/ PlanSynth(t) \/ PlanWrite(t) \/ PlanExpire(t) \/ PlanAwait(t)
           \/ ApproveWrite(t) \/ ApproveFind(t) \/ ApproveCreate(t)
  BY <1>2 DEF RequestApproval, ContextLoad, ContextCommit, PlanSynth,
              PlanWrite, PlanExpire, PlanAwait, ApproveWrite, ApproveFind,
              ApproveCreate, Synthesised, unchangedRun, unchangedEnv
<1>3. CASE \/ StartLoad(t) \/ StartSave(t) \/ StartTransition(t)
           \/ TaskSelect(t) \/ TaskWrite(t) \/ CancelMark(t)
           \/ CancelCommit(t) \/ RejectWrite(t) \/ RejectLoad(t)
           \/ RejectResolve(t) \/ RejectTransition(t) \/ ActionLoad(t)
  BY <1>3 DEF StartLoad, StartSave, StartTransition, TaskSelect, TaskWrite,
              CancelMark, CancelCommit, RejectWrite, RejectLoad,
              RejectResolve, RejectTransition, ActionLoad, unchangedRun,
              unchangedEnv
<1> QED BY <1>1, <1>2, <1>3 DEF Serve

LEMMA ResolveIsGrant ==
    ASSUME IInv, NEW t \in Threads, Resolve(t)
    PROVE  [Gate!Next]_<<deps, approved, succeeded>>
<1> DEFINE p == reqs[th[t].req].pid
<1>1. p \in PlanIds
  <2>1. reqs \in Seq(Request) /\ th[t].req \in DOMAIN reqs
    BY ThreadFacts DEF Resolve, ThreadOK, IInv, SharedOK
  <2>2. reqs[th[t].req] \in Request
    BY <2>1, ElementOfSeq
  <2> QED BY <2>2 DEF Request
<1>2. deps' = deps /\ succeeded' = succeeded
      /\ (approved' = approved \/ approved' = approved \cup {p})
  BY DEF Resolve, unchangedEnv
<1>3. approved' = approved \cup {p} => Gate!Grant(p)
  BY <1>2 DEF Gate!Grant
<1> QED BY <1>1, <1>2, <1>3 DEF Gate!Next

LEMMA ExecuteIsPerform ==
    ASSUME IInv, NEW t \in Threads, TaskExecute(t)
    PROVE  [Gate!Next]_<<deps, approved, succeeded>>
<1> DEFINE p == th[t].local.id
           k == th[t].task
<1>1. /\ p \in approved /\ \A d \in deps[p][k] : <<p, d>> \in succeeded
      /\ k \in DOMAIN th[t].local.tasks
      /\ GoodCopy(th[t].local, deps, succeeded)
  BY ThreadFacts DEF TaskExecute, ThreadOK, MayExecute
<1>2. p \in PlanIds /\ p # 0
  <2>1. approved \subseteq PlanIds /\ 0 \notin PlanIds
    BY DEF IInv, SharedOK, PlanIds
  <2> QED BY <1>1, <2>1
<1>3. k \in DOMAIN deps[p] /\ k \in Tasks
  BY <1>1, <1>2, StatusFunctions DEF GoodCopy, Plan
<1>4. deps' = deps /\ approved' = approved
      /\ (succeeded' = succeeded \/ succeeded' = succeeded \cup {<<p, k>>})
  BY DEF TaskExecute, unchangedEnv
<1>5. succeeded' = succeeded \cup {<<p, k>>} => Gate!Perform(p, k)
  BY <1>1, <1>3, <1>4 DEF Gate!Perform
<1> QED BY <1>2, <1>3, <1>4, <1>5 DEF Gate!Next

LEMMA GateStep == IInv /\ [Next]_vars => [Gate!Next]_<<deps, approved, succeeded>>
<1> SUFFICES ASSUME IInv, [Next]_vars
             PROVE  [Gate!Next]_<<deps, approved, succeeded>>
  OBVIOUS
<1>1. CASE Restart
  BY <1>1 DEF Restart
<1>2. ASSUME NEW t \in Threads, Begin(t)
      PROVE  [Gate!Next]_<<deps, approved, succeeded>>
  BY <1>2, BeginKeepsGate
<1>3. ASSUME NEW t \in Threads, Serve(t)
      PROVE  [Gate!Next]_<<deps, approved, succeeded>>
  BY <1>3, ServeKeepsGate, ResolveIsGrant, ExecuteIsPerform
<1>4. CASE UNCHANGED vars
  BY <1>4 DEF vars
<1> QED BY <1>1, <1>2, <1>3, <1>4 DEF Next

(* A run implements its promise about effects: seen as grants and          *)
(* performed tasks, every behaviour of the run, with all its threads,      *)
(* stale write-backs and restarts, is one of GatedExecution.               *)
THEOREM GateRefinement == Safety => GateSafety
<1>1. Init => Gate!Init
  BY DEF Init, Gate!Init
<1>2. IInv /\ [Next]_vars => [Gate!Next]_(Gate!vars)
  BY GateStep DEF Gate!vars
<1> QED BY <1>1, <1>2, Invariance, PTL DEF Safety, GateSafety, Gate!Spec
-----------------------------------------------------------------------------
(* What holds as long as requests about the run come one at a time: one    *)
(* thread serves them.  What it read when its handler began is then still  *)
(* there when the handler writes, so that a handler may take apart what    *)
(* holds between requests as long as it restores it before it returns.     *)

(* Requests about the run come one at a time.                              *)
OneAtATime == \A t, u \in Threads : t = u

(* The thread that changes the run's state or refuses to knows the state   *)
(* it is in.                                                               *)
StateKnown(r, st) ==
    /\ r.pc \in {"commit", "cx_mark", "cx_commit"} => st \notin Terminal
    /\ r.pc = "commit" => r.after \notin {"g_route", "g_await"}
    /\ r.pc \in {"sync", "sync_commit", "g_route", "g_synth", "g_write",
                 "g_error"} => r.entered = st
    /\ r.pc = "bg_exec" => st = "EXECUTING"

(* The steps between making a plan and asking for its approval.            *)
Asking(r) ==
    \/ r.pc \in {"pl_await", "pl_request", "g_await", "g_request"}
    \/ r.pc = "commit" /\ r.after \in {"pl_request", "g_request"}

(* A copy a thread holds is a copy of the stored plan until the thread     *)
(* stores a new one.                                                       *)
CopyCurrent(r, p, n) ==
    /\ p.id <= n /\ r.local.id <= n
    /\ r.pc \in {"g_write", "pl_write"} => r.local.id # p.id
    /\ r.pc \in {"sync_commit", "ctx_commit", "cx_commit"} => r.local = p
    /\ r.pc \in {"ap_write", "st_save", "bg_exec", "bg_write"} =>
          p.status # "REJECTED"
    /\ r.pc = "rj_write" => r.local.status = "REJECTED"
    /\ \/ Asking(r)
       \/ r.pc \in {"pl_expire", "ap_write", "ap_find", "ap_create",
                    "st_save", "bg_exec", "bg_write", "rj_write"}
       => r.local.id = p.id

(* A plan copy records every success of its plan.                          *)
Records(p, sc) ==
    \A k \in Tasks : <<p.id, k>> \in sc =>
        k \in DOMAIN p.tasks /\ p.tasks[k] = "PASSED"

(* What an execution brought is in every copy, but for the row while the   *)
(* last result waits to be written; plans that ran were synthesised.       *)
RecordsKept(r, p, n, sc) ==
    /\ \A i \in PlanIds, k \in Tasks : <<i, k>> \in sc => i <= n
    /\ Records(r.local, sc)
    /\ r.pc # "bg_write" => Records(p, sc)
    /\ r.pc = "bg_exec" => r.local.tasks[r.task] = "RUNNING"

LiveRows(rq) == {i \in DOMAIN rq : rq[i].status \in {"PENDING", "APPROVED"}}

(* A request that is live is the only one, and about the stored plan; and  *)
(* there is none when the next one is made.                                *)
OneLive(r, p, rq) ==
    /\ \A i, j \in LiveRows(rq) : i = j
    /\ r.pc # "pl_expire" /\ p.id # 0 /\ valid[p.id] =>
          \A i \in LiveRows(rq) : rq[i].pid = p.id
    /\ \/ Asking(r)
       \/ r.pc \in {"create", "g_enter", "sync", "sync_commit", "g_route",
                    "g_synth", "g_write", "ap_create"}
       \/ r.pc = "commit" /\ r.after = "g_enter"
       => LiveRows(rq) = {}
    /\ r.pc = "resolve" => rq[r.req].status = "PENDING"

(* A restart may cut a request short: what a request takes apart before it *)
(* puts it together again is then not claimed.                             *)
ThreadSeq(r, st, p, rq, n, sc, rs) ==
    /\ StateKnown(r, st)
    /\ CopyCurrent(r, p, n)
    /\ rs = 0 => RecordsKept(r, p, n, sc) /\ OneLive(r, p, rq)

SeqInv ==
    \A t \in Threads :
        ThreadSeq(th[t], state, plan, reqs, planned, succeeded, restarts)

(* The one thread moves.                                                   *)
LEMMA SeqStep ==
    ASSUME IInv, OneAtATime, NEW t \in Threads, NEW r, Become(t, r),
           unchangedEnv,
           ThreadSeq(r, state', plan', reqs', planned', succeeded', restarts)
    PROVE  SeqInv'
<1>1. \A u \in Threads : th'[u] = r
  BY DEF IInv, OneAtATime, Become
<1> QED BY <1>1 DEF SeqInv, unchangedEnv, ThreadSeq, OneLive

LEMMA SeqFacts ==
    ASSUME IInv, SeqInv, NEW t \in Threads
    PROVE  /\ ThreadSeq(th[t], state, plan, reqs, planned, succeeded, restarts)
           /\ th[t] \in Thread
           /\ plan \in Plan /\ th[t].local \in Plan
           /\ planned \in Nat
           /\ th[t].after \in Resumable
  BY BoundsAssumption DEF SeqInv, IInv, SharedOK, ThreadOK, GoodCopy

(* No task was executed under no plan.                                     *)
LEMMA NoPlanSeq ==
    ASSUME IInv
    PROVE  NoPlan.id = 0 /\ Records(NoPlan, succeeded)
<1>1. NoPlan.id = 0
  BY DEF NoPlan
<1>2. succeeded \subseteq PlanIds \X Tasks /\ 0 \notin PlanIds
  BY DEF IInv, SharedOK, PlanIds
<1> QED BY <1>1, <1>2 DEF Records

(* The points where a request rests on nothing but the row.                *)
Free == {"idle", "g_info", "ctx", "pl_ctx", "pl_synth", "st_load",
         "st_transition", "bg_load", "rj_load", "rj_resolve", "rj_transition",
         "aa_load"}

(* What holds of the row and the approvals between two requests.           *)
RowSeq(p, rq, n, sc, rs) ==
    /\ p.id <= n
    /\ rs = 0 =>
          /\ \A i \in PlanIds, k \in Tasks : <<i, k>> \in sc => i <= n
          /\ Records(p, sc)
          /\ \A i, j \in LiveRows(rq) : i = j
          /\ p.id # 0 /\ valid[p.id] =>
                \A i \in LiveRows(rq) : rq[i].pid = p.id

LEMMA RowSeqKept ==
    ASSUME NEW r, NEW st, NEW p, NEW rq, NEW n, NEW sc, NEW rs,
           ThreadSeq(r, st, p, rq, n, sc, rs),
           r.pc \notin {"bg_write", "pl_expire"}
    PROVE  RowSeq(p, rq, n, sc, rs)
  BY DEF RowSeq, ThreadSeq, CopyCurrent, RecordsKept, OneLive

LEMMA FreeSeq ==
    ASSUME NEW r, NEW st, NEW p, NEW rq, NEW n, NEW sc, NEW rs,
           RowSeq(p, rq, n, sc, rs), r.pc \in Free, r.local.id <= n,
           rs = 0 => Records(r.local, sc)
    PROVE  ThreadSeq(r, st, p, rq, n, sc, rs)
  BY DEF RowSeq, Free, ThreadSeq, StateKnown, CopyCurrent, RecordsKept,
     OneLive, Asking

LEMMA IdleSeq ==
    ASSUME IInv, NEW st, NEW p, NEW rq,
           RowSeq(p, rq, planned, succeeded, restarts)
    PROVE  ThreadSeq(Idle, st, p, rq, planned, succeeded, restarts)
<1>1. planned \in Nat
  BY BoundsAssumption DEF IInv, SharedOK
<1> QED BY <1>1, NoPlanSeq, IdleOK, FreeSeq DEF Free

(* The end of a request.                                                   *)
LEMMA ReturnSeq ==
    ASSUME IInv, SeqInv, OneAtATime, NEW t \in Threads, Return(t),
           unchangedRun, unchangedEnv,
           th[t].pc \notin {"bg_write", "pl_expire"}
    PROVE  SeqInv'
<1>1. RowSeq(plan, reqs, planned, succeeded, restarts)
  BY SeqFacts, RowSeqKept
<1>2. ThreadSeq(Idle, state, plan, reqs, planned, succeeded, restarts)
  BY <1>1, IdleSeq
<1> QED BY <1>2, SeqStep DEF Return, unchangedRun

(* transition_state's first half, called with the state the run is in.     *)
LEMMA TransitionSeq ==
    ASSUME IInv, SeqInv, OneAtATime, NEW t \in Threads, NEW to, NEW then,
           TransitionTo(t, state, to, then), unchangedRun, unchangedEnv,
           then \in Resumable \ {"g_route", "g_await"},
           th[t].pc \notin {"bg_write", "pl_expire"},
           then \in {"pl_request", "g_request"} => Asking(th[t]),
           then = "g_enter" => th[t].pc = "create"
    PROVE  SeqInv'
<1>1. CASE Return(t)
  BY <1>1, ReturnSeq
<1>2. CASE /\ <<state, to>> \in ValidTransitions
           /\ Become(t, [th[t] EXCEPT !.pc = "commit", !.goal = to,
                                      !.after = then])
  <2> DEFINE r == [th[t] EXCEPT !.pc = "commit", !.goal = to, !.after = then]
  <2>1. /\ r.pc = "commit" /\ r.after = then /\ r.local = th[t].local
    BY SeqFacts DEF Thread
  <2>2. state \notin Terminal
    BY <1>2 DEF ValidTransitions, Terminal
  <2> HIDE DEF r
  <2>3. ThreadSeq(r, state, plan, reqs, planned, succeeded, restarts)
    BY <2>1, <2>2, SeqFacts
       DEF Resumable, ThreadSeq, StateKnown, CopyCurrent, RecordsKept, OneLive,
           Asking
  <2> QED BY <1>2, <2>3, SeqStep DEF unchangedRun, r
<1> QED BY <1>1, <1>2 DEF TransitionTo

(* A step that loads and decides.                                          *)
LEMMA QuietSeq ==
    ASSUME IInv, OneAtATime, NEW t \in Threads, NEW r, Become(t, r),
           unchangedRun, unchangedEnv,
           ThreadSeq(r, state, plan, reqs, planned, succeeded, restarts)
    PROVE  SeqInv'
  BY SeqStep DEF unchangedRun

(* A step that writes the run's row.                                       *)
LEMMA WriteSeq ==
    ASSUME IInv, OneAtATime, NEW t \in Threads, NEW r, Become(t, r),
           UNCHANGED <<reqs, clock, planned, approved, succeeded>>,
           unchangedEnv,
           ThreadSeq(r, state', plan', reqs, planned, succeeded, restarts)
    PROVE  SeqInv'
  BY SeqStep

LEMMA GotoSeq ==
    ASSUME IInv, SeqInv, OneAtATime, NEW t \in Threads, NEW pc \in Free,
           Goto(t, pc), unchangedRun, unchangedEnv,
           th[t].pc \notin {"bg_write", "pl_expire"}
    PROVE  SeqInv'
<1> DEFINE r == [th[t] EXCEPT !.pc = pc]
<1>1. r.pc = pc /\ r.local = th[t].local
  BY SeqFacts DEF Thread
<1> HIDE DEF r
<1>2. RowSeq(plan, reqs, planned, succeeded, restarts)
  BY SeqFacts, RowSeqKept
<1>3. /\ th[t].local.id <= planned
      /\ restarts = 0 => Records(th[t].local, succeeded)
  BY SeqFacts DEF ThreadSeq, CopyCurrent, RecordsKept
<1>4. ThreadSeq(r, state, plan, reqs, planned, succeeded, restarts)
  BY <1>1, <1>2, <1>3, FreeSeq
<1> QED BY <1>4, QuietSeq DEF Goto, r

(* Where a step ends that several handlers share.                          *)
LEMMA ContinuedSeq ==
    ASSUME NEW t \in Threads
    PROVE  \/ /\ th[t].after = "idle" /\ Continued(t) = Idle
           \/ /\ Continued(t).pc = th[t].after
              /\ Continued(t).after = th[t].after
              /\ Continued(t).local = th[t].local
              /\ Continued(t).entered = th[t].entered
  BY DEF Continued, Idle

LEMMA CommitSeq ==
    ASSUME IInv, SeqInv, OneAtATime, NEW t \in Threads, Commit(t) PROVE SeqInv'
<1>1. RowSeq(plan, reqs, planned, succeeded, restarts)
  BY SeqFacts, RowSeqKept DEF Commit
<1>2. CASE Continued(t) = Idle
  BY <1>1, <1>2, IdleSeq, WriteSeq DEF Commit
<1>3. CASE /\ Continued(t).pc = th[t].after
           /\ Continued(t).after = th[t].after
           /\ Continued(t).local = th[t].local
           /\ Continued(t).entered = th[t].entered
  <2> DEFINE r == Continued(t)
  <2> HIDE DEF r
  <2>1. r.pc = th[t].after /\ r.local = th[t].local
    BY <1>3 DEF r
  <2>2. r.pc \in Resumable \ {"g_route", "g_await"}
    BY <2>1, SeqFacts DEF Commit, ThreadSeq, StateKnown
  <2>3. /\ Asking(r) => Asking(th[t])
        /\ r.pc = "g_enter" => th[t].pc = "commit" /\ th[t].after = "g_enter"
    BY <2>1, <2>2 DEF Commit, Resumable, Asking
  <2>4. StateKnown(r, state')
    BY <2>2 DEF Resumable, StateKnown
  <2>5. CopyCurrent(r, plan, planned)
    <3>1. CopyCurrent(th[t], plan, planned)
      BY SeqFacts DEF ThreadSeq
    <3> QED BY <2>1, <2>2, <2>3, <3>1 DEF Resumable, CopyCurrent
  <2>6. restarts = 0 => RecordsKept(r, plan, planned, succeeded)
    BY <2>1, <2>2, SeqFacts DEF Commit, Resumable, ThreadSeq, RecordsKept
  <2>7. restarts = 0 => OneLive(r, plan, reqs)
    <3>1. restarts = 0 => OneLive(th[t], plan, reqs)
      BY SeqFacts DEF ThreadSeq
    <3> QED BY <2>2, <2>3, <3>1 DEF Commit, Resumable, OneLive
  <2> QED
    BY <2>4, <2>5, <2>6, <2>7, WriteSeq DEF Commit, ThreadSeq, r
<1> QED BY <1>2, <1>3, ContinuedSeq

LEMMA CreateSeq ==
    ASSUME IInv, SeqInv, OneAtATime, NEW t \in Threads, Create(t) PROVE SeqInv'
  BY TransitionSeq DEF Create, Resumable

LEMMA GraphEnterSeq ==
    ASSUME IInv, SeqInv, OneAtATime, NEW t \in Threads, GraphEnter(t)
    PROVE  SeqInv'
<1> DEFINE r == [th[t] EXCEPT !.pc = "sync", !.after = "g_route",
                              !.entered = state]
<1>1. r.pc = "sync" /\ r.local = th[t].local /\ r.entered = state
  BY SeqFacts DEF Thread
<1> HIDE DEF r
<1>2. ThreadSeq(r, state, plan, reqs, planned, succeeded, restarts)
  BY <1>1, SeqFacts
     DEF GraphEnter, ThreadSeq, StateKnown, CopyCurrent, RecordsKept, OneLive,
         Asking
<1> QED BY <1>2, QuietSeq DEF GraphEnter, r

LEMMA SyncLoadSeq ==
    ASSUME IInv, SeqInv, OneAtATime, NEW t \in Threads, SyncLoad(t)
    PROVE  SeqInv'
<1> DEFINE r == [th[t] EXCEPT !.pc = "sync_commit", !.local = plan]
<1>1. r.pc = "sync_commit" /\ r.local = plan /\ r.entered = th[t].entered
  BY SeqFacts DEF Thread
<1> HIDE DEF r
<1>2. ThreadSeq(r, state, plan, reqs, planned, succeeded, restarts)
  BY <1>1, SeqFacts
     DEF SyncLoad, ThreadSeq, StateKnown, CopyCurrent, RecordsKept, OneLive
<1> QED BY <1>2, QuietSeq DEF SyncLoad, r

LEMMA SyncCommitSeq ==
    ASSUME IInv, SeqInv, OneAtATime, NEW t \in Threads, SyncCommit(t)
    PROVE  SeqInv'
<1>1. th[t].after \in {"g_route", "g_info"}
  BY ThreadFacts DEF SyncCommit, ThreadOK
<1> DEFINE r == [Continued(t) EXCEPT !.local = NoPlan]
<1>2. r.pc = th[t].after /\ r.local = NoPlan /\ r.entered = th[t].entered
  BY <1>1 DEF Continued, Idle
<1> HIDE DEF r
<1>3. plan' = plan
  BY SeqFacts DEF SyncCommit, ThreadSeq, CopyCurrent
<1>4. ThreadSeq(r, state, plan, reqs, planned, succeeded, restarts)
  BY <1>1, <1>2, SeqFacts, NoPlanSeq
     DEF SyncCommit, ThreadSeq, StateKnown, CopyCurrent, RecordsKept, OneLive,
         Asking
<1> QED BY <1>3, <1>4, WriteSeq DEF SyncCommit, r

LEMMA GraphRouteSeq ==
    ASSUME IInv, SeqInv, OneAtATime, NEW t \in Threads, GraphRoute(t)
    PROVE  SeqInv'
<1>1. ASSUME NEW r, r.pc \in {"sync", "g_synth", "g_error"},
             r.local = th[t].local, r.entered = th[t].entered, Become(t, r)
      PROVE  SeqInv'
  <2>1. ThreadSeq(r, state, plan, reqs, planned, succeeded, restarts)
    BY <1>1, SeqFacts
       DEF GraphRoute, ThreadSeq, StateKnown, CopyCurrent, RecordsKept,
           OneLive, Asking
  <2> QED BY <1>1, <2>1, QuietSeq DEF GraphRoute
<1>2. ASSUME NEW pc \in {"sync", "g_synth"}, NEW after,
             Become(t, [th[t] EXCEPT !.pc = pc, !.after = after])
      PROVE  SeqInv'
  <2> DEFINE r == [th[t] EXCEPT !.pc = pc, !.after = after]
  <2>1. r.pc = pc /\ r.local = th[t].local /\ r.entered = th[t].entered
    BY SeqFacts DEF Thread
  <2>2. Become(t, r)
    BY <1>2
  <2> HIDE DEF r
  <2> QED BY <1>1, <2>1, <2>2
<1>3. CASE Goto(t, "g_error")
  <2> DEFINE r == [th[t] EXCEPT !.pc = "g_error"]
  <2>1. r.pc = "g_error" /\ r.local = th[t].local /\ r.entered = th[t].entered
    BY SeqFacts DEF Thread
  <2>2. Become(t, r)
    BY <1>3 DEF Goto
  <2> HIDE DEF r
  <2> QED BY <1>1, <2>1, <2>2
<1> QED BY <1>2, <1>3 DEF GraphRoute

LEMMA SynthesisedSeq ==
    ASSUME IInv, SeqInv, OneAtATime, NEW t \in Threads,
           NEW pc \in {"g_write", "pl_write"}, Synthesised(t, pc),
           unchangedEnv,
           th[t].pc = IF pc = "g_write" THEN "g_synth" ELSE "pl_synth"
    PROVE  SeqInv'
<1> DEFINE p == NewPlan(planned + 1)
           r == [th[t] EXCEPT !.pc = pc, !.local = p]
<1>1. r.pc = pc /\ r.local = p /\ r.entered = th[t].entered
  BY SeqFacts DEF Thread
<1>2. p.id = planned + 1
  BY DEF NewPlan
<1>3. planned + 1 \in PlanIds
  BY SeqFacts, BoundsAssumption DEF Synthesised, PlanIds
<1> HIDE DEF r, p
<1>4. restarts = 0 => Records(p, succeeded)
  <2>1. restarts = 0 =>
           \A i \in PlanIds, k \in Tasks :
              <<i, k>> \in succeeded => i <= planned
    BY SeqFacts DEF ThreadSeq, RecordsKept
  <2> QED BY <1>2, <1>3, <2>1, SeqFacts DEF Records
<1>5. ThreadSeq(r, state, plan, reqs, planned + 1, succeeded, restarts)
  BY <1>1, <1>2, <1>3, <1>4, SeqFacts, BoundsAssumption
     DEF PlanIds, Plan, ThreadSeq, StateKnown, CopyCurrent, RecordsKept,
         OneLive, Asking
<1> QED BY <1>5, SeqStep DEF Synthesised, r, p

LEMMA GraphSynthSeq ==
    ASSUME IInv, SeqInv, OneAtATime, NEW t \in Threads, GraphSynth(t)
    PROVE  SeqInv'
<1>1. CASE Synthesised(t, "g_write")
  BY <1>1, SynthesisedSeq DEF GraphSynth
<1>2. CASE Goto(t, "g_error") /\ unchangedRun
  <2> DEFINE r == [th[t] EXCEPT !.pc = "g_error"]
  <2>1. r.pc = "g_error" /\ r.local = th[t].local /\ r.entered = th[t].entered
    BY SeqFacts DEF Thread
  <2> HIDE DEF r
  <2>2. ThreadSeq(r, state, plan, reqs, planned, succeeded, restarts)
    BY <2>1, SeqFacts
       DEF GraphSynth, ThreadSeq, StateKnown, CopyCurrent, RecordsKept,
           OneLive, Asking
  <2> QED BY <1>2, <2>2, QuietSeq DEF GraphSynth, Goto, r
<1> QED BY <1>1, <1>2 DEF GraphSynth

LEMMA GraphWriteSeq ==
    ASSUME IInv, SeqInv, OneAtATime, NEW t \in Threads, GraphWrite(t)
    PROVE  SeqInv'
<1>1. RowSeq(plan', reqs, planned, succeeded, restarts)
  BY SeqFacts
     DEF GraphWrite, RowSeq, ThreadSeq, CopyCurrent, RecordsKept, OneLive
<1>2. CASE Continued(t) = Idle
  BY <1>1, <1>2, IdleSeq, WriteSeq DEF GraphWrite
<1>3. CASE /\ Continued(t).pc = th[t].after
           /\ Continued(t).after = th[t].after
           /\ Continued(t).local = th[t].local
           /\ Continued(t).entered = th[t].entered
  <2> DEFINE r == Continued(t)
  <2> HIDE DEF r
  <2>1. /\ r.pc = th[t].after /\ r.local = th[t].local
        /\ r.entered = th[t].entered
    BY <1>3 DEF r
  <2>2. ThreadSeq(r, state, plan', reqs, planned, succeeded, restarts)
    BY <2>1, SeqFacts
       DEF GraphWrite, Resumable, ThreadSeq, StateKnown, CopyCurrent,
           RecordsKept, OneLive
  <2> QED BY <2>2, WriteSeq DEF GraphWrite, r
<1> QED BY <1>2, <1>3, ContinuedSeq

LEMMA GraphInfoSeq ==
    ASSUME IInv, SeqInv, OneAtATime, NEW t \in Threads, GraphInfo(t)
    PROVE  SeqInv'
  BY ReturnSeq, TransitionSeq DEF GraphInfo, Resumable

(* A step on the way to asking for an approval.                            *)
LEMMA AskingSeq ==
    ASSUME IInv, SeqInv, OneAtATime, NEW t \in Threads, Asking(th[t]),
           NEW pc \in {"g_request", "pl_request"}, Goto(t, pc), unchangedRun,
           unchangedEnv
    PROVE  SeqInv'
<1> DEFINE r == [th[t] EXCEPT !.pc = pc]
<1>1. r.pc = pc /\ r.local = th[t].local
  BY SeqFacts DEF Thread
<1> HIDE DEF r
<1>2. ThreadSeq(r, state, plan, reqs, planned, succeeded, restarts)
  BY <1>1, SeqFacts
     DEF ThreadSeq, StateKnown, CopyCurrent, RecordsKept, OneLive, Asking
<1> QED BY <1>2, QuietSeq DEF Goto, r

LEMMA GraphAwaitSeq ==
    ASSUME IInv, SeqInv, OneAtATime, NEW t \in Threads, GraphAwait(t)
    PROVE  SeqInv'
<1>1. Asking(th[t])
  BY DEF GraphAwait, Asking
<1> QED BY <1>1, AskingSeq, TransitionSeq DEF GraphAwait, Resumable

LEMMA GraphErrorSeq ==
    ASSUME IInv, SeqInv, OneAtATime, NEW t \in Threads, GraphError(t)
    PROVE  SeqInv'
<1>1. th[t].entered = state
  BY SeqFacts DEF GraphError, ThreadSeq, StateKnown
<1> QED BY <1>1, ReturnSeq, TransitionSeq DEF GraphError, Resumable

LEMMA PlanBeginSeq ==
    ASSUME IInv, SeqInv, OneAtATime, NEW t \in Threads, NEW force \in BOOLEAN,
           PlanBegin(t, force)
    PROVE  SeqInv'
  BY GotoSeq, TransitionSeq DEF PlanBegin, Resumable, Free

LEMMA ContextBeginSeq ==
    ASSUME IInv, SeqInv, OneAtATime, NEW t \in Threads, ContextBegin(t)
    PROVE  SeqInv'
  BY GotoSeq DEF ContextBegin, Free

LEMMA ContextLoadSeq ==
    ASSUME IInv, SeqInv, OneAtATime, NEW t \in Threads, ContextLoad(t)
    PROVE  SeqInv'
<1>1. CASE Return(t)
  BY <1>1, ReturnSeq DEF ContextLoad
<1>2. ASSUME NEW after,
             Become(t, [th[t] EXCEPT !.pc = "ctx_commit", !.local = plan,
                                     !.after = after])
      PROVE  SeqInv'
  <2> DEFINE r == [th[t] EXCEPT !.pc = "ctx_commit", !.local = plan,
                                !.after = after]
  <2>1. r.pc = "ctx_commit" /\ r.local = plan
    BY SeqFacts DEF Thread
  <2> HIDE DEF r
  <2>2. ThreadSeq(r, state, plan, reqs, planned, succeeded, restarts)
    BY <2>1, SeqFacts
       DEF ContextLoad, ThreadSeq, StateKnown, CopyCurrent, RecordsKept,
           OneLive, Asking
  <2> QED BY <1>2, <2>2, QuietSeq DEF ContextLoad, r
<1> QED BY <1>1, <1>2 DEF ContextLoad

LEMMA ContextCommitSeq ==
    ASSUME IInv, SeqInv, OneAtATime, NEW t \in Threads, ContextCommit(t)
    PROVE  SeqInv'
<1>1. plan' = plan /\ RowSeq(plan, reqs, planned, succeeded, restarts)
  BY SeqFacts, RowSeqKept DEF ContextCommit, ThreadSeq, CopyCurrent
<1>2. CASE Return(t)
  BY <1>1, <1>2, IdleSeq, WriteSeq DEF ContextCommit, Return
<1>3. CASE Become(t, [Continued(t) EXCEPT !.local = NoPlan])
  <2>1. th[t].after \in {"pl_synth", "idle"}
    BY ThreadFacts DEF ContextCommit, ThreadOK
  <2> DEFINE r == [Continued(t) EXCEPT !.local = NoPlan]
  <2>2. r.pc \in {"pl_synth", "idle"} /\ r.local = NoPlan
    BY <2>1 DEF Continued, Idle
  <2> HIDE DEF r
  <2>3. ThreadSeq(r, state, plan, reqs, planned, succeeded, restarts)
    BY <1>1, <2>2, SeqFacts, NoPlanSeq, FreeSeq DEF Free
  <2> QED BY <1>1, <1>3, <2>3, WriteSeq DEF ContextCommit, r
<1> QED BY <1>2, <1>3 DEF ContextCommit

LEMMA PlanSynthSeq ==
    ASSUME IInv, SeqInv, OneAtATime, NEW t \in Threads, PlanSynth(t)
    PROVE  SeqInv'
  BY SynthesisedSeq, ReturnSeq DEF PlanSynth

LEMMA PlanWriteSeq ==
    ASSUME IInv, SeqInv, OneAtATime, NEW t \in Threads, PlanWrite(t)
    PROVE  SeqInv'
<1>1. CASE valid[th[t].local.id] /\ Goto(t, "pl_expire")
  <2> DEFINE r == [th[t] EXCEPT !.pc = "pl_expire"]
  <2>1. r.pc = "pl_expire" /\ r.local = th[t].local
    BY SeqFacts DEF Thread
  <2> HIDE DEF r
  <2>2. ThreadSeq(r, state, plan', reqs, planned, succeeded, restarts)
    BY <2>1, SeqFacts
       DEF PlanWrite, ThreadSeq, StateKnown, CopyCurrent, RecordsKept, OneLive,
           Asking
  <2> QED BY <1>1, <2>2, WriteSeq DEF PlanWrite, Goto, r
<1>2. CASE ~valid[th[t].local.id] /\ Return(t)
  <2>1. RowSeq(plan', reqs, planned, succeeded, restarts)
    BY <1>2, SeqFacts
       DEF PlanWrite, RowSeq, ThreadSeq, CopyCurrent, RecordsKept, OneLive
  <2> QED BY <1>2, <2>1, IdleSeq, WriteSeq DEF PlanWrite, Return
<1> QED BY <1>1, <1>2 DEF PlanWrite

LEMMA PlanAwaitSeq ==
    ASSUME IInv, SeqInv, OneAtATime, NEW t \in Threads, PlanAwait(t)
    PROVE  SeqInv'
<1>1. Asking(th[t])
  BY DEF PlanAwait, Asking
<1> QED BY <1>1, AskingSeq, TransitionSeq DEF PlanAwait, Resumable

-----------------------------------------------------------------------------
(* The steps on approval rows.                                             *)

LEMMA LiveIs == Live = LiveRows(reqs)
  BY DEF Live, LiveRows

(* Rewriting a status to one that is not live.                             *)
LEMMA RowsClosed ==
    ASSUME reqs \in Seq(Request), NEW S, NEW s \in {"EXPIRED", "REJECTED"}
    PROVE  /\ LiveRows(Rewritten(S, s)) = LiveRows(reqs) \ S
           /\ \A i \in DOMAIN reqs : Rewritten(S, s)[i].pid = reqs[i].pid
<1> DEFINE new == Rewritten(S, s)
<1>1. DOMAIN new = DOMAIN reqs
  BY DEF Rewritten
<1>2. ASSUME NEW i \in DOMAIN reqs
      PROVE  /\ new[i].pid = reqs[i].pid
             /\ new[i].status = IF i \in S THEN s ELSE reqs[i].status
  <2>1. reqs[i] \in Request
    OBVIOUS
  <2>2. new[i] = IF i \in S THEN [reqs[i] EXCEPT !.status = s] ELSE reqs[i]
    BY DEF Rewritten
  <2> HIDE DEF new
  <2> QED BY <2>1, <2>2 DEF Request
<1> HIDE DEF new
<1>3. LiveRows(new) = LiveRows(reqs) \ S
  BY <1>1, <1>2 DEF LiveRows
<1> QED BY <1>2, <1>3 DEF new

LEMMA RequestApprovalSeq ==
    ASSUME IInv, SeqInv, OneAtATime, NEW t \in Threads, RequestApproval(t)
    PROVE  SeqInv'
<1> DEFINE q == NewRequest(th[t].local.id)
<1>1. reqs \in Seq(Request) /\ Asking(th[t])
  BY DEF IInv, SharedOK, RequestApproval, Asking
<1>2. th[t].local.id = plan.id
  BY <1>1, SeqFacts DEF ThreadSeq, CopyCurrent
<1>3. restarts = 0 => LiveRows(reqs) = {}
  BY <1>1, SeqFacts DEF ThreadSeq, OneLive
<1>4. q.pid = plan.id /\ q.status = "PENDING"
  BY <1>2 DEF NewRequest
<1>5. /\ DOMAIN reqs' = 1..(Len(reqs) + 1) /\ Len(reqs) \in Nat
      /\ DOMAIN reqs = 1..Len(reqs)
      /\ reqs'[Len(reqs) + 1] = q
      /\ \A i \in 1..Len(reqs) : reqs'[i] = reqs[i]
  BY <1>1 DEF RequestApproval
<1> HIDE DEF q
<1>6. restarts = 0 => \A i \in LiveRows(reqs') : i = Len(reqs) + 1
  BY <1>3, <1>5 DEF LiveRows
<1>7. RowSeq(plan, reqs, planned, succeeded, restarts)
  BY SeqFacts, RowSeqKept DEF RequestApproval
<1>8. RowSeq(plan, reqs', planned, succeeded, restarts)
  BY <1>4, <1>5, <1>6, <1>7 DEF RowSeq
<1>9. ThreadSeq(Idle, state, plan, reqs', planned, succeeded, restarts)
  BY <1>8, IdleSeq
<1> QED BY <1>9, SeqStep DEF RequestApproval, Return

LEMMA PlanExpireSeq ==
    ASSUME IInv, SeqInv, OneAtATime, NEW t \in Threads, PlanExpire(t)
    PROVE  SeqInv'
<1>1. reqs \in Seq(Request) /\ reqs' = Rewritten(Live, "EXPIRED")
  BY DEF IInv, SharedOK, PlanExpire, Rewritten
<1>2. LiveRows(reqs') = {}
  BY <1>1, RowsClosed, LiveIs
<1> DEFINE r == [th[t] EXCEPT !.pc = "pl_await"]
<1>3. r.pc = "pl_await" /\ r.local = th[t].local
  BY SeqFacts DEF Thread
<1> HIDE DEF r
<1>4. ThreadSeq(r, state, plan, reqs', planned, succeeded, restarts)
  BY <1>2, <1>3, SeqFacts
     DEF PlanExpire, ThreadSeq, StateKnown, CopyCurrent, RecordsKept, OneLive
<1> QED BY <1>4, SeqStep DEF PlanExpire, Goto, r

LEMMA ApproveWriteSeq ==
    ASSUME IInv, SeqInv, OneAtATime, NEW t \in Threads, ApproveWrite(t)
    PROVE  SeqInv'
<1> DEFINE r == [th[t] EXCEPT !.pc = "ap_find"]
<1>1. r.pc = "ap_find" /\ r.local = th[t].local
  BY SeqFacts DEF Thread
<1> HIDE DEF r
<1>2. ThreadSeq(r, state, plan', reqs, planned, succeeded, restarts)
  BY <1>1, SeqFacts
     DEF ApproveWrite, ThreadSeq, StateKnown, CopyCurrent, RecordsKept,
         OneLive, Asking
<1> QED BY <1>2, WriteSeq DEF ApproveWrite, Goto, r

(* A thread about to resolve a row that is pending.                        *)
LEMMA ResolverSeq ==
    ASSUME NEW r, NEW rq, r.pc = "resolve", rq[r.req].status = "PENDING",
           RowSeq(plan, rq, planned, succeeded, restarts),
           r.local.id <= planned,
           restarts = 0 => Records(r.local, succeeded)
    PROVE  ThreadSeq(r, state, plan, rq, planned, succeeded, restarts)
  BY DEF RowSeq, ThreadSeq, StateKnown, CopyCurrent, RecordsKept, OneLive,
     Asking

LEMMA ApproveFindSeq ==
    ASSUME IInv, SeqInv, OneAtATime, NEW t \in Threads, ApproveFind(t)
    PROVE  SeqInv'
<1> DEFINE r(i) == [Idle EXCEPT !.pc = "resolve", !.req = i,
                                !.goal = "APPROVED", !.after = "st_load"]
<1>1. RowSeq(plan, reqs, planned, succeeded, restarts)
  BY SeqFacts, RowSeqKept DEF ApproveFind
<1>2. planned \in Nat /\ NoPlan.id = 0 /\ Records(NoPlan, succeeded)
  BY SeqFacts, NoPlanSeq
<1>3. \A i : r(i).pc = "resolve" /\ r(i).req = i /\ r(i).local = NoPlan
  BY DEF Idle
<1>4. ASSUME NEW i \in Pending, Become(t, r(i)) PROVE SeqInv'
  <2> DEFINE u == r(i)
  <2>1. u.pc = "resolve" /\ u.req = i /\ u.local = NoPlan /\ Become(t, u)
    BY <1>3, <1>4
  <2> HIDE DEF r, u
  <2>2. ThreadSeq(u, state, plan, reqs, planned, succeeded, restarts)
    BY <1>1, <1>2, <1>4, <2>1, ResolverSeq DEF Pending
  <2> QED BY <2>1, <2>2, QuietSeq DEF ApproveFind
<1>5. CASE reqs = <<>> /\ Goto(t, "ap_create")
  <2> DEFINE u == [th[t] EXCEPT !.pc = "ap_create"]
  <2>1. u.pc = "ap_create" /\ u.local = th[t].local
    BY SeqFacts DEF Thread
  <2>2. LiveRows(reqs) = {}
    BY <1>5 DEF LiveRows
  <2> HIDE DEF u
  <2>3. ThreadSeq(u, state, plan, reqs, planned, succeeded, restarts)
    BY <2>1, <2>2, SeqFacts
       DEF ApproveFind, ThreadSeq, StateKnown, CopyCurrent, RecordsKept,
           OneLive, Asking
  <2> QED BY <1>5, <2>3, QuietSeq DEF ApproveFind, Goto, u
<1>6. CASE Become(t, [Idle EXCEPT !.pc = "st_load"])
  <2> DEFINE u == [Idle EXCEPT !.pc = "st_load"]
  <2>1. u.pc = "st_load" /\ u.local = NoPlan
    BY DEF Idle
  <2> HIDE DEF u
  <2>2. ThreadSeq(u, state, plan, reqs, planned, succeeded, restarts)
    BY <1>1, <1>2, <2>1, FreeSeq DEF Free
  <2> QED BY <1>6, <2>2, QuietSeq DEF ApproveFind, u
<1> QED BY <1>4, <1>5, <1>6 DEF ApproveFind

(* The row made for an approval nobody asked for is the only live one.     *)
LEMMA ApproveCreateSeq ==
    ASSUME IInv, SeqInv, OneAtATime, NEW t \in Threads, ApproveCreate(t)
    PROVE  SeqInv'
<1> DEFINE q == NewRequest(th[t].local.id)
           i == Len(reqs) + 1
           r == [Idle EXCEPT !.pc = "resolve", !.req = i,
                             !.goal = "APPROVED", !.after = "st_load"]
<1>1. RowSeq(plan, reqs, planned, succeeded, restarts)
  BY SeqFacts, RowSeqKept DEF ApproveCreate
<1>2. planned \in Nat /\ NoPlan.id = 0 /\ Records(NoPlan, succeeded)
  BY SeqFacts, NoPlanSeq
<1>3. /\ th[t].local.id = plan.id
      /\ restarts = 0 => LiveRows(reqs) = {}
  BY SeqFacts DEF ApproveCreate, ThreadSeq, CopyCurrent, OneLive
<1>4. q.pid = plan.id /\ q.status = "PENDING"
  BY <1>3 DEF NewRequest
<1>5. /\ reqs' = Append(reqs, q) /\ reqs \in Seq(Request) /\ Become(t, r)
      /\ UNCHANGED <<state, plan, planned, succeeded>> /\ unchangedEnv
  BY DEF ApproveCreate, IInv, SharedOK
<1>6. r.pc = "resolve" /\ r.req = i /\ r.local = NoPlan
  BY DEF Idle
<1> HIDE DEF q, r
<1>7. /\ DOMAIN reqs' = DOMAIN reqs \cup {i} /\ reqs'[i] = q
      /\ \A j \in DOMAIN reqs : reqs'[j] = reqs[j]
  BY <1>5
<1> HIDE DEF i
<1>8. restarts = 0 => LiveRows(reqs') \subseteq {i}
  BY <1>3, <1>7 DEF LiveRows
<1>9. RowSeq(plan, reqs', planned, succeeded, restarts)
  BY <1>1, <1>4, <1>7, <1>8 DEF RowSeq
<1>10. ThreadSeq(r, state, plan, reqs', planned, succeeded, restarts)
  BY <1>2, <1>4, <1>6, <1>7, <1>9, ResolverSeq
<1> QED BY <1>5, <1>10, SeqStep

(* A PENDING row is resolved: no row becomes live that was not.            *)
LEMMA ResolveSeq ==
    ASSUME IInv, SeqInv, OneAtATime, NEW t \in Threads, Resolve(t)
    PROVE  SeqInv'
<1> DEFINE i == th[t].req
           r == Continued(t)
<1>1. /\ i \in DOMAIN reqs
      /\ th[t].after \in {"st_load", "rj_resolve", "aa_load"}
      /\ reqs \in Seq(Request)
  BY ThreadFacts DEF Resolve, ThreadOK, IInv, SharedOK
<1>2. RowSeq(plan, reqs, planned, succeeded, restarts)
  BY SeqFacts, RowSeqKept DEF Resolve
<1>3. restarts = 0 => reqs[i].status = "PENDING"
  BY SeqFacts DEF Resolve, ThreadSeq, OneLive
<1>4. \E s, a : reqs' = [reqs EXCEPT ![i] = [@ EXCEPT !.status = s, !.at = a]]
  <2>1. reqs[i] \in Request
    BY <1>1
  <2>2. reqs[i] = [reqs[i] EXCEPT !.at = reqs[i].at]
    BY <2>1 DEF Request
  <2>3. CASE reqs' = [reqs EXCEPT ![i] = [@ EXCEPT !.status = "REJECTED"]]
    <3>1. [reqs[i] EXCEPT !.status = "REJECTED"]
             = [reqs[i] EXCEPT !.status = "REJECTED", !.at = reqs[i].at]
      BY <2>1 DEF Request
    <3> QED BY <2>3, <3>1
  <2> QED BY <2>3 DEF Resolve
<1>5. PICK s, a :
         reqs' = [reqs EXCEPT ![i] = [@ EXCEPT !.status = s, !.at = a]]
  BY <1>4
<1>6. /\ DOMAIN reqs' = DOMAIN reqs
      /\ \A j \in DOMAIN reqs : reqs'[j].pid = reqs[j].pid
      /\ \A j \in DOMAIN reqs \ {i} : reqs'[j] = reqs[j]
  <2>1. reqs[i] \in Request
    BY <1>1
  <2> QED BY <1>1, <1>5, <2>1 DEF Request
<1>7. restarts = 0 => LiveRows(reqs') \subseteq LiveRows(reqs)
  BY <1>1, <1>3, <1>6 DEF LiveRows
<1>8. RowSeq(plan, reqs', planned, succeeded, restarts)
  BY <1>2, <1>6, <1>7 DEF RowSeq, LiveRows
<1>9. r.pc \in Free /\ r.local = th[t].local
  BY <1>1 DEF Continued, Idle, Free
<1> HIDE DEF r
<1>10. ThreadSeq(r, state, plan, reqs', planned, succeeded, restarts)
  <2>1. /\ th[t].local.id <= planned
        /\ restarts = 0 => Records(th[t].local, succeeded)
    BY SeqFacts DEF ThreadSeq, CopyCurrent, RecordsKept
  <2> QED BY <1>8, <1>9, <2>1, FreeSeq
<1> QED BY <1>10, SeqStep DEF Resolve, r

LEMMA RejectRowsSeq ==
    ASSUME IInv, SeqInv, OneAtATime, NEW t \in Threads, NEW rows,
           RejectRows(t, rows), unchangedRun, unchangedEnv,
           th[t].pc \in Free
    PROVE  SeqInv'
<1>1. th[t].pc \notin {"bg_write", "pl_expire"}
  BY DEF Free
<1>2. RowSeq(plan, reqs, planned, succeeded, restarts)
  BY <1>1, SeqFacts, RowSeqKept
<1>3. CASE Goto(t, "rj_transition")
  BY <1>1, <1>3, GotoSeq DEF Free
<1>4. CASE Return(t)
  BY <1>1, <1>4, ReturnSeq
<1>5. ASSUME NEW i \in rows, reqs[i].status = "PENDING",
             Become(t, [th[t] EXCEPT !.pc = "resolve", !.req = i,
                           !.rows = rows \ {i}, !.goal = "REJECTED",
                           !.after = "rj_resolve"])
      PROVE  SeqInv'
  <2> DEFINE r == [th[t] EXCEPT !.pc = "resolve", !.req = i,
                      !.rows = rows \ {i}, !.goal = "REJECTED",
                      !.after = "rj_resolve"]
  <2>1. r.pc = "resolve" /\ r.req = i /\ r.local = th[t].local
    BY SeqFacts DEF Thread
  <2> HIDE DEF r
  <2>2. /\ th[t].local.id <= planned
        /\ restarts = 0 => Records(th[t].local, succeeded)
    BY SeqFacts DEF ThreadSeq, CopyCurrent, RecordsKept
  <2>3. ThreadSeq(r, state, plan, reqs, planned, succeeded, restarts)
    BY <1>2, <1>5, <2>1, <2>2, ResolverSeq
  <2> QED BY <1>5, <2>3, QuietSeq DEF r
<1> QED BY <1>3, <1>4, <1>5 DEF RejectRows

LEMMA RejectLoadSeq ==
    ASSUME IInv, SeqInv, OneAtATime, NEW t \in Threads, RejectLoad(t)
    PROVE  SeqInv'
  BY RejectRowsSeq DEF RejectLoad, Free

LEMMA RejectResolveSeq ==
    ASSUME IInv, SeqInv, OneAtATime, NEW t \in Threads, RejectResolve(t)
    PROVE  SeqInv'
  BY RejectRowsSeq DEF RejectResolve, Free

LEMMA ActionBeginSeq ==
    ASSUME IInv, SeqInv, OneAtATime, NEW t \in Threads, ActionBegin(t)
    PROVE  SeqInv'
<1>1. PICK i \in Pending, verdict \in {"APPROVED", "REJECTED"} :
         Become(t, [th[t] EXCEPT !.pc = "resolve", !.req = i,
                                 !.goal = verdict, !.after = "aa_load"])
  BY DEF ActionBegin
<1> DEFINE r == [th[t] EXCEPT !.pc = "resolve", !.req = i,
                              !.goal = verdict, !.after = "aa_load"]
<1>2. r.pc = "resolve" /\ r.req = i /\ r.local = th[t].local
  BY SeqFacts DEF Thread
<1> HIDE DEF r
<1>3. RowSeq(plan, reqs, planned, succeeded, restarts)
  BY SeqFacts, RowSeqKept DEF ActionBegin
<1>4. /\ th[t].local.id <= planned
      /\ restarts = 0 => Records(th[t].local, succeeded)
  BY SeqFacts DEF ThreadSeq, CopyCurrent, RecordsKept
<1>5. ThreadSeq(r, state, plan, reqs, planned, succeeded, restarts)
  BY <1>2, <1>3, <1>4, ResolverSeq DEF Pending
<1> QED BY <1>1, <1>5, QuietSeq DEF ActionBegin, r

LEMMA ActionLoadSeq ==
    ASSUME IInv, SeqInv, OneAtATime, NEW t \in Threads, ActionLoad(t)
    PROVE  SeqInv'
  BY ReturnSeq, TransitionSeq DEF ActionLoad, Resumable

-----------------------------------------------------------------------------
(* The steps on plans and their tasks.                                     *)

(* A copy of the same plan that keeps what PASSED records as much.         *)
LEMMA RecordsOn ==
    ASSUME NEW p, NEW q, NEW sc, Records(p, sc), q.id = p.id,
           DOMAIN q.tasks = DOMAIN p.tasks,
           \A k \in DOMAIN p.tasks :
              p.tasks[k] = "PASSED" => q.tasks[k] = "PASSED"
    PROVE  Records(q, sc)
  BY DEF Records

LEMMA StatusRecords ==
    ASSUME IInv, NEW s, restarts = 0 => Records(plan, succeeded)
    PROVE  LET q == [plan EXCEPT !.status = s] IN
           /\ q.id = plan.id /\ q.status = s
           /\ restarts = 0 => Records(q, succeeded)
<1>1. plan \in Plan
  BY DEF IInv, SharedOK, GoodCopy
<1> QED BY <1>1, RecordsOn DEF Plan

LEMMA EvaluatedRecords ==
    ASSUME NEW p, NEW sc, NEW sc2, GoodCopy(p, deps, sc), Records(p, sc2)
    PROVE  Records(EvaluatedPlan(p), sc2)
<1> DEFINE f == Evaluated(p.tasks, deps[p.id])
<1>1. CASE p.id = 0
  BY <1>1 DEF EvaluatedPlan
<1>2. CASE p.id # 0
  <2>1. p \in Plan /\ p.tasks \in [DOMAIN p.tasks -> TaskStatus]
    BY StatusFunctions DEF GoodCopy, Plan
  <2>2. /\ DOMAIN f = DOMAIN p.tasks
        /\ \A k \in DOMAIN p.tasks : p.tasks[k] = "PASSED" => f[k] = "PASSED"
    BY <2>1, EvaluatedFacts
  <2>3. EvaluatedPlan(p) = [p EXCEPT !.tasks = f]
    BY <1>2 DEF EvaluatedPlan
  <2> HIDE DEF f
  <2> QED BY <2>1, <2>2, <2>3, RecordsOn DEF Plan
<1> QED BY <1>1, <1>2

LEMMA OneTaskRecords ==
    ASSUME NEW p, p \in Plan, NEW sc, Records(p, sc), NEW k \in DOMAIN p.tasks,
           NEW s, <<p.id, k>> \in sc => s = "PASSED"
    PROVE  Records(WithStatus(p, k, s), sc)
<1>1. /\ WithStatus(p, k, s).id = p.id
      /\ WithStatus(p, k, s).tasks = [p.tasks EXCEPT ![k] = s]
  BY DEF WithStatus, Plan
<1> QED BY <1>1 DEF Records

(* A pass of the task that is executed, recorded in its copy.              *)
LEMMA PassRecords ==
    ASSUME NEW p, p \in Plan, NEW sc, Records(p, sc), NEW k \in DOMAIN p.tasks
    PROVE  Records(WithStatus(p, k, "PASSED"), sc \cup {<<p.id, k>>})
<1>1. /\ WithStatus(p, k, "PASSED").id = p.id
      /\ WithStatus(p, k, "PASSED").tasks = [p.tasks EXCEPT ![k] = "PASSED"]
  BY DEF WithStatus, Plan
<1> QED BY <1>1 DEF Records

(* What a request finds that does not hold a result back.                  *)
LEMMA RowFacts ==
    ASSUME IInv, SeqInv, NEW t \in Threads,
           th[t].pc \notin {"bg_write", "pl_expire"}
    PROVE  /\ RowSeq(plan, reqs, planned, succeeded, restarts)
           /\ th[t].local.id <= planned
           /\ restarts = 0 => Records(th[t].local, succeeded)
           /\ restarts = 0 => Records(plan, succeeded)
           /\ plan.id <= planned
<1>1. RowSeq(plan, reqs, planned, succeeded, restarts)
  BY SeqFacts, RowSeqKept
<1>2. /\ th[t].local.id <= planned
      /\ restarts = 0 => Records(th[t].local, succeeded)
  BY SeqFacts DEF ThreadSeq, CopyCurrent, RecordsKept
<1> QED BY <1>1, <1>2 DEF RowSeq

(* A thread that goes on with nothing.                                     *)
LEMMA FreshSeq ==
    ASSUME IInv, NEW r, NEW st, NEW p, r.pc \in Free, r.local = NoPlan,
           RowSeq(p, reqs, planned, succeeded, restarts)
    PROVE  ThreadSeq(r, st, p, reqs, planned, succeeded, restarts)
<1>1. planned \in Nat
  BY BoundsAssumption DEF IInv, SharedOK
<1> QED BY <1>1, NoPlanSeq, FreeSeq

(* The checks of start_plan_execution.                                     *)
LEMMA StartSeq ==
    ASSUME IInv, SeqInv, OneAtATime, NEW t \in Threads, NEW moved \in BOOLEAN,
           StartChecks(t, moved), unchangedRun, unchangedEnv,
           th[t].pc \notin {"bg_write", "pl_expire"}
    PROVE  SeqInv'
<1>1. CASE Become(t, [Idle EXCEPT !.pc = "bg_load", !.after = "bg_load"])
  <2> DEFINE r == [Idle EXCEPT !.pc = "bg_load", !.after = "bg_load"]
  <2>1. r.pc \in Free /\ r.local = NoPlan
    BY DEF Idle, Free
  <2> HIDE DEF r
  <2>2. ThreadSeq(r, state, plan, reqs, planned, succeeded, restarts)
    BY <2>1, RowFacts, FreshSeq
  <2> QED BY <1>1, <2>2, QuietSeq DEF r
<1>2. CASE /\ Authorized(plan)
           /\ Become(t, [Idle EXCEPT !.pc = "st_save",
                                     !.local = EvaluatedPlan(plan)])
  <2> DEFINE p == EvaluatedPlan(plan)
             r == [Idle EXCEPT !.pc = "st_save", !.local = p]
  <2>1. p.id = plan.id /\ (restarts = 0 => Records(p, succeeded))
    BY ThreadFacts, EvaluatedCopy, EvaluatedRecords, RowFacts
  <2>2. r.pc = "st_save" /\ r.local = p
    BY DEF Idle
  <2>3. plan.status # "REJECTED"
    BY <1>2 DEF Authorized
  <2> HIDE DEF r, p
  <2>4. ThreadSeq(r, state, plan, reqs, planned, succeeded, restarts)
    BY <2>1, <2>2, <2>3, RowFacts
       DEF RowSeq, ThreadSeq, StateKnown, CopyCurrent, RecordsKept, OneLive,
           Asking
  <2> QED BY <1>2, <2>4, QuietSeq DEF r, p
<1> QED BY <1>1, <1>2, ReturnSeq DEF StartChecks

LEMMA ApproveBeginSeq ==
    ASSUME IInv, SeqInv, OneAtATime, NEW t \in Threads, ApproveBegin(t)
    PROVE  SeqInv'
<1>1. CASE /\ plan.status = "READY_FOR_APPROVAL"
           /\ Become(t, [th[t] EXCEPT !.pc = "ap_write",
                            !.local = [plan EXCEPT !.status = "APPROVED"]])
  <2> DEFINE p == [plan EXCEPT !.status = "APPROVED"]
             r == [th[t] EXCEPT !.pc = "ap_write", !.local = p]
  <2>1. p.id = plan.id /\ (restarts = 0 => Records(p, succeeded))
    BY StatusRecords, RowFacts DEF ApproveBegin
  <2>2. r.pc = "ap_write" /\ r.local = p
    BY SeqFacts DEF Thread
  <2> HIDE DEF r, p
  <2>3. ThreadSeq(r, state, plan, reqs, planned, succeeded, restarts)
    BY <1>1, <2>1, <2>2, RowFacts
       DEF ApproveBegin, RowSeq, ThreadSeq, StateKnown, CopyCurrent,
           RecordsKept, OneLive, Asking
  <2> QED BY <1>1, <2>3, QuietSeq DEF ApproveBegin, r, p
<1>2. CASE \E moved \in BOOLEAN : StartChecks(t, moved)
  BY <1>2, StartSeq DEF ApproveBegin
<1> QED BY <1>1, <1>2 DEF ApproveBegin

LEMMA StartLoadSeq ==
    ASSUME IInv, SeqInv, OneAtATime, NEW t \in Threads, StartLoad(t)
    PROVE  SeqInv'
  BY StartSeq DEF StartLoad

LEMMA ExecuteBeginSeq ==
    ASSUME IInv, SeqInv, OneAtATime, NEW t \in Threads, ExecuteBegin(t)
    PROVE  SeqInv'
  BY StartSeq DEF ExecuteBegin

LEMMA StartSaveSeq ==
    ASSUME IInv, SeqInv, OneAtATime, NEW t \in Threads, StartSave(t)
    PROVE  SeqInv'
<1> DEFINE r == [Idle EXCEPT !.pc = "st_transition"]
<1>1. r.pc \in Free /\ r.local = NoPlan
  BY DEF Idle, Free
<1> HIDE DEF r
<1>2. RowSeq(plan', reqs, planned, succeeded, restarts)
  BY SeqFacts
     DEF StartSave, RowSeq, ThreadSeq, CopyCurrent, RecordsKept, OneLive
<1>3. ThreadSeq(r, state, plan', reqs, planned, succeeded, restarts)
  BY <1>1, <1>2, FreshSeq
<1> QED BY <1>3, WriteSeq DEF StartSave, r

LEMMA StartTransitionSeq ==
    ASSUME IInv, SeqInv, OneAtATime, NEW t \in Threads, StartTransition(t)
    PROVE  SeqInv'
  BY TransitionSeq DEF StartTransition, Resumable

LEMMA NextBeginSeq ==
    ASSUME IInv, SeqInv, OneAtATime, NEW t \in Threads, NextBegin(t)
    PROVE  SeqInv'
  BY GotoSeq DEF NextBegin, Free

LEMMA CompleteRunSeq ==
    ASSUME IInv, SeqInv, OneAtATime, NEW t \in Threads,
           NEW success \in BOOLEAN,
           CompleteRun(t, state, success), unchangedRun, unchangedEnv,
           th[t].pc \notin {"bg_write", "pl_expire"}
    PROVE  SeqInv'
<1>1. CASE Return(t)
  BY <1>1, ReturnSeq
<1>2. ASSUME NEW to, TransitionTo(t, state, to, "idle") PROVE SeqInv'
  BY <1>2, TransitionSeq DEF Resumable
<1> QED BY <1>1, <1>2 DEF CompleteRun

LEMMA RaisedSeq ==
    ASSUME IInv, SeqInv, OneAtATime, NEW t \in Threads, Raised(t, state),
           unchangedRun, unchangedEnv,
           th[t].pc \notin {"bg_write", "pl_expire"}
    PROVE  SeqInv'
  BY CompleteRunSeq, ReturnSeq DEF Raised

LEMMA FinishedSeq ==
    ASSUME IInv, SeqInv, OneAtATime, NEW t \in Threads, Finished(t),
           unchangedRun, unchangedEnv,
           th[t].pc \notin {"bg_write", "pl_expire"}
    PROVE  SeqInv'
  BY CompleteRunSeq, ReturnSeq DEF Finished

(* The selection takes a READY task, which no success is recorded for.     *)
LEMMA TaskSelectSeq ==
    ASSUME IInv, SeqInv, OneAtATime, NEW t \in Threads, TaskSelect(t)
    PROVE  SeqInv'
<1> DEFINE p == EvaluatedPlan(plan)
           k == FirstReady(p.tasks)
           q == WithStatus(p, k, "RUNNING")
           r == [th[t] EXCEPT !.pc = "bg_exec", !.task = k, !.local = q]
<1>1. /\ unchangedRun /\ unchangedEnv
      /\ th[t].pc \notin {"bg_write", "pl_expire"}
  BY DEF TaskSelect
<1>2. CASE Raised(t, state)
  BY <1>1, <1>2, RaisedSeq
<1>3. CASE Finished(t)
  BY <1>1, <1>3, FinishedSeq
<1>4. CASE /\ state = "EXECUTING" /\ Authorized(plan)
           /\ ReadyTasks(p.tasks) # {} /\ Become(t, r)
  <2>1. plan.status # "REJECTED"
    BY <1>4 DEF Authorized
  <2>2. GoodCopy(p, deps, succeeded) /\ p.id = plan.id
    BY ThreadFacts, EvaluatedCopy
  <2>3. restarts = 0 => Records(p, succeeded)
    BY <1>1, ThreadFacts, EvaluatedRecords, RowFacts
  <2>4. k \in DOMAIN p.tasks /\ p.tasks[k] = "READY" /\ k \in Tasks
    <3>1. DOMAIN p.tasks \subseteq Tasks
      BY <2>2, StatusFunctions DEF GoodCopy, Plan
    <3>2. k \in ReadyTasks(p.tasks)
      BY <1>4, <3>1, TasksAssumption, FirstReadyIsReady
    <3> QED BY <3>1, <3>2 DEF ReadyTasks
  <2>5. p \in Plan
    BY <2>2 DEF GoodCopy
  <2> HIDE DEF p, k
  <2>6. /\ q.id = plan.id /\ q.tasks[k] = "RUNNING"
        /\ restarts = 0 => Records(q, succeeded)
    <3>1. q.id = p.id /\ q.tasks = [p.tasks EXCEPT ![k] = "RUNNING"]
      BY <2>5 DEF WithStatus, Plan
    <3>2. restarts = 0 => <<p.id, k>> \notin succeeded
      BY <2>3, <2>4 DEF Records
    <3> QED BY <2>2, <2>3, <2>4, <2>5, <3>1, <3>2, OneTaskRecords
  <2> HIDE DEF q
  <2>7. r.pc = "bg_exec" /\ r.task = k /\ r.local = q
    BY SeqFacts DEF Thread
  <2>8. Become(t, r)
    BY <1>4
  <2> HIDE DEF r
  <2>9. ThreadSeq(r, state, plan, reqs, planned, succeeded, restarts)
    BY <1>1, <1>4, <2>1, <2>6, <2>7, RowFacts
       DEF RowSeq, ThreadSeq, StateKnown, CopyCurrent, RecordsKept, OneLive,
           Asking
  <2> QED BY <1>1, <2>8, <2>9, QuietSeq
<1> QED BY <1>2, <1>3, <1>4 DEF TaskSelect, WithStatus

(* The execution: its success is in the copy that will be written back.    *)
LEMMA TaskExecuteSeq ==
    ASSUME IInv, SeqInv, OneAtATime, NEW t \in Threads, TaskExecute(t)
    PROVE  SeqInv'
<1> DEFINE p == th[t].local
           k == th[t].task
<1>1. /\ GoodCopy(p, deps, succeeded) /\ k \in DOMAIN p.tasks
      /\ p.id \in PlanIds /\ k \in Tasks /\ p \in Plan
  <2>1. /\ GoodCopy(p, deps, succeeded)
        /\ MayExecute(th[t], deps, succeeded, approved)
    BY ThreadFacts DEF TaskExecute, ThreadOK
  <2>2. approved \subseteq PlanIds
    BY DEF IInv, SharedOK
  <2>3. DOMAIN p.tasks \subseteq Tasks /\ p \in Plan
    BY <2>1, StatusFunctions DEF GoodCopy, Plan
  <2> QED BY <2>1, <2>2, <2>3 DEF MayExecute
<1>2. /\ state = "EXECUTING" /\ p.id = plan.id /\ plan.status # "REJECTED"
      /\ restarts = 0 => Records(p, succeeded) /\ p.tasks[k] = "RUNNING"
  BY SeqFacts DEF TaskExecute, ThreadSeq, StateKnown, CopyCurrent, RecordsKept
<1>3. RowSeq(plan, reqs, planned, succeeded, restarts)
  BY RowFacts DEF TaskExecute
<1>4. UNCHANGED <<state, plan, reqs, planned>> /\ unchangedEnv
  BY DEF TaskExecute
<1>5. restarts = 0 => <<p.id, k>> \notin succeeded
  BY <1>1, <1>2 DEF Records
<1>6. ASSUME NEW s \in {"PASSED", "FAILED"}, NEW sc2,
             sc2 = IF s = "PASSED" THEN succeeded \cup {<<p.id, k>>}
                   ELSE succeeded
      PROVE  /\ WithResult(p, k, s).id = p.id
             /\ restarts = 0 => Records(WithResult(p, k, s), sc2)
  <2> DEFINE q == WithStatus(p, k, s)
  <2>1. GoodCopy(q, deps, sc2) /\ q.id = p.id
    <3>1. GoodCopy(p, deps, sc2)
      BY <1>1, <1>6, CopyKept
    <3>2. s \in TaskStatus \ {"READY"}
      BY DEF TaskStatus
    <3>3. s = "PASSED" => <<p.id, k>> \in sc2
      BY <1>6
    <3> HIDE DEF p, k
    <3> QED BY <1>1, <3>1, <3>2, <3>3, OneTask
  <2>2. restarts = 0 => Records(q, sc2)
    BY <1>1, <1>2, <1>5, <1>6, PassRecords, OneTaskRecords
  <2>3. WithResult(p, k, s) = EvaluatedPlan(q)
    BY DEF WithResult, WithStatus
  <2> HIDE DEF q, p, k
  <2> QED BY <2>1, <2>2, <2>3, EvaluatedCopy, EvaluatedRecords
<1>7. ASSUME NEW r, NEW s \in {"PASSED", "FAILED"}, Become(t, r),
             r.pc = "bg_write", r.local = WithResult(p, k, s),
             succeeded' = IF s = "PASSED" THEN succeeded \cup {<<p.id, k>>}
                          ELSE succeeded
      PROVE  SeqInv'
  <2>1. /\ r.local.id = p.id
        /\ restarts = 0 => Records(r.local, succeeded')
    BY <1>6, <1>7
  <2>2. restarts = 0 =>
           \A i \in PlanIds, l \in Tasks :
              <<i, l>> \in succeeded' => i <= planned
    BY <1>1, <1>2, <1>3, <1>7 DEF RowSeq
  <2>3. /\ plan.id <= planned
        /\ restarts = 0 =>
              /\ \A i, j \in LiveRows(reqs) : i = j
              /\ plan.id # 0 /\ valid[plan.id] =>
                    \A i \in LiveRows(reqs) : reqs[i].pid = plan.id
    BY <1>3 DEF RowSeq
  <2> HIDE DEF p, k
  <2>4. ThreadSeq(r, state, plan, reqs, planned, succeeded', restarts)
    BY <1>2, <1>7, <2>1, <2>2, <2>3
       DEF ThreadSeq, StateKnown, CopyCurrent, RecordsKept, OneLive, Asking
  <2> QED BY <1>4, <1>7, <2>4, SeqStep
<1>8. CASE /\ Become(t, [th[t] EXCEPT !.pc = "bg_write",
                            !.local = WithResult(p, k, "PASSED")])
           /\ succeeded' = succeeded \cup {<<p.id, k>>}
  <2> DEFINE r == [th[t] EXCEPT !.pc = "bg_write",
                                !.local = WithResult(p, k, "PASSED")]
  <2>1. r.pc = "bg_write" /\ r.local = WithResult(p, k, "PASSED")
    BY SeqFacts DEF Thread
  <2>2. Become(t, r)
    BY <1>8
  <2> HIDE DEF r
  <2> QED BY <1>7, <1>8, <2>1, <2>2
<1>9. CASE /\ Become(t, [th[t] EXCEPT !.pc = "bg_write", !.failed = TRUE,
                            !.local = WithResult(p, k, "FAILED")])
           /\ UNCHANGED succeeded
  <2> DEFINE r == [th[t] EXCEPT !.pc = "bg_write", !.failed = TRUE,
                                !.local = WithResult(p, k, "FAILED")]
  <2>1. r.pc = "bg_write" /\ r.local = WithResult(p, k, "FAILED")
    BY SeqFacts DEF Thread
  <2>2. Become(t, r)
    BY <1>9
  <2> HIDE DEF r
  <2> QED BY <1>7, <1>9, <2>1, <2>2
<1>10. CASE /\ \E from \in {"EXECUTING", state} : Raised(t, from)
            /\ UNCHANGED succeeded
  BY <1>2, <1>10, RaisedSeq DEF TaskExecute, unchangedRun
<1> QED BY <1>8, <1>9, <1>10 DEF TaskExecute

LEMMA TaskWriteSeq ==
    ASSUME IInv, SeqInv, OneAtATime, NEW t \in Threads, TaskWrite(t)
    PROVE  SeqInv'
<1> DEFINE r == IF Looping(t)
                THEN [Idle EXCEPT !.pc = "bg_load", !.after = "bg_load",
                                  !.failed = th[t].failed]
                ELSE Idle
<1>1. r.pc \in Free /\ r.local = NoPlan
  BY DEF Idle, Free
<1>2. Become(t, r)
  BY DEF TaskWrite
<1> HIDE DEF r
<1>3. RowSeq(plan', reqs, planned, succeeded, restarts)
  BY SeqFacts
     DEF TaskWrite, RowSeq, ThreadSeq, CopyCurrent, RecordsKept, OneLive
<1>4. ThreadSeq(r, state, plan', reqs, planned, succeeded, restarts)
  BY <1>1, <1>3, FreshSeq
<1> QED BY <1>2, <1>4, WriteSeq DEF TaskWrite

LEMMA CancelBeginSeq ==
    ASSUME IInv, SeqInv, OneAtATime, NEW t \in Threads, CancelBegin(t)
    PROVE  SeqInv'
<1> DEFINE r == [th[t] EXCEPT !.pc = "cx_mark"]
<1>1. r.pc = "cx_mark" /\ r.local = th[t].local
  BY SeqFacts DEF Thread
<1> HIDE DEF r
<1>2. ThreadSeq(r, state, plan, reqs, planned, succeeded, restarts)
  BY <1>1, RowFacts
     DEF CancelBegin, RowSeq, ThreadSeq, StateKnown, CopyCurrent, RecordsKept,
         OneLive, Asking
<1> QED BY <1>2, QuietSeq DEF CancelBegin, Goto, r

LEMMA CancelMarkSeq ==
    ASSUME IInv, SeqInv, OneAtATime, NEW t \in Threads, CancelMark(t)
    PROVE  SeqInv'
<1> DEFINE r == [th[t] EXCEPT !.pc = "cx_commit", !.local = plan]
<1>1. r.pc = "cx_commit" /\ r.local = plan
  BY SeqFacts DEF Thread
<1> HIDE DEF r
<1>2. ThreadSeq(r, state, plan, reqs, planned, succeeded, restarts)
  BY <1>1, SeqFacts
     DEF CancelMark, ThreadSeq, StateKnown, CopyCurrent, RecordsKept, OneLive,
         Asking
<1> QED BY <1>2, QuietSeq DEF CancelMark, r

LEMMA CancelCommitSeq ==
    ASSUME IInv, SeqInv, OneAtATime, NEW t \in Threads, CancelCommit(t)
    PROVE  SeqInv'
<1>1. th[t].local = plan /\ plan \in Plan
  BY SeqFacts DEF CancelCommit, ThreadSeq, CopyCurrent
<1>2. /\ plan'.id = plan.id
      /\ restarts = 0 => Records(plan', succeeded)
  <2>1. restarts = 0 => Records(plan, succeeded)
    BY RowFacts DEF CancelCommit
  <2>2. CASE plan' = plan
    BY <2>1, <2>2
  <2>3. CASE plan' = WithoutOpenTasks(plan)
    <3> DEFINE f == [k \in DOMAIN plan.tasks |->
                       IF plan.tasks[k] \in {"PENDING", "READY"} THEN "BLOCKED"
                       ELSE plan.tasks[k]]
    <3>1. /\ DOMAIN f = DOMAIN plan.tasks
          /\ \A k \in DOMAIN plan.tasks :
                plan.tasks[k] = "PASSED" => f[k] = "PASSED"
      OBVIOUS
    <3>2. plan' = [plan EXCEPT !.tasks = f]
      BY <2>3 DEF WithoutOpenTasks
    <3> HIDE DEF f
    <3>3. plan'.id = plan.id /\ plan'.tasks = f
      BY <1>1, <3>2 DEF Plan
    <3> QED BY <2>1, <3>1, <3>3, RecordsOn
  <2> QED BY <1>1, <2>2, <2>3 DEF CancelCommit
<1>3. RowSeq(plan', reqs, planned, succeeded, restarts)
  BY <1>2, RowFacts DEF CancelCommit, RowSeq
<1> QED BY <1>3, IdleSeq, WriteSeq DEF CancelCommit, Return

LEMMA RejectBeginSeq ==
    ASSUME IInv, SeqInv, OneAtATime, NEW t \in Threads, RejectBegin(t)
    PROVE  SeqInv'
<1>1. CASE Goto(t, "rj_load")
  BY <1>1, GotoSeq DEF RejectBegin, Free
<1>2. CASE Become(t, [th[t] EXCEPT !.pc = "rj_write",
                         !.local = [plan EXCEPT !.status = "REJECTED"]])
  <2> DEFINE p == [plan EXCEPT !.status = "REJECTED"]
             r == [th[t] EXCEPT !.pc = "rj_write", !.local = p]
  <2>1. /\ p.id = plan.id /\ p.status = "REJECTED"
        /\ restarts = 0 => Records(p, succeeded)
    BY StatusRecords, RowFacts DEF RejectBegin
  <2>2. r.pc = "rj_write" /\ r.local = p
    BY SeqFacts DEF Thread
  <2> HIDE DEF r, p
  <2>3. ThreadSeq(r, state, plan, reqs, planned, succeeded, restarts)
    BY <2>1, <2>2, RowFacts
       DEF RejectBegin, RowSeq, ThreadSeq, StateKnown, CopyCurrent,
           RecordsKept, OneLive, Asking
  <2> QED BY <1>2, <2>3, QuietSeq DEF RejectBegin, r, p
<1> QED BY <1>1, <1>2 DEF RejectBegin

LEMMA RejectWriteSeq ==
    ASSUME IInv, SeqInv, OneAtATime, NEW t \in Threads, RejectWrite(t)
    PROVE  SeqInv'
<1> DEFINE r == [Idle EXCEPT !.pc = "rj_load"]
<1>1. r.pc \in Free /\ r.local = NoPlan
  BY DEF Idle, Free
<1> HIDE DEF r
<1>2. RowSeq(plan', reqs, planned, succeeded, restarts)
  BY SeqFacts
     DEF RejectWrite, RowSeq, ThreadSeq, CopyCurrent, RecordsKept, OneLive
<1>3. ThreadSeq(r, state, plan', reqs, planned, succeeded, restarts)
  BY <1>1, <1>2, FreshSeq
<1> QED BY <1>3, WriteSeq DEF RejectWrite, r

LEMMA RejectTransitionSeq ==
    ASSUME IInv, SeqInv, OneAtATime, NEW t \in Threads, RejectTransition(t)
    PROVE  SeqInv'
  BY TransitionSeq DEF RejectTransition, Resumable

LEMMA TransitionBeginSeq ==
    ASSUME IInv, SeqInv, OneAtATime, NEW t \in Threads, TransitionBegin(t)
    PROVE  SeqInv'
  BY TransitionSeq DEF TransitionBegin, Resumable

LEMMA RestartSeq == ASSUME IInv, SeqInv, Restart PROVE SeqInv'
<1>1. /\ \A u \in Threads : th'[u] = Idle
      /\ restarts' # 0
      /\ UNCHANGED <<plan, planned>>
  BY DEF Restart, IInv, SharedOK
<1>2. plan.id <= planned /\ planned \in Nat
  BY ThreadsAssumption, SeqFacts DEF ThreadSeq, CopyCurrent
<1>3. ThreadSeq(Idle, state', plan, reqs', planned, succeeded', restarts')
  BY <1>1, <1>2, IdleOK, NoPlanSeq
     DEF ThreadSeq, StateKnown, CopyCurrent, Asking
<1> QED BY <1>1, <1>3 DEF SeqInv, ThreadSeq, OneLive

-----------------------------------------------------------------------------
(* The invariant of a run whose requests come one at a time.               *)

LEMMA InitSeq == Init /\ OneAtATime => SeqInv
<1> SUFFICES ASSUME Init, OneAtATime PROVE SeqInv
  OBVIOUS
<1>1. PICK c \in Threads :
         th = [t \in Threads |->
                  IF t = c THEN [Idle EXCEPT !.pc = "create"] ELSE Idle]
  BY DEF Init
<1> DEFINE r == [Idle EXCEPT !.pc = "create"]
<1>2. \A t \in Threads : th[t] = r
  BY <1>1 DEF OneAtATime
<1>3. r.pc = "create" /\ r.local = NoPlan
  BY DEF Idle
<1> HIDE DEF r
<1>4. NoPlan.id = 0 /\ Records(NoPlan, succeeded) /\ LiveRows(reqs) = {}
  BY DEF NoPlan, Records, LiveRows, Init
<1>5. ThreadSeq(r, state, plan, reqs, planned, succeeded, restarts)
  BY <1>3, <1>4
     DEF Init, ThreadSeq, StateKnown, CopyCurrent, RecordsKept, OneLive
<1> QED BY <1>2, <1>5 DEF SeqInv

LEMMA BeginSeq ==
    ASSUME IInv, SeqInv, OneAtATime, NEW t \in Threads, Begin(t) PROVE SeqInv'
  BY PlanBeginSeq, ContextBeginSeq, ApproveBeginSeq, ExecuteBeginSeq,
     NextBeginSeq, CancelBeginSeq, RejectBeginSeq, TransitionBeginSeq,
     ActionBeginSeq DEF Begin

LEMMA ServeSeq ==
    ASSUME IInv, SeqInv, OneAtATime, NEW t \in Threads, Serve(t) PROVE SeqInv'
<1>1. CASE \/ Commit(t) \/ Create(t) \/ GraphEnter(t) \/ SyncLoad(t)
           \/ SyncCommit(t) \/ GraphRoute(t) \/ GraphSynth(t)
           \/ GraphWrite(t) \/ GraphInfo(t) \/ GraphAwait(t) \/ GraphError(t)
  BY <1>1, CommitSeq, CreateSeq, GraphEnterSeq, SyncLoadSeq, SyncCommitSeq,
     GraphRouteSeq, GraphSynthSeq, GraphWriteSeq, GraphInfoSeq,
     GraphAwaitSeq, GraphErrorSeq
<1>2. CASE \/ RequestApproval(t) \/ ContextLoad(t) \/ ContextCommit(t)
           \/ PlanSynth(t) \/ PlanWrite(t) \/ PlanExpire(t) \/ PlanAwait(t)
           \/ ApproveWrite(t) \/ ApproveFind(t) \/ ApproveCreate(t)
           \/ Resolve(t)
  BY <1>2, RequestApprovalSeq, ContextLoadSeq, ContextCommitSeq,
     PlanSynthSeq, PlanWriteSeq, PlanExpireSeq, PlanAwaitSeq,
     ApproveWriteSeq, ApproveFindSeq, ApproveCreateSeq, ResolveSeq
<1>3. CASE \/ StartLoad(t) \/ StartSave(t) \/ StartTransition(t)
           \/ TaskSelect(t) \/ TaskExecute(t) \/ TaskWrite(t)
           \/ CancelMark(t) \/ CancelCommit(t) \/ RejectWrite(t)
           \/ RejectLoad(t) \/ RejectResolve(t) \/ RejectTransition(t)
           \/ ActionLoad(t)
  BY <1>3, StartLoadSeq, StartSaveSeq, StartTransitionSeq, TaskSelectSeq,
     TaskExecuteSeq, TaskWriteSeq, CancelMarkSeq, CancelCommitSeq,
     RejectWriteSeq, RejectLoadSeq, RejectResolveSeq, RejectTransitionSeq,
     ActionLoadSeq
<1> QED BY <1>1, <1>2, <1>3 DEF Serve

LEMMA StepSeq == IInv /\ SeqInv /\ OneAtATime /\ [Next]_vars => SeqInv'
<1> SUFFICES ASSUME IInv, SeqInv, OneAtATime, [Next]_vars PROVE SeqInv'
  OBVIOUS
<1>1. CASE Restart
  BY <1>1, RestartSeq
<1>2. ASSUME NEW t \in Threads, Begin(t) \/ Serve(t) PROVE SeqInv'
  BY <1>2, BeginSeq, ServeSeq
<1>3. CASE UNCHANGED vars
  BY <1>3 DEF vars, SeqInv, ThreadSeq, OneLive
<1> QED BY <1>1, <1>2, <1>3 DEF Next

(* It holds in every behaviour of one thread.                              *)
LEMMA SequentialInvariance == ASSUME OneAtATime PROVE Safety => []SeqInv
<1>1. Init => SeqInv
  BY InitSeq
<1>2. IInv /\ SeqInv /\ [Next]_vars => SeqInv'
  BY StepSeq
<1> QED BY <1>1, <1>2, Invariance, PTL DEF Safety

(* Passes stand: as long as requests come one at a time, no task is        *)
(* executed again under a plan under which it already succeeded, since     *)
(* every plan copy that is written back records every success so far.      *)
THEOREM ExecutedOnce == ASSUME OneAtATime PROVE Safety => []NoReexecution
<1>1. IInv /\ SeqInv => NoReexecution
  <2> SUFFICES ASSUME IInv, SeqInv, restarts = 0, NEW t \in Threads,
                      th[t].pc = "bg_exec"
               PROVE  <<th[t].local.id, th[t].task>> \notin succeeded
    BY DEF NoReexecution
  <2>1. /\ Records(th[t].local, succeeded)
        /\ th[t].local.tasks[th[t].task] = "RUNNING"
    BY SeqFacts DEF ThreadSeq, RecordsKept
  <2>2. succeeded \subseteq PlanIds \X Tasks
    BY DEF IInv, SharedOK
  <2> QED BY <2>1, <2>2 DEF Records
<1> QED BY <1>1, Invariance, SequentialInvariance, PTL

(* One approval at a time, and about the stored plan: create_plan expires  *)
(* what was asked for or granted before it asks anew, so that between two  *)
(* requests there is at most one live approval row, which names the plan   *)
(* the run holds if that one is valid.                                     *)
THEOREM OneApprovalLives == ASSUME OneAtATime PROVE Safety => []OneLiveApproval
<1>1. IInv /\ SeqInv => OneLiveApproval
  <2> SUFFICES ASSUME IInv, SeqInv, AllIdle, restarts = 0
               PROVE  /\ \A i, j \in Live : i = j
                      /\ plan.id # 0 /\ valid[plan.id] =>
                            \A i \in Live : reqs[i].pid = plan.id
    BY DEF OneLiveApproval
  <2>1. PICK t \in Threads : th[t].pc = "idle"
    BY ThreadsAssumption DEF AllIdle
  <2> QED BY <2>1, RowFacts, LiveIs DEF RowSeq
<1> QED BY <1>1, Invariance, SequentialInvariance, PTL

(* AgentStateMachine's terminal lock: as long as requests come one at a    *)
(* time, a run that is COMPLETED, FAILED or CANCELLED stays so; restarts   *)
(* included.                                                               *)
THEOREM TerminalStays == ASSUME OneAtATime PROVE Safety => TerminalLock
<1>1. IInv /\ SeqInv /\ [Next]_vars
         => [(state \in Terminal) => state' = state]_vars
  <2> SUFFICES ASSUME IInv, SeqInv, Next, state \in Terminal
               PROVE  state' = state
    OBVIOUS
  <2>1. CASE Restart
    BY <2>1 DEF Restart
  <2>2. ASSUME NEW t \in Threads, Begin(t) PROVE state' = state
    BY <2>2 DEF Begin, PlanBegin, ContextBegin, ApproveBegin, ExecuteBegin,
       NextBegin, CancelBegin, RejectBegin, TransitionBegin, ActionBegin,
       unchangedRun
  <2>3. ASSUME NEW t \in Threads, Commit(t) \/ CancelCommit(t)
        PROVE  state' = state
    BY <2>3, SeqFacts DEF Commit, CancelCommit, ThreadSeq, StateKnown
  <2>4. ASSUME NEW t \in Threads, Serve(t), ~Commit(t), ~CancelCommit(t)
        PROVE  state' = state
    BY <2>4 DEF Serve, Create, GraphEnter, SyncLoad, SyncCommit, GraphRoute,
       GraphSynth, Synthesised, GraphWrite, GraphInfo, GraphAwait,
       GraphError, RequestApproval, ContextLoad, ContextCommit, PlanSynth,
       PlanWrite, PlanExpire, PlanAwait, ApproveWrite, ApproveFind,
       ApproveCreate, Resolve, StartLoad, StartSave, StartTransition,
       TaskSelect, TaskExecute, TaskWrite, CancelMark, RejectWrite,
       RejectLoad, RejectResolve, RejectTransition, ActionLoad, unchangedRun
  <2> QED BY <2>1, <2>2, <2>3, <2>4 DEF Next
<1> QED BY <1>1, Invariance, SequentialInvariance, PTL DEF Safety, TerminalLock

(* A rejection is final: as long as requests come one at a time, no        *)
(* handler writes a rejected plan back under another status.               *)
THEOREM RejectionStays == ASSUME OneAtATime PROVE Safety => RejectionIsFinal
<1>1. IInv /\ SeqInv /\ [Next]_vars
         => [plan.status = "REJECTED" /\ plan'.id = plan.id
               => plan'.status = "REJECTED"]_vars
  <2> SUFFICES ASSUME IInv, SeqInv, Next, plan.status = "REJECTED",
                      plan'.id = plan.id
               PROVE  plan'.status = "REJECTED"
    OBVIOUS
  <2>1. CASE Restart
    BY <2>1 DEF Restart
  <2>2. ASSUME NEW t \in Threads, Begin(t) PROVE plan'.status = "REJECTED"
    BY <2>2 DEF Begin, PlanBegin, ContextBegin, ApproveBegin, ExecuteBegin,
       NextBegin, CancelBegin, RejectBegin, TransitionBegin, ActionBegin,
       unchangedRun
  <2>3. ASSUME NEW t \in Threads,
               \/ SyncCommit(t) \/ ContextCommit(t) \/ GraphWrite(t)
               \/ PlanWrite(t) \/ ApproveWrite(t) \/ StartSave(t)
               \/ TaskWrite(t) \/ RejectWrite(t)
        PROVE  plan'.status = "REJECTED"
    BY <2>3, SeqFacts DEF SyncCommit, ContextCommit, GraphWrite, PlanWrite,
       ApproveWrite, StartSave, TaskWrite, RejectWrite, ThreadSeq, CopyCurrent
  <2>4. ASSUME NEW t \in Threads, CancelCommit(t)
        PROVE  plan'.status = "REJECTED"
    <3>1. th[t].local = plan /\ plan \in Plan
      BY <2>4, SeqFacts DEF CancelCommit, ThreadSeq, CopyCurrent
    <3> QED BY <2>4, <3>1 DEF CancelCommit, WithoutOpenTasks, Plan
  <2>5. ASSUME NEW t \in Threads,
               \/ Commit(t) \/ Create(t) \/ GraphEnter(t) \/ SyncLoad(t)
               \/ GraphRoute(t) \/ GraphSynth(t) \/ GraphInfo(t)
               \/ GraphAwait(t) \/ GraphError(t) \/ RequestApproval(t)
               \/ ContextLoad(t) \/ PlanSynth(t) \/ PlanExpire(t)
               \/ PlanAwait(t) \/ ApproveFind(t) \/ ApproveCreate(t)
               \/ Resolve(t) \/ StartLoad(t) \/ StartTransition(t)
               \/ TaskSelect(t) \/ TaskExecute(t) \/ CancelMark(t)
               \/ RejectLoad(t) \/ RejectResolve(t)
               \/ RejectTransition(t) \/ ActionLoad(t)
        PROVE  plan'.status = "REJECTED"
    BY <2>5 DEF Commit, Create, GraphEnter, SyncLoad, GraphRoute, GraphSynth,
       Synthesised, GraphInfo, GraphAwait, GraphError, RequestApproval,
       ContextLoad, PlanSynth, PlanExpire, PlanAwait, ApproveFind,
       ApproveCreate, Resolve, StartLoad, StartTransition, TaskSelect,
       TaskExecute, CancelMark, RejectLoad, RejectResolve, RejectTransition,
       ActionLoad, unchangedRun
  <2> QED BY <2>1, <2>2, <2>3, <2>4, <2>5 DEF Next, Serve
<1> QED
  BY <1>1, Invariance, SequentialInvariance, PTL DEF Safety, RejectionIsFinal
-----------------------------------------------------------------------------
(* A run that is announced as a success is one.  Three things part the     *)
(* code from that: plans whose tasks depend on steps that are not there or *)
(* on each other, requests that interleave, and the endpoint that moves a  *)
(* run to any state.  Without them it holds, whatever fails, is replanned, *)
(* cancelled or restarted on the way.                                      *)

(* Every dependency is a task of the plan, and none is circular.           *)
SoundPlan(d) ==
    /\ \A k \in DOMAIN d : d[k] \subseteq DOMAIN d
    /\ \A X \in SUBSET DOMAIN d : X # {} => \E k \in X : d[k] \cap X = {}

BeforeExecution == {"IDLE", "UNDERSTANDING", "PLANNING", "AWAITING_APPROVAL"}

(* Nothing of the plan failed so far.                                      *)
Clean(tasks) ==
    \A k \in DOMAIN tasks : tasks[k] \in {"PENDING", "READY", "PASSED"}

AllPassed(tasks) == \A k \in DOMAIN tasks : tasks[k] = "PASSED"

(* Where the thread is tells how far the run is.                           *)
Position(r, st) ==
    /\ \/ r.pc \in {"ap_write", "ap_find", "ap_create", "st_load", "st_save",
                    "st_transition"}
       \/ r.pc = "resolve" /\ r.after = "st_load"
       => st = "AWAITING_APPROVAL"
    /\ r.pc \in {"create", "g_enter", "sync", "sync_commit", "g_route",
                 "g_synth", "g_write", "g_info"} => st \in BeforeExecution
    /\ r.pc \in {"g_synth", "g_write"} => r.after \in {"g_info", "g_await"}
    /\ r.pc = "bg_write" => st = "EXECUTING"
    /\ r.pc = "idle" => r.after = "idle"
    /\ r.pc = "commit" =>
          /\ r.after \in {"idle", "g_enter", "g_request", "pl_ctx",
                          "pl_request", "bg_load"}
          /\ r.after \in {"g_enter", "bg_load"} \/ r.goal \in BeforeExecution
                => st \in BeforeExecution
          /\ r.after = "g_enter" => r.goal = "UNDERSTANDING"

(* The stored plan and the thread's copy are clean up to the execution,    *)
(* and for as long as the executor has seen no failure.                    *)
Truthful(r, st, p) ==
    /\ st \in BeforeExecution => Clean(p.tasks)
    /\ r.pc \in {"g_write", "pl_write", "ap_write", "st_save", "rj_write"} =>
          Clean(r.local.tasks)
    /\ r.after = "bg_load" /\ ~r.failed =>
          /\ r.pc \in {"bg_load", "bg_exec", "bg_write"} => Clean(p.tasks)
          /\ r.pc = "bg_write" => Clean(r.local.tasks)
          /\ r.pc = "bg_exec" =>
                Clean([r.local.tasks EXCEPT ![r.task] = "PASSED"])
    /\ r.pc = "commit" /\ r.goal = "COMPLETED" /\ st = "EXECUTING" =>
          AllPassed(p.tasks)

ThreadDone(r, st, p) == Position(r, st) /\ Truthful(r, st, p)

DoneInv == \A t \in Threads : ThreadDone(th[t], state, plan)

(* An evaluation of a sound plan without a failure blocks nothing, and     *)
(* finds something to do unless everything passed.                         *)
LEMMA CleanEvaluation ==
    ASSUME NEW d, SoundPlan(d), NEW f, DOMAIN f = DOMAIN d, Clean(f)
    PROVE  /\ DOMAIN Evaluated(f, d) = DOMAIN f
           /\ Clean(Evaluated(f, d))
           /\ ReadyTasks(Evaluated(f, d)) = {} => AllPassed(f)
<1>1. DOMAIN Evaluated(f, d) = DOMAIN f
  BY DEF Evaluated
<1>2. Doomed(f, d) = {}
  <2>1. ClosedUnderBlocking({}, f, d)
    BY DEF ClosedUnderBlocking, PendingTasks, BlockedBy, BadTask, SoundPlan,
       Clean
  <2> QED BY <2>1 DEF Doomed
<1>3. \A k \in DOMAIN f :
         Evaluated(f, d)[k] = IF f[k] # "PENDING" THEN f[k]
                              ELSE IF AllDepsPassed(k, f, d) THEN "READY"
                              ELSE "PENDING"
  BY <1>2 DEF Evaluated
<1>4. Clean(Evaluated(f, d))
  BY <1>1, <1>3 DEF Clean
<1>5. ASSUME ReadyTasks(Evaluated(f, d)) = {} PROVE AllPassed(f)
  <2>1. \A k \in DOMAIN f : Evaluated(f, d)[k] # "READY"
    BY <1>1, <1>5 DEF ReadyTasks
  <2>2. \A k \in DOMAIN f : f[k] \in {"PENDING", "PASSED"}
    BY <1>3, <2>1 DEF Clean
  <2>3. SUFFICES ASSUME PendingTasks(f) # {} PROVE FALSE
    BY <2>2 DEF AllPassed, PendingTasks
  <2>4. PICK k \in PendingTasks(f) : d[k] \cap PendingTasks(f) = {}
    <3>1. PendingTasks(f) \in SUBSET DOMAIN d
      BY DEF PendingTasks
    <3> QED BY <2>3, <3>1 DEF SoundPlan
  <2>5. k \in DOMAIN f /\ d[k] \subseteq DOMAIN f
    BY <2>4 DEF PendingTasks, SoundPlan
  <2>6. AllDepsPassed(k, f, d)
    BY <2>2, <2>4, <2>5 DEF AllDepsPassed, PendingTasks
  <2> QED BY <1>3, <2>1, <2>4, <2>5, <2>6 DEF PendingTasks
<1> QED BY <1>1, <1>4, <1>5

(* The same of plan copies.                                                *)
LEMMA CleanPlan ==
    ASSUME IInv, \A d \in DepChoices : SoundPlan(d),
           NEW p, NEW sc, GoodCopy(p, deps, sc), Clean(p.tasks)
    PROVE  /\ DOMAIN EvaluatedPlan(p).tasks = DOMAIN p.tasks
           /\ Clean(EvaluatedPlan(p).tasks)
           /\ ReadyTasks(EvaluatedPlan(p).tasks) = {} => AllPassed(p.tasks)
<1>1. CASE p.id = 0
  BY <1>1 DEF EvaluatedPlan, GoodCopy, AllPassed
<1>2. CASE p.id # 0
  <2>1. p \in Plan /\ DOMAIN p.tasks = DOMAIN deps[p.id]
    BY <1>2 DEF GoodCopy
  <2>2. p.id \in PlanIds
    BY <1>2, <2>1, BoundsAssumption DEF Plan, PlanIds
  <2>3. SoundPlan(deps[p.id])
    BY <2>2 DEF IInv, SharedOK
  <2>4. EvaluatedPlan(p).tasks = Evaluated(p.tasks, deps[p.id])
    BY <1>2, <2>1 DEF EvaluatedPlan, Plan
  <2> QED BY <2>1, <2>3, <2>4, CleanEvaluation
<1> QED BY <1>1, <1>2

(* The one thread moves.                                                   *)
LEMMA DoneStep ==
    ASSUME IInv, OneAtATime, NEW t \in Threads, NEW r, Become(t, r),
           ThreadDone(r, state', plan')
    PROVE  DoneInv'
<1>1. \A u \in Threads : th'[u] = r
  BY DEF IInv, OneAtATime, Become
<1> QED BY <1>1 DEF DoneInv

LEMMA DoneFacts ==
    ASSUME IInv, DoneInv, NEW t \in Threads
    PROVE  /\ Position(th[t], state) /\ Truthful(th[t], state, plan)
           /\ th[t] \in Thread /\ th[t].after \in Resumable
  BY DEF DoneInv, ThreadDone, IInv, ThreadOK

(* The points nothing is claimed at but that the row is clean.             *)
Unclaimed == {"g_await", "g_request", "g_error", "ctx", "pl_ctx",
              "ctx_commit", "pl_synth", "pl_expire", "pl_await",
              "pl_request", "cx_mark", "cx_commit", "rj_load", "rj_resolve",
              "rj_transition", "aa_load"}

LEMMA UnclaimedDone ==
    ASSUME NEW r, NEW st, NEW p, r.pc \in Unclaimed,
           st \in BeforeExecution => Clean(p.tasks)
    PROVE  ThreadDone(r, st, p)
  BY DEF Unclaimed, ThreadDone, Position, Truthful

LEMMA IdleDone ==
    ASSUME NEW st, NEW p, st \in BeforeExecution => Clean(p.tasks)
    PROVE  ThreadDone(Idle, st, p)
  BY DEF Idle, ThreadDone, Position, Truthful

LEMMA ReturnDone ==
    ASSUME IInv, DoneInv, OneAtATime, NEW t \in Threads, Return(t),
           state' \in BeforeExecution => Clean(plan'.tasks)
    PROVE  DoneInv'
  BY IdleDone, DoneStep DEF Return

LEMMA GotoDone ==
    ASSUME IInv, DoneInv, OneAtATime, NEW t \in Threads, NEW pc \in Unclaimed,
           Goto(t, pc), state' \in BeforeExecution => Clean(plan'.tasks)
    PROVE  DoneInv'
<1> DEFINE r == [th[t] EXCEPT !.pc = pc]
<1>1. r.pc = pc
  BY DoneFacts DEF Thread
<1> HIDE DEF r
<1>2. ThreadDone(r, state', plan')
  BY <1>1, UnclaimedDone
<1> QED BY <1>2, DoneStep DEF Goto, r

(* transition_state's first half.                                          *)
LEMMA TransitionDone ==
    ASSUME IInv, DoneInv, OneAtATime, NEW t \in Threads, NEW from, NEW to,
           NEW then \in {"idle", "g_enter", "g_request", "pl_ctx",
                         "pl_request", "bg_load"},
           TransitionTo(t, from, to, then), unchangedRun,
           then \in {"g_enter", "bg_load"} \/ to \in BeforeExecution
              => state \in BeforeExecution,
           then = "g_enter" => to = "UNDERSTANDING",
           to = "COMPLETED" /\ state = "EXECUTING" => AllPassed(plan.tasks)
    PROVE  DoneInv'
<1>1. state' = state /\ plan' = plan
  BY DEF unchangedRun
<1>2. state \in BeforeExecution => Clean(plan.tasks)
  BY DoneFacts DEF Truthful
<1>3. CASE Return(t)
  BY <1>1, <1>2, <1>3, ReturnDone
<1>4. CASE Become(t, [th[t] EXCEPT !.pc = "commit", !.goal = to,
                                   !.after = then])
  <2> DEFINE r == [th[t] EXCEPT !.pc = "commit", !.goal = to, !.after = then]
  <2>1. r.pc = "commit" /\ r.goal = to /\ r.after = then
    BY DoneFacts DEF Thread
  <2> HIDE DEF r
  <2>2. Position(r, state)
    BY <2>1 DEF Position
  <2>3. Truthful(r, state, plan)
    BY <1>2, <2>1 DEF Truthful
  <2> QED BY <1>1, <1>4, <2>2, <2>3, DoneStep DEF ThreadDone, r
<1> QED BY <1>3, <1>4 DEF TransitionTo

(* The end of transition_state.                                            *)
LEMMA CommitDone ==
    ASSUME IInv, DoneInv, OneAtATime, NEW t \in Threads, Commit(t)
    PROVE  DoneInv'
<1>1. /\ Position(th[t], state) /\ Truthful(th[t], state, plan)
      /\ th[t].pc = "commit" /\ state' = th[t].goal /\ plan' = plan
      /\ Become(t, Continued(t))
  BY DoneFacts DEF Commit
<1>2. state' \in BeforeExecution => Clean(plan'.tasks)
  BY <1>1 DEF Position, Truthful
<1>3. CASE th[t].after = "idle"
  BY <1>1, <1>2, <1>3, IdleDone, DoneStep DEF Continued
<1>4. CASE th[t].after # "idle"
  <2> DEFINE r == Continued(t)
  <2>1. r.pc = th[t].after /\ r.after = th[t].after /\ r.failed = FALSE
    BY <1>4 DEF Continued, Idle
  <2> HIDE DEF r
  <2>2. r.pc \in Unclaimed \cup {"g_enter", "bg_load"}
    BY <1>1, <1>4, <2>1 DEF Position, Unclaimed
  <2>3. CASE r.pc \in Unclaimed
    BY <1>1, <1>2, <2>3, UnclaimedDone, DoneStep DEF r
  <2>4. CASE r.pc = "g_enter"
    <3>1. state' \in BeforeExecution
      BY <1>1, <2>1, <2>4 DEF Position, BeforeExecution
    <3>2. ThreadDone(r, state', plan')
      BY <1>2, <2>1, <2>4, <3>1 DEF ThreadDone, Position, Truthful
    <3> QED BY <1>1, <3>2, DoneStep DEF r
  <2>5. CASE r.pc = "bg_load"
    <3>1. Clean(plan'.tasks)
      BY <1>1, <2>1, <2>5 DEF Position, Truthful
    <3>2. ThreadDone(r, state', plan')
      BY <2>1, <2>5, <3>1 DEF ThreadDone, Position, Truthful
    <3> QED BY <1>1, <3>2, DoneStep DEF r
  <2> QED BY <2>2, <2>3, <2>4, <2>5
<1> QED BY <1>3, <1>4

(* A step that only loads and decides.                                     *)
LEMMA QuietDone ==
    ASSUME IInv, OneAtATime, NEW t \in Threads, NEW r, Become(t, r),
           unchangedRun, ThreadDone(r, state, plan)
    PROVE  DoneInv'
  BY DoneStep DEF unchangedRun

LEMMA RowDone ==
    ASSUME IInv, DoneInv
    PROVE  state \in BeforeExecution => Clean(plan.tasks)
  BY ThreadsAssumption, DoneFacts DEF Truthful

(* The graph.                                                              *)
LEMMA CreateDone ==
    ASSUME IInv, DoneInv, OneAtATime, NEW t \in Threads, Create(t)
    PROVE  DoneInv'
<1>1. state \in BeforeExecution
  BY DoneFacts DEF Create, Position
<1> QED BY <1>1, TransitionDone DEF Create, BeforeExecution

LEMMA GraphEnterDone ==
    ASSUME IInv, DoneInv, OneAtATime, NEW t \in Threads, GraphEnter(t)
    PROVE  DoneInv'
<1> DEFINE r == [th[t] EXCEPT !.pc = "sync", !.after = "g_route",
                              !.entered = state]
<1>1. r.pc = "sync" /\ r.after = "g_route"
  BY DoneFacts DEF Thread
<1> HIDE DEF r
<1>2. state \in BeforeExecution
  BY DoneFacts DEF GraphEnter, Position
<1>3. ThreadDone(r, state, plan)
  BY <1>1, <1>2, RowDone DEF ThreadDone, Position, Truthful
<1> QED BY <1>3, QuietDone DEF GraphEnter, r

LEMMA SyncLoadDone ==
    ASSUME IInv, DoneInv, OneAtATime, NEW t \in Threads, SyncLoad(t)
    PROVE  DoneInv'
<1> DEFINE r == [th[t] EXCEPT !.pc = "sync_commit", !.local = plan]
<1>1. r.pc = "sync_commit"
  BY DoneFacts DEF Thread
<1> HIDE DEF r
<1>2. state \in BeforeExecution
  BY DoneFacts DEF SyncLoad, Position
<1>3. ThreadDone(r, state, plan)
  BY <1>1, <1>2, RowDone DEF ThreadDone, Position, Truthful
<1> QED BY <1>3, QuietDone DEF SyncLoad, r

LEMMA SyncCommitDone ==
    ASSUME IInv, SeqInv, DoneInv, OneAtATime, NEW t \in Threads, SyncCommit(t)
    PROVE  DoneInv'
<1> DEFINE r == [Continued(t) EXCEPT !.local = NoPlan]
<1>1. th[t].after \in {"g_route", "g_info"}
  BY DEF SyncCommit, IInv, ThreadOK
<1>2. r.pc = th[t].after /\ r.after = th[t].after
  BY <1>1 DEF Continued, Idle
<1>3. Become(t, r)
  BY DEF SyncCommit
<1> HIDE DEF r
<1>4. plan' = plan /\ state' = state
  BY SeqFacts DEF SyncCommit, ThreadSeq, CopyCurrent
<1>5. state \in BeforeExecution
  BY DoneFacts DEF SyncCommit, Position
<1>6. ThreadDone(r, state', plan')
  BY <1>1, <1>2, <1>4, <1>5, RowDone DEF ThreadDone, Position, Truthful
<1> QED BY <1>3, <1>6, DoneStep

LEMMA GraphRouteDone ==
    ASSUME IInv, DoneInv, OneAtATime, NEW t \in Threads, GraphRoute(t)
    PROVE  DoneInv'
<1>1. state \in BeforeExecution /\ state' = state /\ plan' = plan
      /\ unchangedRun
  BY DoneFacts DEF GraphRoute, Position, unchangedRun
<1>2. ASSUME NEW pc \in {"sync", "g_synth"}, NEW after \in {"g_info", "g_await"},
             Become(t, [th[t] EXCEPT !.pc = pc, !.after = after])
      PROVE  DoneInv'
  <2> DEFINE r == [th[t] EXCEPT !.pc = pc, !.after = after]
  <2>1. r.pc = pc /\ r.after = after
    BY DoneFacts DEF Thread
  <2> HIDE DEF r
  <2>2. ThreadDone(r, state, plan)
    BY <1>1, <2>1, RowDone DEF ThreadDone, Position, Truthful
  <2> QED BY <1>1, <1>2, <2>2, QuietDone DEF r
<1>3. CASE Goto(t, "g_error")
  BY <1>1, <1>3, RowDone, GotoDone DEF Unclaimed
<1> QED BY <1>2, <1>3 DEF GraphRoute

LEMMA NewPlanClean ==
    ASSUME NEW id PROVE Clean(NewPlan(id).tasks)
  BY DEF Clean, NewPlan

LEMMA SynthesisedDone ==
    ASSUME IInv, DoneInv, OneAtATime, NEW t \in Threads,
           NEW pc \in {"g_write", "pl_write"}, Synthesised(t, pc),
           pc = "g_write" => th[t].pc = "g_synth"
    PROVE  DoneInv'
<1> DEFINE r == [th[t] EXCEPT !.pc = pc, !.local = NewPlan(planned + 1)]
<1>1. /\ r.pc = pc /\ r.local = NewPlan(planned + 1)
      /\ r.after = th[t].after /\ state' = state /\ plan' = plan
      /\ Become(t, r)
  BY DoneFacts DEF Thread, Synthesised
<1>2. Clean(r.local.tasks)
  BY <1>1, NewPlanClean
<1> HIDE DEF r
<1>3. pc = "g_write" =>
         state \in BeforeExecution /\ r.after \in {"g_info", "g_await"}
  BY <1>1, DoneFacts DEF Position
<1>4. ThreadDone(r, state', plan')
  BY <1>1, <1>2, <1>3, RowDone DEF ThreadDone, Position, Truthful
<1> QED BY <1>1, <1>4, DoneStep

LEMMA GraphSynthDone ==
    ASSUME IInv, DoneInv, OneAtATime, NEW t \in Threads, GraphSynth(t)
    PROVE  DoneInv'
<1>1. CASE Synthesised(t, "g_write")
  BY <1>1, SynthesisedDone DEF GraphSynth
<1>2. CASE Goto(t, "g_error") /\ unchangedRun
  BY <1>2, RowDone, GotoDone DEF Unclaimed, unchangedRun
<1> QED BY <1>1, <1>2 DEF GraphSynth

LEMMA GraphWriteDone ==
    ASSUME IInv, DoneInv, OneAtATime, NEW t \in Threads, GraphWrite(t)
    PROVE  DoneInv'
<1> DEFINE r == Continued(t)
<1>1. /\ state \in BeforeExecution /\ th[t].after \in {"g_info", "g_await"}
      /\ Clean(th[t].local.tasks)
  BY DoneFacts DEF GraphWrite, Position, Truthful
<1>2. r.pc = th[t].after /\ r.after = th[t].after
  BY <1>1 DEF Continued, Idle
<1> HIDE DEF r
<1>3. ThreadDone(r, state', plan')
  BY <1>1, <1>2 DEF GraphWrite, ThreadDone, Position, Truthful
<1> QED BY <1>3, DoneStep DEF GraphWrite, r

LEMMA GraphInfoDone ==
    ASSUME IInv, DoneInv, OneAtATime, NEW t \in Threads, GraphInfo(t)
    PROVE  DoneInv'
<1>1. state \in BeforeExecution
  BY DoneFacts DEF GraphInfo, Position
<1>2. state # "EXECUTING" /\ "COMPLETED" \notin BeforeExecution
  BY <1>1 DEF BeforeExecution
<1>3. CASE Return(t)
  BY <1>3, RowDone, ReturnDone DEF GraphInfo, unchangedRun
<1> QED BY <1>2, <1>3, TransitionDone DEF GraphInfo

LEMMA GraphAwaitDone ==
    ASSUME IInv, DoneInv, OneAtATime, NEW t \in Threads, GraphAwait(t)
    PROVE  DoneInv'
<1>1. CASE /\ state \in {"IDLE", "UNDERSTANDING", "PLANNING"}
           /\ TransitionTo(t, state, "AWAITING_APPROVAL", "g_request")
  BY <1>1, TransitionDone DEF GraphAwait, BeforeExecution
<1>2. CASE Goto(t, "g_request")
  BY <1>2, RowDone, GotoDone DEF GraphAwait, Unclaimed, unchangedRun
<1> QED BY <1>1, <1>2 DEF GraphAwait

LEMMA GraphErrorDone ==
    ASSUME IInv, DoneInv, OneAtATime, NEW t \in Threads, GraphError(t)
    PROVE  DoneInv'
<1>1. CASE Return(t)
  BY <1>1, RowDone, ReturnDone DEF GraphError, unchangedRun
<1> QED BY <1>1, TransitionDone DEF GraphError, BeforeExecution

(* Plans, context and approval requests.                                   *)
LEMMA RequestApprovalDone ==
    ASSUME IInv, DoneInv, OneAtATime, NEW t \in Threads, RequestApproval(t)
    PROVE  DoneInv'
  BY RowDone, ReturnDone DEF RequestApproval

LEMMA PlanBeginDone ==
    ASSUME IInv, DoneInv, OneAtATime, NEW t \in Threads, NEW force \in BOOLEAN,
           PlanBegin(t, force)
    PROVE  DoneInv'
<1>1. CASE /\ state \in {"IDLE", "UNDERSTANDING", "AWAITING_APPROVAL"}
           /\ TransitionTo(t, state, "PLANNING", "pl_ctx")
  BY <1>1, TransitionDone DEF PlanBegin, BeforeExecution
<1>2. CASE Goto(t, "pl_ctx")
  BY <1>2, RowDone, GotoDone DEF PlanBegin, Unclaimed, unchangedRun
<1> QED BY <1>1, <1>2 DEF PlanBegin

LEMMA ContextBeginDone ==
    ASSUME IInv, DoneInv, OneAtATime, NEW t \in Threads, ContextBegin(t)
    PROVE  DoneInv'
  BY RowDone, GotoDone DEF ContextBegin, Unclaimed, unchangedRun

LEMMA ContextLoadDone ==
    ASSUME IInv, DoneInv, OneAtATime, NEW t \in Threads, ContextLoad(t)
    PROVE  DoneInv'
<1>1. CASE Return(t)
  BY <1>1, RowDone, ReturnDone DEF ContextLoad, unchangedRun
<1>2. ASSUME NEW after,
             Become(t, [th[t] EXCEPT !.pc = "ctx_commit", !.local = plan,
                                     !.after = after])
      PROVE  DoneInv'
  <2> DEFINE r == [th[t] EXCEPT !.pc = "ctx_commit", !.local = plan,
                                !.after = after]
  <2>1. r.pc \in Unclaimed
    BY DoneFacts DEF Thread, Unclaimed
  <2> HIDE DEF r
  <2> QED BY <1>2, <2>1, RowDone, UnclaimedDone, QuietDone
          DEF ContextLoad, r
<1> QED BY <1>1, <1>2 DEF ContextLoad

LEMMA ContextCommitDone ==
    ASSUME IInv, SeqInv, DoneInv, OneAtATime, NEW t \in Threads,
           ContextCommit(t)
    PROVE  DoneInv'
<1>1. plan' = plan /\ state' = state
  BY SeqFacts DEF ContextCommit, ThreadSeq, CopyCurrent
<1>2. CASE Return(t)
  BY <1>1, <1>2, RowDone, ReturnDone
<1>3. CASE Become(t, [Continued(t) EXCEPT !.local = NoPlan])
  <2> DEFINE r == [Continued(t) EXCEPT !.local = NoPlan]
  <2>1. th[t].after \in {"pl_synth", "idle"}
    BY DEF ContextCommit, IInv, ThreadOK
  <2>2. r.pc = th[t].after /\ r.after = th[t].after
    BY <2>1 DEF Continued, Idle
  <2> HIDE DEF r
  <2>3. ThreadDone(r, state', plan')
    BY <1>1, <2>1, <2>2, RowDone DEF ThreadDone, Position, Truthful
  <2> QED BY <1>3, <2>3, DoneStep DEF r
<1> QED BY <1>2, <1>3 DEF ContextCommit

LEMMA PlanSynthDone ==
    ASSUME IInv, DoneInv, OneAtATime, NEW t \in Threads, PlanSynth(t)
    PROVE  DoneInv'
<1>1. CASE Synthesised(t, "pl_write")
  BY <1>1, SynthesisedDone
<1>2. CASE Return(t) /\ unchangedRun
  BY <1>2, RowDone, ReturnDone DEF unchangedRun
<1> QED BY <1>1, <1>2 DEF PlanSynth

LEMMA PlanWriteDone ==
    ASSUME IInv, DoneInv, OneAtATime, NEW t \in Threads, PlanWrite(t)
    PROVE  DoneInv'
<1>1. Clean(plan'.tasks)
  BY DoneFacts DEF PlanWrite, Truthful
<1> QED BY <1>1, ReturnDone, GotoDone DEF PlanWrite, Unclaimed

LEMMA PlanExpireDone ==
    ASSUME IInv, DoneInv, OneAtATime, NEW t \in Threads, PlanExpire(t)
    PROVE  DoneInv'
  BY RowDone, GotoDone DEF PlanExpire, Unclaimed

LEMMA PlanAwaitDone ==
    ASSUME IInv, DoneInv, OneAtATime, NEW t \in Threads, PlanAwait(t)
    PROVE  DoneInv'
<1>1. CASE /\ state = "PLANNING"
           /\ TransitionTo(t, state, "AWAITING_APPROVAL", "pl_request")
  BY <1>1, TransitionDone DEF PlanAwait, BeforeExecution
<1>2. CASE Goto(t, "pl_request")
  BY <1>2, RowDone, GotoDone DEF PlanAwait, Unclaimed, unchangedRun
<1> QED BY <1>1, <1>2 DEF PlanAwait

(* Approval and the start of the execution.                                *)
LEMMA StartDone ==
    ASSUME IInv, SeqInv, DoneInv, OneAtATime,
           \A d \in DepChoices : SoundPlan(d),
           NEW t \in Threads, NEW moved \in BOOLEAN, StartChecks(t, moved),
           unchangedRun, state = "AWAITING_APPROVAL"
    PROVE  DoneInv'
<1>1. CASE Return(t)
  BY <1>1, RowDone, ReturnDone DEF unchangedRun
<1>2. CASE Become(t, [Idle EXCEPT !.pc = "st_save",
                                  !.local = EvaluatedPlan(plan)])
  <2> DEFINE r == [Idle EXCEPT !.pc = "st_save", !.local = EvaluatedPlan(plan)]
  <2>1. Clean(plan.tasks) /\ GoodCopy(plan, deps, succeeded)
    BY RowDone DEF BeforeExecution, IInv, SharedOK
  <2>2. Clean(EvaluatedPlan(plan).tasks)
    BY <2>1, CleanPlan
  <2>3. r.pc = "st_save" /\ r.after = "idle" /\ Clean(r.local.tasks)
    BY <2>2 DEF Idle
  <2> HIDE DEF r
  <2>4. ThreadDone(r, state, plan)
    BY <2>1, <2>3 DEF ThreadDone, Position, Truthful
  <2> QED BY <1>2, <2>4, QuietDone DEF r
<1> QED BY <1>1, <1>2 DEF StartChecks

LEMMA ApproveBeginDone ==
    ASSUME IInv, SeqInv, DoneInv, OneAtATime,
           \A d \in DepChoices : SoundPlan(d),
           NEW t \in Threads, ApproveBegin(t)
    PROVE  DoneInv'
<1>1. CASE Become(t, [th[t] EXCEPT !.pc = "ap_write",
                         !.local = [plan EXCEPT !.status = "APPROVED"]])
  <2> DEFINE p == [plan EXCEPT !.status = "APPROVED"]
             r == [th[t] EXCEPT !.pc = "ap_write", !.local = p]
  <2>1. Clean(plan.tasks) /\ plan \in Plan
    BY RowDone, SeqFacts DEF ApproveBegin, BeforeExecution
  <2>2. p.tasks = plan.tasks
    BY <2>1 DEF Plan
  <2>3. r.pc = "ap_write" /\ r.local = p
    BY DoneFacts DEF Thread
  <2> HIDE DEF r, p
  <2>4. ThreadDone(r, state, plan)
    BY <2>1, <2>2, <2>3 DEF ApproveBegin, ThreadDone, Position, Truthful
  <2> QED BY <1>1, <2>4, QuietDone DEF ApproveBegin, r, p
<1> QED BY <1>1, StartDone DEF ApproveBegin

LEMMA ApproveWriteDone ==
    ASSUME IInv, DoneInv, OneAtATime, NEW t \in Threads, ApproveWrite(t)
    PROVE  DoneInv'
<1> DEFINE r == [th[t] EXCEPT !.pc = "ap_find"]
<1>1. r.pc = "ap_find"
  BY DoneFacts DEF Thread
<1> HIDE DEF r
<1>2. Clean(th[t].local.tasks) /\ state = "AWAITING_APPROVAL"
  BY DoneFacts DEF ApproveWrite, Position, Truthful
<1>3. ThreadDone(r, state', plan')
  BY <1>1, <1>2 DEF ApproveWrite, ThreadDone, Position, Truthful
<1> QED BY <1>3, DoneStep DEF ApproveWrite, Goto, r

LEMMA ApproverDone ==
    ASSUME IInv, DoneInv, OneAtATime, NEW t \in Threads, NEW i,
           state = "AWAITING_APPROVAL", state' = state, plan' = plan,
           Become(t, [Idle EXCEPT !.pc = "resolve", !.req = i,
                                  !.goal = "APPROVED", !.after = "st_load"])
    PROVE  DoneInv'
<1> DEFINE r == [Idle EXCEPT !.pc = "resolve", !.req = i,
                             !.goal = "APPROVED", !.after = "st_load"]
<1>1. r.pc = "resolve" /\ r.after = "st_load"
  BY DEF Idle
<1> HIDE DEF r
<1>2. ThreadDone(r, state, plan)
  BY <1>1, RowDone DEF ThreadDone, Position, Truthful
<1> QED BY <1>2, DoneStep DEF r

LEMMA ApproveFindDone ==
    ASSUME IInv, DoneInv, OneAtATime, NEW t \in Threads, ApproveFind(t)
    PROVE  DoneInv'
<1>1. state = "AWAITING_APPROVAL" /\ state' = state /\ plan' = plan
  BY DoneFacts DEF ApproveFind, Position, unchangedRun
<1>2. ASSUME NEW i,
             Become(t, [Idle EXCEPT !.pc = "resolve", !.req = i,
                                    !.goal = "APPROVED", !.after = "st_load"])
      PROVE  DoneInv'
  BY <1>1, <1>2, ApproverDone
<1>3. CASE Become(t, [Idle EXCEPT !.pc = "st_load"])
  <2> DEFINE r == [Idle EXCEPT !.pc = "st_load"]
  <2>1. r.pc = "st_load" /\ r.after = "idle"
    BY DEF Idle
  <2> HIDE DEF r
  <2>2. ThreadDone(r, state, plan)
    BY <1>1, <2>1, RowDone DEF ThreadDone, Position, Truthful
  <2> QED BY <1>1, <1>3, <2>2, DoneStep DEF r
<1>4. CASE Goto(t, "ap_create")
  <2> DEFINE r == [th[t] EXCEPT !.pc = "ap_create"]
  <2>1. r.pc = "ap_create"
    BY DoneFacts DEF Thread
  <2> HIDE DEF r
  <2>2. ThreadDone(r, state, plan)
    BY <1>1, <2>1, RowDone DEF ThreadDone, Position, Truthful
  <2> QED BY <1>1, <1>4, <2>2, DoneStep DEF Goto, r
<1> QED BY <1>2, <1>3, <1>4 DEF ApproveFind

LEMMA ApproveCreateDone ==
    ASSUME IInv, DoneInv, OneAtATime, NEW t \in Threads, ApproveCreate(t)
    PROVE  DoneInv'
<1>1. state = "AWAITING_APPROVAL" /\ state' = state /\ plan' = plan
  BY DoneFacts DEF ApproveCreate, Position
<1> QED BY <1>1, ApproverDone DEF ApproveCreate

LEMMA ResolveDone ==
    ASSUME IInv, DoneInv, OneAtATime, NEW t \in Threads, Resolve(t)
    PROVE  DoneInv'
<1> DEFINE r == Continued(t)
<1>1. th[t].after \in {"st_load", "rj_resolve", "aa_load"}
  BY DEF Resolve, IInv, ThreadOK
<1>2. r.pc = th[t].after /\ r.after = th[t].after
  BY <1>1 DEF Continued, Idle
<1>3. state' = state /\ plan' = plan /\ Become(t, r)
  BY DEF Resolve
<1> HIDE DEF r
<1>4. r.pc = "st_load" => state = "AWAITING_APPROVAL"
  BY <1>2, DoneFacts DEF Resolve, Position
<1>5. ThreadDone(r, state, plan)
  BY <1>1, <1>2, <1>4, RowDone DEF ThreadDone, Position, Truthful
<1> QED BY <1>3, <1>5, DoneStep

LEMMA StartLoadDone ==
    ASSUME IInv, SeqInv, DoneInv, OneAtATime,
           \A d \in DepChoices : SoundPlan(d),
           NEW t \in Threads, StartLoad(t)
    PROVE  DoneInv'
<1>1. state = "AWAITING_APPROVAL"
  BY DoneFacts DEF StartLoad, Position
<1> QED BY <1>1, StartDone DEF StartLoad

LEMMA ExecuteBeginDone ==
    ASSUME IInv, SeqInv, DoneInv, OneAtATime,
           \A d \in DepChoices : SoundPlan(d),
           NEW t \in Threads, ExecuteBegin(t)
    PROVE  DoneInv'
  BY StartDone DEF ExecuteBegin

LEMMA StartSaveDone ==
    ASSUME IInv, DoneInv, OneAtATime, NEW t \in Threads, StartSave(t)
    PROVE  DoneInv'
<1> DEFINE r == [Idle EXCEPT !.pc = "st_transition"]
<1>1. r.pc = "st_transition" /\ r.after = "idle"
  BY DEF Idle
<1> HIDE DEF r
<1>2. Clean(th[t].local.tasks) /\ state = "AWAITING_APPROVAL"
  BY DoneFacts DEF StartSave, Position, Truthful
<1>3. ThreadDone(r, state', plan')
  BY <1>1, <1>2 DEF StartSave, ThreadDone, Position, Truthful
<1> QED BY <1>3, DoneStep DEF StartSave, r

LEMMA StartTransitionDone ==
    ASSUME IInv, DoneInv, OneAtATime, NEW t \in Threads, StartTransition(t)
    PROVE  DoneInv'
<1>1. state = "AWAITING_APPROVAL"
  BY DoneFacts DEF StartTransition, Position
<1> QED BY <1>1, TransitionDone DEF StartTransition, BeforeExecution

(* The executor.                                                           *)
LEMMA NextBeginDone ==
    ASSUME IInv, DoneInv, OneAtATime, NEW t \in Threads, NextBegin(t)
    PROVE  DoneInv'
<1> DEFINE r == [th[t] EXCEPT !.pc = "bg_load"]
<1>1. r.pc = "bg_load" /\ r.after = "idle"
  BY DoneFacts DEF Thread, NextBegin, Position
<1> HIDE DEF r
<1>2. ThreadDone(r, state, plan)
  BY <1>1, RowDone DEF ThreadDone, Position, Truthful
<1> QED BY <1>2, QuietDone DEF NextBegin, Goto, r

LEMMA CompleteRunDone ==
    ASSUME IInv, DoneInv, OneAtATime, NEW t \in Threads, NEW from,
           NEW success \in BOOLEAN, CompleteRun(t, from, success),
           unchangedRun,
           success /\ state = "EXECUTING" => AllPassed(plan.tasks)
    PROVE  DoneInv'
<1>1. CASE Return(t)
  BY <1>1, RowDone, ReturnDone DEF unchangedRun
<1>2. CASE TransitionTo(t, from, IF success THEN "COMPLETED" ELSE "FAILED",
                        "idle")
  BY <1>2, TransitionDone DEF BeforeExecution
<1> QED BY <1>1, <1>2 DEF CompleteRun

LEMMA RaisedDone ==
    ASSUME IInv, DoneInv, OneAtATime, NEW t \in Threads, NEW from,
           Raised(t, from), unchangedRun
    PROVE  DoneInv'
<1>1. CASE Return(t)
  BY <1>1, RowDone, ReturnDone DEF unchangedRun
<1> QED BY <1>1, CompleteRunDone DEF Raised

(* The loop stops where nothing is READY: the run is a success only if     *)
(* everything passed.                                                      *)
LEMMA TaskSelectDone ==
    ASSUME IInv, DoneInv, OneAtATime, \A d \in DepChoices : SoundPlan(d),
           NEW t \in Threads, TaskSelect(t)
    PROVE  DoneInv'
<1> DEFINE p == EvaluatedPlan(plan)
           k == FirstReady(p.tasks)
           r == [th[t] EXCEPT !.pc = "bg_exec", !.task = k,
                              !.local = [p EXCEPT !.tasks[k] = "RUNNING"]]
<1>1. unchangedRun /\ GoodCopy(plan, deps, succeeded) /\ th[t].pc = "bg_load"
  BY DEF TaskSelect, IInv, SharedOK
<1>2. th[t].after = "bg_load" /\ ~th[t].failed => Clean(plan.tasks)
  BY <1>1, DoneFacts DEF Truthful
<1>3. CASE Raised(t, state)
  BY <1>1, <1>3, RaisedDone
<1>4. CASE ReadyTasks(p.tasks) = {} /\ Finished(t)
  <2>1. CASE Looping(t)
    <3>1. th[t].failed \in BOOLEAN
      BY DoneFacts DEF Thread
    <3>2. ~th[t].failed => AllPassed(plan.tasks)
      BY <1>1, <1>2, <1>4, <2>1, CleanPlan DEF Looping
    <3> QED BY <1>1, <1>4, <2>1, <3>1, <3>2, CompleteRunDone DEF Finished
  <2>2. CASE ~Looping(t)
    BY <1>1, <1>4, <2>2, RowDone, ReturnDone DEF Finished, unchangedRun
  <2> QED BY <2>1, <2>2
<1>5. CASE state = "EXECUTING" /\ Become(t, r)
  <2>1. /\ r.pc = "bg_exec" /\ r.task = k /\ r.after = th[t].after
        /\ r.failed = th[t].failed
        /\ r.local = [p EXCEPT !.tasks[k] = "RUNNING"]
    BY DoneFacts DEF Thread
  <2>2. p \in Plan
    BY <1>1, EvaluatedCopy DEF GoodCopy
  <2> HIDE DEF r, k, p
  <2>3. r.local.tasks = [p.tasks EXCEPT ![k] = "RUNNING"]
    BY <2>1, <2>2 DEF Plan
  <2>4. Clean(p.tasks) => Clean([r.local.tasks EXCEPT ![k] = "PASSED"])
    BY <2>3 DEF Clean
  <2>5. r.after = "bg_load" /\ ~r.failed =>
           /\ Clean(plan.tasks)
           /\ Clean([r.local.tasks EXCEPT ![r.task] = "PASSED"])
    BY <1>1, <1>2, <2>1, <2>4, CleanPlan DEF p
  <2>6. ThreadDone(r, state, plan)
    BY <1>5, <2>1, <2>5 DEF ThreadDone, Position, Truthful, BeforeExecution
  <2> QED BY <1>1, <1>5, <2>6, QuietDone
<1> QED BY <1>3, <1>4, <1>5 DEF TaskSelect

LEMMA TaskExecuteDone ==
    ASSUME IInv, SeqInv, DoneInv, OneAtATime,
           \A d \in DepChoices : SoundPlan(d),
           NEW t \in Threads, TaskExecute(t)
    PROVE  DoneInv'
<1> DEFINE p == th[t].local
           k == th[t].task
           q == WithStatus(p, k, "PASSED")
<1>1. /\ state = "EXECUTING" /\ state' = state /\ plan' = plan
      /\ th[t].pc = "bg_exec"
  BY SeqFacts DEF TaskExecute, ThreadSeq, StateKnown
<1>2. /\ GoodCopy(p, deps, succeeded) /\ k \in DOMAIN p.tasks /\ p \in Plan
      /\ p.id \in PlanIds
  <2>1. /\ GoodCopy(p, deps, succeeded)
        /\ MayExecute(th[t], deps, succeeded, approved)
    BY ThreadFacts DEF TaskExecute, ThreadOK
  <2>2. approved \subseteq PlanIds
    BY DEF IInv, SharedOK
  <2> QED BY <2>1, <2>2 DEF MayExecute, GoodCopy
<1>3. th[t].after = "bg_load" /\ ~th[t].failed =>
         Clean(plan.tasks) /\ Clean([p.tasks EXCEPT ![k] = "PASSED"])
  BY <1>1, DoneFacts DEF Truthful
<1>4. /\ GoodCopy(q, deps, succeeded \cup {<<p.id, k>>})
      /\ q.tasks = [p.tasks EXCEPT ![k] = "PASSED"]
  <2>1. GoodCopy(p, deps, succeeded \cup {<<p.id, k>>})
    BY <1>2, CopyKept
  <2>2. "PASSED" \in TaskStatus \ {"READY"}
    BY DEF TaskStatus
  <2>3. q.tasks = [p.tasks EXCEPT ![k] = "PASSED"]
    BY <1>2 DEF WithStatus, Plan
  <2> HIDE DEF p, k
  <2> QED BY <1>2, <2>1, <2>2, <2>3, OneTask
<1>5. CASE Become(t, [th[t] EXCEPT !.pc = "bg_write",
                         !.local = WithResult(p, k, "PASSED")])
  <2> DEFINE r == [th[t] EXCEPT !.pc = "bg_write",
                                !.local = WithResult(p, k, "PASSED")]
  <2>1. /\ r.pc = "bg_write" /\ r.local = EvaluatedPlan(q)
        /\ r.after = th[t].after /\ r.failed = th[t].failed
    BY DoneFacts DEF Thread, WithResult, WithStatus
  <2>2. Become(t, r)
    BY <1>5
  <2> HIDE DEF r, q, p, k
  <2>3. r.after = "bg_load" /\ ~r.failed =>
           Clean(plan.tasks) /\ Clean(r.local.tasks)
    BY <1>3, <1>4, <2>1, CleanPlan
  <2>4. ThreadDone(r, state, plan)
    BY <1>1, <2>1, <2>3 DEF ThreadDone, Position, Truthful, BeforeExecution
  <2> QED BY <1>1, <2>2, <2>4, DoneStep
<1>6. CASE Become(t, [th[t] EXCEPT !.pc = "bg_write", !.failed = TRUE,
                         !.local = WithResult(p, k, "FAILED")])
  <2> DEFINE r == [th[t] EXCEPT !.pc = "bg_write", !.failed = TRUE,
                                !.local = WithResult(p, k, "FAILED")]
  <2>1. r.pc = "bg_write" /\ r.failed
    BY DoneFacts DEF Thread
  <2>2. Become(t, r)
    BY <1>6
  <2> HIDE DEF r
  <2>3. ThreadDone(r, state, plan)
    BY <1>1, <2>1 DEF ThreadDone, Position, Truthful, BeforeExecution
  <2> QED BY <1>1, <2>2, <2>3, DoneStep
<1>7. CASE /\ \E from \in {"EXECUTING", state} : Raised(t, from)
           /\ UNCHANGED succeeded
  BY <1>7, RaisedDone DEF TaskExecute, unchangedRun
<1> QED BY <1>5, <1>6, <1>7 DEF TaskExecute

LEMMA TaskWriteDone ==
    ASSUME IInv, DoneInv, OneAtATime, NEW t \in Threads, TaskWrite(t)
    PROVE  DoneInv'
<1>1. /\ state' = "EXECUTING" /\ plan' = th[t].local
      /\ th[t].after = "bg_load" /\ ~th[t].failed => Clean(plan'.tasks)
  BY DoneFacts DEF TaskWrite, Position, Truthful
<1>2. CASE ~Looping(t)
  BY <1>1, <1>2, IdleDone, DoneStep DEF TaskWrite, BeforeExecution
<1>3. CASE Looping(t)
  <2> DEFINE r == [Idle EXCEPT !.pc = "bg_load", !.after = "bg_load",
                               !.failed = th[t].failed]
  <2>1. r.pc = "bg_load" /\ r.failed = th[t].failed
    BY DEF Idle
  <2>2. Become(t, r)
    BY <1>3 DEF TaskWrite
  <2> HIDE DEF r
  <2>3. ThreadDone(r, state', plan')
    BY <1>1, <1>3, <2>1
       DEF Looping, ThreadDone, Position, Truthful, BeforeExecution
  <2> QED BY <2>2, <2>3, DoneStep
<1> QED BY <1>2, <1>3

(* Cancellation, rejection, the approvals of actions, restarts.            *)
LEMMA CancelDone ==
    ASSUME IInv, DoneInv, OneAtATime, NEW t \in Threads,
           CancelBegin(t) \/ CancelMark(t) \/ CancelCommit(t)
    PROVE  DoneInv'
<1>1. CASE CancelBegin(t)
  BY <1>1, RowDone, GotoDone DEF CancelBegin, Unclaimed, unchangedRun
<1>2. CASE CancelMark(t)
  <2> DEFINE r == [th[t] EXCEPT !.pc = "cx_commit", !.local = plan]
  <2>1. r.pc \in Unclaimed
    BY DoneFacts DEF Thread, Unclaimed
  <2> HIDE DEF r
  <2> QED BY <1>2, <2>1, RowDone, UnclaimedDone, QuietDone DEF CancelMark, r
<1>3. CASE CancelCommit(t)
  BY <1>3, ReturnDone DEF CancelCommit, BeforeExecution
<1> QED BY <1>1, <1>2, <1>3

LEMMA RejectBeginDone ==
    ASSUME IInv, SeqInv, DoneInv, OneAtATime, NEW t \in Threads, RejectBegin(t)
    PROVE  DoneInv'
<1>1. CASE Goto(t, "rj_load")
  BY <1>1, RowDone, GotoDone DEF RejectBegin, Unclaimed, unchangedRun
<1>2. CASE Become(t, [th[t] EXCEPT !.pc = "rj_write",
                         !.local = [plan EXCEPT !.status = "REJECTED"]])
  <2> DEFINE p == [plan EXCEPT !.status = "REJECTED"]
             r == [th[t] EXCEPT !.pc = "rj_write", !.local = p]
  <2>1. Clean(plan.tasks) /\ plan \in Plan
    BY RowDone, SeqFacts DEF RejectBegin, BeforeExecution
  <2>2. p.tasks = plan.tasks
    BY <2>1 DEF Plan
  <2>3. r.pc = "rj_write" /\ r.local = p
    BY DoneFacts DEF Thread
  <2> HIDE DEF r, p
  <2>4. ThreadDone(r, state, plan)
    BY <2>1, <2>2, <2>3 DEF ThreadDone, Position, Truthful
  <2> QED BY <1>2, <2>4, QuietDone DEF RejectBegin, r, p
<1> QED BY <1>1, <1>2 DEF RejectBegin

LEMMA RejectWriteDone ==
    ASSUME IInv, DoneInv, OneAtATime, NEW t \in Threads, RejectWrite(t)
    PROVE  DoneInv'
<1> DEFINE r == [Idle EXCEPT !.pc = "rj_load"]
<1>1. r.pc \in Unclaimed
  BY DEF Idle, Unclaimed
<1> HIDE DEF r
<1>2. Clean(plan'.tasks)
  BY DoneFacts DEF RejectWrite, Truthful
<1> QED BY <1>1, <1>2, UnclaimedDone, DoneStep DEF RejectWrite, r

LEMMA RejectRowsDone ==
    ASSUME IInv, DoneInv, OneAtATime, NEW t \in Threads, NEW rows,
           RejectRows(t, rows), unchangedRun
    PROVE  DoneInv'
<1>1. CASE Goto(t, "rj_transition")
  BY <1>1, RowDone, GotoDone DEF Unclaimed, unchangedRun
<1>2. CASE Return(t)
  BY <1>2, RowDone, ReturnDone DEF unchangedRun
<1>3. ASSUME NEW i,
             Become(t, [th[t] EXCEPT !.pc = "resolve", !.req = i,
                           !.rows = rows \ {i}, !.goal = "REJECTED",
                           !.after = "rj_resolve"])
      PROVE  DoneInv'
  <2> DEFINE r == [th[t] EXCEPT !.pc = "resolve", !.req = i,
                      !.rows = rows \ {i}, !.goal = "REJECTED",
                      !.after = "rj_resolve"]
  <2>1. r.pc = "resolve" /\ r.after = "rj_resolve"
    BY DoneFacts DEF Thread
  <2> HIDE DEF r
  <2>2. ThreadDone(r, state, plan)
    BY <2>1, RowDone DEF ThreadDone, Position, Truthful
  <2> QED BY <1>3, <2>2, QuietDone DEF r
<1> QED BY <1>1, <1>2, <1>3 DEF RejectRows

LEMMA RejectEndDone ==
    ASSUME IInv, DoneInv, OneAtATime, NEW t \in Threads,
           RejectLoad(t) \/ RejectResolve(t) \/ RejectTransition(t)
    PROVE  DoneInv'
<1>1. CASE RejectLoad(t) \/ RejectResolve(t)
  BY <1>1, RejectRowsDone DEF RejectLoad, RejectResolve
<1>2. CASE RejectTransition(t)
  BY <1>2, TransitionDone DEF RejectTransition, BeforeExecution
<1> QED BY <1>1, <1>2

LEMMA ActionDone ==
    ASSUME IInv, DoneInv, OneAtATime, NEW t \in Threads,
           ActionBegin(t) \/ ActionLoad(t)
    PROVE  DoneInv'
<1>1. CASE ActionBegin(t)
  <2>1. PICK i \in Pending, verdict \in {"APPROVED", "REJECTED"} :
           Become(t, [th[t] EXCEPT !.pc = "resolve", !.req = i,
                                   !.goal = verdict, !.after = "aa_load"])
    BY <1>1 DEF ActionBegin
  <2> DEFINE r == [th[t] EXCEPT !.pc = "resolve", !.req = i, !.goal = verdict,
                                !.after = "aa_load"]
  <2>2. r.pc = "resolve" /\ r.after = "aa_load"
    BY DoneFacts DEF Thread
  <2> HIDE DEF r
  <2>3. ThreadDone(r, state, plan)
    BY <2>2, RowDone DEF ThreadDone, Position, Truthful
  <2> QED BY <1>1, <2>1, <2>3, QuietDone DEF ActionBegin, r
<1>2. CASE ActionLoad(t)
  <2>1. CASE Return(t)
    BY <1>2, <2>1, RowDone, ReturnDone DEF ActionLoad, unchangedRun
  <2> QED BY <1>2, <2>1, TransitionDone DEF ActionLoad, BeforeExecution
<1> QED BY <1>1, <1>2

LEMMA RestartDone == ASSUME IInv, DoneInv, Restart PROVE DoneInv'
<1>1. /\ \A u \in Threads : th'[u] = Idle
      /\ plan' = plan /\ state' \in {state, "FAILED"}
  BY DEF Restart
<1>2. ThreadDone(Idle, state', plan')
  BY <1>1, RowDone, IdleDone DEF BeforeExecution
<1> QED BY <1>1, <1>2 DEF DoneInv

LEMMA InitDone == Init /\ OneAtATime => DoneInv
<1> SUFFICES ASSUME Init, OneAtATime PROVE DoneInv
  OBVIOUS
<1>1. PICK c \in Threads :
         th = [t \in Threads |->
                  IF t = c THEN [Idle EXCEPT !.pc = "create"] ELSE Idle]
  BY DEF Init
<1> DEFINE r == [Idle EXCEPT !.pc = "create"]
<1>2. \A t \in Threads : th[t] = r
  BY <1>1 DEF OneAtATime
<1>3. r.pc = "create" /\ r.after = "idle"
  BY DEF Idle
<1> HIDE DEF r
<1>4. Clean(plan.tasks) /\ state \in BeforeExecution
  BY DEF Init, NoPlan, Clean, BeforeExecution
<1>5. ThreadDone(r, state, plan)
  BY <1>3, <1>4 DEF ThreadDone, Position, Truthful
<1> QED BY <1>2, <1>5 DEF DoneInv

LEMMA StepDone ==
    ASSUME OneAtATime, "transition" \notin Kinds,
           \A d \in DepChoices : SoundPlan(d)
    PROVE  IInv /\ SeqInv /\ DoneInv /\ [Next]_vars => DoneInv'
<1> SUFFICES ASSUME IInv, SeqInv, DoneInv, [Next]_vars PROVE DoneInv'
  OBVIOUS
<1>1. CASE Restart
  BY <1>1, RestartDone
<1>2. ASSUME NEW t \in Threads, Begin(t) PROVE DoneInv'
  BY <1>2, PlanBeginDone, ContextBeginDone, ApproveBeginDone,
     ExecuteBeginDone, NextBeginDone, CancelDone, RejectBeginDone, ActionDone
     DEF Begin
<1>3. ASSUME NEW t \in Threads,
             \/ Commit(t) \/ Create(t) \/ GraphEnter(t) \/ SyncLoad(t)
             \/ SyncCommit(t) \/ GraphRoute(t) \/ GraphSynth(t)
             \/ GraphWrite(t) \/ GraphInfo(t) \/ GraphAwait(t) \/ GraphError(t)
      PROVE  DoneInv'
  BY <1>3, CommitDone, CreateDone, GraphEnterDone, SyncLoadDone,
     SyncCommitDone, GraphRouteDone, GraphSynthDone, GraphWriteDone,
     GraphInfoDone, GraphAwaitDone, GraphErrorDone
<1>4. ASSUME NEW t \in Threads,
             \/ RequestApproval(t) \/ ContextLoad(t) \/ ContextCommit(t)
             \/ PlanSynth(t) \/ PlanWrite(t) \/ PlanExpire(t) \/ PlanAwait(t)
             \/ ApproveWrite(t) \/ ApproveFind(t) \/ ApproveCreate(t)
             \/ Resolve(t)
      PROVE  DoneInv'
  BY <1>4, RequestApprovalDone, ContextLoadDone, ContextCommitDone,
     PlanSynthDone, PlanWriteDone, PlanExpireDone, PlanAwaitDone,
     ApproveWriteDone, ApproveFindDone, ApproveCreateDone, ResolveDone
<1>5. ASSUME NEW t \in Threads,
             \/ StartLoad(t) \/ StartSave(t) \/ StartTransition(t)
             \/ TaskSelect(t) \/ TaskExecute(t) \/ TaskWrite(t)
             \/ CancelMark(t) \/ CancelCommit(t) \/ RejectWrite(t)
             \/ RejectLoad(t) \/ RejectResolve(t) \/ RejectTransition(t)
             \/ ActionLoad(t)
      PROVE  DoneInv'
  BY <1>5, StartLoadDone, StartSaveDone, StartTransitionDone, TaskSelectDone,
     TaskExecuteDone, TaskWriteDone, CancelDone, RejectWriteDone,
     RejectEndDone, ActionDone
<1>6. CASE UNCHANGED vars
  BY <1>6 DEF vars, DoneInv
<1> QED BY <1>1, <1>2, <1>3, <1>4, <1>5, <1>6 DEF Next, Serve

(* "Run completed successfully with all tasks passed": as long as requests *)
(* come one at a time, plans are sound and nobody uses the endpoint that   *)
(* moves a run to any state, the executor completes a run only when every  *)
(* task of the stored plan PASSED.  Each of the three is needed.           *)
THEOREM CompletionIsTruthful ==
    ASSUME OneAtATime, "transition" \notin Kinds,
           \A d \in DepChoices : SoundPlan(d)
    PROVE  Safety => []CompletedMeansAllPassed
<1>1. Init => DoneInv
  BY InitDone
<1>2. IInv /\ SeqInv /\ DoneInv /\ [Next]_vars => DoneInv'
  BY StepDone
<1>3. IInv /\ DoneInv => CompletedMeansAllPassed
  BY DoneFacts DEF CompletedMeansAllPassed, Truthful, AllPassed
<1> QED BY <1>1, <1>2, <1>3, Invariance, SequentialInvariance, PTL DEF Safety
=============================================================================
