-------------------------- MODULE ImportJobs_proofs --------------------------
(***************************************************************************)
(* What holds of imports for any number of jobs, generations, restarts and *)
(* faults: types, one analysis in progress per repository, finished jobs   *)
(* that stay finished, and unfinished rows that somebody works on.         *)
(*                                                                         *)
(* All of it rests on who may write a row.  A job is known to the queue or *)
(* to the worker, never to both and never twice; what waits in the queue   *)
(* has not been started; and where wait_for raises late cancellations, the *)
(* worker's job is unfinished or gone until it is unwinding.               *)
(***************************************************************************)
EXTENDS ImportJobs, SequenceTheorems, TLAPS

Status == Unfinished \cup Finished \cup {"none"}

(* Nothing is known of a job before it is created.                         *)
CreatedOK ==
    /\ worker.job <= created
    /\ \A j \in Jobs : j > created => status[j] = "none"

(* The queue holds jobs that were not started, each once.                  *)
QueueOK ==
    /\ \A i \in 1..Len(queue) :
          /\ queue[i] <= created
          /\ queue[i] # worker.job
          /\ status[queue[i]] \in {"Queued", "Cancelled", "none"}
    /\ \A i, k \in 1..Len(queue) : queue[i] = queue[k] => i = k

(* What the worker knows about the row of its job without looking.         *)
WorkerOK ==
    /\ worker.pc = "idle" <=> worker.job = 0
    /\ worker.pc = "unwinding" => status[worker.job] \in {"Cancelled", "none"}
    /\ runtime = "raises" /\ worker.pc \notin {"idle", "unwinding"}
          => status[worker.job] \in Unfinished \cup {"none"}

IInv == TypeOK /\ CreatedOK /\ QueueOK /\ WorkerOK /\ UnfinishedIsHeld
              /\ OneUnfinished

USE DEF Jobs, Generations

(* The sequence the queue is.                                              *)
LEMMA QueuedJobs == ASSUME TypeOK
                    PROVE  /\ Len(queue) \in Nat /\ DOMAIN queue = 1..Len(queue)
                           /\ \A i \in 1..Len(queue) : queue[i] \in Jobs
<1>1. queue \in Seq(Jobs)
  BY DEF TypeOK
<1> HIDE DEF Jobs
<1>2. Len(queue) \in Nat /\ DOMAIN queue = 1..Len(queue)
  BY <1>1, LenProperties
<1>3. \A i \in 1..Len(queue) : queue[i] \in Jobs
  BY <1>1, ElementOfSeq
<1> QED
  BY <1>2, <1>3

LEMMA NoWorkIsWork == NoWork \in Worker
BY BoundsAssumption DEF NoWork, Worker, WorkerPCs

(* The starting point.                                                     *)
LEMMA InitIInv == Init => IInv
<1> SUFFICES ASSUME Init PROVE IInv
  OBVIOUS
<1> USE DEF Init, NoWork, NoDelete
<1>1. TypeOK
  BY BoundsAssumption DEF TypeOK, Worker, WorkerPCs, Deleter, BlobPrefix
<1>2. CreatedOK /\ QueueOK /\ WorkerOK
  BY BoundsAssumption DEF CreatedOK, QueueOK, WorkerOK
<1>3. UnfinishedIsHeld /\ OneUnfinished
  BY DEF UnfinishedIsHeld, OneUnfinished, Unfinished
<1> QED
  BY <1>1, <1>2, <1>3 DEF IInv

----------------------------------------------------------------------------
(* The requests.                                                           *)

(* A new job: no other of its repository is unfinished, and neither the    *)
(* queue nor the worker knows it yet.                                      *)
LEMMA AddJobStep == ASSUME IInv, NEW g \in Generations, AddJob(g),
                           repo' \in 0..MaxRepos, gens' \in 0..MaxRepos
                    PROVE  IInv'
<1> USE DEF IInv, AddJob
<1> DEFINE new == created + 1
<1>0. new \in Jobs /\ status[new] = "none"
  BY BoundsAssumption DEF TypeOK, CreatedOK
<1>1. TypeOK'
  BY BoundsAssumption
     DEF TypeOK, Worker, WorkerPCs, Deleter, BlobPrefix, Unfinished, Finished
<1>2. CreatedOK'
  BY BoundsAssumption DEF TypeOK, CreatedOK, Worker
<1>3. QueueOK'
  <2>1. /\ Len(queue') = Len(queue) + 1
        /\ \A i \in 1..Len(queue) : queue'[i] = queue[i]
        /\ queue'[Len(queue) + 1] = new
    BY <1>0 DEF TypeOK
  <2>2. \A i \in 1..Len(queue) : queue[i] \in Jobs
    BY QueuedJobs
  <2>3. \A i \in 1..Len(queue) : queue[i] # new
    BY <2>2, <1>0 DEF TypeOK, QueueOK
  <2>4. worker.job # new /\ Len(queue) \in Nat /\ created' = new
    BY DEF TypeOK, CreatedOK, Worker
  <2>5. ASSUME NEW i \in 1..Len(queue')
        PROVE  /\ queue'[i] <= created'
               /\ queue'[i] # worker.job
               /\ status'[queue'[i]] \in {"Queued", "Cancelled", "none"}
    <3>1. CASE i \in 1..Len(queue)
      <4>1. queue'[i] = queue[i] /\ queue[i] # new /\ queue[i] \in Jobs
        BY <3>1, <2>1, <2>2, <2>3
      <4>2. status'[queue[i]] = status[queue[i]]
        BY <4>1 DEF TypeOK
      <4> QED
        BY <3>1, <4>1, <4>2, <2>4 DEF TypeOK, QueueOK
    <3>2. CASE i = Len(queue) + 1
      BY <3>2, <2>1, <2>4, <1>0 DEF TypeOK
    <3> QED
      BY <3>1, <3>2, <2>1, <2>4
  <2>6. ASSUME NEW i \in 1..Len(queue'), NEW k \in 1..Len(queue'),
               queue'[i] = queue'[k]
        PROVE  i = k
    <3>1. CASE i \in 1..Len(queue) /\ k \in 1..Len(queue)
      BY <3>1, <2>6, <2>1 DEF QueueOK
    <3> QED
      BY <3>1, <2>6, <2>1, <2>3, <2>4
  <2> QED
    BY <2>5, <2>6 DEF QueueOK
<1>4. WorkerOK'
  BY BoundsAssumption DEF TypeOK, CreatedOK, WorkerOK, Worker, Unfinished
<1>5. UnfinishedIsHeld'
  <2>1. /\ Len(queue') = Len(queue) + 1 /\ Len(queue) \in Nat
        /\ \A i \in 1..Len(queue) : queue'[i] = queue[i]
        /\ queue'[Len(queue) + 1] = new
        /\ DOMAIN queue = 1..Len(queue) /\ DOMAIN queue' = 1..Len(queue')
    BY <1>0 DEF TypeOK
  <2> SUFFICES ASSUME restarts = 0, faults = 0, NEW j \in Jobs,
                      status'[j] \in Unfinished
               PROVE  worker.job = j \/ \E i \in DOMAIN queue' : queue'[i] = j
    BY DEF UnfinishedIsHeld
  <2>2. CASE j = new
    BY <2>1, <2>2
  <2>3. CASE j # new
    <3>1. status[j] \in Unfinished
      BY <2>3 DEF TypeOK
    <3> QED
      BY <3>1, <2>1 DEF UnfinishedIsHeld
  <2> QED
    BY <2>2, <2>3
<1>6. OneUnfinished'
  BY <1>0 DEF TypeOK, OneUnfinished, Open, Rows, Unfinished
<1> QED
  BY <1>1, <1>2, <1>3, <1>4, <1>5, <1>6

(* A cancellation: the row is Cancelled whatever becomes of the task.      *)
LEMMA CancelStep == ASSUME IInv, Cancel PROVE IInv'
<1> USE DEF IInv, Cancel, CancelTask, Open, Rows, unchangedRepo
<1>1. TypeOK'
  <2>1. worker' \in Worker
    BY DEF TypeOK, Worker, WorkerPCs
  <2>2. status' \in [Jobs -> Status]
    BY DEF TypeOK, Status, Finished
  <2> QED
    BY <2>1, <2>2 DEF TypeOK, Status
<1>2. CreatedOK'
  BY BoundsAssumption DEF TypeOK, CreatedOK, Worker
<1>3. QueueOK'
  BY DEF TypeOK, QueueOK, Worker, Unfinished
<1>4. WorkerOK'
  BY DEF TypeOK, WorkerOK, Worker, Unfinished
<1>5. UnfinishedIsHeld'
  BY DEF TypeOK, UnfinishedIsHeld, Worker, Unfinished
<1>6. OneUnfinished'
  BY DEF TypeOK, OneUnfinished, Unfinished
<1> QED
  BY <1>1, <1>2, <1>3, <1>4, <1>5, <1>6

(* Steps that take rows away and leave queue and worker alone: those of a  *)
(* deletion.                                                               *)
RowsGo ==
    /\ \A j \in Jobs : status'[j] \in {status[j], "none"}
    /\ UNCHANGED <<runtime, created, gen, queue, worker, restarts, faults>>

LEMMA RowsGoStep == ASSUME IInv, TypeOK', RowsGo PROVE IInv'
<1> USE DEF IInv, RowsGo
<1>1. CreatedOK'
  BY DEF CreatedOK
<1>2. QueueOK'
  <2>1. \A i \in 1..Len(queue) : queue[i] \in Jobs
    BY QueuedJobs
  <2> QED
    BY <2>1 DEF QueueOK
<1>3. WorkerOK'
  BY DEF TypeOK, WorkerOK, Worker
<1>4. UnfinishedIsHeld'
  BY DEF UnfinishedIsHeld, Unfinished
<1>5. OneUnfinished'
  BY DEF OneUnfinished, Unfinished
<1> QED
  BY <1>1, <1>2, <1>3, <1>4, <1>5

LEMMA DeletionStep == ASSUME IInv, Deletion PROVE IInv'
<1>1. CASE DeleteBegin
  <2>1. TypeOK'
    BY <1>1 DEF IInv, TypeOK, DeleteBegin, Deleter, unchangedRepo
  <2>2. RowsGo
    BY <1>1 DEF DeleteBegin, RowsGo, unchangedRepo
  <2> QED
    BY <2>1, <2>2, RowsGoStep
<1>2. CASE DeleteCascade
  <2>1. TypeOK'
    BY <1>2 DEF IInv, TypeOK, DeleteCascade, Deleter, Rows, unchangedRepo
  <2>2. RowsGo
    BY <1>2 DEF DeleteCascade, RowsGo, unchangedRepo
  <2> QED
    BY <2>1, <2>2, RowsGoStep
<1>3. CASE DeleteCommit
  <2>1. TypeOK'
    BY <1>3, BoundsAssumption
       DEF IInv, TypeOK, DeleteCommit, NoDelete, Deleter
  <2>2. RowsGo
    BY <1>3 DEF DeleteCommit, RowsGo
  <2> QED
    BY <2>1, <2>2, RowsGoStep
<1> QED
  BY <1>1, <1>2, <1>3 DEF Deletion

----------------------------------------------------------------------------
(* The worker.                                                             *)

(* The queue's first job is taken, or skipped as it was cancelled.         *)
LEMMA TakeStep == ASSUME IInv, Take PROVE IInv'
<1> USE DEF IInv, Take, TakeWork, NoWork, unchangedRepo
<1> DEFINE j == Head(queue)
<1>0. /\ Len(queue) \in Nat /\ Len(queue) >= 1
      /\ j = queue[1] /\ j \in Jobs
      /\ Len(queue') = Len(queue) - 1
      /\ \A i \in 1..Len(queue') : queue'[i] = queue[i + 1]
      /\ DOMAIN queue = 1..Len(queue) /\ DOMAIN queue' = 1..Len(queue')
  <2>1. queue \in Seq(Jobs) /\ queue # <<>>
    BY DEF TypeOK
  <2>2. Len(queue) \in Nat /\ Len(queue) # 0 /\ DOMAIN queue = 1..Len(queue)
    BY <2>1, EmptySeq, LenProperties
  <2>3. /\ Head(queue) \in Jobs
        /\ Tail(queue) \in Seq(Jobs) /\ Len(Tail(queue)) = Len(queue) - 1
        /\ \A i \in 1..Len(Tail(queue)) : Tail(queue)[i] = queue[i + 1]
    BY <2>1, HeadTailProperties
  <2>5. Head(queue) = queue[1]
    BY <2>1
  <2>4. DOMAIN Tail(queue) = 1..Len(Tail(queue))
    BY <2>3, LenProperties
  <2> QED
    BY <2>2, <2>3, <2>4, <2>5
<1>1. TypeOK'
  <2>1. queue' \in Seq(Jobs)
    BY DEF TypeOK
  <2>2. worker' \in Worker
    BY <1>0, BoundsAssumption DEF Worker, WorkerPCs
  <2> QED
    BY <2>1, <2>2 DEF TypeOK
<1>2. CreatedOK'
  BY <1>0 DEF TypeOK, CreatedOK, QueueOK, Worker
<1>3. QueueOK'
  <2>1. \A i \in 1..Len(queue') : i + 1 \in 1..Len(queue) /\ i + 1 # 1
    BY <1>0
  <2>2. \A i \in 1..Len(queue') : queue'[i] # queue[1]
    BY <2>1, <1>0 DEF QueueOK
  <2>3. \A i \in 1..Len(queue') : queue'[i] # 0
    BY <2>1, <1>0, QueuedJobs
  <2>4. worker'.job \in {0, queue[1]}
    BY <1>0
  <2>5. \A i \in 1..Len(queue') :
           /\ queue'[i] <= created'
           /\ queue'[i] # worker'.job
           /\ status'[queue'[i]] \in {"Queued", "Cancelled", "none"}
    BY <2>1, <2>2, <2>3, <2>4, <1>0 DEF QueueOK
  <2>6. \A i, k \in 1..Len(queue') : queue'[i] = queue'[k] => i = k
    <3> SUFFICES ASSUME NEW i \in 1..Len(queue'), NEW k \in 1..Len(queue'),
                        queue'[i] = queue'[k]
                 PROVE  i = k
      OBVIOUS
    <3>1. i + 1 = k + 1
      BY <2>1, <1>0 DEF QueueOK
    <3> QED
      BY <3>1, <1>0
  <2> QED
    BY <2>5, <2>6 DEF QueueOK
<1>4. WorkerOK'
  BY <1>0 DEF TypeOK, QueueOK, WorkerOK, Worker, Unfinished
<1>5. UnfinishedIsHeld'
  <2> SUFFICES ASSUME restarts = 0, faults = 0, NEW k \in Jobs,
                      status[k] \in Unfinished
               PROVE  \/ worker'.job = k
                      \/ \E i \in DOMAIN queue' : queue'[i] = k
    BY DEF UnfinishedIsHeld
  <2>1. worker.job # k
    BY DEF WorkerOK
  <2>2. PICK i \in DOMAIN queue : queue[i] = k
    BY <2>1 DEF UnfinishedIsHeld
  <2>3. CASE i = 1
    BY <2>2, <2>3, <1>0 DEF Unfinished
  <2>4. CASE i # 1
    <3>1. i - 1 \in DOMAIN queue' /\ queue'[i - 1] = k
      BY <2>2, <2>4, <1>0
    <3> QED
      BY <3>1
  <2> QED
    BY <2>3, <2>4
<1>6. OneUnfinished'
  BY DEF OneUnfinished
<1> QED
  BY <1>1, <1>2, <1>3, <1>4, <1>5, <1>6

(* The worker gives its job the status s and goes on at pc, or ends.  It   *)
(* must not revive a finished job where cancellations are raised, not      *)
(* leave an unfinished one behind without a fault, and know the row it     *)
(* goes on with.                                                           *)
WorkerMove(s, pc) ==
    /\ worker.pc # "idle"
    /\ status' = [status EXCEPT ![worker.job] = s]
    /\ worker'.pc = pc
    /\ worker'.job = IF pc = "idle" THEN 0 ELSE worker.job
    /\ UNCHANGED <<runtime, created, gen, queue, restarts>>
    /\ faults' >= faults
    /\ s # "none" => status[worker.job] # "none"
    /\ runtime = "raises" /\ s \in Unfinished
          => status[worker.job] \in Unfinished
    /\ pc = "idle" /\ faults' = 0 => s \notin Unfinished
    /\ pc = "unwinding" => s \in {"Cancelled", "none"}
    /\ runtime = "raises" /\ pc \notin {"idle", "unwinding"}
          => s \in Unfinished \cup {"none"}

LEMMA WorkerMoveStep ==
    ASSUME IInv, TypeOK', NEW s, NEW pc, WorkerMove(s, pc) PROVE IInv'
<1> USE DEF IInv, WorkerMove
<1>0. worker.job \in Jobs /\ worker.job # 0
  BY DEF TypeOK, WorkerOK, Worker
<1>1. CreatedOK'
  BY <1>0 DEF TypeOK, CreatedOK, Worker
<1>2. QueueOK'
  <2>0. \A i \in 1..Len(queue) : queue[i] \in Jobs
    BY QueuedJobs
  <2>1. \A i \in 1..Len(queue) :
            queue[i] # worker.job /\ queue[i] \in Jobs /\ queue[i] # 0
    BY <2>0 DEF QueueOK
  <2>2. \A i \in 1..Len(queue) : status'[queue[i]] = status[queue[i]]
    BY <2>1 DEF TypeOK
  <2> QED
    BY <2>1, <2>2 DEF QueueOK
<1>3. WorkerOK'
  BY <1>0 DEF TypeOK, WorkerOK
<1>4. UnfinishedIsHeld'
  <2> SUFFICES ASSUME restarts = 0, faults' = 0, NEW j \in Jobs,
                      status'[j] \in Unfinished
               PROVE  \/ worker'.job = j
                      \/ \E i \in DOMAIN queue : queue[i] = j
    BY DEF UnfinishedIsHeld
  <2>0. faults = 0
    BY DEF TypeOK
  <2>1. CASE j = worker.job
    BY <2>1, <1>0 DEF TypeOK
  <2>2. CASE j # worker.job
    BY <2>0, <2>2 DEF TypeOK, UnfinishedIsHeld
  <2> QED
    BY <2>1, <2>2
<1>5. OneUnfinished'
  <2>1. runtime = "raises" =>
           \A j \in Jobs : status'[j] \in Unfinished
                              => status[j] \in Unfinished
    BY <1>0 DEF TypeOK
  <2> QED
    BY <2>1 DEF OneUnfinished
<1> QED
  BY <1>1, <1>2, <1>3, <1>4, <1>5

LEMMA StartStep == ASSUME IInv, Start PROVE IInv'
<1> USE DEF IInv, Start, Become, NoWork, unchangedRepo
<1>0. worker.job \in Jobs /\ worker.job # 0 /\ status[worker.job] \in Status
  BY DEF TypeOK, WorkerOK, Worker, Status
<1>1. TypeOK'
  <2>1. worker' \in Worker
    <3>1. CASE worker' = NoWork
      BY <3>1, NoWorkIsWork
    <3>2. CASE worker' # NoWork
      BY <3>2 DEF TypeOK, Worker, WorkerPCs
    <3> QED
      BY <3>1, <3>2
  <2>2. status' \in [Jobs -> Status]
    BY <1>0 DEF TypeOK, Status, Unfinished, Finished
  <2> QED
    BY <2>1, <2>2 DEF TypeOK, Status
<1>2. \/ WorkerMove(status[worker.job], "idle")
      \/ WorkerMove("Downloading", "downloading")
  BY <1>0 DEF TypeOK, WorkerOK, WorkerMove, Worker, Status, Unfinished,
              Finished
<1> QED
  BY <1>1, <1>2, WorkerMoveStep

LEMMA DownloadDoneStep == ASSUME IInv, DownloadDone PROVE IInv'
<1> USE DEF IInv, DownloadDone, unchangedRepo
<1>0. worker.job \in Jobs /\ worker.job # 0 /\ status[worker.job] \in Status
  BY DEF TypeOK, WorkerOK, Worker, Status
<1>1. TypeOK'
  BY <1>0, BoundsAssumption
     DEF TypeOK, Worker, WorkerPCs, Deleter, Unfinished, Finished
<1>2. WorkerMove(status[worker.job], "downloaded")
  BY <1>0 DEF TypeOK, WorkerOK, WorkerMove, Worker, Status, Unfinished,
              Finished
<1> QED
  BY <1>1, <1>2, WorkerMoveStep

LEMMA DownloadTimeoutStep == ASSUME IInv, DownloadTimeout PROVE IInv'
<1> USE DEF IInv, DownloadTimeout, Become, unchangedRepo
<1>0. worker.job \in Jobs /\ worker.job # 0 /\ status[worker.job] \in Status
  BY DEF TypeOK, WorkerOK, Worker, Status
<1>1. TypeOK'
  BY <1>0, BoundsAssumption
     DEF TypeOK, Worker, WorkerPCs, Deleter, Unfinished, Finished
<1>2. WorkerMove(status[worker.job], "failing")
  BY <1>0 DEF TypeOK, WorkerOK, WorkerMove, Worker, Status, Unfinished,
              Finished
<1> QED
  BY <1>1, <1>2, WorkerMoveStep

LEMMA ResumeDownloadStep == ASSUME IInv, ResumeDownload PROVE IInv'
<1> USE DEF IInv, ResumeDownload, Become, Exists, unchangedRepo
<1>0. worker.job \in Jobs /\ worker.job # 0 /\ status[worker.job] \in Status
  BY DEF TypeOK, WorkerOK, Worker, Status
<1>1. TypeOK'
  BY <1>0, BoundsAssumption
     DEF TypeOK, Worker, WorkerPCs, Deleter, Unfinished, Finished
<1>2. \/ WorkerMove("Analyzing", "analyzing")
      \/ WorkerMove(status[worker.job], "failing")
  BY <1>0 DEF TypeOK, WorkerOK, WorkerMove, Worker, Status, Unfinished,
              Finished
<1> QED
  BY <1>1, <1>2, WorkerMoveStep

LEMMA AnalysisTimeoutStep == ASSUME IInv, AnalysisTimeout PROVE IInv'
<1> USE DEF IInv, AnalysisTimeout, Become, unchangedRepo
<1>0. worker.job \in Jobs /\ worker.job # 0 /\ status[worker.job] \in Status
  BY DEF TypeOK, WorkerOK, Worker, Status
<1>1. TypeOK'
  BY <1>0, BoundsAssumption
     DEF TypeOK, Worker, WorkerPCs, Deleter, Unfinished, Finished
<1>2. WorkerMove(status[worker.job], "failing")
  BY <1>0 DEF TypeOK, WorkerOK, WorkerMove, Worker, Status, Unfinished,
              Finished
<1> QED
  BY <1>1, <1>2, WorkerMoveStep

LEMMA ResumeAnalysisStep == ASSUME IInv, ResumeAnalysis PROVE IInv'
<1> USE DEF IInv, ResumeAnalysis, Become, Exists, unchangedRepo
<1>0. worker.job \in Jobs /\ worker.job # 0 /\ status[worker.job] \in Status
  BY DEF TypeOK, WorkerOK, Worker, Status
<1>1. TypeOK'
  BY <1>0, BoundsAssumption
     DEF TypeOK, Worker, WorkerPCs, Deleter, Unfinished, Finished
<1>2. \/ WorkerMove("Saving", "saving")
      \/ WorkerMove(status[worker.job], "failing")
  BY <1>0 DEF TypeOK, WorkerOK, WorkerMove, Worker, Status, Unfinished,
              Finished
<1> QED
  BY <1>1, <1>2, WorkerMoveStep

LEMMA SaveStep == ASSUME IInv, Save PROVE IInv'
<1> USE DEF IInv, Save, Become, Exists, Fault, NoWork, unchangedRepo
<1>0. worker.job \in Jobs /\ worker.job # 0 /\ status[worker.job] \in Status
  BY DEF TypeOK, WorkerOK, Worker, Status
<1>1. TypeOK'
  <2>1. worker' \in Worker
    <3>1. CASE worker' = NoWork
      BY <3>1, NoWorkIsWork
    <3>2. CASE worker' # NoWork
      BY <3>2 DEF TypeOK, Worker, WorkerPCs
    <3> QED
      BY <3>1, <3>2
  <2>2. status' \in [Jobs -> Status]
    BY <1>0 DEF TypeOK, Status, Unfinished, Finished
  <2>3. faults' \in 0..MaxFaults
    BY BoundsAssumption DEF TypeOK
  <2> QED
    BY <2>1, <2>2, <2>3 DEF TypeOK, Status
<1>2. \/ WorkerMove("Completed", "idle")
      \/ WorkerMove(status[worker.job], "idle")
      \/ WorkerMove(status[worker.job], "failing")
  BY <1>0 DEF TypeOK, WorkerOK, WorkerMove, Worker, Status, Unfinished,
              Finished
<1> QED
  BY <1>1, <1>2, WorkerMoveStep

LEMMA FailStep == ASSUME IInv, Fail PROVE IInv'
<1> USE DEF IInv, Fail, FailedRows, Exists, Fault, NoWork, unchangedRepo
<1>0. worker.job \in Jobs /\ worker.job # 0 /\ status[worker.job] \in Status
  BY DEF TypeOK, WorkerOK, Worker, Status
<1>1. TypeOK'
  <2>1. worker' \in Worker
    BY <1>0, BoundsAssumption DEF TypeOK, Worker, WorkerPCs
  <2>2. status' \in [Jobs -> Status]
    BY <1>0 DEF TypeOK, Status, Unfinished, Finished
  <2>3. faults' \in 0..MaxFaults
    BY BoundsAssumption DEF TypeOK
  <2> QED
    BY <2>1, <2>2, <2>3 DEF TypeOK, Status
<1>2. \/ WorkerMove("none", "idle")
      \/ WorkerMove("Failed", "idle")
      \/ WorkerMove(status[worker.job], "idle")
  BY <1>0 DEF TypeOK, WorkerOK, WorkerMove, Worker, Status, Unfinished,
              Finished
<1> QED
  BY <1>1, <1>2, WorkerMoveStep

LEMMA UnwindStep == ASSUME IInv, Unwind PROVE IInv'
<1> USE DEF IInv, Unwind, Exists, NoWork, unchangedRepo
<1>0. worker.job \in Jobs /\ worker.job # 0 /\ status[worker.job] \in Status
  BY DEF TypeOK, WorkerOK, Worker, Status
<1>1. TypeOK'
  BY <1>0, BoundsAssumption
     DEF TypeOK, Worker, WorkerPCs, Deleter, Unfinished, Finished
<1>2. CASE Exists(worker.job)
  <2>1. WorkerMove("Cancelled", "idle")
    BY <1>0, <1>2 DEF TypeOK, WorkerOK, WorkerMove, Worker, Unfinished
  <2> QED
    BY <1>1, <2>1, WorkerMoveStep
<1>3. CASE ~Exists(worker.job)
  <2>1. WorkerMove(status[worker.job], "idle")
    BY <1>0, <1>3 DEF TypeOK, WorkerOK, WorkerMove, Worker, Status, Unfinished
  <2> QED
    BY <1>1, <2>1, WorkerMoveStep
<1> QED
  BY <1>2, <1>3

----------------------------------------------------------------------------
(* The analysis threads touch no row; their end lets the worker resume.    *)
LEMMA AnalysisStep == ASSUME IInv, NEW j \in Jobs, Analysis(j) PROVE IInv'
<1> USE DEF IInv, unchangedRepo
<1>1. CASE ThreadUpload(j)
  <2> USE <1>1 DEF ThreadUpload
  <2>1. TypeOK'
    <3>1. blobs' \subseteq BlobPrefix
      BY DEF TypeOK, BlobPrefix
    <3> QED
      BY <3>1 DEF TypeOK
  <2> QED
    BY <2>1 DEF CreatedOK, QueueOK, WorkerOK, UnfinishedIsHeld, OneUnfinished
<1>2. ASSUME NEW ok \in BOOLEAN, ThreadEnd(j, ok) PROVE IInv'
  <2> USE <1>2 DEF ThreadEnd
  <2>1. TypeOK'
    <3>1. worker' \in Worker
      BY DEF TypeOK, Worker, WorkerPCs
    <3> QED
      BY <3>1 DEF TypeOK
  <2>2. worker'.job = worker.job
    BY DEF TypeOK, Worker
  <2>3. CreatedOK' /\ QueueOK'
    BY <2>2 DEF CreatedOK, QueueOK
  <2>4. WorkerOK'
    BY DEF TypeOK, WorkerOK, Worker
  <2>5. UnfinishedIsHeld' /\ OneUnfinished'
    BY <2>2 DEF UnfinishedIsHeld, OneUnfinished
  <2> QED
    BY <2>1, <2>3, <2>4, <2>5
<1> QED
  BY <1>1, <1>2 DEF Analysis

(* A restart forgets queue and worker and leaves the rows as they are.     *)
LEMMA RestartStep == ASSUME IInv, Restart PROVE IInv'
<1> USE DEF IInv, Restart, NoWork, NoDelete, unchangedRepo
<1>1. TypeOK'
  BY BoundsAssumption DEF TypeOK, Worker, WorkerPCs, Deleter
<1>2. CreatedOK' /\ QueueOK' /\ WorkerOK'
  BY DEF TypeOK, CreatedOK, QueueOK, WorkerOK
<1>3. UnfinishedIsHeld'
  BY DEF TypeOK, UnfinishedIsHeld
<1>4. OneUnfinished'
  BY DEF OneUnfinished
<1> QED
  BY <1>1, <1>2, <1>3, <1>4
----------------------------------------------------------------------------
(* Every step preserves the invariant.                                     *)
LEMMA NextStep == IInv /\ [Next]_vars => IInv'
<1> SUFFICES ASSUME IInv, [Next]_vars PROVE IInv'
  OBVIOUS
<1>1. CASE Import
  <2>1. /\ repo' \in Generations /\ repo' \in 0..MaxRepos
        /\ gens' \in 0..MaxRepos
    BY <1>1, BoundsAssumption DEF IInv, TypeOK, Import
  <2>2. AddJob(repo')
    BY <1>1 DEF Import
  <2> QED
    BY <2>1, <2>2, AddJobStep
<1>2. CASE Reanalyze
  <2>1. /\ repo \in Generations /\ repo' \in 0..MaxRepos
        /\ gens' \in 0..MaxRepos
    BY <1>2, BoundsAssumption DEF IInv, TypeOK, Reanalyze
  <2>2. AddJob(repo)
    BY <1>2 DEF Reanalyze
  <2> QED
    BY <2>1, <2>2, AddJobStep
<1>3. CASE Cancel
  BY <1>3, CancelStep
<1>4. CASE Deletion
  BY <1>4, DeletionStep
<1>5. CASE Work
  BY <1>5, TakeStep, StartStep, DownloadDoneStep, DownloadTimeoutStep,
     ResumeDownloadStep, AnalysisTimeoutStep, ResumeAnalysisStep, SaveStep,
     FailStep, UnwindStep DEF Work
<1>6. CASE Restart
  BY <1>6, RestartStep
<1>7. CASE \E j \in Jobs : Analysis(j)
  BY <1>7, AnalysisStep
<1>8. CASE UNCHANGED vars
  BY <1>8 DEF vars, IInv, TypeOK, CreatedOK, QueueOK, WorkerOK,
              UnfinishedIsHeld, OneUnfinished
<1> QED
  BY <1>1, <1>2, <1>3, <1>4, <1>5, <1>6, <1>7, <1>8 DEF Next, Requests

(* The invariant the theorems below are read off.                          *)
THEOREM Invariance == Safety => []IInv
BY InitIInv, NextStep, PTL DEF Safety

(* The types of the import state.                                          *)
THEOREM TypeCorrect == Safety => []TypeOK
<1>1. IInv => TypeOK
  BY DEF IInv
<1> QED
  BY <1>1, Invariance, PTL

(* core.py's check for an unfinished job and the enqueueing that follows   *)
(* keep one analysis per repository in progress, through cancellations,    *)
(* deletions, faults and restarts, where late cancellations are raised.    *)
THEOREM OneInProgress == Safety => []OneUnfinished
<1>1. IInv => OneUnfinished
  BY DEF IInv
<1> QED
  BY <1>1, Invariance, PTL

(* An unfinished row is queued or worked on, while the process lives and   *)
(* the database does not fail: no job is forgotten by the queue loop or by *)
(* an early return of the worker.                                          *)
THEOREM UnfinishedHeld == Safety => []UnfinishedIsHeld
<1>1. IInv => UnfinishedIsHeld
  BY DEF IInv
<1> QED
  BY <1>1, Invariance, PTL

(* What a step may do to the rows of a finished job where wait_for raises. *)
LEMMA FinishedStep ==
    ASSUME IInv, [Next]_vars, runtime = "raises", NEW j \in Jobs,
           status[j] \in Finished
    PROVE  status'[j] \in {status[j], "none"}
<1>1. CASE Import \/ Reanalyze
  <2>1. status' = [status EXCEPT ![created'] = "Queued"] /\ created' = created + 1
    BY <1>1 DEF Import, Reanalyze, AddJob
  <2>2. created' # j
    BY <2>1 DEF IInv, TypeOK, CreatedOK, Finished
  <2> QED
    BY <2>1, <2>2 DEF IInv, TypeOK
<1>2. CASE Cancel
  BY <1>2 DEF Cancel, Open, IInv, TypeOK, Unfinished, Finished
<1>3. CASE Deletion
  BY <1>3 DEF Deletion, DeleteBegin, DeleteCascade, DeleteCommit
<1>4. CASE Work
  <2>1. worker.job = j /\ worker.pc # "idle"
           => worker.pc = "unwinding" /\ status[j] = "Cancelled"
    BY DEF IInv, WorkerOK, Unfinished, Finished
  <2>2. CASE worker.job = j /\ Unwind
    BY <2>1, <2>2 DEF Unwind, IInv, TypeOK
  <2> QED
    BY <1>4, <2>1, <2>2
       DEF Work, Take, Start, DownloadDone, DownloadTimeout, ResumeDownload,
           AnalysisTimeout, ResumeAnalysis, Save, Fail, Unwind, FailedRows,
           IInv, TypeOK
<1>5. CASE Restart \/ (\E k \in Jobs : Analysis(k)) \/ UNCHANGED vars
  BY <1>5 DEF Restart, Analysis, ThreadUpload, ThreadEnd, vars
<1> QED
  BY <1>1, <1>2, <1>3, <1>4, <1>5 DEF Next, Requests

(* A Completed, Failed or Cancelled job keeps its status until its rows    *)
(* go: no commit of the worker, made without a look at the row, overwrites *)
(* a cancellation where wait_for raises late ones.                         *)
THEOREM FinishedKept == Safety => FinishedStays
<1>1. IInv /\ [Next]_vars =>
          [runtime = "raises" =>
             \A j \in Jobs :
                status[j] \in Finished => status'[j] \in {status[j], "none"}]_vars
  BY FinishedStep
<1> QED
  BY <1>1, Invariance, PTL DEF Safety, FinishedStays
----------------------------------------------------------------------------
(* The rows implement JobLifecycle.  What is needed beyond the invariant   *)
(* is the stage the worker's row is in while the worker does not look.     *)

StageOK ==
    LET s == status[worker.job]
        Lost == IF runtime = "swallows" THEN {"none", "Cancelled"} ELSE {"none"}
    IN
    /\ worker.pc = "starting" => s \in {"none", "Queued"}
    /\ worker.pc = "downloading" => s \in {"none", "Downloading"}
    /\ worker.pc = "downloaded" => s \in Lost \cup {"Downloading"}
    /\ worker.pc = "analyzing" => s \in {"none", "Analyzing"}
    /\ worker.pc = "analyzed" => s \in Lost \cup {"Analyzing"}
    /\ worker.pc = "saving" => s \in {"none", "Saving"}
    /\ worker.pc = "failing" => s \in Lost \cup Unfinished

LEMMA InitStage == Init => StageOK
BY DEF Init, NoWork, StageOK

LEMMA StageStep == ASSUME IInv, StageOK, [Next]_vars PROVE StageOK'
<1> USE DEF IInv
<1>1. CASE Import \/ Reanalyze
  <2>1. /\ status' = [status EXCEPT ![created'] = "Queued"]
        /\ created' = created + 1 /\ UNCHANGED <<worker, runtime>>
    BY <1>1 DEF Import, Reanalyze, AddJob
  <2>2. created' # worker.job
    BY <2>1 DEF TypeOK, CreatedOK, Worker
  <2>3. status'[worker.job] = status[worker.job]
    BY <2>1, <2>2 DEF TypeOK
  <2> QED
    BY <2>1, <2>3 DEF StageOK
<1>2. CASE Cancel
  <2>1. PICK j \in Jobs : /\ worker' = CancelTask(j)
                          /\ status' = [status EXCEPT ![j] = "Cancelled"]
                          /\ UNCHANGED runtime
    BY <1>2 DEF Cancel, Open, Rows, unchangedRepo
  <2>2. worker.pc \notin {"saving", "failing"}
    BY <1>2 DEF Cancel, LoopBusy
  <2>3. CASE worker.job # j
    <3>1. worker' = worker /\ status'[worker.job] = status[worker.job]
      BY <2>1, <2>3 DEF CancelTask, TypeOK
    <3> QED
      BY <2>1, <3>1 DEF StageOK
  <2>4. CASE worker.job = j
    <3>1. /\ status'[j] = "Cancelled"
          /\ \/ worker'.pc = "unwinding"
             \/ /\ worker' = worker /\ runtime = "swallows"
                /\ worker.pc \in {"downloaded", "analyzed"}
      BY <2>1, <2>4 DEF CancelTask, TypeOK, Worker
    <3> QED
      BY <2>1, <2>4, <3>1 DEF StageOK
  <2> QED
    BY <2>3, <2>4
<1>3. CASE Deletion
  <2>1. worker.pc # "idle" => worker.job \in Jobs
    BY DEF TypeOK, WorkerOK, Worker
  <2>2. /\ UNCHANGED <<worker, runtime>>
        /\ \A j \in Jobs : status'[j] \in {status[j], "none"}
    <3>1. CASE DeleteBegin \/ DeleteCascade
      BY <3>1 DEF DeleteBegin, DeleteCascade, unchangedRepo
    <3>2. CASE DeleteCommit
      BY <3>2 DEF DeleteCommit
    <3> QED
      BY <1>3, <3>1, <3>2 DEF Deletion
  <2>3. worker.pc # "idle" =>
           status'[worker.job] \in {status[worker.job], "none"}
    BY <2>1, <2>2
  <2> QED
    BY <2>2, <2>3 DEF StageOK
<1>4. CASE Take
  <2>1. queue # <<>> /\ queue \in Seq(Jobs) /\ UNCHANGED status
    BY <1>4 DEF Take, TypeOK
  <2>2. Len(queue) \in Nat /\ Len(queue) # 0 /\ Head(queue) = queue[1]
    BY <2>1, EmptySeq, LenProperties
  <2>3. status[Head(queue)] \in {"Queued", "Cancelled", "none"}
    BY <2>2 DEF QueueOK
  <2>4. \/ worker'.pc = "idle"
        \/ /\ worker'.pc = "starting" /\ worker'.job = Head(queue)
           /\ status[Head(queue)] # "Cancelled"
    BY <1>4 DEF Take, TakeWork, NoWork
  <2> QED
    BY <2>1, <2>3, <2>4 DEF StageOK
<1>5. CASE Work /\ ~Take
  <2>0. worker.pc # "idle" /\ UNCHANGED runtime
    BY <1>5 DEF Work, Start, DownloadDone, DownloadTimeout, ResumeDownload,
                AnalysisTimeout, ResumeAnalysis, Save, Fail, Unwind,
                unchangedRepo
  <2>1. worker.job \in Jobs /\ status[worker.job] \in Status
    BY <2>0 DEF TypeOK, WorkerOK, Worker, Status
  <2>2. CASE Start
    <3>1. \/ worker'.pc = "idle"
          \/ /\ worker'.pc = "downloading" /\ worker'.job = worker.job
             /\ status'[worker.job] = "Downloading"
      <4>1. CASE worker' = NoWork
        BY <4>1 DEF NoWork
      <4>2. CASE /\ worker' = [worker EXCEPT !.pc = "downloading"]
                 /\ status' = [status EXCEPT ![worker.job] = "Downloading"]
        BY <2>1, <4>2 DEF TypeOK, Worker
      <4> QED
        BY <2>2, <4>1, <4>2 DEF Start, Become
    <3> QED
      BY <3>1 DEF StageOK
  <2>3. CASE DownloadDone
    <3>1. worker'.pc = "downloaded" /\ worker'.job = worker.job
      BY <2>3 DEF DownloadDone, TypeOK, Worker
    <3> QED
      BY <2>0, <2>3, <3>1 DEF DownloadDone, StageOK
  <2>4. CASE DownloadTimeout \/ AnalysisTimeout
    <3>1. /\ worker'.pc = "failing" /\ worker'.job = worker.job
          /\ worker.pc \in {"downloading", "analyzing"} /\ UNCHANGED status
      BY <2>4 DEF DownloadTimeout, AnalysisTimeout, Become, TypeOK, Worker
    <3> QED
      BY <2>0, <3>1 DEF StageOK, Unfinished
  <2>5. CASE ResumeDownload
    BY <2>0, <2>1, <2>5
       DEF ResumeDownload, Become, StageOK, TypeOK, Worker, Unfinished
  <2>6. CASE ResumeAnalysis
    BY <2>0, <2>1, <2>6
       DEF ResumeAnalysis, Become, StageOK, TypeOK, Worker, Unfinished
  <2>7. CASE Save
    <3>1. \/ worker'.pc = "idle"
          \/ /\ worker'.pc = "failing" /\ worker'.job = worker.job
             /\ worker.pc = "saving" /\ UNCHANGED status
      <4>1. CASE worker' = NoWork
        BY <4>1 DEF NoWork
      <4>2. CASE worker' = [worker EXCEPT !.pc = "failing"] /\ status' = status
        BY <2>7, <4>2 DEF Save, TypeOK, Worker
      <4> QED
        BY <2>7, <4>1, <4>2 DEF Save, Become
    <3> QED
      BY <2>0, <3>1 DEF StageOK, Unfinished
  <2>8. CASE Fail \/ Unwind
    BY <2>8 DEF Fail, Unwind, NoWork, StageOK
  <2> QED
    BY <1>5, <2>2, <2>3, <2>4, <2>5, <2>6, <2>7, <2>8 DEF Work
<1>6. CASE \E j \in Jobs : Analysis(j)
  <2>1. /\ UNCHANGED <<status, runtime>> /\ worker'.job = worker.job
        /\ \/ worker'.pc = worker.pc
           \/ worker.pc = "analyzing" /\ worker'.pc = "analyzed"
    BY <1>6 DEF Analysis, ThreadUpload, ThreadEnd, TypeOK, Worker, unchangedRepo
  <2> QED
    BY <2>1 DEF StageOK
<1>7. CASE Restart \/ UNCHANGED vars
  BY <1>7 DEF Restart, NoWork, vars, StageOK
<1> QED
  BY <1>1, <1>2, <1>3, <1>4, <1>5, <1>6, <1>7 DEF Next, Requests, Work

(* Where the worker or a request writes one row.                           *)
LEMMA RowMove ==
    ASSUME IInv, NEW j \in Jobs,
           NEW s \in {"Downloading", "Analyzing", "Saving", "Completed",
                      "Failed", "Cancelled"},
           status' = [status EXCEPT ![j] = s],
           UNCHANGED <<runtime, gen, created>>,
           \/ s = status[j]
           \/ <<status[j], s>> \in JL!Stages
           \/ status[j] \in Unfinished /\ s \in {"Failed", "Cancelled"}
           \/ /\ runtime = "swallows" /\ status[j] = "Cancelled"
              /\ s \in {"Analyzing", "Saving", "Failed"}
    PROVE  [JL!Next]_JL!vars
<1>1. CASE s = status[j]
  BY <1>1 DEF IInv, TypeOK, JL!vars
<1>2. CASE s # status[j]
  <2>1. JL!Move(j, s)
    BY <1>2 DEF JL!Move, JL!Unfinished, Unfinished
  <2> QED
    BY <2>1 DEF JL!Next
<1> QED
  BY <1>1, <1>2

LEMMA RowsLeave ==
    ASSUME IInv, NEW js \in SUBSET Jobs,
           status' = [j \in Jobs |-> IF j \in js THEN "none" ELSE status[j]],
           UNCHANGED <<runtime, gen, created>>
    PROVE  [JL!Next]_JL!vars
<1>1. JL!Remove(js)
  BY DEF JL!Remove
<1> QED
  BY <1>1 DEF JL!Next

LEMMA RowsKept ==
    ASSUME UNCHANGED <<runtime, gen, created, status>>
    PROVE  [JL!Next]_JL!vars
BY DEF JL!vars

LEMMA AddRow == ASSUME IInv, NEW g \in Generations, AddJob(g)
                PROVE  [JL!Next]_JL!vars
<1>1. /\ created' \in Jobs /\ created' = created + 1 /\ created \in Nat
      /\ 1..created' = (1..created) \cup {created'}
  BY BoundsAssumption DEF AddJob, IInv, TypeOK
<1>2. JL!Open(g) = {}
  <2>1. Open(g) = {}
    BY DEF AddJob
  <2> QED
    BY <2>1 DEF Open, Rows, JL!Open, JL!Unfinished, Unfinished
<1>3. JL!Add(created', g)
  BY <1>1, <1>2 DEF AddJob, JL!Add
<1> QED
  BY <1>1, <1>3 DEF JL!Next

(* Every step is a step of the lifecycle, or none.                         *)
LEMMA LifecycleStep == ASSUME IInv, StageOK, [Next]_vars
                       PROVE  [JL!Next]_JL!vars
<1>1. CASE Import
  BY <1>1, AddRow, BoundsAssumption DEF Import, IInv, TypeOK
<1>2. CASE Reanalyze
  BY <1>2, AddRow, BoundsAssumption DEF Reanalyze, IInv, TypeOK
<1>3. CASE Cancel
  <2>1. PICK j \in Open(repo) : status' = [status EXCEPT ![j] = "Cancelled"]
    BY <1>3 DEF Cancel
  <2>2. j \in Jobs /\ status[j] \in Unfinished
    BY <2>1 DEF Open, Rows
  <2> QED
    BY <1>3, <2>1, <2>2, RowMove DEF Cancel, unchangedRepo
<1>4. CASE DeleteBegin \/ DeleteCascade
  BY <1>4, RowsKept DEF DeleteBegin, DeleteCascade, unchangedRepo
<1>5. CASE DeleteCommit
  <2> DEFINE js == {j \in Jobs : gen[j] = deleter.gen}
  <2>1. \/ UNCHANGED status
        \/ status' = [j \in Jobs |-> IF j \in js THEN "none" ELSE status[j]]
    BY <1>5 DEF DeleteCommit
  <2>2. js \in SUBSET Jobs
    OBVIOUS
  <2> HIDE DEF js
  <2> QED
    BY <1>5, <2>1, <2>2, RowsKept, RowsLeave DEF DeleteCommit
<1>6. CASE Take \/ Restart \/ \E j \in Jobs : Analysis(j)
  BY <1>6, RowsKept
     DEF Take, Restart, Analysis, ThreadUpload, ThreadEnd, unchangedRepo
<1>7. CASE Work /\ ~Take
  <2>0. worker.pc # "idle" /\ UNCHANGED <<runtime, gen, created>>
    BY <1>7 DEF Work, Start, DownloadDone, DownloadTimeout, ResumeDownload,
                AnalysisTimeout, ResumeAnalysis, Save, Fail, Unwind,
                unchangedRepo
  <2>1. worker.job \in Jobs /\ status[worker.job] \in Status
    BY <2>0 DEF IInv, TypeOK, WorkerOK, Worker, Status
  <2>2. CASE UNCHANGED status
    BY <2>0, <2>2, RowsKept
  <2>3. CASE Start /\ status' # status
    <3>1. /\ status' = [status EXCEPT ![worker.job] = "Downloading"]
          /\ status[worker.job] = "Queued"
      BY <2>3 DEF Start, StageOK
    <3> QED
      BY <2>0, <2>1, <3>1, RowMove DEF JL!Stages
  <2>4. CASE ResumeDownload /\ status' # status
    <3>1. /\ status' = [status EXCEPT ![worker.job] = "Analyzing"]
          /\ \/ status[worker.job] = "Downloading"
             \/ status[worker.job] = "Cancelled" /\ runtime = "swallows"
      BY <2>4 DEF ResumeDownload, Exists, StageOK
    <3> QED
      BY <2>0, <2>1, <3>1, RowMove DEF JL!Stages
  <2>5. CASE ResumeAnalysis /\ status' # status
    <3>1. /\ status' = [status EXCEPT ![worker.job] = "Saving"]
          /\ \/ status[worker.job] = "Analyzing"
             \/ status[worker.job] = "Cancelled" /\ runtime = "swallows"
      BY <2>5 DEF ResumeAnalysis, Exists, StageOK
    <3> QED
      BY <2>0, <2>1, <3>1, RowMove DEF JL!Stages
  <2>6. CASE Save /\ status' # status
    <3>1. /\ status' = [status EXCEPT ![worker.job] = "Completed"]
          /\ status[worker.job] = "Saving"
      BY <2>6 DEF Save, Exists, StageOK
    <3> QED
      BY <2>0, <2>1, <3>1, RowMove DEF JL!Stages
  <2>7. CASE Fail /\ status' # status
    <3>1. CASE status' = [status EXCEPT ![worker.job] = "none"]
      <4>1. status' = [j \in Jobs |->
                         IF j \in {worker.job} THEN "none" ELSE status[j]]
        BY <3>1 DEF IInv, TypeOK
      <4> QED
        BY <2>0, <2>1, <4>1, RowsLeave
    <3>2. CASE /\ status' = [status EXCEPT ![worker.job] = "Failed"]
               /\ Exists(worker.job)
      <4>0. worker.pc = "failing"
        BY <2>7 DEF Fail
      <4>1. \/ status[worker.job] \in Unfinished
            \/ status[worker.job] = "Cancelled" /\ runtime = "swallows"
        BY <4>0, <3>2 DEF Exists, StageOK
      <4> QED
        BY <2>0, <2>1, <3>2, <4>1, RowMove
    <3> QED
      BY <2>7, <3>1, <3>2 DEF Fail, FailedRows
  <2>8. CASE Unwind /\ status' # status
    <3>1. /\ status' = [status EXCEPT ![worker.job] = "Cancelled"]
          /\ status[worker.job] = "Cancelled"
      BY <2>8 DEF Unwind, Exists, IInv, WorkerOK
    <3> QED
      BY <2>0, <2>1, <3>1, RowMove
  <2>9. CASE DownloadDone \/ DownloadTimeout \/ AnalysisTimeout
    BY <2>2, <2>9 DEF DownloadDone, DownloadTimeout, AnalysisTimeout
  <2> QED
    BY <1>7, <2>2, <2>3, <2>4, <2>5, <2>6, <2>7, <2>8, <2>9 DEF Work
<1>8. CASE UNCHANGED vars
  BY <1>8, RowsKept DEF vars
<1> QED
  BY <1>1, <1>2, <1>3, <1>4, <1>5, <1>6, <1>7, <1>8
     DEF Next, Requests, Deletion, Work

LEMMA LifecycleInit == Init => JL!Init
BY DEF Init, JL!Init

(* The rows follow the lifecycle: queue, worker, abandoned threads, late   *)
(* cancellations, deletions and restarts together never skip a stage,      *)
(* revive a finished or deleted job, or open a second one.                 *)
THEOREM LifecycleRefinement == Safety => Lifecycle
<1>1. IInv /\ StageOK /\ [Next]_vars => StageOK'
  BY StageStep
<1>2. IInv /\ StageOK /\ [Next]_vars => [JL!Next]_JL!vars
  BY LifecycleStep
<1> QED
  BY <1>1, <1>2, InitStage, LifecycleInit, Invariance, PTL
     DEF Safety, Lifecycle, JL!Spec

----------------------------------------------------------------------------
(* The end of the work.                                                    *)

(* The steps that the worker has before it with the job it has.            *)
StepsLeft(pc) ==
    CASE pc = "idle"        -> 0
      [] pc = "unwinding"   -> 1
      [] pc = "failing"     -> 1
      [] pc = "saving"      -> 2
      [] pc = "analyzed"    -> 3
      [] pc = "analyzing"   -> 4
      [] pc = "downloaded"  -> 5
      [] pc = "downloading" -> 6
      [] pc = "starting"    -> 7

(* What the queue loop can still do, for jobs yet to be created too.       *)
WorkLeft ==
    8 * (MaxJobs - created) + 8 * Len(queue) + StepsLeft(worker.pc)

(* The part of EveryJobSettles that needs no fairness.  Each step of the   *)
(* queue loop and the worker lessens WorkLeft and nothing adds to it: no   *)
(* request, cancellation, deletion, thread or restart has a job taken up   *)
(* again or puts the worker back.  What is held when the queue is empty    *)
(* and the worker idle is no unfinished job.                               *)
WorkRunsOut ==
    /\ [](WorkLeft \in Nat)
    /\ [](queue = <<>> /\ worker.pc = "idle" /\ restarts = 0 /\ faults = 0
             => \A j \in Jobs : status[j] \notin Unfinished)
    /\ [][WorkLeft' <= WorkLeft /\ (Work => WorkLeft' < WorkLeft)]_vars

LEMMA StepsTable ==
    /\ StepsLeft("idle") = 0 /\ StepsLeft("unwinding") = 1
    /\ StepsLeft("failing") = 1 /\ StepsLeft("saving") = 2
    /\ StepsLeft("analyzed") = 3 /\ StepsLeft("analyzing") = 4
    /\ StepsLeft("downloaded") = 5 /\ StepsLeft("downloading") = 6
    /\ StepsLeft("starting") = 7
BY DEF StepsLeft

LEMMA WorkNumbers ==
    ASSUME IInv
    PROVE  /\ created \in Nat /\ MaxJobs \in Nat /\ created <= MaxJobs
           /\ Len(queue) \in Nat /\ StepsLeft(worker.pc) \in 0..7
           /\ WorkLeft \in Nat
<1>1. created \in Nat /\ MaxJobs \in Nat /\ created <= MaxJobs
  BY BoundsAssumption DEF IInv, TypeOK
<1>2. Len(queue) \in Nat
  BY QueuedJobs DEF IInv
<1>3. worker.pc \in WorkerPCs
  BY DEF IInv, TypeOK, Worker
<1>4. StepsLeft(worker.pc) \in 0..7
  BY <1>3 DEF WorkerPCs, StepsLeft
<1> HIDE DEF StepsLeft
<1>5. WorkLeft \in Nat
  BY <1>1, <1>2, <1>4 DEF WorkLeft
<1> QED
  BY <1>1, <1>2, <1>4, <1>5

(* A job that is created is one more in the queue.                         *)
LEMMA AddJobWork ==
    ASSUME IInv, NEW g, AddJob(g) PROVE WorkLeft' = WorkLeft
<1>1. created' = created + 1 /\ worker' = worker
      /\ queue' = Append(queue, created + 1)
  BY DEF AddJob
<1>2. queue \in Seq(Jobs) /\ created + 1 \in Jobs
  <2>1. queue \in Seq(Jobs)
    BY DEF IInv, TypeOK
  <2>2. created \in Nat /\ MaxJobs \in Nat /\ created < MaxJobs
    BY WorkNumbers DEF AddJob
  <2> QED
    BY <2>1, <2>2
<1>3. Len(queue') = Len(queue) + 1
  <2> HIDE DEF Jobs
  <2> QED
    BY <1>1, <1>2, AppendProperties
<1>4. StepsLeft(worker'.pc) = StepsLeft(worker.pc)
  BY <1>1
<1> HIDE DEF StepsLeft
<1> QED
  BY <1>1, <1>3, <1>4, WorkNumbers DEF WorkLeft

(* Steps that move the worker, and not the queue.                          *)
LEMMA MoveWork ==
    ASSUME IInv, created' = created, queue' = queue,
           NEW n \in Nat, StepsLeft(worker'.pc) = n
    PROVE  /\ n <= StepsLeft(worker.pc) => WorkLeft' <= WorkLeft
           /\ n < StepsLeft(worker.pc) => WorkLeft' < WorkLeft
<1> DEFINE rest == 8 * (MaxJobs - created) + 8 * Len(queue)
<1>1. rest \in Int /\ StepsLeft(worker.pc) \in Nat
  BY WorkNumbers
<1>2. WorkLeft = rest + StepsLeft(worker.pc) /\ WorkLeft' = rest + n
  BY DEF WorkLeft
<1> HIDE DEF rest, WorkLeft, StepsLeft
<1> QED
  BY <1>1, <1>2

LEMMA TakeWorkLess == ASSUME IInv, Take PROVE WorkLeft' < WorkLeft
<1>1. /\ worker.pc = "idle" /\ worker'.pc \in {"idle", "starting"}
      /\ queue # <<>> /\ queue' = Tail(queue) /\ created' = created
  BY DEF Take, TakeWork, NoWork, unchangedRepo
<1>2. queue \in Seq(Jobs)
  BY DEF IInv, TypeOK
<1>3. Len(queue') = Len(queue) - 1
  <2> HIDE DEF Jobs
  <2> QED
    BY <1>1, <1>2, HeadTailProperties
<1>4. StepsLeft(worker.pc) = 0 /\ StepsLeft(worker'.pc) \in 0..7
  BY <1>1 DEF StepsLeft
<1> HIDE DEF StepsLeft
<1>5. PICK n \in 0..7 : StepsLeft(worker'.pc) = n
  BY <1>4
<1>6. /\ WorkLeft = 8 * (MaxJobs - created) + 8 * Len(queue)
      /\ WorkLeft' = 8 * (MaxJobs - created) + 8 * (Len(queue) - 1) + n
  BY <1>1, <1>3, <1>4, <1>5, WorkNumbers DEF WorkLeft
<1> QED
  BY <1>6, WorkNumbers

LEMMA WorkLess == ASSUME IInv, Work PROVE WorkLeft' < WorkLeft
<1>0. worker \in Worker
  BY DEF IInv, TypeOK
<1>1. CASE Take
  BY <1>1, TakeWorkLess
<1>2. CASE Start
  <2>1. /\ worker.pc = "starting" /\ worker'.pc \in {"idle", "downloading"}
        /\ created' = created /\ queue' = queue
    BY <1>0, <1>2 DEF Start, Become, NoWork, Worker, unchangedRepo
  <2>2. StepsLeft(worker'.pc) \in Nat
        /\ StepsLeft(worker'.pc) < StepsLeft(worker.pc)
    BY <2>1, StepsTable
  <2> QED
    BY <2>1, <2>2, MoveWork
<1>3. CASE DownloadDone \/ DownloadTimeout
  <2>1. /\ worker.pc = "downloading" /\ worker'.pc \in {"downloaded", "failing"}
        /\ created' = created /\ queue' = queue
    BY <1>0, <1>3
       DEF DownloadDone, DownloadTimeout, Become, Worker, unchangedRepo
  <2>2. StepsLeft(worker'.pc) \in Nat
        /\ StepsLeft(worker'.pc) < StepsLeft(worker.pc)
    BY <2>1, StepsTable
  <2> QED
    BY <2>1, <2>2, MoveWork
<1>4. CASE ResumeDownload
  <2>1. /\ worker.pc = "downloaded" /\ worker'.pc \in {"analyzing", "failing"}
        /\ created' = created /\ queue' = queue
    BY <1>0, <1>4 DEF ResumeDownload, Become, Worker, unchangedRepo
  <2>2. StepsLeft(worker'.pc) \in Nat
        /\ StepsLeft(worker'.pc) < StepsLeft(worker.pc)
    BY <2>1, StepsTable
  <2> QED
    BY <2>1, <2>2, MoveWork
<1>5. CASE AnalysisTimeout \/ ResumeAnalysis
  <2>1. /\ worker.pc \in {"analyzing", "analyzed"}
        /\ worker'.pc \in {"saving", "failing"}
        /\ created' = created /\ queue' = queue
    BY <1>0, <1>5
       DEF AnalysisTimeout, ResumeAnalysis, Become, Worker, unchangedRepo
  <2>2. StepsLeft(worker'.pc) \in Nat
        /\ StepsLeft(worker'.pc) < StepsLeft(worker.pc)
    BY <2>1, StepsTable
  <2> QED
    BY <2>1, <2>2, MoveWork
<1>6. CASE Save
  <2>1. /\ worker.pc = "saving" /\ worker'.pc \in {"idle", "failing"}
        /\ created' = created /\ queue' = queue
    BY <1>0, <1>6 DEF Save, Become, NoWork, Worker, unchangedRepo
  <2>2. StepsLeft(worker'.pc) \in Nat
        /\ StepsLeft(worker'.pc) < StepsLeft(worker.pc)
    BY <2>1, StepsTable
  <2> QED
    BY <2>1, <2>2, MoveWork
<1>7. CASE Fail \/ Unwind
  <2>1. /\ worker.pc \in {"failing", "unwinding"} /\ worker'.pc = "idle"
        /\ created' = created /\ queue' = queue
    BY <1>7 DEF Fail, Unwind, NoWork, unchangedRepo
  <2>2. StepsLeft(worker'.pc) \in Nat
        /\ StepsLeft(worker'.pc) < StepsLeft(worker.pc)
    BY <2>1, StepsTable
  <2> QED
    BY <2>1, <2>2, MoveWork
<1> QED
  BY <1>1, <1>2, <1>3, <1>4, <1>5, <1>6, <1>7 DEF Work

(* A cancellation cuts the way of its task short.                          *)
LEMMA CancelWork == ASSUME IInv, Cancel PROVE WorkLeft' <= WorkLeft
<1>0. worker \in Worker
  BY DEF IInv, TypeOK
<1>1. PICK j \in Open(repo) : worker' = CancelTask(j)
  BY DEF Cancel
<1>2. created' = created /\ queue' = queue /\ j \in Jobs
  BY <1>1 DEF Cancel, unchangedRepo, Open, Rows
<1>3. CASE worker' = worker
  <2>1. StepsLeft(worker'.pc) = StepsLeft(worker.pc)
    BY <1>3
  <2> QED
    BY <1>2, <2>1, MoveWork, WorkNumbers
<1>4. CASE worker' # worker
  <2>1. worker.job = j /\ worker' = [worker EXCEPT !.pc = "unwinding"]
    BY <1>1, <1>4 DEF CancelTask
  <2>2. worker'.pc = "unwinding" /\ worker.pc \in WorkerPCs \ {"idle"}
    <3>1. worker'.pc = "unwinding" /\ worker.pc \in WorkerPCs
      BY <1>0, <2>1 DEF Worker
    <3>2. worker.job # 0
      BY <1>2, <2>1, BoundsAssumption
    <3> QED
      BY <3>1, <3>2 DEF IInv, WorkerOK
  <2>3. StepsLeft(worker'.pc) = 1 /\ StepsLeft(worker.pc) >= 1
    BY <2>2 DEF StepsLeft, WorkerPCs
  <2> QED
    BY <1>2, <2>3, MoveWork
<1> QED
  BY <1>3, <1>4

(* A restart forgets the queue and the worker's job.                       *)
LEMMA RestartWork == ASSUME IInv, Restart PROVE WorkLeft' <= WorkLeft
<1>1. created' = created /\ queue' = <<>> /\ worker'.pc = "idle"
  BY DEF Restart, NoWork, unchangedRepo
<1>2. Len(queue') = 0 /\ StepsLeft(worker'.pc) = 0
  BY <1>1 DEF StepsLeft
<1>3. WorkLeft' = 8 * (MaxJobs - created)
  BY <1>1, <1>2, WorkNumbers DEF WorkLeft
<1>4. StepsLeft(worker.pc) \in Nat
  BY WorkNumbers
<1> HIDE DEF StepsLeft
<1> QED
  BY <1>3, <1>4, WorkNumbers DEF WorkLeft

LEMMA AnalysisWork ==
    ASSUME IInv, NEW j \in Jobs, Analysis(j) PROVE WorkLeft' <= WorkLeft
<1>0. worker \in Worker
  BY DEF IInv, TypeOK
<1>1. created' = created /\ queue' = queue
  BY DEF Analysis, ThreadUpload, ThreadEnd, unchangedRepo
<1>2. \/ worker' = worker
      \/ worker.pc = "analyzing" /\ worker'.pc = "analyzed"
  BY <1>0 DEF Analysis, ThreadUpload, ThreadEnd, Worker
<1>3. CASE worker' = worker
  <2>1. StepsLeft(worker'.pc) = StepsLeft(worker.pc)
    BY <1>3
  <2> QED
    BY <1>1, <2>1, MoveWork, WorkNumbers
<1>4. CASE worker.pc = "analyzing" /\ worker'.pc = "analyzed"
  <2>1. StepsLeft(worker'.pc) = 3 /\ StepsLeft(worker.pc) = 4
    BY <1>4 DEF StepsLeft
  <2> QED
    BY <1>1, <2>1, MoveWork
<1> QED
  BY <1>2, <1>3, <1>4

LEMMA WorkLeftNext == ASSUME IInv, Next PROVE WorkLeft' \in Int
<1>1. IInv'
  BY NextStep
<1>2. created' \in Nat /\ Len(queue') \in Nat /\ worker'.pc \in WorkerPCs
  <2>1. /\ created' \in 0..MaxJobs /\ queue' \in Seq(Jobs)
        /\ worker' \in Worker
    BY <1>1 DEF IInv, TypeOK
  <2> HIDE DEF Jobs
  <2>2. Len(queue') \in Nat
    BY <2>1, LenProperties
  <2> QED
    BY <2>1, <2>2, BoundsAssumption DEF Worker
<1>3. StepsLeft(worker'.pc) \in Nat
  BY <1>2, StepsTable DEF WorkerPCs
<1> QED
  BY <1>2, <1>3, BoundsAssumption DEF WorkLeft

(* The queue loop works off what is queued: its steps and the worker's     *)
(* are bounded by the jobs created, whatever the requests, the threads and *)
(* restarts do in between.                                                 *)
THEOREM WorkEnds == Safety => WorkRunsOut
<1>1. IInv => WorkLeft \in Nat
  BY WorkNumbers
<1>2. IInv => (queue = <<>> /\ worker.pc = "idle" /\ restarts = 0 /\ faults = 0
                  => \A j \in Jobs : status[j] \notin Unfinished)
  <2> SUFFICES ASSUME IInv, queue = <<>>, worker.pc = "idle", restarts = 0,
                      faults = 0, NEW j \in Jobs, status[j] \in Unfinished
               PROVE  FALSE
    OBVIOUS
  <2>1. worker.job = 0 /\ 0 \notin Jobs
    <3>1. worker.job = 0
      BY DEF IInv, WorkerOK
    <3> QED
      BY <3>1, BoundsAssumption
  <2>2. \E i \in DOMAIN queue : queue[i] = j
    BY <2>1 DEF IInv, UnfinishedIsHeld
  <2> QED
    BY <2>2
<1>3. IInv /\ [Next]_vars
        => [WorkLeft' <= WorkLeft /\ (Work => WorkLeft' < WorkLeft)]_vars
  <2> SUFFICES ASSUME IInv, Next
               PROVE  WorkLeft' <= WorkLeft /\ (Work => WorkLeft' < WorkLeft)
    OBVIOUS
  <2>0. WorkLeft \in Nat
    BY WorkNumbers
  <2>1. CASE Import \/ Reanalyze
    <3>1. WorkLeft' = WorkLeft
      BY <2>1, AddJobWork DEF Import, Reanalyze
    <3> QED
      BY <2>0, <3>1, WorkLess
  <2>2. CASE Cancel
    BY <2>2, CancelWork, WorkLess
  <2>3. CASE Deletion
    <3>1. created' = created /\ queue' = queue /\ worker' = worker
      BY <2>3 DEF Deletion, DeleteBegin, DeleteCascade, DeleteCommit,
                  unchangedRepo
    <3>2. WorkLeft' = WorkLeft
      BY <3>1 DEF WorkLeft
    <3> QED
      BY <2>0, <3>2, WorkLess
  <2>4. CASE Work
    <3>1. WorkLeft' < WorkLeft /\ WorkLeft' \in Int
      BY <2>4, WorkLess, WorkLeftNext
    <3> QED
      BY <2>0, <3>1
  <2>5. CASE Restart
    BY <2>5, RestartWork, WorkLess
  <2>6. CASE \E j \in Jobs : Analysis(j)
    BY <2>6, AnalysisWork, WorkLess
  <2> QED
    BY <2>1, <2>2, <2>3, <2>4, <2>5, <2>6 DEF Next, Requests
<1> QED
  BY <1>1, <1>2, <1>3, Invariance, PTL DEF Safety, WorkRunsOut

=============================================================================
