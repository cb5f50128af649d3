----------------------------- MODULE ImportJobs -----------------------------
(***************************************************************************)
(* Imports of one user's repository: its rows in the database, the queue   *)
(* with its single worker, the analysis threads, and the requests that     *)
(* import, reanalyse, cancel and delete.                                   *)
(*                                                                         *)
(* The queue loop, the worker and the async requests share one event loop: *)
(* each is atomic from one await to the next.  DELETE is served by a pool  *)
(* thread and the analysis runs in another; both interleave with every     *)
(* commit.  A timed-out or cancelled analysis is abandoned, not stopped:   *)
(* its thread goes on, on the database session of its job.                 *)
(*                                                                         *)
(* A job and its analysis are created, updated and deleted in the same     *)
(* commits, so one status stands for both.  Deleting a repository and      *)
(* importing it again makes a new row, with a new hash: a generation.      *)
(***************************************************************************)
EXTENDS Naturals, Sequences

CONSTANTS
    MaxJobs,      \* bound: jobs created per behaviour
    MaxRepos,     \* bound: generations of the repository
    MaxRestarts,  \* bound: restarts of the server
    MaxFaults,    \* bound: database errors and session clashes
    Runtimes      \* what asyncio.wait_for does about a late cancellation

(* Up to Python 3.11, the version of backend/Dockerfile, wait_for returns  *)
(* the result if the future it awaits is done when the cancellation        *)
(* arrives; from 3.12 on it raises the cancellation.                       *)
ASSUME RuntimesAssumption ==
    Runtimes # {} /\ Runtimes \subseteq {"swallows", "raises"}

ASSUME BoundsAssumption ==
    /\ MaxJobs \in Nat /\ MaxRepos \in Nat
    /\ MaxRestarts \in Nat /\ MaxFaults \in Nat

Jobs == 1..MaxJobs
Generations == 1..MaxRepos

Unfinished == {"Queued", "Downloading", "Analyzing", "Saving"}
Finished == {"Completed", "Failed", "Cancelled"}

VARIABLES
    runtime,   \* the behaviour of wait_for
    repo,      \* the repository's generation, 0 if there is no row
    gens,      \* generations so far
    created,   \* jobs created so far
    gen,       \* the generation each job belongs to
    status,    \* the status of each job and its analysis; "none": no row
    queue,     \* InMemoryQueue.queue
    worker,    \* the queue loop with the task it awaits
    threads,   \* jobs whose analysis thread is alive
    deleter,   \* the pool thread that serves DELETE
    blobs,     \* prefixes under which files are stored
    restarts,  \* restarts so far
    faults     \* faults so far

vars == <<runtime, repo, gens, created, gen, status, queue, worker, threads,
          deleter, blobs, restarts, faults>>

WorkerPCs == {"idle", "starting", "downloading", "downloaded", "analyzing",
              "analyzed", "saving", "failing", "unwinding"}

(* Where the worker is, the job it has, and whether the future it awaited  *)
(* ended with a result.                                                    *)
Worker == [pc : WorkerPCs, job : 0..MaxJobs, ok : BOOLEAN]

NoWork == [pc |-> "idle", job |-> 0, ok |-> FALSE]

(* The repository being deleted and the child rows loaded for the cascade. *)
Deleter == [pc : {"idle", "cascade", "commit"}, gen : 0..MaxRepos,
            rows : SUBSET Jobs]

NoDelete == [pc |-> "idle", gen |-> 0, rows |-> {}]

(* build_blob_key puts a repository's files under its hash; there is a     *)
(* prefix with its id as well, under which nothing is ever written.        *)
BlobPrefix == [by : {"hash", "id"}, gen : 0..MaxRepos]

TypeOK ==
    /\ runtime \in Runtimes
    /\ repo \in 0..MaxRepos
    /\ gens \in 0..MaxRepos
    /\ created \in 0..MaxJobs
    /\ gen \in [Jobs -> 0..MaxRepos]
    /\ status \in [Jobs -> Unfinished \cup Finished \cup {"none"}]
    /\ queue \in Seq(Jobs)
    /\ worker \in Worker
    /\ threads \subseteq Jobs
    /\ deleter \in Deleter
    /\ blobs \subseteq BlobPrefix
    /\ restarts \in 0..MaxRestarts
    /\ faults \in 0..MaxFaults

Init ==
    /\ runtime \in Runtimes
    /\ repo = 0 /\ gens = 0 /\ created = 0
    /\ gen = [j \in Jobs |-> 0]
    /\ status = [j \in Jobs |-> "none"]
    /\ queue = <<>>
    /\ worker = NoWork
    /\ threads = {}
    /\ deleter = NoDelete
    /\ blobs = {}
    /\ restarts = 0 /\ faults = 0

unchangedRepo == UNCHANGED <<runtime, repo, gens, created, gen>>

----------------------------------------------------------------------------
(* The requests.  Those that are coroutines wait while the worker does not *)
(* give up the event loop: from its Saving commit to its end, and in its   *)
(* failure handler.                                                        *)

LoopBusy == worker.pc \in {"saving", "failing"}

Rows(g) == {j \in Jobs : gen[j] = g /\ status[j] # "none"}

Open(g) == {j \in Rows(g) : status[j] \in Unfinished}

(* Mutant of AddJob: no check for an unfinished job.                       *)
AddJobUnchecked(g) ==
    /\ created < MaxJobs
    /\ created' = created + 1
    /\ gen' = [gen EXCEPT ![created'] = g]
    /\ status' = [status EXCEPT ![created'] = "Queued"]
    /\ queue' = Append(queue, created')
    /\ UNCHANGED <<runtime, worker, threads, deleter, blobs, restarts, faults>>

(* The check for an unfinished job, the new rows and the enqueueing, which *)
(* no await separates.                                                     *)
AddJob(g) ==
    /\ Open(g) = {}
    /\ created < MaxJobs
    /\ created' = created + 1
    /\ gen' = [gen EXCEPT ![created'] = g]
    /\ status' = [status EXCEPT ![created'] = "Queued"]
    /\ queue' = Append(queue, created')
    /\ UNCHANGED <<runtime, worker, threads, deleter, blobs, restarts, faults>>

(* POST /import: the repository's row is created if there is none.         *)
Import ==
    /\ ~LoopBusy
    /\ \/ repo = 0 /\ gens < MaxRepos /\ gens' = gens + 1 /\ repo' = gens'
       \/ repo # 0 /\ UNCHANGED <<repo, gens>>
    /\ AddJob(repo')

Reanalyze ==
    /\ ~LoopBusy /\ repo # 0
    /\ AddJob(repo)
    /\ UNCHANGED <<repo, gens>>

(* task.cancel() on the task that works on job j, if there is one.  A task *)
(* whose future is done but which has not resumed keeps the result or not. *)
CancelTask(j) ==
    IF worker.job # j THEN worker
    ELSE IF worker.pc \in {"downloaded", "analyzed"} /\ runtime = "swallows"
    THEN worker
    ELSE [worker EXCEPT !.pc = "unwinding"]

Cancel ==
    /\ ~LoopBusy /\ repo # 0
    /\ \E j \in Open(repo) :
          /\ worker' = CancelTask(j)
          /\ status' = [status EXCEPT ![j] = "Cancelled"]
    /\ UNCHANGED <<queue, threads, deleter, blobs, restarts, faults>>
    /\ unchangedRepo

(* DELETE: first the files ...                                             *)
DeleteBegin ==
    /\ deleter.pc = "idle" /\ repo # 0
    /\ deleter' = [pc |-> "cascade", gen |-> repo, rows |-> {}]
    /\ blobs' = {b \in blobs : b.gen # repo}
    /\ UNCHANGED <<status, queue, worker, threads, restarts, faults>>
    /\ unchangedRepo

(* ... then the cascade loads the child rows ...                           *)
DeleteCascade ==
    /\ deleter.pc = "cascade"
    /\ deleter' = [deleter EXCEPT !.pc = "commit",
                                  !.rows = Rows(deleter.gen)]
    /\ UNCHANGED <<status, queue, worker, threads, blobs, restarts, faults>>
    /\ unchangedRepo

(* ... and the rows go, unless a child was added that was not loaded: then *)
(* its foreign key refuses the deletion.                                   *)
DeleteCommit ==
    /\ deleter.pc = "commit"
    /\ deleter' = NoDelete
    /\ IF Rows(deleter.gen) \subseteq deleter.rows
       THEN /\ repo' = 0
            /\ status' = [j \in Jobs |->
                   IF gen[j] = deleter.gen THEN "none" ELSE status[j]]
       ELSE UNCHANGED <<repo, status>>
    /\ UNCHANGED <<runtime, gens, created, gen, queue, worker, threads, blobs,
                   restarts, faults>>

----------------------------------------------------------------------------
(* The queue loop and the worker.                                          *)

Exists(j) == status[j] # "none"

Become(pc) == worker' = [worker EXCEPT !.pc = pc]

(* Mutant of TakeWork: a job cancelled in the queue is started.            *)
TakeCancelled(j) == [pc |-> "starting", job |-> j, ok |-> FALSE]

(* A job cancelled while it waited is skipped, any other gets a task.      *)
TakeWork(j) ==
    IF status[j] = "Cancelled" THEN NoWork
    ELSE [pc |-> "starting", job |-> j, ok |-> FALSE]

Take ==
    /\ worker.pc = "idle" /\ queue # <<>>
    /\ worker' = TakeWork(Head(queue))
    /\ queue' = Tail(queue)
    /\ UNCHANGED <<status, threads, deleter, blobs, restarts, faults>>
    /\ unchangedRepo

(* process: nothing to do for a job without a row; else Downloading.       *)
Start ==
    /\ worker.pc = "starting"
    /\ IF status[worker.job] \in {"none", "Completed"}
       THEN worker' = NoWork /\ UNCHANGED status
       ELSE /\ Become("downloading")
            /\ status' = [status EXCEPT ![worker.job] = "Downloading"]
    /\ UNCHANGED <<queue, threads, deleter, blobs, restarts, faults>>
    /\ unchangedRepo

(* The download ends, with a result or an exception, but the worker has    *)
(* not resumed yet; or it times out.                                       *)
DownloadDone ==
    /\ worker.pc = "downloading"
    /\ \E ok \in BOOLEAN :
          worker' = [worker EXCEPT !.pc = "downloaded", !.ok = ok]
    /\ UNCHANGED <<status, queue, threads, deleter, blobs, restarts, faults>>
    /\ unchangedRepo

DownloadTimeout ==
    /\ worker.pc = "downloading"
    /\ Become("failing")
    /\ UNCHANGED <<status, queue, threads, deleter, blobs, restarts, faults>>
    /\ unchangedRepo

(* Mutant of ResumeDownload: a row that is gone is written again.          *)
ResumeDownloadBlind ==
    /\ worker.pc = "downloaded"
    /\ IF worker.ok
       THEN /\ Become("analyzing")
            /\ status' = [status EXCEPT ![worker.job] = "Analyzing"]
            /\ threads' = threads \cup {worker.job}
       ELSE Become("failing") /\ UNCHANGED <<status, threads>>
    /\ UNCHANGED <<queue, deleter, blobs, restarts, faults>>
    /\ unchangedRepo

(* Analyzing is committed without a look at the row; the update of a row   *)
(* that is gone raises.  The analysis thread starts.                       *)
ResumeDownload ==
    /\ worker.pc = "downloaded"
    /\ IF worker.ok /\ Exists(worker.job)
       THEN /\ Become("analyzing")
            /\ status' = [status EXCEPT ![worker.job] = "Analyzing"]
            /\ threads' = threads \cup {worker.job}
       ELSE Become("failing") /\ UNCHANGED <<status, threads>>
    /\ UNCHANGED <<queue, deleter, blobs, restarts, faults>>
    /\ unchangedRepo

(* Mutant of AnalysisTimeout: the worker waits for the thread to end.      *)
AnalysisTimeoutWaits ==
    /\ worker.pc = "analyzing" /\ worker.job \notin threads
    /\ Become("failing")
    /\ UNCHANGED <<status, queue, threads, deleter, blobs, restarts, faults>>
    /\ unchangedRepo

(* The worker stops waiting after ten minutes; the thread goes on.         *)
AnalysisTimeout ==
    /\ worker.pc = "analyzing"
    /\ Become("failing")
    /\ UNCHANGED <<status, queue, threads, deleter, blobs, restarts, faults>>
    /\ unchangedRepo

ResumeAnalysis ==
    /\ worker.pc = "analyzed"
    /\ IF worker.ok /\ Exists(worker.job)
       THEN /\ Become("saving")
            /\ status' = [status EXCEPT ![worker.job] = "Saving"]
       ELSE Become("failing") /\ UNCHANGED status
    /\ UNCHANGED <<queue, threads, deleter, blobs, restarts, faults>>
    /\ unchangedRepo

Fault == faults < MaxFaults /\ faults' = faults + 1

(* Completed is first committed by mark_complete, which drops it if that   *)
(* commit fails: the job then ends without an error and without the        *)
(* status.  Before that, an exception goes to the failure handler, and a   *)
(* row that is gone raises one.                                            *)
Save ==
    /\ worker.pc = "saving"
    /\ \/ /\ Exists(worker.job)
          /\ status' = [status EXCEPT ![worker.job] = "Completed"]
          /\ worker' = NoWork /\ UNCHANGED faults
       \/ /\ Exists(worker.job) /\ Fault
          /\ worker' = NoWork /\ UNCHANGED status
       \/ Become("failing") /\ UNCHANGED <<status, faults>>
    /\ UNCHANGED <<queue, threads, deleter, blobs, restarts>>
    /\ unchangedRepo

(* Mutants of FailedRows: the rows of a failed job are left as they are;   *)
(* they get a status of their own.                                         *)
FailedRowsKept(j) == status

FailedRowsError(j) == [status EXCEPT ![j] = "Error"]

(* What the failure handler leaves of the rows of job j.                   *)
FailedRows(j) == [status EXCEPT ![j] = "none"]

(* The failure handler deletes the rows and what is stored under the       *)
(* repository's id.  If the deletion fails, on a database error or because *)
(* the job's thread is using the session, it marks the rows Failed, and if *)
(* that fails too they stay.                                               *)
Fail ==
    /\ worker.pc = "failing"
    /\ \/ status' = FailedRows(worker.job) /\ UNCHANGED faults
       \/ /\ Exists(worker.job) /\ Fault
          /\ \/ status' = [status EXCEPT ![worker.job] = "Failed"]
             \/ UNCHANGED status
    /\ blobs' = {b \in blobs : ~(b.by = "id" /\ b.gen = gen[worker.job])}
    /\ worker' = NoWork
    /\ UNCHANGED <<queue, threads, deleter, restarts>>
    /\ unchangedRepo

(* A cancelled task ends past the failure handler; the queue loop marks    *)
(* the rows that are left.                                                 *)
Unwind ==
    /\ worker.pc = "unwinding"
    /\ status' = IF Exists(worker.job)
                 THEN [status EXCEPT ![worker.job] = "Cancelled"] ELSE status
    /\ worker' = NoWork
    /\ UNCHANGED <<queue, threads, deleter, blobs, restarts, faults>>
    /\ unchangedRepo

----------------------------------------------------------------------------
(* The analysis thread of job j.                                           *)

(* Files go under the hash of the repository row, which the session may    *)
(* still hold when the row is gone.                                        *)
ThreadUpload(j) ==
    /\ blobs' = blobs \cup {[by |-> "hash", gen |-> gen[j]]}
    /\ UNCHANGED <<status, queue, worker, threads, deleter, restarts, faults>>
    /\ unchangedRepo

(* The end matters only to a worker that still waits for it.               *)
ThreadEnd(j, ok) ==
    /\ threads' = threads \ {j}
    /\ worker' = IF worker.pc = "analyzing" /\ worker.job = j
                 THEN [worker EXCEPT !.pc = "analyzed", !.ok = ok]
                 ELSE worker
    /\ UNCHANGED <<status, queue, deleter, blobs, restarts, faults>>
    /\ unchangedRepo

Analysis(j) ==
    /\ j \in threads
    /\ ThreadUpload(j) \/ \E ok \in BOOLEAN : ThreadEnd(j, ok)

----------------------------------------------------------------------------
(* The process dies and starts again with an empty queue.  The recovery    *)
(* reads the unfinished jobs, and on the first of them a name that main.py *)
(* does not import; the error is logged and the startup goes on, so no job *)
(* is queued again.                                                        *)
Restart ==
    /\ restarts < MaxRestarts
    /\ restarts' = restarts + 1
    /\ queue' = <<>>
    /\ worker' = NoWork
    /\ threads' = {}
    /\ deleter' = NoDelete
    /\ UNCHANGED <<status, blobs, faults>>
    /\ unchangedRepo

Requests == Import \/ Reanalyze \/ Cancel

Deletion == DeleteBegin \/ DeleteCascade \/ DeleteCommit

Work == \/ Take \/ Start \/ DownloadDone \/ DownloadTimeout
        \/ ResumeDownload \/ AnalysisTimeout \/ ResumeAnalysis
        \/ Save \/ Fail \/ Unwind

Next == Requests \/ Deletion \/ Work \/ Restart \/ \E j \in Jobs : Analysis(j)

(* The event loop runs what is ready, wait_for's timers expire, and a      *)
(* deletion that began ends.  An analysis thread may hang, and nobody is   *)
(* bound to send a request.                                                *)
Fairness == WF_vars(Work) /\ WF_vars(DeleteCascade \/ DeleteCommit)

Safety == Init /\ [][Next]_vars

Spec == Safety /\ Fairness
----------------------------------------------------------------------------
(* An unfinished row stands for work: it waits in the queue or the worker  *)
(* has it.  Were it not so, every later import would be told that the      *)
(* analysis is already in progress.  Restarts and faults do break this.    *)
UnfinishedIsHeld ==
    restarts = 0 /\ faults = 0 =>
        \A j \in Jobs :
            status[j] \in Unfinished =>
                worker.job = j \/ \E i \in DOMAIN queue : queue[i] = j

(* At most one analysis of a repository is in progress, whatever was       *)
(* cancelled, failed, deleted, imported again or lost in a restart.        *)
OneUnfinished ==
    runtime = "raises" =>
        \A i, j \in Jobs :
            /\ status[i] \in Unfinished /\ status[j] \in Unfinished
            /\ gen[i] = gen[j]
            => i = j

(* A job that is Completed, Failed or Cancelled stays so until its rows    *)
(* are deleted, where wait_for raises late cancellations.                  *)
FinishedStays ==
    [][runtime = "raises" =>
          \A j \in Jobs :
              status[j] \in Finished => status'[j] \in {status[j], "none"}]_vars

JL == INSTANCE JobLifecycle
          WITH Repos <- Generations, row <- status, of <- gen,
               used <- 1..created, late <- (runtime = "swallows")

(* The rows, whatever the queue, the worker, the abandoned threads, the    *)
(* requests and the restarts do to them, follow the lifecycle a reader of  *)
(* the status may rely on.                                                 *)
Lifecycle == JL!Spec

(* Every job comes to an end, also when its download or analysis or that   *)
(* of a job before it hangs, its repository is deleted or it is cancelled  *)
(* at any point.                                                           *)
EveryJobSettles ==
    \A j \in Jobs :
        status[j] \in Unfinished
            ~> status[j] \notin Unfinished \/ restarts > 0 \/ faults > 0

----------------------------------------------------------------------------
(* What the repository says of imports and the code does not keep.         *)

(* core.py answers "Analysis cancelled successfully."; the job must not    *)
(* go on.                                                                  *)
CancelSticks ==
    [][\A j \in Jobs :
          status[j] = "Cancelled" => status'[j] \in {"Cancelled", "none"}]_vars

(* main.py: "Recover unfinished jobs": after a restart an unfinished job   *)
(* is taken up again and comes to an end.                                  *)
RestartRecovers ==
    \A j \in Jobs :
        restarts > 0 /\ status[j] \in Unfinished
            ~> status[j] \notin Unfinished

(* worker_cleanup.py: "Remove orphaned blobs from Azure if                 *)
(* repository/analysis is deleted."  When the failure handler has deleted  *)
(* a repository's only analysis and no thread is left to upload, nothing   *)
(* of that repository is stored.                                           *)
FailureCleansUp ==
    [][LET g == gen[worker.job] IN
       /\ worker.pc = "failing" /\ worker'.pc = "idle"
       /\ threads = {}
       /\ \A j \in Jobs : gen[j] = g => status'[j] = "none"
       => \A b \in blobs' : b.gen # g]_vars
=============================================================================
