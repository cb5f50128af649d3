--------------------------- MODULE SandboxSessions ---------------------------
(***************************************************************************)
(* The persistent shells behind POST /exec: SandboxManager with its two    *)
(* maps and its lock, the PersistentShellSession objects with theirs, and  *)
(* the shell process of each.                                              *)
(*                                                                         *)
(* Everything runs on one event loop, so a coroutine is atomic from one    *)
(* await that gives way to the next: a lock that is free is taken without  *)
(* giving way, a lock that is held, the start of a process, a shell's      *)
(* answer and a full pipe are waited for.  The shells are processes of     *)
(* their own: they run, exit and are reaped between any two steps.         *)
(***************************************************************************)
EXTENDS Naturals

CONSTANTS
    Runs,      \* runs (or repositories) that have a worktree
    Objects,   \* PersistentShellSession objects that can be made
    Chosen,    \* session ids that clients make up
    Requests,  \* POST /exec requests, one command each
    Closers,   \* DELETE /session requests
    None

(* An object's own name serves as the id that uuid4 makes for it.          *)
Ids == Objects \cup Chosen

Made == [run : Runs, id : Ids]

ASSUME NoneAssumption ==
    None \notin Runs \cup Ids \cup Requests \cup Closers \cup Made

ASSUME ActorsAssumption == Requests \cap Closers = {}

(* Nobody guesses what uuid4 will return.                                  *)
ASSUME IdsAssumption == Objects \cap Chosen = {}

VARIABLES
    sessions,    \* _sessions: the object registered under each id
    runSession,  \* _run_to_session
    manager,     \* who holds SandboxManager._lock
    made,        \* the run and the id each object was made for
    closed,      \* is_closed
    lock,        \* who holds each object's lock
    shell,       \* self.proc of each object
    live,        \* how many processes an object started still run
    dirs,        \* objects whose temp_dir exists
    req,         \* the /exec requests
    closer,      \* the DELETE requests
    shutdown     \* close_all_sessions at the end of the process

vars == <<sessions, runSession, manager, made, closed, lock, shell, live,
          dirs, req, closer, shutdown>>

ReqPCs == {"idle", "lookup", "creating", "lock", "spawn", "drain", "rewrite",
           "redrain", "wait", "echoed", "respawn", "done", "failed"}

(* ran: the shell has run the command; late: timed_out; revived: a process *)
(* was started for it in a session that had been closed.                   *)
Request == [pc : ReqPCs, run : Runs \cup {None}, id : Ids \cup {None},
            obj : Objects \cup {None}, ran : BOOLEAN, late : BOOLEAN,
            revived : BOOLEAN]

CloserPCs == {"idle", "lookup", "draining", "closing", "done"}

Closer == [pc : CloserPCs, id : Ids \cup {None}, obj : Objects \cup {None}]

ShutdownPCs == {"up", "next", "closing", "down"}

(* The manager's lock is None for the shutdown too: nobody contends then.  *)
TypeOK ==
    /\ sessions \in [Ids -> Objects \cup {None}]
    /\ runSession \in [Runs -> Ids \cup {None}]
    /\ manager \in Requests \cup Closers \cup {None}
    /\ made \in [Objects -> Made \cup {None}]
    /\ closed \in [Objects -> BOOLEAN]
    /\ lock \in [Objects -> Requests \cup {None}]
    /\ shell \in [Objects -> {"none", "alive", "dead", "reaped"}]
    /\ live \in [Objects -> Nat]
    /\ dirs \subseteq Objects
    /\ req \in [Requests -> Request]
    /\ closer \in [Closers -> Closer]
    /\ shutdown \in [pc : ShutdownPCs, obj : Objects \cup {None},
                     todo : SUBSET Objects]

Init ==
    /\ sessions = [i \in Ids |-> None]
    /\ runSession = [r \in Runs |-> None]
    /\ manager = None
    /\ made = [o \in Objects |-> None]
    /\ closed = [o \in Objects |-> FALSE]
    /\ lock = [o \in Objects |-> None]
    /\ shell = [o \in Objects |-> "none"]
    /\ live = [o \in Objects |-> 0]
    /\ dirs = {}
    /\ req = [q \in Requests |-> [pc |-> "idle", run |-> None, id |-> None,
                                  obj |-> None, ran |-> FALSE,
                                  late |-> FALSE, revived |-> FALSE]]
    /\ closer = [c \in Closers |-> [pc |-> "idle", id |-> None,
                                    obj |-> None]]
    /\ shutdown = [pc |-> "up", obj |-> None, todo |-> {}]

----------------------------------------------------------------------------
(* Finding or making the session of a request.                             *)

Registered == {o \in Objects : \E i \in Ids : sessions[i] = o}

(* The two lookups of get_or_create_session: the id, then the run.         *)
ById(i) ==
    {o \in Objects : i # None /\ sessions[i] = o /\ ~closed[o]}

ByRun(r) ==
    {o \in Objects : /\ runSession[r] # None
                     /\ sessions[runSession[r]] = o /\ ~closed[o]}

Found(q) ==
    IF ById(req[q].id) # {} THEN ById(req[q].id) ELSE ByRun(req[q].run)

(* A client sends no session id, one of its own, or one it was told.  The  *)
(* worktree of the run is found or made first; without one the request has *)
(* failed, whatever session there is.                                      *)
Ask(q) ==
    /\ req[q].pc = "idle" /\ shutdown.pc = "up"
    /\ \E r \in Runs, pc \in {"lookup", "failed"},
          i \in {None} \cup Chosen \cup {o \in Objects : made[o] # None} :
          req' = [req EXCEPT ![q] = [@ EXCEPT !.pc = pc, !.run = r, !.id = i]]
    /\ UNCHANGED <<sessions, runSession, manager, made, closed, lock, shell,
                   live, dirs, closer, shutdown>>

(* execute_command then tests is_closed, which the lookup has just done:   *)
(* nothing gave way in between.                                            *)
Reuse(q) ==
    /\ req[q].pc = "lookup" /\ manager = None
    /\ \E o \in Found(q) :
          req' = [req EXCEPT ![q] = [@ EXCEPT !.pc = "lock", !.obj = o]]
    /\ UNCHANGED <<sessions, runSession, manager, made, closed, lock, shell,
                   live, dirs, closer, shutdown>>

Fresh == {o \in Objects : made[o] = None}

(* A new object; the manager's lock is held while its shell starts.        *)
Create(q) ==
    /\ req[q].pc = "lookup" /\ manager = None
    /\ Found(q) = {} /\ Fresh # {}
    /\ LET o == CHOOSE o \in Fresh : TRUE IN
          /\ made' = [made EXCEPT ![o] =
                 [run |-> req[q].run,
                  id |-> IF req[q].id = None THEN o ELSE req[q].id]]
          /\ dirs' = dirs \cup {o}
          /\ req' = [req EXCEPT ![q] = [@ EXCEPT !.pc = "creating", !.obj = o]]
    /\ manager' = q
    /\ UNCHANGED <<sessions, runSession, closed, lock, shell, live, closer,
                   shutdown>>

(* A process that was started becomes the object's current one.            *)
Start(o) ==
    /\ shell' = [shell EXCEPT ![o] = "alive"]
    /\ live' = [live EXCEPT ![o] = @ + 1]

Created(q) ==
    LET o == req[q].obj IN
    /\ req[q].pc = "creating"
    /\ Start(o)
    /\ sessions' = [sessions EXCEPT ![made[o].id] = o]
    /\ runSession' = [runSession EXCEPT ![made[o].run] = made[o].id]
    /\ manager' = None
    /\ req' = [req EXCEPT ![q].pc = "lock"]
    /\ UNCHANGED <<made, closed, lock, dirs, closer, shutdown>>

(* No shell on the host or no more processes: the object is dropped, its   *)
(* directory stays.                                                        *)
CreateFails(q) ==
    /\ req[q].pc = "creating"
    /\ manager' = None
    /\ req' = [req EXCEPT ![q].pc = "failed"]
    /\ UNCHANGED <<sessions, runSession, made, closed, lock, shell, live,
                   dirs, closer, shutdown>>

----------------------------------------------------------------------------
(* One command in a session.                                               *)

Holds(q, pc) ==
    /\ req[q].pc = pc
    /\ UNCHANGED <<sessions, runSession, manager, made, closed, dirs, closer,
                   shutdown>>

(* A command that ends its braces early and goes on for more than the pipe *)
(* and the buffer before it hold leaves them full while the shell runs the *)
(* first part: whoever writes to the shell then waits.                     *)
Full(o) ==
    \E q \in Requests : req[q].pc \in {"drain", "redrain"} /\ req[q].obj = o

(* The session's lock is taken, and not released before the command ends.  *)
(* A shell known to have ended is replaced; what is written to one that    *)
(* ended unnoticed raises, and then it is replaced too, or is lost.        *)
Enter(q) ==
    LET o == req[q].obj IN
    /\ Holds(q, "lock")
    /\ lock[o] = None
    /\ lock' = [lock EXCEPT ![o] = q]
    /\ \/ /\ shell[o] \in {"none", "reaped"}
          /\ req' = [req EXCEPT ![q].pc = "spawn"]
       \/ /\ shell[o] = "dead"
          /\ req' = [req EXCEPT ![q].pc = "rewrite"]
       \/ /\ shell[o] \in {"alive", "dead"}
          /\ \E pc \in {"drain", "wait"} : req' = [req EXCEPT ![q].pc = pc]
    /\ UNCHANGED <<shell, live>>

(* initialize() returns: before the command, which is then written, ...    *)
Spawned(q) ==
    /\ Holds(q, "spawn") \/ Holds(q, "rewrite")
    /\ Start(req[q].obj)
    /\ \E pc \in {IF req[q].pc = "spawn" THEN "drain" ELSE "redrain", "wait"} :
          req' = [req EXCEPT ![q] = [@ EXCEPT !.pc = pc,
                                             !.revived = closed[req[q].obj]]]
    /\ UNCHANGED lock

(* A pipe that is full no more wakes everyone who writes to it: the        *)
(* command goes on to pc, and so does a close() of its session.            *)
Woken(q, pc) ==
    /\ req' = [req EXCEPT ![q].pc = pc]
    /\ closer' = [c \in Closers |->
           IF closer[c].pc = "draining" /\ closer[c].obj = req[q].obj
           THEN [closer[c] EXCEPT !.pc = "closing"] ELSE closer[c]]
    /\ UNCHANGED <<sessions, runSession, manager, made, closed, shell, live,
                   dirs, shutdown>>

(* The shell has read the rest: the command is written.                    *)
Drained(q) ==
    /\ req[q].pc \in {"drain", "redrain"} /\ shell[req[q].obj] = "alive"
    /\ Woken(q, "wait")
    /\ UNCHANGED lock

Release(q) == lock' = [lock EXCEPT ![req[q].obj] = None]

End(q, pc) == Release(q) /\ req' = [req EXCEPT ![q].pc = pc]

(* The shell has ended and with it the pipe: the command is written again  *)
(* to a new one, once.                                                     *)
DrainBroken(q) ==
    /\ req[q].pc \in {"drain", "redrain"}
    /\ shell[req[q].obj] \in {"dead", "reaped"}
    /\ \/ /\ req[q].pc = "drain"
          /\ Woken(q, "rewrite")
          /\ UNCHANGED lock
       \/ /\ req[q].pc = "redrain"
          /\ Woken(q, "failed")
          /\ Release(q)

(* ... or after a command that timed out, which then answers.              *)
Respawned(q) ==
    /\ Holds(q, "respawn")
    /\ Start(req[q].obj)
    /\ req' = [req EXCEPT ![q] =
           [@ EXCEPT !.pc = "done", !.revived = closed[req[q].obj]]]
    /\ Release(q)

(* Mutant of SpawnFails: the lock is not released.                         *)
SpawnFailsLocked(q) ==
    /\ Holds(q, "spawn") \/ Holds(q, "rewrite") \/ Holds(q, "respawn")
    /\ req' = [req EXCEPT ![q].pc = "failed"]
    /\ UNCHANGED <<lock, shell, live>>

SpawnFails(q) ==
    /\ Holds(q, "spawn") \/ Holds(q, "rewrite") \/ Holds(q, "respawn")
    /\ End(q, "failed")
    /\ UNCHANGED <<shell, live>>

(* The shell's side: it runs the command and echoes the token.  If the     *)
(* directory of its output is gone it only echoes.                         *)
Run(q) ==
    /\ Holds(q, "wait")
    /\ shell[req[q].obj] = "alive"
    /\ req' = [req EXCEPT ![q] =
           [@ EXCEPT !.pc = "echoed", !.ran = req[q].obj \in dirs]]
    /\ UNCHANGED <<lock, shell, live>>

(* The token is read.                                                      *)
Reply(q) ==
    /\ Holds(q, "echoed")
    /\ End(q, "done")
    /\ UNCHANGED <<shell, live>>

(* Mutant of Eof: the end of the output counts as an answer.               *)
EofAnswers(q) ==
    /\ Holds(q, "wait")
    /\ shell[req[q].obj] \in {"dead", "reaped"}
    /\ End(q, "done")
    /\ UNCHANGED <<shell, live>>

(* The output ends without the token: an error.                            *)
Eof(q) ==
    /\ Holds(q, "wait")
    /\ shell[req[q].obj] \in {"dead", "reaped"}
    /\ End(q, "failed")
    /\ UNCHANGED <<shell, live>>

(* Mutant of Kill: it counts a process that has ended.                     *)
KillCounted(o) ==
    /\ shell' = IF shell[o] = "alive" THEN [shell EXCEPT ![o] = "dead"]
                ELSE shell
    /\ live' = [live EXCEPT ![o] = @ - 1]

(* _kill_process_tree on the object's current process.                     *)
Kill(o) ==
    /\ shell' = IF shell[o] = "alive" THEN [shell EXCEPT ![o] = "dead"]
                ELSE shell
    /\ live' = IF shell[o] = "alive" THEN [live EXCEPT ![o] = @ - 1]
               ELSE live

(* Mutant of Timeout: the shell is replaced without being killed.          *)
TimeoutSpares(q) ==
    /\ Holds(q, "wait") \/ Holds(q, "echoed")
    /\ req' = [req EXCEPT ![q] = [@ EXCEPT !.pc = "respawn", !.late = TRUE]]
    /\ UNCHANGED <<lock, shell, live>>

(* The timer runs from when the command is written.  It is noticed while   *)
(* the command runs, or just after.                                        *)
Timeout(q) ==
    /\ Holds(q, "wait") \/ Holds(q, "echoed")
    /\ Kill(req[q].obj)
    /\ req' = [req EXCEPT ![q] = [@ EXCEPT !.pc = "respawn", !.late = TRUE]]
    /\ UNCHANGED lock

----------------------------------------------------------------------------
(* The shells.  One exits because a command or close() told it to, or      *)
(* because something killed it; the event loop notices later.              *)

ShellExits(o) ==
    /\ shell[o] = "alive"
    /\ Kill(o)
    /\ UNCHANGED <<sessions, runSession, manager, made, closed, lock, dirs,
                   req, closer, shutdown>>

Reap(o) ==
    /\ shell[o] = "dead"
    /\ shell' = [shell EXCEPT ![o] = "reaped"]
    /\ UNCHANGED <<sessions, runSession, manager, made, closed, lock, live,
                   dirs, req, closer, shutdown>>

----------------------------------------------------------------------------
(* Closing.  close() does not take the session's lock.                     *)

AskClose(c) ==
    /\ closer[c].pc = "idle" /\ shutdown.pc = "up"
    /\ \E i \in Chosen \cup {o \in Objects : made[o] # None} :
          closer' = [closer EXCEPT ![c] = [@ EXCEPT !.pc = "lookup", !.id = i]]
    /\ UNCHANGED <<sessions, runSession, manager, made, closed, lock, shell,
                   live, dirs, req, shutdown>>

(* Mutant of Unmapped: the run keeps its session id.                       *)
UnmappedKept(o, i) == runSession

(* What close_session leaves in _run_to_session.                           *)
Unmapped(o, i) ==
    [runSession EXCEPT ![made[o].run] = IF @ = i THEN None ELSE @]

(* The session leaves both maps and is marked; then the shell is told to   *)
(* exit, under the manager's lock: a pipe that is full is waited for.      *)
CloseBegin(c) ==
    LET i == closer[c].id
        o == sessions[i]
    IN
    /\ closer[c].pc = "lookup" /\ manager = None
    /\ IF o = None
       THEN /\ closer' = [closer EXCEPT ![c].pc = "done"]
            /\ UNCHANGED <<sessions, runSession, manager, closed>>
       ELSE /\ sessions' = [sessions EXCEPT ![i] = None]
            /\ runSession' = Unmapped(o, i)
            /\ closed' = [closed EXCEPT ![o] = TRUE]
            /\ manager' = c
            /\ closer' = [closer EXCEPT ![c] =
                   [@ EXCEPT !.pc = IF Full(o) THEN "draining" ELSE "closing",
                             !.obj = o]]
    /\ UNCHANGED <<made, lock, shell, live, dirs, req, shutdown>>

(* Mutant of CloseEnd: the shell is only told to exit.                     *)
CloseEndSpares(c) ==
    /\ closer[c].pc = "closing"
    /\ dirs' = dirs \ {closer[c].obj}
    /\ manager' = None
    /\ closer' = [closer EXCEPT ![c].pc = "done"]
    /\ UNCHANGED <<sessions, runSession, made, closed, lock, shell, live, req,
                   shutdown>>

(* The current process is killed, the directory removed.                   *)
CloseEnd(c) ==
    /\ closer[c].pc = "closing"
    /\ Kill(closer[c].obj)
    /\ dirs' = dirs \ {closer[c].obj}
    /\ manager' = None
    /\ closer' = [closer EXCEPT ![c].pc = "done"]
    /\ UNCHANGED <<sessions, runSession, made, closed, lock, req, shutdown>>

(* At the end of the process, when the server has answered every request,  *)
(* close_all_sessions closes one session after the other ...               *)
Quiet == /\ \A q \in Requests : req[q].pc \in {"idle", "done", "failed"}
         /\ \A c \in Closers : closer[c].pc \in {"idle", "done"}

Stop(pc, o, todo) ==
    /\ shutdown' = [pc |-> pc, obj |-> o, todo |-> todo]
    /\ UNCHANGED <<manager, made, lock, req, closer>>

ShutdownBegin ==
    /\ shutdown.pc = "up" /\ Quiet
    /\ Stop("next", None, Registered)
    /\ UNCHANGED <<sessions, runSession, closed, shell, live, dirs>>

ShutdownClose ==
    /\ shutdown.pc = "next"
    /\ \E o \in shutdown.todo :
          /\ closed' = [closed EXCEPT ![o] = TRUE]
          /\ Stop("closing", o, shutdown.todo \ {o})
    /\ UNCHANGED <<sessions, runSession, shell, live, dirs>>

ShutdownKill ==
    /\ shutdown.pc = "closing"
    /\ Kill(shutdown.obj)
    /\ dirs' = dirs \ {shutdown.obj}
    /\ Stop("next", None, shutdown.todo)
    /\ UNCHANGED <<sessions, runSession, closed>>

(* Mutant of ShutdownEnd: the maps are cleared after the first session.    *)
ShutdownEndEarly ==
    /\ shutdown.pc = "next"
    /\ sessions' = [i \in Ids |-> None]
    /\ runSession' = [r \in Runs |-> None]
    /\ Stop("down", None, {})
    /\ UNCHANGED <<closed, shell, live, dirs>>

(* ... and clears the maps.                                                *)
ShutdownEnd ==
    /\ shutdown.pc = "next" /\ shutdown.todo = {}
    /\ sessions' = [i \in Ids |-> None]
    /\ runSession' = [r \in Runs |-> None]
    /\ Stop("down", None, {})
    /\ UNCHANGED <<closed, shell, live, dirs>>

----------------------------------------------------------------------------
(* What the event loop and the shells do for one request.                  *)
Serve(q) ==
    \/ Reuse(q) \/ Create(q) \/ Created(q) \/ CreateFails(q) \/ Enter(q)
    \/ Spawned(q) \/ Respawned(q) \/ SpawnFails(q)
    \/ Run(q) \/ Reply(q) \/ Eof(q) \/ Timeout(q)

(* What a command that was written in part waits for.                      *)
Drain(q) == Drained(q) \/ DrainBroken(q)

Close(c) == CloseBegin(c) \/ CloseEnd(c)

Shutdown == \/ ShutdownBegin \/ ShutdownClose
            \/ ShutdownKill \/ ShutdownEnd

Next ==
    \/ \E q \in Requests : Ask(q) \/ Serve(q) \/ Drain(q)
    \/ \E o \in Objects : ShellExits(o) \/ Reap(o)
    \/ \E c \in Closers : AskClose(c) \/ Close(c)
    \/ Shutdown

Safety == Init /\ [][Next]_vars

(* The event loop resumes what is ready, a process starts or fails to, and *)
(* wait_for's timer ends what a shell does not answer.  Nobody has to send *)
(* a request or stop the server, and no shell has to exit, or to read the  *)
(* rest of a command whose first part it runs: no timer runs meanwhile.    *)
Fairness ==
    /\ \A q \in Requests : WF_vars(Serve(q))
    /\ \A c \in Closers : WF_vars(Close(c))

Spec == Safety /\ Fairness
----------------------------------------------------------------------------
(* The two maps describe the same sessions: a run is mapped to an id under *)
(* which a session of that run is registered, and every registered session *)
(* is the one its run is mapped to.  So a run has one session, whatever    *)
(* ids clients send, while a shell starts for one and another closes.      *)
MapsAgree ==
    /\ \A r \in Runs : runSession[r] # None =>
          /\ sessions[runSession[r]] # None
          /\ made[sessions[runSession[r]]] = [run |-> r, id |-> runSession[r]]
    /\ \A i \in Ids : sessions[i] # None =>
          /\ made[sessions[i]] # None
          /\ made[sessions[i]].id = i
          /\ runSession[made[sessions[i]].run] = i

(* No process is forgotten: over restarts after a timeout, a broken pipe   *)
(* or an exit, in whatever order with a close, a session has at most one   *)
(* process, the one self.proc names, and it is registered or closed.       *)
ShellsAccounted ==
    \A o \in Objects :
        /\ live[o] = IF shell[o] = "alive" THEN 1 ELSE 0
        /\ shell[o] = "alive" => o \in Registered \/ closed[o]

BeingClosed(o) ==
    \/ \E c \in Closers :
          closer[c].pc \in {"draining", "closing"} /\ closer[c].obj = o
    \/ shutdown.pc = "closing" /\ shutdown.obj = o

Revived(o) == \E q \in Requests : req[q].obj = o /\ req[q].revived

(* close() ends the shell, except that a command which was in the session  *)
(* or waiting for its lock may start another one afterwards.               *)
OnlyRevivedOutlive ==
    \A o \in Objects :
        closed[o] /\ shell[o] = "alive" => BeingClosed(o) \/ Revived(o)

(* An exit code is that of the command: what is answered in time was run,  *)
(* unless the session was closed under the command.                        *)
AnswersAreReal ==
    \A q \in Requests :
        req[q].pc = "done" /\ ~req[q].late =>
            req[q].ran \/ closed[req[q].obj]

(* When the server has stopped, the only shells left are those started in  *)
(* a closed session, and the only directories those of sessions that could *)
(* not be started.                                                         *)
ShutdownClean ==
    shutdown.pc = "down" =>
        \A o \in Objects :
            /\ live[o] > 0 => Revived(o)
            /\ o \in dirs => ~closed[o] /\ shell[o] = "none"

(* Whom a full pipe holds up: those who write to it or wait for the lock   *)
(* of its session, and, while a close() writes to it, all who wait for the *)
(* manager's lock.                                                         *)
Closing == \E c \in Closers : closer[c].pc = "draining"

HeldUp(q) ==
    \/ req[q].pc \in {"lock", "drain", "redrain"} /\ Full(req[q].obj)
    \/ req[q].pc = "lookup" /\ Closing

(* Every request to run a command is answered, and every request to close  *)
(* a session: neither lock is ever kept, unless a shell leaves the rest of *)
(* a command unread for ever.                                              *)
EveryRequestAnswered ==
    /\ \A q \in Requests :
          req[q].pc # "idle" ~>
             (req[q].pc \in {"done", "failed"} \/ []HeldUp(q))
    /\ \A c \in Closers :
          closer[c].pc # "idle" ~> (closer[c].pc = "done" \/ []Closing)
==============================================================================
