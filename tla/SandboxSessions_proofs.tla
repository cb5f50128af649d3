----------------------- MODULE SandboxSessions_proofs -----------------------
(***************************************************************************)
(* What holds of the sandbox shells for any number of runs, sessions,      *)
(* requests and closers.                                                   *)
(*                                                                         *)
(* An object belongs to nobody until its shell has started, then to the    *)
(* maps until it is closed; its lock belongs to the request whose command  *)
(* is in it, and only that request starts processes for it, after the last *)
(* one has ended.  What a close leaves behind follows from that: it kills  *)
(* the process there is, so the one that outlives it was started later, by *)
(* a request that held or awaited the lock.                                *)
(***************************************************************************)
EXTENDS SandboxSessions, TLAPS

(* A request whose command is in the session.                              *)
InCommand ==
    {"spawn", "drain", "rewrite", "redrain", "wait", "echoed", "respawn"}

(* One that has a session.                                                 *)
InSession == InCommand \cup {"lock"}

(* Who holds the manager's lock, and what closers work on.                 *)
ActorsOK ==
    /\ \A q \in Requests : req[q].pc = "creating" <=> manager = q
    /\ \A c \in Closers :
          closer[c].pc \in {"draining", "closing"} <=> manager = c
    /\ \A c \in Closers : closer[c].pc \in {"draining", "closing"} =>
          closer[c].obj \in Objects /\ closed[closer[c].obj]
    /\ shutdown.pc = "closing" =>
          shutdown.obj \in Objects /\ closed[shutdown.obj]
    /\ shutdown.pc # "up" => Quiet

(* What was asked for, a run or an id.                                     *)
LookupOK ==
    /\ \A q \in Requests : req[q].pc = "lookup" => req[q].run \in Runs
    /\ \A c \in Closers : closer[c].pc = "lookup" => closer[c].id \in Ids

(* The id of an object is known once the object is made.                   *)
IdsOK ==
    /\ \A q \in Requests : req[q].id \in Objects => made[req[q].id] # None
    /\ \A o \in Objects :
          made[o] # None /\ made[o].id \in Objects => made[made[o].id] # None

(* No shell, no lock and no entry in the maps yet.                         *)
Untouched(o) ==
    /\ shell[o] = "none" /\ live[o] = 0 /\ ~closed[o] /\ lock[o] = None
    /\ o \notin Registered

(* An object that nobody made or that is being made is known to nobody     *)
(* else.                                                                   *)
FreshOK ==
    /\ \A o \in Objects : made[o] = None =>
          Untouched(o) /\ \A q \in Requests : req[q].obj # o
    /\ \A q \in Requests : req[q].pc = "creating" =>
          /\ req[q].obj \in Objects /\ made[req[q].obj] # None
          /\ Untouched(req[q].obj) /\ req[q].obj \in dirs
          /\ \A p \in Requests : req[p].obj = req[q].obj => p = q

(* A session that is registered is open, until the shutdown closes it; and *)
(* the maps have room for the one that is being made.                      *)
MapsOK ==
    /\ MapsAgree
    /\ shutdown.pc = "up" => \A o \in Registered : ~closed[o]
    /\ shutdown.pc \in {"next", "closing"} =>
          \A o \in Registered : o \in shutdown.todo \/ closed[o]
    /\ shutdown.pc = "down" => Registered = {}
    /\ \A q \in Requests : req[q].pc = "creating" =>
          /\ sessions[made[req[q].obj].id] = None
          /\ runSession[made[req[q].obj].run] = None

(* A lock is held by the request whose command is in the session.          *)
LockOK ==
    \A o \in Objects, q \in Requests :
        lock[o] = q <=> req[q].obj = o /\ req[q].pc \in InCommand

(* The session of a request is registered and has its directory until it   *)
(* is closed.                                                              *)
InSessionOK ==
    \A q \in Requests : req[q].pc \in InSession =>
        /\ req[q].obj \in Objects
        /\ req[q].obj \in Registered \/ closed[req[q].obj]
        /\ req[q].obj \in dirs \/ closed[req[q].obj]

(* A process is started where none runs.                                   *)
RestartsOK ==
    \A q \in Requests :
        /\ req[q].pc \in {"spawn", "rewrite", "respawn"} =>
              shell[req[q].obj] # "alive"
        /\ req[q].pc = "respawn" => req[q].late

(* Only a request whose command was under way can have revived a shell.    *)
RevivedOK ==
    \A q \in Requests : req[q].revived =>
        /\ req[q].pc \notin {"idle", "lookup", "creating", "lock", "spawn"}
        /\ req[q].obj \in Objects /\ closed[req[q].obj]

(* An answer in time follows a command that was written, or a close.       *)
AnswersOK ==
    \A q \in Requests :
        /\ req[q].pc = "echoed" => req[q].ran \/ closed[req[q].obj]
        /\ req[q].pc = "done" =>
              req[q].obj \in Objects
                 /\ (req[q].late \/ req[q].ran \/ closed[req[q].obj])

(* What is known of requests.                                              *)
RequestOK == InSessionOK /\ RestartsOK /\ RevivedOK /\ AnswersOK

(* A session has its directory until it is closed.                         *)
RegisteredOK == \A o \in Registered : o \in dirs \/ closed[o]

(* The shutdown closes sessions that were made.                            *)
TodoOK == \A o \in shutdown.todo : o \in Objects /\ made[o] # None

(* A session has one process or none.                                      *)
LiveCount ==
    \A o \in Objects : live[o] = IF shell[o] = "alive" THEN 1 ELSE 0

(* A shell that was started belongs to a session that is in the maps or is *)
(* closed.                                                                 *)
ShellsKnown ==
    \A o \in Objects : shell[o] # "none" => o \in Registered \/ closed[o]

(* A close that has finished has removed the directory.                    *)
DirsRemoved ==
    \A o \in Objects : closed[o] /\ o \in dirs => BeingClosed(o)

(* What is known of shells.                                                *)
ShellOK == LiveCount /\ ShellsKnown /\ OnlyRevivedOutlive /\ DirsRemoved

(* The inductive invariant.                                                *)
IInv ==
    /\ TypeOK /\ ActorsOK /\ LookupOK /\ IdsOK /\ FreshOK /\ MapsOK /\ LockOK
    /\ RequestOK /\ RegisteredOK /\ TodoOK /\ ShellOK

-----------------------------------------------------------------------------
(* Types of what requests and closers remember.                            *)

(* What a request remembers keeps its type, action by action.              *)
LEMMA AskRequestType ==
    ASSUME IInv, NEW q \in Requests, Ask(q)
    PROVE  req' \in [Requests -> Request]
<1>1. req \in [Requests -> Request]
  BY DEF IInv, TypeOK
<1>2. PICK r \in Runs, pc \in {"lookup", "failed"},
           i \in {None} \cup Chosen \cup {o \in Objects : made[o] # None} :
         req' = [req EXCEPT ![q] = [@ EXCEPT !.pc = pc, !.run = r, !.id = i]]
  BY DEF Ask
<1> QED
  BY <1>1, <1>2 DEF Request, ReqPCs, Ids

LEMMA ReuseRequestType ==
    ASSUME IInv, NEW q \in Requests, Reuse(q)
    PROVE  req' \in [Requests -> Request]
<1>1. req \in [Requests -> Request]
  BY DEF IInv, TypeOK
<1>2. PICK o \in Objects :
        req' = [req EXCEPT ![q] = [@ EXCEPT !.pc = "lock", !.obj = o]]
  BY DEF Reuse, Found, ById, ByRun
<1> QED
  BY <1>1, <1>2 DEF Request, ReqPCs

LEMMA CreatedRequestType ==
    ASSUME IInv, NEW q \in Requests, Created(q)
    PROVE  req' \in [Requests -> Request]
<1>1. req \in [Requests -> Request]
  BY DEF IInv, TypeOK
<1> QED
  BY <1>1 DEF Created, Request, ReqPCs

LEMMA EnterRequestType ==
    ASSUME IInv, NEW q \in Requests, Enter(q)
    PROVE  req' \in [Requests -> Request]
<1>1. req \in [Requests -> Request]
  BY DEF IInv, TypeOK
<1>2. PICK pc \in {"spawn", "drain", "rewrite", "wait"} :
        req' = [req EXCEPT ![q].pc = pc]
  BY DEF Enter
<1> QED
  BY <1>1, <1>2 DEF Request, ReqPCs

LEMMA SpawnedRequestType ==
    ASSUME IInv, NEW q \in Requests, Spawned(q)
    PROVE  req' \in [Requests -> Request]
<1>1. req \in [Requests -> Request]
  BY DEF IInv, TypeOK
<1>2. closed[req[q].obj] \in BOOLEAN
  BY DEF IInv, TypeOK, RequestOK, InSessionOK, InSession, InCommand, Spawned,
         Holds
<1>3. PICK pc \in ReqPCs :
        req' = [req EXCEPT ![q] = [@ EXCEPT !.pc = pc,
                                           !.revived = closed[req[q].obj]]]
  BY DEF Spawned, ReqPCs
<1> QED
  BY <1>1, <1>2, <1>3 DEF Request

(* A command that a full pipe held up goes on, or ends.                    *)
LEMMA WokenType ==
    ASSUME IInv, NEW q \in Requests, NEW pc \in ReqPCs, Woken(q, pc)
    PROVE  /\ req' \in [Requests -> Request]
           /\ closer' \in [Closers -> Closer]
<1>1. /\ req \in [Requests -> Request]
      /\ closer \in [Closers -> Closer]
  BY DEF IInv, TypeOK
<1>2. req' = [req EXCEPT ![q].pc = pc]
  BY DEF Woken
<1>3. req' \in [Requests -> Request]
  BY <1>1, <1>2 DEF Request
<1>4. ASSUME NEW c \in Closers
      PROVE  [closer[c] EXCEPT !.pc = "closing"] \in Closer
  BY <1>1 DEF Closer, CloserPCs
<1>5. closer' \in [Closers -> Closer]
  BY <1>1, <1>4 DEF Woken
<1> QED
  BY <1>3, <1>5

LEMMA RespawnedRequestType ==
    ASSUME IInv, NEW q \in Requests, Respawned(q)
    PROVE  req' \in [Requests -> Request]
<1>1. req \in [Requests -> Request]
  BY DEF IInv, TypeOK
<1>2. closed[req[q].obj] \in BOOLEAN
  BY DEF IInv, TypeOK, RequestOK, InSessionOK, InSession, InCommand,
         Respawned, Holds
<1> QED
  BY <1>1, <1>2 DEF Respawned, Request, ReqPCs

LEMMA SpawnFailsRequestType ==
    ASSUME IInv, NEW q \in Requests, SpawnFails(q)
    PROVE  req' \in [Requests -> Request]
<1>1. req \in [Requests -> Request]
  BY DEF IInv, TypeOK
<1> QED
  BY <1>1 DEF SpawnFails, End, Request, ReqPCs

LEMMA RunRequestType ==
    ASSUME IInv, NEW q \in Requests, Run(q)
    PROVE  req' \in [Requests -> Request]
<1>1. req \in [Requests -> Request]
  BY DEF IInv, TypeOK
<1>2. (req[q].obj \in dirs) \in BOOLEAN
  OBVIOUS
<1> QED
  BY <1>1, <1>2 DEF Run, Request, ReqPCs

LEMMA TimeoutRequestType ==
    ASSUME IInv, NEW q \in Requests, Timeout(q)
    PROVE  req' \in [Requests -> Request]
<1>1. req \in [Requests -> Request]
  BY DEF IInv, TypeOK
<1> QED
  BY <1>1 DEF Timeout, Request, ReqPCs

LEMMA CreateRequestType ==
    ASSUME IInv, NEW q \in Requests, Create(q)
    PROVE  /\ req' \in [Requests -> Request]
           /\ made' \in [Objects -> Made \cup {None}]
           /\ dirs' \subseteq Objects
<1>1. /\ req \in [Requests -> Request]
      /\ made \in [Objects -> Made \cup {None}]
      /\ dirs \subseteq Objects
  BY DEF IInv, TypeOK
<1>2. PICK o \in Fresh :
         /\ req' = [req EXCEPT ![q] = [@ EXCEPT !.pc = "creating", !.obj = o]]
         /\ dirs' = dirs \cup {o}
         /\ made' = [made EXCEPT ![o] =
                 [run |-> req[q].run,
                  id |-> IF req[q].id = None THEN o ELSE req[q].id]]
  BY DEF Create
<1>3. o \in Objects
  BY DEF Fresh
<1>4. req' \in [Requests -> Request]
  <2>1. req[q] \in Request
    BY <1>1
  <2>2. [req[q] EXCEPT !.pc = "creating", !.obj = o] \in Request
    BY <1>3, <2>1 DEF Request, ReqPCs
  <2>3. req' = [req EXCEPT ![q] = [req[q] EXCEPT !.pc = "creating", !.obj = o]]
    BY <1>1, <1>2
  <2> HIDE DEF Request
  <2> QED
    BY <1>1, <2>2, <2>3
<1>5. req[q].run \in Runs
  BY DEF IInv, LookupOK, Create
<1>6. [run |-> req[q].run,
                  id |-> IF req[q].id = None THEN o ELSE req[q].id] \in Made
  BY <1>1, <1>3, <1>5 DEF Made, Request, Ids
<1> QED
  BY <1>1, <1>2, <1>3, <1>4, <1>6

(* So does what a closer remembers.                                        *)
LEMMA AskCloseCloserType ==
    ASSUME IInv, NEW c \in Closers, AskClose(c)
    PROVE  closer' \in [Closers -> Closer]
<1>1. closer \in [Closers -> Closer]
  BY DEF IInv, TypeOK
<1>2. PICK i \in Ids :
        closer' = [closer EXCEPT ![c] = [@ EXCEPT !.pc = "lookup", !.id = i]]
  BY DEF AskClose, Ids
<1> QED
  BY <1>1, <1>2 DEF Closer, CloserPCs, Ids

LEMMA CloseBeginCloserType ==
    ASSUME IInv, NEW c \in Closers, CloseBegin(c)
    PROVE  closer' \in [Closers -> Closer]
<1>1. closer \in [Closers -> Closer]
  BY DEF IInv, TypeOK
<1>2. sessions[closer[c].id] \in Objects \cup {None}
  BY DEF IInv, LookupOK, CloseBegin, TypeOK
<1>3. CASE sessions[closer[c].id] = None
  <2>1. closer' = [closer EXCEPT ![c].pc = "done"]
    BY <1>3 DEF CloseBegin
  <2> QED
    BY <1>1, <2>1 DEF Closer, CloserPCs
<1>4. CASE sessions[closer[c].id] # None
  <2>1. PICK pc \in {"draining", "closing"} :
          closer' = [closer EXCEPT ![c] =
                        [@ EXCEPT !.pc = pc, !.obj = sessions[closer[c].id]]]
    BY <1>4 DEF CloseBegin
  <2> QED
    BY <1>1, <1>2, <1>4, <2>1 DEF Closer, CloserPCs
<1> QED
  BY <1>3, <1>4

LEMMA CloseEndCloserType ==
    ASSUME IInv, NEW c \in Closers, CloseEnd(c)
    PROVE  closer' \in [Closers -> Closer]
<1>1. closer \in [Closers -> Closer]
  BY DEF IInv, TypeOK
<1> QED
  BY <1>1 DEF Closer, CloserPCs, CloseEnd

-----------------------------------------------------------------------------
(* What a step does to the shells, the maps and the sessions.              *)

(* A kill leaves at most the process it found, and no count below zero.    *)
LEMMA Killed ==
    ASSUME IInv, NEW o \in Objects, Kill(o)
    PROVE  /\ shell' \in [Objects -> {"none", "alive", "dead", "reaped"}]
           /\ live' \in [Objects -> Nat]
           /\ LiveCount'
           /\ shell'[o] # "alive"
           /\ \A p \in Objects : /\ shell'[p] = "alive" => shell[p] = "alive"
                                 /\ shell'[p] = "none" <=> shell[p] = "none"
BY DEF IInv, TypeOK, ShellOK, LiveCount, Kill

(* A start where no process runs leaves one, and touches no other shell.   *)
LEMMA Started ==
    ASSUME IInv, NEW o \in Objects, Start(o), shell[o] # "alive"
    PROVE  /\ shell' \in [Objects -> {"none", "alive", "dead", "reaped"}]
           /\ live' \in [Objects -> Nat]
           /\ LiveCount'
           /\ \A p \in Objects : p # o => shell'[p] = shell[p]
BY DEF IInv, TypeOK, ShellOK, LiveCount, Start

(* What a lookup finds is registered and open.                             *)
LEMMA FoundIs ==
    ASSUME IInv, NEW q \in Requests, NEW o \in Found(q), req[q].pc = "lookup"
    PROVE  o \in Registered /\ ~closed[o]
<1>1. /\ req[q].run \in Runs
      /\ (runSession[req[q].run] # None => runSession[req[q].run] \in Ids)
      /\ req[q].id \in Ids \cup {None}
  BY DEF IInv, LookupOK, TypeOK, Request
<1>2. CASE o \in ById(req[q].id)
  BY <1>1, <1>2 DEF ById, Registered
<1>3. CASE o \in ByRun(req[q].run)
  BY <1>1, <1>3 DEF ByRun, Registered
<1> QED
  BY <1>2, <1>3 DEF Found

(* A session that a lookup found has its directory.                        *)
LEMMA ReuseSession ==
    ASSUME IInv, NEW q \in Requests, Reuse(q)
    PROVE  InSessionOK'
<1>1. PICK o \in Objects :
        /\ req' = [req EXCEPT ![q] = [@ EXCEPT !.pc = "lock", !.obj = o]]
        /\ o \in Registered /\ ~closed[o]
  BY FoundIs DEF Reuse, Found, ById, ByRun
<1>1a. o \in dirs
  BY <1>1 DEF IInv, RegisteredOK
<1>2. UNCHANGED <<sessions, closed, dirs>>
  BY DEF Reuse
<1>3. Registered' = Registered
  BY <1>2 DEF Registered
<1>4. ASSUME NEW p \in Requests, p # q PROVE req'[p] = req[p]
  BY <1>1, <1>4 DEF IInv, TypeOK
<1>5. req'[q].obj = o
  BY <1>1 DEF IInv, TypeOK, Request
<1> QED
  BY <1>1, <1>1a, <1>2, <1>3, <1>4, <1>5 DEF IInv, RequestOK, InSessionOK

(* A new session enters both maps, at places that were free since it was   *)
(* made under the manager's lock.                                          *)
LEMMA CreatedMaps ==
    ASSUME IInv, NEW q \in Requests, Created(q)
    PROVE  InSessionOK' /\ MapsOK'
<1> DEFINE o == req[q].obj
<1>1. o \in Objects /\ made[o] \in Made /\ made[o] # None /\ Untouched(o)
      /\ sessions[made[o].id] = None /\ runSession[made[o].run] = None
  BY DEF IInv, FreshOK, MapsOK, Created, TypeOK
<1>2. /\ sessions' = [sessions EXCEPT ![made[o].id] = o]
      /\ runSession' = [runSession EXCEPT ![made[o].run] = made[o].id]
      /\ UNCHANGED <<made, closed, lock, dirs, closer, shutdown>>
      /\ req' = [req EXCEPT ![q].pc = "lock"]
  BY DEF Created
<1>3. made[o].id \in Ids /\ made[o].run \in Runs
  BY <1>1 DEF Made
<1>4. Registered' = Registered \cup {o}
  <2>1. \A i \in Ids : sessions'[i] = IF i = made[o].id THEN o ELSE sessions[i]
    BY <1>2, <1>3 DEF IInv, TypeOK
  <2> QED
    BY <2>1, <1>1, <1>3, NoneAssumption DEF Registered, Ids
<1>5. shutdown.pc = "up"
  BY DEF Created, IInv, ActorsOK, Quiet
<1>6. \A p \in Requests : p # q => req'[p].pc # "creating"
  BY <1>2 DEF IInv, ActorsOK, Created, TypeOK
<1>7. req'[q].pc = "lock"
  BY <1>2 DEF IInv, TypeOK, Request
<1>8. MapsAgree'
  <2>1. \A i \in Ids : sessions'[i] = IF i = made[o].id THEN o ELSE sessions[i]
    BY <1>2, <1>3 DEF IInv, TypeOK
  <2>2. \A r \in Runs :
          runSession'[r] =
            IF r = made[o].run THEN made[o].id ELSE runSession[r]
    BY <1>2, <1>3 DEF IInv, TypeOK
  <2>3. made' = made /\ None \notin Ids /\ MapsAgree /\ o # None
    BY <1>1, <1>2, NoneAssumption DEF IInv, MapsOK, Ids
  <2>4. \A r \in Runs : runSession[r] \in Ids \cup {None}
    BY DEF IInv, TypeOK
  <2>5. made[o] = [run |-> made[o].run, id |-> made[o].id]
    BY <1>1 DEF Made
  <2> HIDE DEF o
  <2>6. ASSUME NEW r \in Runs, runSession'[r] # None
        PROVE /\ sessions'[runSession'[r]] # None
              /\ made'[sessions'[runSession'[r]]] =
                    [run |-> r, id |-> runSession'[r]]
    BY <2>1, <2>2, <2>3, <2>4, <2>5, <2>6, <1>1, <1>3 DEF MapsAgree
  <2>7. ASSUME NEW i \in Ids, sessions'[i] # None
        PROVE /\ made'[sessions'[i]] # None
              /\ made'[sessions'[i]].id = i
              /\ runSession'[made'[sessions'[i]].run] = i
    <3>1. CASE i = made[o].id
      BY <2>1, <2>2, <2>3, <3>1, <1>1, <1>3
    <3>2. CASE i # made[o].id
      <4>1. sessions'[i] = sessions[i] /\ sessions[i] \in Objects
        BY <3>2, <2>1, <2>7 DEF IInv, TypeOK
      <4>2. /\ made[sessions[i]] # None
            /\ made[sessions[i]].id = i
            /\ runSession[made[sessions[i]].run] = i
        BY <4>1, <2>3, <2>7 DEF MapsAgree
      <4>3. made[sessions[i]].run \in Runs
        BY <4>1, <4>2 DEF IInv, TypeOK, Made
      <4> QED
        BY <4>1, <4>2, <4>3, <2>2, <2>3, <1>1, <2>7
    <3> QED
      BY <3>1, <3>2
  <2> QED
    BY <2>6, <2>7 DEF MapsAgree
<1>9. MapsOK'
  BY <1>1, <1>2, <1>4, <1>5, <1>6, <1>7, <1>8 DEF MapsOK, IInv, Untouched
<1>10. o \in dirs
  BY DEF Created, IInv, FreshOK
<1>11. \A p \in Requests : /\ req'[p].obj = req[p].obj
                           /\ p # q => req'[p].pc = req[p].pc
  BY <1>2 DEF IInv, TypeOK, Request
<1> HIDE DEF o
<1> QED
  BY <1>1, <1>2, <1>4, <1>9, <1>10, <1>11 DEF IInv, RequestOK, InSessionOK, o

(* A command enters a session whose lock is free, and starts a process     *)
(* only where none runs.                                                   *)
LEMMA EnterRequests ==
    ASSUME IInv, NEW q \in Requests, Enter(q)
    PROVE  RequestOK' /\ OnlyRevivedOutlive'
<1>1. PICK pc \in {"spawn", "drain", "rewrite", "wait"} :
         /\ req' = [req EXCEPT ![q].pc = pc]
         /\ pc \in {"spawn", "rewrite"} => shell[req[q].obj] # "alive"
  BY DEF Enter
<1>2. /\ req[q].pc = "lock"
      /\ UNCHANGED <<sessions, runSession, manager, made, closed, dirs, closer,
                   shutdown, shell, live>>
  BY DEF Enter, Holds
<1>3. Registered' = Registered
  BY <1>2 DEF Registered
<1>0. req \in [Requests -> Request]
  BY DEF IInv, TypeOK
<1>01. req' = [req EXCEPT ![q].pc = pc]
  BY <1>1
<1>4. \A p \in Requests : /\ req'[p].obj = req[p].obj
                          /\ req'[p].ran = req[p].ran
                          /\ req'[p].late = req[p].late
                          /\ req'[p].revived = req[p].revived
                          /\ p # q => req'[p] = req[p]
  BY <1>01, <1>0 DEF Request
<1>4a. req'[q].pc = pc
  BY <1>01, <1>0 DEF Request
<1>5. InSessionOK'
  BY <1>1, <1>2, <1>3, <1>4, <1>4a
     DEF IInv, RequestOK, InSessionOK, InSession, InCommand
<1>6. RestartsOK'
  BY <1>1, <1>2, <1>3, <1>4, <1>4a DEF IInv, RequestOK, RestartsOK
<1>7. RevivedOK'
  BY <1>1, <1>2, <1>3, <1>4, <1>4a DEF IInv, RequestOK, RevivedOK
<1>8. AnswersOK'
  BY <1>1, <1>2, <1>3, <1>4, <1>4a DEF IInv, RequestOK, AnswersOK
<1>9. OnlyRevivedOutlive'
  BY <1>1, <1>2, <1>3, <1>4, <1>4a
     DEF IInv, ShellOK, OnlyRevivedOutlive, BeingClosed, Revived
<1> QED
  BY <1>5, <1>6, <1>7, <1>8, <1>9 DEF RequestOK

(* A process that replaces a dead shell is counted once.                   *)
LEMMA SpawnedShells ==
    ASSUME IInv, NEW q \in Requests, Spawned(q)
    PROVE  TypeOK' /\ LiveCount' /\ ShellsKnown'
<1>1. /\ req[q].obj \in Objects
      /\ shell[req[q].obj] # "alive"
      /\ (req[q].obj \in Registered \/ closed[req[q].obj])
  BY DEF IInv, RequestOK, InSessionOK, RestartsOK, InSession, InCommand,
         Spawned, Holds
<1>2. req' \in [Requests -> Request]
  BY SpawnedRequestType
<1>3. /\ shell' \in [Objects -> {"none", "alive", "dead", "reaped"}]
      /\ live' \in [Objects -> Nat]
      /\ LiveCount'
      /\ \A p \in Objects : p # req[q].obj => shell'[p] = shell[p]
  BY <1>1, Started DEF Spawned
<1>4. UNCHANGED <<sessions, runSession, manager, made, closed, dirs, closer,
                  shutdown, lock>>
  BY DEF Spawned, Holds
<1>5. TypeOK'
  BY <1>2, <1>3, <1>4 DEF IInv, TypeOK
<1>6. ShellsKnown'
  BY <1>1, <1>3, <1>4 DEF IInv, ShellOK, ShellsKnown, Registered
<1> QED
  BY <1>3, <1>5, <1>6

(* So is one that replaces a shell killed by a timeout.                    *)
LEMMA RespawnedShells ==
    ASSUME IInv, NEW q \in Requests, Respawned(q)
    PROVE  TypeOK' /\ LiveCount' /\ ShellsKnown'
<1>1. /\ req[q].obj \in Objects
      /\ shell[req[q].obj] # "alive"
      /\ (req[q].obj \in Registered \/ closed[req[q].obj])
  BY DEF IInv, RequestOK, InSessionOK, RestartsOK, InSession, InCommand,
         Respawned, Holds
<1>2. req' \in [Requests -> Request]
  BY RespawnedRequestType
<1>3. /\ shell' \in [Objects -> {"none", "alive", "dead", "reaped"}]
      /\ live' \in [Objects -> Nat]
      /\ LiveCount'
      /\ \A p \in Objects : p # req[q].obj => shell'[p] = shell[p]
  BY <1>1, Started DEF Respawned
<1>4. UNCHANGED <<sessions, runSession, manager, made, closed, dirs, closer,
                  shutdown>>
  BY DEF Respawned, Holds
<1>4a. lock' \in [Objects -> Requests \cup {None}]
  BY DEF IInv, TypeOK, Respawned, Release
<1>5. TypeOK'
  BY <1>2, <1>3, <1>4, <1>4a DEF IInv, TypeOK
<1>6. ShellsKnown'
  BY <1>1, <1>3, <1>4 DEF IInv, ShellOK, ShellsKnown, Registered
<1> QED
  BY <1>3, <1>5, <1>6

(* The types, where a process ends or a session closes.                    *)
LEMMA TimeoutTypes ==
    ASSUME IInv, NEW q \in Requests, Timeout(q)
    PROVE  TypeOK'
<1>1. req[q].obj \in Objects
  BY DEF IInv, RequestOK, InSessionOK, InSession, InCommand, Timeout, Holds
<1>2. req' \in [Requests -> Request]
  BY TimeoutRequestType
<1>3. /\ shell' \in [Objects -> {"none", "alive", "dead", "reaped"}]
      /\ live' \in [Objects -> Nat]
  BY <1>1, Killed DEF Timeout
<1>5. TypeOK'
  BY <1>2, <1>3 DEF IInv, TypeOK, Timeout, Holds
<1> QED
  BY <1>3, <1>5

LEMMA ShellExitsRequests ==
    ASSUME IInv, NEW o \in Objects, ShellExits(o)
    PROVE  TypeOK' /\ LockOK' /\ RequestOK'
<1>1. UNCHANGED <<sessions, runSession, manager, made, closed, lock, dirs,
                  req, closer, shutdown>>
  BY DEF ShellExits
<1>3. /\ shell' \in [Objects -> {"none", "alive", "dead", "reaped"}]
      /\ live' \in [Objects -> Nat]
      /\ \A p \in Objects : shell'[p] = "alive" => shell[p] = "alive"
  BY Killed DEF ShellExits
<1>4. TypeOK'
  BY <1>1, <1>3 DEF IInv, TypeOK
<1>5. LockOK'
  BY <1>1 DEF IInv, LockOK
<1>6. InSessionOK' /\ RevivedOK' /\ AnswersOK'
  BY <1>1 DEF IInv, RequestOK, InSessionOK, RevivedOK, AnswersOK, Registered
<1>7. RestartsOK'
  BY <1>1, <1>3
     DEF IInv, RequestOK, InSessionOK, RestartsOK, InSession, InCommand
<1> QED
  BY <1>4, <1>5, <1>6, <1>7 DEF RequestOK

(* A shell that is reaped had been started.                                *)
LEMMA ReapFresh ==
    ASSUME IInv, NEW o \in Objects, Reap(o)
    PROVE  FreshOK'
<1>1. UNCHANGED <<sessions, runSession, manager, made, closed, lock, live,
                  dirs, req, closer, shutdown>>
  BY DEF Reap
<1>2. ASSUME NEW p \in Objects, Untouched(p) PROVE Untouched(p)'
  BY <1>1, <1>2 DEF Untouched, Reap, IInv, TypeOK, Registered
<1> QED
  BY <1>1, <1>2 DEF IInv, FreshOK

LEMMA CloseEndTypes ==
    ASSUME IInv, NEW c \in Closers, CloseEnd(c)
    PROVE  TypeOK'
<1>1. closer[c].obj \in Objects
  BY DEF IInv, ActorsOK, CloseEnd
<1>3. /\ shell' \in [Objects -> {"none", "alive", "dead", "reaped"}]
      /\ live' \in [Objects -> Nat]
  BY <1>1, Killed DEF CloseEnd
<1>4. closer' \in [Closers -> Closer]
  BY CloseEndCloserType
<1> QED
  BY <1>3, <1>4 DEF IInv, TypeOK, CloseEnd

LEMMA ShutdownKillTypes ==
    ASSUME IInv, ShutdownKill
    PROVE  TypeOK'
<1>1. shutdown.obj \in Objects
  BY DEF IInv, ActorsOK, ShutdownKill
<1>3. /\ shell' \in [Objects -> {"none", "alive", "dead", "reaped"}]
      /\ live' \in [Objects -> Nat]
  BY <1>1, Killed DEF ShutdownKill
<1>4. shutdown' \in [pc : ShutdownPCs, obj : Objects \cup {None},
                   todo : SUBSET Objects]
  BY DEF ShutdownKill, Stop, ShutdownPCs, IInv, TypeOK
<1> QED
  BY <1>3, <1>4 DEF IInv, TypeOK, ShutdownKill, Stop

(* The shutdown closes only sessions that are registered.                  *)
LEMMA ShutdownCloseFresh ==
    ASSUME IInv, ShutdownClose
    PROVE  FreshOK'
<1>1. UNCHANGED <<sessions, runSession, shell, live, dirs, manager, made,
                  lock, req, closer>>
  BY DEF ShutdownClose, Stop
<1>2. PICK o \in shutdown.todo : closed' = [closed EXCEPT ![o] = TRUE]
  BY DEF ShutdownClose
<1>3. made[o] # None /\ \A q \in Requests : req[q].pc # "creating"
  BY DEF IInv, TodoOK, ShutdownClose, ActorsOK, Quiet
<1>4. ASSUME NEW p \in Objects, Untouched(p), p # o PROVE Untouched(p)'
  BY <1>1, <1>2, <1>4 DEF Untouched, Registered, IInv, TypeOK
<1> QED
  BY <1>1, <1>2, <1>3, <1>4 DEF IInv, FreshOK

(* A session in the making is known to its maker only.                     *)
LEMMA CreateTypes ==
    ASSUME IInv, NEW q \in Requests, Create(q)
    PROVE  TypeOK'
<1>1. /\ UNCHANGED <<sessions, runSession, closed, lock, shell, live, closer,
                     shutdown>>
      /\ manager' = q
  BY DEF Create
<1> QED
  BY <1>1, CreateRequestType DEF IInv, TypeOK

(* A close takes the session out of both maps at once, so they keep        *)
(* agreeing; whoever runs a command in it is the only one that may still   *)
(* start a process.                                                        *)
LEMMA CloseBeginMaps ==
    ASSUME IInv, NEW c \in Closers, CloseBegin(c)
    PROVE  TypeOK' /\ FreshOK' /\ MapsOK' /\ ShellOK' /\ InSessionOK'
<1> DEFINE i == closer[c].id
           o == sessions[i]
<1>1. /\ i \in Ids /\ o \in Objects \cup {None}
      /\ \A p \in Requests : req[p].pc # "creating"
      /\ \A p \in Closers : closer[p].pc \notin {"draining", "closing"}
  BY NoneAssumption DEF IInv, LookupOK, CloseBegin, TypeOK, ActorsOK
<1>2. /\ UNCHANGED <<made, lock, shell, live, dirs, req, shutdown>>
      /\ shutdown.pc = "up"
      /\ closer[c].pc = "lookup"
  BY DEF CloseBegin, IInv, ActorsOK, Quiet
<1>2a. closer' \in [Closers -> Closer]
  BY CloseBeginCloserType
<1>3. CASE o = None
  <2>1. /\ UNCHANGED <<sessions, runSession, manager, closed>>
        /\ closer' = [closer EXCEPT ![c].pc = "done"]
    BY <1>3 DEF CloseBegin
  <2>3. TypeOK'
    BY <2>1, <1>2, <1>2a DEF IInv, TypeOK
  <2>4. FreshOK'
    BY <2>1, <1>2 DEF IInv, FreshOK, Untouched, Registered
  <2>5. MapsOK' /\ InSessionOK'
    BY <2>1, <1>2
       DEF IInv, MapsOK, MapsAgree, Registered, InSessionOK, RequestOK
  <2>6. ShellOK'
    BY <2>1, <1>1, <1>2
       DEF IInv, ShellOK, LiveCount, ShellsKnown, OnlyRevivedOutlive,
           DirsRemoved, BeingClosed, Revived, Registered
  <2> QED
    BY <2>3, <2>4, <2>5, <2>6
<1>4. CASE o # None
  <2>1. /\ sessions' = [sessions EXCEPT ![i] = None]
        /\ runSession' = Unmapped(o, i)
        /\ closed' = [closed EXCEPT ![o] = TRUE]
        /\ manager' = c
        /\ \E pc \in {"draining", "closing"} :
              closer' = [closer EXCEPT ![c] =
                           [@ EXCEPT !.pc = pc, !.obj = o]]
    BY <1>4 DEF CloseBegin
  <2>2. /\ o \in Objects
        /\ made[o] # None
        /\ made[o].id = i
        /\ made[o] \in Made
        /\ made[o].run \in Runs
        /\ runSession[made[o].run] = i
    BY <1>1, <1>4 DEF IInv, MapsOK, MapsAgree, TypeOK, Made
  <2>3. \A j \in Ids : sessions'[j] = IF j = i THEN None ELSE sessions[j]
    BY <2>1, <1>1 DEF IInv, TypeOK
  <2>4. \A r \in Runs :
          runSession'[r] =
            IF r = made[o].run THEN None ELSE runSession[r]
    BY <2>1, <2>2 DEF IInv, TypeOK, Unmapped
  <2>5. \A p \in Objects : closed'[p] <=> closed[p] \/ p = o
    BY <2>1, <2>2 DEF IInv, TypeOK
  <2>6. \A j \in Ids \ {i} : sessions[j] # o
    BY <2>2, <1>1, <1>4 DEF IInv, MapsOK, MapsAgree
  <2>7. Registered' = Registered \ {o}
    BY <2>2, <2>3, <2>6, <1>1, NoneAssumption DEF Registered, Ids
  <2>8. closer'[c].pc \in {"draining", "closing"} /\ closer'[c].obj = o
    BY <2>1 DEF IInv, TypeOK, Closer
  <2>9. TypeOK'
    <3>1. /\ sessions' \in [Ids -> Objects \cup {None}]
          /\ closed' \in [Objects -> BOOLEAN]
          /\ manager' \in Requests \cup Closers \cup {None}
      BY <2>1 DEF IInv, TypeOK
    <3>2. runSession' \in [Runs -> Ids \cup {None}]
      BY <2>1 DEF IInv, TypeOK, Unmapped
    <3> QED
      BY <3>1, <3>2, <1>2, <1>2a DEF IInv, TypeOK
  <2>10. FreshOK'
    BY <1>1, <1>2, <2>2, <2>5, <2>7 DEF IInv, FreshOK, Untouched
  <2>11. MapsAgree'
    <3>1. ASSUME NEW r \in Runs, runSession'[r] # None
          PROVE /\ sessions'[runSession'[r]] # None
                /\ made'[sessions'[runSession'[r]]] =
                      [run |-> r, id |-> runSession'[r]]
      <4>1. /\ r # made[o].run
            /\ runSession'[r] = runSession[r]
            /\ runSession[r] \in Ids
            /\ runSession[r] # None
        BY <3>1, <2>4 DEF IInv, TypeOK
      <4>2. /\ sessions[runSession[r]] # None
            /\ made[sessions[runSession[r]]] =
                  [run |-> r, id |-> runSession[r]]
        BY <4>1 DEF IInv, MapsOK, MapsAgree
      <4>3. runSession[r] # i
        BY <4>1, <4>2
      <4> QED
        BY <4>1, <4>2, <4>3, <1>2, <2>3
    <3>2. ASSUME NEW j \in Ids, sessions'[j] # None
          PROVE /\ made'[sessions'[j]] # None
                /\ made'[sessions'[j]].id = j
                /\ runSession'[made'[sessions'[j]].run] = j
      <4>1. /\ j # i
            /\ sessions'[j] = sessions[j]
            /\ sessions[j] # None
            /\ sessions[j] \in Objects
        BY <3>2, <2>3 DEF IInv, TypeOK
      <4>2. /\ made[sessions[j]] # None /\ made[sessions[j]].id = j
            /\ runSession[made[sessions[j]].run] = j
        BY <4>1 DEF IInv, MapsOK, MapsAgree
      <4>3. made[sessions[j]].run \in Runs
        BY <4>1, <4>2 DEF IInv, TypeOK, Made
      <4> QED
        BY <4>1, <4>2, <4>3, <1>2, <2>2, <2>4
    <3> QED
      BY <3>1, <3>2 DEF MapsAgree
  <2>12. MapsOK'
    BY <2>11, <1>1, <1>2, <2>5, <2>7 DEF IInv, MapsOK, Registered
  <2>13. InSessionOK'
    BY <1>2, <2>5, <2>7 DEF IInv, InSessionOK, RequestOK
  <2>14. \A p \in Objects : ~BeingClosed(p) /\ (p = o => BeingClosed(p)')
    BY <1>1, <1>2, <2>8 DEF BeingClosed
  <2>15. ShellOK'
    <3>1. LiveCount' /\ ShellsKnown'
      BY <1>2, <2>5, <2>7 DEF IInv, ShellOK, LiveCount, ShellsKnown
    <3>2. \A p \in Objects : Revived(p)' <=> Revived(p)
      BY <1>2 DEF Revived
    <3>3. OnlyRevivedOutlive'
      BY <1>2, <2>5, <2>14, <3>2 DEF IInv, ShellOK, OnlyRevivedOutlive
    <3>4. DirsRemoved'
      BY <1>2, <2>5, <2>14 DEF IInv, ShellOK, DirsRemoved
    <3> QED
      BY <3>1, <3>3, <3>4 DEF ShellOK
  <2> QED
    BY <2>9, <2>10, <2>12, <2>13, <2>15
<1> QED
  BY <1>3, <1>4

(* Nobody finds a session that is being made.                              *)
LEMMA ReuseFresh ==
    ASSUME IInv, NEW q \in Requests, Reuse(q)
    PROVE  FreshOK'
<1>1. PICK o \in Objects :
        /\ req' = [req EXCEPT ![q] = [@ EXCEPT !.pc = "lock", !.obj = o]]
        /\ o \in Registered /\ ~closed[o]
  BY FoundIs DEF Reuse, Found, ById, ByRun
<1>2. UNCHANGED <<sessions, made, closed, lock, shell, live, dirs>>
  BY DEF Reuse
<1>3. /\ Registered' = Registered
      /\ ~Untouched(o)
      /\ \A p \in Objects : Untouched(p)' <=> Untouched(p)
  BY <1>1, <1>2 DEF Registered, Untouched
<1>4. /\ req'[q].obj = o
      /\ req'[q].pc = "lock"
      /\ \A p \in Requests : p # q => req'[p] = req[p]
  BY <1>1 DEF IInv, TypeOK, Request
<1> QED
  BY <1>1, <1>2, <1>3, <1>4 DEF IInv, FreshOK

(* A session is made where no other has the id or the run.                 *)
LEMMA CreateMaps ==
    ASSUME IInv, NEW q \in Requests, Create(q)
    PROVE  FreshOK' /\ MapsOK'
<1>1. /\ UNCHANGED <<sessions, runSession, closed, lock, shell, live, closer,
                     shutdown>>
      /\ Found(q) = {}
      /\ req[q].pc = "lookup"
      /\ manager = None
  BY DEF Create
<1>2. PICK o \in Fresh :
         /\ req' = [req EXCEPT ![q] = [@ EXCEPT !.pc = "creating", !.obj = o]]
         /\ dirs' = dirs \cup {o}
         /\ made' = [made EXCEPT ![o] =
                 [run |-> req[q].run,
                  id |-> IF req[q].id = None THEN o ELSE req[q].id]]
  BY DEF Create
<1> DEFINE i == IF req[q].id = None THEN o ELSE req[q].id
<1>3. /\ o \in Objects
      /\ made[o] = None
      /\ Untouched(o)
      /\ \A p \in Requests : req[p].obj # o
  BY <1>2 DEF Fresh, IInv, FreshOK
<1>4. req[q].run \in Runs /\ req[q].id \in Ids \cup {None} /\ i \in Ids
  BY <1>1, <1>3 DEF IInv, LookupOK, TypeOK, Request, Ids
<1>5. /\ made'[o].run = req[q].run
      /\ made'[o].id = i
      /\ \A p \in Objects : p # o => made'[p] = made[p]
  BY <1>2, <1>3 DEF IInv, TypeOK
<1>6. /\ req'[q].obj = o
      /\ req'[q].pc = "creating"
      /\ \A p \in Requests : p # q => req'[p] = req[p]
  BY <1>2 DEF IInv, TypeOK, Request
<1>7. \A p \in Requests : req[p].pc # "creating"
  BY <1>1, NoneAssumption DEF IInv, ActorsOK
<1>8. /\ Registered' = Registered
      /\ \A p \in Objects : Untouched(p)' <=> Untouched(p)
  BY <1>1 DEF Registered, Untouched
<1>8a. made'[o] # None
  <2>1. made'[o] = [run |-> req[q].run, id |-> i]
    BY <1>2, <1>3 DEF IInv, TypeOK
  <2> QED
    BY <2>1, <1>4, NoneAssumption DEF Made
<1>9. FreshOK'
  BY <1>2, <1>3, <1>5, <1>6, <1>7, <1>8, <1>8a DEF IInv, FreshOK
<1>10. shutdown.pc = "up"
  BY <1>1 DEF IInv, ActorsOK, Quiet
<1>11. \A p \in Objects : p \in Registered => ~closed[p] /\ p # o
  BY <1>3, <1>10 DEF IInv, MapsOK, Untouched
<1>12. sessions[i] = None
  <2>1. ASSUME sessions[i] # None PROVE FALSE
    <3>1. /\ sessions[i] \in Objects
          /\ sessions[i] \in Registered
          /\ made[sessions[i]] # None
          /\ made[sessions[i]].id = i
      BY <1>4, <2>1 DEF IInv, TypeOK, MapsOK, MapsAgree, Registered
    <3>2. CASE req[q].id # None
      BY <3>1, <3>2, <1>1, <1>11 DEF Found, ById
    <3>3. CASE req[q].id = None
      BY <3>1, <3>3, <1>3 DEF IInv, IdsOK
    <3> QED
      BY <3>2, <3>3
  <2> QED
    BY <2>1
<1>13. runSession[req[q].run] = None
  <2>1. ASSUME runSession[req[q].run] # None PROVE FALSE
    <3>a. runSession[req[q].run] \in Ids
      BY <1>4, <2>1 DEF IInv, TypeOK
    <3>0. /\ runSession[req[q].run] \in Ids
          /\ sessions[runSession[req[q].run]] # None
      BY <1>4, <2>1, <3>a DEF IInv, MapsOK, MapsAgree
    <3>1. /\ sessions[runSession[req[q].run]] \in Objects
          /\ sessions[runSession[req[q].run]] \in Registered
      BY <3>0 DEF IInv, TypeOK, Registered
    <3>2. sessions[runSession[req[q].run]] \in ByRun(req[q].run)
      BY <3>1, <2>1, <1>11 DEF ByRun
    <3> QED
      BY <3>2, <1>1 DEF Found
  <2> QED
    BY <2>1
<1>14. MapsAgree'
  <2>1. \A j \in Ids : sessions[j] # None =>
            made'[sessions[j]] = made[sessions[j]]
    BY <1>5, <1>11 DEF IInv, TypeOK, Registered
  <2>2. /\ MapsAgree
        /\ \A r \in Runs : runSession[r] # None => runSession[r] \in Ids
    BY DEF IInv, MapsOK, TypeOK
  <2> QED
    BY <1>1, <2>1, <2>2 DEF MapsAgree
<1>15. \A p \in Requests : req'[p].pc = "creating" =>
          /\ sessions'[made'[req'[p].obj].id] = None
          /\ runSession'[made'[req'[p].obj].run] = None
  BY <1>1, <1>5, <1>6, <1>7, <1>12, <1>13
<1>16. MapsOK'
  BY <1>1, <1>8, <1>10, <1>11, <1>14, <1>15 DEF MapsOK, Registered
<1> QED
  BY <1>9, <1>16

(* Its id is the client's, or its own.                                     *)
LEMMA CreateIds ==
    ASSUME IInv, NEW q \in Requests, Create(q)
    PROVE  IdsOK'
<1>2. PICK o \in Fresh :
         /\ req' = [req EXCEPT ![q] = [@ EXCEPT !.pc = "creating", !.obj = o]]
         /\ made' = [made EXCEPT ![o] =
                 [run |-> req[q].run,
                  id |-> IF req[q].id = None THEN o ELSE req[q].id]]
  BY DEF Create
<1>3. o \in Objects
  BY <1>2 DEF Fresh
<1>4. \A p \in Requests : req'[p].id = req[p].id
  BY <1>2 DEF IInv, TypeOK, Request
<1>5. \A p \in Objects :
        made'[p] = IF p = o
                     THEN [run |-> req[q].run,
                           id |-> IF req[q].id = None THEN o ELSE req[q].id]
                     ELSE made[p]
  BY <1>2 DEF IInv, TypeOK
<1>6. made'[o] # None
  <2>1. [run |-> req[q].run,
         id |-> IF req[q].id = None THEN o ELSE req[q].id] \in Made
    BY <1>3 DEF Made, IInv, TypeOK, Request, LookupOK, Ids, Create
  <2> QED
    BY <2>1, <1>3, <1>5, NoneAssumption
<1> QED
  BY <1>3, <1>4, <1>5, <1>6 DEF IInv, IdsOK

(* A request that ends keeps its type.                                     *)
LEMMA EndRequestType ==
    ASSUME IInv, NEW q \in Requests, NEW pc \in {"done", "failed"},
           req' = [req EXCEPT ![q].pc = pc]
    PROVE  req' \in [Requests -> Request]
<1>1. req \in [Requests -> Request]
  BY DEF IInv, TypeOK
<1> QED
  BY <1>1 DEF Request, ReqPCs

(* The session that is made starts its only shell.                         *)
LEMMA CreatedTypes ==
    ASSUME IInv, NEW q \in Requests, Created(q)
    PROVE  TypeOK' /\ OnlyRevivedOutlive'
<1>1. /\ req[q].obj \in Objects
      /\ made[req[q].obj] \in Made
      /\ Untouched(req[q].obj)
  BY DEF IInv, FreshOK, Created, TypeOK
<1>2. req' \in [Requests -> Request]
  BY CreatedRequestType
<1>3. /\ shell' \in [Objects -> {"none", "alive", "dead", "reaped"}]
      /\ live' \in [Objects -> Nat]
      /\ \A p \in Objects : p # req[q].obj => shell'[p] = shell[p]
  BY <1>1, Started DEF Created, Untouched
<1>4. made[req[q].obj].id \in Ids /\ made[req[q].obj].run \in Runs
  BY <1>1 DEF Made
<1>5. /\ sessions' \in [Ids -> Objects \cup {None}]
      /\ runSession' \in [Runs -> Ids \cup {None}]
  BY <1>1, <1>4 DEF Created, IInv, TypeOK
<1>6. /\ UNCHANGED <<made, closed, lock, dirs, closer, shutdown>>
      /\ manager' = None
  BY DEF Created
<1>7. TypeOK'
  BY <1>2, <1>3, <1>5, <1>6 DEF IInv, TypeOK
<1>8. \A p \in Requests : /\ req'[p].obj = req[p].obj
                          /\ req'[p].revived = req[p].revived
  BY DEF IInv, Request, Created
<1>9. \A p \in Objects : /\ BeingClosed(p)' <=> BeingClosed(p)
                         /\ Revived(p)' <=> Revived(p)
  BY <1>6, <1>8 DEF BeingClosed, Revived
<1>10. OnlyRevivedOutlive'
  BY <1>1, <1>3, <1>6, <1>9 DEF IInv, ShellOK, OnlyRevivedOutlive, Untouched
<1> QED
  BY <1>7, <1>10

(* Entering a session changes nothing for others.                          *)
LEMMA EnterActors ==
    ASSUME IInv, NEW q \in Requests, Enter(q)
    PROVE  ActorsOK' /\ FreshOK'
<1>1. PICK pc \in {"spawn", "drain", "rewrite", "wait"} :
        req' = [req EXCEPT ![q].pc = pc]
  BY DEF Enter
<1>2. /\ req[q].pc = "lock" /\ lock' = [lock EXCEPT ![req[q].obj] = q]
      /\ UNCHANGED <<sessions, runSession, manager, made, closed, dirs, closer,
                   shutdown, shell, live>>
  BY DEF Enter, Holds
<1>3. \A p \in Requests : /\ req'[p].obj = req[p].obj
                          /\ req'[p].pc = IF p = q THEN pc ELSE req[p].pc
  BY <1>1 DEF IInv, TypeOK, Request
<1>3a. shutdown.pc = "up"
  BY <1>2 DEF IInv, ActorsOK, Quiet
<1>4. ActorsOK'
  BY <1>2, <1>3, <1>3a DEF IInv, ActorsOK
<1>5. /\ req[q].obj \in Objects
      /\ (req[q].obj \in Registered \/ closed[req[q].obj])
  BY <1>2 DEF IInv, RequestOK, InSessionOK, InSession
<1>6. \A o \in Objects : Untouched(o) => Untouched(o)'
  BY <1>2, <1>5 DEF Untouched, Registered, IInv, TypeOK
<1>7. FreshOK'
  BY <1>2, <1>3, <1>6 DEF IInv, FreshOK
<1> QED
  BY <1>4, <1>7

(* A command that runs is remembered as run.                               *)
LEMMA RunRequests ==
    ASSUME IInv, NEW q \in Requests, Run(q)
    PROVE  RequestOK'
<1>1. /\ UNCHANGED <<sessions, runSession, manager, made, closed, dirs, closer,
                     shutdown, lock, shell, live>>
      /\ req[q].pc = "wait"
  BY DEF Run, Holds
<1>2. /\ req \in [Requests -> Request]
      /\ req' = [req EXCEPT ![q] = [@ EXCEPT !.pc = "echoed",
                                             !.ran = req[q].obj \in dirs]]
  BY DEF Run, IInv, TypeOK
<1>3. \A p \in Requests : /\ req'[p].obj = req[p].obj
                          /\ req'[p].revived = req[p].revived
                          /\ p # q => req'[p] = req[p]
  BY <1>2 DEF Request
<1>4. req'[q].pc = "echoed" /\ (req'[q].ran <=> req[q].obj \in dirs)
  BY <1>2 DEF Request
<1>5. Registered' = Registered
  BY <1>1 DEF Registered
<1>6. InSessionOK'
  BY <1>1, <1>3, <1>4, <1>5
     DEF IInv, RequestOK, InSessionOK, InSession, InCommand
<1>7. RestartsOK'
  BY <1>1, <1>3, <1>4 DEF IInv, RequestOK, RestartsOK
<1>8. RevivedOK'
  BY <1>1, <1>3, <1>4 DEF IInv, RequestOK, RevivedOK
<1>9. AnswersOK'
  BY <1>1, <1>3, <1>4
     DEF IInv, RequestOK, AnswersOK, InSessionOK, InSession, InCommand
<1> QED
  BY <1>6, <1>7, <1>8, <1>9 DEF RequestOK

(* An answer follows a command that ran, or a close.                       *)
LEMMA ReplyRequests ==
    ASSUME IInv, NEW q \in Requests, Reply(q)
    PROVE  RequestOK'
<1>1. /\ UNCHANGED <<sessions, runSession, manager, made, closed, dirs, closer,
                     shutdown, shell, live>>
      /\ req[q].pc = "echoed"
  BY DEF Reply, Holds
<1>2. req \in [Requests -> Request] /\ req' = [req EXCEPT ![q].pc = "done"]
  BY DEF Reply, End, IInv, TypeOK
<1>3. \A p \in Requests : /\ req'[p].obj = req[p].obj
                          /\ req'[p].ran = req[p].ran
                          /\ req'[p].revived = req[p].revived
                          /\ p # q => req'[p] = req[p]
  BY <1>2 DEF Request
<1>4. req'[q].pc = "done"
  BY <1>2 DEF Request
<1>5. Registered' = Registered
  BY <1>1 DEF Registered
<1>6. InSessionOK'
  BY <1>1, <1>3, <1>4, <1>5
     DEF IInv, RequestOK, InSessionOK, InSession, InCommand
<1>7. RestartsOK'
  BY <1>1, <1>3, <1>4 DEF IInv, RequestOK, RestartsOK
<1>8. RevivedOK'
  BY <1>1, <1>3, <1>4 DEF IInv, RequestOK, RevivedOK
<1>9. AnswersOK'
  BY <1>1, <1>3, <1>4
     DEF IInv, RequestOK, AnswersOK, InSessionOK, InSession, InCommand
<1> QED
  BY <1>6, <1>7, <1>8, <1>9 DEF RequestOK

(* A shell that exits is no longer counted.                                *)
LEMMA ShellExitsShells ==
    ASSUME IInv, NEW o \in Objects, ShellExits(o)
    PROVE  ShellOK'
<1>1. UNCHANGED <<sessions, runSession, manager, made, closed, lock, dirs,
                  req, closer, shutdown>>
  BY DEF ShellExits
<1>2. /\ LiveCount'
      /\ \A p \in Objects : /\ shell'[p] = "alive" => shell[p] = "alive"
                            /\ shell'[p] = "none" <=> shell[p] = "none"
  BY Killed DEF ShellExits
<1>3. \A p \in Objects : /\ BeingClosed(p)' <=> BeingClosed(p)
                         /\ Revived(p)' <=> Revived(p)
  BY <1>1 DEF BeingClosed, Revived
<1>4. ShellsKnown' /\ OnlyRevivedOutlive' /\ DirsRemoved'
  BY <1>1, <1>2, <1>3
     DEF IInv, ShellOK, ShellsKnown, OnlyRevivedOutlive, DirsRemoved,
         Registered
<1> QED
  BY <1>2, <1>4 DEF ShellOK

(* The manager's lock is with whoever closes.                              *)
LEMMA CloseBeginActors ==
    ASSUME IInv, NEW c \in Closers, CloseBegin(c)
    PROVE  ActorsOK' /\ LookupOK'
<1> DEFINE i == closer[c].id
           o == sessions[i]
<1>1. /\ i \in Ids /\ o \in Objects \cup {None}
      /\ \A p \in Requests : req[p].pc # "creating"
      /\ \A p \in Closers : closer[p].pc \notin {"draining", "closing"}
  BY NoneAssumption DEF IInv, LookupOK, CloseBegin, TypeOK, ActorsOK
<1>2. /\ UNCHANGED <<made, lock, shell, live, dirs, req, shutdown>>
      /\ shutdown.pc = "up"
      /\ manager = None
  BY DEF CloseBegin, IInv, ActorsOK, Quiet
<1>2a. closer \in [Closers -> Closer]
  BY DEF IInv, TypeOK
<1>3. CASE o = None
  <2>1. /\ UNCHANGED <<sessions, runSession, manager, closed>>
        /\ closer' = [closer EXCEPT ![c].pc = "done"]
    BY <1>3 DEF CloseBegin
  <2>2. /\ closer'[c].pc = "done"
        /\ \A p \in Closers : p # c => closer'[p] = closer[p]
    BY <2>1, <1>2a DEF Closer
  <2>3. ActorsOK'
    BY <2>1, <2>2, <1>1, <1>2 DEF IInv, ActorsOK
  <2>4. LookupOK'
    BY <2>2, <1>2 DEF IInv, LookupOK
  <2> QED
    BY <2>3, <2>4
<1>4. CASE o # None
  <2>1. /\ closed' = [closed EXCEPT ![o] = TRUE]
        /\ manager' = c
        /\ \E pc \in {"draining", "closing"} :
              closer' = [closer EXCEPT ![c] =
                           [@ EXCEPT !.pc = pc, !.obj = o]]
    BY <1>4 DEF CloseBegin
  <2>2. /\ closer'[c].pc \in {"draining", "closing"}
        /\ closer'[c].obj = o
        /\ \A p \in Closers : p # c => closer'[p] = closer[p]
    BY <2>1, <1>2a DEF Closer
  <2>3. closed'[o] /\ o \in Objects
    BY <2>1, <1>1, <1>4 DEF IInv, TypeOK
  <2>4. \A p \in Requests : p # c
    BY ActorsAssumption
  <2>5. ActorsOK'
    BY <2>1, <2>2, <2>3, <2>4, <1>1, <1>2 DEF IInv, ActorsOK
  <2>6. LookupOK'
    BY <2>2, <1>2 DEF IInv, LookupOK
  <2> QED
    BY <2>5, <2>6
<1> QED
  BY <1>3, <1>4

(* A client sends an id it chose or one it was given.                      *)
LEMMA AskIds ==
    ASSUME IInv, NEW q \in Requests, Ask(q)
    PROVE  IdsOK'
<1>1. PICK r \in Runs, pc \in {"lookup", "failed"},
           i \in {None} \cup Chosen \cup {o \in Objects : made[o] # None} :
         req' = [req EXCEPT ![q] = [@ EXCEPT !.pc = pc, !.run = r, !.id = i]]
  BY DEF Ask
<1>2. \A p \in Requests : req'[p].id = IF p = q THEN i ELSE req[p].id
  BY <1>1 DEF IInv, TypeOK, Request
<1>3. made' = made
  BY DEF Ask
<1>4. i \in Objects => made[i] # None
  BY <1>1, NoneAssumption, IdsAssumption DEF Ids
<1> QED
  BY <1>2, <1>3, <1>4 DEF IInv, IdsOK

(* The maps stay while commands enter.                                     *)
LEMMA EnterMaps ==
    ASSUME IInv, NEW q \in Requests, Enter(q)
    PROVE  LookupOK' /\ MapsOK'
<1>1. PICK pc \in {"spawn", "drain", "rewrite", "wait"} :
        req' = [req EXCEPT ![q].pc = pc]
  BY DEF Enter
<1>2. UNCHANGED <<sessions, runSession, made, closed, closer, shutdown>>
  BY DEF Enter, Holds
<1>3. \A p \in Requests : /\ req'[p].obj = req[p].obj
                          /\ req'[p].run = req[p].run
                          /\ req'[p].pc = IF p = q THEN pc ELSE req[p].pc
  BY <1>1 DEF IInv, TypeOK, Request
<1>4. LookupOK'
  BY <1>2, <1>3 DEF IInv, LookupOK
<1>5. MapsOK'
  BY <1>2, <1>3 DEF IInv, MapsOK, MapsAgree, Registered
<1> QED
  BY <1>4, <1>5

-----------------------------------------------------------------------------
(* One lemma for each action: it preserves every part of the invariant.    *)

LEMMA AskStep ==
    ASSUME IInv, NEW q \in Requests, Ask(q)
    PROVE  IInv'
<1>1. TypeOK'
  BY AskRequestType, ActorsAssumption
     DEF IInv, TypeOK, Ids, Made, FreshOK, ActorsOK, InSession, InCommand,
         ShutdownPCs, Ask
<1>2. ActorsOK'
  BY DEF IInv, ActorsOK, Ask
<1>3. LookupOK'
  BY DEF IInv, LookupOK, Ask
<1>4. IdsOK'
  BY AskIds
<1>5. FreshOK'
  BY DEF IInv, FreshOK, Untouched, Registered, Ask
<1>6. MapsOK'
  BY DEF IInv, MapsOK, MapsAgree, Registered, Ask
<1>7. LockOK'
  BY DEF IInv, LockOK, InCommand, Ask
<1>8. RequestOK'
  BY DEF IInv, RequestOK, InSessionOK, RestartsOK, RevivedOK, AnswersOK,
         InSession, InCommand, Registered, LockOK, Ask
<1>9. RegisteredOK'
  BY DEF IInv, RegisteredOK, Registered, Ask
<1>10. TodoOK'
  BY DEF IInv, TodoOK, Ask
<1>11. ShellOK'
  <2>1. LiveCount'
    BY DEF IInv, ShellOK, LiveCount, Ask
  <2>2. ShellsKnown'
    BY DEF IInv, ShellOK, ShellsKnown, Registered, Ask
  <2>3. OnlyRevivedOutlive'
    BY DEF IInv, ShellOK, OnlyRevivedOutlive, BeingClosed, Revived, Ask
  <2>4. DirsRemoved'
    BY DEF IInv, ShellOK, DirsRemoved, BeingClosed, Revived, Ask
  <2> QED
    BY <2>1, <2>2, <2>3, <2>4 DEF ShellOK
<1> QED
  BY <1>1, <1>2, <1>3, <1>4, <1>5, <1>6, <1>7, <1>8, <1>9, <1>10, <1>11
     DEF IInv

LEMMA ReuseStep ==
    ASSUME IInv, NEW q \in Requests, Reuse(q)
    PROVE  IInv'
<1>1. TypeOK'
  BY ReuseRequestType, ActorsAssumption
     DEF IInv, TypeOK, Ids, Made, FreshOK, ActorsOK, InSession, InCommand,
         ShutdownPCs, Reuse
<1>2. ActorsOK'
  BY DEF IInv, ActorsOK, Quiet, Reuse
<1>3. LookupOK'
  BY DEF IInv, LookupOK, Reuse
<1>4. IdsOK'
  BY DEF IInv, IdsOK, Reuse
<1>5. FreshOK'
  BY ReuseFresh
<1>6. MapsOK'
  BY DEF IInv, MapsOK, MapsAgree, Registered, Reuse
<1>7. LockOK'
  BY DEF IInv, LockOK, InCommand, Reuse
<1>8. RequestOK'
  <2>1. InSessionOK'
    BY ReuseSession
  <2>2. RestartsOK'
    BY DEF IInv, RequestOK, RestartsOK, Reuse
  <2>3. RevivedOK'
    BY DEF IInv, RequestOK, RevivedOK, Reuse
  <2>4. AnswersOK'
    BY DEF IInv, RequestOK, AnswersOK, Reuse
  <2> QED
    BY <2>1, <2>2, <2>3, <2>4 DEF RequestOK
<1>9. RegisteredOK'
  BY DEF IInv, RegisteredOK, Registered, Reuse
<1>10. TodoOK'
  BY DEF IInv, TodoOK, Reuse
<1>11. ShellOK'
  <2>1. LiveCount'
    BY DEF IInv, ShellOK, LiveCount, Reuse
  <2>2. ShellsKnown'
    BY DEF IInv, ShellOK, ShellsKnown, Registered, Reuse
  <2>3. OnlyRevivedOutlive'
    BY DEF IInv, ShellOK, OnlyRevivedOutlive, BeingClosed, Revived, RequestOK,
           InSessionOK, RestartsOK, RevivedOK, AnswersOK, Reuse
  <2>4. DirsRemoved'
    BY DEF IInv, ShellOK, DirsRemoved, BeingClosed, Revived, Reuse
  <2> QED
    BY <2>1, <2>2, <2>3, <2>4 DEF ShellOK
<1> QED
  BY <1>1, <1>2, <1>3, <1>4, <1>5, <1>6, <1>7, <1>8, <1>9, <1>10, <1>11
     DEF IInv

LEMMA CreateStep ==
    ASSUME IInv, NEW q \in Requests, Create(q)
    PROVE  IInv'
<1>1. TypeOK'
  BY CreateTypes
<1>2. ActorsOK'
  BY NoneAssumption, ActorsAssumption DEF IInv, TypeOK, ActorsOK, Quiet, Create
<1>3. LookupOK'
  BY DEF IInv, LookupOK, Create
<1>4. IdsOK'
  BY CreateIds
<1>5. FreshOK'
  BY CreateMaps
<1>6. MapsOK'
  BY CreateMaps
<1>7. LockOK'
  BY DEF IInv, LockOK, InCommand, Create
<1>8. RequestOK'
  BY DEF IInv, RequestOK, InSessionOK, RestartsOK, RevivedOK, AnswersOK,
         InSession, InCommand, Registered, LockOK, Create
<1>9. RegisteredOK'
  BY DEF IInv, RegisteredOK, Registered, Create
<1>10. TodoOK'
  BY DEF IInv, TodoOK, Create, Found, ById, ByRun, Fresh
<1>11. ShellOK'
  <2>1. LiveCount'
    BY DEF IInv, ShellOK, LiveCount, Create
  <2>2. ShellsKnown'
    BY DEF IInv, ShellOK, ShellsKnown, Registered, Create
  <2>3. OnlyRevivedOutlive'
    BY DEF IInv, ShellOK, OnlyRevivedOutlive, BeingClosed, Revived, RequestOK,
           InSessionOK, RestartsOK, RevivedOK, AnswersOK, Create
  <2>4. DirsRemoved'
    BY DEF IInv, ShellOK, DirsRemoved, BeingClosed, Revived, FreshOK,
           Untouched, Create, Found, ById, ByRun, Fresh
  <2> QED
    BY <2>1, <2>2, <2>3, <2>4 DEF ShellOK
<1> QED
  BY <1>1, <1>2, <1>3, <1>4, <1>5, <1>6, <1>7, <1>8, <1>9, <1>10, <1>11
     DEF IInv

LEMMA CreatedStep ==
    ASSUME IInv, NEW q \in Requests, Created(q)
    PROVE  IInv'
<1>1. TypeOK'
  BY CreatedTypes
<1>2. ActorsOK'
  BY NoneAssumption, ActorsAssumption
     DEF IInv, TypeOK, ActorsOK, Quiet, Created
<1>3. LookupOK'
  BY DEF IInv, LookupOK, Created
<1>4. IdsOK'
  BY DEF IInv, IdsOK, Created
<1>5. FreshOK'
  BY DEF IInv, TypeOK, FreshOK, Untouched, Registered, Created, Start
<1>6. MapsOK'
  BY CreatedMaps
<1>7. LockOK'
  BY DEF IInv, LockOK, InCommand, Created
<1>8. RequestOK'
  <2>1. InSessionOK'
    BY CreatedMaps
  <2>2. RestartsOK'
    BY DEF IInv, RequestOK, RestartsOK, FreshOK, Created, Start
  <2>3. RevivedOK'
    BY DEF IInv, RequestOK, RevivedOK, Created
  <2>4. AnswersOK'
    BY DEF IInv, RequestOK, AnswersOK, Created
  <2> QED
    BY <2>1, <2>2, <2>3, <2>4 DEF RequestOK
<1>9. RegisteredOK'
  BY DEF IInv, RegisteredOK, Registered, FreshOK, Created
<1>10. TodoOK'
  BY DEF IInv, TodoOK, Created
<1>11. ShellOK'
  <2>1. LiveCount'
    BY DEF IInv, TypeOK, ShellOK, LiveCount, FreshOK, Untouched, Created, Start
  <2>2. ShellsKnown'
    BY NoneAssumption
       DEF IInv, TypeOK, Made, Ids, ShellOK, ShellsKnown, Registered, FreshOK,
           MapsOK, Created, Start
  <2>3. OnlyRevivedOutlive'
    BY CreatedTypes
  <2>4. DirsRemoved'
    BY DEF IInv, ShellOK, DirsRemoved, BeingClosed, Revived, Created
  <2> QED
    BY <2>1, <2>2, <2>3, <2>4 DEF ShellOK
<1> QED
  BY <1>1, <1>2, <1>3, <1>4, <1>5, <1>6, <1>7, <1>8, <1>9, <1>10, <1>11
     DEF IInv

LEMMA CreateFailsStep ==
    ASSUME IInv, NEW q \in Requests, CreateFails(q)
    PROVE  IInv'
<1>1. TypeOK'
  <2>1. req' \in [Requests -> Request]
    BY EndRequestType DEF CreateFails
  <2> QED
    BY <2>1 DEF IInv, TypeOK, CreateFails
<1>2. ActorsOK'
  BY NoneAssumption, ActorsAssumption
     DEF IInv, TypeOK, ActorsOK, Quiet, CreateFails
<1>3. LookupOK'
  BY DEF IInv, LookupOK, CreateFails
<1>4. IdsOK'
  BY DEF IInv, IdsOK, CreateFails
<1>5. FreshOK'
  BY DEF IInv, FreshOK, Untouched, Registered, CreateFails
<1>6. MapsOK'
  BY DEF IInv, MapsOK, MapsAgree, Registered, CreateFails
<1>7. LockOK'
  BY DEF IInv, LockOK, InCommand, CreateFails
<1>8. RequestOK'
  BY DEF IInv, RequestOK, InSessionOK, RestartsOK, RevivedOK, AnswersOK,
         InSession, InCommand, Registered, LockOK, CreateFails
<1>9. RegisteredOK'
  BY DEF IInv, RegisteredOK, Registered, CreateFails
<1>10. TodoOK'
  BY DEF IInv, TodoOK, CreateFails
<1>11. ShellOK'
  BY DEF IInv, ShellOK, LiveCount, ShellsKnown, DirsRemoved,
         OnlyRevivedOutlive, BeingClosed, Revived, Registered, CreateFails
<1> QED
  BY <1>1, <1>2, <1>3, <1>4, <1>5, <1>6, <1>7, <1>8, <1>9, <1>10, <1>11
     DEF IInv

LEMMA EnterStep ==
    ASSUME IInv, NEW q \in Requests, Enter(q)
    PROVE  IInv'
<1>1. TypeOK'
  BY EnterRequestType, ActorsAssumption
     DEF IInv, TypeOK, Ids, Made, FreshOK, ActorsOK, InSession, InCommand,
         ShutdownPCs, Enter, Holds
<1>2. ActorsOK'
  BY EnterActors
<1>3. LookupOK'
  BY EnterMaps
<1>4. IdsOK'
  BY ActorsAssumption DEF IInv, TypeOK, Request, IdsOK, Enter, Holds
<1>5. FreshOK'
  BY EnterActors
<1>6. MapsOK'
  BY EnterMaps
<1>7. LockOK'
  BY NoneAssumption DEF IInv, TypeOK, Request, LockOK, InCommand, Enter
<1>8. RequestOK'
  BY EnterRequests
<1>9. RegisteredOK'
  BY DEF IInv, RegisteredOK, Registered, Enter, Holds
<1>10. TodoOK'
  BY DEF IInv, TodoOK, Enter, Holds
<1>11. ShellOK'
  <2>1. LiveCount'
    BY DEF IInv, ShellOK, LiveCount, Enter
  <2>2. ShellsKnown'
    BY DEF IInv, ShellOK, ShellsKnown, Registered, Enter, Holds
  <2>3. OnlyRevivedOutlive'
    BY EnterRequests
  <2>4. DirsRemoved'
    BY DEF IInv, ShellOK, DirsRemoved, BeingClosed, Revived, Enter, Holds
  <2> QED
    BY <2>1, <2>2, <2>3, <2>4 DEF ShellOK
<1> QED
  BY <1>1, <1>2, <1>3, <1>4, <1>5, <1>6, <1>7, <1>8, <1>9, <1>10, <1>11
     DEF IInv

LEMMA SpawnedStep ==
    ASSUME IInv, NEW q \in Requests, Spawned(q)
    PROVE  IInv'
<1>1. TypeOK'
  BY SpawnedShells
<1>2. ActorsOK'
  BY DEF IInv, ActorsOK, Quiet, Spawned, Holds, Start
<1>3. LookupOK'
  BY DEF IInv, LookupOK, Spawned, Holds, Start
<1>4. IdsOK'
  BY DEF IInv, IdsOK, Spawned, Holds, Start
<1>5. FreshOK'
  BY DEF IInv, FreshOK, Untouched, Registered, Spawned, Holds, Start
<1>6. MapsOK'
  BY DEF IInv, MapsOK, MapsAgree, Registered, Spawned, Holds, Start
<1>7. LockOK'
  BY DEF IInv, LockOK, InCommand, Spawned, Holds, Start
<1>8. RequestOK'
  BY DEF IInv, TypeOK, RequestOK, InSessionOK, RestartsOK, RevivedOK,
         AnswersOK, InSession, InCommand, Registered, LockOK, Spawned, Holds,
         Start
<1>9. RegisteredOK'
  BY DEF IInv, RegisteredOK, Registered, Spawned, Holds, Start
<1>10. TodoOK'
  BY DEF IInv, TodoOK, Spawned, Holds, Start
<1>11. ShellOK'
  <2>1. LiveCount'
    BY SpawnedShells
  <2>2. ShellsKnown'
    BY SpawnedShells
  <2>3. OnlyRevivedOutlive'
    BY DEF IInv, TypeOK, ShellOK, OnlyRevivedOutlive, BeingClosed, Revived,
           Spawned, Holds, Start
  <2>4. DirsRemoved'
    BY DEF IInv, ShellOK, DirsRemoved, BeingClosed, Revived, Spawned, Holds,
           Start
  <2> QED
    BY <2>1, <2>2, <2>3, <2>4 DEF ShellOK
<1> QED
  BY <1>1, <1>2, <1>3, <1>4, <1>5, <1>6, <1>7, <1>8, <1>9, <1>10, <1>11
     DEF IInv

(* What a full pipe that empties, or breaks, wakes.                        *)
LEMMA WokenKeeps ==
    ASSUME IInv, NEW q \in Requests, NEW pc \in {"rewrite", "wait", "failed"},
           req[q].pc \in {"drain", "redrain"}, Woken(q, pc)
    PROVE  /\ ActorsOK' /\ LookupOK' /\ IdsOK' /\ MapsOK' /\ RegisteredOK'
           /\ TodoOK' /\ ShellOK' /\ InSessionOK' /\ RevivedOK' /\ AnswersOK'
<1>0. req \in [Requests -> Request] /\ closer \in [Closers -> Closer]
  BY DEF IInv, TypeOK
<1>1. /\ UNCHANGED <<sessions, runSession, manager, made, closed, shell, live,
                     dirs, shutdown>>
      /\ Registered' = Registered
  BY DEF Woken, Registered
<1>2. \A p \in Requests : /\ req'[p].pc = IF p = q THEN pc ELSE req[p].pc
                          /\ req'[p].run = req[p].run
                          /\ req'[p].id = req[p].id
                          /\ req'[p].obj = req[p].obj
                          /\ req'[p].ran = req[p].ran
                          /\ req'[p].late = req[p].late
                          /\ req'[p].revived = req[p].revived
  BY <1>0 DEF Woken, Request
<1>3. \A c \in Closers :
        /\ closer'[c].id = closer[c].id
        /\ closer'[c].obj = closer[c].obj
        /\ closer'[c].pc \in {"draining", "closing"} <=>
              closer[c].pc \in {"draining", "closing"}
        /\ closer'[c].pc = "lookup" <=> closer[c].pc = "lookup"
  BY <1>0 DEF Woken, Closer
<1>4. shutdown.pc = "up"
  BY DEF IInv, ActorsOK, Quiet
<1>5. ActorsOK'
  BY <1>1, <1>2, <1>3, <1>4 DEF IInv, ActorsOK
<1>6. LookupOK' /\ IdsOK' /\ TodoOK' /\ RegisteredOK'
  BY <1>1, <1>2, <1>3 DEF IInv, LookupOK, IdsOK, TodoOK, RegisteredOK
<1>7. MapsOK'
  BY <1>1, <1>2 DEF IInv, MapsOK, MapsAgree
<1>8. \A o \in Objects : /\ BeingClosed(o)' <=> BeingClosed(o)
                         /\ Revived(o)' <=> Revived(o)
  BY <1>1, <1>2, <1>3 DEF BeingClosed, Revived
<1>9. ShellOK'
  BY <1>1, <1>8
     DEF IInv, ShellOK, LiveCount, ShellsKnown, OnlyRevivedOutlive, DirsRemoved
<1>10. InSessionOK' /\ RevivedOK' /\ AnswersOK'
  BY <1>1, <1>2
     DEF IInv, RequestOK, InSessionOK, RevivedOK, AnswersOK, InSession,
         InCommand
<1> QED
  BY <1>5, <1>6, <1>7, <1>9, <1>10

LEMMA DrainStep ==
    ASSUME IInv, NEW q \in Requests, Drain(q)
    PROVE  IInv'
<1>0. req \in [Requests -> Request]
  BY DEF IInv, TypeOK
<1>1. PICK pc \in {"rewrite", "wait", "failed"} :
        /\ Woken(q, pc)
        /\ req[q].pc \in {"drain", "redrain"}
        /\ pc = "rewrite" => shell[req[q].obj] # "alive"
        /\ lock' = IF pc = "failed" THEN [lock EXCEPT ![req[q].obj] = None]
                   ELSE lock
  BY DEF Drain, Drained, DrainBroken, Release
<1>2. req[q].obj \in Objects
  BY <1>1 DEF IInv, RequestOK, InSessionOK, InSession, InCommand
<1>3. /\ UNCHANGED <<sessions, runSession, manager, made, closed, shell, live,
                     dirs, shutdown>>
      /\ Registered' = Registered
  BY <1>1 DEF Woken, Registered
<1>4. \A p \in Requests : /\ req'[p].pc = IF p = q THEN pc ELSE req[p].pc
                          /\ req'[p].obj = req[p].obj
                          /\ req'[p].late = req[p].late
  BY <1>0, <1>1 DEF Woken, Request
<1>5. TypeOK'
  <2>1. req' \in [Requests -> Request] /\ closer' \in [Closers -> Closer]
    BY <1>1, WokenType DEF ReqPCs
  <2>2. lock' \in [Objects -> Requests \cup {None}]
    BY <1>1 DEF IInv, TypeOK
  <2> QED
    BY <1>3, <2>1, <2>2 DEF IInv, TypeOK
<1>6. FreshOK'
  <2>1. \A o \in Objects : lock'[o] = lock[o] \/ lock'[o] = None
    BY <1>1 DEF IInv, TypeOK
  <2>2. \A o \in Objects : Untouched(o) => Untouched(o)'
    BY <1>3, <2>1 DEF Untouched
  <2> QED
    BY <1>3, <1>4, <2>2 DEF IInv, FreshOK
<1>7. LockOK'
  BY <1>1, <1>2, <1>4, NoneAssumption DEF IInv, TypeOK, LockOK, InCommand
<1>8. RestartsOK'
  BY <1>1, <1>3, <1>4 DEF IInv, RequestOK, RestartsOK
<1> QED
  BY <1>1, <1>5, <1>6, <1>7, <1>8, WokenKeeps DEF IInv, RequestOK

LEMMA RespawnedStep ==
    ASSUME IInv, NEW q \in Requests, Respawned(q)
    PROVE  IInv'
<1>1. TypeOK'
  BY RespawnedShells
<1>2. ActorsOK'
  BY DEF IInv, ActorsOK, Quiet, Respawned, Holds, Start, Release
<1>3. LookupOK'
  BY DEF IInv, LookupOK, Respawned, Holds, Start, Release
<1>4. IdsOK'
  BY DEF IInv, IdsOK, Respawned, Holds, Start, Release
<1>5. FreshOK'
  BY DEF IInv, FreshOK, Untouched, Registered, Respawned, Holds, Start, Release
<1>6. MapsOK'
  BY DEF IInv, MapsOK, MapsAgree, Registered, Respawned, Holds, Start, Release
<1>7. LockOK'
  BY NoneAssumption
     DEF IInv, TypeOK, LockOK, InCommand, Respawned, Holds, Start, Release
<1>8. RequestOK'
  <2>1. InSessionOK'
    BY DEF IInv, RequestOK, InSessionOK, InSession, InCommand, Registered,
           LockOK, Respawned, Holds, Start, Release
  <2>2. RestartsOK'
    BY DEF IInv, TypeOK, RequestOK, RestartsOK, InCommand, LockOK, Respawned,
           Holds, Start, Release
  <2>3. RevivedOK'
    <3>1. /\ req \in [Requests -> Request]
          /\ req[q].pc = "respawn" /\ req[q].obj \in Objects
          /\ closed' = closed
          /\ req' = [req EXCEPT ![q] = [@ EXCEPT !.pc = "done",
                                             !.revived = closed[req[q].obj]]]
      BY DEF IInv, TypeOK, RequestOK, InSessionOK, InSession, InCommand,
             Respawned, Holds
    <3>2. /\ \A p \in Requests : p # q => req'[p] = req[p]
          /\ req'[q].pc = "done" /\ req'[q].obj = req[q].obj
          /\ req'[q].revived = closed[req[q].obj]
      BY <3>1 DEF Request
    <3> QED
      BY <3>1, <3>2 DEF IInv, RequestOK, RevivedOK
  <2>4. AnswersOK'
    BY DEF IInv, RequestOK, InSessionOK, RestartsOK, RevivedOK, AnswersOK,
           InSession, InCommand, LockOK, Respawned, Holds, Start, Release
  <2> QED
    BY <2>1, <2>2, <2>3, <2>4 DEF RequestOK
<1>9. RegisteredOK'
  BY DEF IInv, RegisteredOK, Registered, Respawned, Holds, Start, Release
<1>10. TodoOK'
  BY DEF IInv, TodoOK, Respawned, Holds, Start, Release
<1>11. ShellOK'
  <2>1. LiveCount'
    BY RespawnedShells
  <2>2. ShellsKnown'
    BY RespawnedShells
  <2>3. OnlyRevivedOutlive'
    BY DEF IInv, TypeOK, ShellOK, OnlyRevivedOutlive, BeingClosed, Revived,
           Respawned, Holds, Start, Release
  <2>4. DirsRemoved'
    BY DEF IInv, ShellOK, DirsRemoved, BeingClosed, Revived, Respawned, Holds,
           Start, Release
  <2> QED
    BY <2>1, <2>2, <2>3, <2>4 DEF ShellOK
<1> QED
  BY <1>1, <1>2, <1>3, <1>4, <1>5, <1>6, <1>7, <1>8, <1>9, <1>10, <1>11
     DEF IInv

LEMMA SpawnFailsStep ==
    ASSUME IInv, NEW q \in Requests, SpawnFails(q)
    PROVE  IInv'
<1>1. TypeOK'
  BY SpawnFailsRequestType, ActorsAssumption
     DEF IInv, TypeOK, Ids, Made, FreshOK, ActorsOK, InSession, InCommand,
         ShutdownPCs, SpawnFails, Holds, End, Release
<1>2. ActorsOK'
  BY DEF IInv, ActorsOK, Quiet, SpawnFails, Holds, End, Release
<1>3. LookupOK'
  BY DEF IInv, LookupOK, SpawnFails, Holds, End, Release
<1>4. IdsOK'
  BY DEF IInv, IdsOK, SpawnFails, Holds, End, Release
<1>5. FreshOK'
  BY DEF IInv, FreshOK, Untouched, Registered, SpawnFails, Holds, End, Release
<1>6. MapsOK'
  BY DEF IInv, MapsOK, MapsAgree, Registered, SpawnFails, Holds, End, Release
<1>7. LockOK'
  BY NoneAssumption
     DEF IInv, TypeOK, LockOK, InCommand, SpawnFails, Holds, End, Release
<1>8. RequestOK'
  <2>1. InSessionOK'
    BY DEF IInv, RequestOK, InSessionOK, InSession, InCommand, Registered,
           LockOK, SpawnFails, Holds, End, Release
  <2>2. RestartsOK'
    BY DEF IInv, RequestOK, RestartsOK, SpawnFails, Holds, End, Release
  <2>3. RevivedOK'
    BY DEF IInv, RequestOK, RevivedOK, SpawnFails, Holds, End, Release
  <2>4. AnswersOK'
    BY DEF IInv, RequestOK, AnswersOK, SpawnFails, Holds, End, Release
  <2> QED
    BY <2>1, <2>2, <2>3, <2>4 DEF RequestOK
<1>9. RegisteredOK'
  BY DEF IInv, RegisteredOK, Registered, SpawnFails, Holds, End, Release
<1>10. TodoOK'
  BY DEF IInv, TodoOK, SpawnFails, Holds, End, Release
<1>11. ShellOK'
  <2>1. LiveCount'
    BY DEF IInv, ShellOK, LiveCount, SpawnFails
  <2>2. ShellsKnown'
    BY DEF IInv, ShellOK, ShellsKnown, Registered, SpawnFails, Holds, End,
           Release
  <2>3. OnlyRevivedOutlive'
    BY DEF IInv, ShellOK, OnlyRevivedOutlive, BeingClosed, Revived,
           SpawnFails, Holds, End, Release
  <2>4. DirsRemoved'
    BY DEF IInv, ShellOK, DirsRemoved, BeingClosed, Revived, SpawnFails,
           Holds, End, Release
  <2> QED
    BY <2>1, <2>2, <2>3, <2>4 DEF ShellOK
<1> QED
  BY <1>1, <1>2, <1>3, <1>4, <1>5, <1>6, <1>7, <1>8, <1>9, <1>10, <1>11
     DEF IInv

LEMMA RunStep ==
    ASSUME IInv, NEW q \in Requests, Run(q)
    PROVE  IInv'
<1>1. TypeOK'
  BY RunRequestType, ActorsAssumption
     DEF IInv, TypeOK, Ids, Made, FreshOK, ActorsOK, InSession, InCommand,
         ShutdownPCs, Run, Holds
<1>2. ActorsOK'
  BY DEF IInv, ActorsOK, Quiet, Run, Holds
<1>3. LookupOK'
  BY DEF IInv, LookupOK, Run, Holds
<1>4. IdsOK'
  BY DEF IInv, IdsOK, Run, Holds
<1>5. FreshOK'
  BY DEF IInv, FreshOK, Untouched, Registered, Run, Holds
<1>6. MapsOK'
  BY DEF IInv, MapsOK, MapsAgree, Registered, Run, Holds
<1>7. LockOK'
  BY DEF IInv, LockOK, InCommand, Run, Holds
<1>8. RequestOK'
  BY RunRequests
<1>9. RegisteredOK'
  BY DEF IInv, RegisteredOK, Registered, Run, Holds
<1>10. TodoOK'
  BY DEF IInv, TodoOK, Run, Holds
<1>11. ShellOK'
  <2>1. LiveCount'
    BY DEF IInv, ShellOK, LiveCount, Run
  <2>2. ShellsKnown'
    BY DEF IInv, ShellOK, ShellsKnown, Registered, Run, Holds
  <2>3. OnlyRevivedOutlive'
    BY DEF IInv, ShellOK, OnlyRevivedOutlive, BeingClosed, Revived, Run, Holds
  <2>4. DirsRemoved'
    BY DEF IInv, ShellOK, DirsRemoved, BeingClosed, Revived, Run, Holds
  <2> QED
    BY <2>1, <2>2, <2>3, <2>4 DEF ShellOK
<1> QED
  BY <1>1, <1>2, <1>3, <1>4, <1>5, <1>6, <1>7, <1>8, <1>9, <1>10, <1>11
     DEF IInv

LEMMA ReplyStep ==
    ASSUME IInv, NEW q \in Requests, Reply(q)
    PROVE  IInv'
<1>1. TypeOK'
  <2>1. req' \in [Requests -> Request]
    BY EndRequestType DEF Reply, End
  <2> QED
    BY <2>1 DEF IInv, TypeOK, Reply, Holds, End, Release
<1>2. ActorsOK'
  BY DEF IInv, ActorsOK, Quiet, Reply, Holds, End, Release
<1>3. LookupOK'
  BY DEF IInv, LookupOK, Reply, Holds, End, Release
<1>4. IdsOK'
  BY DEF IInv, IdsOK, Reply, Holds, End, Release
<1>5. FreshOK'
  BY DEF IInv, FreshOK, Untouched, Registered, Reply, Holds, End, Release
<1>6. MapsOK'
  BY DEF IInv, MapsOK, MapsAgree, Registered, Reply, Holds, End, Release
<1>7. LockOK'
  BY NoneAssumption
     DEF IInv, TypeOK, LockOK, InCommand, Reply, Holds, End, Release
<1>8. RequestOK'
  BY ReplyRequests
<1>9. RegisteredOK'
  BY DEF IInv, RegisteredOK, Registered, Reply, Holds, End, Release
<1>10. TodoOK'
  BY DEF IInv, TodoOK, Reply, Holds, End, Release
<1>11. ShellOK'
  BY DEF IInv, ShellOK, LiveCount, ShellsKnown, DirsRemoved,
         OnlyRevivedOutlive, BeingClosed, Revived, Registered, Reply, Holds,
         End, Release
<1> QED
  BY <1>1, <1>2, <1>3, <1>4, <1>5, <1>6, <1>7, <1>8, <1>9, <1>10, <1>11
     DEF IInv

LEMMA EofStep ==
    ASSUME IInv, NEW q \in Requests, Eof(q)
    PROVE  IInv'
<1>1. TypeOK'
  <2>1. req' \in [Requests -> Request]
    BY EndRequestType DEF Eof, End
  <2> QED
    BY <2>1 DEF IInv, TypeOK, Eof, Holds, End, Release
<1>2. ActorsOK'
  BY DEF IInv, ActorsOK, Quiet, Eof, Holds, End, Release
<1>3. LookupOK'
  BY DEF IInv, LookupOK, Eof, Holds, End, Release
<1>4. IdsOK'
  BY DEF IInv, IdsOK, Eof, Holds, End, Release
<1>5. FreshOK'
  BY DEF IInv, FreshOK, Untouched, Registered, Eof, Holds, End, Release
<1>6. MapsOK'
  BY DEF IInv, MapsOK, MapsAgree, Registered, Eof, Holds, End, Release
<1>7. LockOK'
  BY NoneAssumption
     DEF IInv, TypeOK, LockOK, InCommand, Eof, Holds, End, Release
<1>8. RequestOK'
  BY DEF IInv, RequestOK, InSessionOK, RestartsOK, RevivedOK, AnswersOK,
         InSession, InCommand, Registered, LockOK, Eof, Holds, End, Release
<1>9. RegisteredOK'
  BY DEF IInv, RegisteredOK, Registered, Eof, Holds, End, Release
<1>10. TodoOK'
  BY DEF IInv, TodoOK, Eof, Holds, End, Release
<1>11. ShellOK'
  BY DEF IInv, ShellOK, LiveCount, ShellsKnown, DirsRemoved,
         OnlyRevivedOutlive, BeingClosed, Revived, Registered, Eof, Holds,
         End, Release
<1> QED
  BY <1>1, <1>2, <1>3, <1>4, <1>5, <1>6, <1>7, <1>8, <1>9, <1>10, <1>11
     DEF IInv

LEMMA TimeoutStep ==
    ASSUME IInv, NEW q \in Requests, Timeout(q)
    PROVE  IInv'
<1>1. TypeOK'
  BY TimeoutTypes
<1>2. ActorsOK'
  BY DEF IInv, ActorsOK, Quiet, Timeout, Holds, Kill
<1>3. LookupOK'
  BY DEF IInv, LookupOK, Timeout, Holds, Kill
<1>4. IdsOK'
  BY DEF IInv, IdsOK, Timeout, Holds, Kill
<1>5. FreshOK'
  BY DEF IInv, FreshOK, Untouched, Registered, Timeout, Holds, Kill
<1>6. MapsOK'
  BY DEF IInv, MapsOK, MapsAgree, Registered, Timeout, Holds, Kill
<1>7. LockOK'
  BY DEF IInv, LockOK, InCommand, Timeout, Holds, Kill
<1>8. RequestOK'
  BY DEF IInv, TypeOK, RequestOK, InSessionOK, RestartsOK, RevivedOK,
         AnswersOK, InSession, InCommand, Registered, LockOK, Timeout, Holds,
         Kill
<1>9. RegisteredOK'
  BY DEF IInv, RegisteredOK, Registered, Timeout, Holds, Kill
<1>10. TodoOK'
  BY DEF IInv, TodoOK, Timeout, Holds, Kill
<1>11. ShellOK'
  <2>1. LiveCount'
    BY DEF IInv, TypeOK, ShellOK, LiveCount, Timeout, Holds, Kill
  <2>2. ShellsKnown'
    BY DEF IInv, ShellOK, ShellsKnown, Registered, Timeout, Holds, Kill
  <2>3. OnlyRevivedOutlive'
    BY DEF IInv, ShellOK, OnlyRevivedOutlive, BeingClosed, Revived, Timeout,
           Holds, Kill
  <2>4. DirsRemoved'
    BY DEF IInv, ShellOK, DirsRemoved, BeingClosed, Revived, Timeout, Holds,
           Kill
  <2> QED
    BY <2>1, <2>2, <2>3, <2>4 DEF ShellOK
<1> QED
  BY <1>1, <1>2, <1>3, <1>4, <1>5, <1>6, <1>7, <1>8, <1>9, <1>10, <1>11
     DEF IInv

LEMMA ShellExitsStep ==
    ASSUME IInv, NEW o \in Objects, ShellExits(o)
    PROVE  IInv'
<1>1. TypeOK'
  BY ShellExitsRequests
<1>2. ActorsOK'
  BY DEF IInv, ActorsOK, Quiet, ShellExits
<1>3. LookupOK'
  BY DEF IInv, LookupOK, ShellExits
<1>4. IdsOK'
  BY DEF IInv, IdsOK, ShellExits
<1>5. FreshOK'
  BY DEF IInv, FreshOK, Untouched, Registered, ShellExits, Kill
<1>6. MapsOK'
  BY DEF IInv, MapsOK, MapsAgree, Registered, ShellExits
<1>7. LockOK'
  BY ShellExitsRequests
<1>8. RequestOK'
  BY ShellExitsRequests
<1>9. RegisteredOK'
  BY DEF IInv, RegisteredOK, Registered, ShellExits
<1>10. TodoOK'
  BY DEF IInv, TodoOK, ShellExits
<1>11. ShellOK'
  BY ShellExitsShells
<1> QED
  BY <1>1, <1>2, <1>3, <1>4, <1>5, <1>6, <1>7, <1>8, <1>9, <1>10, <1>11
     DEF IInv

LEMMA ReapStep ==
    ASSUME IInv, NEW o \in Objects, Reap(o)
    PROVE  IInv'
<1>1. TypeOK'
  BY DEF IInv, TypeOK, Reap
<1>2. ActorsOK'
  BY DEF IInv, ActorsOK, Quiet, Reap
<1>3. LookupOK'
  BY DEF IInv, LookupOK, Reap
<1>4. IdsOK'
  BY DEF IInv, IdsOK, Reap
<1>5. FreshOK'
  BY ReapFresh
<1>6. MapsOK'
  BY DEF IInv, MapsOK, MapsAgree, Registered, Reap
<1>7. LockOK'
  BY DEF IInv, LockOK, Reap
<1>8. RequestOK'
  BY DEF IInv, RequestOK, InSessionOK, RestartsOK, RevivedOK, AnswersOK,
         Registered, Reap
<1>9. RegisteredOK'
  BY DEF IInv, RegisteredOK, Registered, Reap
<1>10. TodoOK'
  BY DEF IInv, TodoOK, Reap
<1>11. ShellOK'
  <2>1. LiveCount'
    BY DEF IInv, ShellOK, LiveCount, Reap
  <2>2. ShellsKnown'
    BY DEF IInv, ShellOK, ShellsKnown, Registered, Reap
  <2>3. OnlyRevivedOutlive'
    BY DEF IInv, ShellOK, OnlyRevivedOutlive, BeingClosed, Revived, Reap
  <2>4. DirsRemoved'
    BY DEF IInv, ShellOK, DirsRemoved, BeingClosed, Revived, Reap
  <2> QED
    BY <2>1, <2>2, <2>3, <2>4 DEF ShellOK
<1> QED
  BY <1>1, <1>2, <1>3, <1>4, <1>5, <1>6, <1>7, <1>8, <1>9, <1>10, <1>11
     DEF IInv

LEMMA AskCloseStep ==
    ASSUME IInv, NEW c \in Closers, AskClose(c)
    PROVE  IInv'
<1>1. TypeOK'
  BY AskCloseCloserType, ActorsAssumption
     DEF IInv, TypeOK, Ids, Made, FreshOK, ActorsOK, InSession, InCommand,
         ShutdownPCs, AskClose
<1>2. ActorsOK'
  BY DEF IInv, ActorsOK, AskClose
<1>3. LookupOK'
  BY DEF IInv, Ids, LookupOK, AskClose
<1>4. IdsOK'
  BY DEF IInv, IdsOK, AskClose
<1>5. FreshOK'
  BY DEF IInv, FreshOK, Untouched, Registered, AskClose
<1>6. MapsOK'
  BY DEF IInv, MapsOK, MapsAgree, Registered, AskClose
<1>7. LockOK'
  BY DEF IInv, LockOK, AskClose
<1>8. RequestOK'
  BY DEF IInv, RequestOK, InSessionOK, RestartsOK, RevivedOK, AnswersOK,
         Registered, AskClose
<1>9. RegisteredOK'
  BY DEF IInv, RegisteredOK, Registered, AskClose
<1>10. TodoOK'
  BY DEF IInv, TodoOK, AskClose
<1>11. ShellOK'
  <2>1. LiveCount'
    BY DEF IInv, ShellOK, LiveCount, AskClose
  <2>2. ShellsKnown'
    BY DEF IInv, ShellOK, ShellsKnown, Registered, AskClose
  <2>3. OnlyRevivedOutlive'
    BY DEF IInv, ShellOK, OnlyRevivedOutlive, BeingClosed, Revived, AskClose
  <2>4. DirsRemoved'
    BY DEF IInv, ShellOK, DirsRemoved, BeingClosed, Revived, AskClose
  <2> QED
    BY <2>1, <2>2, <2>3, <2>4 DEF ShellOK
<1> QED
  BY <1>1, <1>2, <1>3, <1>4, <1>5, <1>6, <1>7, <1>8, <1>9, <1>10, <1>11
     DEF IInv

LEMMA CloseBeginStep ==
    ASSUME IInv, NEW c \in Closers, CloseBegin(c)
    PROVE  IInv'
<1>1. TypeOK'
  BY CloseBeginMaps
<1>2. ActorsOK'
  BY CloseBeginActors
<1>3. LookupOK'
  BY CloseBeginActors
<1>4. IdsOK'
  BY DEF IInv, IdsOK, CloseBegin
<1>5. FreshOK'
  BY CloseBeginMaps
<1>6. MapsOK'
  BY CloseBeginMaps
<1>7. LockOK'
  BY DEF IInv, LockOK, CloseBegin
<1>8. RequestOK'
  <2>1. InSessionOK'
    BY CloseBeginMaps
  <2>2. RestartsOK'
    BY DEF IInv, RequestOK, RestartsOK, CloseBegin
  <2>3. RevivedOK'
    <3>1. /\ req' = req
          /\ \A o \in Objects : closed[o] => closed'[o]
      BY DEF IInv, TypeOK, CloseBegin
    <3> QED
      BY <3>1 DEF IInv, RequestOK, RevivedOK
  <2>4. AnswersOK'
    BY DEF IInv, TypeOK, RequestOK, InSessionOK, RestartsOK, RevivedOK,
           AnswersOK, InSession, InCommand, LockOK, CloseBegin
  <2> QED
    BY <2>1, <2>2, <2>3, <2>4 DEF RequestOK
<1>9. RegisteredOK'
  BY NoneAssumption DEF IInv, TypeOK, Ids, RegisteredOK, Registered, CloseBegin
<1>10. TodoOK'
  BY DEF IInv, TodoOK, CloseBegin
<1>11. ShellOK'
  BY CloseBeginMaps
<1> QED
  BY <1>1, <1>2, <1>3, <1>4, <1>5, <1>6, <1>7, <1>8, <1>9, <1>10, <1>11
     DEF IInv

LEMMA CloseEndStep ==
    ASSUME IInv, NEW c \in Closers, CloseEnd(c)
    PROVE  IInv'
<1>1. TypeOK'
  BY CloseEndTypes
<1>2. ActorsOK'
  BY NoneAssumption, ActorsAssumption
     DEF IInv, TypeOK, ActorsOK, Quiet, CloseEnd
<1>3. LookupOK'
  BY DEF IInv, LookupOK, CloseEnd
<1>4. IdsOK'
  BY DEF IInv, IdsOK, CloseEnd
<1>5. FreshOK'
  BY DEF IInv, FreshOK, Untouched, Registered, ActorsOK, CloseEnd, Kill
<1>6. MapsOK'
  BY DEF IInv, MapsOK, MapsAgree, Registered, CloseEnd
<1>7. LockOK'
  BY DEF IInv, LockOK, CloseEnd
<1>8. RequestOK'
  BY DEF IInv, RequestOK, InSessionOK, RestartsOK, RevivedOK, AnswersOK,
         Registered, Quiet, ActorsOK, CloseEnd, Kill
<1>9. RegisteredOK'
  BY DEF IInv, RegisteredOK, Registered, ActorsOK, Quiet, CloseEnd
<1>10. TodoOK'
  BY DEF IInv, TodoOK, CloseEnd
<1>11. ShellOK'
  BY DEF IInv, TypeOK, ShellOK, LiveCount, ShellsKnown, DirsRemoved,
         OnlyRevivedOutlive, BeingClosed, Revived, Registered, CloseEnd, Kill
<1> QED
  BY <1>1, <1>2, <1>3, <1>4, <1>5, <1>6, <1>7, <1>8, <1>9, <1>10, <1>11
     DEF IInv

LEMMA ShutdownBeginStep ==
    ASSUME IInv, ShutdownBegin
    PROVE  IInv'
<1>1. TypeOK'
  BY DEF IInv, TypeOK, ShutdownPCs, ShutdownBegin, Stop, Registered
<1>2. ActorsOK'
  BY DEF IInv, ActorsOK, Quiet, ShutdownBegin, Stop
<1>3. LookupOK'
  BY DEF IInv, LookupOK, ShutdownBegin, Stop
<1>4. IdsOK'
  BY DEF IInv, IdsOK, ShutdownBegin, Stop
<1>5. FreshOK'
  BY DEF IInv, FreshOK, Untouched, Registered, ShutdownBegin, Stop
<1>6. MapsOK'
  BY DEF IInv, MapsOK, MapsAgree, Registered, ShutdownBegin, Stop
<1>7. LockOK'
  BY DEF IInv, LockOK, ShutdownBegin, Stop
<1>8. RequestOK'
  BY DEF IInv, RequestOK, InSessionOK, RestartsOK, RevivedOK, AnswersOK,
         Registered, ShutdownBegin, Stop
<1>9. RegisteredOK'
  BY DEF IInv, RegisteredOK, Registered, ShutdownBegin
<1>10. TodoOK'
  BY NoneAssumption
     DEF IInv, Ids, TodoOK, MapsOK, MapsAgree, Registered, ShutdownBegin, Stop
<1>11. ShellOK'
  BY DEF IInv, ShellOK, LiveCount, ShellsKnown, DirsRemoved,
         OnlyRevivedOutlive, BeingClosed, Revived, Registered, ShutdownBegin,
         Stop
<1> QED
  BY <1>1, <1>2, <1>3, <1>4, <1>5, <1>6, <1>7, <1>8, <1>9, <1>10, <1>11
     DEF IInv

LEMMA ShutdownCloseStep ==
    ASSUME IInv, ShutdownClose
    PROVE  IInv'
<1>1. TypeOK'
  BY DEF IInv, TypeOK, ShutdownPCs, ShutdownClose, Stop
<1>2. ActorsOK'
  BY DEF IInv, TypeOK, ActorsOK, Quiet, ShutdownClose, Stop
<1>3. LookupOK'
  BY DEF IInv, LookupOK, ShutdownClose, Stop
<1>4. IdsOK'
  BY DEF IInv, IdsOK, ShutdownClose, Stop
<1>5. FreshOK'
  BY ShutdownCloseFresh
<1>6. MapsOK'
  BY DEF IInv, TypeOK, MapsOK, MapsAgree, Registered, ShutdownClose, Stop
<1>7. LockOK'
  BY DEF IInv, LockOK, ShutdownClose, Stop
<1>8. RequestOK'
  BY DEF IInv, RequestOK, InSessionOK, RestartsOK, RevivedOK, AnswersOK,
         Registered, ShutdownClose, Stop
<1>9. RegisteredOK'
  BY DEF IInv, RegisteredOK, Registered, ShutdownClose
<1>10. TodoOK'
  BY DEF IInv, TodoOK, ShutdownClose, Stop
<1>11. ShellOK'
  BY DEF IInv, ShellOK, LiveCount, ShellsKnown, DirsRemoved,
         OnlyRevivedOutlive, BeingClosed, Revived, Registered, ShutdownClose,
         Stop
<1> QED
  BY <1>1, <1>2, <1>3, <1>4, <1>5, <1>6, <1>7, <1>8, <1>9, <1>10, <1>11
     DEF IInv

LEMMA ShutdownKillStep ==
    ASSUME IInv, ShutdownKill
    PROVE  IInv'
<1>1. TypeOK'
  BY ShutdownKillTypes
<1>2. ActorsOK'
  BY DEF IInv, ActorsOK, Quiet, ShutdownKill, Stop, Kill
<1>3. LookupOK'
  BY DEF IInv, LookupOK, ShutdownKill, Stop, Kill
<1>4. IdsOK'
  BY DEF IInv, IdsOK, ShutdownKill, Stop, Kill
<1>5. FreshOK'
  BY DEF IInv, FreshOK, Untouched, Registered, ActorsOK, ShutdownKill, Stop,
         Kill
<1>6. MapsOK'
  BY DEF IInv, MapsOK, MapsAgree, Registered, ShutdownKill, Stop, Kill
<1>7. LockOK'
  BY DEF IInv, LockOK, ShutdownKill, Stop, Kill
<1>8. RequestOK'
  BY DEF IInv, RequestOK, InSessionOK, RestartsOK, RevivedOK, AnswersOK,
         Registered, Quiet, ActorsOK, ShutdownKill, Stop, Kill
<1>9. RegisteredOK'
  BY DEF IInv, RegisteredOK, Registered, ActorsOK, Quiet, ShutdownKill
<1>10. TodoOK'
  BY DEF IInv, TodoOK, ShutdownKill, Stop, Kill
<1>11. ShellOK'
  BY DEF IInv, TypeOK, ShellOK, LiveCount, ShellsKnown, DirsRemoved,
         OnlyRevivedOutlive, BeingClosed, Revived, Registered, ShutdownKill,
         Stop, Kill
<1> QED
  BY <1>1, <1>2, <1>3, <1>4, <1>5, <1>6, <1>7, <1>8, <1>9, <1>10, <1>11
     DEF IInv

LEMMA ShutdownEndStep ==
    ASSUME IInv, ShutdownEnd
    PROVE  IInv'
<1>1. TypeOK'
  BY DEF IInv, TypeOK, ShutdownPCs, ShutdownEnd, Stop
<1>2. ActorsOK'
  BY DEF IInv, ActorsOK, Quiet, ShutdownEnd, Stop
<1>3. LookupOK'
  BY DEF IInv, LookupOK, ShutdownEnd, Stop
<1>4. IdsOK'
  BY DEF IInv, IdsOK, ShutdownEnd, Stop
<1>5. FreshOK'
  BY NoneAssumption
     DEF IInv, Ids, FreshOK, Untouched, Registered, ShutdownEnd, Stop
<1>6. MapsOK'
  BY NoneAssumption
     DEF IInv, Ids, MapsOK, MapsAgree, Registered, ActorsOK, Quiet,
         ShutdownEnd, Stop
<1>7. LockOK'
  BY DEF IInv, LockOK, ShutdownEnd, Stop
<1>8. RequestOK'
  BY DEF IInv, RequestOK, InSessionOK, RestartsOK, RevivedOK, AnswersOK,
         InSession, InCommand, LockOK, Quiet, ActorsOK, ShutdownEnd, Stop
<1>9. RegisteredOK'
  BY NoneAssumption DEF IInv, Ids, RegisteredOK, Registered, ShutdownEnd
<1>10. TodoOK'
  BY DEF IInv, TodoOK, ShutdownEnd, Stop
<1>11. ShellOK'
  BY DEF IInv, ShellOK, LiveCount, ShellsKnown, DirsRemoved,
         OnlyRevivedOutlive, BeingClosed, Revived, MapsOK, ShutdownEnd, Stop
<1> QED
  BY <1>1, <1>2, <1>3, <1>4, <1>5, <1>6, <1>7, <1>8, <1>9, <1>10, <1>11
     DEF IInv

(* The invariant holds initially.                                          *)
LEMMA InitIInv == Init => IInv
<1> SUFFICES ASSUME Init PROVE IInv
  OBVIOUS
<1>1. TypeOK
  BY DEF Init, TypeOK, Request, ReqPCs, Closer, CloserPCs, ShutdownPCs
<1>2. Registered = {}
  BY NoneAssumption DEF Init, Registered, Ids
<1>3. ActorsOK /\ LookupOK
  BY NoneAssumption DEF Init, ActorsOK, LookupOK, Quiet
<1>3a. IdsOK
  BY NoneAssumption DEF Init, IdsOK, Ids
<1>3b. FreshOK
  BY <1>2, NoneAssumption DEF Init, FreshOK, Untouched, Ids
<1>3c. MapsOK
  BY <1>2 DEF Init, MapsOK, MapsAgree
<1>4. LockOK /\ RequestOK /\ RegisteredOK /\ TodoOK
  BY <1>2, NoneAssumption
     DEF Init, LockOK, RequestOK, RegisteredOK, TodoOK, InSessionOK,
         RestartsOK, RevivedOK, AnswersOK, InSession, InCommand
<1>5. ShellOK
  BY DEF Init, ShellOK, LiveCount, ShellsKnown, OnlyRevivedOutlive, DirsRemoved
<1> QED
  BY <1>1, <1>3, <1>3a, <1>3b, <1>3c, <1>4, <1>5 DEF IInv

(* Every step preserves the invariant.                                     *)
LEMMA StepIInv == IInv /\ [Next]_vars => IInv'
<1> SUFFICES ASSUME IInv, [Next]_vars PROVE IInv'
  OBVIOUS
<1>1. ASSUME NEW q \in Requests, Ask(q) PROVE IInv'
  BY <1>1, AskStep
<1>2. ASSUME NEW q \in Requests, Serve(q) PROVE IInv'
  BY <1>2, ReuseStep, CreateStep, CreatedStep, CreateFailsStep, EnterStep,
     SpawnedStep, RespawnedStep, SpawnFailsStep, RunStep, ReplyStep, EofStep,
     TimeoutStep
     DEF Serve
<1>2a. ASSUME NEW q \in Requests, Drain(q) PROVE IInv'
  BY <1>2a, DrainStep
<1>3. ASSUME NEW o \in Objects, ShellExits(o) \/ Reap(o) PROVE IInv'
  BY <1>3, ShellExitsStep, ReapStep
<1>4. ASSUME NEW c \in Closers, AskClose(c) \/ Close(c) PROVE IInv'
  BY <1>4, AskCloseStep, CloseBeginStep, CloseEndStep DEF Close
<1>5. CASE Shutdown
  BY <1>5, ShutdownBeginStep, ShutdownCloseStep, ShutdownKillStep,
     ShutdownEndStep
     DEF Shutdown
<1>6. CASE UNCHANGED vars
  <2>1. TypeOK' /\ ActorsOK' /\ LookupOK' /\ IdsOK'
    BY <1>6 DEF vars, IInv, TypeOK, ActorsOK, LookupOK, IdsOK, Quiet
  <2>2. FreshOK' /\ MapsOK' /\ LockOK'
    BY <1>6
       DEF vars, IInv, FreshOK, Untouched, Registered, MapsOK, MapsAgree,
           LockOK
  <2>3. RequestOK' /\ RegisteredOK' /\ TodoOK'
    BY <1>6
       DEF vars, IInv, RequestOK, InSessionOK, RestartsOK, RevivedOK,
           AnswersOK, Registered, RegisteredOK, TodoOK
  <2>4. ShellOK'
    BY <1>6
       DEF vars, IInv, ShellOK, LiveCount, ShellsKnown, Registered,
           OnlyRevivedOutlive, DirsRemoved, BeingClosed, Revived
  <2> QED
    BY <2>1, <2>2, <2>3, <2>4 DEF IInv
<1> QED
  BY <1>1, <1>2, <1>2a, <1>3, <1>4, <1>5, <1>6 DEF Next

(* So it always holds.                                                     *)
LEMMA InductiveInvariant == Safety => []IInv
<1>1. Init => IInv
  BY InitIInv
<1>2. IInv /\ [Next]_vars => IInv'
  BY StepIInv
<1> QED
  BY <1>1, <1>2, PTL DEF Safety

----------------------------------------------------------------------------
(* The theorems.                                                           *)

(* The variables keep their types: a process is never counted down twice,  *)
(* and what a request or a closer remembers is a session that was made.    *)
THEOREM TypeCorrect == Spec => []TypeOK
<1>1. IInv => TypeOK
  BY DEF IInv
<1> QED
  BY InductiveInvariant, <1>1, PTL DEF Spec

(* The two maps of the manager describe the same sessions, whatever ids    *)
(* clients send and whatever is being opened or closed.                    *)
THEOREM MapsConsistent == Spec => []MapsAgree
<1>1. IInv => MapsAgree
  BY DEF IInv, MapsOK
<1> QED
  BY InductiveInvariant, <1>1, PTL DEF Spec

(* No shell is forgotten by a restart, a close or a failure.               *)
THEOREM NoShellLost == Spec => []ShellsAccounted
<1>1. IInv => ShellsAccounted
  BY DEF IInv, ShellOK, LiveCount, ShellsKnown, ShellsAccounted
<1> QED
  BY InductiveInvariant, <1>1, PTL DEF Spec

(* The only shell that outlives its close was started by a command that    *)
(* was in the session, or waited for it, when it was closed.               *)
THEOREM CloseEndsShells == Spec => []OnlyRevivedOutlive
<1>1. IInv => OnlyRevivedOutlive
  BY DEF IInv, ShellOK
<1> QED
  BY InductiveInvariant, <1>1, PTL DEF Spec

(* A command that is answered in time was run, or its session was closed.  *)
THEOREM AnsweredIsRun == Spec => []AnswersAreReal
<1>1. IInv => AnswersAreReal
  BY DEF IInv, RequestOK, AnswersOK, AnswersAreReal
<1> QED
  BY InductiveInvariant, <1>1, PTL DEF Spec

(* A server that has stopped left no shell but those revived ones, and no  *)
(* directory but those of sessions that could not be started.              *)
THEOREM StopsClean == Spec => []ShutdownClean
<1>1. ASSUME IInv, shutdown.pc = "down", NEW o \in Objects
      PROVE  /\ live[o] > 0 => Revived(o)
             /\ o \in dirs => ~closed[o] /\ shell[o] = "none"
  <2>1. Registered = {} /\ ~BeingClosed(o)
    BY <1>1 DEF IInv, MapsOK, ActorsOK, Quiet, BeingClosed
  <2>2. live[o] > 0 => shell[o] = "alive"
    BY <1>1 DEF IInv, ShellOK, LiveCount
  <2>3. shell[o] # "none" => closed[o]
    BY <1>1, <2>1 DEF IInv, ShellOK, ShellsKnown
  <2>4. closed[o] /\ shell[o] = "alive" => Revived(o)
    BY <1>1, <2>1 DEF IInv, ShellOK, OnlyRevivedOutlive
  <2>5. o \in dirs => ~closed[o]
    BY <1>1, <2>1 DEF IInv, ShellOK, DirsRemoved
  <2> QED
    BY <2>2, <2>3, <2>4, <2>5
<1>2. IInv => ShutdownClean
  BY <1>1 DEF ShutdownClean
<1> QED
  BY InductiveInvariant, <1>2, PTL DEF Spec

----------------------------------------------------------------------------
(* The locks and the end of a request.                                     *)

(* A lock that is kept is kept by somebody who is to release it and who    *)
(* waits for no lock: no two coroutines ever wait for each other.          *)
LocksOwned ==
    /\ \A o \in Objects : lock[o] # None =>
          req[lock[o]].obj = o /\ req[lock[o]].pc \in InCommand
    /\ manager # None =>
          \/ manager \in Requests /\ req[manager].pc = "creating"
          \/ /\ manager \in Closers
             /\ closer[manager].pc \in {"draining", "closing"}
    /\ \A q \in Requests : req[q].pc \in {"lookup", "lock", "done", "failed"} =>
          manager # q /\ \A o \in Objects : lock[o] # q
    /\ \A c \in Closers :
          closer[c].pc \notin {"draining", "closing"} => manager # c

(* Neither the manager's lock nor that of a session is forgotten, by       *)
(* whatever path a request ends, and they cannot block each other.         *)
THEOREM LocksReturn == Spec => []LocksOwned
<1>1. IInv => LocksOwned
  <2> SUFFICES ASSUME IInv PROVE LocksOwned
    OBVIOUS
  <2>1. \A o \in Objects : lock[o] # None =>
            req[lock[o]].obj = o /\ req[lock[o]].pc \in InCommand
    BY DEF IInv, TypeOK, LockOK
  <2>2. manager # None =>
            \/ manager \in Requests /\ req[manager].pc = "creating"
            \/ /\ manager \in Closers
               /\ closer[manager].pc \in {"draining", "closing"}
    BY DEF IInv, TypeOK, ActorsOK
  <2>3. ASSUME NEW q \in Requests,
               req[q].pc \in {"lookup", "lock", "done", "failed"}
        PROVE  manager # q /\ \A o \in Objects : lock[o] # q
    BY <2>3 DEF IInv, ActorsOK, LockOK, InCommand
  <2>4. \A c \in Closers :
          closer[c].pc \notin {"draining", "closing"} => manager # c
    BY DEF IInv, ActorsOK
  <2> QED
    BY <2>1, <2>2, <2>3, <2>4 DEF LocksOwned
<1> QED
  BY <1>1, InductiveInvariant, PTL DEF Spec

(* How many steps a request and a closer have before them.                 *)
Steps(pc) ==
    CASE pc = "idle"     -> 11
      [] pc = "lookup"   -> 10
      [] pc = "creating" -> 9
      [] pc = "lock"     -> 8
      [] pc = "spawn"    -> 7
      [] pc = "drain"    -> 6
      [] pc = "rewrite"  -> 5
      [] pc = "redrain"  -> 4
      [] pc = "wait"     -> 3
      [] pc = "echoed"   -> 2
      [] pc = "respawn"  -> 1
      [] pc = "done"     -> 0
      [] pc = "failed"   -> 0

CloserSteps(pc) ==
    CASE pc = "idle"     -> 4
      [] pc = "lookup"   -> 3
      [] pc = "draining" -> 2
      [] pc = "closing"  -> 1
      [] pc = "done"     -> 0

(* Whatever the shells do, and however a command is tried again after a    *)
(* broken pipe or a timeout, each step made for a request brings it nearer *)
(* to its end, and no step puts another request back: nothing is retried   *)
(* for ever.  The same of the requests to close a session.                 *)
RequestsAdvance ==
    [][/\ \A q \in Requests :
             /\ Ask(q) \/ Serve(q) \/ Drain(q) =>
                   Steps(req'[q].pc) < Steps(req[q].pc)
             /\ Steps(req'[q].pc) <= Steps(req[q].pc)
       /\ \A c \in Closers :
             /\ AskClose(c) \/ Close(c) =>
                   CloserSteps(closer'[c].pc) < CloserSteps(closer[c].pc)
             /\ CloserSteps(closer'[c].pc) <= CloserSteps(closer[c].pc)]_vars

(* What is left of a request, as numbers.                                  *)
LEMMA StepsCount ==
    ASSUME IInv
    PROVE  /\ \A q \in Requests : Steps(req[q].pc) \in Nat
           /\ \A c \in Closers : CloserSteps(closer[c].pc) \in Nat
<1>1. ASSUME NEW q \in Requests PROVE Steps(req[q].pc) \in Nat
  <2>1. req[q].pc \in ReqPCs
    BY DEF IInv, TypeOK, Request
  <2> QED
    BY <2>1 DEF ReqPCs, Steps
<1>2. ASSUME NEW c \in Closers PROVE CloserSteps(closer[c].pc) \in Nat
  <2>1. closer[c].pc \in {"idle", "lookup", "draining", "closing", "done"}
    BY DEF IInv, TypeOK, Closer, CloserPCs
  <2> QED
    BY <2>1 DEF CloserSteps
<1> QED
  BY <1>1, <1>2

(* Where a step made for a request takes it.                               *)
Moves(from, to) ==
    \/ from = "idle" /\ to \in {"lookup", "failed"}
    \/ from = "lookup" /\ to \in {"creating", "lock"}
    \/ from = "creating" /\ to \in {"lock", "failed"}
    \/ from = "lock" /\ to \in {"spawn", "drain", "rewrite", "wait"}
    \/ from = "spawn" /\ to \in {"drain", "wait", "failed"}
    \/ from = "drain" /\ to \in {"rewrite", "wait"}
    \/ from = "rewrite" /\ to \in {"redrain", "wait", "failed"}
    \/ from = "redrain" /\ to \in {"wait", "failed"}
    \/ from = "wait" /\ to \in {"echoed", "respawn", "failed"}
    \/ from = "echoed" /\ to \in {"respawn", "done"}
    \/ from = "respawn" /\ to \in {"done", "failed"}

(* A step for a request moves it, no other request, and no closer unless a *)
(* full pipe was drained.                                                  *)
LEMMA RequestMoves ==
    ASSUME IInv, NEW q \in Requests, Ask(q) \/ Serve(q)
    PROVE  /\ \A p \in Requests : p # q => req'[p] = req[p]
           /\ Moves(req[q].pc, req'[q].pc)
           /\ closer' = closer
<1>0. req \in [Requests -> Request] /\ req[q] \in Request
  BY DEF IInv, TypeOK
<1> USE <1>0 DEF Request, Moves
<1>1. CASE Ask(q)
  <2>1. PICK r \in Runs, pc \in {"lookup", "failed"},
             i \in {None} \cup Chosen \cup {o \in Objects : made[o] # None} :
            req' = [req EXCEPT ![q] = [@ EXCEPT !.pc = pc, !.run = r, !.id = i]]
    BY <1>1 DEF Ask
  <2>2. /\ req'[q].pc \in {"lookup", "failed"}
        /\ \A p \in Requests : p # q => req'[p] = req[p]
    BY <2>1
  <2>3. req[q].pc = "idle" /\ closer' = closer
    BY <1>1 DEF Ask
  <2> QED
    BY <2>2, <2>3
<1>2. CASE Reuse(q)
  BY <1>2 DEF Reuse
<1>3. CASE Create(q)
  BY <1>3 DEF Create
<1>4. CASE Created(q)
  BY <1>4 DEF Created
<1>5. CASE CreateFails(q)
  BY <1>5 DEF CreateFails
<1>6. CASE Enter(q)
  BY <1>6 DEF Enter, Holds
<1>7. CASE Spawned(q)
  BY <1>7 DEF Spawned, Holds
<1>8. CASE Respawned(q)
  BY <1>8 DEF Respawned, Holds
<1>9. CASE SpawnFails(q)
  BY <1>9 DEF SpawnFails, Holds, End
<1>10. CASE Run(q)
  BY <1>10 DEF Run, Holds
<1>11. CASE Reply(q)
  BY <1>11 DEF Reply, Holds, End
<1>12. CASE Eof(q)
  BY <1>12 DEF Eof, Holds, End
<1>13. CASE Timeout(q)
  BY <1>13 DEF Timeout, Holds
<1> QED
  BY <1>1, <1>2, <1>3, <1>4, <1>5, <1>6, <1>7, <1>8, <1>9, <1>10, <1>11,
     <1>12, <1>13 DEF Serve

LEMMA DrainMoves ==
    ASSUME IInv, NEW q \in Requests, Drain(q)
    PROVE  /\ \A p \in Requests : p # q => req'[p] = req[p]
           /\ Moves(req[q].pc, req'[q].pc)
           /\ \A c \in Closers :
                 \/ closer'[c] = closer[c]
                 \/ closer[c].pc = "draining" /\ closer'[c].pc = "closing"
<1>0. req \in [Requests -> Request] /\ closer \in [Closers -> Closer]
  BY DEF IInv, TypeOK
<1>1. PICK pc \in {"wait", "rewrite", "failed"} :
        Woken(q, pc) /\ Moves(req[q].pc, pc)
  BY DEF Drain, Drained, DrainBroken, Moves
<1>2. /\ \A p \in Requests : p # q => req'[p] = req[p]
      /\ req'[q].pc = pc
  BY <1>0, <1>1 DEF Woken, Request
<1>3. ASSUME NEW c \in Closers
      PROVE  \/ closer'[c] = closer[c]
             \/ closer[c].pc = "draining" /\ closer'[c].pc = "closing"
  BY <1>0, <1>1 DEF Woken, Closer
<1> QED
  BY <1>1, <1>2, <1>3

LEMMA RequestNearer ==
    ASSUME IInv, NEW q \in Requests, Ask(q) \/ Serve(q) \/ Drain(q)
    PROVE  /\ Steps(req'[q].pc) \in Nat
           /\ Steps(req'[q].pc) < Steps(req[q].pc)
<1> HIDE DEF IInv
<1>1. Moves(req[q].pc, req'[q].pc)
  BY RequestMoves, DrainMoves
<1> QED
  BY <1>1 DEF Moves, Steps

LEMMA CloserNearer ==
    ASSUME IInv, NEW c \in Closers, AskClose(c) \/ Close(c)
    PROVE  /\ CloserSteps(closer'[c].pc) \in Nat
           /\ CloserSteps(closer'[c].pc) < CloserSteps(closer[c].pc)
           /\ \A d \in Closers : d # c => closer'[d] = closer[d]
           /\ req' = req
<1>0. closer \in [Closers -> Closer] /\ closer[c] \in Closer
  BY DEF IInv, TypeOK
<1>1. /\ \/ closer[c].pc = "idle" /\ closer'[c].pc = "lookup"
         \/ /\ closer[c].pc = "lookup"
            /\ closer'[c].pc \in {"draining", "closing", "done"}
         \/ closer[c].pc = "closing" /\ closer'[c].pc = "done"
      /\ \A d \in Closers : d # c => closer'[d] = closer[d]
      /\ req' = req
  <2> USE <1>0 DEF Closer
  <2>1. CASE AskClose(c)
    BY <2>1 DEF AskClose
  <2>2. CASE CloseBegin(c)
    BY <2>2 DEF CloseBegin
  <2>3. CASE CloseEnd(c)
    BY <2>3 DEF CloseEnd
  <2> QED
    BY <2>1, <2>2, <2>3 DEF Close
<1> QED
  BY <1>1 DEF CloserSteps

(* A request to a shell is over after at most eleven steps of its own and  *)
(* a close after four, whatever the others, the shells and the end of the  *)
(* server do in between.                                                   *)
THEOREM RequestsEnd == Safety => RequestsAdvance
<1> DEFINE Nearer ==
        /\ \A q \in Requests :
              /\ Ask(q) \/ Serve(q) \/ Drain(q) =>
                    Steps(req'[q].pc) < Steps(req[q].pc)
              /\ Steps(req'[q].pc) <= Steps(req[q].pc)
        /\ \A c \in Closers :
              /\ AskClose(c) \/ Close(c) =>
                    CloserSteps(closer'[c].pc) < CloserSteps(closer[c].pc)
              /\ CloserSteps(closer'[c].pc) <= CloserSteps(closer[c].pc)
<1>1. ASSUME IInv, Next PROVE Nearer
  <2>1. \A q \in Requests :
            Ask(q) \/ Serve(q) \/ Drain(q) => Steps(req'[q].pc) < Steps(req[q].pc)
    BY <1>1, RequestNearer
  <2>2. \A c \in Closers : AskClose(c) \/ Close(c) =>
            CloserSteps(closer'[c].pc) < CloserSteps(closer[c].pc)
    BY <1>1, CloserNearer
  <2>3. /\ \A q \in Requests : Steps(req[q].pc) \in Nat
        /\ \A c \in Closers : CloserSteps(closer[c].pc) \in Nat
    BY <1>1, StepsCount
  <2>4. ASSUME NEW q \in Requests
        PROVE  req'[q].pc = req[q].pc \/ Ask(q) \/ Serve(q) \/ Drain(q)
    <3>1. CASE \E p \in Requests : Ask(p) \/ Serve(p)
      BY <1>1, <3>1, RequestMoves
    <3>1a. CASE \E p \in Requests : Drain(p)
      BY <1>1, <3>1a, DrainMoves
    <3>2. CASE \E c \in Closers : AskClose(c) \/ Close(c)
      BY <1>1, <3>2, CloserNearer
    <3>3. CASE \E o \in Objects : ShellExits(o) \/ Reap(o)
      BY <3>3 DEF ShellExits, Reap
    <3>4. CASE Shutdown
      BY <3>4
         DEF Shutdown, ShutdownBegin, ShutdownClose, ShutdownKill,
             ShutdownEnd, Stop
    <3> QED
      BY <1>1, <3>1, <3>1a, <3>2, <3>3, <3>4 DEF Next
  <2>5. ASSUME NEW c \in Closers
        PROVE  \/ closer'[c].pc = closer[c].pc \/ AskClose(c) \/ Close(c)
               \/ closer[c].pc = "draining" /\ closer'[c].pc = "closing"
    <3>1. CASE \E p \in Requests : Ask(p) \/ Serve(p)
      BY <1>1, <3>1, RequestMoves
    <3>1a. CASE \E p \in Requests : Drain(p)
      BY <1>1, <3>1a, DrainMoves
    <3>2. CASE \E d \in Closers : AskClose(d) \/ Close(d)
      BY <1>1, <3>2, CloserNearer
    <3>3. CASE \E o \in Objects : ShellExits(o) \/ Reap(o)
      BY <3>3 DEF ShellExits, Reap
    <3>4. CASE Shutdown
      BY <3>4
         DEF Shutdown, ShutdownBegin, ShutdownClose, ShutdownKill,
             ShutdownEnd, Stop
    <3> QED
      BY <1>1, <3>1, <3>1a, <3>2, <3>3, <3>4 DEF Next
  <2>6. ASSUME NEW q \in Requests PROVE Steps(req'[q].pc) <= Steps(req[q].pc)
    <3>1. CASE req'[q].pc = req[q].pc
      <4>1. Steps(req'[q].pc) = Steps(req[q].pc)
        BY <3>1
      <4> QED
        BY <2>3, <4>1
    <3>2. CASE Ask(q) \/ Serve(q) \/ Drain(q)
      <4>1. /\ Steps(req'[q].pc) < Steps(req[q].pc)
            /\ Steps(req'[q].pc) \in Nat /\ Steps(req[q].pc) \in Nat
        BY <1>1, <2>3, <3>2, RequestNearer
      <4> QED
        BY <4>1
    <3> QED
      BY <2>4, <3>1, <3>2
  <2>7. ASSUME NEW c \in Closers
        PROVE  CloserSteps(closer'[c].pc) <= CloserSteps(closer[c].pc)
    <3>1. CASE closer'[c].pc = closer[c].pc
      <4>1. CloserSteps(closer'[c].pc) = CloserSteps(closer[c].pc)
        BY <3>1
      <4> QED
        BY <2>3, <4>1
    <3>2. CASE AskClose(c) \/ Close(c)
      <4>1. /\ CloserSteps(closer'[c].pc) < CloserSteps(closer[c].pc)
            /\ CloserSteps(closer'[c].pc) \in Nat
            /\ CloserSteps(closer[c].pc) \in Nat
        BY <1>1, <2>3, <3>2, CloserNearer
      <4> QED
        BY <4>1
    <3>3. CASE closer[c].pc = "draining" /\ closer'[c].pc = "closing"
      BY <3>3 DEF CloserSteps
    <3> QED
      BY <2>5, <3>1, <3>2, <3>3
  <2> QED
    BY <2>1, <2>2, <2>6, <2>7
<1>2. IInv /\ [Next]_vars => [Nearer]_vars
  BY <1>1
<1> HIDE DEF Nearer
<1>3. Safety => [][Nearer]_vars
  BY <1>2, InductiveInvariant, PTL DEF Safety
<1> QED
  BY <1>3 DEF RequestsAdvance, Nearer
=============================================================================
