--------------------------- MODULE UnitSupervise ---------------------------
(***************************************************************************)
(* The life of daemons from their first start to their stop, or to the     *)
(* shutdown.  Per unit there are up to four actors, which share processData*)
(* and are not all kept apart by a lock:                                   *)
(*   - the starter, a thread inside startProcess and execProcess;          *)
(*   - the listener, the detached thread of listenPipe, which reads the    *)
(*     deaths from the pipe of the unit, runs the failure command and      *)
(*     restarts the daemon by running a starter;                           *)
(*   - the manager, what the main thread does for the unit: listenPipes,   *)
(*     startProcesses, later closePipes and stopProcesses;                 *)
(*   - the SIGCHLD handler, which may run in any thread, twice at a time,  *)
(*     and takes no lock.                                                  *)
(* The kernel keeps one SIGCHLD pending at most, with the data of the      *)
(* first child that died.  The cleaner reaps what nobody waited for.       *)
(***************************************************************************)
EXTENDS Integers, Sequences, FiniteSets

CONSTANTS Units,        \* the daemons
          Setups,       \* what the files of the units say, and what may happen to them
          ShowMax,      \* SHOW_MAX_RESULTS: the length of the history
          MaxForks      \* bound: forks of the command of a unit

(* Restart, RestartMax (-1 without one) and Failure; how the daemon may end*)
(* by itself; what may go wrong with a start or a stop; and the bound: how *)
(* often its command is forked, 0 when there is no such unit.              *)
PolicyType == [restart : BOOLEAN, max : Nat \cup {-1}, failure : BOOLEAN,
               ends : SUBSET {"exit", "kill", "dump"},
               mayFail : SUBSET {"fork", "dependency", "conflict"},
               forks : 0..MaxForks]

ASSUME SuperviseAssumption ==
  /\ ShowMax \in Nat \ {0} /\ MaxForks \in Nat \ {0}
  /\ \A setup \in Setups : DOMAIN setup = Units /\ \A u \in Units : setup[u] \in PolicyType
-----------------------------------------------------------------------------
VARIABLES
  policy,       \* policy[u]: fixed by the file of u
  proc,         \* proc[u][n]: the n-th process forked for u, as the kernel knows it
  forks,        \* forks[u]: how many there have been
  pending,      \* the pending SIGCHLDs: none or one <<unit, process, cause>>
  handling,     \* the SIGCHLDs whose handler has found its unit and stored nothing yet
  storing,      \* those whose handler has stored the exit code only
  pid,          \* pid[u]: the process *pData->pid names, 0 for -1
  pState,       \* pState[u]: pData->pStateData->pState
  coded,        \* coded[u]: *pData->exitCode # -1
  finalStatus,  \* finalStatus[u]: *pData->finalStatus
  errors,       \* errors[u]: unit->errors is not empty
  restartNum,   \* restartNum[u]: unit->restartNum
  history,      \* history[u]: the size of unit->processDataHistory
  failureCode,  \* failureCode[u]: *unit->failureExitCode
  isStopping,   \* isStopping[u]: unit->isStopping
  pipe,         \* pipe[u]: what has been written to the pipe and not read yet
  unitLock,     \* unitLock[u]: unit->mutex is taken
  pipeLock,     \* pipeLock[u]: unit->pipe->mutex is taken
  starter, listener, manager,   \* where the threads of u are
  listening,    \* LISTEN_SOCK_REQUEST
  shutdown,     \* SHUTDOWN_COMMAND # NO_COMMAND
  recorded,     \* recorded[u]: how many deaths the handler has recorded (history)
  died,         \* died[u]: the last process that ended by itself (history)
  crashed,      \* crashed[u]: the last one that did after it had been started (history)
  handled,      \* handled[u]: the last one the failure command was executed for (history)
  merged        \* the processes whose SIGCHLD came while one was pending (history)

os     == <<proc, forks, pending>>
handler == <<handling, storing>>
pData  == <<pid, pState, coded, finalStatus>>
locks  == <<unitLock, pipeLock>>
unit   == <<errors, restartNum, history, failureCode, isStopping>>
flags  == <<listening, shutdown>>
past   == <<recorded, died, crashed, handled, merged>>
vars   == <<policy, os, handler, pData, unit, pipe, locks, starter, listener, manager,
            flags, past>>

PStates   == {"dead", "exited", "killed", "running", "restarting"}
Finals    == {"ready", "success", "failure"}
Codes     == {"unset", "ok", "bad"}
Signals   == Units \X (1..MaxForks) \X {"exit", "kill", "dump"}
Starters  == {"off", "lock", "fork", "pid", "poll", "check", "write", "evaluate", "succeed",
              "fail"}
Listeners == {"none", "begin", "read", "woken", "failure", "decide", "reset", "again", "gone"}
Managers  == {"new", "handshake", "starting", "serve", "closing", "test", "stopLock",
              "stopPoll", "stopClear", "stopSet", "stopEvaluate", "stopSucceed", "stopFail",
              "stopped"}

TypeOK ==
  /\ policy \in Setups
  /\ proc \in [Units -> [1..MaxForks -> {"none", "alive", "zombie", "reaped"}]]
  /\ forks \in [Units -> 0..MaxForks]
  /\ pending \subseteq Signals /\ Cardinality(pending) <= 1
  /\ handling \subseteq Signals /\ storing \subseteq Signals
  /\ pid \in [Units -> 0..MaxForks]
  /\ pState \in [Units -> PStates]
  /\ coded \in [Units -> BOOLEAN]
  /\ finalStatus \in [Units -> Finals]
  /\ errors \in [Units -> BOOLEAN]
  /\ restartNum \in [Units -> Nat]
  /\ history \in [Units -> 0..ShowMax]
  /\ failureCode \in [Units -> Codes]
  /\ isStopping \in [Units -> BOOLEAN]
  /\ pipe \in [Units -> Seq({"death", "exit"})]
  /\ unitLock \in [Units -> BOOLEAN] /\ pipeLock \in [Units -> BOOLEAN]
  /\ starter \in [Units -> Starters]
  /\ listener \in [Units -> Listeners]
  /\ manager \in [Units -> Managers]
  /\ listening \in BOOLEAN /\ shutdown \in BOOLEAN
  /\ recorded \in [Units -> Nat]
  /\ died \in [Units -> 0..MaxForks]
  /\ crashed \in [Units -> 0..MaxForks]
  /\ handled \in [Units -> 0..MaxForks]
  /\ merged \subseteq Units \X (1..MaxForks)

HasPipe(u) == policy[u].restart \/ policy[u].max > 0 \/ policy[u].failure

(* The units are started at boot, before the socket is listened to, or on  *)
(* request, after it is.                                                   *)
Init ==
  /\ policy \in Setups
  /\ proc = [u \in Units |-> [n \in 1..MaxForks |-> "none"]]
  /\ forks = [u \in Units |-> 0]
  /\ pending = {} /\ handling = {} /\ storing = {}
  /\ pid = [u \in Units |-> 0]
  /\ pState = [u \in Units |-> "dead"]
  /\ coded = [u \in Units |-> FALSE]
  /\ finalStatus = [u \in Units |-> "ready"]
  /\ errors = [u \in Units |-> FALSE]
  /\ restartNum = [u \in Units |-> 0]
  /\ history = [u \in Units |-> 0]
  /\ failureCode = [u \in Units |-> "unset"]
  /\ isStopping = [u \in Units |-> FALSE]
  /\ pipe = [u \in Units |-> <<>>]
  /\ unitLock = [u \in Units |-> FALSE] /\ pipeLock = [u \in Units |-> FALSE]
  /\ starter = [u \in Units |-> "off"]
  /\ listener = [u \in Units |-> "none"]
  /\ manager = [u \in Units |-> IF policy[u].forks = 0 THEN "stopped" ELSE "new"]
  /\ listening \in BOOLEAN /\ shutdown = FALSE
  /\ recorded = [u \in Units |-> 0]
  /\ died = [u \in Units |-> 0]
  /\ crashed = [u \in Units |-> 0]
  /\ handled = [u \in Units |-> 0]
  /\ merged = {}

(* One of the threads of u moves from one program point to another. *)
Goto(thread, u, from, to) == thread[u] = from /\ thread' = [thread EXCEPT ![u] = to]

(* A process ends: its parent gets a SIGCHLD, unless one is pending already. *)
End(u, n, cause, left) ==
  /\ proc' = [proc EXCEPT ![u][n] = left]
  /\ pending' = IF pending = {} THEN {<<u, n, cause>>} ELSE pending
  /\ merged' = IF pending = {} THEN merged ELSE merged \cup {<<u, n>>}

(* What waitpid(n, WNOHANG) does to a child n that has ended. *)
Reap(u, n) ==
  proc' = IF n > 0 /\ proc[u][n] = "zombie" THEN [proc EXCEPT ![u][n] = "reaped"] ELSE proc
-----------------------------------------------------------------------------
(* execProcess, called by startProcess: by the manager first, by the       *)
(* listener later.                                                         *)

(* The mutex of the unit is kept until the final status is announced; a    *)
(* unit with errors is not executed.                                       *)
StartLock(u) ==
  /\ Goto(starter, u, "lock", IF errors[u] THEN "evaluate" ELSE "fork")
  /\ ~unitLock[u]
  /\ unitLock' = [unitLock EXCEPT ![u] = TRUE]
  /\ finalStatus' = IF errors[u] THEN [finalStatus EXCEPT ![u] = "failure"] ELSE finalStatus
  /\ UNCHANGED <<policy, os, handler, pid, pState, coded, unit, pipe, pipeLock, listener,
                 manager, flags, past>>

Fork(u) ==
  /\ Goto(starter, u, "fork", "pid")
  /\ forks' = [forks EXCEPT ![u] = @ + 1]
  /\ proc' = [proc EXCEPT ![u][forks[u] + 1] = "alive"]
  /\ UNCHANGED <<policy, pending, handler, pData, unit, pipe, locks, listener, manager, flags,
                 past>>

ForkFails(u) ==
  /\ "fork" \in policy[u].mayFail
  /\ Goto(starter, u, "fork", "evaluate")
  /\ coded' = [coded EXCEPT ![u] = TRUE]
  /\ UNCHANGED <<policy, os, handler, pid, pState, finalStatus, unit, pipe, locks, listener,
                 manager, flags, past>>

(* startProcess gives up before the fork when a conflict is active or a    *)
(* dependency has no success; only then is the state set.                  *)
StartAborts(u) ==
  /\ Goto(starter, u, "fork", "evaluate")
  /\ \E why \in policy[u].mayFail \cap {"dependency", "conflict"} :
       pState' = IF why = "dependency" THEN [pState EXCEPT ![u] = "dead"] ELSE pState
  /\ errors' = [errors EXCEPT ![u] = TRUE]
  /\ finalStatus' = [finalStatus EXCEPT ![u] = "failure"]
  /\ UNCHANGED <<policy, os, handler, pid, coded, restartNum, history, failureCode, isStopping,
                 pipe, locks, listener, manager, flags, past>>

(* The handler finds a unit by its pid, which it has from here on. *)
SetPid(u) ==
  /\ Goto(starter, u, "pid", "poll")
  /\ pid' = [pid EXCEPT ![u] = forks[u]]
  /\ UNCHANGED <<policy, os, handler, pState, coded, finalStatus, unit, pipe, locks, listener,
                 manager, flags, past>>

(* A daemon is polled once; one that has ended is reaped, and no more.     *)
Poll(u) ==
  /\ Goto(starter, u, "poll", IF proc[u][forks[u]] = "alive" THEN "check" ELSE "evaluate")
  /\ Reap(u, forks[u])
  /\ UNCHANGED <<policy, forks, pending, handler, pData, unit, pipe, locks, listener, manager,
                 flags, past>>

(* The test that the handler has recorded nothing, and then the write.     *)
Check(u) ==
  /\ Goto(starter, u, "check", IF pState[u] \in {"dead", "restarting"} /\ ~coded[u]
                               THEN "write" ELSE "evaluate")
  /\ UNCHANGED <<policy, os, handler, pData, unit, pipe, locks, listener, manager, flags, past>>

WriteRunning(u) ==
  /\ Goto(starter, u, "write", "evaluate")
  /\ pState' = [pState EXCEPT ![u] = "running"]
  /\ UNCHANGED <<policy, os, handler, pid, coded, finalStatus, unit, pipe, locks, listener,
                 manager, flags, past>>

(* Seeded bug: the exit code that the handler may have set is not tested. *)
BugIsUp(u) == pid[u] # 0 /\ pState[u] = "running"

IsUp(u) == pid[u] # 0 /\ ~coded[u] /\ pState[u] = "running"

Evaluate(u) ==
  /\ Goto(starter, u, "evaluate", IF IsUp(u) THEN "succeed" ELSE "fail")
  /\ UNCHANGED <<policy, os, handler, pData, unit, pipe, locks, listener, manager, flags, past>>

(* The result of that test is written, the mutex is released, and whoever  *)
(* joins the starter goes on.                                              *)
Announce(u) ==
  /\ \/ Goto(starter, u, "succeed", "off") /\ finalStatus' = [finalStatus EXCEPT ![u] = "success"]
     \/ Goto(starter, u, "fail", "off") /\ finalStatus' = [finalStatus EXCEPT ![u] = "failure"]
  /\ unitLock' = [unitLock EXCEPT ![u] = FALSE]
  /\ manager' = IF manager[u] = "starting" THEN [manager EXCEPT ![u] = "serve"] ELSE manager
  /\ listener' = IF listener[u] = "again" THEN [listener EXCEPT ![u] = "read"] ELSE listener
  /\ UNCHANGED <<policy, os, handler, pid, pState, coded, unit, pipe, pipeLock, flags, past>>

Starter(u) ==
  \/ StartLock(u) \/ Fork(u) \/ ForkFails(u) \/ StartAborts(u) \/ SetPid(u) \/ Poll(u) \/ Check(u)
  \/ WriteRunning(u) \/ Evaluate(u) \/ Announce(u)
-----------------------------------------------------------------------------
(* The daemons, the handler and the cleaner. *)

Up(u) == starter[u] = "off" /\ manager[u] = "serve" /\ ~shutdown

(* The current process of u ends by itself; the last one that the bound    *)
(* allows does not.                                                        *)
Die(u) ==
  /\ forks[u] \in 1..(policy[u].forks - 1)
  /\ proc[u][forks[u]] = "alive"
  /\ \E cause \in policy[u].ends : End(u, forks[u], cause, "zombie")
  /\ died' = [died EXCEPT ![u] = forks[u]]
  /\ crashed' = IF Up(u) THEN [crashed EXCEPT ![u] = forks[u]] ELSE crashed
  /\ UNCHANGED <<policy, forks, handler, pData, unit, pipe, locks, starter, listener, manager,
                 flags, recorded, handled>>

(* The handler looks for the unit that has the pid.  Without one, with a   *)
(* unit that is being stopped, and in the shutdown, it does nothing.       *)
Catch(s) ==
  /\ s \in pending
  /\ pending' = {}
  /\ storing' = storing
  /\ handling' = IF ~shutdown /\ pid[s[1]] = s[2] /\ ~isStopping[s[1]]
                 THEN handling \cup {s} ELSE handling
  /\ UNCHANGED <<policy, proc, forks, pData, unit, pipe, locks, starter, listener, manager, flags,
                 past>>

(* Seeded bug: a missing break makes the handler write twice. *)
BugReported(u) == pipe[u] \o <<"death", "death">>

(* The pipe of u with one more death to deal with. *)
Reported(u) == Append(pipe[u], "death")

(* The dead process is reaped and its exit code stored: -1 when it has     *)
(* been killed ...                                                         *)
RecordCode(s) ==
  /\ s \in handling /\ s[3] \in {"exit", "kill"}
  /\ handling' = handling \ {s} /\ storing' = storing \cup {s}
  /\ Reap(s[1], s[2])
  /\ coded' = [coded EXCEPT ![s[1]] = (s[3] = "exit")]
  /\ UNCHANGED <<policy, forks, pending, pid, pState, finalStatus, unit, pipe, locks, starter,
                 listener, manager, flags, past>>

(* ... then its state, and the death is reported to the listener. *)
Record(s) ==
  LET u == s[1] IN
  /\ s \in storing
  /\ storing' = storing \ {s}
  /\ finalStatus' = [finalStatus EXCEPT ![u] = "failure"]
  /\ pState' = [pState EXCEPT ![u] = IF s[3] = "exit" THEN "exited" ELSE "killed"]
  /\ pipe' = IF HasPipe(u) THEN [pipe EXCEPT ![u] = Reported(u)] ELSE pipe
  /\ recorded' = [recorded EXCEPT ![u] = @ + 1]
  /\ UNCHANGED <<policy, os, handling, pid, coded, unit, locks, starter, listener, manager, flags,
                 died, crashed, handled, merged>>

(* There is no case for a process that dumped its core. *)
RecordNothing(s) ==
  /\ s \in handling
  /\ s[3] = "dump"
  /\ handling' = handling \ {s} /\ storing' = storing
  /\ UNCHANGED <<policy, os, pData, unit, pipe, locks, starter, listener, manager, flags, past>>

Clean ==
  /\ listening /\ ~shutdown
  /\ \E u \in Units, n \in 1..MaxForks : proc[u][n] = "zombie"
  /\ proc' = [u \in Units |-> [n \in 1..MaxForks |->
                IF proc[u][n] = "zombie" THEN "reaped" ELSE proc[u][n]]]
  /\ UNCHANGED <<policy, forks, pending, handler, pData, unit, pipe, locks, starter, listener,
                 manager, flags, past>>

Handler(s) == Catch(s) \/ RecordCode(s) \/ Record(s) \/ RecordNothing(s)
-----------------------------------------------------------------------------
(* listenPipe. *)

(* The thread takes the mutex of the pipe, for as long as it lives, and    *)
(* then releases the mutex of the unit that listenPipes has taken for it.  *)
ListenerBegins(u) ==
  /\ Goto(listener, u, "begin", "read")
  /\ ~pipeLock[u]
  /\ pipeLock' = [pipeLock EXCEPT ![u] = TRUE]
  /\ unitLock' = [unitLock EXCEPT ![u] = FALSE]
  /\ UNCHANGED <<policy, os, handler, pData, unit, pipe, starter, manager, flags, past>>

Leave(u, from) == Goto(listener, u, from, "gone") /\ pipeLock' = [pipeLock EXCEPT ![u] = FALSE]

ReadDeath(u) ==
  /\ Goto(listener, u, "read", "woken")
  /\ pipe[u] # <<>> /\ Head(pipe[u]) = "death"
  /\ pipe' = [pipe EXCEPT ![u] = Tail(@)]
  /\ UNCHANGED <<policy, os, handler, pData, unit, locks, starter, manager, flags, past>>

ReadExit(u) ==
  /\ Leave(u, "read")
  /\ pipe[u] # <<>> /\ Head(pipe[u]) = "exit"
  /\ pipe' = [pipe EXCEPT ![u] = Tail(@)]
  /\ UNCHANGED <<policy, os, handler, pData, unit, unitLock, starter, manager, flags, past>>

(* Seeded bug: a death that is read before the system is up is dropped. *)
BugWoken(u) ==
  /\ ~shutdown
  /\ Goto(listener, u, "woken", IF ~listening THEN "read"
                               ELSE IF policy[u].failure THEN "failure" ELSE "decide")
  /\ UNCHANGED <<policy, os, handler, pData, unit, pipe, locks, starter, manager, flags, past>>

(* A death is dealt with once the system is up ... *)
Woken(u) ==
  /\ listening /\ ~shutdown
  /\ Goto(listener, u, "woken", IF policy[u].failure THEN "failure" ELSE "decide")
  /\ UNCHANGED <<policy, os, handler, pData, unit, pipe, locks, starter, manager, flags, past>>

(* ... and not any more once it is going down. *)
WokenByShutdown(u) ==
  /\ shutdown
  /\ Leave(u, "woken")
  /\ UNCHANGED <<policy, os, handler, pData, unit, pipe, unitLock, starter, manager, flags, past>>

(* What an execution of the failure command may come to - it ends well,    *)
(* badly, or is lost to a signal or to the cleaner, which leaves an        *)
(* arbitrary status -: what execFailure returns, and what failureExitCode  *)
(* is then.  That is never reset: a code which is set already is returned, *)
(* unless the handler stores the code of this execution in time.           *)
FailureOutcomes(u) ==
  {[told |-> status, code |-> status] : status \in {"ok", "bad"}}
  \cup (IF "fork" \in policy[u].mayFail THEN {[told |-> "bad", code |-> failureCode[u]]} ELSE {})

RunFailure(u) ==
  /\ Goto(listener, u, "failure", "decide")
  /\ \E outcome \in FailureOutcomes(u) :
       /\ failureCode' = [failureCode EXCEPT ![u] = outcome.code]
       /\ errors' = [errors EXCEPT ![u] = @ \/ outcome.told = "bad"]
  /\ handled' = [handled EXCEPT ![u] = forks[u]]
  /\ UNCHANGED <<policy, os, handler, pData, restartNum, history, isStopping, pipe, locks,
                 starter, manager, flags, recorded, died, crashed, merged>>

(* Seeded bug: the limit is compared once too often. *)
BugRestarts(u) ==
  \/ policy[u].max > 0 /\ restartNum[u] <= policy[u].max
  \/ policy[u].max = -1 /\ policy[u].restart

(* Seeded bug: Restart counts only together with a limit. *)
BugRestartsLimited(u) == policy[u].max > 0 /\ restartNum[u] < policy[u].max

Restarts(u) ==
  \/ policy[u].max > 0 /\ restartNum[u] < policy[u].max
  \/ policy[u].max = -1 /\ policy[u].restart

Decide(u) ==
  /\ Restarts(u)
  /\ Goto(listener, u, "decide", "reset")
  /\ UNCHANGED <<policy, os, handler, pData, unit, pipe, locks, starter, manager, flags, past>>

GiveUp(u) ==
  /\ ~Restarts(u)
  /\ Leave(u, "decide")
  /\ UNCHANGED <<policy, os, handler, pData, unit, pipe, unitLock, starter, manager, flags, past>>

(* Seeded bug: the oldest entry is dropped one entry too late. *)
BugHistorySize(u) == IF restartNum[u] > ShowMax THEN history[u] ELSE history[u] + 1

(* The size of the history when the data of one more process are added: it *)
(* drops its oldest entry when it is full.                                 *)
HistorySize(u) == IF restartNum[u] >= ShowMax THEN history[u] ELSE history[u] + 1

(* Under the mutex of the unit the data of the dead process go to the      *)
(* history and are reset.                                                  *)
Reset(u) ==
  /\ Goto(listener, u, "reset", "again")
  /\ ~unitLock[u]
  /\ history' = [history EXCEPT ![u] = HistorySize(u)]
  /\ restartNum' = [restartNum EXCEPT ![u] = @ + 1]
  /\ pid' = [pid EXCEPT ![u] = 0]
  /\ pState' = [pState EXCEPT ![u] = "restarting"]
  /\ coded' = [coded EXCEPT ![u] = FALSE]
  /\ finalStatus' = [finalStatus EXCEPT ![u] = "ready"]
  /\ UNCHANGED <<policy, os, handler, errors, failureCode, isStopping, pipe, locks, starter,
                 manager, flags, past>>

(* The daemon is started again, unless the shutdown has begun. *)
Again(u) ==
  /\ listener[u] = "again" /\ ~shutdown
  /\ Goto(starter, u, "off", "lock")
  /\ UNCHANGED <<policy, os, handler, pData, unit, pipe, locks, listener, manager, flags, past>>

NotAgain(u) ==
  /\ shutdown /\ starter[u] = "off"
  /\ Goto(listener, u, "again", "read")
  /\ UNCHANGED <<policy, os, handler, pData, unit, pipe, locks, starter, manager, flags, past>>

Listener(u) ==
  \/ ListenerBegins(u) \/ ReadDeath(u) \/ ReadExit(u) \/ Woken(u) \/ WokenByShutdown(u)
  \/ RunFailure(u) \/ Decide(u) \/ GiveUp(u) \/ Reset(u) \/ Again(u) \/ NotAgain(u)
-----------------------------------------------------------------------------
(* listenPipes, startProcesses, closePipes and stopProcesses. *)

(* A unit with a pipe gets its listener first: the mutex of the unit is    *)
(* taken for it, and taken again to know that it has the pipe.             *)
Listen(u) ==
  /\ HasPipe(u) /\ ~unitLock[u]
  /\ Goto(manager, u, "new", "handshake")
  /\ unitLock' = [unitLock EXCEPT ![u] = TRUE]
  /\ listener' = [listener EXCEPT ![u] = "begin"]
  /\ UNCHANGED <<policy, os, handler, pData, unit, pipe, pipeLock, starter, flags, past>>

(* The daemon is started, by the starter that the manager joins. *)
StartFrom(u, from) ==
  /\ Goto(manager, u, from, "starting")
  /\ starter' = [starter EXCEPT ![u] = "lock"]
  /\ UNCHANGED <<policy, os, handler, pData, unit, pipe, locks, listener, flags, past>>

Start(u) == \/ ~HasPipe(u) /\ StartFrom(u, "new")
            \/ ~unitLock[u] /\ StartFrom(u, "handshake")

ListenSocket ==
  /\ ~listening /\ ~shutdown
  /\ \A u \in Units : manager[u] \in {"serve", "stopped"}
  /\ listening' = TRUE
  /\ UNCHANGED <<policy, os, handler, pData, unit, pipe, locks, starter, listener, manager,
                 shutdown, past>>

Shutdown ==
  /\ ~shutdown /\ shutdown' = TRUE
  /\ UNCHANGED <<policy, os, handler, pData, unit, pipe, locks, starter, listener, manager,
                 listening, past>>

(* Seeded bug: the listener of a daemon that is not up is forgotten. *)
BugDismissed(u) == IF pState[u] = "running" THEN Append(pipe[u], "exit") ELSE pipe[u]

(* The pipe of u when its listener has been told to leave. *)
Dismissed(u) == Append(pipe[u], "exit")

(* closePipe: the listener is told to leave ... *)
Close(u) ==
  /\ Goto(manager, u, "serve", IF HasPipe(u) THEN "closing" ELSE "test")
  /\ pipe' = IF HasPipe(u) THEN [pipe EXCEPT ![u] = Dismissed(u)] ELSE pipe
  /\ UNCHANGED <<policy, os, handler, pData, unit, locks, starter, listener, flags, past>>

(* ... because a request stops one unit, the main thread serving one       *)
(* request at a time, or because of the shutdown ...                       *)
StopRequest(u) ==
  /\ listening /\ ~shutdown
  /\ \A v \in Units : manager[v] \in {"serve", "stopped"}
  /\ Close(u)

CloseAtShutdown(u) == shutdown /\ Close(u)

(* Seeded bug: the listener is not waited for. *)
BugClosed(u) ==
  /\ Goto(manager, u, "closing", "test")
  /\ UNCHANGED <<policy, os, handler, pData, unit, pipe, locks, starter, listener, flags, past>>

(* ... and awaited: it releases the mutex of the pipe when it leaves. *)
Closed(u) ==
  /\ Goto(manager, u, "closing", "test")
  /\ ~pipeLock[u]
  /\ UNCHANGED <<policy, os, handler, pData, unit, pipe, locks, starter, listener, flags, past>>

(* Only a unit that is running is stopped; a request hides it from the     *)
(* handler.                                                                *)
Test(u) ==
  /\ Goto(manager, u, "test", IF pState[u] = "running" THEN "stopLock" ELSE "stopped")
  /\ isStopping' = [isStopping EXCEPT ![u] = @ \/ (pState[u] = "running" /\ ~shutdown)]
  /\ UNCHANGED <<policy, os, handler, pData, errors, restartNum, history, failureCode, pipe,
                 locks, starter, listener, flags, past>>

StopLock(u) ==
  /\ Goto(manager, u, "stopLock", "stopPoll")
  /\ ~unitLock[u]
  /\ unitLock' = [unitLock EXCEPT ![u] = TRUE]
  /\ UNCHANGED <<policy, os, handler, pData, unit, pipe, pipeLock, starter, listener, flags, past>>

(* stopDaemon waits for one second for the process to end, after SIGTERM   *)
(* or the stop command, and reaps it ...                                   *)
StopPoll(u) ==
  /\ Goto(manager, u, "stopPoll", "stopClear")
  /\ pid[u] > 0 => proc[u][pid[u]] # "alive"
  /\ Reap(u, pid[u])
  /\ UNCHANGED <<policy, forks, pending, handler, pData, unit, pipe, locks, starter, listener,
                 flags, past>>

(* ... or kills it, and may be too early to reap it ... *)
StopKill(u) ==
  /\ Goto(manager, u, "stopPoll", "stopClear")
  /\ pid[u] > 0 /\ proc[u][pid[u]] = "alive"
  /\ \E left \in {"zombie", "reaped"} : End(u, pid[u], "kill", left)
  /\ UNCHANGED <<policy, forks, handler, pData, unit, pipe, locks, starter, listener, flags,
                 recorded, died, crashed, handled>>

(* ... or leaves it alone, when the stop command cannot be forked. *)
StopForkFails(u) ==
  /\ "fork" \in policy[u].mayFail
  /\ Goto(manager, u, "stopPoll", "stopEvaluate")
  /\ pid[u] > 0 /\ proc[u][pid[u]] = "alive"
  /\ coded' = [coded EXCEPT ![u] = TRUE]
  /\ UNCHANGED <<policy, os, handler, pid, pState, finalStatus, unit, pipe, locks, starter,
                 listener, flags, past>>

StopClear(u) ==
  /\ Goto(manager, u, "stopClear", "stopSet")
  /\ coded' = [coded EXCEPT ![u] = FALSE]
  /\ UNCHANGED <<policy, os, handler, pid, pState, finalStatus, unit, pipe, locks, starter,
                 listener, flags, past>>

StopSet(u) ==
  /\ Goto(manager, u, "stopSet", "stopEvaluate")
  /\ pState' = [pState EXCEPT ![u] = "dead"]
  /\ UNCHANGED <<policy, os, handler, pid, coded, finalStatus, unit, pipe, locks, starter,
                 listener, flags, past>>

StopEvaluate(u) ==
  /\ Goto(manager, u, "stopEvaluate",
          IF ~coded[u] /\ pid[u] # 0 /\ pState[u] = "dead" THEN "stopSucceed" ELSE "stopFail")
  /\ UNCHANGED <<policy, os, handler, pData, unit, pipe, locks, starter, listener, flags, past>>

StopEnd(u) ==
  /\ \/ Goto(manager, u, "stopSucceed", "stopped")
        /\ finalStatus' = [finalStatus EXCEPT ![u] = "success"]
     \/ Goto(manager, u, "stopFail", "stopped")
        /\ finalStatus' = [finalStatus EXCEPT ![u] = "failure"]
  /\ unitLock' = [unitLock EXCEPT ![u] = FALSE]
  /\ UNCHANGED <<policy, os, handler, pid, pState, coded, unit, pipe, pipeLock, starter, listener,
                 flags, past>>

Manager(u) ==
  \/ Listen(u) \/ Start(u) \/ CloseAtShutdown(u) \/ Closed(u) \/ Test(u) \/ StopLock(u)
  \/ StopPoll(u) \/ StopKill(u) \/ StopForkFails(u) \/ StopClear(u) \/ StopSet(u)
  \/ StopEvaluate(u) \/ StopEnd(u)
-----------------------------------------------------------------------------
(* Every thread of u waits for a death, a request or nothing at all. *)
AtRest(u) ==
  /\ starter[u] = "off"
  /\ listener[u] \in {"none", "gone"} \/ (listener[u] = "read" /\ pipe[u] = <<>>)
  /\ manager[u] \in {"serve", "stopped"}

(* No SIGCHLD is on its way and every thread waits.  The loop keeps TLC    *)
(* from calling it a deadlock; any other end would be one.                 *)
Quiet == pending = {} /\ handling = {} /\ storing = {} /\ \A u \in Units : AtRest(u)

Idle == Quiet /\ UNCHANGED vars

Next ==
  \/ \E u \in Units : Starter(u) \/ Listener(u) \/ Manager(u) \/ StopRequest(u) \/ Die(u)
  \/ \E s \in Signals : Handler(s)
  \/ Clean \/ ListenSocket \/ Shutdown
  \/ Idle

Spec == Init /\ [][Next]_vars

(* Threads are scheduled, signals are delivered, commands end, and boot    *)
(* goes on to the socket.  Nobody has to die, to stop a unit or to shut    *)
(* the system down.                                                        *)
Fairness ==
  /\ \A u \in Units : WF_vars(Starter(u)) /\ WF_vars(Listener(u)) /\ WF_vars(Manager(u))
  /\ \A s \in Signals : WF_vars(Handler(s))
  /\ WF_vars(ListenSocket)

FairSpec == Spec /\ Fairness
-----------------------------------------------------------------------------
(* A daemon never has two processes: it is forked again only when the one  *)
(* before has ended (process.c:577-606, commands.c:93-125).                *)
OneProcess ==
  \A u \in Units : Cardinality({n \in 1..MaxForks : proc[u][n] = "alive"}) <= 1

(* A unit that has been stopped, and is not shown as running because the   *)
(* stop command could not be forked, stays down: no process is left, and no*)
(* thread that could start one (process.c:706-744, socket_server.c:469-499,*)
(* init.c:211-212).                                                        *)
StoppedIsDown ==
  \A u \in Units : manager[u] = "stopped" /\ pState[u] # "running" =>
    /\ \A n \in 1..MaxForks : proc[u][n] # "alive"
    /\ starter[u] = "off"
    /\ listener[u] \in {"none", "gone"}

(* Every recorded death makes for one restart, no more and no less: those  *)
(* made and those in the pipe add up to the deaths (signals.c:48-104,      *)
(* process.c:547-606).                                                     *)
Deaths(u) == Cardinality({i \in DOMAIN pipe[u] : pipe[u][i] = "death"})

DeathsAddUp ==
  \A u \in Units : HasPipe(u) /\ listener[u] \in {"begin", "read"} =>
    recorded[u] = restartNum[u] + Deaths(u)

(* RestartMax is never exceeded, a daemon without Restart never restarted, *)
(* and the history is as long as it may be (process.c:577-599).            *)
RestartsBounded ==
  \A u \in Units :
    /\ policy[u].max >= 0 => restartNum[u] <= policy[u].max
    /\ policy[u].max = -1 /\ ~policy[u].restart => restartNum[u] = 0
    /\ history[u] = IF restartNum[u] < ShowMax THEN restartNum[u] ELSE ShowMax

(* Once nothing is on its way, a daemon shown as running with success has  *)
(* a process, although RUNNING is written after the test that nothing has  *)
(* been recorded (commands.c:117-125, process.c:192-197), unless its death *)
(* was merged with the one of another child.  In the shutdown the handler  *)
(* ignores the deaths on purpose, and of a kill it keeps no exit code.     *)
SuccessIsAlive ==
  Quiet /\ ~shutdown => \A u \in Units :
    /\ policy[u].ends = {"exit"} /\ <<u, forks[u]>> \notin merged
    /\ finalStatus[u] = "success" /\ pState[u] = "running"
    => proc[u][pid[u]] = "alive"

(* A recorded death of a daemon with Restart leads to a new process, or to *)
(* an error or the end (process.c:547-606).                                *)
Ending(u) == shutdown \/ manager[u] \notin {"handshake", "starting", "serve"}

RecordedIsRestarted ==
  \A u \in Units : \A k \in 1..MaxForks :
    recorded[u] >= k /\ policy[u].restart /\ policy[u].max = -1
      ~> forks[u] > k \/ errors[u] \/ Ending(u)

(* A shutdown comes to its end: every listener leaves and every unit is    *)
(* stopped, whatever they were doing (init.c:196-212, process.c:547-606).  *)
ShutdownCompletes == shutdown ~> \A u \in Units : manager[u] = "stopped"
-----------------------------------------------------------------------------
(* "The first method (Restart) will cause a restarting until the unit will *)
(* properly starts" (README.md:258): a daemon with Restart that ends by    *)
(* itself is executed again, unless it is being stopped.                   *)
RestartPromised ==
  \A u \in Units : \A k \in 1..MaxForks :
    died[u] = k /\ policy[u].restart /\ policy[u].max = -1 ~> forks[u] > k \/ Ending(u)

(* "About the daemon units, the failure command will be also executed if a *)
(* daemon crashes or signaled for some reason" (README.md:162): even of    *)
(* the daemons that crash when they are well started.                      *)
FailurePromised ==
  \A u \in Units : \A k \in 1..MaxForks :
    crashed[u] = k /\ policy[u].failure ~> handled[u] >= k \/ Ending(u)
=============================================================================
