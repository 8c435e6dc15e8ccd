---------------------------- MODULE UnitTrigger ----------------------------
(***************************************************************************)
(* A timer and a path unit: units that start the unit of the same name,    *)
(* when a period has elapsed or when the file system has changed.  Each has*)
(* a thread that keeps the mutex of its pipe as long as it lives and starts*)
(* its unit under START_MUTEX; the expiration of a timer is a thread of its*)
(* own, which the kernel makes; the main thread stops, starts and restarts *)
(* both on request and stops them in the shutdown.  The next time of a     *)
(* timer is the name of a file, which outlives a loss of power.            *)
(***************************************************************************)
EXTENDS Integers, Sequences, FiniteSets

CONSTANTS Interval,     \* seconds from one expiration of the timer to the next
          Setups        \* the units there are, and the bounds of what happens to them

SetupType == [units : SUBSET {"timer", "path"},
              kinds : SUBSET {"stop", "start", "restart"},  \* what clients ask for
              level : BOOLEAN,     \* the path unit watches a state (PathExists,
                                   \* PathDirectoryNotEmpty) and not the names of the
                                   \* events (PathExistsGlob, PathResourceChanged)
              time : Nat, changes : Nat, requests : Nat, boots : Nat \ {0}]   \* bounds

ASSUME TriggerAssumption == Interval \in Nat \ {0} /\ Setups \subseteq SetupType

Units == {"timer", "path"}
None  == -1
-----------------------------------------------------------------------------
VARIABLES
  setup,
  now,          \* the clock, in seconds
  ticked,       \* it has advanced since the timer computed its next time
  listening,    \* LISTEN_SOCK_REQUEST
  shutdown,     \* SHUTDOWN_COMMAND # NO_COMMAND
  boots, requests, changes,   \* how many there have been (bounds)
  main,         \* where the main thread is, and what it does to which unit
  startMutex,   \* who has START_MUTEX
  present,      \* present[u]: the unit is in UNITD_DATA->units
  state,        \* state[u]: its pState
  pipe,         \* pipe[u]: what is in its pipe
  at,           \* at[u]: where its thread is
  pipeMutex,    \* pipeMutex[u]: its thread has the mutex of the pipe
  unitMutex,    \* the thread of the timer has the mutex of the unit
  looping,      \* the thread of the timer waits in its loop, or has done so
  nextTime, leftTime,
  deadline,     \* when the kernel's timer expires, None when it is not armed
  expiring,     \* expirations whose thread has not yet looked for the unit
  disk,         \* the files timer|next|<seconds>
  exists,       \* what the path unit watches exists
  queue,        \* the events inotify holds for the path unit
  buffer,       \* those its thread has read and not evaluated
  owed,         \* next times that were saved and not served (history)
  unserved,     \* a change nobody has served (history)
  late          \* late[u]: the unit was stopped before its thread had begun (history)

clock == <<now, ticked>>
flags == <<listening, shutdown, boots, requests, changes>>
units == <<present, state, pipe>>
locks == <<pipeMutex, unitMutex>>
timer == <<looping, nextTime, leftTime, deadline, expiring, disk>>
path  == <<exists, queue, buffer>>
past  == <<owed, unserved, late>>
vars  == <<setup, clock, flags, main, startMutex, units, at, locks, timer, path, past>>

Mains   == {"boot", "idle", "lock", "look", "stop", "close", "dead", "create", "down"}
Threads == {"none", "lock", "wait", "disk", "execute", "start", "started", "rearm", "next",
            "left", "clear", "touch", "arm", "read", "mark", "scan", "out"}
Events  == {"hit", "miss"}

TypeOK ==
  /\ setup \in Setups
  /\ now \in 0..setup.time /\ ticked \in BOOLEAN
  /\ listening \in BOOLEAN /\ shutdown \in BOOLEAN
  /\ boots \in 1..setup.boots /\ requests \in 0..setup.requests
  /\ changes \in 0..setup.changes
  /\ main \in [at : Mains, unit : Units, reset : BOOLEAN,
              kind : {"stop", "start", "restart", "shutdown"}]
  /\ startMutex \in {"free", "main"} \cup Units
  /\ present \in [Units -> BOOLEAN]
  /\ state \in [Units -> {"dead", "running", "restarting"}]
  /\ pipe \in [Units -> Seq({"expired", "exit"})]
  /\ at \in [Units -> Threads]
  /\ pipeMutex \in [Units -> BOOLEAN] /\ unitMutex \in BOOLEAN
  /\ looping \in BOOLEAN
  /\ nextTime \in Int /\ leftTime \in Int /\ deadline \in Nat \cup {None}
  /\ expiring \in Nat /\ disk \subseteq Nat
  /\ exists \in BOOLEAN /\ queue \in Seq(Events) /\ buffer \in Seq(Events)
  /\ owed \subseteq Nat /\ unserved \in BOOLEAN /\ late \in [Units -> BOOLEAN]

NoRequest == [at |-> "boot", unit |-> "timer", kind |-> "stop", reset |-> FALSE]

Init ==
  /\ setup \in Setups
  /\ now = 0 /\ ticked = FALSE
  /\ listening = FALSE /\ shutdown = FALSE
  /\ boots = 1 /\ requests = 0 /\ changes = 0
  /\ main = NoRequest /\ startMutex = "free"
  /\ present = [u \in Units |-> u \in setup.units]
  /\ state = [u \in Units |-> IF present[u] THEN "running" ELSE "dead"]
  /\ pipe = [u \in Units |-> <<>>]
  /\ at = [u \in Units |-> IF present[u] THEN "lock" ELSE "none"]
  /\ pipeMutex = [u \in Units |-> FALSE] /\ unitMutex = FALSE
  /\ looping = FALSE /\ nextTime = None /\ leftTime = None /\ deadline = None /\ expiring = 0
  /\ disk = {} /\ owed = {}
  /\ exists = FALSE /\ queue = <<>> /\ buffer = <<>>
  /\ unserved = FALSE /\ late = [u \in Units |-> FALSE]

(* PID 1 is gone, and what it had in memory: a loss of power, an assertion *)
(* that fails, a thread that uses the memory of a released unit.           *)
Halt ==
  /\ listening' = FALSE /\ shutdown' = FALSE
  /\ main' = [NoRequest EXCEPT !.at = "down"] /\ startMutex' = "free"
  /\ present' = [u \in Units |-> FALSE] /\ state' = [u \in Units |-> "dead"]
  /\ pipe' = [u \in Units |-> <<>>]
  /\ at' = [u \in Units |-> "none"]
  /\ pipeMutex' = [u \in Units |-> FALSE] /\ unitMutex' = FALSE
  /\ looping' = FALSE /\ nextTime' = None /\ leftTime' = None /\ deadline' = None
  /\ expiring' = 0
  /\ queue' = <<>> /\ buffer' = <<>>
  /\ unserved' = FALSE /\ late' = [u \in Units |-> FALSE]
  /\ UNCHANGED <<setup, clock, boots, requests, changes, disk, exists, owed>>

PowerLoss == main.at # "down" /\ boots < setup.boots /\ Halt

Boot ==
  /\ main.at = "down" /\ boots < setup.boots
  /\ boots' = boots + 1
  /\ main' = NoRequest
  /\ present' = [u \in Units |-> u \in setup.units]
  /\ state' = [u \in Units |-> IF u \in setup.units THEN "running" ELSE "dead"]
  /\ at' = [u \in Units |-> IF u \in setup.units THEN "lock" ELSE "none"]
  /\ UNCHANGED <<setup, clock, listening, shutdown, requests, changes, startMutex, pipe, locks,
                 timer, path, past>>

Goto(u, from, to) == at[u] = from /\ at' = [at EXCEPT ![u] = to]
-----------------------------------------------------------------------------
(* What the threads of both do. *)

(* The mutex of the pipe is kept until the thread ends.                    *)
Begin(u) ==
  /\ Goto(u, "lock", "wait")
  /\ ~pipeMutex[u]
  /\ pipeMutex' = [pipeMutex EXCEPT ![u] = TRUE]
  /\ UNCHANGED <<setup, clock, flags, main, startMutex, units, unitMutex, timer, path, past>>

WaitSystem(u) ==
  /\ listening \/ shutdown
  /\ Goto(u, "wait", IF shutdown THEN "out" ELSE IF u = "timer" THEN "disk" ELSE "read")
  /\ UNCHANGED <<setup, clock, flags, main, startMutex, units, locks, timer, path, past>>

(* Seeded bugs: the timer is not armed again after an execution; a timer is*)
(* shown as exited, like a oneshot; the execution is tried for ever.       *)
BugAfterServed(u)  == IF u = "path" \/ looping THEN "read" ELSE "next"
BugRunning(u)      == [state EXCEPT ![u] = "exited"]
BugAfterSkipped(u) == "execute"

(* Where the thread goes after executeUnit, and what it makes of its state *)
(* without a lock: served, or given up because of the shutdown (EUIDOWN).  *)
AfterServed(u)  == IF u = "path" THEN "read" ELSE IF looping THEN "rearm" ELSE "next"
AfterSkipped(u) == IF u = "path" \/ looping THEN "read" ELSE "out"

Running(u) == IF u = "path" \/ looping THEN [state EXCEPT ![u] = "running"] ELSE state

(* What is left of the events that have been read is dropped.              *)
Dropped(u) == IF u = "path" THEN <<>> ELSE buffer

(* The unit is not started when it is a daemon and runs ...                *)
AlreadyRunning(u) ==
  /\ Goto(u, "execute", AfterServed(u))
  /\ u = "path" \/ ~shutdown
  /\ state' = Running(u) /\ buffer' = Dropped(u)
  /\ owed' = IF u = "timer" THEN {} ELSE owed
  /\ unserved' = (unserved /\ u # "path")
  /\ UNCHANGED <<setup, clock, flags, main, startMutex, present, pipe, locks, timer, exists,
                 queue, late>>

(* ... nor in the shutdown; the thread of the timer then waits without a   *)
(* timer for the word to exit.                                             *)
GoingDown(u) ==
  /\ shutdown
  /\ Goto(u, "execute", AfterSkipped(u))
  /\ state' = IF u = "path" THEN Running(u) ELSE state
  /\ buffer' = Dropped(u)
  /\ UNCHANGED <<setup, clock, flags, main, startMutex, present, pipe, locks, timer, exists,
                 queue, past>>

Execute(u) ==
  /\ ~shutdown
  /\ Goto(u, "execute", "start")
  /\ UNCHANGED <<setup, clock, flags, main, startMutex, units, locks, timer, path, past>>

StartUnit(u) ==
  /\ Goto(u, "start", "started")
  /\ startMutex = "free" /\ startMutex' = u
  /\ unserved' = (unserved /\ u # "path")
  /\ UNCHANGED <<setup, clock, flags, main, units, locks, timer, path, owed, late>>

(* The start of the unit is over, well or badly. *)
Started(u) ==
  /\ Goto(u, "started", AfterServed(u))
  /\ startMutex' = "free"
  /\ state' = Running(u) /\ buffer' = Dropped(u)
  /\ owed' = IF u = "timer" THEN {} ELSE owed
  /\ UNCHANGED <<setup, clock, flags, main, present, pipe, locks, timer, exists, queue, unserved,
                 late>>

(* Seeded bug: the way out of the wait for the system forgets the mutex.   *)
BugOut(u) ==
  /\ Goto(u, "out", "none")
  /\ deadline' = IF u = "timer" THEN None ELSE deadline
  /\ pipeMutex' = [pipeMutex EXCEPT ![u] = ~listening]
  /\ UNCHANGED <<setup, clock, flags, main, startMutex, units, unitMutex, looping, nextTime,
                 leftTime, expiring, disk, path, past>>

Out(u) ==
  /\ Goto(u, "out", "none")
  /\ deadline' = IF u = "timer" THEN None ELSE deadline
  /\ pipeMutex' = [pipeMutex EXCEPT ![u] = FALSE]
  /\ UNCHANGED <<setup, clock, flags, main, startMutex, units, unitMutex, looping, nextTime,
                 leftTime, expiring, disk, path, past>>

ReadExit(u) ==
  /\ pipe[u] # <<>> /\ Head(pipe[u]) = "exit"
  /\ Goto(u, "read", "out")
  /\ pipe' = [pipe EXCEPT ![u] = Tail(@)]
  /\ UNCHANGED <<setup, clock, flags, main, startMutex, present, state, locks, timer, path, past>>
-----------------------------------------------------------------------------
(* The timer. *)

TimerStep(from, to) ==
  /\ Goto("timer", from, to)
  /\ UNCHANGED <<setup, listening, boots, requests, changes, main, startMutex, present, pipeMutex,
                 path, unserved, late>>

(* Seeded bug: what has fallen due while the system was down is skipped.   *)
BugFromDisk ==
  /\ \E next \in disk :
       /\ disk = {next}
       /\ nextTime' = next /\ leftTime' = next - now
       /\ TimerStep("disk", IF next > now THEN "arm" ELSE "next")
  /\ UNCHANGED <<clock, shutdown, state, pipe, unitMutex, looping, deadline, expiring, disk, owed>>

(* The next time comes from the one file that there is; when it has passed *)
(* the unit is executed first.                                             *)
FromDisk ==
  /\ \E next \in disk :
       /\ disk = {next}
       /\ nextTime' = next /\ leftTime' = next - now
       /\ TimerStep("disk", IF next > now THEN "arm" ELSE "execute")
  /\ UNCHANGED <<clock, shutdown, state, pipe, unitMutex, looping, deadline, expiring, disk, owed>>

NothingOnDisk ==
  /\ Cardinality(disk) # 1
  /\ TimerStep("disk", "next")
  /\ UNCHANGED <<clock, shutdown, state, pipe, unitMutex, timer, owed>>

Rearm ==
  /\ TimerStep("rearm", "next")
  /\ ~unitMutex /\ unitMutex' = TRUE
  /\ UNCHANGED <<clock, shutdown, state, pipe, timer, owed>>

(* setNextTimeFromInterval reads the clock twice, for the next time and for*)
(* the time that is left until then.                                       *)
NextTime ==
  /\ TimerStep("next", "left")
  /\ nextTime' = now + Interval /\ ticked' = FALSE
  /\ UNCHANGED <<now, shutdown, state, pipe, unitMutex, looping, leftTime, deadline, expiring,
                 disk, owed>>

(* Seeded bug: the timer is set for a second too little.                   *)
BugRemaining == nextTime - now - 1

Remaining == nextTime - now

LeftTime ==
  /\ TimerStep("left", "clear")
  /\ leftTime' = Remaining
  /\ UNCHANGED <<clock, shutdown, state, pipe, unitMutex, looping, nextTime, deadline, expiring,
                 disk, owed>>

(* The script "save-time" removes the old file and then makes the new one. *)
RemoveFile ==
  /\ TimerStep("clear", "touch")
  /\ disk' = {}
  /\ UNCHANGED <<clock, shutdown, state, pipe, unitMutex, looping, nextTime, leftTime, deadline,
                 expiring, owed>>

MakeFile ==
  /\ TimerStep("touch", "arm")
  /\ disk' = {nextTime} /\ owed' = {nextTime}
  /\ UNCHANGED <<clock, shutdown, state, pipe, unitMutex, looping, nextTime, leftTime, deadline,
                 expiring>>

(* When it fails, before or after the removal, the system goes down.       *)
SaveFails ==
  /\ \E from \in {"clear", "touch"} : TimerStep(from, IF looping THEN "arm" ELSE "out")
  /\ shutdown' = TRUE
  /\ UNCHANGED <<clock, state, pipe, unitMutex, timer, owed>>

(* timer_settime with no time left disarms the timer and with less fails.  *)
Arm ==
  /\ TimerStep("arm", "read")
  /\ deadline' = IF leftTime > 0 THEN now + leftTime ELSE None
  /\ shutdown' = (shutdown \/ leftTime < 0)
  /\ looping' = TRUE /\ unitMutex' = FALSE
  /\ UNCHANGED <<clock, state, pipe, nextTime, leftTime, expiring, disk, owed>>

ReadExpired ==
  /\ pipe["timer"] # <<>> /\ Head(pipe["timer"]) = "expired"
  /\ TimerStep("read", "mark")
  /\ pipe' = [pipe EXCEPT !["timer"] = Tail(@)]
  /\ deadline' = None
  /\ UNCHANGED <<clock, shutdown, state, unitMutex, looping, nextTime, leftTime, expiring, disk,
                 owed>>

Mark ==
  /\ TimerStep("mark", "execute")
  /\ ~unitMutex
  /\ state' = [state EXCEPT !["timer"] = "restarting"]
  /\ UNCHANGED <<clock, shutdown, pipe, unitMutex, timer, owed>>

(* The kernel makes a thread for each expiration ... *)
Expire ==
  /\ deadline # None /\ now >= deadline
  /\ deadline' = None /\ expiring' = expiring + 1
  /\ UNCHANGED <<setup, clock, flags, main, startMutex, units, at, locks, looping, nextTime,
                 leftTime, disk, path, past>>

(* ... which looks for the unit by its name, asserts that it is there, and *)
(* writes to its pipe.                                                     *)
Expired ==
  /\ expiring > 0 /\ present["timer"]
  /\ expiring' = expiring - 1
  /\ pipe' = IF shutdown THEN pipe ELSE [pipe EXCEPT !["timer"] = Append(@, "expired")]
  /\ UNCHANGED <<setup, clock, flags, main, startMutex, present, state, at, locks, looping,
                 nextTime, leftTime, deadline, disk, path, past>>

ExpiredAborts == expiring > 0 /\ ~present["timer"] /\ Halt

Timer ==
  \/ FromDisk \/ NothingOnDisk \/ Rearm \/ NextTime \/ LeftTime \/ RemoveFile \/ MakeFile
  \/ SaveFails \/ Arm \/ ReadExpired \/ Mark
-----------------------------------------------------------------------------
(* The path unit. *)

(* The pipe goes first; then all the events there are are read at once.    *)
ReadEvents ==
  /\ pipe["path"] = <<>> /\ queue # <<>>
  /\ Goto("path", "read", "scan")
  /\ buffer' = queue /\ queue' = <<>>
  /\ UNCHANGED <<setup, clock, flags, main, startMutex, units, locks, timer, exists, past>>

(* The state that is watched is tested now, whatever the event was.        *)
Hits(event) == IF setup.level THEN exists ELSE event = "hit"

(* Seeded bug: the first event alone decides. *)
BugRest == <<>>

Rest == Tail(buffer)

NoHit ==
  /\ at["path"] = "scan" /\ ~Hits(Head(buffer))
  /\ buffer' = Rest
  /\ at' = IF Rest = <<>> THEN [at EXCEPT !["path"] = "read"] ELSE at
  /\ UNCHANGED <<setup, clock, flags, main, startMutex, units, locks, timer, exists, queue, past>>

Hit ==
  /\ at["path"] = "scan" /\ Hits(Head(buffer))
  /\ Goto("path", "scan", "execute")
  /\ state' = [state EXCEPT !["path"] = "restarting"]
  /\ UNCHANGED <<setup, clock, flags, main, startMutex, present, pipe, locks, timer, path, past>>

PathUnit == ReadEvents \/ NoHit \/ Hit

Thread(u) ==
  \/ Begin(u) \/ WaitSystem(u) \/ AlreadyRunning(u) \/ GoingDown(u) \/ Execute(u) \/ StartUnit(u)
  \/ Started(u) \/ Out(u) \/ ReadExit(u)
  \/ u = "timer" /\ Timer
  \/ u = "path" /\ PathUnit
-----------------------------------------------------------------------------
(* The main thread: stopUnitServer, startUnitServer and stopProcess. *)

MainStep(from, to) == main.at = from /\ main' = [main EXCEPT !.at = to]

ListenSocket ==
  /\ ~shutdown
  /\ MainStep("boot", "idle")
  /\ listening' = TRUE
  /\ UNCHANGED <<setup, clock, shutdown, boots, requests, changes, startMutex, units, at, locks,
                 timer, path, past>>

(* --reset is an option of the start and the restart of timers.            *)
Request(u) ==
  /\ main.at = "idle" /\ ~shutdown
  /\ requests < setup.requests /\ requests' = requests + 1
  /\ \E kind \in setup.kinds, reset \in BOOLEAN :
       /\ reset => u = "timer" /\ kind # "stop"
       /\ main' = [at |-> IF kind = "stop" THEN "look" ELSE "lock", unit |-> u, kind |-> kind,
                   reset |-> reset]
  /\ UNCHANGED <<setup, clock, listening, shutdown, boots, changes, startMutex, units, at, locks,
                 timer, path, past>>

LockStart ==
  /\ MainStep("lock", "look")
  /\ startMutex = "free" /\ startMutex' = "main"
  /\ UNCHANGED <<setup, clock, flags, units, at, locks, timer, path, past>>

Alive(u) == present[u] /\ state[u] # "dead"

(* A unit that is dead cannot be stopped, and one that is not cannot be    *)
(* started: the client is told so.                                         *)
Refuse ==
  /\ main.at = "look"
  /\ IF main.kind = "stop" THEN ~Alive(main.unit) ELSE main.kind = "start" /\ Alive(main.unit)
  /\ MainStep("look", "idle")
  /\ startMutex' = IF startMutex = "main" THEN "free" ELSE startMutex
  /\ UNCHANGED <<setup, clock, flags, units, at, locks, timer, path, past>>

StopFirst ==
  /\ Alive(main.unit) /\ main.kind # "start"
  /\ MainStep("look", "stop")
  /\ UNCHANGED <<setup, clock, flags, startMutex, units, at, locks, timer, path, past>>

(* The unit is taken out of the array and released.                        *)
Remove(u) ==
  /\ at[u] = "none"
  /\ present' = [present EXCEPT ![u] = FALSE]
  /\ queue' = IF u = "path" THEN <<>> ELSE queue

(* Its thread may not even have begun.                                     *)
RemoveTooSoon ==
  /\ at[main.unit] # "none" /\ present[main.unit]
  /\ \/ main.at = "look" /\ ~Alive(main.unit) /\ main.kind # "stop"
     \/ main.at = "dead" /\ main.kind # "shutdown"
  /\ Halt

RemoveDead ==
  /\ ~Alive(main.unit) /\ main.kind # "stop"
  /\ MainStep("look", "create")
  /\ IF present[main.unit] THEN Remove(main.unit) ELSE UNCHANGED <<present, queue>>
  /\ UNCHANGED <<setup, clock, flags, startMutex, state, pipe, at, locks, timer, exists, buffer,
                 past>>

(* stopProcess: the word to exit is written to the pipe, and the mutex of  *)
(* the pipe is waited for, which the thread gives back when it ends.       *)
Close ==
  LET u == main.unit IN
  /\ MainStep("stop", "close")
  /\ u = "timer" => ~unitMutex
  /\ pipe' = [pipe EXCEPT ![u] = Append(@, "exit")]
  /\ UNCHANGED <<setup, clock, flags, startMutex, present, state, at, locks, timer, path, past>>

ClosedTo(u, from, to) ==
  /\ MainStep(from, to)
  /\ late' = [late EXCEPT ![u] = (at[u] = "lock")]
  /\ UNCHANGED <<setup, clock, flags, startMutex, units, at, locks, timer, path, owed, unserved>>

(* Seeded bug: nobody waits for the thread.                                *)
BugClosed == ClosedTo(main.unit, "close", "dead")

Closed == ~pipeMutex[main.unit] /\ ClosedTo(main.unit, "close", "dead")

DeadState(u) == /\ (u = "timer" => ~unitMutex)
                /\ state' = [state EXCEPT ![u] = "dead"]
                /\ unserved' = (unserved /\ u # "path")

(* A stopped unit stays in the array, unless its file has changed; a       *)
(* restart always takes it out.                                            *)
StopKeeps ==
  /\ main.kind \in {"stop", "shutdown"}
  /\ DeadState(main.unit)
  /\ MainStep("dead", "idle")
  /\ UNCHANGED <<setup, clock, flags, startMutex, present, pipe, at, locks, timer, path, owed,
                 late>>

StopRemoves ==
  /\ main.kind # "shutdown"
  /\ DeadState(main.unit) /\ Remove(main.unit)
  /\ MainStep("dead", IF main.kind = "stop" THEN "idle" ELSE "create")
  /\ UNCHANGED <<setup, clock, flags, startMutex, pipe, at, locks, timer, exists, buffer, owed,
                 late>>

(* The new unit is added, and its thread created.                          *)
Create(u) ==
  /\ main.unit = u
  /\ MainStep("create", "idle")
  /\ present' = [present EXCEPT ![u] = TRUE]
  /\ state' = [state EXCEPT ![u] = "running"]
  /\ pipe' = [pipe EXCEPT ![u] = <<>>]
  /\ at' = [at EXCEPT ![u] = "lock"]
  /\ late' = [late EXCEPT ![u] = FALSE]
  /\ startMutex' = "free"
  /\ looping' = (looping /\ u # "timer")
  /\ disk' = IF main.reset THEN {} ELSE disk
  /\ owed' = IF main.reset THEN {} ELSE owed
  /\ UNCHANGED <<setup, clock, flags, locks, nextTime, leftTime, deadline, expiring, path,
                 unserved>>

(* In the shutdown every unit that is not dead is stopped; then it is over.*)
StopAtShutdown(u) ==
  /\ shutdown /\ main.at \in {"boot", "idle"}
  /\ Alive(u)
  /\ main' = [at |-> "stop", unit |-> u, kind |-> "shutdown", reset |-> FALSE]
  /\ UNCHANGED <<setup, clock, flags, startMutex, units, at, locks, timer, path, past>>

Finish ==
  /\ shutdown /\ main.at \in {"boot", "idle"}
  /\ \A u \in Units : ~Alive(u)
  /\ Halt

Main ==
  \/ ListenSocket \/ LockStart \/ Refuse \/ StopFirst \/ RemoveTooSoon \/ RemoveDead \/ Close
  \/ Closed \/ StopKeeps \/ StopRemoves \/ Finish
  \/ \E u \in Units : Create(u) \/ StopAtShutdown(u)
-----------------------------------------------------------------------------
(* The clock advances at most once between the two readings of NextTime and*)
(* LeftTime.                                                               *)
Tick ==
  /\ now < setup.time
  /\ at["timer"] = "left" => ~ticked
  /\ now' = now + 1 /\ ticked' = TRUE
  /\ UNCHANGED <<setup, flags, main, startMutex, units, at, locks, timer, path, past>>

Shutdown ==
  /\ ~shutdown /\ main.at # "down" /\ shutdown' = TRUE
  /\ UNCHANGED <<setup, clock, listening, boots, requests, changes, main, startMutex, units, at,
                 locks, timer, path, past>>

(* Something happens below the watched directory; inotify tells nobody of  *)
(* it unless the path unit has its watchers.                               *)
Change ==
  /\ changes < setup.changes /\ changes' = changes + 1
  /\ \E event \in Events :
       /\ queue' = IF present["path"] /\ main.at # "down" THEN Append(queue, event) ELSE queue
       /\ exists' = (event = "hit")
       /\ unserved' = IF event = "hit" THEN unserved \/ Alive("path")
                                       ELSE unserved /\ ~setup.level
  /\ UNCHANGED <<setup, clock, listening, shutdown, boots, requests, main, startMutex, units, at,
                 locks, timer, buffer, owed, late>>

(* Every thread waits, or PID 1 is gone.  The loop keeps TLC from calling  *)
(* it a deadlock; any other end would be one.                              *)
Idle ==
  /\ \/ main.at = "down"
     \/ main.at = "idle" /\ \A u \in Units : at[u] \in {"none", "read"}
  /\ UNCHANGED vars

Next ==
  \/ \E u \in Units : Thread(u) \/ Request(u)
  \/ Expire \/ Expired \/ ExpiredAborts
  \/ Main \/ Tick \/ Shutdown \/ Change \/ PowerLoss \/ Boot \/ Idle

Spec == Init /\ [][Next]_vars

(* The threads are scheduled, the start of a unit ends, and an expiration  *)
(* is delivered.  Time, the clients and the file system owe nothing.       *)
Fairness ==
  /\ \A u \in Units : WF_vars(Thread(u))
  /\ WF_vars(Main) /\ WF_vars(Expired)

FairSpec == Spec /\ Fairness
-----------------------------------------------------------------------------
(* A timer that waits has something to wait for: an armed timer, or an     *)
(* expiration on its way.  It would never execute its unit again otherwise *)
(* (utimers.c:533-560, 655-700).                                           *)
NeverAsleep ==
  at["timer"] = "read" /\ ~shutdown =>
    deadline # None \/ expiring > 0 \/ pipe["timer"] # <<>>

(* The next time is saved before the timer is armed, and is what it is     *)
(* armed for: a loss of power at any moment loses neither (utimers.c:645,  *)
(* 699, unitd.sh:41-44).                                                   *)
ArmedIsSaved == deadline # None /\ ~shutdown => disk = {nextTime} /\ deadline >= nextTime

(* A next time that was saved stays on disk until the unit has been        *)
(* executed: what falls due while the system is down, or when it goes down,*)
(* is made up for at the next boot (utimers.c:637-648, 685-699).           *)
NothingMissed == owed \subseteq disk

(* A trigger that has been stopped executes nothing any more, unless it was*)
(* stopped before its thread had begun (process.c:395-410, notifier.c:     *)
(* 420-440).                                                               *)
StoppedIsQuiet ==
  \A u \in Units : state[u] = "dead" /\ at[u] # "none" => late[u]

(* Every change is followed by an execution that begins after it, although *)
(* what is left of the events is dropped when one has led to an execution  *)
(* (notifier.c:305-345).                                                   *)
ChangeIsServed ==
  unserved /\ ~shutdown =>
    \/ at["path"] \in {"lock", "wait", "execute", "start"}
    \/ \E i \in DOMAIN queue : Hits(queue[i])
    \/ \E i \in DOMAIN buffer : Hits(buffer[i])

(* Every request is answered, and a shutdown comes to its end, whatever the*)
(* threads of the units were doing (socket_server.c:445-763, process.c:    *)
(* 366-410).  "These units can be started or restarted" (README.md:175).   *)
RequestIsAnswered == main.at \notin {"idle", "down"} ~> main.at \in {"idle", "down"}

ShutdownEnds == shutdown ~> main.at = "down"
=============================================================================
