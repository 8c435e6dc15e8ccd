# TLA+ specifications of Unitd

Unitd is an init system: process 1 (or one process per user instance) loads *units*,
starts them in parallel in the order of their dependencies, supervises the daemons among
them, serves the requests of `unitctl` over a Unix socket, and takes everything down again.
`unitlogd` is its system logger.  This directory holds TLA+ modules of that code, TLC
configurations that check them on small instances, and TLAPS proofs for every instance.
All paths below are relative to `src/`; `process.c` stands for `src/core/processes/process.c`,
`commands.c` for `src/core/commands/commands.c`, and so on.

## 1. Inventory of the system

| part | state it keeps | operations | interacts with |
|---|---|---|---|
| loading (`units.c`) | the array of units: properties, `errors` | `loadUnits`, `parseUnit`, `checkRequires`, `checkConflicts`, `checkWantedBy` | fills the arrays every other part walks |
| start (`process.c`) | per unit: mutex, condition variable, `ProcessData` (pid, exit code, state, final status) | `startProcesses`, `startProcess` | one thread per unit; `execProcess`, timers, notifier |
| commands (`commands.c`) | children of the process | `execProcess`, `execFailure`, `stopDaemon`, `cmdlineSplit` | the kernel, the SIGCHLD handler |
| handler and cleaner (`signals.c`, `cleaner.c`) | `ProcessData` of any unit, `SHUTDOWN_COMMAND` | `signalsHandler`, `reapPendingChild` | runs in any thread and takes no lock; writes into the pipes |
| supervision (`process.c`) | pipe, `restartNum`, history, `failureExitCode` | `listenPipes`, `listenPipe`, `closePipes` | one detached thread per unit with a pipe |
| stop (`process.c`, `commands.c`) | `isStopping`, `ProcessData` | `stopProcesses`, `stopProcess`, `stopDaemon` | after `closePipes`, on request or in the shutdown |
| timers (`utimers.c`) | POSIX timer, next and left time, the time on disk | `startTimerUnit`, `armTimer`, `expired`, `executeUnit`, `saveTime` | `startUnitServer` under `START_MUTEX` |
| path units (`upath.c`, `notifier.c`) | inotify watches, `isChanged` | `startNotifier`, `checkUnitChanging`, `checkUnitExecution` | `NOTIFIER_MUTEX`, `startUnitServer` |
| requests (`socket_server.c`) | the array of units, the symlinks of the states | `startUnitServer`, `stopUnitServer`, `enableUnitServer`, `disableUnitServer`, `getUnitStatusServer` | main thread; start also from timer and path threads |
| socket (`socket_*.c`) | 32 monitored descriptors, `LISTEN_SOCK_REQUEST` | `listenSocketRequest`, `socketDispatchRequest`, `readMessage`, marshalling | `unitctl`, and the handler, which sends itself the shutdown |
| default state (`socket_server.c`, `common.c`) | `default.state` symlink, `STATE_NEW_DEFAULT` | `getDefaultStateServer`, `setDefaultStateServer` | the next boot |
| boot and shutdown (`init.c`) | which phase the instance is in | `unitdInit`, `unitdUserInit`, `unitdEnd` | calls all of the above in order |
| `unitctl` | none | one request per run | the socket |
| `unitlogd` | log and index files, lock file, its sockets | forwarders, `indexIntegrityCheck`, vacuum | `unitlogctl`, the kernel log |

What is hard about it: the threads of a batch wait for one another on one condition variable
per unit; the data of a process are written by the starter, the stop, the listener and a signal
handler that respects none of their mutexes; SIGCHLD is not queued and may come before the
pid is stored; a restart may be under way when the unit is stopped or the system goes down.

What makes each part correct: a start follows the dependencies, never runs two units in conflict
and ends; a supervised daemon has one process, every death has its consequence exactly once, and
nothing is left of what has been stopped; a shutdown comes to its end from anywhere; a timer runs
its unit once per period also across a crash; a request leaves the array consistent; every client
is served or refused; a log and its index agree.

## 2. Modules

| module | models | extends or uses |
|---|---|---|
| `UnitLoad` | `checkRequires`, `checkConflicts` as operators on the load order and, for a Conflict, the order in the file | |
| `UnitStart` | `startProcesses` and `startProcess` for a batch | `UnitLoad` |
| `StartOrder` | the abstract start: pending, executing, started or failed, in the order of the dependencies | |
| `UnitStartProofs` | theorems about `UnitStart`, and that it implements `StartOrder` | `UnitStart`, `StartOrder` |
| `UnitSupervise` | `execProcess`, `signalsHandler`, the cleaner, `listenPipe(s)`, `execFailure`, `closePipe(s)`, `stopProcess`, `stopDaemon`, and the order in which boot, requests and shutdown call them | |
| `UnitSuperviseProofs` | theorems about `UnitSupervise` | `UnitSupervise` |
| `UnitTrigger` | a timer and a path unit: their threads, `expired`, `executeUnit`, the saved time, the requests that stop, start and restart them, the shutdown | |
| `UnitTriggerProofs` | theorems about `UnitTrigger` | `UnitTrigger` |
| `UnitMessage` | `marshallRequest`, `unmarshallRequest`, `marshallResponse`, `unmarshallResponse` as operators on entries | |
| `UnitServer` | the main loop and its requests, the array, the links and the default state, over several boots | `UnitMessage` |
| `UnitMessageProofs` | theorems about `UnitMessage` | `UnitMessage` |
| `UnitServerPlans` | the inductive invariant of `UnitServer`; lemmas: what the steps of the handlers do to units, and that what a handler has still to do stays ordered and feasible | `UnitServer`, `UnitMessageProofs` |
| `UnitServerProofs` | theorems about `UnitServer` | `UnitServerPlans` |
| `UnitServerAnswers` | theorems about whole requests of `UnitServer`: what an answer says, and that rivals are never enabled together | `UnitServerProofs` |
| `UnitLog` | `unitlogd` with its two threads, and `unitlogctl` | |
| `UnitLogProofs` | theorems about `UnitLog` | `UnitLog` |
| `MCUnitStart`, `MCUnitSupervise`, `MCUnitTrigger`, `MCUnitServer`, `MCUnitLog` | constants for TLC | |

The modules look at the same code from several sides.  `UnitStart` has every wait between units
and takes the execution of a command as one step with every result `execProcess` can leave
(`Outcomes`).  `UnitSupervise` has every step inside that execution and takes the wait for
dependencies and the conflicts as one step that may fail (`StartAborts`).  `UnitServer` has whole
requests, one after the other as the main thread serves them, and takes what startProcess makes
of one unit as one step (`Started`); it is there for what requests, deaths, restarts, failures
and boots leave behind together.  `UnitTrigger` has the two sorts of units whose threads make
requests themselves, and START_MUTEX between those and the main thread.

### UnitStart

One thread per unit, at the program point `pc[u]`, with `idx[u]` the loop variable of the
array it walks.  Every action is a stretch of `startProcess` between two accesses to
shared data: `Lock`, the walk over the conflicts, the walk over the dependencies with the read
of `finalStatus` outside of the mutex (`DepRead`), the mutex of the dependency (`LockDep`), the
test under it (`DepNotReady`, `DepDecided`), the wait that releases it (`WaitDep`), the command
(`Execute`, `Executed`), the test behind the final status (`Evaluate`), and its assignment with
the broadcast and the unlock (`Announce`).  `Return` reads the status again, after the
unlock, as the code does.  The handler is `DaemonDies`.  `pthread_cond_wait` may wake up for no
reason (`SpuriousWakeup`, at most `MaxWakeups` times).  `Init` takes the configurations from
`Configs` and gives a unit an error where the loader does.  A Conflict is compared with the
Requires that stand above it in the file only (`units.c:502`, called at 890), so a configuration
says which names come as a Conflict first (`first`).  Failing pthread calls (which
the code answers with a SIGTERM to itself) are left out.

### UnitSupervise

Per unit a `starter` (the thread in `startProcess` and `execProcess`), a `listener`
(`listenPipe`) and a `manager` (what the main thread does for the unit, from `listenPipes` to
`stopProcess`), plus the handler and the cleaner.  `proc[u][n]` is the n-th process of the unit as
the kernel knows it; `pending` holds at most one SIGCHLD with the data of the first child that
ended.  Every access to `ProcessData` which can race with the handler is a step of its own: `Fork`
and `SetPid`; `Poll`, `Check` and `WriteRunning`; `Evaluate` and `Announce`; in the handler
`Catch`, `RecordCode` and `Record` (the exit code is stored first; the final status, the state and the
word in the pipe are one step: the handler writes them without a wait, and no property tells the
moments between them apart); in the stop `Test`, `StopPoll`, `StopClear`, `StopSet`,
`StopEvaluate` and `StopEnd`.  The status that `execFailure` takes from a command which was
killed, or reaped by the cleaner, is arbitrary (`FailureOutcomes`).  `recorded`, `died`,
`crashed`, `handled`, `merged` and `failed` are history variables that properties talk about; no
action reads them.  `merged` holds the units of which a child ended while another SIGCHLD was
pending, so that no handler will ever hear of it.  A unit that has been stopped is not started again: that is the business of
`UnitServer`.

### UnitTrigger

`at[u]` is the program point of the thread of the timer or of the path unit, `main` what the main
thread does to which of them.  The thread keeps the mutex of its pipe from `Begin` to `Out`; a
stop writes the word to exit into the pipe (`Close`) and waits for that mutex (`Closed`).
`Execute`, `StartUnit` and `Started` are `executeUnit` with START_MUTEX; `AlreadyRunning` and
`GoingDown` are its early ways out.  The timer computes its next time in two readings of the
clock (`NextTime`, `LeftTime`), saves it with a script that removes the old file and makes the new
one (`RemoveFile`, `MakeFile`; `SaveFails` at either), and arms the kernel's timer (`Arm`), whose
expiration is a thread of its own (`Expire`, `Expired`).  The path unit reads all its events at
once (`ReadEvents`), evaluates one after the other, and drops the rest after an execution
(`Dropped`).  A loss of power takes everything but the file with the next time; the next boot
starts from it (`FromDisk`).  What the code leaves undefined (a thread that uses a released
unit) and what aborts (an assertion in `expired`) ends PID 1 (`Halt`).  `owed`, `unserved` and
`late` are history variables.

### UnitMessage and UnitServer

A message is the sequence of its entries.  `Put` and `PutRequest` are what the parsers make of
one entry; `Format` and `Parsed` keep what the conversion does to the numbers -1 and -2.

In `UnitServer` the file of a unit goes through the versions that the setup gives it (`Edit`);
`links` and `dflt` are the symlinks on the disk; `mem` is the array.  `task.todo` is the
sequence of steps which the handler of the request has still to do: a nested call puts its
steps in front.  `StopDead`, `StopUnit`, `Kill` and `Clear` are `stopUnitServer`; `StartUnit`, `Load`,
`StopAll`, `Add` and `Run` are `startUnitServer`; `DisableUnit` and `Unlink` are
`disableUnitServer`; `EnableUnit`, `Check`, `VerifyRequires`, `Verify` and `Link` are
`enableUnitServer`.  Between two steps units die (`Die`), are restarted (`Reset`, `Restart`), files
change (`Edit`) and the notifier marks that (`Notify`).  `Die` writes the final status and the
state, and `Restart` the state and the final status, in one step where the code writes the two one
after the other (`signals.c:57-58`, `81-82`): between them a unit that
has died is listed as failed, as just after, and one that is being restarted is in no list, as just
before.  A script or a stop command may fail
(`Fails`), and the power may be lost (`PowerLoss`); the next `Boot` starts from the disk.
`orphans`, `failed` and `missed` are history variables.

### UnitLog

`daemon`, `unix` and `kernel` are the main thread of `unitlogd` and its threads for `/dev/log` and
`/proc/kmsg`; `ctl[c]` is a run of `unitlogctl`.  The log is a sequence of lines and an offset the
number of lines before one.  A file that is replaced lives on for those who opened it:
`logFile` and `indexFile` name the files the paths lead to, and `opened` the one the global FILE
of the daemon is.  `Vacuum` turns positions into offsets before the lock is taken, as the code does,
and `CopyLine` appends to what there is in the temporary log.  An index is rebuilt entry by entry
(`WriteIndex`).  The daemon's threads share one FILE: each asserts that it is open before it writes
and closed after it has closed it, and another thread may have seen to the opposite
(`AssertionFails`).

Messages and copied lines are written with `fprintf(file, line, NULL)`: the line is its own format
(`file.c:112`, `client.c:419`).  What that makes of a line is modelled by the sort of its text
(`Texts`, `Printed`): a plain one stays, `%s` or `%d` is replaced (percent), of `%%` one `%` is left, which
is a conversion the next time (escaped), and `%c` becomes a NUL (char).  The format of a later
copy ends at the NUL, so that the newline is lost and the next line is read as a part of this one
(`Joined`, `ReadLine`, `LineOf`).  A message is logged once and copied once by each vacuum of other
boots, and printed anew each time.  `%n` ends the process like any crash.

`disturbed` and `interrupted` are history variables: that two were at work which no lock keeps
apart (two `unitlogctl`, one and the daemon at its entries, the kernel thread and anyone else), and
that a `unitlogctl` was interrupted.  An *orderly* run (`Orderly`) is one with neither and without a
`%c`; the properties that hold are stated for these, crashes of the daemon included.

Operators whose names begin with `Bug` are seeded bugs.  Nothing uses them; each is a plausible
mistake in the definition that follows it and shows that a property notices it.

## 3. What TLC checks

Each run takes less than three minutes with two workers; the states are the distinct ones.

| run | instance | shows |
|---|---|---|
| `start` | 3 units: every list of at most two dependencies, cycles and self-dependencies included; every conflict of at most one name each with 4 dependency shapes, a Conflict above or below the Requires, a missing unit, a broken file, a timer; 1 spurious wake-up; 2.12 M states | types, no lost wake-up, start order, every failure has a cause, units in conflict never both run, a batch that returns success was one |
| `start_live` | 3 units, chain along and against the load order, fork, join, cycles of two and three; 77 k states | every start ends; `UnitStart` implements `StartOrder` with its fairness |
| `supervise` | 1 daemon, 24 policies, every way to die, 4 forks, history of 2; 2 daemons that only exit, or exit or are killed, 2 forks each, symmetric; 1.53 M states | types, one process at a time, nothing left after a stop, recorded deaths = restarts + words in the pipe, restart limit and history, nothing that has exited is shown as running with success unless its SIGCHLD was merged |
| `supervise_live` | 1 daemon, 12 policies, 3 forks; 69 k states | every recorded death leads to a restart; a shutdown at any moment completes |
| `trigger` | a timer of 2 s over 4 s, with stops and starts, with a loss of power; path units that watch a state or names; both together; 357 k states | a waiting timer has something to wait for, an armed timer is saved, nothing that fell due is lost, a stopped trigger is quiet, every change is served; stops, starts and shutdowns end |
| `server` | 2 units in 6 setups (rivals, a dependency, changed files, default states with failing scripts and loss of power, a state on the command line, stop commands that fail), 3 descriptors; 325 k states | no process is lost, rivals never both run or are both enabled, array and links agree, the default state is told truly, answers are true, the lists partition the units, stale units are marked, clients read what was written |
| `log` | 3 starts of the daemon, 2 messages (plain or with `%%`), 1 kernel log, 2 requests, 1 crash, 4 of these together; 1.04 M states | in orderly runs: a message keeps its line until its boot is cut, and its text if it is plain; a vacuum removes its boots, the log can be read, the index is that of the log, a clean stop passes the check of the next start, show-boot is exact |

Three units are enough for every situation of the start: a thread deals with one other unit at
a time, and its dependency can itself be waiting for a third, be failing or be in a cycle; the
loader treats cycles of one, two and three units differently and none longer, and a ring of
four has a run of its own.  One spurious wake-up takes a thread once more through the mutex of
the dependency at every moment there is.  In the supervision four forks allow three deaths, one
more than `ShowMax = 2`, so that the history overflows, and more than the largest `RestartMax`
(2), so that the limit is met; the last process never dies by itself.  `SHOW_MAX_RESULTS` is
10 in the code and only compared.  Two daemons are enough for a SIGCHLD to be lost, since one
is pending at most; their second process cannot die by itself, but can be stopped.

A timer of two seconds over four expires twice, and one second may pass between any two of its
steps, once between the two readings of the clock.  Two requests are a stop and a start, at every
moment of the threads; the setups of stops and starts have no losses of power, which would
not meet them.  Two units are enough for what one request does to another unit (a conflict, a
dependency); requests repeat without a bound, and so do boots.  `Slots = 3` leaves two clients
(32 in the code, which are only counted), and `MaxFds = 3` is one more, so that a client is not
monitored.  The log has three boots, so that one can be cut in front of another and behind it,
and two messages, which may be in different boots, of two sorts of text: one that no printing
changes and one that each of two changes.  `FewEvents` bounds messages, kernel logs, requests and
crashes together by four, and by three once a run is disturbed: of those only the types and that
the running boot is never cut are claimed.

Every property of the passing runs has a mutant in `PROJECT.json`: a definition whose replacement
by the seeded bug makes TLC report that property.

### Disagreements between the code and what it says

Each of these runs ends in a counterexample; the `findings` in `PROJECT.json` quote the line.

| run | what happens |
|---|---|
| `start_ring` | four units that require one another in a ring pass the loader; the boot waits for ever (`units.c:552-558`: "That must not happen!!") |
| `supervise_early` | a daemon that ends before its pid is stored is not restarted (`README.md:258`) |
| `supervise_dump` | a daemon that dumps core meets no case of the handler: no failure command (`README.md:162`) |
| `trigger_restart` | a restart of a timer that is about to execute its unit deadlocks PID 1 (`README.md:175`) |
| `log_leftover` | what an interrupted vacuum has copied comes back with the next one (`client.c:394`) |

The models show more that have no run of their own:

- With two daemons and only kills `FailurePromised` fails too, because two of them can die while one
  SIGCHLD is pending and the second death is lost.
- `closePipes` can return with a unit in RESTARTING (`process.c:326-327` says it cannot); it has
  no process and no thread then, as `StoppedIsDown` shows.  The handler can store a death over the
  result of a stop (`socket_server.c:496`).
- RUNNING is written over the death of a daemon that is killed between the test and the
  assignment (`commands.c:120-123`); `SuccessIsAlive` holds for exits only, because the exit code
  of a kill is -1, the value that also means "none yet".  It excepts the units of `merged` too: a
  daemon whose SIGCHLD was merged with that of another one stays shown as running with success.  The second failure of a failure command
  goes unnoticed (`commands.c:222`).
- With `Interval = 1`, which `README.md:194` allows, TLC finds `NeverAsleep` violated: a second that
  passes between the two readings of the clock (`utimers.c:193`, `216`) leaves zero, which disarms the
  timer for ever (`utimers.c:551`).  With two seconds and more it holds.
- A restart can release a timer or path unit whose thread has not begun (`RemoveTooSoon`), and an
  expiration that finds no timer aborts PID 1 (`ExpiredAborts`).
- Descriptors of clients are never closed; when they are used up the instance goes down
  (`AcceptFails`).  `enable` with an unsatisfied dependency releases a unit that stays in the
  array (`Crash`).
- A log line is its own format (`file.c:112`, `client.c:419`).  A vacuum of *other* boots rewrites
  every line with a `%`: with `Texts = {"escaped"}` TLC finds a copy that differs from what it was
  copied from, against the manual, by which vacuum only removes lines (`unitlogctl.8:53`).
  `LoggedIsKept` therefore promises the text of plain messages only, and of the others a line of
  their own.
- After a `%c` there is a NUL in the log.  The next vacuum that keeps the line drops its newline, the one
  after it reads two lines as one; when the second is the finish of a boot, the log can no longer
  be parsed and the index not be repaired: with `Texts = {"char"}` and `Orderly` without its last
  conjunct TLC finds `LogIsReadable` violated, without a crash and without two at work at a time,
  although a comment says that the index can be generated from the log again (`init.c:75-79`).
- Two vacuums at a time cut at offsets of a log that is no more, and the daemon writes the entries
  of a boot without the lock; the properties of `UnitLog` are stated for the other runs
  (`disturbed`).
- A crash between the index entry and the log line of a start, and then a vacuum of that boot, can
  empty the log while the index keeps an entry; the repair leaves it, and the check refuses every
  start from then on (the case of an empty log in `Indexed` of `UnitLogProofs`).  The assertion on
  the log FILE cannot fail in the other runs (`NoAssertionFails` there).

`RestartPromised` and `FailurePromised` fail because a death is never *recorded*;
`RecordedIsRestarted` shows that recorded deaths are all acted on.  `RecordedIsRestarted` is
checked without failing forks, after which the code gives up by design.  `RequestIsAnswered`
holds for stops and starts and fails for a restart only.

### Fairness

`UnitStart`: weak fairness of every thread and of the join.  The scheduler runs every thread; the
command of a oneshot is killed after 15 s, a daemon is polled once, so `Executed` always
comes.  Nobody is fair to spurious wake-ups or deaths.  Weak fairness is enough although a mutex
can be taken again and again, because only finitely many steps are left to its takers.

`UnitSupervise`: weak fairness of the starter, listener and manager of each unit, of the handler
and of the end of the boot.  `Start`, `Listen` and what follows a shutdown are what the main thread
does anyway; requests to stop, deaths, the cleaner and the shutdown itself are never forced.
A failure command ends or is killed after 15 s, a stop kills after one second.  The delivery of
a *pending* signal is fair, which is what the kernel guarantees; that every death makes one
pending is not assumed.

`UnitTrigger`: weak fairness of the two threads, of the main thread while it has something to do,
and of the thread of an expiration.  The start of the triggered unit ends, which `StartCompletes`
and the timeouts of `execProcess` are for.  Clients, the clock, the file system, the shutdown
and the loss of power are never forced.

`UnitServer` and `UnitLog` claim no liveness: a handler of `UnitServer` waits only for restarts,
whose end is `RecordedIsRestarted`, and `Log.cfg` turns the deadlock check off because its
bounded instance comes to an end.

## 4. What is proved

Every theorem holds for every value of the constants that satisfies the assumptions of its
module; only two theorems have a hypothesis of their own: `TimersNeverSleep` an interval above one
second, and `RivalsAreNotEnabled` that no two rivals are linked together when the instance is
installed (`LinksExclude`, which `MCUnitServer` asserts of its setups).  Each module has its inductive
invariant `IInv`, with `Init => IInv`, `IInv /\ [Next]_vars => IInv'`, and the listed properties
as consequences.  TLC has checked each `IInv` on the instances of the run of its module before it
was proved (2.12 M, 1.53 M, 2.41 M, 325 k and 1.04 M states, in the order below; the instance for
`UnitTrigger` is larger than that of its run).

### UnitStart

`UnitStartProofs` proves, for every finite or infinite set of units, every configuration
in `Configs` and every bound on wake-ups, from `StartAssumption` alone (the units are among the
names, `None` is no unit, the configurations are well typed):

| theorem | statement |
|---|---|
| `Typing` | `Spec => []TypeOK` |
| `Invariance` | `Spec => []IInv` |
| `NoWakeupIsLost` | `Spec => []NoLostWakeup` |
| `StartOrderHolds` | `Spec => []DependenciesFirst` |
| `ConflictsExclude` | `Spec => []ConflictExclusion` |
| `FailuresHaveCauses` | `Spec => []FailureHasCause` |
| `SuccessIsTrue` | `Spec => []ResultIsTruthful` |
| `Implementation` | the initial states and the steps of `UnitStart` are those of `StartOrder` |

None of the safety properties is inductive: that a dependency has been announced as a success
(`DependenciesFirst`) must be known while the thread walks the list, hence `Walk`; that it stays so
needs that an announcement is made once, hence `Announced`; that the success read from
`finalStatus` was an announced one needs `Executions` (no process is alive or has a clean result
before the command is executed); that a sleeping thread will be woken needs that nobody announced
between its test and its sleep, hence `Mutexes` (who owns which mutex where); `Unconflicted`
and `Reasons` do the same for the conflicts and for the causes of failures, `Results` for what
the batch returns.  `IInv` is the conjunction of `TypeOK` and these parts; `Announcing` and
`CauseStays` are the lemmas most steps rest on.

### UnitSupervise

`UnitSuperviseProofs` proves, for every set of daemons, every policy and every bound on forks,
restarts and the history, from `SuperviseAssumption` (the policies are well typed, the bounds are
positive numbers):

| theorem | statement |
|---|---|
| `Typing`, `Invariance` | `Spec => []TypeOK`, `Spec => []IInv` |
| `NoSecondProcess` | `Spec => []OneProcess` |
| `StoppedStaysDown` | `Spec => []StoppedIsDown` |
| `DeathsAreRestarts` | `Spec => []DeathsAddUp` |
| `RestartsAreBounded` | `Spec => []RestartsBounded` |
| `SuccessHasProcess` | `Spec => []SuccessIsAlive` |

A daemon is forked by the starter, at the start and for its listener; it is stopped by the manager.
`Handover` says which of the three has a unit in hand: the listener with a death in hand keeps the
mutex of the pipe until its starter has come to its end, and the manager that has passed the pipe
has left no listener behind.  `Processes` says where in the three threads a process may be
alive, from which `OneProcess` and `StoppedIsDown` follow.  `DeathsAddUp` counts the recorded deaths,
the words in the pipe and the restarts; a death could be recorded twice or restarted without a
record, if the news of one end were in two places.  `OneNotice` excludes it: the news is a signal,
or in the hands of the handler, in the pipe or with the listener, and no other process is forked
before it has arrived.  `Counts` is the count itself, at every point of the listener.
`RestartsBounded` is inductive with these.

`SuccessIsAlive` is about a race of three: the thread that polls the daemon and announces success,
the handler that records its end, and the end itself.  The part `Tells` of the invariant says what
the data of a unit tell of its last process at each point of those threads: what a stop has left
(`StopsOf`), what the test of the starter has seen (`RunningOf`), that a recorded exit code is the
one of the process (`ExitsOf`), and that an end whose news is on its way, or was merged, is the
only one that the data do not tell of (`Untold => Told`).

### UnitTrigger

`UnitTriggerProofs` proves, for a timer and a path unit, every interval, every
length of time, and every number of requests, boots, losses of power and changes, from
`TriggerAssumption`:

| theorem | statement |
|---|---|
| `Typing`, `Invariance` | `Spec => []TypeOK`, `Spec => []IInv` |
| `ArmedTimesAreSaved` | `Spec => []ArmedIsSaved` |
| `NoExecutionIsMissed` | `Spec => []NothingMissed` |
| `StoppedTriggersAreQuiet` | `Spec => []StoppedIsQuiet` |
| `ChangesAreServed` | `Spec => []ChangeIsServed` |
| `TimersNeverSleep` | `Interval > 1 => (Spec => []NeverAsleep)` |

`Placing` says that a thread holds the mutex of its pipe from its first to its last step, and that
a unit is out of the array only without a thread; `Quieting` that a thread which can still act for
a stopped unit is one that had not begun when the unit was stopped.  `Saving` says that what is owed
is on disk except between an execution and the file of the next time, `Arming` that the timer of the
kernel is armed only while the thread waits, for the time on disk, and `Awaiting` that a timer which
waits is armed, has expired, or has a word in its pipe; it needs `Interval > 1`, because with one
second the two readings of the clock can leave zero (section 3).  `Serving` says that a change which
is not served is still to be executed for, or is in front of the thread.

### UnitServer

`UnitServerProofs` proves, for every finite set of units, all the versions of their files, all
initial links, every number of descriptors and slots, and every number of requests, deaths,
failing scripts, boots and losses of power, from `ServerAssumption` (the setups are well typed,
and no unit names itself as a conflict, which the loader refuses) and `RequestAssumption`
(a request that a client makes names a unit that has a file, a state, or nothing, and has any of the
options that there are; that the server reads it as it was made is `RequestIsRead`):

| theorem | statement |
|---|---|
| `Typing`, `Invariance` | `Spec => []TypeOK`, `Spec => []IInv` |
| `NoProcessIsLost` | `Spec => []ProcessesAreKnown` |
| `ConflictsNeverRun` | `Spec => []ConflictsExclude` |
| `ChangesAreMarked` | `Spec => []StaleIsMarked` |
| `DefaultsAreTold` | `Spec => []DefaultIsTold` |
| `LinksAreKnown` | `Spec => []EnabledIsLinked` |
| `UnitsAreListedOnce` | `Spec => []ListsCover` |

What makes the handlers hard is what happens between their steps.  `Planning` is the heart of the
invariant: the steps that are still to be done come in an order (`Follows`) that the nested calls of
the code can produce, and each is feasible (`Ready`): a unit that is to be cleared or loaded is
`Leaving`, so that its process has ended, is still to be killed, or has outlived a stop command
that failed; a unit that is to be added is not in the array and has the version on the disk,
unless its change is noticed.  `Leaving` is stable because such a unit is `Settled`: its listener
does not restart it any more.  Then every step does to each unit one of eleven things (`Moved`),
and `Living`, `Shapes`, `Versions`, `ProcessesAreKnown`, `ConflictsExclude` and `StaleIsMarked`
are preserved by each of these, whatever the step.  `Telling` says what `default.state` and
STATE_NEW_DEFAULT are while they are replaced, `Agreeing` what the array and the links say of a
unit while its links are made or removed, which needs that every link is still in the list of
those to be removed (`Unlinking`) and that at least one considered link is made (`Linking`).

`UnitServerAnswers` proves three properties that are about a whole request, not about one step:

| theorem | statement |
|---|---|
| `AnswersAreTrue` | `Spec => []AnswerIsTrue` |
| `RivalsAreNotEnabled` | `LinksExclude => (Spec => []EnabledExclude)` |
| `ClientsSeeUnits` | `Spec => []ClientSeesUnit` |

The answer of a request is true because at every moment each thing that the request promises has
either been done or is the business of a step that is still in the list.  `Promising` says so:
`Suited` which steps can belong to which request, and `Enabling`, `Disabling`, `Stopping`,
`Starting` and `Defaulting` what has still to come of each promise.  Whether a handler goes on or
gives up, it `Proceeds` (the step is replaced by those that carry its promise on) or has
`Refused` (an error is reported, which ends the promise); one lemma per handler says which.

For `EnabledExclude`, `Clearing` says that when a unit is about to be linked, the unlinking of each
enabled conflict is still to come first, and `Excluding` that rivals are not linked in any state,
those that enable looks at and those it does not (`Scope`: with a state on the command line the
links of other states are never made).  A nested disable may be refused, but not that of a rival
that the links show, since the array and the links agree (`Agreeing`).  Both are stated
while no script has failed and files stay the same (`Fixed`); otherwise a refused
removal leaves the rival linked, and a changed file has other conflicts.

### UnitLog

`UnitLogProofs` proves, for every number of starts, messages, requests and crashes, and
any number of runs of `unitlogctl`, from `LogAssumption`:

| theorem | statement |
|---|---|
| `Typing`, `Invariance` | `Spec => []TypeOK`, `Spec => []IInv` |
| `MessagesAreKept` | `Spec => []LoggedIsKept` |
| `BootsAreCut` | `Spec => []CutIsGone` |
| `LogStaysReadable` | `Spec => []LogIsReadable` |
| `IndexStaysTrue` | `Spec => []IndexIsTrue` |
| `ShowStaysExact` | `Spec => []ShowIsExact` |

All five are stated for the orderly runs: no two at work that no lock keeps apart, no `unitlogctl`
interrupted (which loses the whole log between the `rm` and the `mv`), no `%c`; the daemon may crash
anywhere.  `MessagesAreKept` then says that a message written to the log has one line there until its
boot is cut, and that this line is as it was sent if it has no conversion.  Printing a line changes
neither whose it is nor, without a `%c`, where it ends (`TidySame`), and a plain text stays plain;
everything else follows from what kind each line is.

In the orderly runs the log is tidy (each boot is
one stretch that starts with its first line, in the order of the starts), and the index has the
entries that one finds in the log, or is ahead by the one entry of a start that crashed before its
line.  From there a vacuum is followed line by line: the offsets it has computed hold exactly the
lines of the boots it cuts, and what it has copied is the part of the log in front of the line it is
at, without those.  What is parsed of a log is a recursion over its lines.  The library's
induction theorems have an operator for a parameter and cannot be used here; `SetInduction`
says the same of a *set* of numbers, and is derived from the well-foundedness of the natural
numbers (`WFMin`, `NatLessThanWellFounded`), as is `RangeInduction` in `UnitMessageProofs`.

### UnitMessage

`UnitMessageProofs` proves, without any assumption:

| theorem | statement |
|---|---|
| `RequestIsRead` | any command, at most one argument and any options: `UnmarshallRequest(MarshallRequest(r)) = r` |
| `ResponseIsRead` | any messages, errors and units: `UnmarshallResponse(MarshallResponse(out, sort))` is `out`, each unit with what the sort shows (`ShownAs`) |

The numbers of a unit in `ResponseIsRead` (`Views`) are those the code can have: -1 in the fields
that may be "not set", and never the -2 that `Format` also writes as "None": nothing assigns it.
`ClientsSeeUnits` is `ResponseIsRead` for the units in the array.

A parser goes through its buffer entry by entry and always writes to the last unit, and to the last
entry of its history; so what it makes of an entry depends on all entries before.  The readers are
recursive functions on the first entries of the buffer (`ReadsRequest`, `Reads`).  `ReadAs` is the
induction over a buffer: a function that begins and goes on as the reader does is the reader.  From
it follow that a buffer can be read piece by piece (`ReadConcat`, `ReadFlatten`), what each section
and each repeated key makes of the last unit (`CommonIsRead`, `PastIsRead`, `ErrorsAreRead`,
`HistoryIsRead`, `DetailsAreRead`), and that the units come one after the other (`UnitsAreRead`).

### Only model-checked

- The liveness properties (`StartCompletes`, `RecordedIsRestarted`, `ShutdownCompletes`,
  `RequestIsAnswered`, `ShutdownEnds`, and the fairness half of `ImplementsStartOrder`): fairness and
  ENABLED are out of reach of the proof system.

## 5. What is not modelled, and the plan

Left out, with the reason:

- parsing of unit files and of intervals, `cmdlineSplit`, the paths of links: sequential string
  handling; a broken file is one value;
- the oneshot branch of `execProcess` step by step, SIGSTOP and SIGCONT;
- the units of the init, shutdown and final states, the emergency shell, Ctrl+Alt+Del: they use
  the same start and stop, and nothing else happens then;
- adding and removing the watches of path units, the globbing, the per-user instance;
- log messages of several lines (each is one line of the log here), facility, priority and host of a
  message;
- `cat`, `edit`, `create`, `analyze` and everything else that is only read and printed; times and
  texts in messages, and a separator in a text;
- the logger, the shell scripts beyond the steps named above, `wtmp`, kernel command line parsing,
  shell completion, memory management.

What comes next, in this order:

1. Timers and path units as units of `UnitServer`.
2. The oneshot branch of `execProcess` step by step in `UnitSupervise`.
