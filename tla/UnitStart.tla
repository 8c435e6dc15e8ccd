----------------------------- MODULE UnitStart -----------------------------
(***************************************************************************)
(* startProcesses: a batch of loaded units is started by one thread per    *)
(* unit (startProcess).  The thread of a unit holds the mutex of its unit  *)
(* from its first step to the broadcast of the result; a thread whose      *)
(* dependency has no result yet waits on the condition variable of the     *)
(* dependency, under the mutex of the dependency.  Meanwhile the SIGCHLD   *)
(* handler, which takes no lock, records the daemons that die.             *)
(*                                                                         *)
(* The execution of the command itself is one step with every outcome      *)
(* execProcess, startTimerUnit and startNotifier can leave behind;         *)
(* UnitSupervise models what happens inside it.                            *)
(***************************************************************************)
EXTENDS UnitLoad, FiniteSets

CONSTANTS Units,        \* the units of the array
          Names,        \* the unit names a Requires or Conflict property may hold
          None,         \* no owner of a mutex
          Configs,      \* the configurations the unit files may give
          MaxWakeups    \* bound: spurious wake-ups of the whole batch

Kinds   == {"daemon", "oneshot", "timer", "upath"}
PStates == {"dead", "exited", "killed", "running"}
Finals  == {"ready", "success", "failure"}

(* bad[u]: the file of u has an error that is not about other units;       *)
(* first[u]: the names whose Conflict stands above their Requires in it.   *)
ConfigType == [kind: [Units -> Kinds], requires: [Units -> Seq(Names)],
               conflicts: [Units -> Seq(Names)], first: [Units -> SUBSET Names],
               bad: [Units -> BOOLEAN]]

ASSUME StartAssumption ==
  /\ Units \subseteq Names
  /\ None \notin Units
  /\ \A c \in Configs : c \in ConfigType
  /\ MaxWakeups \in Nat
-----------------------------------------------------------------------------
VARIABLES
  conf,         \* what the unit files say, fixed once loaded
  errors,       \* errors[u]: unit->errors->size > 0
  mutex,        \* mutex[u]: the thread that owns unit->mutex
  pState,       \* pState[u]: processData->pStateData->pState
  clean,        \* clean[u]: pid and exitCode (or the thread status) are those of a success
  died,         \* died[u]: the handler has recorded the death of daemon u (history)
  finalStatus,  \* finalStatus[u]: processData->finalStatus
  pc,           \* pc[u]: where the thread of u is
  idx,          \* idx[u]: the position in the array the thread of u is walking
  begun,        \* begun[u]: the command of u has been executed
  announced,    \* announced[u]: the final status that was broadcast (history)
  returned,     \* returned[u]: the value the thread of u returns
  result,       \* what startProcesses returns, once it has joined every thread
  wakeups       \* spurious wake-ups so far

vars == <<conf, errors, mutex, pState, clean, died, finalStatus, pc, idx, begun,
          announced, returned, result, wakeups>>

(* The variables only the SIGCHLD handler shares with the threads. *)
process == <<pState, clean, died, finalStatus>>

PCs == {"lock", "conflicts", "deps", "depLock", "depHeld", "depSleep", "depWait",
        "depResult", "exec", "running", "evaluate", "succeed", "fail", "return", "done"}

TypeOK ==
  /\ conf \in ConfigType
  /\ errors \in [Units -> BOOLEAN]
  /\ mutex \in [Units -> Units \cup {None}]
  /\ pState \in [Units -> PStates]
  /\ clean \in [Units -> BOOLEAN]
  /\ died \in [Units -> BOOLEAN]
  /\ finalStatus \in [Units -> Finals]
  /\ pc \in [Units -> PCs]
  /\ idx \in [Units -> Nat \ {0}]
  /\ begun \in [Units -> BOOLEAN]
  /\ announced \in [Units -> Finals]
  /\ returned \in [Units -> Finals]
  /\ result \in Finals
  /\ wakeups \in 0..MaxWakeups

Kind(u)     == conf.kind[u]
Requires(u) == conf.requires[u]
Conflicts(u) == conf.conflicts[u]

(* The dependency and the conflict the thread of u is looking at. *)
Dep(u)      == Requires(u)[idx[u]]
Conflict(u) == Conflicts(u)[idx[u]]

(* What loadUnits leaves in unit->errors. *)
LoadError(c, u) == \/ c.bad[u]
                   \/ CheckRequires(c.requires, u)
                   \/ CheckConflicts(c.requires, c.conflicts, c.first, u)

Init ==
  /\ conf \in Configs
  /\ errors = [u \in Units |-> LoadError(conf, u)]
  /\ mutex = [u \in Units |-> None]
  /\ pState = [u \in Units |-> "dead"]
  /\ clean = [u \in Units |-> FALSE]
  /\ died = [u \in Units |-> FALSE]
  /\ finalStatus = [u \in Units |-> "ready"]
  /\ pc = [u \in Units |-> "lock"]
  /\ idx = [u \in Units |-> 1]
  /\ begun = [u \in Units |-> FALSE]
  /\ announced = [u \in Units |-> "ready"]
  /\ returned = [u \in Units |-> "ready"]
  /\ result = "ready"
  /\ wakeups = 0
-----------------------------------------------------------------------------
(* The thread of u moves from one program point to another. *)
Goto(u, from, to) == pc[u] = from /\ pc' = [pc EXCEPT ![u] = to]

(* The thread of u gives up: an error is added to its unit, which fails. *)
Abort(u, from) == /\ Goto(u, from, "evaluate")
                  /\ errors' = [errors EXCEPT ![u] = TRUE]
                  /\ finalStatus' = [finalStatus EXCEPT ![u] = "failure"]

(* Seeded bug: the loop over an array stops one element too early. *)
BugExhausted(list, i) == i >= Len(list)

(* The loop over an array of names is over. *)
Exhausted(list, i) == i \notin DOMAIN list

(* The thread takes the mutex of its own unit; a unit with configuration   *)
(* errors goes straight to the end.                                        *)
Lock(u) ==
  /\ mutex[u] = None
  /\ mutex' = [mutex EXCEPT ![u] = u]
  /\ IF errors[u]
     THEN /\ Goto(u, "lock", "evaluate")
          /\ finalStatus' = [finalStatus EXCEPT ![u] = "failure"]
     ELSE Goto(u, "lock", "conflicts") /\ UNCHANGED finalStatus
  /\ UNCHANGED <<conf, errors, pState, clean, died, idx, begun, announced, returned, result, wakeups>>

(* Seeded bug: only a process that has already been run is a conflict. *)
BugBlocks(c) == c \in Units /\ pState[c] # "dead"

(* A unit of the array that is not stopped with success forbids the start  *)
(* of the units that name it as a conflict.                                *)
Blocks(c) == c \in Units /\ ~(pState[c] = "dead" /\ finalStatus[c] = "success")

ConflictFound(u) ==
  /\ Abort(u, "conflicts")
  /\ idx[u] \in DOMAIN Conflicts(u)
  /\ Blocks(Conflict(u))
  /\ UNCHANGED <<conf, mutex, pState, clean, died, idx, begun, announced, returned, result, wakeups>>

ConflictAbsent(u) ==
  /\ pc[u] = "conflicts"
  /\ idx[u] \in DOMAIN Conflicts(u)
  /\ ~Blocks(Conflict(u))
  /\ idx' = [idx EXCEPT ![u] = @ + 1]
  /\ UNCHANGED <<conf, errors, mutex, process, pc, begun, announced, returned, result, wakeups>>

(* Seeded bug: the position is reset as if the first one were zero. *)
BugConflictsDone(u) ==
  /\ Goto(u, "conflicts", "deps")
  /\ Exhausted(Conflicts(u), idx[u])
  /\ idx' = [idx EXCEPT ![u] = 0]
  /\ UNCHANGED <<conf, errors, mutex, process, begun, announced, returned, result, wakeups>>

ConflictsDone(u) ==
  /\ Goto(u, "conflicts", "deps")
  /\ Exhausted(Conflicts(u), idx[u])
  /\ idx' = [idx EXCEPT ![u] = 1]
  /\ UNCHANGED <<conf, errors, mutex, process, begun, announced, returned, result, wakeups>>
-----------------------------------------------------------------------------
(* A dependency must be in the array and have no errors. *)
Usable(d) == d \in Units /\ ~errors[d]

DepUnusable(u) ==
  /\ Abort(u, "deps")
  /\ idx[u] \in DOMAIN Requires(u)
  /\ ~Usable(Dep(u))
  /\ UNCHANGED <<conf, mutex, pState, clean, died, idx, begun, announced, returned, result, wakeups>>

(* Seeded bug: a dependency whose command has been run counts as decided. *)
BugDecided(d) == finalStatus[d] # "ready" \/ pState[d] # "dead"

(* The dependency has a result. *)
Decided(d) == finalStatus[d] # "ready"

(* Seeded bug: the process is looked at instead of the result. *)
BugStarted(d) == pState[d] \in {"running", "exited"}

Started(d) == finalStatus[d] = "success"

(* finalStatus of the dependency is read with no lock held: when it is     *)
(* still ready the thread will wait for it, otherwise it is taken as is.   *)
DepRead(u) ==
  /\ pc[u] = "deps" /\ idx[u] \in DOMAIN Requires(u)
  /\ Usable(Dep(u))
  /\ Goto(u, "deps", IF Decided(Dep(u)) THEN "depResult" ELSE "depLock")
  /\ UNCHANGED <<conf, errors, mutex, process, idx, begun, announced, returned, result, wakeups>>

LockDep(u) ==
  /\ Goto(u, "depLock", "depHeld")
  /\ mutex[Dep(u)] = None
  /\ mutex' = [mutex EXCEPT ![Dep(u)] = u]
  /\ UNCHANGED <<conf, errors, process, idx, begun, announced, returned, result, wakeups>>

(* The result is looked at under the mutex of the dependency ... *)
DepNotReady(u) ==
  /\ Goto(u, "depHeld", "depSleep")
  /\ ~Decided(Dep(u))
  /\ UNCHANGED <<conf, errors, mutex, process, idx, begun, announced, returned, result, wakeups>>

(* ... and pthread_cond_wait, a later step, releases that mutex and sleeps *)
(* in one; a thread that is woken starts again from the mutex.             *)
WaitDep(u) ==
  /\ Goto(u, "depSleep", "depWait")
  /\ mutex' = [mutex EXCEPT ![Dep(u)] = None]
  /\ UNCHANGED <<conf, errors, process, idx, begun, announced, returned, result, wakeups>>

DepDecided(u) ==
  /\ Goto(u, "depHeld", "depResult")
  /\ Decided(Dep(u))
  /\ mutex' = [mutex EXCEPT ![Dep(u)] = None]
  /\ UNCHANGED <<conf, errors, process, idx, begun, announced, returned, result, wakeups>>

(* POSIX lets pthread_cond_wait return without a broadcast. *)
SpuriousWakeup(u) ==
  /\ wakeups < MaxWakeups
  /\ Goto(u, "depWait", "depLock")
  /\ wakeups' = wakeups + 1
  /\ UNCHANGED <<conf, errors, mutex, process, idx, begun, announced, returned, result>>

DepSatisfied(u) ==
  /\ Goto(u, "depResult", "deps")
  /\ Started(Dep(u))
  /\ idx' = [idx EXCEPT ![u] = @ + 1]
  /\ UNCHANGED <<conf, errors, mutex, process, begun, announced, returned, result, wakeups>>

DepFailed(u) ==
  /\ Abort(u, "depResult")
  /\ ~Started(Dep(u))
  /\ pState' = [pState EXCEPT ![u] = "dead"]
  /\ UNCHANGED <<conf, mutex, clean, died, idx, begun, announced, returned, result, wakeups>>

DepsDone(u) ==
  /\ Goto(u, "deps", "exec")
  /\ Exhausted(Requires(u), idx[u])
  /\ UNCHANGED <<conf, errors, mutex, process, idx, begun, announced, returned, result, wakeups>>
-----------------------------------------------------------------------------
(* The command is forked, or the timer or notifier thread is created. *)
Execute(u) ==
  /\ Goto(u, "exec", "running")
  /\ begun' = [begun EXCEPT ![u] = TRUE]
  /\ UNCHANGED <<conf, errors, mutex, process, idx, announced, returned, result, wakeups>>

(* What execProcess, startTimerUnit and startNotifier can leave: a state,  *)
(* a cleanness, and whether the handler has recorded a death meanwhile.    *)
(* The death of a daemon is lost when it comes before the pid is known     *)
(* (dead), or when RUNNING is written over it (running).                   *)
Outcomes(kind) ==
  {<<"dead", FALSE, FALSE>>}
  \cup (IF kind = "oneshot"
        THEN {<<"exited", TRUE, FALSE>>, <<"exited", FALSE, FALSE>>, <<"killed", FALSE, FALSE>>}
        ELSE {<<"running", TRUE, FALSE>>})
  \cup (IF kind = "daemon"
        THEN {<<"exited", FALSE, TRUE>>, <<"killed", TRUE, TRUE>>,
              <<"running", FALSE, TRUE>>, <<"running", TRUE, TRUE>>}
        ELSE {})

(* A oneshot that exceeds its time is killed and gets an error. *)
Executed(u) ==
  /\ Goto(u, "running", "evaluate")
  /\ \E state \in PStates, ok \in BOOLEAN, dies \in BOOLEAN :
       /\ <<state, ok, dies>> \in Outcomes(Kind(u))
       /\ pState' = [pState EXCEPT ![u] = state]
       /\ clean' = [clean EXCEPT ![u] = ok]
       /\ died' = [died EXCEPT ![u] = dies]
       /\ finalStatus' = IF dies THEN [finalStatus EXCEPT ![u] = "failure"] ELSE finalStatus
       /\ errors' = [errors EXCEPT ![u] = @ \/ (Kind(u) = "oneshot" /\ state = "killed")]
  /\ UNCHANGED <<conf, mutex, idx, begun, announced, returned, result, wakeups>>

(* The test behind the final status ... *)
Succeeded(u) == clean[u] /\ pState[u] = (IF Kind(u) = "oneshot" THEN "exited" ELSE "running")

Evaluate(u) ==
  /\ Goto(u, "evaluate", IF Succeeded(u) THEN "succeed" ELSE "fail")
  /\ UNCHANGED <<conf, errors, mutex, process, idx, begun, announced, returned, result, wakeups>>

(* The threads that wait on the condition variable of u. *)
Waiters(u) == {v \in Units : pc[v] = "depWait" /\ Dep(v) = u}

(* Seeded bug: pthread_cond_signal in the place of the broadcast. *)
BugWoken(u) == IF Waiters(u) = {} THEN {} ELSE {CHOOSE v \in Waiters(u) : TRUE}

(* The threads that go on when the result of u is known: all of them. *)
Woken(u) == Waiters(u)

(* ... and its assignment, the broadcast and the unlock, which no other    *)
(* thread can tell apart: whoever waits for them needs the mutex of u.     *)
Announce(u, from, status) ==
  /\ pc[u] = from
  /\ finalStatus' = [finalStatus EXCEPT ![u] = status]
  /\ announced' = [announced EXCEPT ![u] = status]
  /\ pc' = [v \in Units |-> IF v = u THEN "return"
                            ELSE IF v \in Woken(u) THEN "depLock" ELSE pc[v]]
  /\ mutex' = [mutex EXCEPT ![u] = None]
  /\ UNCHANGED <<conf, errors, pState, clean, died, idx, begun, returned, result, wakeups>>

AnnounceSuccess(u) == Announce(u, "succeed", "success")
AnnounceFailure(u) == Announce(u, "fail", "failure")

(* The value the thread returns is read after the unlock. *)
Return(u) ==
  /\ Goto(u, "return", "done")
  /\ returned' = [returned EXCEPT ![u] = finalStatus[u]]
  /\ UNCHANGED <<conf, errors, mutex, process, idx, begun, announced, result, wakeups>>

(* Seeded bug: the loop of the joins keeps the last value only. *)
BugBatchResult == returned[Order[Len(Order)]]

BatchResult == IF \E u \in Units : returned[u] = "failure" THEN "failure" ELSE "success"

(* startProcesses has joined every thread. *)
Join ==
  /\ result = "ready"
  /\ \A u \in Units : pc[u] = "done"
  /\ result' = BatchResult
  /\ UNCHANGED <<conf, errors, mutex, process, pc, idx, begun, announced, returned, wakeups>>
-----------------------------------------------------------------------------
(* signalsHandler: a daemon that was left running exits or is killed. *)
DaemonDies(u) ==
  /\ Kind(u) = "daemon" /\ pState[u] = "running" /\ ~died[u]
  /\ died' = [died EXCEPT ![u] = TRUE]
  /\ \E s \in {"exited", "killed"} :
       /\ pState' = [pState EXCEPT ![u] = s]
       /\ clean' = [clean EXCEPT ![u] = (s = "killed")]
  /\ finalStatus' = [finalStatus EXCEPT ![u] = "failure"]
  /\ UNCHANGED <<conf, errors, mutex, pc, idx, begun, announced, returned, result, wakeups>>

(* The steps of the thread of u that the scheduler owes it. *)
Thread(u) ==
  \/ Lock(u)
  \/ ConflictFound(u) \/ ConflictAbsent(u) \/ ConflictsDone(u)
  \/ DepUnusable(u) \/ DepRead(u) \/ LockDep(u)
  \/ DepNotReady(u) \/ WaitDep(u) \/ DepDecided(u)
  \/ DepSatisfied(u) \/ DepFailed(u) \/ DepsDone(u)
  \/ Execute(u) \/ Executed(u) \/ Evaluate(u)
  \/ AnnounceSuccess(u) \/ AnnounceFailure(u) \/ Return(u)

Joined == result # "ready"

(* Once joined the batch is over; the loop keeps TLC from calling it a deadlock. *)
Finished == Joined /\ UNCHANGED vars

Next ==
  \/ \E u \in Units : Thread(u) \/ SpuriousWakeup(u) \/ DaemonDies(u)
  \/ Join
  \/ Finished

Spec == Init /\ [][Next]_vars

(* The threads are scheduled, every command ends (a oneshot is killed      *)
(* after 15 s, a daemon is only polled once) and no mutex is kept for ever *)
(* by a thread that could release it.                                      *)
Fairness == WF_vars(Join) /\ \A u \in Units : WF_vars(Thread(u))

FairSpec == Spec /\ Fairness
-----------------------------------------------------------------------------
(* No lost wake-up: a thread sleeping on the condition variable of a       *)
(* dependency has its broadcast still to come (process.c:105-133, 222).    *)
NoLostWakeup ==
  \A u \in Units : pc[u] = "depWait" =>
    /\ Dep(u) \in Units
    /\ announced[Dep(u)] = "ready"
    /\ pc[Dep(u)] \notin {"return", "done"}

(* Start order: the command of a unit is executed only after every unit it *)
(* requires has announced success (process.c:80-157).                      *)
DependenciesFirst ==
  \A u \in Units : begun[u] =>
    \A i \in DOMAIN Requires(u) :
      Requires(u)[i] \in Units /\ announced[Requires(u)[i]] = "success"

(* Two units of the batch in conflict never both execute their command,    *)
(* even when only one of them names the other (process.c:59-78).           *)
ConflictExclusion ==
  \A u \in Units : \A i \in DOMAIN Conflicts(u) :
    begun[u] /\ Conflicts(u)[i] \in Units => ~begun[Conflicts(u)[i]]

(* A unit that fails without having executed its command has a cause: an   *)
(* error of its own file, a conflict in the batch, or a dependency that is *)
(* missing, broken, failed or has died (process.c:47-155).  A dead         *)
(* dependency may well show a final status of success: the handler can     *)
(* record the death between the test of Evaluate and the assignment.       *)
Cause(u) ==
  \/ LoadError(conf, u)
  \/ \E i \in DOMAIN Conflicts(u) : Conflicts(u)[i] \in Units
  \/ \E i \in DOMAIN Requires(u) : LET dep == Requires(u)[i] IN
       \/ dep \notin Units
       \/ errors[dep]
       \/ announced[dep] = "failure"
       \/ died[dep]

FailureHasCause == \A u \in Units : announced[u] = "failure" /\ ~begun[u] => Cause(u)

(* When startProcesses returns 0 every unit of the batch has announced     *)
(* success: the init state trusts it to go on (process.c:301-307,          *)
(* init.c:132).                                                            *)
ResultIsTruthful == result = "success" => \A u \in Units : announced[u] = "success"

(* The start of a batch ends: no thread waits for ever for another one     *)
(* (units.c:539-543, 552-558).                                             *)
StartCompletes == <>Joined

(* The start order of StartOrder, read off the state of the threads. *)
Abstract == INSTANCE StartOrder WITH
  needs <- [u \in Units |-> ToSet(conf.requires[u])],
  phase <- [u \in Units |-> IF announced[u] = "success" THEN "started"
                            ELSE IF announced[u] = "failure" THEN "failed"
                            ELSE IF begun[u] THEN "executing" ELSE "pending"]

(* Every fair start is a start StartOrder allows, and every unit settles. *)
ImplementsStartOrder == Abstract!Spec
=============================================================================
