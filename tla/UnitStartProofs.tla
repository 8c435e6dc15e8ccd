-------------------------- MODULE UnitStartProofs --------------------------
(***************************************************************************)
(* The safety properties of UnitStart, for every set of units, every load  *)
(* order and every configuration the unit files may give.                  *)
(***************************************************************************)
EXTENDS UnitStart, TLAPS

(* The cases of Next, named once for every invariant. *)
Step(u) == Thread(u) \/ SpuriousWakeup(u) \/ DaemonDies(u)

LEMMA Steps ==
  ASSUME [Next]_vars
  PROVE  \/ \E u \in Units : Step(u)
         \/ Join
         \/ UNCHANGED vars
  BY DEF Next, Step, Finished

(* The units are loaded with variables of the right types. *)
LEMMA InitTypeOK == Init => TypeOK
  BY StartAssumption DEF Init, TypeOK, Finals, PStates, PCs, LoadError, CheckRequires, CheckConflicts

(* Every step keeps the types. *)
LEMMA StepTypeOK ==
  ASSUME TypeOK, [Next]_vars
  PROVE  TypeOK'
<1> USE DEF TypeOK
<1>1. ASSUME NEW u \in Units, Lock(u) PROVE TypeOK'
  BY <1>1 DEF Lock, Goto, PCs, Finals
<1>2. ASSUME NEW u \in Units, ConflictFound(u) PROVE TypeOK'
  BY <1>2 DEF ConflictFound, Abort, Goto, PCs, Finals
<1>3. ASSUME NEW u \in Units, ConflictAbsent(u) PROVE TypeOK'
  BY <1>3 DEF ConflictAbsent, process
<1>4. ASSUME NEW u \in Units, ConflictsDone(u) PROVE TypeOK'
  BY <1>4 DEF ConflictsDone, Goto, PCs, process
<1>5. ASSUME NEW u \in Units, DepUnusable(u) PROVE TypeOK'
  BY <1>5 DEF DepUnusable, Abort, Goto, PCs, Finals
<1>6. ASSUME NEW u \in Units, DepRead(u) PROVE TypeOK'
  BY <1>6 DEF DepRead, Goto, PCs, process
<1>7. ASSUME NEW u \in Units, LockDep(u) PROVE TypeOK'
  BY <1>7 DEF LockDep, Goto, PCs, process
<1>8. ASSUME NEW u \in Units, DepNotReady(u) PROVE TypeOK'
  BY <1>8 DEF DepNotReady, Goto, PCs, process
<1>9. ASSUME NEW u \in Units, WaitDep(u) PROVE TypeOK'
  BY <1>9 DEF WaitDep, Goto, PCs, process
<1>10. ASSUME NEW u \in Units, DepDecided(u) PROVE TypeOK'
  BY <1>10 DEF DepDecided, Goto, PCs, process
<1>11. ASSUME NEW u \in Units, DepSatisfied(u) PROVE TypeOK'
  BY <1>11 DEF DepSatisfied, Goto, PCs, process
<1>12. ASSUME NEW u \in Units, DepFailed(u) PROVE TypeOK'
  BY <1>12 DEF DepFailed, Abort, Goto, PCs, PStates, Finals
<1>13. ASSUME NEW u \in Units, DepsDone(u) PROVE TypeOK'
  BY <1>13 DEF DepsDone, Goto, PCs, process
<1>14. ASSUME NEW u \in Units, Execute(u) PROVE TypeOK'
  BY <1>14 DEF Execute, Goto, PCs, process
<1>15. ASSUME NEW u \in Units, Executed(u) PROVE TypeOK'
  BY <1>15 DEF Executed, Goto, PCs, Finals
<1>16. ASSUME NEW u \in Units, Evaluate(u) PROVE TypeOK'
  BY <1>16 DEF Evaluate, Goto, PCs, process
<1>17. ASSUME NEW u \in Units, NEW f, NEW s \in Finals, Announce(u, f, s) PROVE TypeOK'
  BY <1>17 DEF Announce, PCs
<1>18. ASSUME NEW u \in Units, Return(u) PROVE TypeOK'
  BY <1>18 DEF Return, Goto, PCs, process
<1>19. ASSUME NEW u \in Units, SpuriousWakeup(u) PROVE TypeOK'
  BY <1>19, StartAssumption DEF SpuriousWakeup, Goto, PCs, process
<1>20. ASSUME NEW u \in Units, DaemonDies(u) PROVE TypeOK'
  BY <1>20 DEF DaemonDies, PStates, Finals
<1>21. CASE Join
  BY <1>21 DEF Join, BatchResult, Finals, process
<1>22. CASE UNCHANGED vars
  BY <1>22 DEF vars
<1>23. ASSUME NEW u \in Units, AnnounceSuccess(u) \/ AnnounceFailure(u) PROVE TypeOK'
  BY <1>17, <1>23 DEF AnnounceSuccess, AnnounceFailure, Finals
<1> QED
  BY Steps, <1>1, <1>2, <1>3, <1>4, <1>5, <1>6, <1>7, <1>8, <1>9, <1>10, <1>11, <1>12, <1>13,
     <1>14, <1>15, <1>16, <1>18, <1>19, <1>20, <1>21, <1>22, <1>23 DEF Step, Thread

(* The variables keep their types: no thread runs off the arrays it walks  *)
(* (process.c:59-157), and the states are those of process.c:158-248.      *)
THEOREM Typing == Spec => []TypeOK
<1>1. TypeOK /\ [Next]_vars => TypeOK'
  BY StepTypeOK
<1> QED
  BY InitTypeOK, <1>1, PTL DEF Spec
-----------------------------------------------------------------------------
(* The program points at which the thread of a unit owns its mutex, at     *)
(* which it looks at one dependency, and at which it is past the command.  *)
Inside  == PCs \ {"lock", "return", "done"}
Waiting == {"depLock", "depHeld", "depSleep", "depWait", "depResult"}
Before  == {"lock", "conflicts", "deps", "exec"} \cup Waiting
Over    == {"return", "done"}

(* The announcement is made once, on the way to the return; a final status *)
(* of success has been announced.                                          *)
Announced ==
  \A u \in Units :
    /\ announced[u] # "ready" <=> pc[u] \in Over
    /\ announced[u] # "ready" => finalStatus[u] # "ready"
    /\ finalStatus[u] = "success" => announced[u] = "success"

(* No process has a state before the command is executed, and what is      *)
(* announced as a success has not been seen dead.                          *)
Executions ==
  \A u \in Units :
    /\ begun[u] => pc[u] \notin Before
    /\ pc[u] = "running" => begun[u]
    /\ ~begun[u] \/ pc[u] = "running" => pState[u] = "dead" /\ ~clean[u] /\ ~died[u]
    /\ pc[u] = "succeed" \/ finalStatus[u] = "success" => pState[u] # "dead" /\ begun[u]

(* The walk over Requires: what is behind the position has succeeded. *)
Walk ==
  \A u \in Units :
    /\ pc[u] \in Waiting => idx[u] \in DOMAIN Requires(u) /\ Dep(u) \in Units
    /\ pc[u] \in Waiting \cup {"deps"} =>
         \A i \in DOMAIN Requires(u) : i < idx[u] =>
           Requires(u)[i] \in Units /\ announced[Requires(u)[i]] = "success"
    /\ pc[u] \in {"exec", "running"} \/ begun[u] =>
         \A i \in DOMAIN Requires(u) :
           Requires(u)[i] \in Units /\ announced[Requires(u)[i]] = "success"

(* Who owns which mutex, and what a thread about to sleep or asleep knows. *)
Mutexes ==
  \A u \in Units :
    /\ pc[u] \in Inside => mutex[u] = u
    /\ pc[u] \in {"depHeld", "depSleep"} => mutex[Dep(u)] = u /\ Dep(u) # u
    /\ pc[u] \in {"depSleep", "depWait"} => announced[Dep(u)] = "ready"

(* The walk over Conflicts: whoever gets past it has none in the batch. *)
Unconflicted ==
  \A u \in Units :
    /\ pc[u] = "lock" => idx[u] = 1
    /\ pc[u] = "conflicts" =>
         \A i \in DOMAIN Conflicts(u) : i < idx[u] => Conflicts(u)[i] \notin Units
    /\ pc[u] \in Waiting \cup {"deps", "exec", "running"} \/ begun[u] =>
         \A i \in DOMAIN Conflicts(u) : Conflicts(u)[i] \notin Units

(* Why a unit is failing: a final status of failure has a reason, and a    *)
(* thread that is over without a command executed has a cause.             *)
Reasons ==
  \A u \in Units :
    /\ pc[u] = "lock" /\ errors[u] => LoadError(conf, u)
    /\ finalStatus[u] = "failure" => announced[u] = "failure" \/ errors[u] \/ died[u]
    /\ pc[u] = "depResult" => finalStatus[Dep(u)] # "ready"
    /\ pc[u] \in {"evaluate", "succeed", "fail", "return", "done"} /\ ~begun[u] => Cause(u)

(* What the threads return, and what the join makes of it. *)
Results ==
  /\ \A u \in Units : /\ pc[u] = "done" => returned[u] # "ready"
                      /\ returned[u] = "success" => announced[u] = "success"
  /\ ResultIsTruthful

IInv == TypeOK /\ Announced /\ Executions /\ Walk /\ Mutexes /\ Unconflicted /\ Reasons /\ Results

(* The arrays of names are sequences. *)
LEMMA NameLists ==
  ASSUME TypeOK, NEW u \in Units
  PROVE  /\ Len(Requires(u)) \in Nat /\ DOMAIN Requires(u) = 1..Len(Requires(u))
         /\ Len(Conflicts(u)) \in Nat /\ DOMAIN Conflicts(u) = 1..Len(Conflicts(u))
  BY DEF TypeOK, ConfigType, Requires, Conflicts

(* A cause does not go away. *)
LEMMA CauseStays ==
  ASSUME TypeOK, NEW v \in Units, Cause(v), conf' = conf,
         \A d \in Units :
           /\ errors[d] => errors'[d]
           /\ announced[d] = "failure" => announced'[d] = "failure"
           /\ died[d] => died'[d]
  PROVE  Cause(v)'
  BY DEF Cause, Requires, Conflicts

(* What an announcement changes: the thread of the unit goes on to return,  *)
(* and of the other threads those it wakes go back to the mutex.           *)
LEMMA Announcing ==
  ASSUME TypeOK, NEW u \in Units, NEW from, NEW status, Announce(u, from, status)
  PROVE  /\ pc[u] = from /\ pc'[u] = "return"
         /\ finalStatus' = [finalStatus EXCEPT ![u] = status]
         /\ announced' = [announced EXCEPT ![u] = status]
         /\ mutex' = [mutex EXCEPT ![u] = None]
         /\ \A v \in Units \ {u} :
              \/ pc'[v] = pc[v] /\ ~(pc[v] = "depWait" /\ Dep(v) = u)
              \/ pc[v] = "depWait" /\ Dep(v) = u /\ pc'[v] = "depLock"
         /\ UNCHANGED <<conf, errors, pState, clean, died, idx, begun, returned, result, wakeups>>
  BY DEF Announce, Woken, Waiters, TypeOK

(* Announced is preserved: only the thread of a unit announces, and the     *)
(* handler can only turn a final status into a failure.                    *)
LEMMA AnnouncedInv ==
  ASSUME TypeOK, Announced, Executions, [Next]_vars
  PROVE  Announced'
<1> USE DEF TypeOK, Announced, Over, Finals, PCs
<1>1. ASSUME NEW u \in Units, Lock(u) PROVE Announced'
  BY <1>1 DEF Lock, Goto
<1>2. ASSUME NEW u \in Units, ConflictFound(u) PROVE Announced'
  BY <1>2 DEF ConflictFound, Abort, Goto
<1>3. ASSUME NEW u \in Units, ConflictAbsent(u) PROVE Announced'
  BY <1>3 DEF ConflictAbsent, process
<1>4. ASSUME NEW u \in Units, ConflictsDone(u) PROVE Announced'
  BY <1>4 DEF ConflictsDone, Exhausted, Goto, process
<1>5. ASSUME NEW u \in Units, DepUnusable(u) PROVE Announced'
  BY <1>5 DEF DepUnusable, Abort, Goto
<1>6. ASSUME NEW u \in Units, DepRead(u) PROVE Announced'
  BY <1>6 DEF DepRead, Goto, process
<1>7. ASSUME NEW u \in Units, LockDep(u) PROVE Announced'
  BY <1>7 DEF LockDep, Goto, process
<1>8. ASSUME NEW u \in Units, DepNotReady(u) PROVE Announced'
  BY <1>8 DEF DepNotReady, Goto, process
<1>9. ASSUME NEW u \in Units, WaitDep(u) PROVE Announced'
  BY <1>9 DEF WaitDep, Goto, process
<1>10. ASSUME NEW u \in Units, DepDecided(u) PROVE Announced'
  BY <1>10 DEF DepDecided, Goto, process
<1>11. ASSUME NEW u \in Units, DepSatisfied(u) PROVE Announced'
  BY <1>11 DEF DepSatisfied, Goto, process
<1>12. ASSUME NEW u \in Units, DepFailed(u) PROVE Announced'
  BY <1>12 DEF DepFailed, Abort, Goto
<1>13. ASSUME NEW u \in Units, DepsDone(u) PROVE Announced'
  BY <1>13 DEF DepsDone, Exhausted, Goto, process
<1>14. ASSUME NEW u \in Units, Execute(u) PROVE Announced'
  BY <1>14 DEF Execute, Goto, process
<1>15. ASSUME NEW u \in Units, Executed(u) PROVE Announced'
  BY <1>15 DEF Executed, Goto
<1>16. ASSUME NEW u \in Units, Evaluate(u) PROVE Announced'
  BY <1>16 DEF Evaluate, Goto, process
<1>17. ASSUME NEW u \in Units, AnnounceSuccess(u) PROVE Announced'
  BY <1>17, Announcing DEF AnnounceSuccess
<1>18. ASSUME NEW u \in Units, AnnounceFailure(u) PROVE Announced'
  BY <1>18, Announcing DEF AnnounceFailure
<1>19. ASSUME NEW u \in Units, Return(u) PROVE Announced'
  BY <1>19 DEF Return, Goto, process
<1>20. ASSUME NEW u \in Units, SpuriousWakeup(u) PROVE Announced'
  BY <1>20 DEF SpuriousWakeup, Goto, process
<1>21. ASSUME NEW u \in Units, DaemonDies(u) PROVE Announced'
  BY <1>21 DEF DaemonDies
<1>22. CASE Join
  BY <1>22 DEF Join, process
<1>23. CASE UNCHANGED vars
  BY <1>23 DEF vars
<1> QED
  BY Steps, <1>1, <1>2, <1>3, <1>4, <1>5, <1>6, <1>7, <1>8, <1>9, <1>10, <1>11, <1>12,
     <1>13, <1>14, <1>15, <1>16, <1>17, <1>18, <1>19, <1>20, <1>21, <1>22, <1>23 DEF Step, Thread

(* Executions is preserved: no state is written before the command begins. *)
LEMMA ExecutionsInv ==
  ASSUME TypeOK, Announced, Executions, [Next]_vars
  PROVE  Executions'
<1> USE DEF TypeOK, Announced, Executions, Before, Waiting, Over
<1>1. ASSUME NEW u \in Units, Lock(u) PROVE Executions'
  BY <1>1 DEF Lock, Goto
<1>2. ASSUME NEW u \in Units, ConflictFound(u) PROVE Executions'
  BY <1>2 DEF ConflictFound, Abort, Goto
<1>3. ASSUME NEW u \in Units, ConflictAbsent(u) PROVE Executions'
  BY <1>3 DEF ConflictAbsent, process
<1>4. ASSUME NEW u \in Units, ConflictsDone(u) PROVE Executions'
  BY <1>4 DEF ConflictsDone, Exhausted, Goto, process
<1>5. ASSUME NEW u \in Units, DepUnusable(u) PROVE Executions'
  BY <1>5 DEF DepUnusable, Abort, Goto
<1>6. ASSUME NEW u \in Units, DepRead(u) PROVE Executions'
  BY <1>6 DEF DepRead, Goto, process
<1>7. ASSUME NEW u \in Units, LockDep(u) PROVE Executions'
  BY <1>7 DEF LockDep, Goto, process
<1>8. ASSUME NEW u \in Units, DepNotReady(u) PROVE Executions'
  BY <1>8 DEF DepNotReady, Goto, process
<1>9. ASSUME NEW u \in Units, WaitDep(u) PROVE Executions'
  BY <1>9 DEF WaitDep, Goto, process
<1>10. ASSUME NEW u \in Units, DepDecided(u) PROVE Executions'
  BY <1>10 DEF DepDecided, Goto, process
<1>11. ASSUME NEW u \in Units, DepSatisfied(u) PROVE Executions'
  BY <1>11 DEF DepSatisfied, Goto, process
<1>12. ASSUME NEW u \in Units, DepFailed(u) PROVE Executions'
  BY <1>12 DEF DepFailed, Abort, Goto
<1>13. ASSUME NEW u \in Units, DepsDone(u) PROVE Executions'
  BY <1>13 DEF DepsDone, Exhausted, Goto, process
<1>14. ASSUME NEW u \in Units, Execute(u) PROVE Executions'
  BY <1>14 DEF Execute, Goto, process
<1>15. ASSUME NEW u \in Units, Executed(u) PROVE Executions'
  BY <1>15 DEF Executed, Goto, Outcomes
<1>16. ASSUME NEW u \in Units, Evaluate(u) PROVE Executions'
  BY <1>16 DEF Evaluate, Goto, process, Succeeded
<1>17. ASSUME NEW u \in Units, AnnounceSuccess(u) PROVE Executions'
  BY <1>17, Announcing DEF AnnounceSuccess
<1>18. ASSUME NEW u \in Units, AnnounceFailure(u) PROVE Executions'
  BY <1>18, Announcing DEF AnnounceFailure
<1>19. ASSUME NEW u \in Units, Return(u) PROVE Executions'
  BY <1>19 DEF Return, Goto, process
<1>20. ASSUME NEW u \in Units, SpuriousWakeup(u) PROVE Executions'
  BY <1>20 DEF SpuriousWakeup, Goto, process
<1>21. ASSUME NEW u \in Units, DaemonDies(u) PROVE Executions'
  BY <1>21 DEF DaemonDies
<1>22. CASE Join
  BY <1>22 DEF Join, process
<1>23. CASE UNCHANGED vars
  BY <1>23 DEF vars
<1> QED
  BY Steps, <1>1, <1>2, <1>3, <1>4, <1>5, <1>6, <1>7, <1>8, <1>9, <1>10, <1>11, <1>12,
     <1>13, <1>14, <1>15, <1>16, <1>17, <1>18, <1>19, <1>20, <1>21, <1>22, <1>23 DEF Step, Thread

(* Walk is preserved: an announced success is never taken back.            *)
LEMMA WalkInv ==
  ASSUME TypeOK, Announced, Executions, Walk, [Next]_vars
  PROVE  Walk'
<1> USE DEF TypeOK, Walk, Waiting, Dep, Requires
<1>1. ASSUME NEW u \in Units, Lock(u) PROVE Walk'
  BY <1>1 DEF Lock, Goto, Executions, Before
<1>2. ASSUME NEW u \in Units, ConflictFound(u) PROVE Walk'
  BY <1>2 DEF ConflictFound, Abort, Goto
<1>3. ASSUME NEW u \in Units, ConflictAbsent(u) PROVE Walk'
  BY <1>3 DEF ConflictAbsent, process
<1>4. ASSUME NEW u \in Units, ConflictsDone(u) PROVE Walk'
  BY <1>4, NameLists DEF ConflictsDone, Exhausted, Goto, process, Executions, Before
<1>5. ASSUME NEW u \in Units, DepUnusable(u) PROVE Walk'
  BY <1>5 DEF DepUnusable, Abort, Goto
<1>6. ASSUME NEW u \in Units, DepRead(u) PROVE Walk'
  BY <1>6 DEF DepRead, Goto, process, Usable
<1>7. ASSUME NEW u \in Units, LockDep(u) PROVE Walk'
  BY <1>7 DEF LockDep, Goto, process
<1>8. ASSUME NEW u \in Units, DepNotReady(u) PROVE Walk'
  BY <1>8 DEF DepNotReady, Goto, process
<1>9. ASSUME NEW u \in Units, WaitDep(u) PROVE Walk'
  BY <1>9 DEF WaitDep, Goto, process
<1>10. ASSUME NEW u \in Units, DepDecided(u) PROVE Walk'
  BY <1>10 DEF DepDecided, Goto, process
<1>11. ASSUME NEW u \in Units, DepSatisfied(u) PROVE Walk'
  BY <1>11, NameLists DEF DepSatisfied, Goto, process, Announced, Started
<1>12. ASSUME NEW u \in Units, DepFailed(u) PROVE Walk'
  BY <1>12 DEF DepFailed, Abort, Goto
<1>13. ASSUME NEW u \in Units, DepsDone(u) PROVE Walk'
  <2>1. UNCHANGED <<idx, begun, conf, announced>> /\ pc[u] = "deps" /\ ~begun[u]
    BY <1>13 DEF DepsDone, Goto, process, Executions, Before
  <2>2. pc'[u] = "exec" /\ \A v \in Units \ {u} : pc'[v] = pc[v]
    BY <1>13 DEF DepsDone, Goto
  <2>3. \A i \in DOMAIN Requires(u) : i < idx[u]
    BY <1>13, NameLists DEF DepsDone, Exhausted
  <2> QED
    BY <2>1, <2>2, <2>3
<1>14. ASSUME NEW u \in Units, Execute(u) PROVE Walk'
  BY <1>14 DEF Execute, Goto, process, Executions, Before
<1>15. ASSUME NEW u \in Units, Executed(u) PROVE Walk'
  BY <1>15 DEF Executed, Goto, Executions, Before
<1>16. ASSUME NEW u \in Units, Evaluate(u) PROVE Walk'
  BY <1>16 DEF Evaluate, Goto, process
<1>17. ASSUME NEW u \in Units, AnnounceSuccess(u) PROVE Walk'
  BY <1>17, Announcing DEF AnnounceSuccess
<1>18. ASSUME NEW u \in Units, AnnounceFailure(u) PROVE Walk'
  BY <1>18, Announcing DEF AnnounceFailure, Announced, Over
<1>19. ASSUME NEW u \in Units, Return(u) PROVE Walk'
  BY <1>19 DEF Return, Goto, process
<1>20. ASSUME NEW u \in Units, SpuriousWakeup(u) PROVE Walk'
  BY <1>20 DEF SpuriousWakeup, Goto, process
<1>21. ASSUME NEW u \in Units, DaemonDies(u) PROVE Walk'
  BY <1>21 DEF DaemonDies
<1>22. CASE Join
  BY <1>22 DEF Join, process
<1>23. CASE UNCHANGED vars
  BY <1>23 DEF vars
<1> QED
  BY Steps, <1>1, <1>2, <1>3, <1>4, <1>5, <1>6, <1>7, <1>8, <1>9, <1>10, <1>11, <1>12,
     <1>13, <1>14, <1>15, <1>16, <1>17, <1>18, <1>19, <1>20, <1>21, <1>22, <1>23 DEF Step, Thread

(* Mutexes is preserved: a mutex is taken only when it is free, and given  *)
(* back only by its owner.                                                 *)
LEMMA MutexesInv ==
  ASSUME TypeOK, Announced, Walk, Mutexes, [Next]_vars
  PROVE  Mutexes'
<1> USE DEF TypeOK, PCs, Inside, Mutexes, Walk, Waiting, Dep, Requires
<1>1. ASSUME NEW u \in Units, Lock(u) PROVE Mutexes'
  BY <1>1, StartAssumption DEF Lock, Goto
<1>2. ASSUME NEW u \in Units, ConflictFound(u) PROVE Mutexes'
  BY <1>2 DEF ConflictFound, Abort, Goto
<1>3. ASSUME NEW u \in Units, ConflictAbsent(u) PROVE Mutexes'
  BY <1>3 DEF ConflictAbsent, process
<1>4. ASSUME NEW u \in Units, ConflictsDone(u) PROVE Mutexes'
  BY <1>4 DEF ConflictsDone, Exhausted, Goto, process
<1>5. ASSUME NEW u \in Units, DepUnusable(u) PROVE Mutexes'
  BY <1>5 DEF DepUnusable, Abort, Goto
<1>6. ASSUME NEW u \in Units, DepRead(u) PROVE Mutexes'
  BY <1>6 DEF DepRead, Goto, process
<1>7. ASSUME NEW u \in Units, LockDep(u) PROVE Mutexes'
  BY <1>7, StartAssumption DEF LockDep, Goto, process
<1>8. ASSUME NEW u \in Units, DepNotReady(u) PROVE Mutexes'
  BY <1>8 DEF DepNotReady, Goto, process, Decided, Announced
<1>9. ASSUME NEW u \in Units, WaitDep(u) PROVE Mutexes'
  BY <1>9, StartAssumption DEF WaitDep, Goto, process
<1>10. ASSUME NEW u \in Units, DepDecided(u) PROVE Mutexes'
  BY <1>10, StartAssumption DEF DepDecided, Goto, process
<1>11. ASSUME NEW u \in Units, DepSatisfied(u) PROVE Mutexes'
  BY <1>11 DEF DepSatisfied, Goto, process
<1>12. ASSUME NEW u \in Units, DepFailed(u) PROVE Mutexes'
  BY <1>12 DEF DepFailed, Abort, Goto
<1>13. ASSUME NEW u \in Units, DepsDone(u) PROVE Mutexes'
  BY <1>13 DEF DepsDone, Exhausted, Goto, process
<1>14. ASSUME NEW u \in Units, Execute(u) PROVE Mutexes'
  BY <1>14 DEF Execute, Goto, process
<1>15. ASSUME NEW u \in Units, Executed(u) PROVE Mutexes'
  BY <1>15 DEF Executed, Goto
<1>16. ASSUME NEW u \in Units, Evaluate(u) PROVE Mutexes'
  BY <1>16 DEF Evaluate, Goto, process
<1>17. ASSUME NEW u \in Units, AnnounceSuccess(u) PROVE Mutexes'
  BY <1>17, Announcing, StartAssumption DEF AnnounceSuccess
<1>18. ASSUME NEW u \in Units, AnnounceFailure(u) PROVE Mutexes'
  BY <1>18, Announcing, StartAssumption DEF AnnounceFailure
<1>19. ASSUME NEW u \in Units, Return(u) PROVE Mutexes'
  BY <1>19 DEF Return, Goto, process
<1>20. ASSUME NEW u \in Units, SpuriousWakeup(u) PROVE Mutexes'
  BY <1>20 DEF SpuriousWakeup, Goto, process
<1>21. ASSUME NEW u \in Units, DaemonDies(u) PROVE Mutexes'
  BY <1>21 DEF DaemonDies
<1>22. CASE Join
  BY <1>22 DEF Join, process
<1>23. CASE UNCHANGED vars
  BY <1>23 DEF vars
<1> QED
  BY Steps, <1>1, <1>2, <1>3, <1>4, <1>5, <1>6, <1>7, <1>8, <1>9, <1>10, <1>11, <1>12,
     <1>13, <1>14, <1>15, <1>16, <1>17, <1>18, <1>19, <1>20, <1>21, <1>22, <1>23 DEF Step, Thread

(* Unconflicted is preserved: a unit of the batch blocks whoever names it, *)
(* whatever its thread has done so far.                                    *)
LEMMA UnconflictedInv ==
  ASSUME TypeOK, Announced, Executions, Unconflicted, [Next]_vars
  PROVE  Unconflicted'
<1> USE DEF TypeOK, Unconflicted, Waiting, Conflicts, Conflict
<1>1. ASSUME NEW u \in Units, Lock(u) PROVE Unconflicted'
  <2>1. idx' = idx /\ begun' = begun /\ conf' = conf /\ idx[u] = 1 /\ ~begun[u]
    BY <1>1 DEF Lock, Goto, Executions, Before
  <2>2. /\ pc'[u] \in {"evaluate", "conflicts"}
        /\ \A v \in Units \ {u} : pc'[v] = pc[v]
    BY <1>1 DEF Lock, Goto
  <2>3. \A i \in DOMAIN Conflicts(u) : ~(i < 1)
    BY NameLists
  <2> QED
    BY <2>1, <2>2, <2>3
<1>2. ASSUME NEW u \in Units, ConflictFound(u) PROVE Unconflicted'
  BY <1>2 DEF ConflictFound, Abort, Goto
<1>3. ASSUME NEW u \in Units, ConflictAbsent(u) PROVE Unconflicted'
  BY <1>3, NameLists, SMTT(30) DEF ConflictAbsent, process, Blocks, Executions, Announced
<1>4. ASSUME NEW u \in Units, ConflictsDone(u) PROVE Unconflicted'
  BY <1>4, NameLists DEF ConflictsDone, Exhausted, Goto, process, Executions, Before
<1>5. ASSUME NEW u \in Units, DepUnusable(u) PROVE Unconflicted'
  BY <1>5 DEF DepUnusable, Abort, Goto
<1>6. ASSUME NEW u \in Units, DepRead(u) PROVE Unconflicted'
  BY <1>6 DEF DepRead, Goto, process
<1>7. ASSUME NEW u \in Units, LockDep(u) PROVE Unconflicted'
  BY <1>7 DEF LockDep, Goto, process
<1>8. ASSUME NEW u \in Units, DepNotReady(u) PROVE Unconflicted'
  BY <1>8 DEF DepNotReady, Goto, process
<1>9. ASSUME NEW u \in Units, WaitDep(u) PROVE Unconflicted'
  BY <1>9 DEF WaitDep, Goto, process
<1>10. ASSUME NEW u \in Units, DepDecided(u) PROVE Unconflicted'
  BY <1>10 DEF DepDecided, Goto, process
<1>11. ASSUME NEW u \in Units, DepSatisfied(u) PROVE Unconflicted'
  BY <1>11 DEF DepSatisfied, Goto, process
<1>12. ASSUME NEW u \in Units, DepFailed(u) PROVE Unconflicted'
  BY <1>12 DEF DepFailed, Abort, Goto
<1>13. ASSUME NEW u \in Units, DepsDone(u) PROVE Unconflicted'
  BY <1>13 DEF DepsDone, Exhausted, Goto, process
<1>14. ASSUME NEW u \in Units, Execute(u) PROVE Unconflicted'
  BY <1>14 DEF Execute, Goto, process
<1>15. ASSUME NEW u \in Units, Executed(u) PROVE Unconflicted'
  BY <1>15 DEF Executed, Goto
<1>16. ASSUME NEW u \in Units, Evaluate(u) PROVE Unconflicted'
  BY <1>16 DEF Evaluate, Goto, process
<1>17. ASSUME NEW u \in Units, AnnounceSuccess(u) PROVE Unconflicted'
  BY <1>17, Announcing DEF AnnounceSuccess
<1>18. ASSUME NEW u \in Units, AnnounceFailure(u) PROVE Unconflicted'
  BY <1>18, Announcing DEF AnnounceFailure
<1>19. ASSUME NEW u \in Units, Return(u) PROVE Unconflicted'
  BY <1>19 DEF Return, Goto, process
<1>20. ASSUME NEW u \in Units, SpuriousWakeup(u) PROVE Unconflicted'
  BY <1>20 DEF SpuriousWakeup, Goto, process
<1>21. ASSUME NEW u \in Units, DaemonDies(u) PROVE Unconflicted'
  BY <1>21 DEF DaemonDies
<1>22. CASE Join
  BY <1>22 DEF Join, process
<1>23. CASE UNCHANGED vars
  BY <1>23 DEF vars
<1> QED
  BY Steps, <1>1, <1>2, <1>3, <1>4, <1>5, <1>6, <1>7, <1>8, <1>9, <1>10, <1>11, <1>12,
     <1>13, <1>14, <1>15, <1>16, <1>17, <1>18, <1>19, <1>20, <1>21, <1>22, <1>23 DEF Step, Thread

(* Reasons is preserved: a thread gives up with a cause.                   *)
LEMMA ReasonsInv ==
  ASSUME TypeOK, Announced, Executions, Walk, Reasons, [Next]_vars
  PROVE  Reasons'
<1> USE DEF TypeOK, Reasons, Walk, Waiting, Dep, Requires
<1>1. ASSUME NEW u \in Units, Lock(u) PROVE Reasons'
  BY <1>1, CauseStays DEF Lock, Goto, Cause
<1>2. ASSUME NEW u \in Units, ConflictFound(u) PROVE Reasons'
  BY <1>2, CauseStays DEF ConflictFound, Abort, Goto, Blocks, Conflict, Cause, Conflicts
<1>3. ASSUME NEW u \in Units, ConflictAbsent(u) PROVE Reasons'
  BY <1>3, CauseStays DEF ConflictAbsent, process
<1>4. ASSUME NEW u \in Units, ConflictsDone(u) PROVE Reasons'
  BY <1>4, CauseStays DEF ConflictsDone, Exhausted, Goto, process
<1>5. ASSUME NEW u \in Units, DepUnusable(u) PROVE Reasons'
  BY <1>5, CauseStays DEF DepUnusable, Abort, Goto, Usable, Cause
<1>6. ASSUME NEW u \in Units, DepRead(u) PROVE Reasons'
  BY <1>6, CauseStays DEF DepRead, Goto, process, Decided
<1>7. ASSUME NEW u \in Units, LockDep(u) PROVE Reasons'
  BY <1>7, CauseStays DEF LockDep, Goto, process
<1>8. ASSUME NEW u \in Units, DepNotReady(u) PROVE Reasons'
  BY <1>8, CauseStays DEF DepNotReady, Goto, process
<1>9. ASSUME NEW u \in Units, WaitDep(u) PROVE Reasons'
  BY <1>9, CauseStays DEF WaitDep, Goto, process
<1>10. ASSUME NEW u \in Units, DepDecided(u) PROVE Reasons'
  BY <1>10, CauseStays DEF DepDecided, Goto, process, Decided
<1>11. ASSUME NEW u \in Units, DepSatisfied(u) PROVE Reasons'
  BY <1>11, CauseStays DEF DepSatisfied, Goto, process
<1>12. ASSUME NEW u \in Units, DepFailed(u) PROVE Reasons'
  BY <1>12, CauseStays, SMTT(30) DEF DepFailed, Abort, Goto, Started, Cause, Finals
<1>13. ASSUME NEW u \in Units, DepsDone(u) PROVE Reasons'
  BY <1>13, CauseStays DEF DepsDone, Exhausted, Goto, process
<1>14. ASSUME NEW u \in Units, Execute(u) PROVE Reasons'
  BY <1>14, CauseStays DEF Execute, Goto, process
<1>15. ASSUME NEW u \in Units, Executed(u) PROVE Reasons'
  BY <1>15, CauseStays DEF Executed, Goto, Executions
<1>16. ASSUME NEW u \in Units, Evaluate(u) PROVE Reasons'
  BY <1>16, CauseStays DEF Evaluate, Goto, process
<1>17. ASSUME NEW u \in Units, AnnounceSuccess(u) PROVE Reasons'
  BY <1>17, Announcing, CauseStays DEF AnnounceSuccess, Announced, Over
<1>18. ASSUME NEW u \in Units, AnnounceFailure(u) PROVE Reasons'
  BY <1>18, Announcing, CauseStays DEF AnnounceFailure, Announced, Over
<1>19. ASSUME NEW u \in Units, Return(u) PROVE Reasons'
  BY <1>19, CauseStays DEF Return, Goto, process
<1>20. ASSUME NEW u \in Units, SpuriousWakeup(u) PROVE Reasons'
  BY <1>20, CauseStays DEF SpuriousWakeup, Goto, process
<1>21. ASSUME NEW u \in Units, DaemonDies(u) PROVE Reasons'
  BY <1>21, CauseStays DEF DaemonDies
<1>22. CASE Join
  BY <1>22, CauseStays DEF Join, process
<1>23. CASE UNCHANGED vars
  BY <1>23, CauseStays DEF vars
<1> QED
  BY Steps, <1>1, <1>2, <1>3, <1>4, <1>5, <1>6, <1>7, <1>8, <1>9, <1>10, <1>11, <1>12,
     <1>13, <1>14, <1>15, <1>16, <1>17, <1>18, <1>19, <1>20, <1>21, <1>22, <1>23 DEF Step, Thread

(* Results is preserved: what a thread returns is no better than what it   *)
(* has announced.                                                          *)
LEMMA ResultsInv ==
  ASSUME TypeOK, Announced, Results, [Next]_vars
  PROVE  Results'
<1> USE DEF TypeOK, Results, Finals, ResultIsTruthful
<1>1. ASSUME NEW u \in Units, Lock(u) PROVE Results'
  BY <1>1 DEF Lock, Goto
<1>2. ASSUME NEW u \in Units, ConflictFound(u) PROVE Results'
  BY <1>2 DEF ConflictFound, Abort, Goto
<1>3. ASSUME NEW u \in Units, ConflictAbsent(u) PROVE Results'
  BY <1>3 DEF ConflictAbsent, process
<1>4. ASSUME NEW u \in Units, ConflictsDone(u) PROVE Results'
  BY <1>4 DEF ConflictsDone, Exhausted, Goto, process
<1>5. ASSUME NEW u \in Units, DepUnusable(u) PROVE Results'
  BY <1>5 DEF DepUnusable, Abort, Goto
<1>6. ASSUME NEW u \in Units, DepRead(u) PROVE Results'
  BY <1>6 DEF DepRead, Goto, process
<1>7. ASSUME NEW u \in Units, LockDep(u) PROVE Results'
  BY <1>7 DEF LockDep, Goto, process
<1>8. ASSUME NEW u \in Units, DepNotReady(u) PROVE Results'
  BY <1>8 DEF DepNotReady, Goto, process
<1>9. ASSUME NEW u \in Units, WaitDep(u) PROVE Results'
  BY <1>9 DEF WaitDep, Goto, process
<1>10. ASSUME NEW u \in Units, DepDecided(u) PROVE Results'
  BY <1>10 DEF DepDecided, Goto, process
<1>11. ASSUME NEW u \in Units, DepSatisfied(u) PROVE Results'
  BY <1>11 DEF DepSatisfied, Goto, process
<1>12. ASSUME NEW u \in Units, DepFailed(u) PROVE Results'
  BY <1>12 DEF DepFailed, Abort, Goto
<1>13. ASSUME NEW u \in Units, DepsDone(u) PROVE Results'
  BY <1>13 DEF DepsDone, Exhausted, Goto, process
<1>14. ASSUME NEW u \in Units, Execute(u) PROVE Results'
  BY <1>14 DEF Execute, Goto, process
<1>15. ASSUME NEW u \in Units, Executed(u) PROVE Results'
  BY <1>15 DEF Executed, Goto
<1>16. ASSUME NEW u \in Units, Evaluate(u) PROVE Results'
  BY <1>16 DEF Evaluate, Goto, process
<1>17. ASSUME NEW u \in Units, AnnounceSuccess(u) PROVE Results'
  BY <1>17, Announcing DEF AnnounceSuccess, Announced, Over
<1>18. ASSUME NEW u \in Units, AnnounceFailure(u) PROVE Results'
  BY <1>18, Announcing DEF AnnounceFailure, Announced, Over
<1>19. ASSUME NEW u \in Units, Return(u) PROVE Results'
  BY <1>19 DEF Return, Goto, process, Announced, Over
<1>20. ASSUME NEW u \in Units, SpuriousWakeup(u) PROVE Results'
  BY <1>20 DEF SpuriousWakeup, Goto, process
<1>21. ASSUME NEW u \in Units, DaemonDies(u) PROVE Results'
  BY <1>21 DEF DaemonDies
<1>22. CASE Join
  BY <1>22 DEF Join, process, BatchResult
<1>23. CASE UNCHANGED vars
  BY <1>23 DEF vars
<1> QED
  BY Steps, <1>1, <1>2, <1>3, <1>4, <1>5, <1>6, <1>7, <1>8, <1>9, <1>10, <1>11, <1>12,
     <1>13, <1>14, <1>15, <1>16, <1>17, <1>18, <1>19, <1>20, <1>21, <1>22, <1>23 DEF Step, Thread
-----------------------------------------------------------------------------
(* IInv is an inductive invariant of the start of a batch, with any number  *)
(* of threads, wake-ups and deaths.                                        *)
THEOREM Invariance == Spec => []IInv
<1>1. Init => IInv
  <2> SUFFICES ASSUME Init PROVE IInv
    OBVIOUS
  <2>1. TypeOK
    BY InitTypeOK
  <2>2. Announced /\ Executions /\ Walk
    BY DEF Init, Announced, Executions, Walk, Before, Waiting, Over
  <2>3. Mutexes /\ Unconflicted /\ Results
    BY DEF Init, Mutexes, Unconflicted, Results, ResultIsTruthful, Inside, Waiting
  <2>4. Reasons
    BY DEF Init, Reasons
  <2> QED
    BY <2>1, <2>2, <2>3, <2>4 DEF IInv
<1>2. IInv /\ [Next]_vars => IInv'
  BY StepTypeOK, AnnouncedInv, ExecutionsInv, WalkInv, MutexesInv, UnconflictedInv, ReasonsInv, ResultsInv
     DEF IInv
<1> QED
  BY <1>1, <1>2, PTL DEF Spec

(* No thread sleeps on the condition variable of a dependency whose        *)
(* broadcast is over: the result is looked at under the mutex that the     *)
(* broadcast needs (process.c:105-133, 222-234).                           *)
THEOREM NoWakeupIsLost == Spec => []NoLostWakeup
<1>1. IInv => NoLostWakeup
  BY DEF IInv, NoLostWakeup, Announced, Walk, Mutexes, Waiting, Over
<1> QED
  BY <1>1, Invariance, PTL

(* No command is executed before every unit it requires has announced      *)
(* success, whatever dies or wakes up meanwhile (process.c:80-157).        *)
THEOREM StartOrderHolds == Spec => []DependenciesFirst
<1>1. IInv => DependenciesFirst
  BY DEF IInv, DependenciesFirst, Walk
<1> QED
  BY <1>1, Invariance, PTL

(* Two units in conflict are never both executed, although each thread     *)
(* looks at the other unit without its mutex (process.c:59-78).            *)
THEOREM ConflictsExclude == Spec => []ConflictExclusion
<1>1. IInv => ConflictExclusion
  BY DEF IInv, ConflictExclusion, Unconflicted
<1> QED
  BY <1>1, Invariance, PTL

(* A unit that fails without its command executed has a cause in the       *)
(* configuration or in a dependency (process.c:47-155).                    *)
THEOREM FailuresHaveCauses == Spec => []FailureHasCause
<1>1. IInv => FailureHasCause
  BY DEF IInv, FailureHasCause, Announced, Reasons, Over
<1> QED
  BY <1>1, Invariance, PTL

(* A batch that is reported as started has announced success for all its   *)
(* units (process.c:301-307).                                              *)
THEOREM SuccessIsTrue == Spec => []ResultIsTruthful
<1>1. IInv => ResultIsTruthful
  BY DEF IInv, Results
<1> QED
  BY <1>1, Invariance, PTL
-----------------------------------------------------------------------------
(* The steps of the threads are steps of StartOrder, or none: what remains *)
(* of ImplementsStartOrder, that the batch settles, is a liveness property.*)
THEOREM Implementation == Spec => Abstract!Init /\ [][Abstract!Next]_(Abstract!vars)
<1>1. Init => Abstract!Init
  <2> SUFFICES ASSUME Init PROVE Abstract!Init
    OBVIOUS
  <2>1. \A u \in Units : ToSet(conf.requires[u]) \subseteq Names
    <3>1. TypeOK
      BY InitTypeOK
    <3> QED
      BY <3>1 DEF TypeOK, ConfigType, ToSet
  <2> QED
    BY <2>1 DEF Init, Abstract!Init
<1>2. IInv /\ [Next]_vars => [Abstract!Next]_(Abstract!vars)
  <2> SUFFICES ASSUME IInv, [Next]_vars PROVE Abstract!Next \/ UNCHANGED Abstract!vars
    OBVIOUS
  <2> USE DEF IInv
  <2> DEFINE P == [u \in Units |-> IF announced[u] = "success" THEN "started"
                                ELSE IF announced[u] = "failure" THEN "failed"
                                ELSE IF begun[u] THEN "executing" ELSE "pending"]
  <2>1. ASSUME UNCHANGED <<conf, begun, announced>> PROVE UNCHANGED Abstract!vars
    BY <2>1 DEF Abstract!vars
  <2>2. ASSUME NEW u \in Units, Execute(u) PROVE Abstract!Begin(u)
    <3>1. announced[u] = "ready" /\ ~begun[u] /\ pc[u] = "exec"
      BY <2>2 DEF Execute, Goto, Announced, Executions, Over, Before
    <3>2. \A n \in ToSet(conf.requires[u]) : n \in Units /\ announced[n] = "success"
      BY <3>1 DEF Walk, Requires, ToSet
    <3>3. Abstract!Satisfied(u)
      BY <3>2 DEF Abstract!Satisfied
    <3> QED
      BY <2>2, <3>1, <3>3 DEF Execute, Abstract!Begin, TypeOK
  <2>3. ASSUME NEW u \in Units, AnnounceSuccess(u) PROVE Abstract!Settle(u)
    <3>1. announced[u] = "ready" /\ begun[u]
      BY <2>3, Announcing DEF AnnounceSuccess, Announced, Executions, Over
    <3>2. announced' = [announced EXCEPT ![u] = "success"] /\ UNCHANGED <<conf, begun>>
      BY <2>3, Announcing DEF AnnounceSuccess
    <3>3. P' = [P EXCEPT ![u] = "started"] /\ P[u] = "executing"
      BY <3>1, <3>2 DEF TypeOK
    <3> QED
      BY <3>2, <3>3 DEF Abstract!Settle
  <2>4. ASSUME NEW u \in Units, AnnounceFailure(u) PROVE Abstract!Settle(u)
    <3>1. announced[u] = "ready"
      BY <2>4, Announcing DEF AnnounceFailure, Announced, Over
    <3>2. announced' = [announced EXCEPT ![u] = "failure"] /\ UNCHANGED <<conf, begun>>
      BY <2>4, Announcing DEF AnnounceFailure
    <3>3. P' = [P EXCEPT ![u] = "failed"] /\ P[u] \in {"pending", "executing"}
      BY <3>1, <3>2 DEF TypeOK
    <3> QED
      BY <3>2, <3>3 DEF Abstract!Settle
  <2>5. ASSUME NEW u \in Units, Step(u) PROVE Abstract!Next \/ UNCHANGED Abstract!vars
    <3>1. \/ UNCHANGED <<conf, begun, announced>>
          \/ Execute(u) \/ AnnounceSuccess(u) \/ AnnounceFailure(u)
      BY <2>5 DEF Step, Thread, Lock, ConflictFound, ConflictAbsent, ConflictsDone, DepUnusable,
         DepRead, LockDep, DepNotReady, WaitDep, DepDecided, DepSatisfied, DepFailed, DepsDone,
         Executed, Evaluate, Return, SpuriousWakeup, DaemonDies
    <3> QED
      BY <3>1, <2>1, <2>2, <2>3, <2>4 DEF Abstract!Next
  <2>6. CASE Join
    BY <2>6, <2>1 DEF Join
  <2>7. CASE UNCHANGED vars
    BY <2>7, <2>1 DEF vars
  <2> QED
    BY Steps, <2>5, <2>6, <2>7
<1> QED
  BY <1>1, <1>2, Invariance, PTL DEF Spec
=============================================================================
