------------------------ MODULE UnitSuperviseProofs ------------------------
(***************************************************************************)
(* The safety properties of UnitSupervise, for every set of daemons, every *)
(* policy, every number of forks and every length of the history.          *)
(***************************************************************************)
EXTENDS UnitSupervise, FiniteSetTheorems, SequenceTheorems, TLAPS

(* The current process of u has not ended. *)
Alive(u) == forks[u] > 0 /\ proc[u][forks[u]] = "alive"

(* Program points: the manager has the mutex of the unit, the manager is   *)
(* past the pipe of the unit, the listener deals with a death.             *)
Stopping == {"stopPoll", "stopClear", "stopSet", "stopEvaluate", "stopSucceed", "stopFail"}
Closing  == {"test", "stopLock", "stopped"} \cup Stopping
InHand   == {"woken", "failure", "decide", "reset"}

(* The listener has a death in hand and has not forked for it. *)
Restarting(u) ==
  listener[u] \in InHand \/ (listener[u] = "again" /\ starter[u] \in {"off", "lock", "fork"})

(* The types of the variables that a part of the invariant talks about. *)
ThreadTypes ==
  /\ starter \in [Units -> Starters]
  /\ listener \in [Units -> Listeners]
  /\ manager \in [Units -> Managers]
  /\ unitLock \in [Units -> BOOLEAN] /\ pipeLock \in [Units -> BOOLEAN]

DataTypes ==
  /\ policy \in Setups
  /\ proc \in [Units -> [1..MaxForks -> {"none", "alive", "zombie", "reaped"}]]
  /\ forks \in [Units -> 0..MaxForks]
  /\ pid \in [Units -> 0..MaxForks]
  /\ pState \in [Units -> PStates]
  /\ coded \in [Units -> BOOLEAN]

TellTypes ==
  /\ finalStatus \in [Units -> Finals] /\ isStopping \in [Units -> BOOLEAN]
  /\ shutdown \in BOOLEAN

CountTypes ==
  /\ policy \in Setups
  /\ restartNum \in [Units -> Nat]
  /\ recorded \in [Units -> Nat]
  /\ history \in [Units -> 0..ShowMax]

(* Who works for a unit when, and who has which of its two mutexes: the    *)
(* starter is run by the manager or by the listener, never by both, and    *)
(* the listener of a unit is gone once closePipes has got the pipe's mutex.*)
HandoverOf(u) ==
  /\ manager[u] # "stopped" => policy[u].forks > 0
  /\ manager[u] = "new" => listener[u] = "none"
  /\ manager[u] = "handshake" => listener[u] \in {"begin", "read"}
  /\ listener[u] = "begin" => manager[u] = "handshake"
  /\ manager[u] \in {"handshake", "closing"} => HasPipe(u)
  /\ manager[u] \in {"starting", "serve", "closing"} => (listener[u] = "none" <=> ~HasPipe(u))
  /\ listener[u] # "none" => HasPipe(u)
  /\ manager[u] = "starting" => starter[u] # "off" /\ listener[u] # "again"
  /\ starter[u] # "off" => manager[u] = "starting" \/ listener[u] = "again"
  /\ listener[u] = "again" => manager[u] \in {"serve", "closing"}
  /\ manager[u] \in Closing => listener[u] \in {"none", "gone"}
  /\ pipeLock[u] <=> listener[u] \notin {"none", "begin", "gone"}
  /\ unitLock[u] <=> \/ listener[u] = "begin" \/ starter[u] \notin {"off", "lock"}
                     \/ manager[u] \in Stopping

Handover == \A u \in Units : HandoverOf(u)

(* The next process of u has not been forked. *)
Fresh(u) ==
  \/ manager[u] \in {"new", "handshake"} \/ starter[u] \in {"lock", "fork"}
  \/ listener[u] = "again" /\ starter[u] = "off"

(* What is known of the processes of a unit: all but the last one have     *)
(* ended, the pid names the last one or none, and one that is alive and    *)
(* past its start is shown as running.                                     *)
ProcessesOf(u) ==
  /\ forks[u] <= policy[u].forks
  /\ \A n \in 1..MaxForks : /\ n > forks[u] => proc[u][n] = "none"
                            /\ n < forks[u] => proc[u][n] # "alive"
  /\ pid[u] \in {0, forks[u]}
  /\ manager[u] \in {"new", "handshake"} => forks[u] = 0
  /\ manager[u] = "starting" /\ starter[u] \in {"lock", "fork"} => forks[u] = 0
  /\ Fresh(u) => pid[u] = 0 /\ pState[u] \in {"dead", "restarting"} /\ ~coded[u]
  /\ starter[u] = "pid" => pid[u] = 0 /\ forks[u] > 0
  /\ starter[u] \in {"poll", "check", "write"} => pid[u] = forks[u] /\ forks[u] > 0
  /\ Alive(u) => starter[u] = "pid" \/ pid[u] = forks[u]
  /\ Alive(u) => starter[u] \in {"pid", "poll", "check", "write"} \/ pState[u] = "running"
  /\ Alive(u) /\ starter[u] \in {"pid", "poll", "check"} =>
       pState[u] \in {"dead", "restarting"} /\ ~coded[u]
  /\ manager[u] \in {"stopClear", "stopSet"} => ~Alive(u)
  /\ Restarting(u) => ~Alive(u) /\ forks[u] \in 1..(policy[u].forks - 1)

Processes == \A u \in Units : ProcessesOf(u)

Shapes      == {<<>>, <<"death">>, <<"exit">>, <<"death", "exit">>, <<"exit", "death">>}
Deadly      == {<<"death">>, <<"death", "exit">>, <<"exit", "death">>}
Early       == {<<>>, <<"death">>}
Unclosed    == {"new", "handshake", "starting", "serve"}
HasDeath(u) == pipe[u] \in Deadly
Notices     == pending \cup handling \cup storing
Noticed(u)  == \E s \in Notices : s[1] = u

(* The news of the end of a process is in one place at a time - a signal,  *)
(* a handler, the pipe or the hands of the listener -, is of the last      *)
(* process of the unit, and no other one is forked before it has arrived.  *)
NoticesOf(u) ==
  /\ HasDeath(u) \/ Noticed(u) =>
       /\ ~Alive(u) /\ ~Restarting(u) /\ forks[u] > 0
       /\ forks[u] < policy[u].forks \/ listener[u] \in {"none", "gone"}
  /\ ~(HasDeath(u) /\ Noticed(u))
  /\ ~HasPipe(u) => pipe[u] = <<>>
  /\ manager[u] \in Unclosed => pipe[u] \in Early

SignalsApart ==
  /\ pending = {} \/ \E s \in Signals : pending = {s}
  /\ pending \cap handling = {} /\ pending \cap storing = {} /\ handling \cap storing = {}
  /\ \A s, t \in Notices : s[1] = t[1] => s = t
  /\ \A s \in Notices : s[2] = forks[s[1]]

OneNotice == SignalsApart /\ pipe \in [Units -> Shapes] /\ \A u \in Units : NoticesOf(u)

(* The deaths that have been recorded are in the pipe, in the hands of the *)
(* listener, or have been followed by a restart.                           *)
CountsOf(u) ==
  /\ HasPipe(u) /\ listener[u] # "gone" =>
       recorded[u] = restartNum[u] + (IF HasDeath(u) THEN 1 ELSE 0)
                                 + (IF listener[u] \in InHand THEN 1 ELSE 0)
  /\ listener[u] = "reset" => Restarts(u)

Counts == \A u \in Units : CountsOf(u)

(* RestartsBounded of one unit. *)
BoundedFor(u) ==
  /\ policy[u].max >= 0 => restartNum[u] <= policy[u].max
  /\ policy[u].max = -1 /\ ~policy[u].restart => restartNum[u] = 0
  /\ history[u] = IF restartNum[u] < ShowMax THEN restartNum[u] ELSE ShowMax

(* A stop hides the unit from the handler, after its starter has come to   *)
(* its end, and does not end with a unit that is shown as running with     *)
(* success.                                                                *)
StopsOf(u) ==
  /\ isStopping[u] =>
       /\ starter[u] = "off" /\ manager[u] \in {"stopLock", "stopped"} \cup Stopping
       /\ pState[u] = "running" => manager[u] # "stopSucceed"
       /\ pState[u] = "running" /\ manager[u] = "stopped" => finalStatus[u] = "failure"
  /\ manager[u] \in {"stopLock"} \cup Stopping => isStopping[u] \/ shutdown

(* RUNNING is written for the process that the pid names.                  *)
RunningOf(u) ==
  pState[u] = "running" =>
    /\ pid[u] = forks[u] /\ forks[u] > 0
    /\ starter[u] \notin {"lock", "fork", "pid", "poll", "check", "write"}

(* What is on its way for a daemon that only exits is an exit, unless it   *)
(* has been killed by a stop; the exit code is there before the rest.      *)
ExitsOf(u) ==
  /\ \A s \in Notices : s[1] = u /\ s[3] # "exit" => s \in pending /\ (isStopping[u] \/ shutdown)
  /\ \A s \in storing : s[1] = u /\ starter[u] # "off" => coded[u]

(* Such a daemon that has ended, with a signal of its own, and is or will  *)
(* be shown as running: the handler is still to come, or the starter will  *)
(* find the exit code, or it is not shown as a success.                    *)
Told(u) ==
  \/ Noticed(u)
  \/ starter[u] \in {"check", "write", "evaluate"} /\ coded[u]
  \/ starter[u] = "fail"
  \/ starter[u] = "off" /\ finalStatus[u] = "failure"

Untold(u) ==
  /\ ~Alive(u) /\ <<u, forks[u]>> \notin merged /\ ~isStopping[u] /\ ~shutdown
  /\ pState[u] = "running" \/ starter[u] \in {"check", "write"}

TellsOf(u) ==
  /\ StopsOf(u) /\ RunningOf(u)
  /\ policy[u].ends = {"exit"} => ExitsOf(u) /\ (Untold(u) => Told(u))

Tells == \A u \in Units : TellsOf(u)

IInv == TypeOK /\ Handover /\ Processes /\ OneNotice /\ Counts /\ RestartsBounded /\ Tells
-----------------------------------------------------------------------------
(* The cases of Next, named once for every invariant. *)
LEMMA Steps ==
  ASSUME [Next]_vars
  PROVE  \/ \E u \in Units : Starter(u) \/ Listener(u) \/ Manager(u) \/ StopRequest(u) \/ Die(u)
         \/ \E s \in Signals : Handler(s)
         \/ Clean \/ ListenSocket \/ Shutdown
         \/ UNCHANGED vars
  BY DEF Next, Idle

(* What the policy of a unit is made of. *)
LEMMA Policies ==
  ASSUME policy \in Setups, NEW u \in Units
  PROVE  /\ policy[u].forks \in 0..MaxForks /\ policy[u].max \in Nat \cup {-1}
         /\ policy[u].restart \in BOOLEAN /\ policy[u].failure \in BOOLEAN
         /\ MaxForks \in Nat \ {0} /\ ShowMax \in Nat \ {0}
  BY SuperviseAssumption DEF PolicyType

(* The types that the lemmas below need. *)
LEMMA TypesParts ==
  ASSUME TypeOK
  PROVE  ThreadTypes /\ DataTypes /\ CountTypes /\ TellTypes /\ Notices \subseteq Signals
<1>1. ThreadTypes
  BY DEF TypeOK, ThreadTypes
<1>2. DataTypes
  BY DEF TypeOK, DataTypes
<1>3. CountTypes
  BY DEF TypeOK, CountTypes
<1>4. Notices \subseteq Signals
  BY DEF TypeOK, Notices
<1>5. TellTypes
  BY DEF TypeOK, TellTypes
<1> QED
  BY <1>1, <1>2, <1>3, <1>4, <1>5

(* A death is never dealt with before the daemon has been started. *)
LEMMA ResetAlone ==
  ASSUME ThreadTypes, DataTypes, Handover, Processes, NEW u \in Units, Reset(u)
  PROVE  starter[u] = "off" /\ manager[u] \in {"serve", "closing"} /\ HasPipe(u)
<1>1. listener[u] = "reset" /\ ~unitLock[u]
  BY DEF Reset, Goto
<1>2. forks[u] > 0
  BY <1>1, Policies DEF Processes, ProcessesOf, Restarting, InHand, DataTypes
<1>3. starter[u] \in {"off", "lock"} /\ HasPipe(u) /\ manager[u] \notin {"new", "handshake"} \cup Closing
  BY <1>1 DEF Handover, HandoverOf, ThreadTypes, Closing
<1>4. manager[u] # "starting"
  BY <1>1, <1>2, <1>3 DEF Handover, HandoverOf, Processes, ProcessesOf
<1>5. starter[u] = "off"
  BY <1>1, <1>3, <1>4 DEF Handover, HandoverOf
<1> QED
  BY <1>3, <1>4, <1>5 DEF ThreadTypes, Managers, Closing, Stopping

(* Two words in a row. *)
LEMMA TwoWords ==
  ASSUME NEW a \in {"death", "exit"}, NEW b \in {"death", "exit"}
  PROVE  Append(<<a>>, b) = <<a, b>>
<1>1. <<a>> \in Seq({"death", "exit"}) /\ <<a, b>> \in Seq({"death", "exit"})
  OBVIOUS
<1>2. /\ Append(<<a>>, b) \in Seq({"death", "exit"}) /\ Len(Append(<<a>>, b)) = 2
      /\ Append(<<a>>, b)[1] = a /\ Append(<<a>>, b)[2] = b
  BY <1>1, AppendProperties
<1>3. Len(<<a, b>>) = 2 /\ <<a, b>>[1] = a /\ <<a, b>>[2] = b
  OBVIOUS
<1>4. \A i \in 1..2 : Append(<<a>>, b)[i] = <<a, b>>[i]
  BY <1>2, <1>3
<1> QED
  BY <1>1, <1>2, <1>3, <1>4, SeqEqual

(* What is in a pipe when one word has been read or written. *)
LEMMA ReadShapes ==
  ASSUME NEW p \in Shapes, p # <<>>
  PROVE  \/ p = <<"death">> /\ Head(p) = "death" /\ Tail(p) = <<>>
         \/ p = <<"death", "exit">> /\ Head(p) = "death" /\ Tail(p) = <<"exit">>
         \/ p = <<"exit">> /\ Head(p) = "exit" /\ Tail(p) = <<>>
         \/ p = <<"exit", "death">> /\ Head(p) = "exit" /\ Tail(p) = <<"death">>
<1>1. CASE p = <<"death">>
  BY <1>1
<1>2. CASE p = <<"exit">>
  BY <1>2
<1>3. CASE p = <<"death", "exit">>
  BY <1>3
<1>4. CASE p = <<"exit", "death">>
  BY <1>4
<1> QED
  BY <1>1, <1>2, <1>3, <1>4 DEF Shapes
LEMMA WrittenShapes ==
  /\ Append(<<>>, "death") = <<"death">> /\ Append(<<"exit">>, "death") = <<"exit", "death">>
  /\ Append(<<>>, "exit") = <<"exit">> /\ Append(<<"death">>, "exit") = <<"death", "exit">>
<1>1. Append(<<>>, "death") = <<"death">> /\ Append(<<>>, "exit") = <<"exit">>
  OBVIOUS
<1> QED
  BY <1>1, TwoWords

(* Which shapes have a death in them. *)
LEMMA DeadlyShapes ==
  /\ <<>> \notin Deadly /\ <<"exit">> \notin Deadly
  /\ Shapes = Deadly \cup {<<>>, <<"exit">>}
<1>1. <<>> # <<"death">> /\ <<>> # <<"death", "exit">> /\ <<>> # <<"exit", "death">>
  OBVIOUS
<1>2. <<"exit">> # <<"death">> /\ <<"exit">> # <<"death", "exit">> /\ <<"exit">> # <<"exit", "death">>
  OBVIOUS
<1>3. Shapes = Deadly \cup {<<>>, <<"exit">>}
  BY Zenon DEF Shapes, Deadly
<1> QED
  BY <1>1, <1>2, <1>3, Zenon DEF Deadly

(* What the listener changes when it reads from its pipe. *)
LEMMA DeathRead ==
  ASSUME OneNotice, NEW u \in Units, ReadDeath(u)
  PROVE  /\ listener[u] = "read" /\ listener' = [listener EXCEPT ![u] = "woken"]
         /\ pipe' = [pipe EXCEPT ![u] = Tail(pipe[u])]
         /\ \/ pipe[u] = <<"death">> /\ pipe'[u] = <<>>
            \/ pipe[u] = <<"death", "exit">> /\ pipe'[u] = <<"exit">>
         /\ HasDeath(u) /\ ~HasDeath(u)'
         /\ UNCHANGED <<policy, os, handler, pData, unit, locks, starter, manager, flags, past>>
<1>1. /\ listener[u] = "read" /\ listener' = [listener EXCEPT ![u] = "woken"]
      /\ pipe[u] # <<>> /\ Head(pipe[u]) = "death" /\ pipe' = [pipe EXCEPT ![u] = Tail(pipe[u])]
      /\ UNCHANGED <<policy, os, handler, pData, unit, locks, starter, manager, flags, past>>
  BY DEF ReadDeath, Goto
<1>2. pipe \in [Units -> Shapes] /\ pipe'[u] = Tail(pipe[u])
  BY <1>1 DEF OneNotice
<1>3. \/ pipe[u] = <<"death">> /\ Tail(pipe[u]) = <<>>
      \/ pipe[u] = <<"death", "exit">> /\ Tail(pipe[u]) = <<"exit">>
  BY <1>1, <1>2, ReadShapes
<1>4. HasDeath(u)
  BY <1>3, Zenon DEF HasDeath, Deadly
<1>5. ~HasDeath(u)'
  BY <1>2, <1>3, DeadlyShapes DEF HasDeath
<1> QED
  BY <1>1, <1>2, <1>3, <1>4, <1>5

LEMMA ExitRead ==
  ASSUME OneNotice, NEW u \in Units, ReadExit(u)
  PROVE  /\ listener[u] = "read" /\ listener' = [listener EXCEPT ![u] = "gone"]
         /\ pipeLock' = [pipeLock EXCEPT ![u] = FALSE]
         /\ pipe' = [pipe EXCEPT ![u] = Tail(pipe[u])]
         /\ \/ pipe[u] = <<"exit">> /\ pipe'[u] = <<>>
            \/ pipe[u] = <<"exit", "death">> /\ pipe'[u] = <<"death">>
         /\ manager[u] \notin Unclosed
         /\ HasDeath(u)' <=> HasDeath(u)
         /\ UNCHANGED <<policy, os, handler, pData, unit, unitLock, starter, manager, flags, past>>
<1>1. /\ listener[u] = "read" /\ listener' = [listener EXCEPT ![u] = "gone"]
      /\ pipeLock' = [pipeLock EXCEPT ![u] = FALSE]
      /\ pipe[u] # <<>> /\ Head(pipe[u]) = "exit" /\ pipe' = [pipe EXCEPT ![u] = Tail(pipe[u])]
      /\ UNCHANGED <<policy, os, handler, pData, unit, unitLock, starter, manager, flags, past>>
  BY DEF ReadExit, Leave, Goto
<1>2. pipe \in [Units -> Shapes] /\ pipe'[u] = Tail(pipe[u])
  BY <1>1 DEF OneNotice
<1>3. \/ pipe[u] = <<"exit">> /\ Tail(pipe[u]) = <<>>
      \/ pipe[u] = <<"exit", "death">> /\ Tail(pipe[u]) = <<"death">>
  BY <1>1, <1>2, ReadShapes
<1>4. manager[u] \notin Unclosed
  <2>1. pipe[u] \notin Early
    BY <1>3 DEF Early
  <2> QED
    BY <2>1 DEF OneNotice, NoticesOf
<1>5. CASE pipe[u] = <<"exit">> /\ pipe'[u] = <<>>
  <2>1. ~HasDeath(u) /\ ~HasDeath(u)'
    BY <1>5, DeadlyShapes DEF HasDeath
  <2> QED
    BY <1>1, <1>4, <1>5, <2>1
<1>6. CASE pipe[u] = <<"exit", "death">> /\ pipe'[u] = <<"death">>
  <2>1. HasDeath(u) /\ HasDeath(u)'
    BY <1>6, Zenon DEF HasDeath, Deadly
  <2> QED
    BY <1>1, <1>4, <1>6, <2>1
<1> QED
  BY <1>2, <1>3, <1>5, <1>6

(* What closePipe does to the pipe. *)
LEMMA PipeClosed ==
  ASSUME OneNotice, ThreadTypes, NEW u \in Units, Close(u)
  PROVE  /\ manager[u] = "serve" /\ manager' = [manager EXCEPT ![u] = IF HasPipe(u) THEN "closing" ELSE "test"]
         /\ pipe' = [pipe EXCEPT ![u] = pipe'[u]]
         /\ \/ ~HasPipe(u) /\ pipe[u] = <<>> /\ pipe'[u] = <<>>
            \/ HasPipe(u) /\ pipe[u] = <<>> /\ pipe'[u] = <<"exit">>
            \/ HasPipe(u) /\ pipe[u] = <<"death">> /\ pipe'[u] = <<"death", "exit">>
         /\ HasDeath(u)' <=> HasDeath(u)
         /\ UNCHANGED <<policy, os, handler, pData, unit, locks, starter, listener, flags, past>>
<1>1. /\ manager[u] = "serve" /\ manager' = [manager EXCEPT ![u] = IF HasPipe(u) THEN "closing" ELSE "test"]
      /\ pipe' = IF HasPipe(u) THEN [pipe EXCEPT ![u] = Append(pipe[u], "exit")] ELSE pipe
      /\ UNCHANGED <<policy, os, handler, pData, unit, locks, starter, listener, flags, past>>
  BY DEF Close, Dismissed, Goto
<1>2. pipe \in [Units -> Shapes] /\ pipe[u] \in Early /\ (~HasPipe(u) => pipe[u] = <<>>)
  BY <1>1 DEF OneNotice, NoticesOf, Unclosed
<1>3. CASE ~HasPipe(u)
  <2>1. pipe' = pipe /\ pipe' = [pipe EXCEPT ![u] = pipe'[u]]
    BY <1>1, <1>2, <1>3
  <2> QED
    BY <1>1, <1>2, <1>3, <2>1 DEF HasDeath
<1>4. CASE HasPipe(u)
  <2>1. pipe'[u] = Append(pipe[u], "exit") /\ pipe' = [pipe EXCEPT ![u] = pipe'[u]]
    BY <1>1, <1>2, <1>4
  <2>2. CASE pipe[u] = <<>>
    <3>1. pipe'[u] = <<"exit">>
      BY <2>1, <2>2, WrittenShapes
    <3>2. ~HasDeath(u) /\ ~HasDeath(u)'
      BY <2>2, <3>1, DeadlyShapes DEF HasDeath
    <3> QED
      BY <1>1, <1>4, <2>1, <2>2, <3>1, <3>2
  <2>3. CASE pipe[u] = <<"death">>
    <3>1. pipe'[u] = <<"death", "exit">>
      BY <2>1, <2>3, WrittenShapes
    <3>2. HasDeath(u) /\ HasDeath(u)'
      BY <2>3, <3>1, Zenon DEF HasDeath, Deadly
    <3> QED
      BY <1>1, <1>4, <2>1, <2>3, <3>1, <3>2
  <2> QED
    BY <1>2, <2>2, <2>3 DEF Early
<1> QED
  BY <1>3, <1>4

(* What the handler does to the pipe. *)
LEMMA DeathWritten ==
  ASSUME OneNotice, Notices \subseteq Signals, NEW s \in Signals, Record(s)
  PROVE  /\ s[1] \in Units /\ s \in storing /\ storing' = storing \ {s}
         /\ ~HasDeath(s[1]) /\ Noticed(s[1])
         /\ pipe' = [pipe EXCEPT ![s[1]] = pipe'[s[1]]]
         /\ \/ ~HasPipe(s[1]) /\ pipe[s[1]] = <<>> /\ pipe'[s[1]] = <<>> /\ ~HasDeath(s[1])'
            \/ /\ HasPipe(s[1]) /\ pipe[s[1]] = <<>> /\ pipe'[s[1]] = <<"death">>
               /\ HasDeath(s[1])'
            \/ /\ HasPipe(s[1]) /\ pipe[s[1]] = <<"exit">> /\ pipe'[s[1]] = <<"exit", "death">>
               /\ HasDeath(s[1])'
<1>0. s \in Notices /\ s[1] \in Units
  BY DEF Record, Notices, Signals
<1>1. /\ s \in storing /\ storing' = storing \ {s}
      /\ pipe' = IF HasPipe(s[1]) THEN [pipe EXCEPT ![s[1]] = Append(pipe[s[1]], "death")] ELSE pipe
  BY DEF Record, Reported
<1> DEFINE u == s[1]
<1>2. Noticed(u) /\ ~HasDeath(u)
  BY <1>0 DEF Noticed, OneNotice, NoticesOf
<1>3. pipe \in [Units -> Shapes] /\ pipe[u] \in {<<>>, <<"exit">>} /\ (~HasPipe(u) => pipe[u] = <<>>)
  BY <1>0, <1>2, DeadlyShapes DEF OneNotice, NoticesOf, HasDeath
<1> HIDE DEF u
<1>4. CASE ~HasPipe(u)
  <2>1. pipe' = pipe /\ pipe' = [pipe EXCEPT ![u] = pipe'[u]]
    BY <1>0, <1>1, <1>3, <1>4 DEF u
  <2>2. ~HasDeath(u)'
    BY <1>2, <2>1 DEF HasDeath
  <2> QED
    BY <1>0, <1>1, <1>2, <1>3, <1>4, <2>1, <2>2 DEF u
<1>5. CASE HasPipe(u)
  <2>1. pipe'[u] = Append(pipe[u], "death") /\ pipe' = [pipe EXCEPT ![u] = pipe'[u]]
    BY <1>0, <1>1, <1>3, <1>5 DEF u
  <2>2. CASE pipe[u] = <<>>
    <3>1. pipe'[u] = <<"death">>
      BY <2>1, <2>2, WrittenShapes
    <3>2. HasDeath(u)'
      BY <3>1, Zenon DEF HasDeath, Deadly
    <3> QED
      BY <1>0, <1>1, <1>2, <1>5, <2>1, <2>2, <3>1, <3>2 DEF u
  <2>3. CASE pipe[u] = <<"exit">>
    <3>1. pipe'[u] = <<"exit", "death">>
      BY <2>1, <2>3, WrittenShapes
    <3>2. HasDeath(u)'
      BY <3>1, Zenon DEF HasDeath, Deadly
    <3> QED
      BY <1>0, <1>1, <1>2, <1>5, <2>1, <2>3, <3>1, <3>2 DEF u
  <2> QED
    BY <1>3, <2>2, <2>3
<1> QED
  BY <1>4, <1>5

(* While the news of the end of a process are on their way no start is     *)
(* under way, and none can begin.                                          *)
LEMMA Settled ==
  ASSUME ThreadTypes, DataTypes, Handover, Processes, OneNotice, NEW u \in Units,
         HasDeath(u) \/ Noticed(u)
  PROVE  /\ ~Alive(u) /\ ~Restarting(u) /\ ~Fresh(u) /\ forks[u] > 0
         /\ forks[u] < policy[u].forks \/ listener[u] \in {"none", "gone"}
<1>1. /\ ~Alive(u) /\ ~Restarting(u) /\ forks[u] > 0
      /\ forks[u] < policy[u].forks \/ listener[u] \in {"none", "gone"}
  BY DEF OneNotice, NoticesOf
<1>2. manager[u] \notin {"new", "handshake"}
  BY <1>1 DEF Processes, ProcessesOf
<1>3. starter[u] \notin {"lock", "fork"}
  BY <1>1 DEF Handover, HandoverOf, Processes, ProcessesOf, Restarting
<1> QED
  BY <1>1, <1>2, <1>3 DEF Fresh, Restarting

LEMMA Signalled ==
  ASSUME NEW s \in Notices, Notices \subseteq Signals
  PROVE  s[1] \in Units /\ s[2] \in 1..MaxForks /\ Noticed(s[1])
  BY DEF Signals, Noticed

(* A unit whose pipe has been closed has no other thread than the manager. *)
LEMMA Alone ==
  ASSUME ThreadTypes, Handover, NEW u \in Units, manager[u] \in Closing
  PROVE  /\ starter[u] = "off" /\ listener[u] \in {"none", "gone"}
         /\ ~Fresh(u) /\ ~Restarting(u)
<1>1. listener[u] \in {"none", "gone"} /\ manager[u] \notin {"new", "handshake", "starting"}
  BY DEF Handover, HandoverOf, Closing, Stopping
<1>2. starter[u] = "off"
  BY <1>1 DEF Handover, HandoverOf
<1> QED
  BY <1>1, <1>2 DEF Fresh, Restarting, InHand

(* The next process of a unit is forked when the one before has ended, and *)
(* not more often than the policy allows for.                              *)
LEMMA ForkAlone ==
  ASSUME ThreadTypes, DataTypes, Handover, Processes, NEW u \in Units, starter[u] \in {"lock", "fork"}
  PROVE  /\ ~Alive(u) /\ forks[u] < policy[u].forks
         /\ listener[u] \notin InHand /\ manager[u] \notin Closing \cup {"new", "handshake"}
<1>1. CASE manager[u] = "starting"
  <2>1. forks[u] = 0 /\ policy[u].forks > 0
    BY <1>1 DEF Handover, HandoverOf, Processes, ProcessesOf
  <2>2. listener[u] \notin InHand
    BY <2>1, Policies DEF Processes, ProcessesOf, Restarting, DataTypes
  <2> QED
    BY <1>1, <2>1, <2>2 DEF Alive, Closing, Stopping
<1>2. CASE listener[u] = "again"
  <2>1. manager[u] \in {"serve", "closing"} /\ Restarting(u)
    BY <1>2 DEF Handover, HandoverOf, Restarting
  <2>2. ~Alive(u) /\ forks[u] < policy[u].forks
    BY <2>1, Policies DEF Processes, ProcessesOf, DataTypes
  <2> QED
    BY <1>2, <2>1, <2>2 DEF InHand, Closing, Stopping
<1> QED
  BY <1>1, <1>2 DEF Handover, HandoverOf

(* Handover is preserved. *)
LEMMA HandoverStep ==
  ASSUME ThreadTypes, DataTypes, Handover, Processes, OneNotice, [Next]_vars
  PROVE  Handover'
<1> SUFFICES ASSUME NEW v \in Units
             PROVE  HandoverOf(v)'
  BY DEF Handover
<1> USE DEF Handover
<1>1. ASSUME NEW u \in Units, StartLock(u) PROVE HandoverOf(v)'
  BY <1>1 DEF StartLock, Goto, HandoverOf, HasPipe, ThreadTypes, Stopping, Closing
<1>2. ASSUME NEW u \in Units, Fork(u) PROVE HandoverOf(v)'
  BY <1>2 DEF Fork, Goto, locks, HandoverOf, HasPipe, ThreadTypes, Stopping, Closing
<1>3. ASSUME NEW u \in Units, ForkFails(u) PROVE HandoverOf(v)'
  BY <1>3 DEF ForkFails, Goto, locks, HandoverOf, HasPipe, ThreadTypes, Stopping, Closing
<1>4. ASSUME NEW u \in Units, StartAborts(u) PROVE HandoverOf(v)'
  BY <1>4 DEF StartAborts, Goto, locks, HandoverOf, HasPipe, ThreadTypes, Stopping, Closing
<1>5. ASSUME NEW u \in Units, SetPid(u) PROVE HandoverOf(v)'
  BY <1>5 DEF SetPid, Goto, locks, HandoverOf, HasPipe, ThreadTypes, Stopping, Closing
<1>6. ASSUME NEW u \in Units, Poll(u) PROVE HandoverOf(v)'
  BY <1>6 DEF Poll, Goto, Reap, locks, HandoverOf, HasPipe, ThreadTypes, Stopping, Closing
<1>7. ASSUME NEW u \in Units, Check(u) PROVE HandoverOf(v)'
  BY <1>7 DEF Check, Goto, locks, HandoverOf, HasPipe, ThreadTypes, Stopping, Closing
<1>8. ASSUME NEW u \in Units, WriteRunning(u) PROVE HandoverOf(v)'
  BY <1>8 DEF WriteRunning, Goto, locks, HandoverOf, HasPipe, ThreadTypes, Stopping, Closing
<1>9. ASSUME NEW u \in Units, Evaluate(u) PROVE HandoverOf(v)'
  BY <1>9 DEF Evaluate, Goto, locks, HandoverOf, HasPipe, ThreadTypes, Stopping, Closing
<1>10. ASSUME NEW u \in Units, Announce(u) PROVE HandoverOf(v)'
  BY <1>10 DEF Announce, Goto, HandoverOf, HasPipe, ThreadTypes, Stopping, Closing
<1>11. ASSUME NEW u \in Units, ListenerBegins(u) PROVE HandoverOf(v)'
  BY <1>11 DEF ListenerBegins, Goto, HandoverOf, HasPipe, ThreadTypes, Stopping, Closing
<1>12. ASSUME NEW u \in Units, ReadDeath(u) PROVE HandoverOf(v)'
  <2>1. forks[u] > 0 /\ manager[u] # "handshake"
    BY <1>12, DeathRead, Policies DEF OneNotice, NoticesOf, Processes, ProcessesOf, DataTypes
  <2> QED
    BY <1>12, <2>1, DeathRead DEF HandoverOf, HasPipe, ThreadTypes, Stopping, Closing, locks
<1>13. ASSUME NEW u \in Units, ReadExit(u) PROVE HandoverOf(v)'
  BY <1>13, ExitRead DEF locks, HandoverOf, HasPipe, ThreadTypes, Stopping, Closing, Unclosed
<1>14. ASSUME NEW u \in Units, Woken(u) PROVE HandoverOf(v)'
  BY <1>14 DEF Woken, Goto, locks, HandoverOf, HasPipe, ThreadTypes, Stopping, Closing
<1>15. ASSUME NEW u \in Units, WokenByShutdown(u) PROVE HandoverOf(v)'
  BY <1>15 DEF WokenByShutdown, Goto, Leave, HandoverOf, HasPipe, ThreadTypes, Stopping, Closing
<1>16. ASSUME NEW u \in Units, RunFailure(u) PROVE HandoverOf(v)'
  BY <1>16 DEF RunFailure, Goto, locks, HandoverOf, HasPipe, ThreadTypes, Stopping, Closing
<1>17. ASSUME NEW u \in Units, Decide(u) PROVE HandoverOf(v)'
  BY <1>17 DEF Decide, Goto, locks, HandoverOf, HasPipe, ThreadTypes, Stopping, Closing
<1>18. ASSUME NEW u \in Units, GiveUp(u) PROVE HandoverOf(v)'
  BY <1>18 DEF GiveUp, Goto, Leave, HandoverOf, HasPipe, ThreadTypes, Stopping, Closing
<1>19. ASSUME NEW u \in Units, Reset(u) PROVE HandoverOf(v)'
  BY <1>19, ResetAlone DEF Reset, Goto, locks, HandoverOf, HasPipe, ThreadTypes, Stopping,
    Closing
<1>20. ASSUME NEW u \in Units, Again(u) PROVE HandoverOf(v)'
  BY <1>20 DEF Again, Goto, locks, HandoverOf, HasPipe, ThreadTypes, Stopping, Closing
<1>21. ASSUME NEW u \in Units, NotAgain(u) PROVE HandoverOf(v)'
  BY <1>21 DEF NotAgain, Goto, locks, HandoverOf, HasPipe, ThreadTypes, Stopping, Closing
<1>22. ASSUME NEW u \in Units, Listen(u) PROVE HandoverOf(v)'
  BY <1>22 DEF Listen, Goto, HandoverOf, HasPipe, ThreadTypes, Stopping, Closing
<1>23. ASSUME NEW u \in Units, Start(u) PROVE HandoverOf(v)'
  BY <1>23 DEF Start, Goto, StartFrom, locks, HandoverOf, HasPipe, ThreadTypes, Stopping, Closing
<1>24. ASSUME NEW u \in Units, CloseAtShutdown(u) PROVE HandoverOf(v)'
  BY <1>24 DEF CloseAtShutdown, Goto, Close, locks, HandoverOf, HasPipe, ThreadTypes, Stopping,
    Closing
<1>25. ASSUME NEW u \in Units, StopRequest(u) PROVE HandoverOf(v)'
  BY <1>25 DEF StopRequest, Goto, Close, locks, HandoverOf, HasPipe, ThreadTypes, Stopping,
    Closing
<1>26. ASSUME NEW u \in Units, Closed(u) PROVE HandoverOf(v)'
  BY <1>26 DEF Closed, Goto, locks, HandoverOf, HasPipe, ThreadTypes, Stopping, Closing
<1>27. ASSUME NEW u \in Units, Test(u) PROVE HandoverOf(v)'
  BY <1>27 DEF Test, Goto, locks, HandoverOf, HasPipe, ThreadTypes, Stopping, Closing
<1>28. ASSUME NEW u \in Units, StopLock(u) PROVE HandoverOf(v)'
  BY <1>28 DEF StopLock, Goto, HandoverOf, HasPipe, ThreadTypes, Stopping, Closing
<1>29. ASSUME NEW u \in Units, StopPoll(u) PROVE HandoverOf(v)'
  BY <1>29 DEF StopPoll, Goto, Reap, locks, HandoverOf, HasPipe, ThreadTypes, Stopping, Closing
<1>30. ASSUME NEW u \in Units, StopKill(u) PROVE HandoverOf(v)'
  BY <1>30 DEF StopKill, Goto, End, locks, HandoverOf, HasPipe, ThreadTypes, Stopping, Closing
<1>31. ASSUME NEW u \in Units, StopForkFails(u) PROVE HandoverOf(v)'
  BY <1>31 DEF StopForkFails, Goto, locks, HandoverOf, HasPipe, ThreadTypes, Stopping, Closing
<1>32. ASSUME NEW u \in Units, StopClear(u) PROVE HandoverOf(v)'
  BY <1>32 DEF StopClear, Goto, locks, HandoverOf, HasPipe, ThreadTypes, Stopping, Closing
<1>33. ASSUME NEW u \in Units, StopSet(u) PROVE HandoverOf(v)'
  BY <1>33 DEF StopSet, Goto, locks, HandoverOf, HasPipe, ThreadTypes, Stopping, Closing
<1>34. ASSUME NEW u \in Units, StopEvaluate(u) PROVE HandoverOf(v)'
  BY <1>34 DEF StopEvaluate, Goto, locks, HandoverOf, HasPipe, ThreadTypes, Stopping, Closing
<1>35. ASSUME NEW u \in Units, StopEnd(u) PROVE HandoverOf(v)'
  BY <1>35 DEF StopEnd, Goto, HandoverOf, HasPipe, ThreadTypes, Stopping, Closing
<1>36. ASSUME NEW u \in Units, Die(u) PROVE HandoverOf(v)'
  BY <1>36 DEF Die, End, locks, HandoverOf, HasPipe, ThreadTypes, Stopping, Closing
<1>37. ASSUME NEW s \in Signals, Catch(s) PROVE HandoverOf(v)'
  BY <1>37 DEF Catch, locks, HandoverOf, HasPipe, ThreadTypes, Stopping, Closing
<1>38. ASSUME NEW s \in Signals, RecordCode(s) PROVE HandoverOf(v)'
  BY <1>38 DEF RecordCode, Reap, locks, HandoverOf, HasPipe, ThreadTypes, Stopping, Closing
<1>39. ASSUME NEW s \in Signals, Record(s) PROVE HandoverOf(v)'
  BY <1>39 DEF Record, locks, HandoverOf, HasPipe, ThreadTypes, Stopping, Closing
<1>40. ASSUME NEW s \in Signals, RecordNothing(s) PROVE HandoverOf(v)'
  BY <1>40 DEF RecordNothing, locks, HandoverOf, HasPipe, ThreadTypes, Stopping, Closing
<1>41. CASE Clean
  BY <1>41 DEF Clean, locks, HandoverOf, HasPipe, ThreadTypes, Stopping, Closing
<1>42. CASE ListenSocket
  BY <1>42 DEF ListenSocket, locks, HandoverOf, HasPipe, ThreadTypes, Stopping, Closing
<1>43. CASE Shutdown
  BY <1>43 DEF Shutdown, locks, HandoverOf, HasPipe, ThreadTypes, Stopping, Closing
<1>44. CASE UNCHANGED vars
  BY <1>44 DEF vars, locks, HandoverOf, HasPipe, ThreadTypes, Stopping, Closing
<1> QED
  BY Steps, <1>1, <1>2, <1>3, <1>4, <1>5, <1>6, <1>7, <1>8, <1>9, <1>10, <1>11, <1>12, <1>13,
     <1>14, <1>15, <1>16, <1>17, <1>18, <1>19, <1>20, <1>21, <1>22, <1>23, <1>24, <1>25,
     <1>26, <1>27, <1>28, <1>29, <1>30, <1>31, <1>32, <1>33, <1>34, <1>35, <1>36, <1>37,
     <1>38, <1>39, <1>40, <1>41, <1>42, <1>43, <1>44
    DEF Starter, Listener, Manager, Handler

(* Processes is preserved. *)
LEMMA ProcessesStep ==
  ASSUME ThreadTypes, DataTypes, Handover, Processes, OneNotice, Notices \subseteq Signals, [Next]_vars
  PROVE  Processes'
<1> SUFFICES ASSUME NEW v \in Units
             PROVE  ProcessesOf(v)'
  BY DEF Processes
<1>a. \A u \in Units : policy[u].forks \in 0..MaxForks /\ MaxForks \in Nat \ {0}
  BY Policies DEF DataTypes
<1> USE <1>a DEF Processes
<1>1. ASSUME NEW u \in Units, StartLock(u) PROVE ProcessesOf(v)'
  BY <1>1 DEF StartLock, Goto, os, ProcessesOf, Fresh, Alive, Restarting, InHand, ThreadTypes,
    DataTypes
<1>2. ASSUME NEW u \in Units, Fork(u) PROVE ProcessesOf(v)'
  <2>1. ~Alive(u) /\ forks[u] < policy[u].forks
    BY <1>2, ForkAlone DEF Fork, Goto
  <2>2. manager[u] \notin {"new", "handshake", "stopClear", "stopSet"} /\ listener[u] \notin InHand
    BY <1>2, ForkAlone DEF Fork, Goto, Closing, Stopping
  <2>3. /\ starter[u] = "fork" /\ starter' = [starter EXCEPT ![u] = "pid"]
        /\ forks' = [forks EXCEPT ![u] = @ + 1]
        /\ proc' = [proc EXCEPT ![u][forks[u] + 1] = "alive"]
        /\ UNCHANGED <<policy, pData, listener, manager>>
    BY <1>2 DEF Fork, Goto
  <2>4. CASE v # u
    BY <2>3, <2>4 DEF pData, ProcessesOf, Fresh, Alive, Restarting, InHand, ThreadTypes, DataTypes
  <2>5. CASE v = u
    <3>1. /\ forks[u] + 1 \in 1..MaxForks /\ forks'[u] = forks[u] + 1 /\ forks'[u] <= policy'[u].forks
      BY <2>1, <2>3 DEF DataTypes
    <3>2. \A n \in 1..MaxForks : proc'[u][n] = IF n = forks[u] + 1 THEN "alive" ELSE proc[u][n]
      BY <2>3, <3>1 DEF DataTypes
    <3>3. \A n \in 1..MaxForks : /\ n > forks'[u] => proc'[u][n] = "none"
                                 /\ n < forks'[u] => proc'[u][n] # "alive"
      <4> SUFFICES ASSUME NEW n \in 1..MaxForks
                   PROVE  /\ n > forks'[u] => proc'[u][n] = "none"
                          /\ n < forks'[u] => proc'[u][n] # "alive"
        OBVIOUS
      <4>1. /\ n > forks[u] => proc[u][n] = "none"
            /\ n < forks[u] => proc[u][n] # "alive"
            /\ n = forks[u] => proc[u][n] # "alive"
        BY <2>1 DEF ProcessesOf, Alive
      <4>2. forks[u] \in Nat /\ n \in Nat
        BY DEF DataTypes
      <4> QED
        BY <3>1, <3>2, <4>1, <4>2
    <3>4. pid[u] = 0 /\ pState[u] \in {"dead", "restarting"} /\ ~coded[u]
      BY <2>3 DEF ProcessesOf, Fresh
    <3>5. starter'[u] = "pid" /\ manager'[u] = manager[u] /\ pid'[u] = 0 /\ pState'[u] = pState[u]
          /\ coded'[u] = coded[u] /\ listener'[u] = listener[u]
      BY <2>3, <3>4 DEF pData, ThreadTypes
    <3>6. ~Fresh(u)' /\ ~Restarting(u)'
      BY <2>2, <3>5 DEF Fresh, Restarting
    <3>7. starter'[u] \notin {"lock", "fork", "poll", "check", "write"}
          /\ pid'[u] \in {0, forks'[u]} /\ forks'[u] > 0
          /\ manager'[u] \notin {"new", "handshake", "stopClear", "stopSet"}
          /\ pState'[u] \in {"dead", "restarting"} /\ ~coded'[u]
      BY <2>2, <3>1, <3>4, <3>5 DEF DataTypes
    <3>8. ~Fresh(v)' /\ ~Restarting(v)'
      BY <2>5, <3>6, Zenon
    <3>9. /\ starter'[v] = "pid" /\ pid'[v] = 0 /\ forks'[v] > 0 /\ forks'[v] <= policy'[v].forks
          /\ manager'[v] \notin {"new", "handshake", "stopClear", "stopSet"}
          /\ pState'[v] \in {"dead", "restarting"} /\ ~coded'[v]
      BY <2>5, <3>1, <3>5, <3>7
    <3>10. \A n \in 1..MaxForks : /\ n > forks'[v] => proc'[v][n] = "none"
                                  /\ n < forks'[v] => proc'[v][n] # "alive"
      BY <2>5, <3>3
    <3> QED
      BY <3>8, <3>9, <3>10 DEF ProcessesOf
  <2> QED
    BY <2>4, <2>5
<1>3. ASSUME NEW u \in Units, ForkFails(u) PROVE ProcessesOf(v)'
  BY <1>3 DEF ForkFails, Goto, os, ProcessesOf, Fresh, Alive, Restarting, InHand, ThreadTypes,
    DataTypes, Handover, HandoverOf
<1>4. ASSUME NEW u \in Units, StartAborts(u) PROVE ProcessesOf(v)'
  BY <1>4 DEF StartAborts, Goto, os, ProcessesOf, Fresh, Alive, Restarting, InHand, ThreadTypes,
    DataTypes
<1>5. ASSUME NEW u \in Units, SetPid(u) PROVE ProcessesOf(v)'
  BY <1>5 DEF SetPid, Goto, os, ProcessesOf, Fresh, Alive, Restarting, InHand, ThreadTypes,
    DataTypes
<1>6. ASSUME NEW u \in Units, Poll(u) PROVE ProcessesOf(v)'
  BY <1>6 DEF Poll, Goto, Reap, pData, ProcessesOf, Fresh, Alive, Restarting, InHand,
    ThreadTypes, DataTypes
<1>7. ASSUME NEW u \in Units, Check(u) PROVE ProcessesOf(v)'
  BY <1>7 DEF Check, Goto, pData, os, ProcessesOf, Fresh, Alive, Restarting, InHand, ThreadTypes,
    DataTypes
<1>8. ASSUME NEW u \in Units, WriteRunning(u) PROVE ProcessesOf(v)'
  BY <1>8 DEF WriteRunning, Goto, os, ProcessesOf, Fresh, Alive, Restarting, InHand, ThreadTypes,
    DataTypes
<1>9. ASSUME NEW u \in Units, Evaluate(u) PROVE ProcessesOf(v)'
  BY <1>9 DEF Evaluate, Goto, pData, os, ProcessesOf, Fresh, Alive, Restarting, InHand,
    ThreadTypes, DataTypes
<1>10. ASSUME NEW u \in Units, Announce(u) PROVE ProcessesOf(v)'
  BY <1>10 DEF Announce, Goto, os, ProcessesOf, Fresh, Alive, Restarting, InHand, ThreadTypes,
    DataTypes
<1>11. ASSUME NEW u \in Units, ListenerBegins(u) PROVE ProcessesOf(v)'
  BY <1>11 DEF ListenerBegins, Goto, pData, os, ProcessesOf, Fresh, Alive, Restarting, InHand,
    ThreadTypes, DataTypes
<1>12. ASSUME NEW u \in Units, ReadDeath(u) PROVE ProcessesOf(v)'
  <2>1. ~Alive(u) /\ listener[u] = "read"
        /\ forks[u] > 0 /\ (forks[u] < policy[u].forks \/ listener[u] \in {"none", "gone"})
    BY <1>12, DeathRead, Settled
  <2>2. forks[u] \in 1..(policy[u].forks - 1)
    BY <2>1 DEF DataTypes
  <2>3. /\ listener' = [listener EXCEPT ![u] = "woken"]
        /\ UNCHANGED <<policy, os, pData, starter, manager>>
    BY <1>12, DeathRead
  <2>4. CASE v # u
    BY <2>3, <2>4 DEF os, pData, ProcessesOf, Fresh, Alive, Restarting, InHand, ThreadTypes,
      DataTypes
  <2>5. CASE v = u
    <3>1. /\ listener'[u] = "woken" /\ starter'[u] = starter[u]
          /\ UNCHANGED <<policy, proc, forks, pid, pState, coded, starter, manager>>
      BY <2>3 DEF os, pData, ThreadTypes
    <3>2. Restarting(u)' /\ (Fresh(u)' => Fresh(u)) /\ (Alive(u)' <=> Alive(u))
      BY <2>1, <3>1 DEF Restarting, InHand, Fresh, Alive
    <3> QED
      BY <2>1, <2>2, <2>5, <3>1, <3>2 DEF ProcessesOf, Fresh, Restarting, Alive, InHand
  <2> QED
    BY <2>4, <2>5
<1>13. ASSUME NEW u \in Units, ReadExit(u) PROVE ProcessesOf(v)'
  BY <1>13 DEF ReadExit, Goto, Leave, pData, os, ProcessesOf, Fresh, Alive, Restarting, InHand,
    ThreadTypes, DataTypes
<1>14. ASSUME NEW u \in Units, Woken(u) PROVE ProcessesOf(v)'
  BY <1>14 DEF Woken, Goto, pData, os, ProcessesOf, Fresh, Alive, Restarting, InHand,
    ThreadTypes, DataTypes
<1>15. ASSUME NEW u \in Units, WokenByShutdown(u) PROVE ProcessesOf(v)'
  BY <1>15 DEF WokenByShutdown, Goto, Leave, pData, os, ProcessesOf, Fresh, Alive, Restarting,
    InHand, ThreadTypes, DataTypes
<1>16. ASSUME NEW u \in Units, RunFailure(u) PROVE ProcessesOf(v)'
  <2>1. /\ listener[u] = "failure" /\ listener' = [listener EXCEPT ![u] = "decide"]
        /\ UNCHANGED <<policy, os, pData, starter, manager>>
    BY <1>16 DEF RunFailure, Goto
  <2> QED
    BY <2>1 DEF os, pData, ProcessesOf, Fresh, Alive, Restarting, InHand, ThreadTypes, DataTypes
<1>17. ASSUME NEW u \in Units, Decide(u) PROVE ProcessesOf(v)'
  BY <1>17 DEF Decide, Goto, pData, os, ProcessesOf, Fresh, Alive, Restarting, InHand,
    ThreadTypes, DataTypes
<1>18. ASSUME NEW u \in Units, GiveUp(u) PROVE ProcessesOf(v)'
  BY <1>18 DEF GiveUp, Goto, Leave, pData, os, ProcessesOf, Fresh, Alive, Restarting, InHand,
    ThreadTypes, DataTypes
<1>19. ASSUME NEW u \in Units, Reset(u) PROVE ProcessesOf(v)'
  <2>1. /\ starter[u] = "off" /\ manager[u] \in {"serve", "closing"} /\ listener[u] = "reset"
        /\ listener' = [listener EXCEPT ![u] = "again"]
        /\ pid' = [pid EXCEPT ![u] = 0]
        /\ pState' = [pState EXCEPT ![u] = "restarting"]
        /\ coded' = [coded EXCEPT ![u] = FALSE]
        /\ UNCHANGED <<policy, os, starter, manager>>
    BY <1>19, ResetAlone DEF Reset, Goto
  <2>2. ~Alive(u) /\ forks[u] \in 1..(policy[u].forks - 1)
    BY <2>1 DEF ProcessesOf, Restarting, InHand
  <2>3. CASE v # u
    <3>1. /\ starter'[v] = starter[v] /\ listener'[v] = listener[v] /\ manager'[v] = manager[v]
          /\ pid'[v] = pid[v] /\ pState'[v] = pState[v] /\ coded'[v] = coded[v]
          /\ proc' = proc /\ forks' = forks /\ policy' = policy
      BY <2>1, <2>3 DEF os, ThreadTypes, DataTypes
    <3> QED
      BY <3>1 DEF ProcessesOf, Fresh, Alive, Restarting, InHand
  <2>4. CASE v = u
    <3>1. /\ starter'[u] = "off" /\ listener'[u] = "again" /\ manager'[u] \in {"serve", "closing"}
          /\ pid'[u] = 0 /\ pState'[u] = "restarting" /\ coded'[u] = FALSE
          /\ proc' = proc /\ forks' = forks /\ policy' = policy
      BY <2>1 DEF os, ThreadTypes, DataTypes
    <3>2. ~Alive(u)'
      BY <2>2, <3>1 DEF Alive
    <3>3. /\ forks[u] <= policy[u].forks
          /\ \A n \in 1..MaxForks : /\ n > forks[u] => proc[u][n] = "none"
                                    /\ n < forks[u] => proc[u][n] # "alive"
      BY DEF ProcessesOf
    <3> QED
      BY <2>2, <2>4, <3>1, <3>2, <3>3 DEF ProcessesOf
  <2> QED
    BY <2>3, <2>4
<1>20. ASSUME NEW u \in Units, Again(u) PROVE ProcessesOf(v)'
  BY <1>20 DEF Again, Goto, pData, os, ProcessesOf, Fresh, Alive, Restarting, InHand,
    ThreadTypes, DataTypes, Handover, HandoverOf
<1>21. ASSUME NEW u \in Units, NotAgain(u) PROVE ProcessesOf(v)'
  BY <1>21 DEF NotAgain, Goto, pData, os, ProcessesOf, Fresh, Alive, Restarting, InHand,
    ThreadTypes, DataTypes
<1>22. ASSUME NEW u \in Units, Listen(u) PROVE ProcessesOf(v)'
  BY <1>22 DEF Listen, Goto, pData, os, ProcessesOf, Fresh, Alive, Restarting, InHand,
    ThreadTypes, DataTypes
<1>23. ASSUME NEW u \in Units, Start(u) PROVE ProcessesOf(v)'
  <2>1. /\ manager[u] \in {"new", "handshake"} /\ manager' = [manager EXCEPT ![u] = "starting"]
        /\ starter' = [starter EXCEPT ![u] = "lock"]
        /\ UNCHANGED <<policy, os, handler, pData, listener>>
    BY <1>23 DEF Start, StartFrom, Goto
  <2>2. listener[u] \in {"none", "begin", "read"}
    BY <2>1 DEF Handover, HandoverOf
  <2> QED
    BY <2>1, <2>2 DEF os, handler, pData, ProcessesOf, Fresh, Alive, Restarting, InHand,
      ThreadTypes, DataTypes
<1>24. ASSUME NEW u \in Units, CloseAtShutdown(u) PROVE ProcessesOf(v)'
  <2>1. \E to \in {"closing", "test"} : manager[u] = "serve" /\ manager' = [manager EXCEPT ![u] = to]
    BY <1>24 DEF CloseAtShutdown, Close, Goto
  <2>2. UNCHANGED <<policy, os, pData, starter, listener>>
    BY <1>24 DEF CloseAtShutdown, Close
  <2> QED
    BY <2>1, <2>2 DEF os, pData, ProcessesOf, Fresh, Alive, Restarting, InHand, ThreadTypes,
      DataTypes
<1>25. ASSUME NEW u \in Units, StopRequest(u) PROVE ProcessesOf(v)'
  <2>1. \E to \in {"closing", "test"} : manager[u] = "serve" /\ manager' = [manager EXCEPT ![u] = to]
    BY <1>25 DEF StopRequest, Close, Goto
  <2>2. UNCHANGED <<policy, os, pData, starter, listener>>
    BY <1>25 DEF StopRequest, Close
  <2> QED
    BY <2>1, <2>2 DEF os, pData, ProcessesOf, Fresh, Alive, Restarting, InHand, ThreadTypes,
      DataTypes
<1>26. ASSUME NEW u \in Units, Closed(u) PROVE ProcessesOf(v)'
  BY <1>26 DEF Closed, Goto, pData, os, ProcessesOf, Fresh, Alive, Restarting, InHand,
    ThreadTypes, DataTypes
<1>27. ASSUME NEW u \in Units, Test(u) PROVE ProcessesOf(v)'
  BY <1>27 DEF Test, Goto, pData, os, ProcessesOf, Fresh, Alive, Restarting, InHand, ThreadTypes,
    DataTypes
<1>28. ASSUME NEW u \in Units, StopLock(u) PROVE ProcessesOf(v)'
  BY <1>28 DEF StopLock, Goto, pData, os, ProcessesOf, Fresh, Alive, Restarting, InHand,
    ThreadTypes, DataTypes
<1>29. ASSUME NEW u \in Units, StopPoll(u) PROVE ProcessesOf(v)'
  <2>1. /\ manager[u] = "stopPoll" /\ manager' = [manager EXCEPT ![u] = "stopClear"]
        /\ pid[u] > 0 => proc[u][pid[u]] # "alive"
        /\ Reap(u, pid[u])
        /\ UNCHANGED <<policy, forks, pending, handler, pData, starter, listener>>
    BY <1>29 DEF StopPoll, Goto
  <2>2. starter[u] = "off" /\ ~Fresh(u) /\ ~Restarting(u)
    BY <2>1, Alone DEF Closing, Stopping
  <2>3. ~Alive(u)
    BY <2>1, <2>2 DEF Processes, ProcessesOf, Alive, DataTypes
  <2> QED
    BY <2>1, <2>2, <2>3 DEF Reap, handler, pData, ProcessesOf, Fresh, Alive, Restarting, InHand,
      ThreadTypes, DataTypes
<1>30. ASSUME NEW u \in Units, StopKill(u) PROVE ProcessesOf(v)'
  BY <1>30 DEF StopKill, Goto, End, pData, ProcessesOf, Fresh, Alive, Restarting, InHand,
    ThreadTypes, DataTypes
<1>31. ASSUME NEW u \in Units, StopForkFails(u) PROVE ProcessesOf(v)'
  BY <1>31, Alone DEF StopForkFails, Goto, os, ProcessesOf, Fresh, Alive, Restarting, InHand,
    ThreadTypes, DataTypes, Closing, Stopping
<1>32. ASSUME NEW u \in Units, StopClear(u) PROVE ProcessesOf(v)'
  BY <1>32 DEF StopClear, Goto, os, ProcessesOf, Fresh, Alive, Restarting, InHand, ThreadTypes,
    DataTypes
<1>33. ASSUME NEW u \in Units, StopSet(u) PROVE ProcessesOf(v)'
  BY <1>33 DEF StopSet, Goto, os, ProcessesOf, Fresh, Alive, Restarting, InHand, ThreadTypes,
    DataTypes
<1>34. ASSUME NEW u \in Units, StopEvaluate(u) PROVE ProcessesOf(v)'
  BY <1>34 DEF StopEvaluate, Goto, pData, os, ProcessesOf, Fresh, Alive, Restarting, InHand,
    ThreadTypes, DataTypes
<1>35. ASSUME NEW u \in Units, StopEnd(u) PROVE ProcessesOf(v)'
  BY <1>35 DEF StopEnd, Goto, os, ProcessesOf, Fresh, Alive, Restarting, InHand, ThreadTypes,
    DataTypes
<1>36. ASSUME NEW u \in Units, Die(u) PROVE ProcessesOf(v)'
  BY <1>36 DEF Die, End, pData, ProcessesOf, Fresh, Alive, Restarting, InHand, ThreadTypes,
    DataTypes
<1>37. ASSUME NEW s \in Signals, Catch(s) PROVE ProcessesOf(v)'
  BY <1>37 DEF Catch, pData, ProcessesOf, Fresh, Alive, Restarting, InHand, ThreadTypes,
    DataTypes
<1>38. ASSUME NEW s \in Signals, RecordCode(s) PROVE ProcessesOf(v)'
  <2>1. s[1] \in Units /\ ~Alive(s[1]) /\ ~Fresh(s[1])
    BY <1>38, Signalled, Settled DEF RecordCode, Notices
  <2> QED
    BY <1>38, <2>1 DEF RecordCode, Reap, ProcessesOf, Fresh, Alive, Restarting, InHand,
      ThreadTypes, DataTypes
<1>39. ASSUME NEW s \in Signals, Record(s) PROVE ProcessesOf(v)'
  <2>1. s[1] \in Units /\ ~Alive(s[1]) /\ ~Fresh(s[1])
    BY <1>39, Signalled, Settled DEF Record, Notices
  <2> QED
    BY <1>39, <2>1 DEF Record, os, ProcessesOf, Fresh, Alive, Restarting, InHand, ThreadTypes,
      DataTypes
<1>40. ASSUME NEW s \in Signals, RecordNothing(s) PROVE ProcessesOf(v)'
  BY <1>40 DEF RecordNothing, pData, os, ProcessesOf, Fresh, Alive, Restarting, InHand,
    ThreadTypes, DataTypes
<1>41. CASE Clean
  BY <1>41 DEF Clean, pData, ProcessesOf, Fresh, Alive, Restarting, InHand, ThreadTypes,
    DataTypes
<1>42. CASE ListenSocket
  BY <1>42 DEF ListenSocket, pData, os, ProcessesOf, Fresh, Alive, Restarting, InHand,
    ThreadTypes, DataTypes
<1>43. CASE Shutdown
  BY <1>43 DEF Shutdown, pData, os, ProcessesOf, Fresh, Alive, Restarting, InHand, ThreadTypes,
    DataTypes
<1>44. CASE UNCHANGED vars
  BY <1>44 DEF vars, pData, os, ProcessesOf, Fresh, Alive, Restarting, InHand, ThreadTypes,
    DataTypes
<1> QED
  BY Steps, <1>1, <1>2, <1>3, <1>4, <1>5, <1>6, <1>7, <1>8, <1>9, <1>10, <1>11, <1>12, <1>13,
     <1>14, <1>15, <1>16, <1>17, <1>18, <1>19, <1>20, <1>21, <1>22, <1>23, <1>24, <1>25,
     <1>26, <1>27, <1>28, <1>29, <1>30, <1>31, <1>32, <1>33, <1>34, <1>35, <1>36, <1>37,
     <1>38, <1>39, <1>40, <1>41, <1>42, <1>43, <1>44
    DEF Starter, Listener, Manager, Handler

(* The signals stay apart. *)
LEMMA SignalsStep ==
  ASSUME ThreadTypes, DataTypes, Handover, Processes, OneNotice, Notices \subseteq Signals, [Next]_vars
  PROVE  SignalsApart'
<1>a. \A u \in Units : policy[u].ends \subseteq {"exit", "kill", "dump"}
  BY SuperviseAssumption DEF DataTypes, PolicyType
<1> USE DEF OneNotice
<1>1. ASSUME NEW u \in Units, StartLock(u) PROVE SignalsApart'
  BY <1>1 DEF StartLock, os, handler, SignalsApart, Notices
<1>2. ASSUME NEW u \in Units, Fork(u) PROVE SignalsApart'
  <2>1. ~Noticed(u)
    BY <1>2, Settled DEF Fork, Goto, Fresh
  <2>2. forks' = [forks EXCEPT ![u] = @ + 1] /\ UNCHANGED <<pending, handling, storing>>
    BY <1>2 DEF Fork, handler
  <2>3. \A s \in Notices : s[1] # u /\ s[1] \in Units
    BY <2>1, Signalled DEF Noticed
  <2> QED
    BY <2>2, <2>3 DEF SignalsApart, Notices, DataTypes
<1>3. ASSUME NEW u \in Units, ForkFails(u) PROVE SignalsApart'
  BY <1>3 DEF ForkFails, os, handler, SignalsApart, Notices
<1>4. ASSUME NEW u \in Units, StartAborts(u) PROVE SignalsApart'
  BY <1>4 DEF StartAborts, os, handler, SignalsApart, Notices
<1>5. ASSUME NEW u \in Units, SetPid(u) PROVE SignalsApart'
  BY <1>5 DEF SetPid, os, handler, SignalsApart, Notices
<1>6. ASSUME NEW u \in Units, Poll(u) PROVE SignalsApart'
  BY <1>6 DEF Poll, Reap, handler, SignalsApart, Notices
<1>7. ASSUME NEW u \in Units, Check(u) PROVE SignalsApart'
  BY <1>7 DEF Check, os, handler, SignalsApart, Notices
<1>8. ASSUME NEW u \in Units, WriteRunning(u) PROVE SignalsApart'
  BY <1>8 DEF WriteRunning, os, handler, SignalsApart, Notices
<1>9. ASSUME NEW u \in Units, Evaluate(u) PROVE SignalsApart'
  BY <1>9 DEF Evaluate, os, handler, SignalsApart, Notices
<1>10. ASSUME NEW u \in Units, Announce(u) PROVE SignalsApart'
  BY <1>10 DEF Announce, os, handler, SignalsApart, Notices
<1>11. ASSUME NEW u \in Units, ListenerBegins(u) PROVE SignalsApart'
  BY <1>11 DEF ListenerBegins, os, handler, SignalsApart, Notices
<1>12. ASSUME NEW u \in Units, ReadDeath(u) PROVE SignalsApart'
  BY <1>12 DEF ReadDeath, os, handler, SignalsApart, Notices
<1>13. ASSUME NEW u \in Units, ReadExit(u) PROVE SignalsApart'
  BY <1>13 DEF ReadExit, Leave, os, handler, SignalsApart, Notices
<1>14. ASSUME NEW u \in Units, Woken(u) PROVE SignalsApart'
  BY <1>14 DEF Woken, os, handler, SignalsApart, Notices
<1>15. ASSUME NEW u \in Units, WokenByShutdown(u) PROVE SignalsApart'
  BY <1>15 DEF WokenByShutdown, Leave, os, handler, SignalsApart, Notices
<1>16. ASSUME NEW u \in Units, RunFailure(u) PROVE SignalsApart'
  BY <1>16 DEF RunFailure, os, handler, SignalsApart, Notices
<1>17. ASSUME NEW u \in Units, Decide(u) PROVE SignalsApart'
  BY <1>17 DEF Decide, os, handler, SignalsApart, Notices
<1>18. ASSUME NEW u \in Units, GiveUp(u) PROVE SignalsApart'
  BY <1>18 DEF GiveUp, Leave, os, handler, SignalsApart, Notices
<1>19. ASSUME NEW u \in Units, Reset(u) PROVE SignalsApart'
  BY <1>19 DEF Reset, os, handler, SignalsApart, Notices
<1>20. ASSUME NEW u \in Units, Again(u) PROVE SignalsApart'
  BY <1>20 DEF Again, os, handler, SignalsApart, Notices
<1>21. ASSUME NEW u \in Units, NotAgain(u) PROVE SignalsApart'
  BY <1>21 DEF NotAgain, os, handler, SignalsApart, Notices
<1>22. ASSUME NEW u \in Units, Listen(u) PROVE SignalsApart'
  BY <1>22 DEF Listen, os, handler, SignalsApart, Notices
<1>23. ASSUME NEW u \in Units, Start(u) PROVE SignalsApart'
  BY <1>23 DEF Start, StartFrom, os, handler, SignalsApart, Notices
<1>24. ASSUME NEW u \in Units, CloseAtShutdown(u) PROVE SignalsApart'
  BY <1>24 DEF CloseAtShutdown, Close, os, handler, SignalsApart, Notices
<1>25. ASSUME NEW u \in Units, StopRequest(u) PROVE SignalsApart'
  BY <1>25 DEF StopRequest, Close, os, handler, SignalsApart, Notices
<1>26. ASSUME NEW u \in Units, Closed(u) PROVE SignalsApart'
  BY <1>26 DEF Closed, os, handler, SignalsApart, Notices
<1>27. ASSUME NEW u \in Units, Test(u) PROVE SignalsApart'
  BY <1>27 DEF Test, os, handler, SignalsApart, Notices
<1>28. ASSUME NEW u \in Units, StopLock(u) PROVE SignalsApart'
  BY <1>28 DEF StopLock, os, handler, SignalsApart, Notices
<1>29. ASSUME NEW u \in Units, StopPoll(u) PROVE SignalsApart'
  BY <1>29 DEF StopPoll, Reap, handler, SignalsApart, Notices
<1>30. ASSUME NEW u \in Units, StopKill(u) PROVE SignalsApart'
  <2>1. /\ ~HasDeath(u) /\ ~Noticed(u)
        /\ \E t \in Signals : /\ t[1] = u /\ t[2] = forks[u]
                             /\ pending' = IF pending = {} THEN {t} ELSE pending
        /\ UNCHANGED <<forks, handling, storing>>
    <3>0. pid[u] > 0 /\ proc[u][pid[u]] = "alive" /\ pid[u] \in {0, forks[u]}
      BY <1>30 DEF StopKill, Processes, ProcessesOf
    <3>1. Alive(u) /\ pid[u] = forks[u]
      BY <3>0 DEF Alive, DataTypes
    <3>2. ~HasDeath(u) /\ ~Noticed(u)
      BY <3>1 DEF OneNotice, NoticesOf
    <3>3. PICK cause \in {"exit", "kill", "dump"} :
            pending' = IF pending = {} THEN {<<u, forks[u], cause>>} ELSE pending
      BY <1>30, <3>1, <1>a DEF StopKill, End
    <3>4. <<u, forks[u], cause>> \in Signals
      BY <3>1 DEF Signals, Alive, DataTypes
    <3> QED
      BY <1>30, <3>2, <3>3, <3>4 DEF StopKill, handler
  <2> QED
    BY <2>1 DEF SignalsApart, Notices, Noticed
<1>31. ASSUME NEW u \in Units, StopForkFails(u) PROVE SignalsApart'
  BY <1>31 DEF StopForkFails, os, handler, SignalsApart, Notices
<1>32. ASSUME NEW u \in Units, StopClear(u) PROVE SignalsApart'
  BY <1>32 DEF StopClear, os, handler, SignalsApart, Notices
<1>33. ASSUME NEW u \in Units, StopSet(u) PROVE SignalsApart'
  BY <1>33 DEF StopSet, os, handler, SignalsApart, Notices
<1>34. ASSUME NEW u \in Units, StopEvaluate(u) PROVE SignalsApart'
  BY <1>34 DEF StopEvaluate, os, handler, SignalsApart, Notices
<1>35. ASSUME NEW u \in Units, StopEnd(u) PROVE SignalsApart'
  BY <1>35 DEF StopEnd, os, handler, SignalsApart, Notices
<1>36. ASSUME NEW u \in Units, Die(u) PROVE SignalsApart'
  <2>1. /\ ~HasDeath(u) /\ ~Noticed(u)
        /\ \E t \in Signals : /\ t[1] = u /\ t[2] = forks[u]
                             /\ pending' = IF pending = {} THEN {t} ELSE pending
        /\ UNCHANGED <<forks, handling, storing>>
    <3>1. Alive(u)
      BY <1>36 DEF Die, Alive, DataTypes
    <3>2. ~HasDeath(u) /\ ~Noticed(u)
      BY <3>1 DEF OneNotice, NoticesOf
    <3>3. PICK cause \in {"exit", "kill", "dump"} :
            pending' = IF pending = {} THEN {<<u, forks[u], cause>>} ELSE pending
      BY <1>36, <3>1, <1>a DEF Die, End
    <3>4. <<u, forks[u], cause>> \in Signals
      BY <3>1 DEF Signals, Alive, DataTypes
    <3> QED
      BY <1>36, <3>2, <3>3, <3>4 DEF Die, handler
  <2> QED
    BY <2>1 DEF SignalsApart, Notices, Noticed
<1>37. ASSUME NEW s \in Signals, Catch(s) PROVE SignalsApart'
  BY <1>37 DEF Catch, SignalsApart, Notices
<1>38. ASSUME NEW s \in Signals, RecordCode(s) PROVE SignalsApart'
  BY <1>38 DEF RecordCode, Reap, SignalsApart, Notices
<1>39. ASSUME NEW s \in Signals, Record(s) PROVE SignalsApart'
  BY <1>39 DEF Record, os, SignalsApart, Notices
<1>40. ASSUME NEW s \in Signals, RecordNothing(s) PROVE SignalsApart'
  BY <1>40 DEF RecordNothing, os, SignalsApart, Notices
<1>41. CASE Clean
  BY <1>41 DEF Clean, handler, SignalsApart, Notices
<1>42. CASE ListenSocket
  BY <1>42 DEF ListenSocket, os, handler, SignalsApart, Notices
<1>43. CASE Shutdown
  BY <1>43 DEF Shutdown, os, handler, SignalsApart, Notices
<1>44. CASE UNCHANGED vars
  BY <1>44 DEF vars, os, handler, SignalsApart, Notices
<1> QED
  BY Steps, <1>1, <1>2, <1>3, <1>4, <1>5, <1>6, <1>7, <1>8, <1>9, <1>10, <1>11, <1>12, <1>13,
     <1>14, <1>15, <1>16, <1>17, <1>18, <1>19, <1>20, <1>21, <1>22, <1>23, <1>24, <1>25,
     <1>26, <1>27, <1>28, <1>29, <1>30, <1>31, <1>32, <1>33, <1>34, <1>35, <1>36, <1>37,
     <1>38, <1>39, <1>40, <1>41, <1>42, <1>43, <1>44
    DEF Starter, Listener, Manager, Handler

(* What is known of the deaths of a unit is preserved. *)
LEMMA NoticesStep ==
  ASSUME ThreadTypes, DataTypes, Handover, Processes, OneNotice, Notices \subseteq Signals, [Next]_vars
  PROVE  (\A u \in Units : NoticesOf(u))'
<1> SUFFICES ASSUME NEW v \in Units
             PROVE  NoticesOf(v)'
  OBVIOUS
<1>a. \A u \in Units : policy[u].forks \in 0..MaxForks /\ policy[u].ends \subseteq {"exit", "kill", "dump"}
  BY SuperviseAssumption DEF DataTypes, PolicyType
<1> USE DEF OneNotice
<1>1. ASSUME NEW u \in Units, StartLock(u) PROVE NoticesOf(v)'
  BY <1>1 DEF StartLock, Goto, os, handler, NoticesOf, HasDeath, Noticed, Notices, Alive,
    Restarting, InHand, HasPipe, ThreadTypes, DataTypes, Unclosed
<1>2. ASSUME NEW u \in Units, Fork(u) PROVE NoticesOf(v)'
  <2>1. ~HasDeath(u) /\ ~Noticed(u)
    BY <1>2, Settled DEF Fork, Goto, Fresh
  <2> QED
    BY <1>2, <2>1 DEF Fork, Goto, handler, NoticesOf, HasDeath, Noticed, Notices, Alive,
      Restarting, InHand, HasPipe, ThreadTypes, DataTypes, Unclosed
<1>3. ASSUME NEW u \in Units, ForkFails(u) PROVE NoticesOf(v)'
  BY <1>3 DEF ForkFails, Goto, os, handler, NoticesOf, HasDeath, Noticed, Notices, Alive,
    Restarting, InHand, HasPipe, ThreadTypes, DataTypes, Unclosed
<1>4. ASSUME NEW u \in Units, StartAborts(u) PROVE NoticesOf(v)'
  BY <1>4 DEF StartAborts, Goto, os, handler, NoticesOf, HasDeath, Noticed, Notices, Alive,
    Restarting, InHand, HasPipe, ThreadTypes, DataTypes, Unclosed
<1>5. ASSUME NEW u \in Units, SetPid(u) PROVE NoticesOf(v)'
  BY <1>5 DEF SetPid, Goto, os, handler, NoticesOf, HasDeath, Noticed, Notices, Alive,
    Restarting, InHand, HasPipe, ThreadTypes, DataTypes, Unclosed
<1>6. ASSUME NEW u \in Units, Poll(u) PROVE NoticesOf(v)'
  BY <1>6 DEF Poll, Goto, Reap, handler, NoticesOf, HasDeath, Noticed, Notices, Alive,
    Restarting, InHand, HasPipe, ThreadTypes, DataTypes, Unclosed
<1>7. ASSUME NEW u \in Units, Check(u) PROVE NoticesOf(v)'
  BY <1>7 DEF Check, Goto, os, handler, NoticesOf, HasDeath, Noticed, Notices, Alive, Restarting,
    InHand, HasPipe, ThreadTypes, DataTypes, Unclosed
<1>8. ASSUME NEW u \in Units, WriteRunning(u) PROVE NoticesOf(v)'
  BY <1>8 DEF WriteRunning, Goto, os, handler, NoticesOf, HasDeath, Noticed, Notices, Alive,
    Restarting, InHand, HasPipe, ThreadTypes, DataTypes, Unclosed
<1>9. ASSUME NEW u \in Units, Evaluate(u) PROVE NoticesOf(v)'
  BY <1>9 DEF Evaluate, Goto, os, handler, NoticesOf, HasDeath, Noticed, Notices, Alive,
    Restarting, InHand, HasPipe, ThreadTypes, DataTypes, Unclosed
<1>10. ASSUME NEW u \in Units, Announce(u) PROVE NoticesOf(v)'
  BY <1>10 DEF Announce, Goto, os, handler, NoticesOf, HasDeath, Noticed, Notices, Alive,
    Restarting, InHand, HasPipe, ThreadTypes, DataTypes, Unclosed
<1>11. ASSUME NEW u \in Units, ListenerBegins(u) PROVE NoticesOf(v)'
  BY <1>11 DEF ListenerBegins, Goto, os, handler, NoticesOf, HasDeath, Noticed, Notices, Alive,
    Restarting, InHand, HasPipe, ThreadTypes, DataTypes, Unclosed
<1>12. ASSUME NEW u \in Units, ReadDeath(u) PROVE NoticesOf(v)'
  <2>1. ~Noticed(u) /\ ~HasDeath(u)' /\ pipe' = [pipe EXCEPT ![u] = pipe'[u]]
    BY <1>12, DeathRead DEF NoticesOf
  <2>2. pipe'[u] = <<>> \/ pipe[u] = <<"death", "exit">>
    BY <1>12, DeathRead
  <2>3. <<"death", "exit">> # <<>> /\ <<"death", "exit">> \notin Early /\ <<>> \in Early
    BY DEF Early
  <2>4. /\ listener[u] = "read" /\ listener' = [listener EXCEPT ![u] = "woken"]
        /\ UNCHANGED <<policy, os, handler, starter, manager>>
    BY <1>12, DeathRead
  <2>5. HasPipe(u) /\ (pipe[u] \in Early => pipe'[u] \in Early)
    <3>1. pipe[u] # <<>>
      BY <1>12 DEF ReadDeath
    <3> QED
      BY <2>2, <2>3, <3>1 DEF NoticesOf
  <2> HIDE DEF OneNotice
  <2>6. /\ pipe \in [Units -> Shapes] /\ (Noticed(v)' <=> Noticed(v)) /\ (Alive(v)' <=> Alive(v))
        /\ NoticesOf(v)
    BY <2>4 DEF os, handler, Noticed, Notices, Alive, OneNotice
  <2>7. CASE v # u
    BY <2>1, <2>4, <2>6, <2>7 DEF os, handler, NoticesOf, HasDeath, Noticed, Notices, Alive,
      Restarting, InHand, HasPipe, ThreadTypes, DataTypes, Unclosed
  <2>8. CASE v = u
    <3>1. ~HasDeath(v)' /\ ~Noticed(v)'
      BY <2>1, <2>6, <2>8, Zenon
    <3>2. HasPipe(v)' /\ (manager'[v] \in Unclosed => pipe'[v] \in Early)
      BY <2>4, <2>5, <2>6, <2>8 DEF HasPipe, NoticesOf
    <3> QED
      BY <3>1, <3>2 DEF NoticesOf
  <2> QED
    BY <2>7, <2>8
<1>13. ASSUME NEW u \in Units, ReadExit(u) PROVE NoticesOf(v)'
  <2>1. /\ listener[u] = "read" /\ listener' = [listener EXCEPT ![u] = "gone"]
        /\ UNCHANGED <<policy, os, handler, starter, manager>>
        /\ manager[u] \notin Unclosed
    BY <1>13, ExitRead
  <2>2. pipe' = [pipe EXCEPT ![u] = pipe'[u]] /\ pipe[u] # <<>> /\ (HasDeath(u)' <=> HasDeath(u))
    BY <1>13, ExitRead
  <2> QED
    BY <2>1, <2>2 DEF os, handler, NoticesOf, HasDeath, Noticed, Notices, Alive, Restarting,
      InHand, HasPipe, ThreadTypes, DataTypes, Unclosed
<1>14. ASSUME NEW u \in Units, Woken(u) PROVE NoticesOf(v)'
  BY <1>14 DEF Woken, Goto, os, handler, NoticesOf, HasDeath, Noticed, Notices, Alive,
    Restarting, InHand, HasPipe, ThreadTypes, DataTypes, Unclosed
<1>15. ASSUME NEW u \in Units, WokenByShutdown(u) PROVE NoticesOf(v)'
  BY <1>15 DEF WokenByShutdown, Goto, Leave, os, handler, NoticesOf, HasDeath, Noticed, Notices,
    Alive, Restarting, InHand, HasPipe, ThreadTypes, DataTypes, Unclosed
<1>16. ASSUME NEW u \in Units, RunFailure(u) PROVE NoticesOf(v)'
  BY <1>16 DEF RunFailure, Goto, os, handler, NoticesOf, HasDeath, Noticed, Notices, Alive,
    Restarting, InHand, HasPipe, ThreadTypes, DataTypes, Unclosed
<1>17. ASSUME NEW u \in Units, Decide(u) PROVE NoticesOf(v)'
  BY <1>17 DEF Decide, Goto, os, handler, NoticesOf, HasDeath, Noticed, Notices, Alive,
    Restarting, InHand, HasPipe, ThreadTypes, DataTypes, Unclosed
<1>18. ASSUME NEW u \in Units, GiveUp(u) PROVE NoticesOf(v)'
  BY <1>18 DEF GiveUp, Goto, Leave, os, handler, NoticesOf, HasDeath, Noticed, Notices, Alive,
    Restarting, InHand, HasPipe, ThreadTypes, DataTypes, Unclosed
<1>19. ASSUME NEW u \in Units, Reset(u) PROVE NoticesOf(v)'
  BY <1>19 DEF Reset, Goto, os, handler, NoticesOf, HasDeath, Noticed, Notices, Alive,
    Restarting, InHand, HasPipe, ThreadTypes, DataTypes, Unclosed
<1>20. ASSUME NEW u \in Units, Again(u) PROVE NoticesOf(v)'
  BY <1>20 DEF Again, Goto, os, handler, NoticesOf, HasDeath, Noticed, Notices, Alive,
    Restarting, InHand, HasPipe, ThreadTypes, DataTypes, Unclosed
<1>21. ASSUME NEW u \in Units, NotAgain(u) PROVE NoticesOf(v)'
  BY <1>21 DEF NotAgain, Goto, os, handler, NoticesOf, HasDeath, Noticed, Notices, Alive,
    Restarting, InHand, HasPipe, ThreadTypes, DataTypes, Unclosed
<1>22. ASSUME NEW u \in Units, Listen(u) PROVE NoticesOf(v)'
  <2>1. forks[u] = 0 /\ manager[u] \in {"new", "handshake"}
    BY <1>22 DEF Listen, Goto, Processes, ProcessesOf
  <2>2. ~HasDeath(u) /\ ~Noticed(u)
    BY <2>1 DEF NoticesOf, DataTypes
  <2> QED
    BY <1>22, <2>1, <2>2 DEF Listen, Goto, os, handler, NoticesOf, HasDeath, Noticed, Notices,
      Alive, Restarting, InHand, HasPipe, ThreadTypes, DataTypes, Unclosed
<1>23. ASSUME NEW u \in Units, Start(u) PROVE NoticesOf(v)'
  <2>1. forks[u] = 0 /\ manager[u] \in {"new", "handshake"}
    BY <1>23 DEF Start, StartFrom, Goto, Processes, ProcessesOf
  <2>2. ~HasDeath(u) /\ ~Noticed(u)
    BY <2>1 DEF NoticesOf, DataTypes
  <2> QED
    BY <1>23, <2>1, <2>2 DEF Start, Goto, StartFrom, os, handler, NoticesOf, HasDeath, Noticed,
      Notices, Alive, Restarting, InHand, HasPipe, ThreadTypes, DataTypes, Unclosed
<1>24. ASSUME NEW u \in Units, CloseAtShutdown(u) PROVE NoticesOf(v)'
  <2>1. Close(u)
    BY <1>24 DEF CloseAtShutdown
  <2>2. pipe' = [pipe EXCEPT ![u] = pipe'[u]] /\ (pipe'[u] = <<>> \/ HasPipe(u)) /\ (HasDeath(u)' <=> HasDeath(u))
    BY <2>1, PipeClosed
  <2>3. /\ manager[u] = "serve" /\ manager' = [manager EXCEPT ![u] = IF HasPipe(u) THEN "closing" ELSE "test"]
        /\ UNCHANGED <<policy, os, handler, starter, listener>>
    BY <2>1, PipeClosed
  <2> QED
    BY <2>2, <2>3 DEF os, handler, NoticesOf, HasDeath, Noticed, Notices, Alive, Restarting,
      InHand, HasPipe, ThreadTypes, DataTypes, Unclosed
<1>25. ASSUME NEW u \in Units, StopRequest(u) PROVE NoticesOf(v)'
  <2>1. Close(u)
    BY <1>25 DEF StopRequest
  <2>2. pipe' = [pipe EXCEPT ![u] = pipe'[u]] /\ (pipe'[u] = <<>> \/ HasPipe(u)) /\ (HasDeath(u)' <=> HasDeath(u))
    BY <2>1, PipeClosed
  <2>3. /\ manager[u] = "serve" /\ manager' = [manager EXCEPT ![u] = IF HasPipe(u) THEN "closing" ELSE "test"]
        /\ UNCHANGED <<policy, os, handler, starter, listener>>
    BY <2>1, PipeClosed
  <2> QED
    BY <2>2, <2>3 DEF os, handler, NoticesOf, HasDeath, Noticed, Notices, Alive, Restarting,
      InHand, HasPipe, ThreadTypes, DataTypes, Unclosed
<1>26. ASSUME NEW u \in Units, Closed(u) PROVE NoticesOf(v)'
  BY <1>26 DEF Closed, Goto, os, handler, NoticesOf, HasDeath, Noticed, Notices, Alive,
    Restarting, InHand, HasPipe, ThreadTypes, DataTypes, Unclosed
<1>27. ASSUME NEW u \in Units, Test(u) PROVE NoticesOf(v)'
  BY <1>27 DEF Test, Goto, os, handler, NoticesOf, HasDeath, Noticed, Notices, Alive, Restarting,
    InHand, HasPipe, ThreadTypes, DataTypes, Unclosed
<1>28. ASSUME NEW u \in Units, StopLock(u) PROVE NoticesOf(v)'
  BY <1>28 DEF StopLock, Goto, os, handler, NoticesOf, HasDeath, Noticed, Notices, Alive,
    Restarting, InHand, HasPipe, ThreadTypes, DataTypes, Unclosed
<1>29. ASSUME NEW u \in Units, StopPoll(u) PROVE NoticesOf(v)'
  BY <1>29 DEF StopPoll, Goto, Reap, handler, NoticesOf, HasDeath, Noticed, Notices, Alive,
    Restarting, InHand, HasPipe, ThreadTypes, DataTypes, Unclosed
<1>30. ASSUME NEW u \in Units, StopKill(u) PROVE NoticesOf(v)'
  <2>0. pid[u] > 0 /\ proc[u][pid[u]] = "alive" /\ pid[u] \in {0, forks[u]} /\ manager[u] = "stopPoll"
    BY <1>30 DEF StopKill, Goto, Processes, ProcessesOf
  <2>1. Alive(u) /\ pid[u] = forks[u] /\ (forks[u] < policy[u].forks \/ listener[u] \in {"none", "gone"})
    BY <2>0, Alone DEF Alive, DataTypes, Closing, Stopping
  <2>2. ~HasDeath(u) /\ ~Noticed(u) /\ ~Restarting(u)
    BY <2>1 DEF NoticesOf, Processes, ProcessesOf
  <2>3. PICK cause \in {"exit", "kill", "dump"} :
          pending' = IF pending = {} THEN {<<u, forks[u], cause>>} ELSE pending
    BY <1>30, <2>1, <1>a DEF StopKill, End
  <2>4. PICK left \in {"zombie", "reaped"} : proc' = [proc EXCEPT ![u][forks[u]] = left]
    BY <1>30, <2>1 DEF StopKill, End
  <2>5. UNCHANGED <<policy, forks, handling, storing, pipe, starter, listener>>
        /\ (manager' = manager \/ manager' = [manager EXCEPT ![u] = "stopClear"])
    BY <1>30 DEF StopKill, handler, Goto
  <2>6. ~Alive(u)' /\ ~Restarting(u)'
    <3>1. proc'[u][forks[u]] = left /\ forks' = forks
      <4>1. forks[u] \in 1..MaxForks /\ proc[u] \in [1..MaxForks -> {"none", "alive", "zombie", "reaped"}]
        BY <2>1, <1>a DEF Alive, DataTypes
      <4>2. proc'[u] = [proc[u] EXCEPT ![forks[u]] = left]
        BY <2>4 DEF DataTypes
      <4> QED
        BY <2>5, <4>1, <4>2
    <3> QED
      BY <2>2, <2>4, <2>5, <3>1 DEF Alive, Restarting
  <2>7. CASE v # u
    <3>1. Noticed(v)' => Noticed(v)
      BY <2>3, <2>5, <2>7 DEF Noticed, Notices
    <3> QED
      BY <2>4, <2>5, <2>7, <3>1 DEF NoticesOf, Alive, Restarting, HasDeath, HasPipe,
        ThreadTypes, DataTypes
  <2>8. CASE v = u
    <3>1. /\ forks'[v] > 0 /\ ~Alive(v)' /\ ~Restarting(v)' /\ ~HasDeath(v)'
          /\ forks'[v] < policy'[v].forks \/ listener'[v] \in {"none", "gone"}
      BY <2>1, <2>2, <2>5, <2>6, <2>8 DEF Alive, Restarting, HasDeath
    <3>2. /\ ~HasPipe(v)' => pipe'[v] = <<>>
          /\ manager'[v] \in Unclosed => pipe'[v] \in Early
      BY <2>5, <2>8 DEF NoticesOf, HasPipe, Unclosed, ThreadTypes
    <3> QED
      BY <3>1, <3>2 DEF NoticesOf
  <2> QED
    BY <2>7, <2>8
<1>31. ASSUME NEW u \in Units, StopForkFails(u) PROVE NoticesOf(v)'
  BY <1>31 DEF StopForkFails, Goto, os, handler, NoticesOf, HasDeath, Noticed, Notices, Alive,
    Restarting, InHand, HasPipe, ThreadTypes, DataTypes, Unclosed
<1>32. ASSUME NEW u \in Units, StopClear(u) PROVE NoticesOf(v)'
  BY <1>32 DEF StopClear, Goto, os, handler, NoticesOf, HasDeath, Noticed, Notices, Alive,
    Restarting, InHand, HasPipe, ThreadTypes, DataTypes, Unclosed
<1>33. ASSUME NEW u \in Units, StopSet(u) PROVE NoticesOf(v)'
  BY <1>33 DEF StopSet, Goto, os, handler, NoticesOf, HasDeath, Noticed, Notices, Alive,
    Restarting, InHand, HasPipe, ThreadTypes, DataTypes, Unclosed
<1>34. ASSUME NEW u \in Units, StopEvaluate(u) PROVE NoticesOf(v)'
  BY <1>34 DEF StopEvaluate, Goto, os, handler, NoticesOf, HasDeath, Noticed, Notices, Alive,
    Restarting, InHand, HasPipe, ThreadTypes, DataTypes, Unclosed
<1>35. ASSUME NEW u \in Units, StopEnd(u) PROVE NoticesOf(v)'
  BY <1>35 DEF StopEnd, Goto, os, handler, NoticesOf, HasDeath, Noticed, Notices, Alive,
    Restarting, InHand, HasPipe, ThreadTypes, DataTypes, Unclosed
<1>36. ASSUME NEW u \in Units, Die(u) PROVE NoticesOf(v)'
  <2>1. Alive(u) /\ (forks[u] < policy[u].forks \/ listener[u] \in {"none", "gone"})
    BY <1>36, <1>a DEF Die, Alive, DataTypes
  <2>2. ~HasDeath(u) /\ ~Noticed(u) /\ ~Restarting(u)
    BY <2>1 DEF NoticesOf, Processes, ProcessesOf
  <2>3. PICK cause \in {"exit", "kill", "dump"} :
          pending' = IF pending = {} THEN {<<u, forks[u], cause>>} ELSE pending
    BY <1>36, <2>1, <1>a DEF Die, End
  <2>4. PICK left \in {"zombie", "reaped"} : proc' = [proc EXCEPT ![u][forks[u]] = left]
    BY <1>36, <2>1 DEF Die, End
  <2>5. UNCHANGED <<policy, forks, handling, storing, pipe, starter, listener>>
        /\ (manager' = manager \/ manager' = [manager EXCEPT ![u] = "stopClear"])
    BY <1>36 DEF Die, handler, Goto
  <2>6. ~Alive(u)' /\ ~Restarting(u)'
    <3>1. proc'[u][forks[u]] = left /\ forks' = forks
      <4>1. forks[u] \in 1..MaxForks /\ proc[u] \in [1..MaxForks -> {"none", "alive", "zombie", "reaped"}]
        BY <2>1, <1>a DEF Alive, DataTypes
      <4>2. proc'[u] = [proc[u] EXCEPT ![forks[u]] = left]
        BY <2>4 DEF DataTypes
      <4> QED
        BY <2>5, <4>1, <4>2
    <3> QED
      BY <2>2, <2>4, <2>5, <3>1 DEF Alive, Restarting
  <2>7. CASE v # u
    <3>1. Noticed(v)' => Noticed(v)
      BY <2>3, <2>5, <2>7 DEF Noticed, Notices
    <3> QED
      BY <2>4, <2>5, <2>7, <3>1 DEF NoticesOf, Alive, Restarting, HasDeath, HasPipe,
        ThreadTypes, DataTypes
  <2>8. CASE v = u
    <3>1. /\ forks'[v] > 0 /\ ~Alive(v)' /\ ~Restarting(v)' /\ ~HasDeath(v)'
          /\ forks'[v] < policy'[v].forks \/ listener'[v] \in {"none", "gone"}
      BY <2>1, <2>2, <2>5, <2>6, <2>8 DEF Alive, Restarting, HasDeath
    <3>2. /\ ~HasPipe(v)' => pipe'[v] = <<>>
          /\ manager'[v] \in Unclosed => pipe'[v] \in Early
      BY <2>5, <2>8 DEF NoticesOf, HasPipe, Unclosed, ThreadTypes
    <3> QED
      BY <3>1, <3>2 DEF NoticesOf
  <2> QED
    BY <2>7, <2>8
<1>37. ASSUME NEW s \in Signals, Catch(s) PROVE NoticesOf(v)'
  BY <1>37 DEF Catch, NoticesOf, HasDeath, Noticed, Notices, Alive, Restarting, InHand, HasPipe,
    ThreadTypes, DataTypes, Unclosed
<1>38. ASSUME NEW s \in Signals, RecordCode(s) PROVE NoticesOf(v)'
  BY <1>38 DEF RecordCode, Reap, NoticesOf, HasDeath, Noticed, Notices, Alive, Restarting,
    InHand, HasPipe, ThreadTypes, DataTypes, Unclosed
<1>39. ASSUME NEW s \in Signals, Record(s) PROVE NoticesOf(v)'
  <2>1. s[1] \in Units /\ ~Noticed(s[1])' /\ ~HasDeath(s[1])
        /\ UNCHANGED <<policy, os, starter, listener, manager>> /\ storing' = storing \ {s} /\ UNCHANGED handling
    <3>1. /\ s \in storing /\ storing' = storing \ {s} /\ UNCHANGED <<handling, pending>>
          /\ s[1] \in Units /\ ~HasDeath(s[1])
          /\ UNCHANGED <<policy, os, starter, listener, manager>>
      BY <1>39, DeathWritten DEF Record, os
    <3>2. Notices' \subseteq Notices \ {s} /\ s \in Notices
      BY <3>1 DEF Notices, SignalsApart
    <3>3. ~Noticed(s[1])'
      BY <3>2 DEF Noticed, SignalsApart
    <3> QED
      BY <3>1, <3>3
  <2>2. /\ ~Alive(s[1]) /\ ~Restarting(s[1]) /\ forks[s[1]] > 0
        /\ forks[s[1]] < policy[s[1]].forks \/ listener[s[1]] \in {"none", "gone"}
    BY <1>39, DeathWritten DEF NoticesOf
  <2>3. pipe' = [pipe EXCEPT ![s[1]] = pipe'[s[1]]]
        /\ (pipe'[s[1]] = <<>> \/ HasPipe(s[1])) /\ (pipe[s[1]] \in Early => pipe'[s[1]] \in Early)
    <3>1. pipe' = [pipe EXCEPT ![s[1]] = pipe'[s[1]]] /\ (pipe'[s[1]] = <<>> \/ HasPipe(s[1]))
      BY <1>39, DeathWritten
    <3>2. pipe'[s[1]] \in {<<>>, <<"death">>} \/ pipe[s[1]] = <<"exit">>
      BY <1>39, DeathWritten, Zenon
    <3>3. <<"exit">> \notin Early
      BY DEF Early
    <3> QED
      BY <3>1, <3>2, <3>3, Zenon DEF Early
  <2> QED
    BY <2>1, <2>2, <2>3 DEF os, NoticesOf, HasDeath, Noticed, Notices, Alive, Restarting,
      InHand, HasPipe, ThreadTypes, DataTypes, Unclosed
<1>40. ASSUME NEW s \in Signals, RecordNothing(s) PROVE NoticesOf(v)'
  BY <1>40 DEF RecordNothing, os, NoticesOf, HasDeath, Noticed, Notices, Alive, Restarting,
    InHand, HasPipe, ThreadTypes, DataTypes, Unclosed
<1>41. CASE Clean
  BY <1>41 DEF Clean, handler, NoticesOf, HasDeath, Noticed, Notices, Alive, Restarting, InHand,
    HasPipe, ThreadTypes, DataTypes, Unclosed
<1>42. CASE ListenSocket
  BY <1>42 DEF ListenSocket, os, handler, NoticesOf, HasDeath, Noticed, Notices, Alive,
    Restarting, InHand, HasPipe, ThreadTypes, DataTypes, Unclosed
<1>43. CASE Shutdown
  BY <1>43 DEF Shutdown, os, handler, NoticesOf, HasDeath, Noticed, Notices, Alive, Restarting,
    InHand, HasPipe, ThreadTypes, DataTypes, Unclosed
<1>44. CASE UNCHANGED vars
  BY <1>44 DEF vars, os, handler, NoticesOf, HasDeath, Noticed, Notices, Alive, Restarting,
    InHand, HasPipe, ThreadTypes, DataTypes, Unclosed
<1> QED
  BY Steps, <1>1, <1>2, <1>3, <1>4, <1>5, <1>6, <1>7, <1>8, <1>9, <1>10, <1>11, <1>12, <1>13,
     <1>14, <1>15, <1>16, <1>17, <1>18, <1>19, <1>20, <1>21, <1>22, <1>23, <1>24, <1>25,
     <1>26, <1>27, <1>28, <1>29, <1>30, <1>31, <1>32, <1>33, <1>34, <1>35, <1>36, <1>37,
     <1>38, <1>39, <1>40, <1>41, <1>42, <1>43, <1>44
    DEF Starter, Listener, Manager, Handler

(* A pipe never holds more than one death and one dismissal. *)
LEMMA PipesStep ==
  ASSUME ThreadTypes, OneNotice, Notices \subseteq Signals, [Next]_vars
  PROVE  (pipe \in [Units -> Shapes])'
<1> USE DEF OneNotice
<1>1. ASSUME NEW u \in Units, StartLock(u) PROVE (pipe \in [Units -> Shapes])'
  BY <1>1 DEF StartLock
<1>2. ASSUME NEW u \in Units, Fork(u) PROVE (pipe \in [Units -> Shapes])'
  BY <1>2 DEF Fork
<1>3. ASSUME NEW u \in Units, ForkFails(u) PROVE (pipe \in [Units -> Shapes])'
  BY <1>3 DEF ForkFails
<1>4. ASSUME NEW u \in Units, StartAborts(u) PROVE (pipe \in [Units -> Shapes])'
  BY <1>4 DEF StartAborts
<1>5. ASSUME NEW u \in Units, SetPid(u) PROVE (pipe \in [Units -> Shapes])'
  BY <1>5 DEF SetPid
<1>6. ASSUME NEW u \in Units, Poll(u) PROVE (pipe \in [Units -> Shapes])'
  BY <1>6 DEF Poll, Reap
<1>7. ASSUME NEW u \in Units, Check(u) PROVE (pipe \in [Units -> Shapes])'
  BY <1>7 DEF Check
<1>8. ASSUME NEW u \in Units, WriteRunning(u) PROVE (pipe \in [Units -> Shapes])'
  BY <1>8 DEF WriteRunning
<1>9. ASSUME NEW u \in Units, Evaluate(u) PROVE (pipe \in [Units -> Shapes])'
  BY <1>9 DEF Evaluate
<1>10. ASSUME NEW u \in Units, Announce(u) PROVE (pipe \in [Units -> Shapes])'
  BY <1>10 DEF Announce
<1>11. ASSUME NEW u \in Units, ListenerBegins(u) PROVE (pipe \in [Units -> Shapes])'
  BY <1>11 DEF ListenerBegins
<1>12. ASSUME NEW u \in Units, ReadDeath(u) PROVE (pipe \in [Units -> Shapes])'
  <2>1. pipe' = [pipe EXCEPT ![u] = pipe'[u]] /\ pipe'[u] \in Shapes
    BY <1>12, DeathRead, Zenon DEF Shapes
  <2> QED
    BY <2>1
<1>13. ASSUME NEW u \in Units, ReadExit(u) PROVE (pipe \in [Units -> Shapes])'
  <2>1. pipe' = [pipe EXCEPT ![u] = pipe'[u]] /\ pipe'[u] \in Shapes
    BY <1>13, ExitRead, Zenon DEF Shapes
  <2> QED
    BY <2>1
<1>14. ASSUME NEW u \in Units, Woken(u) PROVE (pipe \in [Units -> Shapes])'
  BY <1>14 DEF Woken
<1>15. ASSUME NEW u \in Units, WokenByShutdown(u) PROVE (pipe \in [Units -> Shapes])'
  BY <1>15 DEF WokenByShutdown, Leave
<1>16. ASSUME NEW u \in Units, RunFailure(u) PROVE (pipe \in [Units -> Shapes])'
  BY <1>16 DEF RunFailure
<1>17. ASSUME NEW u \in Units, Decide(u) PROVE (pipe \in [Units -> Shapes])'
  BY <1>17 DEF Decide
<1>18. ASSUME NEW u \in Units, GiveUp(u) PROVE (pipe \in [Units -> Shapes])'
  BY <1>18 DEF GiveUp, Leave
<1>19. ASSUME NEW u \in Units, Reset(u) PROVE (pipe \in [Units -> Shapes])'
  BY <1>19 DEF Reset
<1>20. ASSUME NEW u \in Units, Again(u) PROVE (pipe \in [Units -> Shapes])'
  BY <1>20 DEF Again
<1>21. ASSUME NEW u \in Units, NotAgain(u) PROVE (pipe \in [Units -> Shapes])'
  BY <1>21 DEF NotAgain
<1>22. ASSUME NEW u \in Units, Listen(u) PROVE (pipe \in [Units -> Shapes])'
  BY <1>22 DEF Listen
<1>23. ASSUME NEW u \in Units, Start(u) PROVE (pipe \in [Units -> Shapes])'
  BY <1>23 DEF Start, StartFrom
<1>24. ASSUME NEW u \in Units, CloseAtShutdown(u) PROVE (pipe \in [Units -> Shapes])'
  <2>1. Close(u)
    BY <1>24 DEF CloseAtShutdown
  <2>2. pipe' = [pipe EXCEPT ![u] = pipe'[u]] /\ pipe'[u] \in Shapes
    BY <2>1, PipeClosed, Zenon DEF Shapes
  <2> QED
    BY <2>2
<1>25. ASSUME NEW u \in Units, StopRequest(u) PROVE (pipe \in [Units -> Shapes])'
  <2>1. Close(u)
    BY <1>25 DEF StopRequest
  <2>2. pipe' = [pipe EXCEPT ![u] = pipe'[u]] /\ pipe'[u] \in Shapes
    BY <2>1, PipeClosed, Zenon DEF Shapes
  <2> QED
    BY <2>2
<1>26. ASSUME NEW u \in Units, Closed(u) PROVE (pipe \in [Units -> Shapes])'
  BY <1>26 DEF Closed
<1>27. ASSUME NEW u \in Units, Test(u) PROVE (pipe \in [Units -> Shapes])'
  BY <1>27 DEF Test
<1>28. ASSUME NEW u \in Units, StopLock(u) PROVE (pipe \in [Units -> Shapes])'
  BY <1>28 DEF StopLock
<1>29. ASSUME NEW u \in Units, StopPoll(u) PROVE (pipe \in [Units -> Shapes])'
  BY <1>29 DEF StopPoll, Reap
<1>30. ASSUME NEW u \in Units, StopKill(u) PROVE (pipe \in [Units -> Shapes])'
  BY <1>30 DEF StopKill, End
<1>31. ASSUME NEW u \in Units, StopForkFails(u) PROVE (pipe \in [Units -> Shapes])'
  BY <1>31 DEF StopForkFails
<1>32. ASSUME NEW u \in Units, StopClear(u) PROVE (pipe \in [Units -> Shapes])'
  BY <1>32 DEF StopClear
<1>33. ASSUME NEW u \in Units, StopSet(u) PROVE (pipe \in [Units -> Shapes])'
  BY <1>33 DEF StopSet
<1>34. ASSUME NEW u \in Units, StopEvaluate(u) PROVE (pipe \in [Units -> Shapes])'
  BY <1>34 DEF StopEvaluate
<1>35. ASSUME NEW u \in Units, StopEnd(u) PROVE (pipe \in [Units -> Shapes])'
  BY <1>35 DEF StopEnd
<1>36. ASSUME NEW u \in Units, Die(u) PROVE (pipe \in [Units -> Shapes])'
  BY <1>36 DEF Die, End
<1>37. ASSUME NEW s \in Signals, Catch(s) PROVE (pipe \in [Units -> Shapes])'
  BY <1>37 DEF Catch
<1>38. ASSUME NEW s \in Signals, RecordCode(s) PROVE (pipe \in [Units -> Shapes])'
  BY <1>38 DEF RecordCode, Reap
<1>39. ASSUME NEW s \in Signals, Record(s) PROVE (pipe \in [Units -> Shapes])'
  <2>1. pipe' = [pipe EXCEPT ![s[1]] = pipe'[s[1]]] /\ pipe'[s[1]] \in Shapes
    BY <1>39, DeathWritten, Zenon DEF Shapes
  <2> QED
    BY <2>1
<1>40. ASSUME NEW s \in Signals, RecordNothing(s) PROVE (pipe \in [Units -> Shapes])'
  BY <1>40 DEF RecordNothing
<1>41. CASE Clean
  BY <1>41 DEF Clean
<1>42. CASE ListenSocket
  BY <1>42 DEF ListenSocket
<1>43. CASE Shutdown
  BY <1>43 DEF Shutdown
<1>44. CASE UNCHANGED vars
  BY <1>44 DEF vars
<1> QED
  BY Steps, <1>1, <1>2, <1>3, <1>4, <1>5, <1>6, <1>7, <1>8, <1>9, <1>10, <1>11, <1>12, <1>13,
     <1>14, <1>15, <1>16, <1>17, <1>18, <1>19, <1>20, <1>21, <1>22, <1>23, <1>24, <1>25,
     <1>26, <1>27, <1>28, <1>29, <1>30, <1>31, <1>32, <1>33, <1>34, <1>35, <1>36, <1>37,
     <1>38, <1>39, <1>40, <1>41, <1>42, <1>43, <1>44
    DEF Starter, Listener, Manager, Handler

(* The deaths still add up. *)
LEMMA CountsStep ==
  ASSUME ThreadTypes, CountTypes, Handover, OneNotice, Counts, Notices \subseteq Signals, [Next]_vars
  PROVE  Counts'
<1> SUFFICES ASSUME NEW v \in Units
             PROVE  CountsOf(v)'
  BY DEF Counts
<1> USE DEF Counts, OneNotice
<1>1. ASSUME NEW u \in Units, StartLock(u) PROVE CountsOf(v)'
  BY <1>1 DEF StartLock, Goto, unit, past, CountsOf, HasDeath, InHand, HasPipe, ThreadTypes,
    CountTypes, Restarts
<1>2. ASSUME NEW u \in Units, Fork(u) PROVE CountsOf(v)'
  BY <1>2 DEF Fork, Goto, unit, past, CountsOf, HasDeath, InHand, HasPipe, ThreadTypes,
    CountTypes, Restarts
<1>3. ASSUME NEW u \in Units, ForkFails(u) PROVE CountsOf(v)'
  BY <1>3 DEF ForkFails, Goto, unit, past, CountsOf, HasDeath, InHand, HasPipe, ThreadTypes,
    CountTypes, Restarts
<1>4. ASSUME NEW u \in Units, StartAborts(u) PROVE CountsOf(v)'
  BY <1>4 DEF StartAborts, Goto, past, CountsOf, HasDeath, InHand, HasPipe, ThreadTypes,
    CountTypes, Restarts
<1>5. ASSUME NEW u \in Units, SetPid(u) PROVE CountsOf(v)'
  BY <1>5 DEF SetPid, Goto, unit, past, CountsOf, HasDeath, InHand, HasPipe, ThreadTypes,
    CountTypes, Restarts
<1>6. ASSUME NEW u \in Units, Poll(u) PROVE CountsOf(v)'
  BY <1>6 DEF Poll, Goto, Reap, unit, past, CountsOf, HasDeath, InHand, HasPipe, ThreadTypes,
    CountTypes, Restarts
<1>7. ASSUME NEW u \in Units, Check(u) PROVE CountsOf(v)'
  BY <1>7 DEF Check, Goto, unit, past, CountsOf, HasDeath, InHand, HasPipe, ThreadTypes,
    CountTypes, Restarts
<1>8. ASSUME NEW u \in Units, WriteRunning(u) PROVE CountsOf(v)'
  BY <1>8 DEF WriteRunning, Goto, unit, past, CountsOf, HasDeath, InHand, HasPipe, ThreadTypes,
    CountTypes, Restarts
<1>9. ASSUME NEW u \in Units, Evaluate(u) PROVE CountsOf(v)'
  BY <1>9 DEF Evaluate, Goto, unit, past, CountsOf, HasDeath, InHand, HasPipe, ThreadTypes,
    CountTypes, Restarts
<1>10. ASSUME NEW u \in Units, Announce(u) PROVE CountsOf(v)'
  BY <1>10 DEF Announce, Goto, unit, past, CountsOf, HasDeath, InHand, HasPipe, ThreadTypes,
    CountTypes, Restarts
<1>11. ASSUME NEW u \in Units, ListenerBegins(u) PROVE CountsOf(v)'
  BY <1>11 DEF ListenerBegins, Goto, unit, past, CountsOf, HasDeath, InHand, HasPipe,
    ThreadTypes, CountTypes, Restarts
<1>12. ASSUME NEW u \in Units, ReadDeath(u) PROVE CountsOf(v)'
  <2>1. pipe' = [pipe EXCEPT ![u] = pipe'[u]] /\ ~HasDeath(u)' /\ HasDeath(u)
        /\ listener[u] = "read" /\ listener' = [listener EXCEPT ![u] = "woken"]
        /\ UNCHANGED <<policy, unit, past>>
    BY <1>12, DeathRead
  <2> QED
    BY <2>1 DEF unit, past, CountsOf, HasDeath, InHand, HasPipe, ThreadTypes, CountTypes, Restarts
<1>13. ASSUME NEW u \in Units, ReadExit(u) PROVE CountsOf(v)'
  <2>1. pipe' = [pipe EXCEPT ![u] = pipe'[u]]
        /\ listener[u] = "read" /\ listener' = [listener EXCEPT ![u] = "gone"]
        /\ UNCHANGED <<policy, unit, past>>
    BY <1>13, ExitRead
  <2> QED
    BY <2>1 DEF unit, past, CountsOf, HasDeath, InHand, HasPipe, ThreadTypes, CountTypes, Restarts
<1>14. ASSUME NEW u \in Units, Woken(u) PROVE CountsOf(v)'
  BY <1>14 DEF Woken, Goto, unit, past, CountsOf, HasDeath, InHand, HasPipe, ThreadTypes,
    CountTypes, Restarts
<1>15. ASSUME NEW u \in Units, WokenByShutdown(u) PROVE CountsOf(v)'
  BY <1>15 DEF WokenByShutdown, Goto, Leave, unit, past, CountsOf, HasDeath, InHand, HasPipe,
    ThreadTypes, CountTypes, Restarts
<1>16. ASSUME NEW u \in Units, RunFailure(u) PROVE CountsOf(v)'
  BY <1>16 DEF RunFailure, Goto, CountsOf, HasDeath, InHand, HasPipe, ThreadTypes, CountTypes,
    Restarts
<1>17. ASSUME NEW u \in Units, Decide(u) PROVE CountsOf(v)'
  BY <1>17 DEF Decide, Goto, unit, past, CountsOf, HasDeath, InHand, HasPipe, ThreadTypes,
    CountTypes, Restarts
<1>18. ASSUME NEW u \in Units, GiveUp(u) PROVE CountsOf(v)'
  BY <1>18 DEF GiveUp, Goto, Leave, unit, past, CountsOf, HasDeath, InHand, HasPipe, ThreadTypes,
    CountTypes, Restarts
<1>19. ASSUME NEW u \in Units, Reset(u) PROVE CountsOf(v)'
  BY <1>19 DEF Reset, Goto, past, CountsOf, HasDeath, InHand, HasPipe, ThreadTypes, CountTypes,
    Restarts
<1>20. ASSUME NEW u \in Units, Again(u) PROVE CountsOf(v)'
  BY <1>20 DEF Again, Goto, unit, past, CountsOf, HasDeath, InHand, HasPipe, ThreadTypes,
    CountTypes, Restarts
<1>21. ASSUME NEW u \in Units, NotAgain(u) PROVE CountsOf(v)'
  BY <1>21 DEF NotAgain, Goto, unit, past, CountsOf, HasDeath, InHand, HasPipe, ThreadTypes,
    CountTypes, Restarts
<1>22. ASSUME NEW u \in Units, Listen(u) PROVE CountsOf(v)'
  BY <1>22 DEF Listen, Goto, unit, past, CountsOf, HasDeath, InHand, HasPipe, ThreadTypes,
    CountTypes, Restarts, Handover, HandoverOf
<1>23. ASSUME NEW u \in Units, Start(u) PROVE CountsOf(v)'
  BY <1>23 DEF Start, Goto, StartFrom, unit, past, CountsOf, HasDeath, InHand, HasPipe,
    ThreadTypes, CountTypes, Restarts
<1>24. ASSUME NEW u \in Units, CloseAtShutdown(u) PROVE CountsOf(v)'
  <2>1. Close(u)
    BY <1>24 DEF CloseAtShutdown
  <2>2. pipe' = [pipe EXCEPT ![u] = pipe'[u]] /\ (HasDeath(u)' <=> HasDeath(u))
        /\ UNCHANGED <<policy, unit, listener, past>>
    BY <2>1, PipeClosed
  <2> QED
    BY <2>2 DEF unit, past, CountsOf, HasDeath, InHand, HasPipe, ThreadTypes, CountTypes, Restarts
<1>25. ASSUME NEW u \in Units, StopRequest(u) PROVE CountsOf(v)'
  <2>1. Close(u)
    BY <1>25 DEF StopRequest
  <2>2. pipe' = [pipe EXCEPT ![u] = pipe'[u]] /\ (HasDeath(u)' <=> HasDeath(u))
        /\ UNCHANGED <<policy, unit, listener, past>>
    BY <2>1, PipeClosed
  <2> QED
    BY <2>2 DEF unit, past, CountsOf, HasDeath, InHand, HasPipe, ThreadTypes, CountTypes, Restarts
<1>26. ASSUME NEW u \in Units, Closed(u) PROVE CountsOf(v)'
  BY <1>26 DEF Closed, Goto, unit, past, CountsOf, HasDeath, InHand, HasPipe, ThreadTypes,
    CountTypes, Restarts
<1>27. ASSUME NEW u \in Units, Test(u) PROVE CountsOf(v)'
  BY <1>27 DEF Test, Goto, past, CountsOf, HasDeath, InHand, HasPipe, ThreadTypes, CountTypes,
    Restarts
<1>28. ASSUME NEW u \in Units, StopLock(u) PROVE CountsOf(v)'
  BY <1>28 DEF StopLock, Goto, unit, past, CountsOf, HasDeath, InHand, HasPipe, ThreadTypes,
    CountTypes, Restarts
<1>29. ASSUME NEW u \in Units, StopPoll(u) PROVE CountsOf(v)'
  BY <1>29 DEF StopPoll, Goto, Reap, unit, past, CountsOf, HasDeath, InHand, HasPipe,
    ThreadTypes, CountTypes, Restarts
<1>30. ASSUME NEW u \in Units, StopKill(u) PROVE CountsOf(v)'
  BY <1>30 DEF StopKill, Goto, End, unit, past, CountsOf, HasDeath, InHand, HasPipe, ThreadTypes,
    CountTypes, Restarts
<1>31. ASSUME NEW u \in Units, StopForkFails(u) PROVE CountsOf(v)'
  BY <1>31 DEF StopForkFails, Goto, unit, past, CountsOf, HasDeath, InHand, HasPipe, ThreadTypes,
    CountTypes, Restarts
<1>32. ASSUME NEW u \in Units, StopClear(u) PROVE CountsOf(v)'
  BY <1>32 DEF StopClear, Goto, unit, past, CountsOf, HasDeath, InHand, HasPipe, ThreadTypes,
    CountTypes, Restarts
<1>33. ASSUME NEW u \in Units, StopSet(u) PROVE CountsOf(v)'
  BY <1>33 DEF StopSet, Goto, unit, past, CountsOf, HasDeath, InHand, HasPipe, ThreadTypes,
    CountTypes, Restarts
<1>34. ASSUME NEW u \in Units, StopEvaluate(u) PROVE CountsOf(v)'
  BY <1>34 DEF StopEvaluate, Goto, unit, past, CountsOf, HasDeath, InHand, HasPipe, ThreadTypes,
    CountTypes, Restarts
<1>35. ASSUME NEW u \in Units, StopEnd(u) PROVE CountsOf(v)'
  BY <1>35 DEF StopEnd, Goto, unit, past, CountsOf, HasDeath, InHand, HasPipe, ThreadTypes,
    CountTypes, Restarts
<1>36. ASSUME NEW u \in Units, Die(u) PROVE CountsOf(v)'
  BY <1>36 DEF Die, End, unit, CountsOf, HasDeath, InHand, HasPipe, ThreadTypes, CountTypes,
    Restarts
<1>37. ASSUME NEW s \in Signals, Catch(s) PROVE CountsOf(v)'
  BY <1>37 DEF Catch, unit, past, CountsOf, HasDeath, InHand, HasPipe, ThreadTypes, CountTypes,
    Restarts
<1>38. ASSUME NEW s \in Signals, RecordCode(s) PROVE CountsOf(v)'
  BY <1>38 DEF RecordCode, Reap, unit, past, CountsOf, HasDeath, InHand, HasPipe, ThreadTypes,
    CountTypes, Restarts
<1>39. ASSUME NEW s \in Signals, Record(s) PROVE CountsOf(v)'
  <2> DEFINE u == s[1]
  <2>1. /\ u \in Units /\ pipe' = [pipe EXCEPT ![u] = pipe'[u]] /\ ~HasDeath(u)
        /\ ~HasPipe(u) \/ HasDeath(u)'
    BY <1>39, DeathWritten
  <2>2. /\ recorded' = [recorded EXCEPT ![u] = @ + 1]
        /\ UNCHANGED <<policy, unit, listener>>
    BY <1>39 DEF Record
  <2> HIDE DEF u
  <2> QED
    BY <2>1, <2>2 DEF unit, CountsOf, HasDeath, InHand, HasPipe, ThreadTypes, CountTypes, Restarts
<1>40. ASSUME NEW s \in Signals, RecordNothing(s) PROVE CountsOf(v)'
  BY <1>40 DEF RecordNothing, unit, past, CountsOf, HasDeath, InHand, HasPipe, ThreadTypes,
    CountTypes, Restarts
<1>41. CASE Clean
  BY <1>41 DEF Clean, unit, past, CountsOf, HasDeath, InHand, HasPipe, ThreadTypes, CountTypes,
    Restarts
<1>42. CASE ListenSocket
  BY <1>42 DEF ListenSocket, unit, past, CountsOf, HasDeath, InHand, HasPipe, ThreadTypes,
    CountTypes, Restarts
<1>43. CASE Shutdown
  BY <1>43 DEF Shutdown, unit, past, CountsOf, HasDeath, InHand, HasPipe, ThreadTypes,
    CountTypes, Restarts
<1>44. CASE UNCHANGED vars
  BY <1>44 DEF vars, unit, past, CountsOf, HasDeath, InHand, HasPipe, ThreadTypes, CountTypes,
    Restarts
<1> QED
  BY Steps, <1>1, <1>2, <1>3, <1>4, <1>5, <1>6, <1>7, <1>8, <1>9, <1>10, <1>11, <1>12, <1>13,
     <1>14, <1>15, <1>16, <1>17, <1>18, <1>19, <1>20, <1>21, <1>22, <1>23, <1>24, <1>25,
     <1>26, <1>27, <1>28, <1>29, <1>30, <1>31, <1>32, <1>33, <1>34, <1>35, <1>36, <1>37,
     <1>38, <1>39, <1>40, <1>41, <1>42, <1>43, <1>44
    DEF Starter, Listener, Manager, Handler

(* Neither the restarts nor the history exceed their limits. *)
LEMMA BoundedStep ==
  ASSUME CountTypes, Counts, RestartsBounded, [Next]_vars
  PROVE  RestartsBounded'
<1> SUFFICES ASSUME NEW v \in Units
             PROVE  BoundedFor(v)'
  BY DEF RestartsBounded, BoundedFor
<1>a. BoundedFor(v)
  BY DEF RestartsBounded, BoundedFor
<1>b. ShowMax \in Nat \ {0} /\ policy[v].max \in Nat \cup {-1}
  BY Policies DEF CountTypes
<1> USE <1>a, <1>b DEF Counts, CountsOf
<1>1. ASSUME NEW u \in Units, StartLock(u) PROVE BoundedFor(v)'
  BY <1>1 DEF StartLock, unit, past, BoundedFor, Restarts, CountTypes
<1>2. ASSUME NEW u \in Units, Fork(u) PROVE BoundedFor(v)'
  BY <1>2 DEF Fork, unit, past, BoundedFor, Restarts, CountTypes
<1>3. ASSUME NEW u \in Units, ForkFails(u) PROVE BoundedFor(v)'
  BY <1>3 DEF ForkFails, unit, past, BoundedFor, Restarts, CountTypes
<1>4. ASSUME NEW u \in Units, StartAborts(u) PROVE BoundedFor(v)'
  BY <1>4 DEF StartAborts, past, BoundedFor, Restarts, CountTypes
<1>5. ASSUME NEW u \in Units, SetPid(u) PROVE BoundedFor(v)'
  BY <1>5 DEF SetPid, unit, past, BoundedFor, Restarts, CountTypes
<1>6. ASSUME NEW u \in Units, Poll(u) PROVE BoundedFor(v)'
  BY <1>6 DEF Poll, Reap, unit, past, BoundedFor, Restarts, CountTypes
<1>7. ASSUME NEW u \in Units, Check(u) PROVE BoundedFor(v)'
  BY <1>7 DEF Check, unit, past, BoundedFor, Restarts, CountTypes
<1>8. ASSUME NEW u \in Units, WriteRunning(u) PROVE BoundedFor(v)'
  BY <1>8 DEF WriteRunning, unit, past, BoundedFor, Restarts, CountTypes
<1>9. ASSUME NEW u \in Units, Evaluate(u) PROVE BoundedFor(v)'
  BY <1>9 DEF Evaluate, unit, past, BoundedFor, Restarts, CountTypes
<1>10. ASSUME NEW u \in Units, Announce(u) PROVE BoundedFor(v)'
  BY <1>10 DEF Announce, unit, past, BoundedFor, Restarts, CountTypes
<1>11. ASSUME NEW u \in Units, ListenerBegins(u) PROVE BoundedFor(v)'
  BY <1>11 DEF ListenerBegins, unit, past, BoundedFor, Restarts, CountTypes
<1>12. ASSUME NEW u \in Units, ReadDeath(u) PROVE BoundedFor(v)'
  BY <1>12 DEF ReadDeath, unit, past, BoundedFor, Restarts, CountTypes
<1>13. ASSUME NEW u \in Units, ReadExit(u) PROVE BoundedFor(v)'
  BY <1>13 DEF ReadExit, Leave, unit, past, BoundedFor, Restarts, CountTypes
<1>14. ASSUME NEW u \in Units, Woken(u) PROVE BoundedFor(v)'
  BY <1>14 DEF Woken, unit, past, BoundedFor, Restarts, CountTypes
<1>15. ASSUME NEW u \in Units, WokenByShutdown(u) PROVE BoundedFor(v)'
  BY <1>15 DEF WokenByShutdown, Leave, unit, past, BoundedFor, Restarts, CountTypes
<1>16. ASSUME NEW u \in Units, RunFailure(u) PROVE BoundedFor(v)'
  BY <1>16 DEF RunFailure, BoundedFor, Restarts, CountTypes
<1>17. ASSUME NEW u \in Units, Decide(u) PROVE BoundedFor(v)'
  BY <1>17 DEF Decide, unit, past, BoundedFor, Restarts, CountTypes
<1>18. ASSUME NEW u \in Units, GiveUp(u) PROVE BoundedFor(v)'
  BY <1>18 DEF GiveUp, Leave, unit, past, BoundedFor, Restarts, CountTypes
<1>19. ASSUME NEW u \in Units, Reset(u) PROVE BoundedFor(v)'
  BY <1>19 DEF Reset, past, BoundedFor, Restarts, CountTypes, HistorySize, Goto
<1>20. ASSUME NEW u \in Units, Again(u) PROVE BoundedFor(v)'
  BY <1>20 DEF Again, unit, past, BoundedFor, Restarts, CountTypes
<1>21. ASSUME NEW u \in Units, NotAgain(u) PROVE BoundedFor(v)'
  BY <1>21 DEF NotAgain, unit, past, BoundedFor, Restarts, CountTypes
<1>22. ASSUME NEW u \in Units, Listen(u) PROVE BoundedFor(v)'
  BY <1>22 DEF Listen, unit, past, BoundedFor, Restarts, CountTypes
<1>23. ASSUME NEW u \in Units, Start(u) PROVE BoundedFor(v)'
  BY <1>23 DEF Start, StartFrom, unit, past, BoundedFor, Restarts, CountTypes
<1>24. ASSUME NEW u \in Units, CloseAtShutdown(u) PROVE BoundedFor(v)'
  BY <1>24 DEF CloseAtShutdown, Close, unit, past, BoundedFor, Restarts, CountTypes
<1>25. ASSUME NEW u \in Units, StopRequest(u) PROVE BoundedFor(v)'
  BY <1>25 DEF StopRequest, Close, unit, past, BoundedFor, Restarts, CountTypes
<1>26. ASSUME NEW u \in Units, Closed(u) PROVE BoundedFor(v)'
  BY <1>26 DEF Closed, unit, past, BoundedFor, Restarts, CountTypes
<1>27. ASSUME NEW u \in Units, Test(u) PROVE BoundedFor(v)'
  BY <1>27 DEF Test, past, BoundedFor, Restarts, CountTypes
<1>28. ASSUME NEW u \in Units, StopLock(u) PROVE BoundedFor(v)'
  BY <1>28 DEF StopLock, unit, past, BoundedFor, Restarts, CountTypes
<1>29. ASSUME NEW u \in Units, StopPoll(u) PROVE BoundedFor(v)'
  BY <1>29 DEF StopPoll, Reap, unit, past, BoundedFor, Restarts, CountTypes
<1>30. ASSUME NEW u \in Units, StopKill(u) PROVE BoundedFor(v)'
  BY <1>30 DEF StopKill, End, unit, past, BoundedFor, Restarts, CountTypes
<1>31. ASSUME NEW u \in Units, StopForkFails(u) PROVE BoundedFor(v)'
  BY <1>31 DEF StopForkFails, unit, past, BoundedFor, Restarts, CountTypes
<1>32. ASSUME NEW u \in Units, StopClear(u) PROVE BoundedFor(v)'
  BY <1>32 DEF StopClear, unit, past, BoundedFor, Restarts, CountTypes
<1>33. ASSUME NEW u \in Units, StopSet(u) PROVE BoundedFor(v)'
  BY <1>33 DEF StopSet, unit, past, BoundedFor, Restarts, CountTypes
<1>34. ASSUME NEW u \in Units, StopEvaluate(u) PROVE BoundedFor(v)'
  BY <1>34 DEF StopEvaluate, unit, past, BoundedFor, Restarts, CountTypes
<1>35. ASSUME NEW u \in Units, StopEnd(u) PROVE BoundedFor(v)'
  BY <1>35 DEF StopEnd, unit, past, BoundedFor, Restarts, CountTypes
<1>36. ASSUME NEW u \in Units, Die(u) PROVE BoundedFor(v)'
  BY <1>36 DEF Die, End, unit, BoundedFor, Restarts, CountTypes
<1>37. ASSUME NEW s \in Signals, Catch(s) PROVE BoundedFor(v)'
  BY <1>37 DEF Catch, unit, past, BoundedFor, Restarts, CountTypes
<1>38. ASSUME NEW s \in Signals, RecordCode(s) PROVE BoundedFor(v)'
  BY <1>38 DEF RecordCode, Reap, unit, past, BoundedFor, Restarts, CountTypes
<1>39. ASSUME NEW s \in Signals, Record(s) PROVE BoundedFor(v)'
  BY <1>39 DEF Record, unit, BoundedFor, Restarts, CountTypes
<1>40. ASSUME NEW s \in Signals, RecordNothing(s) PROVE BoundedFor(v)'
  BY <1>40 DEF RecordNothing, unit, past, BoundedFor, Restarts, CountTypes
<1>41. CASE Clean
  BY <1>41 DEF Clean, unit, past, BoundedFor, Restarts, CountTypes
<1>42. CASE ListenSocket
  BY <1>42 DEF ListenSocket, unit, past, BoundedFor, Restarts, CountTypes
<1>43. CASE Shutdown
  BY <1>43 DEF Shutdown, unit, past, BoundedFor, Restarts, CountTypes
<1>44. CASE UNCHANGED vars
  BY <1>44 DEF vars, unit, past, BoundedFor, Restarts, CountTypes
<1> QED
  BY Steps, <1>1, <1>2, <1>3, <1>4, <1>5, <1>6, <1>7, <1>8, <1>9, <1>10, <1>11, <1>12, <1>13,
     <1>14, <1>15, <1>16, <1>17, <1>18, <1>19, <1>20, <1>21, <1>22, <1>23, <1>24, <1>25,
     <1>26, <1>27, <1>28, <1>29, <1>30, <1>31, <1>32, <1>33, <1>34, <1>35, <1>36, <1>37,
     <1>38, <1>39, <1>40, <1>41, <1>42, <1>43, <1>44
    DEF Starter, Listener, Manager, Handler

(* What is known of a unit depends on few of the variables.                *)
LEMMA TellsSame ==
  ASSUME NEW v \in Units, TellsOf(v),
         UNCHANGED <<policy, forks, pending, handler, pData, isStopping, starter, manager, shutdown,
                     merged>>,
         Alive(v)' <=> Alive(v)
  PROVE  TellsOf(v)'
BY DEF handler, pData, TellsOf, StopsOf, RunningOf, ExitsOf, Told, Untold, Noticed, Notices

(* What is told of the end of a daemon that only exits is preserved.       *)
LEMMA TellsStep ==
  ASSUME ThreadTypes, DataTypes, TellTypes, Handover, Processes, OneNotice, Tells,
         Notices \subseteq Signals, [Next]_vars
  PROVE  Tells'
<1> SUFFICES ASSUME NEW v \in Units
             PROVE  TellsOf(v)'
  BY DEF Tells
<1> TellsOf(v)
  BY DEF Tells
<1>1. ASSUME NEW u \in Units, StartLock(u) PROVE TellsOf(v)'
  BY <1>1 DEF StartLock, Goto, os, handler, unit, flags, past, TellsOf, StopsOf, RunningOf,
    ExitsOf, Told, Untold, Alive, Noticed, Notices, TellTypes, ThreadTypes, DataTypes, Stopping
<1>2. ASSUME NEW u \in Units, Fork(u) PROVE TellsOf(v)'
  BY <1>2 DEF Fork, Goto, handler, pData, unit, flags, past, TellsOf, StopsOf, RunningOf,
    ExitsOf, Told, Untold, Alive, Noticed, Notices, TellTypes, ThreadTypes, DataTypes, Stopping
<1>3. ASSUME NEW u \in Units, ForkFails(u) PROVE TellsOf(v)'
  BY <1>3 DEF ForkFails, Goto, os, handler, unit, flags, past, TellsOf, StopsOf, RunningOf,
    ExitsOf, Told, Untold, Alive, Noticed, Notices, TellTypes, ThreadTypes, DataTypes, Stopping
<1>4. ASSUME NEW u \in Units, StartAborts(u) PROVE TellsOf(v)'
  BY <1>4 DEF StartAborts, Goto, os, handler, flags, past, TellsOf, StopsOf, RunningOf, ExitsOf,
    Told, Untold, Alive, Noticed, Notices, TellTypes, ThreadTypes, DataTypes, Stopping
<1>5. ASSUME NEW u \in Units, SetPid(u) PROVE TellsOf(v)'
  BY <1>5 DEF SetPid, Goto, os, handler, unit, flags, past, TellsOf, StopsOf, RunningOf,
    ExitsOf, Told, Untold, Alive, Noticed, Notices, TellTypes, ThreadTypes, DataTypes, Stopping
<1>6. ASSUME NEW u \in Units, Poll(u) PROVE TellsOf(v)'
  <2>1. /\ starter[u] = "poll" /\ pState[u] # "running"
        /\ starter' = [starter EXCEPT ![u] = IF proc[u][forks[u]] = "alive" THEN "check" ELSE "evaluate"]
    BY <1>6 DEF Poll, Goto, Tells, TellsOf, RunningOf
  <2>2. \A w \in Units : Alive(w)' <=> Alive(w)
    BY <1>6 DEF Poll, Reap, Alive, DataTypes
  <2>3. proc[u][forks[u]] = "alive" => Alive(u)
    BY <1>6, <2>1 DEF Alive, Processes, ProcessesOf
  <2>4. UNCHANGED <<policy, forks, pending, handler, pData, unit, manager, flags, past>>
    BY <1>6 DEF Poll
  <2> QED
    BY <2>1, <2>2, <2>3, <2>4 DEF handler, pData, unit, flags, past, TellsOf, StopsOf,
      RunningOf, ExitsOf, Told, Untold, Noticed, Notices, TellTypes, ThreadTypes, DataTypes,
      Stopping
<1>7. ASSUME NEW u \in Units, Check(u) PROVE TellsOf(v)'
  BY <1>7 DEF Check, Goto, os, handler, pData, unit, flags, past, TellsOf, StopsOf, RunningOf,
    ExitsOf, Told, Untold, Alive, Noticed, Notices, TellTypes, ThreadTypes, DataTypes, Stopping
<1>8. ASSUME NEW u \in Units, WriteRunning(u) PROVE TellsOf(v)'
  <2>1. pid[u] = forks[u] /\ forks[u] > 0 /\ starter[u] = "write"
    BY <1>8 DEF WriteRunning, Goto, Processes, ProcessesOf
  <2>2. manager[u] \notin {"stopLock", "stopped"} \cup Stopping
    BY <2>1, Alone DEF Closing
  <2>3. Alive(v)' <=> Alive(v)
    BY <1>8 DEF WriteRunning, os, Alive
  <2> QED
    BY <1>8, <2>1, <2>2, <2>3 DEF WriteRunning, Goto, os, handler, unit, flags, past, TellsOf,
      StopsOf, RunningOf, ExitsOf, Told, Untold, Noticed, Notices, TellTypes, ThreadTypes,
      DataTypes, Stopping
<1>9. ASSUME NEW u \in Units, Evaluate(u) PROVE TellsOf(v)'
  BY <1>9 DEF Evaluate, Goto, IsUp, os, handler, pData, unit, flags, past, TellsOf, StopsOf,
    RunningOf, ExitsOf, Told, Untold, Alive, Noticed, Notices, TellTypes, ThreadTypes, DataTypes,
    Stopping
<1>10. ASSUME NEW u \in Units, Announce(u) PROVE TellsOf(v)'
  BY <1>10 DEF Announce, Goto, os, handler, unit, flags, past, TellsOf, StopsOf, RunningOf,
    ExitsOf, Told, Untold, Alive, Noticed, Notices, TellTypes, ThreadTypes, DataTypes, Stopping
<1>11. ASSUME NEW u \in Units, Reset(u) PROVE TellsOf(v)'
  <2>1. starter[u] = "off" /\ manager[u] \in {"serve", "closing"}
    BY <1>11, ResetAlone
  <2>2. Alive(v)' <=> Alive(v)
    BY <1>11 DEF Reset, os, Alive
  <2> QED
    BY <1>11, <2>1, <2>2 DEF Reset, Goto, os, handler, flags, past, TellsOf, StopsOf, RunningOf,
      ExitsOf, Told, Untold, Noticed, Notices, TellTypes, ThreadTypes, DataTypes, Stopping
<1>12. ASSUME NEW u \in Units, Again(u) PROVE TellsOf(v)'
  <2>1. Fresh(u) /\ starter[u] = "off" /\ manager[u] \in {"serve", "closing"}
    BY <1>12 DEF Again, Goto, Fresh, Handover, HandoverOf
  <2>2. pState[u] # "running" /\ ~Noticed(u)
    BY <2>1, Settled DEF Processes, ProcessesOf
  <2>3. Alive(v)' <=> Alive(v)
    BY <1>12 DEF Again, os, Alive
  <2>4. starter' = [starter EXCEPT ![u] = "lock"] /\ UNCHANGED <<policy, os, handler, pData, unit, manager, flags, past>>
    BY <1>12 DEF Again, Goto
  <2> QED
    BY <2>1, <2>2, <2>3, <2>4 DEF os, handler, pData, unit, flags, past, TellsOf, StopsOf,
      RunningOf, ExitsOf, Told, Untold, Noticed, Notices, TellTypes, ThreadTypes, DataTypes,
      Stopping
<1>13. ASSUME NEW u \in Units, Start(u) PROVE TellsOf(v)'
  <2>1. Fresh(u) /\ manager[u] \in {"new", "handshake"}
    BY <1>13 DEF Start, StartFrom, Goto, Fresh
  <2>2. pState[u] # "running" /\ ~Noticed(u)
    BY <2>1, Settled DEF Processes, ProcessesOf
  <2>3. Alive(v)' <=> Alive(v)
    BY <1>13 DEF Start, StartFrom, os, Alive
  <2>4. /\ starter' = [starter EXCEPT ![u] = "lock"] /\ manager' = [manager EXCEPT ![u] = "starting"]
        /\ UNCHANGED <<policy, os, handler, pData, unit, flags, past>>
    BY <1>13 DEF Start, StartFrom, Goto
  <2> QED
    BY <2>1, <2>2, <2>3, <2>4 DEF os, handler, pData, unit, flags, past, TellsOf, StopsOf,
      RunningOf, ExitsOf, Told, Untold, Noticed, Notices, TellTypes, ThreadTypes, DataTypes,
      Stopping
<1>14. ASSUME NEW u \in Units, Listen(u) PROVE TellsOf(v)'
  BY <1>14 DEF Listen, Goto, os, handler, pData, unit, flags, past, TellsOf, StopsOf, RunningOf,
    ExitsOf, Told, Untold, Alive, Noticed, Notices, TellTypes, ThreadTypes, DataTypes, Stopping
<1>15. ASSUME NEW u \in Units, CloseAtShutdown(u) PROVE TellsOf(v)'
  BY <1>15 DEF CloseAtShutdown, Goto, Close, os, handler, pData, unit, flags, past, TellsOf,
    StopsOf, RunningOf, ExitsOf, Told, Untold, Alive, Noticed, Notices, TellTypes, ThreadTypes,
    DataTypes, Stopping
<1>16. ASSUME NEW u \in Units, StopRequest(u) PROVE TellsOf(v)'
  BY <1>16 DEF StopRequest, Goto, Close, os, handler, pData, unit, flags, past, TellsOf,
    StopsOf, RunningOf, ExitsOf, Told, Untold, Alive, Noticed, Notices, TellTypes, ThreadTypes,
    DataTypes, Stopping
<1>17. ASSUME NEW u \in Units, Closed(u) PROVE TellsOf(v)'
  BY <1>17 DEF Closed, Goto, os, handler, pData, unit, flags, past, TellsOf, StopsOf, RunningOf,
    ExitsOf, Told, Untold, Alive, Noticed, Notices, TellTypes, ThreadTypes, DataTypes, Stopping
<1>18. ASSUME NEW u \in Units, Test(u) PROVE TellsOf(v)'
  <2>1. manager[u] = "test" /\ starter[u] = "off"
    BY <1>18, Alone DEF Test, Goto, Closing
  <2>2. ~isStopping[u]
    BY <2>1 DEF Tells, TellsOf, StopsOf, Stopping
  <2>3. Alive(v)' <=> Alive(v)
    BY <1>18 DEF Test, os, Alive
  <2>4. /\ manager' = [manager EXCEPT ![u] = IF pState[u] = "running" THEN "stopLock" ELSE "stopped"]
        /\ isStopping' = [isStopping EXCEPT ![u] = pState[u] = "running" /\ ~shutdown]
        /\ UNCHANGED <<policy, os, handler, pData, starter, flags, past>>
    BY <1>18, <2>2 DEF Test, Goto
  <2> QED
    BY <2>1, <2>2, <2>3, <2>4 DEF os, handler, pData, flags, past, TellsOf, StopsOf, RunningOf,
      ExitsOf, Told, Untold, Noticed, Notices, TellTypes, ThreadTypes, DataTypes, Stopping
<1>19. ASSUME NEW u \in Units, StopLock(u) PROVE TellsOf(v)'
  BY <1>19 DEF StopLock, Goto, os, handler, pData, unit, flags, past, TellsOf, StopsOf,
    RunningOf, ExitsOf, Told, Untold, Alive, Noticed, Notices, TellTypes, ThreadTypes, DataTypes,
    Stopping
<1>20. ASSUME NEW u \in Units, StopPoll(u) PROVE TellsOf(v)'
  BY <1>20 DEF StopPoll, Goto, Reap, handler, pData, unit, flags, past, TellsOf, StopsOf,
    RunningOf, ExitsOf, Told, Untold, Alive, Noticed, Notices, TellTypes, ThreadTypes, DataTypes,
    Stopping
<1>21. ASSUME NEW u \in Units, StopKill(u) PROVE TellsOf(v)'
  BY <1>21 DEF StopKill, Goto, End, handler, pData, unit, flags, TellsOf, StopsOf, RunningOf,
    ExitsOf, Told, Untold, Alive, Noticed, Notices, TellTypes, ThreadTypes, DataTypes, Stopping
<1>22. ASSUME NEW u \in Units, StopForkFails(u) PROVE TellsOf(v)'
  BY <1>22 DEF StopForkFails, Goto, os, handler, unit, flags, past, TellsOf, StopsOf, RunningOf,
    ExitsOf, Told, Untold, Alive, Noticed, Notices, TellTypes, ThreadTypes, DataTypes, Stopping
<1>23. ASSUME NEW u \in Units, StopClear(u) PROVE TellsOf(v)'
  <2>1. manager[u] = "stopClear" /\ starter[u] = "off"
    BY <1>23, Alone DEF StopClear, Goto, Closing, Stopping
  <2>2. Alive(v)' <=> Alive(v)
    BY <1>23 DEF StopClear, os, Alive
  <2> QED
    BY <1>23, <2>1, <2>2 DEF StopClear, Goto, os, handler, unit, flags, past, TellsOf, StopsOf,
      RunningOf, ExitsOf, Told, Untold, Noticed, Notices, TellTypes, ThreadTypes, DataTypes,
      Stopping
<1>24. ASSUME NEW u \in Units, StopSet(u) PROVE TellsOf(v)'
  BY <1>24 DEF StopSet, Goto, os, handler, unit, flags, past, TellsOf, StopsOf, RunningOf,
    ExitsOf, Told, Untold, Alive, Noticed, Notices, TellTypes, ThreadTypes, DataTypes, Stopping
<1>25. ASSUME NEW u \in Units, StopEvaluate(u) PROVE TellsOf(v)'
  BY <1>25 DEF StopEvaluate, Goto, os, handler, pData, unit, flags, past, TellsOf, StopsOf,
    RunningOf, ExitsOf, Told, Untold, Alive, Noticed, Notices, TellTypes, ThreadTypes, DataTypes,
    Stopping
<1>26. ASSUME NEW u \in Units, StopEnd(u) PROVE TellsOf(v)'
  BY <1>26 DEF StopEnd, Goto, os, handler, unit, flags, past, TellsOf, StopsOf, RunningOf,
    ExitsOf, Told, Untold, Alive, Noticed, Notices, TellTypes, ThreadTypes, DataTypes, Stopping
<1>27. ASSUME NEW u \in Units, Die(u) PROVE TellsOf(v)'
  <2>1. PICK cause \in policy[u].ends :
          /\ proc' = [proc EXCEPT ![u][forks[u]] = "zombie"]
          /\ pending' = IF pending = {} THEN {<<u, forks[u], cause>>} ELSE pending
          /\ merged' = IF pending = {} THEN merged ELSE merged \cup {<<u, forks[u]>>}
    BY <1>27 DEF Die, End
  <2>2. UNCHANGED <<policy, forks, handling, storing, pData, unit, starter, manager, shutdown>>
    BY <1>27 DEF Die, handler, flags
  <2>3. v # u => (Alive(v)' <=> Alive(v))
    BY <2>1, <2>2 DEF Alive
  <2>4. ~Noticed(u) /\ \A s \in Notices : s[1] # u
    BY <1>27 DEF Die, Alive, OneNotice, NoticesOf, Noticed, DataTypes
  <2>5. StopsOf(v)' /\ RunningOf(v)'
    BY <2>2 DEF pData, unit, TellsOf, StopsOf, RunningOf
  <2>6. ASSUME policy[v].ends = {"exit"} PROVE ExitsOf(v)'
    BY <2>1, <2>2, <2>6 DEF pData, unit, TellsOf, ExitsOf, Notices
  <2>7. ASSUME policy[v].ends = {"exit"}, Untold(v)' PROVE Told(v)'
    <3>1. CASE v = u
      <4>1. pending = {}
        BY <2>1, <2>2, <2>7, <3>1 DEF Untold
      <4>2. <<u, forks[u], cause>> \in Notices' /\ <<u, forks[u], cause>>[1] = v
        BY <2>1, <3>1, <4>1 DEF Notices
      <4> QED
        BY <4>2 DEF Told, Noticed
    <3>2. CASE v # u
      <4>1. Untold(v)
        BY <2>1, <2>2, <2>3, <2>7, <3>2 DEF pData, unit, Untold
      <4>2. Told(v)
        BY <2>7, <4>1 DEF TellsOf
      <4>3. Noticed(v) => Noticed(v)'
        BY <2>1, <2>2 DEF Noticed, Notices
      <4> QED
        BY <2>2, <4>2, <4>3 DEF pData, Told
    <3> QED
      BY <3>1, <3>2
  <2>8. policy'[v] = policy[v]
    BY <2>2
  <2> QED
    BY <2>5, <2>6, <2>7, <2>8 DEF TellsOf
<1>28. ASSUME NEW s \in Signals, Catch(s) PROVE TellsOf(v)'
  <2>1. /\ pending = {s} /\ pending' = {} /\ storing' = storing
        /\ handling' = IF ~shutdown /\ pid[s[1]] = s[2] /\ ~isStopping[s[1]]
                       THEN handling \cup {s} ELSE handling
        /\ UNCHANGED <<policy, proc, forks, pData, unit, starter, manager, flags, past>>
    BY <1>28 DEF Catch, OneNotice, SignalsApart
  <2>2. (Alive(v)' <=> Alive(v)) /\ s \in Notices /\ s[1] \in Units /\ s[2] = forks[s[1]]
    BY <2>1 DEF Alive, Notices, OneNotice, SignalsApart, Signals
  <2>3. StopsOf(v)' /\ RunningOf(v)'
    BY <2>1 DEF pData, unit, flags, TellsOf, StopsOf, RunningOf
  <2>4. ASSUME policy[v].ends = {"exit"} PROVE ExitsOf(v)'
    <3>1. ExitsOf(v) /\ (s[1] = v /\ s[3] # "exit" => isStopping[v] \/ shutdown)
      BY <2>2, <2>4 DEF TellsOf, ExitsOf
    <3>2. ASSUME NEW t \in Notices', t[1] = v PROVE t[3] = "exit"
      <4>1. t \in handling \cup storing \/ (t = s /\ ~shutdown /\ ~isStopping[v])
        BY <2>1, <3>2 DEF Notices
      <4>2. t \in handling \cup storing => t \in Notices /\ t \notin pending
        BY DEF Notices, OneNotice, SignalsApart
      <4> QED
        BY <3>1, <3>2, <4>1, <4>2 DEF ExitsOf
    <3> QED
      BY <2>1, <3>1, <3>2 DEF pData, ExitsOf
  <2>5. ASSUME policy[v].ends = {"exit"}, Untold(v)' PROVE Told(v)'
    <3>1. Untold(v)
      BY <2>1, <2>2, <2>5 DEF pData, unit, flags, past, Untold
    <3>2. Told(v)
      BY <2>5, <3>1 DEF TellsOf
    <3>3. pid[v] = forks[v]
      BY <3>1 DEF Untold, TellsOf, RunningOf, Processes, ProcessesOf
    <3>4. Noticed(v) => Noticed(v)'
      <4>1. CASE s[1] = v
        <5>1. s \in handling'
          BY <2>1, <2>2, <3>1, <3>3, <4>1 DEF Untold
        <5> QED
          BY <4>1, <5>1 DEF Noticed, Notices
      <4>2. CASE s[1] # v
        BY <2>1, <4>2 DEF Noticed, Notices
      <4> QED
        BY <4>1, <4>2
    <3> QED
      BY <2>1, <3>2, <3>4 DEF pData, Told
  <2>6. policy'[v] = policy[v]
    BY <2>1
  <2> QED
    BY <2>3, <2>4, <2>5, <2>6 DEF TellsOf
<1>29. ASSUME NEW s \in Signals, RecordCode(s) PROVE TellsOf(v)'
  <2>1. /\ s \in handling /\ handling' = handling \ {s} /\ storing' = storing \cup {s}
        /\ coded' = [coded EXCEPT ![s[1]] = (s[3] = "exit")]
        /\ UNCHANGED <<policy, forks, pending, pid, pState, finalStatus, unit, starter, manager, flags, past>>
    BY <1>29 DEF RecordCode
  <2>2. Alive(v)' <=> Alive(v)
    BY <1>29 DEF RecordCode, Reap, Alive, DataTypes
  <2>3. s \in Notices /\ s \notin pending /\ Notices' = Notices /\ s[1] \in Units
    BY <2>1 DEF Notices, OneNotice, SignalsApart, Signals
  <2>4. StopsOf(v)' /\ RunningOf(v)'
    BY <2>1 DEF unit, flags, TellsOf, StopsOf, RunningOf
  <2>5. ASSUME policy[v].ends = {"exit"} PROVE coded'[v] = coded[v] \/ coded'[v]
    <3>1. s[1] = v => s[3] = "exit"
      BY <2>3, <2>5 DEF TellsOf, ExitsOf
    <3> QED
      BY <2>1, <2>3, <3>1 DEF DataTypes
  <2>6. ASSUME policy[v].ends = {"exit"} PROVE ExitsOf(v)'
    <3>1. s[1] = v => coded'[v]
      <4>1. s[1] = v => s[3] = "exit"
        BY <2>3, <2>6 DEF TellsOf, ExitsOf
      <4> QED
        BY <2>1, <2>3, <4>1 DEF DataTypes
    <3> QED
      BY <2>1, <2>3, <2>5, <2>6, <3>1 DEF unit, flags, TellsOf, ExitsOf
  <2>7. ASSUME policy[v].ends = {"exit"}, Untold(v)' PROVE Told(v)'
    <3>1. Untold(v)
      BY <2>1, <2>2, <2>7 DEF unit, flags, past, Untold
    <3>2. Told(v)
      BY <2>7, <3>1 DEF TellsOf
    <3> QED
      BY <2>1, <2>3, <2>5, <2>7, <3>2 DEF Told, Noticed
  <2>8. policy'[v] = policy[v]
    BY <2>1
  <2> QED
    BY <2>4, <2>6, <2>7, <2>8 DEF TellsOf
<1>30. ASSUME NEW s \in Signals, Record(s) PROVE TellsOf(v)'
  BY <1>30 DEF Record, Goto, os, unit, flags, TellsOf, StopsOf, RunningOf, ExitsOf, Told,
    Untold, Alive, Noticed, Notices, TellTypes, ThreadTypes, DataTypes, Stopping
<1>31. ASSUME NEW s \in Signals, RecordNothing(s) PROVE TellsOf(v)'
  BY <1>31 DEF RecordNothing, Goto, os, pData, unit, flags, past, TellsOf, StopsOf, RunningOf,
    ExitsOf, Told, Untold, Alive, Noticed, Notices, TellTypes, ThreadTypes, DataTypes, Stopping
<1>32. ASSUME NEW u \in Units, ListenerBegins(u) PROVE TellsOf(v)'
  BY <1>32, TellsSame DEF ListenerBegins, Goto, Leave, os, handler, pData, unit, flags, past, Alive
<1>33. ASSUME NEW u \in Units, ReadDeath(u) PROVE TellsOf(v)'
  BY <1>33, TellsSame DEF ReadDeath, Goto, Leave, os, handler, pData, unit, flags, past, Alive
<1>34. ASSUME NEW u \in Units, ReadExit(u) PROVE TellsOf(v)'
  BY <1>34, TellsSame DEF ReadExit, Goto, Leave, os, handler, pData, unit, flags, past, Alive
<1>35. ASSUME NEW u \in Units, Woken(u) PROVE TellsOf(v)'
  BY <1>35, TellsSame DEF Woken, Goto, Leave, os, handler, pData, unit, flags, past, Alive
<1>36. ASSUME NEW u \in Units, WokenByShutdown(u) PROVE TellsOf(v)'
  BY <1>36, TellsSame DEF WokenByShutdown, Goto, Leave, os, handler, pData, unit, flags, past, Alive
<1>37. ASSUME NEW u \in Units, RunFailure(u) PROVE TellsOf(v)'
  BY <1>37, TellsSame DEF RunFailure, Goto, Leave, os, handler, pData, unit, flags, past, Alive
<1>38. ASSUME NEW u \in Units, Decide(u) PROVE TellsOf(v)'
  BY <1>38, TellsSame DEF Decide, Goto, Leave, os, handler, pData, unit, flags, past, Alive
<1>39. ASSUME NEW u \in Units, GiveUp(u) PROVE TellsOf(v)'
  BY <1>39, TellsSame DEF GiveUp, Goto, Leave, os, handler, pData, unit, flags, past, Alive
<1>40. ASSUME NEW u \in Units, NotAgain(u) PROVE TellsOf(v)'
  BY <1>40, TellsSame DEF NotAgain, Goto, Leave, os, handler, pData, unit, flags, past, Alive
<1>41. CASE Clean
  <2>1. Alive(v)' <=> Alive(v)
    BY <1>41 DEF Clean, Alive, DataTypes
  <2> QED
    BY <1>41, <2>1, TellsSame DEF Clean, handler, pData, unit, flags, past
<1>42. CASE ListenSocket
  BY <1>42, TellsSame DEF ListenSocket, os, handler, pData, unit, flags, past, Alive, DataTypes
<1>43. CASE UNCHANGED vars
  BY <1>43, TellsSame DEF vars, os, handler, pData, unit, flags, past, Alive, DataTypes
<1>44. CASE Shutdown
  BY <1>44 DEF Shutdown, os, handler, pData, unit, flags, past, TellsOf, StopsOf, RunningOf,
    ExitsOf, Told, Untold, Alive, Noticed, Notices, TellTypes, ThreadTypes, DataTypes, Stopping
<1> QED
  BY Steps, <1>1, <1>2, <1>3, <1>4, <1>5, <1>6, <1>7, <1>8, <1>9, <1>10, <1>11, <1>12, <1>13,
    <1>14, <1>15, <1>16, <1>17, <1>18, <1>19, <1>20, <1>21, <1>22, <1>23, <1>24, <1>25, <1>26,
    <1>27, <1>28, <1>29, <1>30, <1>31, <1>32, <1>33, <1>34, <1>35, <1>36, <1>37, <1>38, <1>39,
    <1>40, <1>41, <1>42, <1>43, <1>44 DEF Starter, Listener, Manager, Handler

(* The types of the variables are preserved. *)
LEMMA TypeStep ==
  ASSUME IInv, [Next]_vars
  PROVE  TypeOK'
<1>a. /\ \A u \in Units : policy[u].ends \subseteq {"exit", "kill", "dump"} /\ policy[u].forks \in 0..MaxForks
      /\ MaxForks \in Nat \ {0} /\ ShowMax \in Nat \ {0}
  BY SuperviseAssumption DEF PolicyType, TypeOK, IInv
<1>b. /\ ThreadTypes /\ DataTypes /\ Handover /\ Processes /\ OneNotice
      /\ Notices \subseteq Signals
  BY TypesParts DEF IInv
<1>c. Shapes \subseteq Seq({"death", "exit"})
  BY DEF Shapes
<1>d. pipe' \in [Units -> Seq({"death", "exit"})]
  BY <1>b, <1>c, PipesStep
<1> USE DEF IInv
<1>1. ASSUME NEW u \in Units, StartLock(u) PROVE TypeOK'
  BY <1>1 DEF StartLock, Goto, os, handler, unit, flags, past, TypeOK, Starters, Finals
<1>2. ASSUME NEW u \in Units, Fork(u) PROVE TypeOK'
  <2>1. starter[u] = "fork"
    BY <1>2 DEF Fork, Goto
  <2>2. forks[u] + 1 \in 1..MaxForks
    <3>1. forks[u] < policy[u].forks
      BY <2>1, <1>b, ForkAlone
    <3>2. forks[u] \in 0..MaxForks /\ policy[u].forks \in 0..MaxForks /\ MaxForks \in Nat
      BY <1>a, <1>b DEF DataTypes
    <3> QED
      BY <3>1, <3>2
  <2>3. proc' \in [Units -> [1..MaxForks -> {"none", "alive", "zombie", "reaped"}]]
        /\ forks' \in [Units -> 0..MaxForks]
    BY <1>2, <2>2 DEF Fork, TypeOK
  <2> QED
    BY <1>2, <2>3 DEF TypeOK, Fork, Goto, pData, handler, unit, locks, flags, past, Starters
<1>3. ASSUME NEW u \in Units, ForkFails(u) PROVE TypeOK'
  BY <1>3 DEF ForkFails, Goto, os, handler, unit, locks, flags, past, TypeOK, Starters
<1>4. ASSUME NEW u \in Units, StartAborts(u) PROVE TypeOK'
  BY <1>4 DEF StartAborts, Goto, os, handler, locks, flags, past, TypeOK, Starters, PStates,
    Finals
<1>5. ASSUME NEW u \in Units, SetPid(u) PROVE TypeOK'
  BY <1>5 DEF SetPid, Goto, os, handler, unit, locks, flags, past, TypeOK, Starters
<1>6. ASSUME NEW u \in Units, Poll(u) PROVE TypeOK'
  BY <1>6 DEF Poll, Goto, Reap, pData, handler, unit, locks, flags, past, TypeOK, Starters
<1>7. ASSUME NEW u \in Units, Check(u) PROVE TypeOK'
  BY <1>7 DEF Check, Goto, pData, os, handler, unit, locks, flags, past, TypeOK, Starters
<1>8. ASSUME NEW u \in Units, WriteRunning(u) PROVE TypeOK'
  BY <1>8 DEF WriteRunning, Goto, os, handler, unit, locks, flags, past, TypeOK, Starters,
    PStates
<1>9. ASSUME NEW u \in Units, Evaluate(u) PROVE TypeOK'
  BY <1>9 DEF Evaluate, Goto, pData, os, handler, unit, locks, flags, past, TypeOK, Starters
<1>10. ASSUME NEW u \in Units, Announce(u) PROVE TypeOK'
  BY <1>10 DEF Announce, Goto, os, handler, unit, flags, past, TypeOK, Starters, Listeners,
    Managers, Finals
<1>11. ASSUME NEW u \in Units, ListenerBegins(u) PROVE TypeOK'
  BY <1>11 DEF ListenerBegins, Goto, pData, os, handler, unit, flags, past, TypeOK, Listeners
<1>12. ASSUME NEW u \in Units, ReadDeath(u) PROVE TypeOK'
  <2> QED
    BY <1>12, <1>d DEF TypeOK, ReadDeath, Goto, os, handler, pData, unit, locks, flags, past,
      Listeners
<1>13. ASSUME NEW u \in Units, ReadExit(u) PROVE TypeOK'
  <2> QED
    BY <1>13, <1>d DEF TypeOK, ReadExit, Leave, Goto, os, handler, pData, unit, locks, flags,
      past, Listeners
<1>14. ASSUME NEW u \in Units, Woken(u) PROVE TypeOK'
  BY <1>14 DEF Woken, Goto, pData, os, handler, unit, locks, flags, past, TypeOK, Listeners
<1>15. ASSUME NEW u \in Units, WokenByShutdown(u) PROVE TypeOK'
  BY <1>15 DEF WokenByShutdown, Goto, Leave, pData, os, handler, unit, flags, past, TypeOK,
    Listeners
<1>16. ASSUME NEW u \in Units, RunFailure(u) PROVE TypeOK'
  <2>1. PICK outcome \in FailureOutcomes(u) :
          /\ failureCode' = [failureCode EXCEPT ![u] = outcome.code]
          /\ errors' = [errors EXCEPT ![u] = @ \/ outcome.told = "bad"]
    BY <1>16 DEF RunFailure
  <2>2. outcome.code \in Codes
    BY DEF FailureOutcomes, TypeOK, Codes
  <2>3. failureCode' \in [Units -> Codes] /\ errors' \in [Units -> BOOLEAN]
    BY <2>1, <2>2 DEF TypeOK
  <2>4. handled' \in [Units -> 0..MaxForks] /\ listener' \in [Units -> Listeners]
    BY <1>16 DEF RunFailure, Goto, TypeOK, Listeners
  <2> QED
    BY <1>16, <2>3, <2>4 DEF TypeOK, RunFailure, Goto, pData, os, handler, locks, flags
<1>17. ASSUME NEW u \in Units, Decide(u) PROVE TypeOK'
  BY <1>17 DEF Decide, Goto, pData, os, handler, unit, locks, flags, past, TypeOK, Listeners
<1>18. ASSUME NEW u \in Units, GiveUp(u) PROVE TypeOK'
  BY <1>18 DEF GiveUp, Goto, Leave, pData, os, handler, unit, flags, past, TypeOK, Listeners
<1>19. ASSUME NEW u \in Units, Reset(u) PROVE TypeOK'
  <2>1. HistorySize(u) \in 0..ShowMax
    BY <1>a DEF RestartsBounded, HistorySize, TypeOK
  <2>2. history' \in [Units -> 0..ShowMax] /\ restartNum' \in [Units -> Nat]
    BY <1>19, <2>1 DEF Reset, TypeOK
  <2>3. pid' \in [Units -> 0..MaxForks] /\ pState' \in [Units -> PStates]
        /\ coded' \in [Units -> BOOLEAN] /\ finalStatus' \in [Units -> Finals]
    BY <1>19, <1>a DEF Reset, TypeOK, PStates, Finals
  <2> QED
    BY <1>19, <2>2, <2>3 DEF TypeOK, Reset, Goto, os, handler, locks, flags, past, Listeners
<1>20. ASSUME NEW u \in Units, Again(u) PROVE TypeOK'
  BY <1>20 DEF Again, Goto, pData, os, handler, unit, locks, flags, past, TypeOK, Starters
<1>21. ASSUME NEW u \in Units, NotAgain(u) PROVE TypeOK'
  BY <1>21 DEF NotAgain, Goto, pData, os, handler, unit, locks, flags, past, TypeOK, Listeners
<1>22. ASSUME NEW u \in Units, Listen(u) PROVE TypeOK'
  BY <1>22 DEF Listen, Goto, pData, os, handler, unit, flags, past, TypeOK, Listeners, Managers
<1>23. ASSUME NEW u \in Units, Start(u) PROVE TypeOK'
  <2>1. /\ starter' = [starter EXCEPT ![u] = "lock"]
        /\ manager' = [manager EXCEPT ![u] = "starting"]
        /\ UNCHANGED <<policy, os, handler, pData, unit, pipe, locks, listener, flags, past>>
    BY <1>23 DEF Start, StartFrom, Goto
  <2> QED
    BY <2>1 DEF TypeOK, os, handler, pData, unit, locks, flags, past, Starters, Managers
<1>24. ASSUME NEW u \in Units, CloseAtShutdown(u) PROVE TypeOK'
  <2>1. manager' = [manager EXCEPT ![u] = "closing"] \/ manager' = [manager EXCEPT ![u] = "test"]
    BY <1>24 DEF CloseAtShutdown, Close, Goto
  <2> QED
    BY <1>24, <2>1, <1>d DEF TypeOK, CloseAtShutdown, Close, os, handler, pData, unit, locks,
      flags, past, Managers
<1>25. ASSUME NEW u \in Units, StopRequest(u) PROVE TypeOK'
  <2>1. manager' = [manager EXCEPT ![u] = "closing"] \/ manager' = [manager EXCEPT ![u] = "test"]
    BY <1>25 DEF StopRequest, Close, Goto
  <2> QED
    BY <1>25, <2>1, <1>d DEF TypeOK, StopRequest, Close, os, handler, pData, unit, locks, flags,
      past, Managers
<1>26. ASSUME NEW u \in Units, Closed(u) PROVE TypeOK'
  BY <1>26 DEF Closed, Goto, pData, os, handler, unit, locks, flags, past, TypeOK, Managers
<1>27. ASSUME NEW u \in Units, Test(u) PROVE TypeOK'
  BY <1>27 DEF Test, Goto, pData, os, handler, locks, flags, past, TypeOK, Managers
<1>28. ASSUME NEW u \in Units, StopLock(u) PROVE TypeOK'
  BY <1>28 DEF StopLock, Goto, pData, os, handler, unit, flags, past, TypeOK, Managers
<1>29. ASSUME NEW u \in Units, StopPoll(u) PROVE TypeOK'
  BY <1>29 DEF StopPoll, Goto, Reap, pData, handler, unit, locks, flags, past, TypeOK, Managers
<1>30. ASSUME NEW u \in Units, StopKill(u) PROVE TypeOK'
  <2>0. pid[u] > 0 /\ pid[u] \in {0, forks[u]}
    BY <1>30 DEF StopKill, Processes, ProcessesOf
  <2>1. forks[u] \in 1..MaxForks /\ pid[u] = forks[u]
    BY <2>0 DEF TypeOK
  <2>2. PICK cause \in {"exit", "kill", "dump"}, left \in {"zombie", "reaped"} :
          /\ proc' = [proc EXCEPT ![u][forks[u]] = left]
          /\ pending' = IF pending = {} THEN {<<u, forks[u], cause>>} ELSE pending
    BY <1>30, <2>1, <1>a DEF StopKill, End
  <2>3. proc' \in [Units -> [1..MaxForks -> {"none", "alive", "zombie", "reaped"}]]
    BY <2>1, <2>2 DEF TypeOK
  <2>4. pending' \subseteq Signals /\ Cardinality(pending') <= 1
    <3>1. <<u, forks[u], cause>> \in Signals
      BY <2>1 DEF Signals
    <3>2. Cardinality({<<u, forks[u], cause>>}) = 1
      BY FS_Singleton
    <3>3. pending' = pending \/ pending' = {<<u, forks[u], cause>>}
      BY <2>2
    <3>4. pending \subseteq Signals /\ Cardinality(pending) <= 1
      BY DEF TypeOK
    <3> QED
      BY <3>1, <3>2, <3>3, <3>4
  <2>5. merged' \subseteq Units \X (1..MaxForks)
    BY <1>30, <2>1 DEF StopKill, End, TypeOK
  <2> QED
    BY <1>30, <2>1, <2>3, <2>4, <2>5 DEF TypeOK, StopKill, pData, handler, unit, locks, flags,
      Goto, Managers
<1>31. ASSUME NEW u \in Units, StopForkFails(u) PROVE TypeOK'
  BY <1>31 DEF StopForkFails, Goto, os, handler, unit, locks, flags, past, TypeOK, Managers
<1>32. ASSUME NEW u \in Units, StopClear(u) PROVE TypeOK'
  BY <1>32 DEF StopClear, Goto, os, handler, unit, locks, flags, past, TypeOK, Managers
<1>33. ASSUME NEW u \in Units, StopSet(u) PROVE TypeOK'
  BY <1>33 DEF StopSet, Goto, os, handler, unit, locks, flags, past, TypeOK, Managers, PStates
<1>34. ASSUME NEW u \in Units, StopEvaluate(u) PROVE TypeOK'
  BY <1>34 DEF StopEvaluate, Goto, pData, os, handler, unit, locks, flags, past, TypeOK, Managers
<1>35. ASSUME NEW u \in Units, StopEnd(u) PROVE TypeOK'
  BY <1>35 DEF StopEnd, Goto, os, handler, unit, flags, past, TypeOK, Managers, Finals
<1>36. ASSUME NEW u \in Units, Die(u) PROVE TypeOK'
  <2>1. forks[u] \in 1..MaxForks
    BY <1>36, <1>a DEF Die, TypeOK
  <2>2. PICK cause \in {"exit", "kill", "dump"}, left \in {"zombie", "reaped"} :
          /\ proc' = [proc EXCEPT ![u][forks[u]] = left]
          /\ pending' = IF pending = {} THEN {<<u, forks[u], cause>>} ELSE pending
    BY <1>36, <2>1, <1>a DEF Die, End
  <2>3. proc' \in [Units -> [1..MaxForks -> {"none", "alive", "zombie", "reaped"}]]
    BY <2>1, <2>2 DEF TypeOK
  <2>4. pending' \subseteq Signals /\ Cardinality(pending') <= 1
    <3>1. <<u, forks[u], cause>> \in Signals
      BY <2>1 DEF Signals
    <3>2. Cardinality({<<u, forks[u], cause>>}) = 1
      BY FS_Singleton
    <3>3. pending' = pending \/ pending' = {<<u, forks[u], cause>>}
      BY <2>2
    <3>4. pending \subseteq Signals /\ Cardinality(pending) <= 1
      BY DEF TypeOK
    <3> QED
      BY <3>1, <3>2, <3>3, <3>4
  <2>5. merged' \subseteq Units \X (1..MaxForks)
    BY <1>36, <2>1 DEF Die, End, TypeOK
  <2>6. died' \in [Units -> 0..MaxForks] /\ crashed' \in [Units -> 0..MaxForks]
    BY <1>36, <2>1 DEF Die, TypeOK
  <2> QED
    BY <1>36, <2>3, <2>4, <2>5, <2>6 DEF TypeOK, Die, pData, handler, unit, locks, flags
<1>37. ASSUME NEW s \in Signals, Catch(s) PROVE TypeOK'
  <2>1. pending' = {} /\ Cardinality(pending') <= 1
    BY <1>37, FS_EmptySet DEF Catch
  <2> QED
    BY <1>37, <2>1 DEF Catch, pData, unit, locks, flags, past, TypeOK
<1>38. ASSUME NEW s \in Signals, RecordCode(s) PROVE TypeOK'
  <2>1. s[1] \in Units /\ s[2] \in 1..MaxForks
    BY DEF Signals
  <2>2. proc' \in [Units -> [1..MaxForks -> {"none", "alive", "zombie", "reaped"}]]
    BY <1>38, <2>1 DEF RecordCode, Reap, TypeOK
  <2> QED
    BY <1>38, <2>1, <2>2 DEF TypeOK, RecordCode, unit, locks, flags, past
<1>39. ASSUME NEW s \in Signals, Record(s) PROVE TypeOK'
  <2>1. s[1] \in Units
    BY DEF Signals
  <2>2. /\ storing' \subseteq Signals
        /\ finalStatus' = [finalStatus EXCEPT ![s[1]] = "failure"]
        /\ pState' = [pState EXCEPT ![s[1]] = IF s[3] = "exit" THEN "exited" ELSE "killed"]
        /\ recorded' = [recorded EXCEPT ![s[1]] = @ + 1]
    BY <1>39 DEF Record, TypeOK
  <2>3. finalStatus' \in [Units -> Finals] /\ pState' \in [Units -> PStates]
    BY <2>1, <2>2 DEF TypeOK, Finals, PStates
  <2>4. recorded' \in [Units -> Nat]
    BY <2>1, <2>2 DEF TypeOK
  <2> QED
    BY <1>39, <1>d, <2>2, <2>3, <2>4 DEF TypeOK, Record, os, unit, locks, flags
<1>40. ASSUME NEW s \in Signals, RecordNothing(s) PROVE TypeOK'
  BY <1>40 DEF RecordNothing, pData, os, unit, locks, flags, past, TypeOK
<1>41. CASE Clean
  BY <1>41 DEF Clean, pData, handler, unit, locks, flags, past, TypeOK
<1>42. CASE ListenSocket
  BY <1>42 DEF ListenSocket, pData, os, handler, unit, locks, past, TypeOK
<1>43. CASE Shutdown
  BY <1>43 DEF Shutdown, pData, os, handler, unit, locks, past, TypeOK
<1>44. CASE UNCHANGED vars
  BY <1>44 DEF vars, pData, os, handler, unit, locks, flags, past, TypeOK
<1> QED
  BY Steps, <1>1, <1>2, <1>3, <1>4, <1>5, <1>6, <1>7, <1>8, <1>9, <1>10, <1>11, <1>12, <1>13,
     <1>14, <1>15, <1>16, <1>17, <1>18, <1>19, <1>20, <1>21, <1>22, <1>23, <1>24, <1>25,
     <1>26, <1>27, <1>28, <1>29, <1>30, <1>31, <1>32, <1>33, <1>34, <1>35, <1>36, <1>37,
     <1>38, <1>39, <1>40, <1>41, <1>42, <1>43, <1>44
    DEF Starter, Listener, Manager, Handler

-----------------------------------------------------------------------------
(* Every initial state satisfies the invariant.                            *)
LEMMA Initially == Init => IInv
<1> SUFFICES ASSUME Init PROVE IInv
  OBVIOUS
<1>1. \A u \in Units : policy[u].forks \in 0..MaxForks /\ policy[u].max \in Nat \cup {-1}
  BY SuperviseAssumption DEF Init, PolicyType
<1>2. MaxForks \in Nat \ {0} /\ ShowMax \in Nat \ {0}
  BY SuperviseAssumption
<1>3. <<>> \in Seq({"death", "exit"}) /\ <<>> \in Shapes /\ <<>> \in Early /\ <<>> \notin Deadly
  BY DeadlyShapes DEF Shapes, Early
<1>4. TypeOK
  <2>1. Cardinality(pending) <= 1
    BY FS_EmptySet DEF Init
  <2>2. /\ policy \in Setups /\ pending \subseteq Signals /\ handling \subseteq Signals
        /\ storing \subseteq Signals /\ pipe \in [Units -> Seq({"death", "exit"})]
        /\ listening \in BOOLEAN /\ shutdown \in BOOLEAN /\ merged \subseteq Units \X (1..MaxForks)
    BY <1>3 DEF Init
  <2>3. /\ proc \in [Units -> [1..MaxForks -> {"none", "alive", "zombie", "reaped"}]]
        /\ forks \in [Units -> 0..MaxForks] /\ pid \in [Units -> 0..MaxForks]
        /\ restartNum \in [Units -> Nat] /\ history \in [Units -> 0..ShowMax]
        /\ recorded \in [Units -> Nat] /\ died \in [Units -> 0..MaxForks]
        /\ crashed \in [Units -> 0..MaxForks] /\ handled \in [Units -> 0..MaxForks]
    BY <1>2 DEF Init
  <2>4. /\ pState \in [Units -> PStates] /\ finalStatus \in [Units -> Finals]
        /\ failureCode \in [Units -> Codes] /\ starter \in [Units -> Starters]
        /\ listener \in [Units -> Listeners]
    BY DEF Init, PStates, Finals, Codes, Starters, Listeners
  <2>5. manager \in [Units -> Managers]
    BY DEF Init, Managers
  <2>6. /\ coded \in [Units -> BOOLEAN] /\ errors \in [Units -> BOOLEAN]
        /\ isStopping \in [Units -> BOOLEAN]
        /\ unitLock \in [Units -> BOOLEAN] /\ pipeLock \in [Units -> BOOLEAN]
    BY DEF Init
  <2> QED
    BY <2>1, <2>2, <2>3, <2>4, <2>5, <2>6 DEF TypeOK
<1>5. Handover
  BY <1>1 DEF Init, Handover, HandoverOf, Stopping, Closing
<1>6. Processes
  <2> SUFFICES ASSUME NEW u \in Units PROVE ProcessesOf(u)
    BY DEF Processes
  <2>1. /\ forks[u] = 0 /\ pid[u] = 0 /\ pState[u] = "dead" /\ ~coded[u] /\ starter[u] = "off"
        /\ listener[u] = "none" /\ manager[u] \in {"new", "stopped"}
        /\ \A n \in 1..MaxForks : proc[u][n] = "none"
    BY DEF Init
  <2> QED
    BY <1>1, <1>2, <2>1 DEF ProcessesOf, Fresh, Alive, Restarting, InHand
<1>7. OneNotice
  <2>1. Notices = {} /\ SignalsApart
    BY DEF Init, Notices, SignalsApart
  <2>2. pipe \in [Units -> Shapes]
    BY <1>3 DEF Init
  <2>3. ASSUME NEW u \in Units PROVE NoticesOf(u)
    BY <1>3, <2>1 DEF Init, NoticesOf, HasDeath, Noticed
  <2> QED
    BY <2>1, <2>2, <2>3 DEF OneNotice
<1>8. Counts
  BY <1>3 DEF Init, Counts, CountsOf, HasDeath, InHand
<1>9. RestartsBounded
  BY <1>1, <1>2 DEF Init, RestartsBounded
<1>10. Tells
  BY DEF Init, Tells, TellsOf, StopsOf, RunningOf, ExitsOf, Untold, Notices, Stopping
<1> QED
  BY <1>4, <1>5, <1>6, <1>7, <1>8, <1>9, <1>10 DEF IInv

(* Every step preserves it.                                                *)
LEMMA Inductive == IInv /\ [Next]_vars => IInv'
<1> SUFFICES ASSUME IInv, [Next]_vars PROVE IInv'
  OBVIOUS
<1>1. /\ ThreadTypes /\ DataTypes /\ CountTypes /\ Notices \subseteq Signals
      /\ Handover /\ Processes /\ OneNotice /\ Counts /\ RestartsBounded /\ Tells /\ TellTypes
  BY TypesParts DEF IInv
<1>2. TypeOK'
  BY TypeStep
<1>3. Handover'
  BY <1>1, HandoverStep
<1>4. Processes'
  BY <1>1, ProcessesStep
<1>5. OneNotice'
  BY <1>1, SignalsStep, PipesStep, NoticesStep DEF OneNotice
<1>6. Counts'
  BY <1>1, CountsStep
<1>7. RestartsBounded'
  BY <1>1, BoundedStep
<1>8. Tells'
  BY <1>1, TellsStep
<1> QED
  BY <1>2, <1>3, <1>4, <1>5, <1>6, <1>7, <1>8 DEF IInv

(* In every reachable state the threads of a unit hand it over to each     *)
(* other, the pid names its last process or none, and the news of a death  *)
(* are in one place (process.c:547-744, signals.c:26-104).                 *)
THEOREM Invariance == Spec => []IInv
BY Initially, Inductive, PTL DEF Spec

(* Every variable has its type.  Four parts of it are more than types: the *)
(* forks stay within the policy, one SIGCHLD at most is pending, the       *)
(* history never grows past SHOW_MAX_RESULTS, and the pipe holds words.    *)
THEOREM Typing == Spec => []TypeOK
<1>1. IInv => TypeOK
  BY DEF IInv
<1> QED
  BY <1>1, Invariance, PTL

(* No daemon ever has two processes, whatever the threads and the handler  *)
(* do at the same time: it is forked again only when the process before    *)
(* has ended (process.c:577-606, commands.c:93-125).                       *)
THEOREM NoSecondProcess == Spec => []OneProcess
<1>1. IInv => OneProcess
  <2> SUFFICES ASSUME IInv, NEW u \in Units
               PROVE  Cardinality({n \in 1..MaxForks : proc[u][n] = "alive"}) <= 1
    BY DEF OneProcess
  <2> DEFINE living == {n \in 1..MaxForks : proc[u][n] = "alive"}
  <2>1. forks[u] \in Nat
    BY SuperviseAssumption DEF IInv, TypeOK
  <2>2. \A n \in 1..MaxForks : proc[u][n] = "alive" => n = forks[u]
    <3> SUFFICES ASSUME NEW n \in 1..MaxForks, n # forks[u]
                 PROVE  proc[u][n] # "alive"
      OBVIOUS
    <3>1. n < forks[u] \/ n > forks[u]
      BY <2>1
    <3> QED
      BY <3>1 DEF IInv, Processes, ProcessesOf
  <2>3. living = {} \/ living = {forks[u]}
    BY <2>2
  <2> HIDE DEF living
  <2>4. Cardinality(living) <= 1
    <3>1. CASE living = {}
      BY <3>1, FS_EmptySet
    <3>2. CASE living = {forks[u]}
      <4>1. Cardinality({forks[u]}) = 1
        BY FS_Singleton
      <4> QED
        BY <3>2, <4>1
    <3> QED
      BY <2>3, <3>1, <3>2
  <2> QED
    BY <2>4 DEF living
<1> QED
  BY <1>1, Invariance, PTL

(* A unit that has been stopped stays down (process.c:706-744,             *)
(* socket_server.c:469-499, init.c:211-212): no thread of it is left, and  *)
(* the only process that could be alive is one that is shown as running.   *)
THEOREM StoppedStaysDown == Spec => []StoppedIsDown
<1>1. IInv => StoppedIsDown
  <2> SUFFICES ASSUME IInv, NEW u \in Units, manager[u] = "stopped", pState[u] # "running"
               PROVE  /\ \A n \in 1..MaxForks : proc[u][n] # "alive"
                      /\ starter[u] = "off" /\ listener[u] \in {"none", "gone"}
    BY DEF StoppedIsDown
  <2>1. starter[u] = "off" /\ listener[u] \in {"none", "gone"}
    BY Alone, TypesParts DEF IInv, Closing
  <2>2. ~Alive(u)
    BY <2>1 DEF IInv, Processes, ProcessesOf
  <2>3. ASSUME NEW n \in 1..MaxForks PROVE proc[u][n] # "alive"
    <3>1. forks[u] \in Nat /\ (n < forks[u] \/ n > forks[u] \/ n = forks[u])
      BY SuperviseAssumption DEF IInv, TypeOK
    <3> QED
      BY <2>2, <3>1 DEF IInv, Processes, ProcessesOf, Alive
  <2> QED
    BY <2>1, <2>3
<1> QED
  BY <1>1, Invariance, PTL

(* The deaths in a pipe, counted. *)
LEMMA DeathsCounted ==
  ASSUME pipe \in [Units -> Shapes], NEW u \in Units
  PROVE  Deaths(u) = IF HasDeath(u) THEN 1 ELSE 0
<1> DEFINE at == {i \in DOMAIN pipe[u] : pipe[u][i] = "death"}
<1>1. CASE pipe[u] = <<>>
  <2>1. at = {} /\ ~HasDeath(u)
    BY <1>1, DeadlyShapes DEF HasDeath
  <2> QED
    BY <2>1, FS_EmptySet DEF Deaths
<1>2. CASE pipe[u] = <<"exit">>
  <2>1. at = {} /\ ~HasDeath(u)
    BY <1>2, DeadlyShapes DEF HasDeath
  <2> QED
    BY <2>1, FS_EmptySet DEF Deaths
<1>3. CASE pipe[u] = <<"death">>
  <2>1. at = {1}
    BY <1>3
  <2>2. HasDeath(u)
    BY <1>3, Zenon DEF HasDeath, Deadly
  <2> QED
    BY <2>1, <2>2, FS_Singleton DEF Deaths
<1>4. CASE pipe[u] = <<"death", "exit">>
  <2>1. at = {1}
    BY <1>4
  <2>2. HasDeath(u)
    BY <1>4, Zenon DEF HasDeath, Deadly
  <2> QED
    BY <2>1, <2>2, FS_Singleton DEF Deaths
<1>5. CASE pipe[u] = <<"exit", "death">>
  <2>1. at = {2}
    BY <1>5
  <2>2. HasDeath(u)
    BY <1>5, Zenon DEF HasDeath, Deadly
  <2> QED
    BY <2>1, <2>2, FS_Singleton DEF Deaths
<1> QED
  BY <1>1, <1>2, <1>3, <1>4, <1>5, Zenon DEF Shapes

(* Every recorded death makes for one restart, no more and no less         *)
(* (signals.c:48-104, process.c:547-606).                                  *)
THEOREM DeathsAreRestarts == Spec => []DeathsAddUp
<1>1. IInv => DeathsAddUp
  <2> SUFFICES ASSUME IInv, NEW u \in Units, HasPipe(u), listener[u] \in {"begin", "read"}
               PROVE  recorded[u] = restartNum[u] + Deaths(u)
    BY DEF DeathsAddUp
  <2>1. Deaths(u) = IF HasDeath(u) THEN 1 ELSE 0
    BY DeathsCounted DEF IInv, OneNotice
  <2>2. recorded[u] = restartNum[u] + (IF HasDeath(u) THEN 1 ELSE 0) + 0
    BY DEF IInv, Counts, CountsOf, InHand
  <2> QED
    BY <2>1, <2>2 DEF IInv, TypeOK
<1> QED
  BY <1>1, Invariance, PTL

(* RestartMax is never exceeded, a daemon without Restart never restarted, *)
(* and the history is as long as it may be (process.c:577-599).            *)
THEOREM RestartsAreBounded == Spec => []RestartsBounded
<1>1. IInv => RestartsBounded
  BY DEF IInv
<1> QED
  BY <1>1, Invariance, PTL

(* Once nothing is on its way, a daemon that only exits and is shown as    *)
(* running with success has a process, although RUNNING is written after   *)
(* the test that nothing has been recorded (commands.c:117-125,            *)
(* process.c:192-197), unless its SIGCHLD was merged with another one.     *)
THEOREM SuccessHasProcess == Spec => []SuccessIsAlive
<1>1. IInv => SuccessIsAlive
  <2> SUFFICES ASSUME IInv, Quiet, ~shutdown, NEW u \in Units,
                      policy[u].ends = {"exit"}, <<u, forks[u]>> \notin merged,
                      finalStatus[u] = "success", pState[u] = "running"
               PROVE  proc[u][pid[u]] = "alive"
    BY DEF SuccessIsAlive
  <2>1. TellsOf(u) /\ starter[u] = "off" /\ manager[u] \in {"serve", "stopped"} /\ ~Noticed(u)
    BY DEF IInv, Tells, Quiet, AtRest, Noticed, Notices
  <2>2. ~isStopping[u]
    BY <2>1 DEF TellsOf, StopsOf, Stopping
  <2>3. Alive(u)
    BY <2>1, <2>2 DEF TellsOf, Untold, Told
  <2> QED
    BY <2>1, <2>3 DEF TellsOf, RunningOf, Alive
<1> QED
  BY <1>1, Invariance, PTL

=============================================================================
