------------------------- MODULE UnitTriggerProofs -------------------------
(***************************************************************************)
(* The safety properties of UnitTrigger, for every interval, every set of  *)
(* triggers and requests, and every number of changes, boots and losses of *)
(* power.                                                                  *)
(***************************************************************************)
EXTENDS UnitTrigger, FiniteSetTheorems, SequenceTheorems, TLAPS

(* TypeOK, in four parts.                                                  *)
ClockTypes ==
  /\ setup \in Setups
  /\ now \in 0..setup.time /\ ticked \in BOOLEAN
  /\ listening \in BOOLEAN /\ shutdown \in BOOLEAN
  /\ boots \in 1..setup.boots /\ requests \in 0..setup.requests
  /\ changes \in 0..setup.changes

ThreadTypes ==
  /\ main \in [at : Mains, unit : Units, reset : BOOLEAN,
              kind : {"stop", "start", "restart", "shutdown"}]
  /\ startMutex \in {"free", "main"} \cup Units
  /\ present \in [Units -> BOOLEAN]
  /\ state \in [Units -> {"dead", "running", "restarting"}]
  /\ at \in [Units -> Threads]
  /\ pipeMutex \in [Units -> BOOLEAN] /\ unitMutex \in BOOLEAN
  /\ late \in [Units -> BOOLEAN]

TimerTypes ==
  /\ looping \in BOOLEAN
  /\ nextTime \in Int /\ leftTime \in Int /\ deadline \in Nat \cup {None}
  /\ expiring \in Nat /\ disk \subseteq Nat /\ owed \subseteq Nat

EventTypes ==
  /\ pipe \in [Units -> Seq({"expired", "exit"})]
  /\ exists \in BOOLEAN /\ queue \in Seq(Events) /\ buffer \in Seq(Events)
  /\ unserved \in BOOLEAN

(* Where the threads are and what they have: a thread keeps the mutex of   *)
(* its pipe from its first step to its last, a unit is taken out of the    *)
(* array and made anew without a thread only, and only timers are reset.   *)
ThreadOf(u) ==
  /\ pipeMutex[u] <=> at[u] \notin {"none", "lock"}
  /\ ~present[u] => at[u] = "none"
  /\ main.at = "down" => ~present[u]

Placing ==
  /\ \A u \in Units : ThreadOf(u)
  /\ main.at = "create" => ~present[main.unit]
  /\ main.reset => main.unit = "timer"

(* A thread that can still act for a unit which has been stopped is one    *)
(* that had not begun when the unit was stopped.                           *)
Quieting ==
  /\ \A u \in Units : state[u] = "dead" => at[u] = "none" \/ late[u]
  /\ main.at = "dead" => at[main.unit] = "none" \/ late[main.unit]

(* Between the end of an execution and the file of the next time nothing   *)
(* is owed, and otherwise what is owed is on disk.                         *)
Saving ==
  /\ disk = {} \/ \E time \in disk : disk = {time}
  /\ owed \subseteq disk
  /\ at["timer"] \in {"rearm", "next", "left", "clear", "touch"} => owed = {}
  /\ at["timer"] \in {"left", "clear", "touch"} => nextTime \in Nat

(* The timer is armed only while its thread waits, for the time on disk,   *)
(* and after no less time than was left of it.                             *)
Arming ==
  /\ deadline # None => at["timer"] \in {"read", "out"}
  /\ at["timer"] = "left" => nextTime = now + Interval \/ (ticked /\ nextTime = now + Interval - 1)
  /\ at["timer"] \in {"clear", "touch", "arm"} =>
       /\ now + leftTime >= nextTime
       /\ Interval > 1 => leftTime > 0
  /\ at["timer"] = "arm" /\ ~shutdown => disk = {nextTime}

(* When the thread of the timer waits something is to come for it, for all *)
(* intervals but that of one second.                                       *)
Awaiting == Interval > 1 => NeverAsleep

(* A change that is not served is still to be executed for, or is in front *)
(* of the thread.                                                          *)
HitIn(events) == \E i \in DOMAIN events : Hits(events[i])

Serving ==
  /\ unserved => Alive("path")
  /\ unserved /\ setup.level => exists
  /\ at["path"] = "scan" => buffer # <<>>
  /\ unserved /\ ~shutdown => \/ at["path"] \in {"execute", "start"}
                              \/ HitIn(queue)
                              \/ at["path"] = "scan" /\ HitIn(buffer)

IInv == /\ TypeOK /\ Placing /\ Quieting /\ Saving /\ Arming /\ ArmedIsSaved
        /\ Awaiting /\ Serving
-----------------------------------------------------------------------------
(* The cases of Next, named once for every part of the invariant.          *)
LEMMA Steps ==
  ASSUME [Next]_vars
  PROVE  \/ \E u \in Units : Begin(u) \/ WaitSystem(u) \/ AlreadyRunning(u) \/ GoingDown(u) \/ Execute(u) \/
              StartUnit(u) \/ Started(u) \/ Out(u) \/ ReadExit(u) \/
              Request(u) \/ Create(u) \/ StopAtShutdown(u)
         \/ FromDisk \/ NothingOnDisk \/ Rearm \/ NextTime \/ LeftTime
         \/ RemoveFile \/ MakeFile \/ SaveFails \/ Arm
         \/ ReadExpired \/ Mark \/ Expire \/ Expired \/ ReadEvents
         \/ NoHit \/ Hit \/ ListenSocket \/ LockStart \/ Refuse \/ StopFirst
         \/ RemoveDead \/ Close \/ Closed \/ StopKeeps \/ StopRemoves
         \/ Tick \/ Shutdown \/ Change \/ Halt \/ Boot
         \/ UNCHANGED vars
  BY DEF Next, Thread, Timer, PathUnit, Main, ExpiredAborts, RemoveTooSoon, Finish, PowerLoss,
    Idle

(* What of the types the lemmas below need. *)
LEMMA Kinds ==
  ASSUME TypeOK
  PROVE  /\ "timer" \in Units /\ "path" \in Units
         /\ main \in [at : Mains, unit : Units, reset : BOOLEAN,
                      kind : {"stop", "start", "restart", "shutdown"}]
         /\ at \in [Units -> Threads] /\ pipeMutex \in [Units -> BOOLEAN]
         /\ present \in [Units -> BOOLEAN] /\ late \in [Units -> BOOLEAN]
         /\ state \in [Units -> {"dead", "running", "restarting"}]
  BY DEF TypeOK, Units

LEMMA Times ==
  ASSUME TypeOK
  PROVE  /\ now \in Nat /\ ticked \in BOOLEAN /\ Interval \in Nat \ {0}
         /\ nextTime \in Int /\ leftTime \in Int /\ deadline \in Nat \cup {None}
         /\ expiring \in Nat /\ disk \subseteq Nat /\ owed \subseteq Nat
         /\ shutdown \in BOOLEAN /\ at \in [Units -> Threads]
         /\ pipe \in [Units -> Seq({"expired", "exit"})]
         /\ "timer" \in Units /\ "path" \in Units
<1>1. now \in Nat
  BY TriggerAssumption DEF TypeOK, SetupType
<1> QED
  BY <1>1, TriggerAssumption DEF TypeOK, Units

(* A pipe or a queue to which something has been written is not empty.     *)
LEMMA Appended ==
  ASSUME NEW S, NEW s \in Seq(S), NEW e \in S
  PROVE  Append(s, e) # <<>>
BY AppendProperties

(* What is in a sequence of events when one is added, and when the first is*)
(* taken away.                                                             *)
LEMMA Added ==
  ASSUME NEW S, NEW s \in Seq(S), NEW e \in S
  PROVE  /\ \E i \in DOMAIN Append(s, e) : Append(s, e)[i] = e
         /\ \A i \in DOMAIN s : i \in DOMAIN Append(s, e) /\ Append(s, e)[i] = s[i]
<1>1. /\ Len(s) \in Nat /\ DOMAIN s = 1..Len(s) /\ Append(s, e)[Len(s) + 1] = e
      /\ DOMAIN Append(s, e) = 1..(Len(s) + 1)
      /\ \A i \in 1..Len(s) : Append(s, e)[i] = s[i]
  BY AppendProperties, LenProperties
<1> QED
  BY <1>1

LEMMA TakenAway ==
  ASSUME NEW S, NEW s \in Seq(S), s # <<>>, NEW i \in DOMAIN s
  PROVE  /\ Tail(s) \in Seq(S) /\ Head(s) = s[1]
         /\ i # 1 => i - 1 \in DOMAIN Tail(s) /\ Tail(s)[i - 1] = s[i]
<1>1. /\ Tail(s) \in Seq(S) /\ Head(s) = s[1] /\ Len(s) \in Nat /\ Len(Tail(s)) = Len(s) - 1
      /\ \A j \in 1..(Len(s) - 1) : Tail(s)[j] = s[j + 1]
      /\ DOMAIN s = 1..Len(s) /\ DOMAIN Tail(s) = 1..Len(Tail(s))
  BY HeadTailProperties, LenProperties
<1>2. i \in 1..Len(s)
  BY <1>1
<1>3. CASE i # 1
  <2>1. i - 1 \in 1..(Len(s) - 1)
    BY <1>1, <1>2, <1>3
  <2> QED
    BY <1>1, <2>1
<1> QED
  BY <1>1, <1>3

(* Placing is preserved. *)
LEMMA PlacingStep ==
  ASSUME TypeOK, Placing, [Next]_vars
  PROVE  Placing'
<1> USE Kinds DEF Placing, ThreadOf
<1>1. ASSUME NEW u \in Units, Begin(u) PROVE Placing'
  BY <1>1 DEF Begin, Goto, units
<1>2. ASSUME NEW u \in Units, WaitSystem(u) PROVE Placing'
  BY <1>2 DEF WaitSystem, Goto, units, locks
<1>3. ASSUME NEW u \in Units, AlreadyRunning(u) PROVE Placing'
  BY <1>3 DEF AlreadyRunning, AfterServed, Running, Goto, locks
<1>4. ASSUME NEW u \in Units, GoingDown(u) PROVE Placing'
  BY <1>4 DEF GoingDown, AfterSkipped, Running, Goto, locks
<1>5. ASSUME NEW u \in Units, Execute(u) PROVE Placing'
  BY <1>5 DEF Execute, Goto, units, locks
<1>6. ASSUME NEW u \in Units, StartUnit(u) PROVE Placing'
  BY <1>6 DEF StartUnit, Goto, units, locks
<1>7. ASSUME NEW u \in Units, Started(u) PROVE Placing'
  BY <1>7 DEF Started, AfterServed, Running, Goto, locks
<1>8. ASSUME NEW u \in Units, Out(u) PROVE Placing'
  BY <1>8 DEF Out, Goto, units
<1>9. ASSUME NEW u \in Units, ReadExit(u) PROVE Placing'
  BY <1>9 DEF ReadExit, Goto, locks
<1>10. CASE FromDisk
  BY <1>10 DEF FromDisk, TimerStep, Goto
<1>11. CASE NothingOnDisk
  BY <1>11 DEF NothingOnDisk, TimerStep, Goto
<1>12. CASE Rearm
  BY <1>12 DEF Rearm, TimerStep, Goto
<1>13. CASE NextTime
  BY <1>13 DEF NextTime, TimerStep, Goto
<1>14. CASE LeftTime
  BY <1>14 DEF LeftTime, TimerStep, Goto
<1>15. CASE RemoveFile
  BY <1>15 DEF RemoveFile, TimerStep, Goto
<1>16. CASE MakeFile
  BY <1>16 DEF MakeFile, TimerStep, Goto
<1>17. CASE SaveFails
  BY <1>17 DEF SaveFails, TimerStep, Goto
<1>18. CASE Arm
  BY <1>18 DEF Arm, TimerStep, Goto
<1>19. CASE ReadExpired
  BY <1>19 DEF ReadExpired, TimerStep, Goto
<1>20. CASE Mark
  BY <1>20 DEF Mark, TimerStep, Goto
<1>21. CASE Expire
  BY <1>21 DEF Expire, units, locks
<1>22. CASE Expired
  BY <1>22 DEF Expired, locks
<1>23. CASE ReadEvents
  BY <1>23 DEF ReadEvents, Goto, units, locks
<1>24. CASE NoHit
  BY <1>24 DEF NoHit, units, locks
<1>25. CASE Hit
  BY <1>25 DEF Hit, Goto, locks
<1>26. ASSUME NEW u \in Units, Request(u) PROVE Placing'
  BY <1>26 DEF Request, units, locks
<1>27. ASSUME NEW u \in Units, Create(u) PROVE Placing'
  BY <1>27 DEF Create, MainStep, locks
<1>28. ASSUME NEW u \in Units, StopAtShutdown(u) PROVE Placing'
  BY <1>28 DEF StopAtShutdown, units, locks
<1>29. CASE ListenSocket
  BY <1>29 DEF ListenSocket, MainStep, units, locks
<1>30. CASE LockStart
  BY <1>30 DEF LockStart, MainStep, units, locks
<1>31. CASE Refuse
  BY <1>31 DEF Refuse, MainStep, units, locks
<1>32. CASE StopFirst
  BY <1>32 DEF StopFirst, MainStep, units, locks
<1>33. CASE RemoveDead
  BY <1>33 DEF RemoveDead, Remove, MainStep, locks
<1>34. CASE Close
  BY <1>34 DEF Close, MainStep, locks
<1>35. CASE Closed
  BY <1>35 DEF Closed, ClosedTo, MainStep, units, locks
<1>36. CASE StopKeeps
  BY <1>36 DEF StopKeeps, MainStep, locks
<1>37. CASE StopRemoves
  BY <1>37 DEF StopRemoves, Remove, MainStep, locks
<1>38. CASE Tick
  BY <1>38 DEF Tick, units, locks
<1>39. CASE Shutdown
  BY <1>39 DEF Shutdown, units, locks
<1>40. CASE Change
  BY <1>40 DEF Change, units, locks
<1>41. CASE Halt
  BY <1>41 DEF Halt, NoRequest
<1>42. CASE Boot
  BY <1>42 DEF Boot, NoRequest, locks
<1>43. CASE UNCHANGED vars
  BY <1>43 DEF vars, units, locks
<1> QED
  BY Steps, <1>1, <1>2, <1>3, <1>4, <1>5, <1>6, <1>7, <1>8, <1>9, <1>10, <1>11, <1>12, <1>13,
    <1>14, <1>15, <1>16, <1>17, <1>18, <1>19, <1>20, <1>21, <1>22, <1>23, <1>24, <1>25, <1>26,
    <1>27, <1>28, <1>29, <1>30, <1>31, <1>32, <1>33, <1>34, <1>35, <1>36, <1>37, <1>38, <1>39,
    <1>40, <1>41, <1>42, <1>43

(* Quieting is preserved. *)
LEMMA QuietingStep ==
  ASSUME TypeOK, Placing, Quieting, [Next]_vars
  PROVE  Quieting'
<1> USE Kinds DEF Placing, ThreadOf, Quieting
<1>1. ASSUME NEW u \in Units, Begin(u) PROVE Quieting'
  BY <1>1 DEF Begin, Goto, units, past
<1>2. ASSUME NEW u \in Units, WaitSystem(u) PROVE Quieting'
  BY <1>2 DEF WaitSystem, Goto, units, past
<1>3. ASSUME NEW u \in Units, AlreadyRunning(u) PROVE Quieting'
  BY <1>3 DEF AlreadyRunning, AfterServed, Running, Goto
<1>4. ASSUME NEW u \in Units, GoingDown(u) PROVE Quieting'
  BY <1>4 DEF GoingDown, AfterSkipped, Running, Goto, past
<1>5. ASSUME NEW u \in Units, Execute(u) PROVE Quieting'
  BY <1>5 DEF Execute, Goto, units, past
<1>6. ASSUME NEW u \in Units, StartUnit(u) PROVE Quieting'
  BY <1>6 DEF StartUnit, Goto, units
<1>7. ASSUME NEW u \in Units, Started(u) PROVE Quieting'
  BY <1>7 DEF Started, AfterServed, Running, Goto
<1>8. ASSUME NEW u \in Units, Out(u) PROVE Quieting'
  BY <1>8 DEF Out, Goto, units, past
<1>9. ASSUME NEW u \in Units, ReadExit(u) PROVE Quieting'
  BY <1>9 DEF ReadExit, Goto, past
<1>10. CASE FromDisk
  BY <1>10 DEF FromDisk, TimerStep, Goto
<1>11. CASE NothingOnDisk
  BY <1>11 DEF NothingOnDisk, TimerStep, Goto
<1>12. CASE Rearm
  BY <1>12 DEF Rearm, TimerStep, Goto
<1>13. CASE NextTime
  BY <1>13 DEF NextTime, TimerStep, Goto
<1>14. CASE LeftTime
  BY <1>14 DEF LeftTime, TimerStep, Goto
<1>15. CASE RemoveFile
  BY <1>15 DEF RemoveFile, TimerStep, Goto
<1>16. CASE MakeFile
  BY <1>16 DEF MakeFile, TimerStep, Goto
<1>17. CASE SaveFails
  BY <1>17 DEF SaveFails, TimerStep, Goto
<1>18. CASE Arm
  BY <1>18 DEF Arm, TimerStep, Goto
<1>19. CASE ReadExpired
  BY <1>19 DEF ReadExpired, TimerStep, Goto
<1>20. CASE Mark
  BY <1>20 DEF Mark, TimerStep, Goto
<1>21. CASE Expire
  BY <1>21 DEF Expire, units, past
<1>22. CASE Expired
  BY <1>22 DEF Expired, past
<1>23. CASE ReadEvents
  BY <1>23 DEF ReadEvents, Goto, units, past
<1>24. CASE NoHit
  BY <1>24 DEF NoHit, units, past
<1>25. CASE Hit
  BY <1>25 DEF Hit, Goto, past
<1>26. ASSUME NEW u \in Units, Request(u) PROVE Quieting'
  BY <1>26 DEF Request, units, past
<1>27. ASSUME NEW u \in Units, Create(u) PROVE Quieting'
  BY <1>27 DEF Create, MainStep
<1>28. ASSUME NEW u \in Units, StopAtShutdown(u) PROVE Quieting'
  BY <1>28 DEF StopAtShutdown, units, past
<1>29. CASE ListenSocket
  BY <1>29 DEF ListenSocket, MainStep, units, past
<1>30. CASE LockStart
  BY <1>30 DEF LockStart, MainStep, units, past
<1>31. CASE Refuse
  BY <1>31 DEF Refuse, MainStep, units, past
<1>32. CASE StopFirst
  BY <1>32 DEF StopFirst, MainStep, units, past
<1>33. CASE RemoveDead
  BY <1>33 DEF RemoveDead, Remove, MainStep, past
<1>34. CASE Close
  BY <1>34 DEF Close, MainStep, past
<1>35. CASE Closed
  BY <1>35 DEF Closed, ClosedTo, MainStep, units
<1>36. CASE StopKeeps
  BY <1>36 DEF StopKeeps, DeadState, MainStep
<1>37. CASE StopRemoves
  BY <1>37 DEF StopRemoves, DeadState, Remove, MainStep
<1>38. CASE Tick
  BY <1>38 DEF Tick, units, past
<1>39. CASE Shutdown
  BY <1>39 DEF Shutdown, units, past
<1>40. CASE Change
  BY <1>40 DEF Change, units
<1>41. CASE Halt
  BY <1>41 DEF Halt, NoRequest
<1>42. CASE Boot
  BY <1>42 DEF Boot, NoRequest, past
<1>43. CASE UNCHANGED vars
  BY <1>43 DEF vars, units, past
<1> QED
  BY Steps, <1>1, <1>2, <1>3, <1>4, <1>5, <1>6, <1>7, <1>8, <1>9, <1>10, <1>11, <1>12, <1>13,
    <1>14, <1>15, <1>16, <1>17, <1>18, <1>19, <1>20, <1>21, <1>22, <1>23, <1>24, <1>25, <1>26,
    <1>27, <1>28, <1>29, <1>30, <1>31, <1>32, <1>33, <1>34, <1>35, <1>36, <1>37, <1>38, <1>39,
    <1>40, <1>41, <1>42, <1>43

(* Saving is preserved. *)
LEMMA SavingStep ==
  ASSUME TypeOK, Placing, Saving, [Next]_vars
  PROVE  Saving'
<1> USE Times DEF Saving
<1>1. ASSUME NEW u \in Units, Begin(u) PROVE Saving'
  BY <1>1 DEF Begin, Goto, clock, timer, past
<1>2. ASSUME NEW u \in Units, WaitSystem(u) PROVE Saving'
  BY <1>2 DEF WaitSystem, Goto, clock, timer, past
<1>3. ASSUME NEW u \in Units, AlreadyRunning(u) PROVE Saving'
  BY <1>3 DEF AlreadyRunning, AfterServed, Goto, clock, timer
<1>4. ASSUME NEW u \in Units, GoingDown(u) PROVE Saving'
  BY <1>4 DEF GoingDown, AfterSkipped, Goto, clock, timer, past
<1>5. ASSUME NEW u \in Units, Execute(u) PROVE Saving'
  BY <1>5 DEF Execute, Goto, clock, timer, past
<1>6. ASSUME NEW u \in Units, StartUnit(u) PROVE Saving'
  BY <1>6 DEF StartUnit, Goto, clock, timer
<1>7. ASSUME NEW u \in Units, Started(u) PROVE Saving'
  BY <1>7 DEF Started, AfterServed, Goto, clock, timer
<1>8. ASSUME NEW u \in Units, Out(u) PROVE Saving'
  BY <1>8 DEF Out, Goto, clock, past
<1>9. ASSUME NEW u \in Units, ReadExit(u) PROVE Saving'
  BY <1>9 DEF ReadExit, Goto, clock, timer, past
<1>10. CASE FromDisk
  BY <1>10 DEF FromDisk, TimerStep, Goto, clock
<1>11. CASE NothingOnDisk
  <2>1. disk = {}
    <3>1. \A time : Cardinality({time}) = 1
      BY FS_Singleton
    <3> QED
      BY <1>11, <3>1 DEF NothingOnDisk
  <2> QED
    BY <1>11, <2>1 DEF NothingOnDisk, TimerStep, Goto, clock, timer
<1>12. CASE Rearm
  BY <1>12 DEF Rearm, TimerStep, Goto, clock, timer
<1>13. CASE NextTime
  BY <1>13 DEF NextTime, TimerStep, Goto
<1>14. CASE LeftTime
  BY <1>14 DEF LeftTime, TimerStep, Goto, clock
<1>15. CASE RemoveFile
  BY <1>15 DEF RemoveFile, TimerStep, Goto, clock
<1>16. CASE MakeFile
  BY <1>16 DEF MakeFile, TimerStep, Goto, clock
<1>17. CASE SaveFails
  BY <1>17 DEF SaveFails, TimerStep, Goto, clock, timer
<1>18. CASE Arm
  BY <1>18 DEF Arm, TimerStep, Goto, clock
<1>19. CASE ReadExpired
  BY <1>19 DEF ReadExpired, TimerStep, Goto, clock
<1>20. CASE Mark
  BY <1>20 DEF Mark, TimerStep, Goto, clock, timer
<1>21. CASE Expire
  BY <1>21 DEF Expire, clock, past
<1>22. CASE Expired
  BY <1>22 DEF Expired, clock, past
<1>23. CASE ReadEvents
  BY <1>23 DEF ReadEvents, Goto, clock, timer, past
<1>24. CASE NoHit
  BY <1>24 DEF NoHit, clock, timer, past
<1>25. CASE Hit
  BY <1>25 DEF Hit, Goto, clock, timer, past
<1>26. ASSUME NEW u \in Units, Request(u) PROVE Saving'
  BY <1>26 DEF Request, clock, timer, past
<1>27. ASSUME NEW u \in Units, Create(u) PROVE Saving'
  BY <1>27 DEF Create, MainStep, clock
<1>28. ASSUME NEW u \in Units, StopAtShutdown(u) PROVE Saving'
  BY <1>28 DEF StopAtShutdown, clock, timer, past
<1>29. CASE ListenSocket
  BY <1>29 DEF ListenSocket, MainStep, clock, timer, past
<1>30. CASE LockStart
  BY <1>30 DEF LockStart, MainStep, clock, timer, past
<1>31. CASE Refuse
  BY <1>31 DEF Refuse, MainStep, clock, timer, past
<1>32. CASE StopFirst
  BY <1>32 DEF StopFirst, MainStep, clock, timer, past
<1>33. CASE RemoveDead
  BY <1>33 DEF RemoveDead, MainStep, clock, timer, past
<1>34. CASE Close
  BY <1>34 DEF Close, MainStep, clock, timer, past
<1>35. CASE Closed
  BY <1>35 DEF Closed, ClosedTo, MainStep, clock, timer
<1>36. CASE StopKeeps
  BY <1>36 DEF StopKeeps, MainStep, clock, timer
<1>37. CASE StopRemoves
  BY <1>37 DEF StopRemoves, MainStep, clock, timer
<1>38. CASE Tick
  BY <1>38 DEF Tick, timer, past
<1>39. CASE Shutdown
  BY <1>39 DEF Shutdown, clock, timer, past
<1>40. CASE Change
  BY <1>40 DEF Change, clock, timer
<1>41. CASE Halt
  BY <1>41 DEF Halt, NoRequest, clock
<1>42. CASE Boot
  BY <1>42 DEF Boot, NoRequest, clock, timer, past
<1>43. CASE UNCHANGED vars
  BY <1>43 DEF vars, clock, timer, past
<1> QED
  BY Steps, <1>1, <1>2, <1>3, <1>4, <1>5, <1>6, <1>7, <1>8, <1>9, <1>10, <1>11, <1>12, <1>13,
    <1>14, <1>15, <1>16, <1>17, <1>18, <1>19, <1>20, <1>21, <1>22, <1>23, <1>24, <1>25, <1>26,
    <1>27, <1>28, <1>29, <1>30, <1>31, <1>32, <1>33, <1>34, <1>35, <1>36, <1>37, <1>38, <1>39,
    <1>40, <1>41, <1>42, <1>43

(* Arming is preserved. *)
LEMMA ArmingStep ==
  ASSUME TypeOK, Placing, Saving, Arming, ArmedIsSaved, [Next]_vars
  PROVE  (Arming /\ ArmedIsSaved)'
<1> USE Times, Kinds DEF Arming, ArmedIsSaved
<1>1. ASSUME NEW u \in Units, Begin(u) PROVE (Arming /\ ArmedIsSaved)'
  BY <1>1 DEF Begin, Goto, clock, flags, timer
<1>2. ASSUME NEW u \in Units, WaitSystem(u) PROVE (Arming /\ ArmedIsSaved)'
  BY <1>2 DEF WaitSystem, Goto, clock, flags, timer
<1>3. ASSUME NEW u \in Units, AlreadyRunning(u) PROVE (Arming /\ ArmedIsSaved)'
  BY <1>3 DEF AlreadyRunning, AfterServed, Goto, clock, flags, timer
<1>4. ASSUME NEW u \in Units, GoingDown(u) PROVE (Arming /\ ArmedIsSaved)'
  BY <1>4 DEF GoingDown, AfterSkipped, Goto, clock, flags, timer
<1>5. ASSUME NEW u \in Units, Execute(u) PROVE (Arming /\ ArmedIsSaved)'
  BY <1>5 DEF Execute, Goto, clock, flags, timer
<1>6. ASSUME NEW u \in Units, StartUnit(u) PROVE (Arming /\ ArmedIsSaved)'
  BY <1>6 DEF StartUnit, Goto, clock, flags, timer
<1>7. ASSUME NEW u \in Units, Started(u) PROVE (Arming /\ ArmedIsSaved)'
  BY <1>7 DEF Started, AfterServed, Goto, clock, flags, timer
<1>8. ASSUME NEW u \in Units, Out(u) PROVE (Arming /\ ArmedIsSaved)'
  BY <1>8 DEF Out, Goto, clock, flags
<1>9. ASSUME NEW u \in Units, ReadExit(u) PROVE (Arming /\ ArmedIsSaved)'
  BY <1>9 DEF ReadExit, Goto, clock, flags, timer
<1>10. CASE FromDisk
  BY <1>10 DEF FromDisk, TimerStep, Goto, clock
<1>11. CASE NothingOnDisk
  BY <1>11 DEF NothingOnDisk, TimerStep, Goto, clock, timer
<1>12. CASE Rearm
  BY <1>12 DEF Rearm, TimerStep, Goto, clock, timer
<1>13. CASE NextTime
  BY <1>13 DEF NextTime, TimerStep, Goto
<1>14. CASE LeftTime
  BY <1>14 DEF LeftTime, Remaining, TimerStep, Goto, clock
<1>15. CASE RemoveFile
  BY <1>15 DEF RemoveFile, TimerStep, Goto, clock
<1>16. CASE MakeFile
  BY <1>16 DEF MakeFile, TimerStep, Goto, clock
<1>17. CASE SaveFails
  BY <1>17 DEF SaveFails, TimerStep, Goto, clock, timer
<1>18. CASE Arm
  BY <1>18 DEF Arm, TimerStep, Goto, clock
<1>19. CASE ReadExpired
  BY <1>19 DEF ReadExpired, TimerStep, Goto, clock
<1>20. CASE Mark
  BY <1>20 DEF Mark, TimerStep, Goto, clock, timer
<1>21. CASE Expire
  BY <1>21 DEF Expire, clock, flags
<1>22. CASE Expired
  BY <1>22 DEF Expired, clock, flags
<1>23. CASE ReadEvents
  BY <1>23 DEF ReadEvents, Goto, clock, flags, timer
<1>24. CASE NoHit
  BY <1>24 DEF NoHit, clock, flags, timer
<1>25. CASE Hit
  BY <1>25 DEF Hit, Goto, clock, flags, timer
<1>26. ASSUME NEW u \in Units, Request(u) PROVE (Arming /\ ArmedIsSaved)'
  BY <1>26 DEF Request, clock, timer
<1>27. ASSUME NEW u \in Units, Create(u) PROVE (Arming /\ ArmedIsSaved)'
  BY <1>27 DEF Create, MainStep, clock, flags, Placing, ThreadOf
<1>28. ASSUME NEW u \in Units, StopAtShutdown(u) PROVE (Arming /\ ArmedIsSaved)'
  BY <1>28 DEF StopAtShutdown, clock, flags, timer
<1>29. CASE ListenSocket
  BY <1>29 DEF ListenSocket, MainStep, clock, timer
<1>30. CASE LockStart
  BY <1>30 DEF LockStart, MainStep, clock, flags, timer
<1>31. CASE Refuse
  BY <1>31 DEF Refuse, MainStep, clock, flags, timer
<1>32. CASE StopFirst
  BY <1>32 DEF StopFirst, MainStep, clock, flags, timer
<1>33. CASE RemoveDead
  BY <1>33 DEF RemoveDead, MainStep, clock, flags, timer
<1>34. CASE Close
  BY <1>34 DEF Close, MainStep, clock, flags, timer
<1>35. CASE Closed
  BY <1>35 DEF Closed, ClosedTo, MainStep, clock, flags, timer
<1>36. CASE StopKeeps
  BY <1>36 DEF StopKeeps, MainStep, clock, flags, timer
<1>37. CASE StopRemoves
  BY <1>37 DEF StopRemoves, MainStep, clock, flags, timer
<1>38. CASE Tick
  <2>1. /\ now' = now + 1 /\ ticked' /\ (at["timer"] = "left" => ~ticked)
        /\ UNCHANGED <<at, nextTime, leftTime, deadline, disk, shutdown>>
    BY <1>38 DEF Tick, timer, flags
  <2>2. at'["timer"] = "left" => nextTime' = now' + Interval - 1
    BY <2>1
  <2>3. at'["timer"] \in {"clear", "touch", "arm"} =>
          now' + leftTime' >= nextTime' /\ (Interval > 1 => leftTime' > 0)
    BY <2>1
  <2>4. deadline' # None => at'["timer"] \in {"read", "out"}
    BY <2>1
  <2>5. ArmedIsSaved'
    BY <2>1
  <2> QED
    BY <2>1, <2>2, <2>3, <2>4, <2>5
<1>39. CASE Shutdown
  BY <1>39 DEF Shutdown, clock, timer
<1>40. CASE Change
  BY <1>40 DEF Change, clock, timer
<1>41. CASE Halt
  BY <1>41 DEF Halt, NoRequest, clock
<1>42. CASE Boot
  BY <1>42 DEF Boot, NoRequest, clock, timer, Placing, ThreadOf
<1>43. CASE UNCHANGED vars
  BY <1>43 DEF vars, clock, flags, timer
<1> QED
  BY Steps, <1>1, <1>2, <1>3, <1>4, <1>5, <1>6, <1>7, <1>8, <1>9, <1>10, <1>11, <1>12, <1>13,
    <1>14, <1>15, <1>16, <1>17, <1>18, <1>19, <1>20, <1>21, <1>22, <1>23, <1>24, <1>25, <1>26,
    <1>27, <1>28, <1>29, <1>30, <1>31, <1>32, <1>33, <1>34, <1>35, <1>36, <1>37, <1>38, <1>39,
    <1>40, <1>41, <1>42, <1>43

(* Awaiting is preserved. *)
LEMMA AwaitingStep ==
  ASSUME TypeOK, Arming, Awaiting, [Next]_vars
  PROVE  Awaiting'
<1> USE Times DEF Awaiting, NeverAsleep
<1>1. ASSUME NEW u \in Units, Begin(u) PROVE Awaiting'
  BY <1>1 DEF Begin, Goto, flags, units, timer
<1>2. ASSUME NEW u \in Units, WaitSystem(u) PROVE Awaiting'
  BY <1>2 DEF WaitSystem, Goto, flags, units, timer
<1>3. ASSUME NEW u \in Units, AlreadyRunning(u) PROVE Awaiting'
  BY <1>3 DEF AlreadyRunning, AfterServed, Goto, flags, timer
<1>4. ASSUME NEW u \in Units, GoingDown(u) PROVE Awaiting'
  BY <1>4 DEF GoingDown, AfterSkipped, Goto, flags, timer
<1>5. ASSUME NEW u \in Units, Execute(u) PROVE Awaiting'
  BY <1>5 DEF Execute, Goto, flags, units, timer
<1>6. ASSUME NEW u \in Units, StartUnit(u) PROVE Awaiting'
  BY <1>6 DEF StartUnit, Goto, flags, units, timer
<1>7. ASSUME NEW u \in Units, Started(u) PROVE Awaiting'
  BY <1>7 DEF Started, AfterServed, Goto, flags, timer
<1>8. ASSUME NEW u \in Units, Out(u) PROVE Awaiting'
  BY <1>8 DEF Out, Goto, flags, units
<1>9. ASSUME NEW u \in Units, ReadExit(u) PROVE Awaiting'
  BY <1>9 DEF ReadExit, Goto, flags, timer
<1>10. CASE FromDisk
  BY <1>10 DEF FromDisk, TimerStep, Goto
<1>11. CASE NothingOnDisk
  BY <1>11 DEF NothingOnDisk, TimerStep, Goto, timer
<1>12. CASE Rearm
  BY <1>12 DEF Rearm, TimerStep, Goto, timer
<1>13. CASE NextTime
  BY <1>13 DEF NextTime, TimerStep, Goto
<1>14. CASE LeftTime
  BY <1>14 DEF LeftTime, Remaining, TimerStep, Goto
<1>15. CASE RemoveFile
  BY <1>15 DEF RemoveFile, TimerStep, Goto
<1>16. CASE MakeFile
  BY <1>16 DEF MakeFile, TimerStep, Goto
<1>17. CASE SaveFails
  BY <1>17 DEF SaveFails, TimerStep, Goto, timer
<1>18. CASE Arm
  BY <1>18 DEF Arm, TimerStep, Goto, Arming, None
<1>19. CASE ReadExpired
  BY <1>19 DEF ReadExpired, TimerStep, Goto
<1>20. CASE Mark
  BY <1>20 DEF Mark, TimerStep, Goto, timer
<1>21. CASE Expire
  BY <1>21 DEF Expire, flags, units
<1>22. CASE Expired
  BY <1>22 DEF Expired, flags
<1>23. CASE ReadEvents
  BY <1>23 DEF ReadEvents, Goto, flags, units, timer
<1>24. CASE NoHit
  BY <1>24 DEF NoHit, flags, units, timer
<1>25. CASE Hit
  BY <1>25 DEF Hit, Goto, flags, timer
<1>26. ASSUME NEW u \in Units, Request(u) PROVE Awaiting'
  BY <1>26 DEF Request, units, timer
<1>27. ASSUME NEW u \in Units, Create(u) PROVE Awaiting'
  BY <1>27 DEF Create, MainStep, flags
<1>28. ASSUME NEW u \in Units, StopAtShutdown(u) PROVE Awaiting'
  BY <1>28 DEF StopAtShutdown, flags, units, timer
<1>29. CASE ListenSocket
  BY <1>29 DEF ListenSocket, MainStep, units, timer
<1>30. CASE LockStart
  BY <1>30 DEF LockStart, MainStep, flags, units, timer
<1>31. CASE Refuse
  BY <1>31 DEF Refuse, MainStep, flags, units, timer
<1>32. CASE StopFirst
  BY <1>32 DEF StopFirst, MainStep, flags, units, timer
<1>33. CASE RemoveDead
  BY <1>33 DEF RemoveDead, MainStep, flags, timer
<1>34. CASE Close
  <2>1. /\ pipe' = [pipe EXCEPT ![main.unit] = Append(pipe[main.unit], "exit")]
        /\ main.unit \in Units /\ UNCHANGED <<at, shutdown, deadline, expiring>>
    BY <1>34, Kinds DEF Close, MainStep, flags, timer
  <2>2. Append(pipe[main.unit], "exit") # <<>>
    <3>1. pipe[main.unit] \in Seq({"expired", "exit"})
      BY <2>1
    <3> QED
      BY <3>1, Appended
  <2>3. pipe["timer"] # <<>> => pipe'["timer"] # <<>>
    BY <2>1, <2>2
  <2> QED
    BY <2>1, <2>3
<1>35. CASE Closed
  BY <1>35 DEF Closed, ClosedTo, MainStep, flags, units, timer
<1>36. CASE StopKeeps
  BY <1>36 DEF StopKeeps, MainStep, flags, timer
<1>37. CASE StopRemoves
  BY <1>37 DEF StopRemoves, MainStep, flags, timer
<1>38. CASE Tick
  BY <1>38 DEF Tick, flags, units, timer
<1>39. CASE Shutdown
  BY <1>39 DEF Shutdown, units, timer
<1>40. CASE Change
  BY <1>40 DEF Change, units, timer
<1>41. CASE Halt
  BY <1>41 DEF Halt, NoRequest
<1>42. CASE Boot
  BY <1>42 DEF Boot, NoRequest, timer
<1>43. CASE UNCHANGED vars
  BY <1>43 DEF vars, flags, units, timer
<1> QED
  BY Steps, <1>1, <1>2, <1>3, <1>4, <1>5, <1>6, <1>7, <1>8, <1>9, <1>10, <1>11, <1>12, <1>13,
    <1>14, <1>15, <1>16, <1>17, <1>18, <1>19, <1>20, <1>21, <1>22, <1>23, <1>24, <1>25, <1>26,
    <1>27, <1>28, <1>29, <1>30, <1>31, <1>32, <1>33, <1>34, <1>35, <1>36, <1>37, <1>38, <1>39,
    <1>40, <1>41, <1>42, <1>43

(* Serving is preserved. *)
LEMMA ServingStep ==
  ASSUME TypeOK, Placing, Serving, [Next]_vars
  PROVE  Serving'
<1> USE Kinds DEF Serving, Placing, ThreadOf, Alive
<1>1. ASSUME NEW u \in Units, Begin(u) PROVE Serving'
  BY <1>1 DEF Begin, Goto, flags, units, path, past, HitIn, Hits
<1>2. ASSUME NEW u \in Units, WaitSystem(u) PROVE Serving'
  BY <1>2 DEF WaitSystem, Goto, flags, units, path, past, HitIn, Hits
<1>3. ASSUME NEW u \in Units, AlreadyRunning(u) PROVE Serving'
  BY <1>3 DEF AlreadyRunning, AfterServed, Running, Dropped, Goto, flags, HitIn, Hits
<1>4. ASSUME NEW u \in Units, GoingDown(u) PROVE Serving'
  BY <1>4 DEF GoingDown, AfterSkipped, Running, Dropped, Goto, flags, past, HitIn, Hits
<1>5. ASSUME NEW u \in Units, Execute(u) PROVE Serving'
  BY <1>5 DEF Execute, Goto, flags, units, path, past, HitIn, Hits
<1>6. ASSUME NEW u \in Units, StartUnit(u) PROVE Serving'
  BY <1>6 DEF StartUnit, Goto, flags, units, path, HitIn, Hits
<1>7. ASSUME NEW u \in Units, Started(u) PROVE Serving'
  BY <1>7 DEF Started, AfterServed, Running, Dropped, Goto, flags, HitIn, Hits
<1>8. ASSUME NEW u \in Units, Out(u) PROVE Serving'
  BY <1>8 DEF Out, Goto, flags, units, path, past, HitIn, Hits
<1>9. ASSUME NEW u \in Units, ReadExit(u) PROVE Serving'
  BY <1>9 DEF ReadExit, Goto, flags, path, past, HitIn, Hits
<1>10. CASE FromDisk
  BY <1>10 DEF FromDisk, TimerStep, Goto, path, HitIn, Hits
<1>11. CASE NothingOnDisk
  BY <1>11 DEF NothingOnDisk, TimerStep, Goto, path, HitIn, Hits
<1>12. CASE Rearm
  BY <1>12 DEF Rearm, TimerStep, Goto, path, HitIn, Hits
<1>13. CASE NextTime
  BY <1>13 DEF NextTime, TimerStep, Goto, path, HitIn, Hits
<1>14. CASE LeftTime
  BY <1>14 DEF LeftTime, TimerStep, Goto, path, HitIn, Hits
<1>15. CASE RemoveFile
  BY <1>15 DEF RemoveFile, TimerStep, Goto, path, HitIn, Hits
<1>16. CASE MakeFile
  BY <1>16 DEF MakeFile, TimerStep, Goto, path, HitIn, Hits
<1>17. CASE SaveFails
  BY <1>17 DEF SaveFails, TimerStep, Goto, path, HitIn, Hits
<1>18. CASE Arm
  BY <1>18 DEF Arm, TimerStep, Goto, path, HitIn, Hits
<1>19. CASE ReadExpired
  BY <1>19 DEF ReadExpired, TimerStep, Goto, path, HitIn, Hits
<1>20. CASE Mark
  BY <1>20 DEF Mark, TimerStep, Goto, path, HitIn, Hits
<1>21. CASE Expire
  BY <1>21 DEF Expire, flags, units, path, past, HitIn, Hits
<1>22. CASE Expired
  BY <1>22 DEF Expired, flags, path, past, HitIn, Hits
<1>23. CASE ReadEvents
  BY <1>23 DEF ReadEvents, Goto, flags, units, past, HitIn, Hits
<1>24. CASE NoHit
  <2>1. /\ at["path"] = "scan" /\ ~Hits(Head(buffer)) /\ buffer' = Tail(buffer)
        /\ at' = IF Tail(buffer) = <<>> THEN [at EXCEPT !["path"] = "read"] ELSE at
        /\ UNCHANGED <<setup, main, shutdown, present, state, exists, queue, unserved>>
    BY <1>24 DEF NoHit, Rest, flags, units, past
  <2>2. buffer \in Seq(Events) /\ buffer # <<>>
    BY <2>1 DEF TypeOK
  <2>3. unserved => ~setup.level
    BY <2>1 DEF Hits
  <2>4. unserved /\ HitIn(buffer) => HitIn(buffer)'
    <3> SUFFICES ASSUME unserved, NEW i \in DOMAIN buffer, Hits(buffer[i])
                 PROVE  HitIn(buffer)'
      BY DEF HitIn
    <3>1. i # 1
      BY <2>1, <2>2, TakenAway
    <3>2. i - 1 \in DOMAIN Tail(buffer) /\ Tail(buffer)[i - 1] = buffer[i]
      BY <2>2, <3>1, TakenAway
    <3> QED
      BY <2>1, <3>2 DEF HitIn, Hits
  <2>5. HitIn(buffer)' => Tail(buffer) # <<>>
    BY <2>1 DEF HitIn
  <2>6. HitIn(queue)' <=> HitIn(queue)
    BY <2>1 DEF HitIn, Hits
  <2> QED
    BY <2>1, <2>4, <2>5, <2>6
<1>25. CASE Hit
  BY <1>25 DEF Hit, Goto, flags, path, past, HitIn, Hits
<1>26. ASSUME NEW u \in Units, Request(u) PROVE Serving'
  BY <1>26 DEF Request, units, path, past, HitIn, Hits
<1>27. ASSUME NEW u \in Units, Create(u) PROVE Serving'
  BY <1>27 DEF Create, MainStep, flags, path, HitIn, Hits
<1>28. ASSUME NEW u \in Units, StopAtShutdown(u) PROVE Serving'
  BY <1>28 DEF StopAtShutdown, flags, units, path, past, HitIn, Hits
<1>29. CASE ListenSocket
  BY <1>29 DEF ListenSocket, MainStep, units, path, past, HitIn, Hits
<1>30. CASE LockStart
  BY <1>30 DEF LockStart, MainStep, flags, units, path, past, HitIn, Hits
<1>31. CASE Refuse
  BY <1>31 DEF Refuse, MainStep, flags, units, path, past, HitIn, Hits
<1>32. CASE StopFirst
  BY <1>32 DEF StopFirst, MainStep, flags, units, path, past, HitIn, Hits
<1>33. CASE RemoveDead
  BY <1>33 DEF RemoveDead, Remove, MainStep, flags, past, HitIn, Hits
<1>34. CASE Close
  BY <1>34 DEF Close, MainStep, flags, path, past, HitIn, Hits
<1>35. CASE Closed
  BY <1>35 DEF Closed, ClosedTo, MainStep, flags, units, path, HitIn, Hits
<1>36. CASE StopKeeps
  BY <1>36 DEF StopKeeps, DeadState, MainStep, flags, path, HitIn, Hits
<1>37. CASE StopRemoves
  BY <1>37 DEF StopRemoves, DeadState, Remove, MainStep, flags, HitIn, Hits
<1>38. CASE Tick
  BY <1>38 DEF Tick, flags, units, path, past, HitIn, Hits
<1>39. CASE Shutdown
  BY <1>39 DEF Shutdown, units, path, past, HitIn, Hits
<1>40. CASE Change
  <2>1. PICK event \in Events :
          /\ queue' = IF present["path"] /\ main.at # "down" THEN Append(queue, event) ELSE queue
          /\ exists' = (event = "hit")
          /\ unserved' = IF event = "hit" THEN unserved \/ Alive("path")
                                          ELSE unserved /\ ~setup.level
    BY <1>40 DEF Change
  <2>2. UNCHANGED <<setup, shutdown, main, present, state, at, buffer>>
    BY <1>40 DEF Change, units
  <2>3. unserved' => present["path"] /\ main.at # "down" /\ state["path"] # "dead"
    BY <2>1
  <2>4. queue \in Seq(Events)
    BY DEF TypeOK
  <2>5. unserved' /\ event = "hit" => HitIn(queue)'
    BY <2>1, <2>2, <2>3, <2>4, Added DEF HitIn, Hits
  <2>6. ASSUME unserved', event # "hit" PROVE unserved /\ ~setup.level /\ queue' = Append(queue, event)
    BY <2>1, <2>3, <2>6
  <2>7. unserved' /\ event # "hit" /\ HitIn(queue) => HitIn(queue)'
    BY <2>2, <2>4, <2>6, Added DEF HitIn, Hits
  <2>8. unserved' /\ event # "hit" /\ HitIn(buffer) => HitIn(buffer)'
    BY <2>2, <2>6 DEF HitIn, Hits
  <2>9. unserved' /\ setup'.level => exists'
    BY <2>1, <2>2, <2>6
  <2> QED
    BY <2>2, <2>3, <2>5, <2>6, <2>7, <2>8, <2>9
<1>41. CASE Halt
  BY <1>41 DEF Halt, NoRequest, HitIn, Hits
<1>42. CASE Boot
  BY <1>42 DEF Boot, NoRequest, path, past, HitIn, Hits
<1>43. CASE UNCHANGED vars
  BY <1>43 DEF vars, flags, units, path, past, HitIn, Hits
<1> QED
  BY Steps, <1>1, <1>2, <1>3, <1>4, <1>5, <1>6, <1>7, <1>8, <1>9, <1>10, <1>11, <1>12, <1>13,
    <1>14, <1>15, <1>16, <1>17, <1>18, <1>19, <1>20, <1>21, <1>22, <1>23, <1>24, <1>25, <1>26,
    <1>27, <1>28, <1>29, <1>30, <1>31, <1>32, <1>33, <1>34, <1>35, <1>36, <1>37, <1>38, <1>39,
    <1>40, <1>41, <1>42, <1>43

(* The clock and the bounds keep their types. *)
LEMMA ClockStep ==
  ASSUME ClockTypes, [Next]_vars
  PROVE  ClockTypes'
<1>a. /\ setup.time \in Nat /\ setup.changes \in Nat
      /\ setup.requests \in Nat /\ setup.boots \in Nat
  BY TriggerAssumption DEF ClockTypes, SetupType
<1> USE <1>a DEF ClockTypes
<1>1. ASSUME NEW u \in Units, Begin(u) PROVE ClockTypes'
  BY <1>1 DEF Begin, Goto, clock, flags
<1>2. ASSUME NEW u \in Units, WaitSystem(u) PROVE ClockTypes'
  BY <1>2 DEF WaitSystem, Goto, clock, flags
<1>3. ASSUME NEW u \in Units, AlreadyRunning(u) PROVE ClockTypes'
  BY <1>3 DEF AlreadyRunning, Goto, clock, flags
<1>4. ASSUME NEW u \in Units, GoingDown(u) PROVE ClockTypes'
  BY <1>4 DEF GoingDown, Goto, clock, flags
<1>5. ASSUME NEW u \in Units, Execute(u) PROVE ClockTypes'
  BY <1>5 DEF Execute, Goto, clock, flags
<1>6. ASSUME NEW u \in Units, StartUnit(u) PROVE ClockTypes'
  BY <1>6 DEF StartUnit, Goto, clock, flags
<1>7. ASSUME NEW u \in Units, Started(u) PROVE ClockTypes'
  BY <1>7 DEF Started, Goto, clock, flags
<1>8. ASSUME NEW u \in Units, Out(u) PROVE ClockTypes'
  BY <1>8 DEF Out, Goto, clock, flags
<1>9. ASSUME NEW u \in Units, ReadExit(u) PROVE ClockTypes'
  BY <1>9 DEF ReadExit, Goto, clock, flags
<1>10. CASE FromDisk
  BY <1>10 DEF FromDisk, TimerStep, Goto, clock
<1>11. CASE NothingOnDisk
  BY <1>11 DEF NothingOnDisk, TimerStep, Goto, clock
<1>12. CASE Rearm
  BY <1>12 DEF Rearm, TimerStep, Goto, clock
<1>13. CASE NextTime
  BY <1>13 DEF NextTime, TimerStep, Goto
<1>14. CASE LeftTime
  BY <1>14 DEF LeftTime, TimerStep, Goto, clock
<1>15. CASE RemoveFile
  BY <1>15 DEF RemoveFile, TimerStep, Goto, clock
<1>16. CASE MakeFile
  BY <1>16 DEF MakeFile, TimerStep, Goto, clock
<1>17. CASE SaveFails
  BY <1>17 DEF SaveFails, TimerStep, Goto, clock
<1>18. CASE Arm
  BY <1>18 DEF Arm, TimerStep, Goto, clock
<1>19. CASE ReadExpired
  BY <1>19 DEF ReadExpired, TimerStep, Goto, clock
<1>20. CASE Mark
  BY <1>20 DEF Mark, TimerStep, Goto, clock
<1>21. CASE Expire
  BY <1>21 DEF Expire, clock, flags
<1>22. CASE Expired
  BY <1>22 DEF Expired, clock, flags
<1>23. CASE ReadEvents
  BY <1>23 DEF ReadEvents, Goto, clock, flags
<1>24. CASE NoHit
  BY <1>24 DEF NoHit, clock, flags
<1>25. CASE Hit
  BY <1>25 DEF Hit, Goto, clock, flags
<1>26. ASSUME NEW u \in Units, Request(u) PROVE ClockTypes'
  BY <1>26 DEF Request, clock
<1>27. ASSUME NEW u \in Units, Create(u) PROVE ClockTypes'
  BY <1>27 DEF Create, MainStep, clock, flags
<1>28. ASSUME NEW u \in Units, StopAtShutdown(u) PROVE ClockTypes'
  BY <1>28 DEF StopAtShutdown, clock, flags
<1>29. CASE ListenSocket
  BY <1>29 DEF ListenSocket, MainStep, clock
<1>30. CASE LockStart
  BY <1>30 DEF LockStart, MainStep, clock, flags
<1>31. CASE Refuse
  BY <1>31 DEF Refuse, MainStep, clock, flags
<1>32. CASE StopFirst
  BY <1>32 DEF StopFirst, MainStep, clock, flags
<1>33. CASE RemoveDead
  BY <1>33 DEF RemoveDead, MainStep, clock, flags
<1>34. CASE Close
  BY <1>34 DEF Close, MainStep, clock, flags
<1>35. CASE Closed
  BY <1>35 DEF Closed, ClosedTo, MainStep, clock, flags
<1>36. CASE StopKeeps
  BY <1>36 DEF StopKeeps, MainStep, clock, flags
<1>37. CASE StopRemoves
  BY <1>37 DEF StopRemoves, MainStep, clock, flags
<1>38. CASE Tick
  BY <1>38 DEF Tick, flags
<1>39. CASE Shutdown
  BY <1>39 DEF Shutdown, clock
<1>40. CASE Change
  BY <1>40 DEF Change, clock
<1>41. CASE Halt
  BY <1>41 DEF Halt, clock
<1>42. CASE Boot
  BY <1>42 DEF Boot, clock
<1>43. CASE UNCHANGED vars
  BY <1>43 DEF vars, clock, flags
<1> QED
  BY Steps, <1>1, <1>2, <1>3, <1>4, <1>5, <1>6, <1>7, <1>8, <1>9, <1>10, <1>11, <1>12, <1>13,
    <1>14, <1>15, <1>16, <1>17, <1>18, <1>19, <1>20, <1>21, <1>22, <1>23, <1>24, <1>25, <1>26,
    <1>27, <1>28, <1>29, <1>30, <1>31, <1>32, <1>33, <1>34, <1>35, <1>36, <1>37, <1>38, <1>39,
    <1>40, <1>41, <1>42, <1>43

(* The threads keep their types. *)
LEMMA ThreadStep ==
  ASSUME ThreadTypes, ClockTypes, [Next]_vars
  PROVE  ThreadTypes'
<1>a. /\ setup.kinds \subseteq {"stop", "start", "restart"}
      /\ "timer" \in Units /\ "path" \in Units
  BY TriggerAssumption DEF ClockTypes, SetupType, Units
<1> USE <1>a DEF ThreadTypes
<1>1. ASSUME NEW u \in Units, Begin(u) PROVE ThreadTypes'
  BY <1>1 DEF Begin, Goto, units, past, Threads
<1>2. ASSUME NEW u \in Units, WaitSystem(u) PROVE ThreadTypes'
  BY <1>2 DEF WaitSystem, Goto, units, locks, past, Threads
<1>3. ASSUME NEW u \in Units, AlreadyRunning(u) PROVE ThreadTypes'
  BY <1>3 DEF AlreadyRunning, AfterServed, Running, Goto, locks, Threads
<1>4. ASSUME NEW u \in Units, GoingDown(u) PROVE ThreadTypes'
  BY <1>4 DEF GoingDown, AfterSkipped, Running, Goto, locks, past, Threads
<1>5. ASSUME NEW u \in Units, Execute(u) PROVE ThreadTypes'
  BY <1>5 DEF Execute, Goto, units, locks, past, Threads
<1>6. ASSUME NEW u \in Units, StartUnit(u) PROVE ThreadTypes'
  BY <1>6 DEF StartUnit, Goto, units, locks, Threads
<1>7. ASSUME NEW u \in Units, Started(u) PROVE ThreadTypes'
  BY <1>7 DEF Started, AfterServed, Running, Goto, locks, Threads
<1>8. ASSUME NEW u \in Units, Out(u) PROVE ThreadTypes'
  BY <1>8 DEF Out, Goto, units, past, Threads
<1>9. ASSUME NEW u \in Units, ReadExit(u) PROVE ThreadTypes'
  BY <1>9 DEF ReadExit, Goto, locks, past, Threads
<1>10. CASE FromDisk
  BY <1>10 DEF FromDisk, TimerStep, Goto, Threads
<1>11. CASE NothingOnDisk
  BY <1>11 DEF NothingOnDisk, TimerStep, Goto, Threads
<1>12. CASE Rearm
  BY <1>12 DEF Rearm, TimerStep, Goto, Threads
<1>13. CASE NextTime
  BY <1>13 DEF NextTime, TimerStep, Goto, Threads
<1>14. CASE LeftTime
  BY <1>14 DEF LeftTime, TimerStep, Goto, Threads
<1>15. CASE RemoveFile
  BY <1>15 DEF RemoveFile, TimerStep, Goto, Threads
<1>16. CASE MakeFile
  BY <1>16 DEF MakeFile, TimerStep, Goto, Threads
<1>17. CASE SaveFails
  BY <1>17 DEF SaveFails, TimerStep, Goto, Threads
<1>18. CASE Arm
  BY <1>18 DEF Arm, TimerStep, Goto, Threads
<1>19. CASE ReadExpired
  BY <1>19 DEF ReadExpired, TimerStep, Goto, Threads
<1>20. CASE Mark
  BY <1>20 DEF Mark, TimerStep, Goto, Threads
<1>21. CASE Expire
  BY <1>21 DEF Expire, units, locks, past
<1>22. CASE Expired
  BY <1>22 DEF Expired, locks, past
<1>23. CASE ReadEvents
  BY <1>23 DEF ReadEvents, Goto, units, locks, past, Threads
<1>24. CASE NoHit
  BY <1>24 DEF NoHit, units, locks, past, Threads
<1>25. CASE Hit
  BY <1>25 DEF Hit, Goto, locks, past, Threads
<1>26. ASSUME NEW u \in Units, Request(u) PROVE ThreadTypes'
  BY <1>26 DEF Request, units, locks, past, Mains
<1>27. ASSUME NEW u \in Units, Create(u) PROVE ThreadTypes'
  BY <1>27 DEF Create, MainStep, locks, Threads, Mains
<1>28. ASSUME NEW u \in Units, StopAtShutdown(u) PROVE ThreadTypes'
  BY <1>28 DEF StopAtShutdown, units, locks, past, Mains
<1>29. CASE ListenSocket
  BY <1>29 DEF ListenSocket, MainStep, units, locks, past, Mains
<1>30. CASE LockStart
  BY <1>30 DEF LockStart, MainStep, units, locks, past, Mains
<1>31. CASE Refuse
  BY <1>31 DEF Refuse, MainStep, units, locks, past, Mains
<1>32. CASE StopFirst
  BY <1>32 DEF StopFirst, MainStep, units, locks, past, Mains
<1>33. CASE RemoveDead
  BY <1>33 DEF RemoveDead, Remove, MainStep, locks, past, Mains
<1>34. CASE Close
  BY <1>34 DEF Close, MainStep, locks, past, Mains
<1>35. CASE Closed
  BY <1>35 DEF Closed, ClosedTo, MainStep, units, locks, Mains
<1>36. CASE StopKeeps
  BY <1>36 DEF StopKeeps, DeadState, MainStep, locks, Mains
<1>37. CASE StopRemoves
  BY <1>37 DEF StopRemoves, DeadState, Remove, MainStep, locks, Mains
<1>38. CASE Tick
  BY <1>38 DEF Tick, units, locks, past
<1>39. CASE Shutdown
  BY <1>39 DEF Shutdown, units, locks, past
<1>40. CASE Change
  BY <1>40 DEF Change, units, locks
<1>41. CASE Halt
  BY <1>41 DEF Halt, NoRequest, Threads, Mains
<1>42. CASE Boot
  BY <1>42 DEF Boot, NoRequest, locks, past, Threads, Mains
<1>43. CASE UNCHANGED vars
  BY <1>43 DEF vars, units, locks, past
<1> QED
  BY Steps, <1>1, <1>2, <1>3, <1>4, <1>5, <1>6, <1>7, <1>8, <1>9, <1>10, <1>11, <1>12, <1>13,
    <1>14, <1>15, <1>16, <1>17, <1>18, <1>19, <1>20, <1>21, <1>22, <1>23, <1>24, <1>25, <1>26,
    <1>27, <1>28, <1>29, <1>30, <1>31, <1>32, <1>33, <1>34, <1>35, <1>36, <1>37, <1>38, <1>39,
    <1>40, <1>41, <1>42, <1>43

(* The timer keeps its types. *)
LEMMA TimerTypeStep ==
  ASSUME ClockTypes, TimerTypes, Saving, [Next]_vars
  PROVE  TimerTypes'
<1>a. now \in Nat /\ Interval \in Nat
  BY TriggerAssumption DEF ClockTypes, SetupType
<1> USE <1>a DEF TimerTypes
<1>1. ASSUME NEW u \in Units, Begin(u) PROVE TimerTypes'
  BY <1>1 DEF Begin, Goto, timer, past
<1>2. ASSUME NEW u \in Units, WaitSystem(u) PROVE TimerTypes'
  BY <1>2 DEF WaitSystem, Goto, timer, past
<1>3. ASSUME NEW u \in Units, AlreadyRunning(u) PROVE TimerTypes'
  BY <1>3 DEF AlreadyRunning, Goto, timer
<1>4. ASSUME NEW u \in Units, GoingDown(u) PROVE TimerTypes'
  BY <1>4 DEF GoingDown, Goto, timer, past
<1>5. ASSUME NEW u \in Units, Execute(u) PROVE TimerTypes'
  BY <1>5 DEF Execute, Goto, timer, past
<1>6. ASSUME NEW u \in Units, StartUnit(u) PROVE TimerTypes'
  BY <1>6 DEF StartUnit, Goto, timer
<1>7. ASSUME NEW u \in Units, Started(u) PROVE TimerTypes'
  BY <1>7 DEF Started, Goto, timer
<1>8. ASSUME NEW u \in Units, Out(u) PROVE TimerTypes'
  BY <1>8 DEF Out, Goto, past, None
<1>9. ASSUME NEW u \in Units, ReadExit(u) PROVE TimerTypes'
  BY <1>9 DEF ReadExit, Goto, timer, past
<1>10. CASE FromDisk
  BY <1>10 DEF FromDisk, TimerStep, Goto
<1>11. CASE NothingOnDisk
  BY <1>11 DEF NothingOnDisk, TimerStep, Goto, timer
<1>12. CASE Rearm
  BY <1>12 DEF Rearm, TimerStep, Goto, timer
<1>13. CASE NextTime
  BY <1>13 DEF NextTime, TimerStep, Goto
<1>14. CASE LeftTime
  BY <1>14 DEF LeftTime, Remaining, TimerStep, Goto
<1>15. CASE RemoveFile
  BY <1>15 DEF RemoveFile, TimerStep, Goto
<1>16. CASE MakeFile
  BY <1>16 DEF MakeFile, TimerStep, Goto, Saving
<1>17. CASE SaveFails
  BY <1>17 DEF SaveFails, TimerStep, Goto, timer
<1>18. CASE Arm
  BY <1>18 DEF Arm, TimerStep, Goto, None
<1>19. CASE ReadExpired
  BY <1>19 DEF ReadExpired, TimerStep, Goto, None
<1>20. CASE Mark
  BY <1>20 DEF Mark, TimerStep, Goto, timer
<1>21. CASE Expire
  BY <1>21 DEF Expire, past, None
<1>22. CASE Expired
  BY <1>22 DEF Expired, past
<1>23. CASE ReadEvents
  BY <1>23 DEF ReadEvents, Goto, timer, past
<1>24. CASE NoHit
  BY <1>24 DEF NoHit, timer, past
<1>25. CASE Hit
  BY <1>25 DEF Hit, Goto, timer, past
<1>26. ASSUME NEW u \in Units, Request(u) PROVE TimerTypes'
  BY <1>26 DEF Request, timer, past
<1>27. ASSUME NEW u \in Units, Create(u) PROVE TimerTypes'
  BY <1>27 DEF Create, MainStep
<1>28. ASSUME NEW u \in Units, StopAtShutdown(u) PROVE TimerTypes'
  BY <1>28 DEF StopAtShutdown, timer, past
<1>29. CASE ListenSocket
  BY <1>29 DEF ListenSocket, MainStep, timer, past
<1>30. CASE LockStart
  BY <1>30 DEF LockStart, MainStep, timer, past
<1>31. CASE Refuse
  BY <1>31 DEF Refuse, MainStep, timer, past
<1>32. CASE StopFirst
  BY <1>32 DEF StopFirst, MainStep, timer, past
<1>33. CASE RemoveDead
  BY <1>33 DEF RemoveDead, MainStep, timer, past
<1>34. CASE Close
  BY <1>34 DEF Close, MainStep, timer, past
<1>35. CASE Closed
  BY <1>35 DEF Closed, ClosedTo, MainStep, timer
<1>36. CASE StopKeeps
  BY <1>36 DEF StopKeeps, MainStep, timer
<1>37. CASE StopRemoves
  BY <1>37 DEF StopRemoves, MainStep, timer
<1>38. CASE Tick
  BY <1>38 DEF Tick, timer, past
<1>39. CASE Shutdown
  BY <1>39 DEF Shutdown, timer, past
<1>40. CASE Change
  BY <1>40 DEF Change, timer
<1>41. CASE Halt
  <2>1. /\ looping' = FALSE /\ nextTime' = None /\ leftTime' = None /\ deadline' = None
        /\ expiring' = 0 /\ UNCHANGED <<disk, owed>>
    BY <1>41 DEF Halt
  <2>2. None \in Int
    BY DEF None
  <2> QED
    BY <2>1, <2>2
<1>42. CASE Boot
  BY <1>42 DEF Boot, NoRequest, timer, past
<1>43. CASE UNCHANGED vars
  BY <1>43 DEF vars, timer, past
<1> QED
  BY Steps, <1>1, <1>2, <1>3, <1>4, <1>5, <1>6, <1>7, <1>8, <1>9, <1>10, <1>11, <1>12, <1>13,
    <1>14, <1>15, <1>16, <1>17, <1>18, <1>19, <1>20, <1>21, <1>22, <1>23, <1>24, <1>25, <1>26,
    <1>27, <1>28, <1>29, <1>30, <1>31, <1>32, <1>33, <1>34, <1>35, <1>36, <1>37, <1>38, <1>39,
    <1>40, <1>41, <1>42, <1>43

(* Pipes and events keep their types. *)
LEMMA EventStep ==
  ASSUME EventTypes, ThreadTypes, Serving, [Next]_vars
  PROVE  EventTypes'
<1>a. "timer" \in Units /\ "path" \in Units
  BY DEF Units
<1>b. <<>> \in Seq({"expired", "exit"}) /\ <<>> \in Seq(Events)
  OBVIOUS
<1> USE <1>a, <1>b DEF EventTypes
<1>1. ASSUME NEW u \in Units, Begin(u) PROVE EventTypes'
  BY <1>1 DEF Begin, Goto, units, path, past
<1>2. ASSUME NEW u \in Units, WaitSystem(u) PROVE EventTypes'
  BY <1>2 DEF WaitSystem, Goto, units, path, past
<1>3. ASSUME NEW u \in Units, AlreadyRunning(u) PROVE EventTypes'
  BY <1>3 DEF AlreadyRunning, Dropped, Goto
<1>4. ASSUME NEW u \in Units, GoingDown(u) PROVE EventTypes'
  BY <1>4 DEF GoingDown, Dropped, Goto, past
<1>5. ASSUME NEW u \in Units, Execute(u) PROVE EventTypes'
  BY <1>5 DEF Execute, Goto, units, path, past
<1>6. ASSUME NEW u \in Units, StartUnit(u) PROVE EventTypes'
  BY <1>6 DEF StartUnit, Goto, units, path
<1>7. ASSUME NEW u \in Units, Started(u) PROVE EventTypes'
  BY <1>7 DEF Started, Dropped, Goto
<1>8. ASSUME NEW u \in Units, Out(u) PROVE EventTypes'
  BY <1>8 DEF Out, Goto, units, path, past
<1>9. ASSUME NEW u \in Units, ReadExit(u) PROVE EventTypes'
  BY <1>9 DEF ReadExit, Goto, path, past
<1>10. CASE FromDisk
  BY <1>10 DEF FromDisk, TimerStep, Goto, path
<1>11. CASE NothingOnDisk
  BY <1>11 DEF NothingOnDisk, TimerStep, Goto, path
<1>12. CASE Rearm
  BY <1>12 DEF Rearm, TimerStep, Goto, path
<1>13. CASE NextTime
  BY <1>13 DEF NextTime, TimerStep, Goto, path
<1>14. CASE LeftTime
  BY <1>14 DEF LeftTime, Remaining, TimerStep, Goto, path
<1>15. CASE RemoveFile
  BY <1>15 DEF RemoveFile, TimerStep, Goto, path
<1>16. CASE MakeFile
  BY <1>16 DEF MakeFile, TimerStep, Goto, path
<1>17. CASE SaveFails
  BY <1>17 DEF SaveFails, TimerStep, Goto, path
<1>18. CASE Arm
  BY <1>18 DEF Arm, TimerStep, Goto, path
<1>19. CASE ReadExpired
  BY <1>19 DEF ReadExpired, TimerStep, Goto, path
<1>20. CASE Mark
  BY <1>20 DEF Mark, TimerStep, Goto, path
<1>21. CASE Expire
  BY <1>21 DEF Expire, units, path, past
<1>22. CASE Expired
  BY <1>22 DEF Expired, path, past
<1>23. CASE ReadEvents
  BY <1>23 DEF ReadEvents, Goto, units, past
<1>24. CASE NoHit
  BY <1>24 DEF NoHit, Rest, units, past, Serving
<1>25. CASE Hit
  BY <1>25 DEF Hit, Goto, path, past
<1>26. ASSUME NEW u \in Units, Request(u) PROVE EventTypes'
  BY <1>26 DEF Request, units, path, past
<1>27. ASSUME NEW u \in Units, Create(u) PROVE EventTypes'
  BY <1>27 DEF Create, MainStep, path
<1>28. ASSUME NEW u \in Units, StopAtShutdown(u) PROVE EventTypes'
  BY <1>28 DEF StopAtShutdown, units, path, past
<1>29. CASE ListenSocket
  BY <1>29 DEF ListenSocket, MainStep, units, path, past
<1>30. CASE LockStart
  BY <1>30 DEF LockStart, MainStep, units, path, past
<1>31. CASE Refuse
  BY <1>31 DEF Refuse, MainStep, units, path, past
<1>32. CASE StopFirst
  BY <1>32 DEF StopFirst, MainStep, units, path, past
<1>33. CASE RemoveDead
  BY <1>33 DEF RemoveDead, Remove, MainStep, past
<1>34. CASE Close
  BY <1>34 DEF Close, MainStep, path, past, ThreadTypes
<1>35. CASE Closed
  BY <1>35 DEF Closed, ClosedTo, MainStep, units, path
<1>36. CASE StopKeeps
  BY <1>36 DEF StopKeeps, DeadState, MainStep, path
<1>37. CASE StopRemoves
  BY <1>37 DEF StopRemoves, DeadState, Remove, MainStep
<1>38. CASE Tick
  BY <1>38 DEF Tick, units, path, past
<1>39. CASE Shutdown
  BY <1>39 DEF Shutdown, units, path, past
<1>40. CASE Change
  <2>1. \A event \in Events : Append(queue, event) \in Seq(Events)
    BY AppendProperties
  <2> QED
    BY <1>40, <2>1 DEF Change, units
<1>41. CASE Halt
  BY <1>41 DEF Halt, NoRequest
<1>42. CASE Boot
  BY <1>42 DEF Boot, NoRequest, path, past
<1>43. CASE UNCHANGED vars
  BY <1>43 DEF vars, units, path, past
<1> QED
  BY Steps, <1>1, <1>2, <1>3, <1>4, <1>5, <1>6, <1>7, <1>8, <1>9, <1>10, <1>11, <1>12, <1>13,
    <1>14, <1>15, <1>16, <1>17, <1>18, <1>19, <1>20, <1>21, <1>22, <1>23, <1>24, <1>25, <1>26,
    <1>27, <1>28, <1>29, <1>30, <1>31, <1>32, <1>33, <1>34, <1>35, <1>36, <1>37, <1>38, <1>39,
    <1>40, <1>41, <1>42, <1>43

-----------------------------------------------------------------------------
(* TypeOK is made of its four parts.                                       *)
LEMMA TypeParts == TypeOK <=> ClockTypes /\ ThreadTypes /\ TimerTypes /\ EventTypes
BY DEF TypeOK, ClockTypes, ThreadTypes, TimerTypes, EventTypes

(* Every initial state satisfies the invariant.                            *)
LEMMA Initially == Init => IInv
<1> SUFFICES ASSUME Init PROVE IInv
  OBVIOUS
<1>1. /\ setup.time \in Nat /\ setup.changes \in Nat /\ setup.requests \in Nat
      /\ setup.boots \in Nat \ {0} /\ "timer" \in Units /\ "path" \in Units
  BY TriggerAssumption DEF Init, SetupType, Units
<1>2. TypeOK
  <2>1. ClockTypes
    <3>1. /\ setup \in Setups /\ now = 0 /\ ticked = FALSE
          /\ listening = FALSE /\ shutdown = FALSE
          /\ boots = 1 /\ requests = 0 /\ changes = 0
      BY DEF Init
    <3>2. /\ 0 \in 0..setup.time /\ 0 \in 0..setup.requests /\ 0 \in 0..setup.changes
          /\ 1 \in 1..setup.boots
      BY <1>1
    <3> QED
      BY <3>1, <3>2 DEF ClockTypes
  <2>2. ThreadTypes
    <3>1. main \in [at : Mains, unit : Units, reset : BOOLEAN,
                    kind : {"stop", "start", "restart", "shutdown"}]
      BY DEF Init, NoRequest, Mains, Units
    <3>2. /\ present \in [Units -> BOOLEAN]
          /\ pipeMutex \in [Units -> BOOLEAN] /\ late \in [Units -> BOOLEAN]
      BY DEF Init
    <3>3. state \in [Units -> {"dead", "running", "restarting"}]
      BY DEF Init
    <3>4. at \in [Units -> Threads]
      BY DEF Init, Threads
    <3>5. startMutex \in {"free", "main"} \cup Units /\ unitMutex \in BOOLEAN
      BY DEF Init
    <3> QED
      BY <3>1, <3>2, <3>3, <3>4, <3>5 DEF ThreadTypes
  <2>3. TimerTypes
    <3>1. None \in Int
      BY DEF None
    <3> QED
      BY <3>1 DEF Init, TimerTypes
  <2>4. EventTypes
    <3>1. <<>> \in Seq({"expired", "exit"}) /\ <<>> \in Seq(Events)
      OBVIOUS
    <3> QED
      BY <3>1 DEF Init, EventTypes
  <2> QED
    BY <2>1, <2>2, <2>3, <2>4, TypeParts
<1>3. Placing
  BY <1>1 DEF Init, Placing, ThreadOf, NoRequest
<1>4. Quieting
  BY <1>1 DEF Init, Quieting, NoRequest
<1>5. Saving
  BY <1>1 DEF Init, Saving
<1>6. Arming /\ ArmedIsSaved
  BY <1>1 DEF Init, Arming, ArmedIsSaved
<1>7. Awaiting
  BY <1>1 DEF Init, Awaiting, NeverAsleep
<1>8. Serving
  BY <1>1 DEF Init, Serving
<1> QED
  BY <1>2, <1>3, <1>4, <1>5, <1>6, <1>7, <1>8 DEF IInv

(* Every step preserves it.                                                *)
LEMMA Inductive == IInv /\ [Next]_vars => IInv'
<1> SUFFICES ASSUME IInv, [Next]_vars PROVE IInv'
  OBVIOUS
<1>1. /\ TypeOK /\ Placing /\ Quieting /\ Saving /\ Arming /\ ArmedIsSaved
      /\ Awaiting /\ Serving
  BY DEF IInv
<1>2. ClockTypes /\ ThreadTypes /\ TimerTypes /\ EventTypes
  BY <1>1, TypeParts
<1>3. ClockTypes' /\ ThreadTypes' /\ TimerTypes' /\ EventTypes'
  BY <1>1, <1>2, ClockStep, ThreadStep, TimerTypeStep, EventStep
<1>4. TypeOK'
  BY <1>3 DEF TypeOK, ClockTypes, ThreadTypes, TimerTypes, EventTypes
<1>5. Placing' /\ Quieting'
  BY <1>1, PlacingStep, QuietingStep
<1>6. Saving' /\ Arming' /\ ArmedIsSaved' /\ Awaiting'
  BY <1>1, SavingStep, ArmingStep, AwaitingStep
<1>7. Serving'
  BY <1>1, ServingStep
<1> QED
  BY <1>4, <1>5, <1>6, <1>7 DEF IInv

(* In every reachable state each thread of a trigger has what it is said to*)
(* have above, and the next time, the file and the timer agree.            *)
THEOREM Invariance == Spec => []IInv
BY Initially, Inductive, PTL DEF Spec

(* Every variable has its type, the bounds of the setup included.          *)
THEOREM Typing == Spec => []TypeOK
<1>1. IInv => TypeOK
  BY DEF IInv
<1> QED
  BY <1>1, Invariance, PTL

(* The next time is saved before the timer is armed, and is what it is     *)
(* armed for, whenever the power is lost (utimers.c:645, 699,              *)
(* unitd.sh:41-44).                                                        *)
THEOREM ArmedTimesAreSaved == Spec => []ArmedIsSaved
<1>1. IInv => ArmedIsSaved
  BY DEF IInv
<1> QED
  BY <1>1, Invariance, PTL

(* A next time that was saved stays on disk until the unit has been        *)
(* executed, whatever is lost, stopped or shut down in between             *)
(* (utimers.c:637-648, 685-699).                                           *)
THEOREM NoExecutionIsMissed == Spec => []NothingMissed
<1>1. IInv => NothingMissed
  BY DEF IInv, Saving, NothingMissed
<1> QED
  BY <1>1, Invariance, PTL

(* A trigger that has been stopped executes nothing any more, unless it was*)
(* stopped before its thread had begun (process.c:395-410, notifier.c:     *)
(* 420-440).                                                               *)
THEOREM StoppedTriggersAreQuiet == Spec => []StoppedIsQuiet
<1>1. IInv => StoppedIsQuiet
  BY DEF IInv, Quieting, StoppedIsQuiet
<1> QED
  BY <1>1, Invariance, PTL

(* A timer that waits has something to wait for, when its interval is two  *)
(* seconds or more; with one second the clock may leave nothing to wait for*)
(* between its two readings (utimers.c:533-560, 655-700).                  *)
THEOREM TimersNeverSleep ==
  ASSUME Interval > 1
  PROVE  Spec => []NeverAsleep
<1>1. IInv => NeverAsleep
  BY DEF IInv, Awaiting
<1> QED
  BY <1>1, Invariance, PTL

(* Every change is followed by an execution that begins after it, although *)
(* events are dropped when one of them has led to an execution             *)
(* (notifier.c:305-345).                                                   *)
THEOREM ChangesAreServed == Spec => []ChangeIsServed
<1>1. IInv => ChangeIsServed
  BY DEF IInv, Serving, ChangeIsServed, HitIn
<1> QED
  BY <1>1, Invariance, PTL

=============================================================================
