-------------------------- MODULE UnitServerAnswers --------------------------
(***************************************************************************)
(* What a request has done when it is answered, what the client reads then,*)
(* and that units which exclude each other are never enabled together:     *)
(* properties of UnitServer that relate a whole request to the links and   *)
(* the units, for every sequence of steps that its handler takes.          *)
(***************************************************************************)
EXTENDS UnitServerProofs

-----------------------------------------------------------------------------
(* The steps a handler has still to do, whatever their order; and those    *)
(* but the first.                                                          *)
ToDo == Range(task.todo)
Rest == {task.todo[j] : j \in {j \in DOMAIN task.todo : j > 1}}

Has(ops)       == \E y \in ToDo : y.op \in ops
HasFor(ops, u) == \E y \in ToDo : y.op \in ops /\ y.unit = u

(* Which steps belong to which request. *)
Allowed(op, command) ==
  /\ op \in {"enable", "check", "verify", "link"} => command = "enable"
  /\ op \in {"disable", "unlink"} => command \in {"enable", "disable"}
  /\ op \in {"load", "start", "add", "stopAll"} => command \in {"start", "enable"}
  /\ op = "run" => command \in {"start", "enable", "boot"}
  /\ op \in {"set-default", "rm", "ln"} => command = "set-default"
  /\ op \in {"status", "list", "get-default"} => command = op

Suited == \A y \in ToDo : Allowed(y.op, task.command)

(* What is still to come of what a request without an error promises.      *)
(* Every state that is wanted and looked at is linked, or is to be linked; *)
(* nothing is linked before the last conflict has been disabled.           *)
Wanted == Conf(task.arg, task.conf).wanted \cap Range(Considered)

Enabling ==
  task.command = "enable" /\ ~task.error =>
    \/ HasFor({"enable", "check", "verify"}, task.arg)
    \/ \E y \in ToDo :
         /\ y.op = "link" /\ y.unit = task.arg
         /\ \A s \in Wanted : \/ s \in Range(y.left)
                              \/ <<task.arg, s>> \in links /\ ~Has({"disable", "unlink"})
    \/ /\ ~Has({"enable", "check", "verify", "disable", "unlink", "link"})
       /\ \A s \in Wanted : <<task.arg, s>> \in links

Disabling ==
  task.command = "disable" /\ ~task.error =>
    HasFor({"disable", "unlink"}, task.arg) \/ ~IsEnabled(task.arg)

(* The steps that will stop a unit. *)
Stops(y, u) ==
  /\ y.op \in {"stop", "disable", "unlink"} /\ y.unit = u
  /\ y.op = "disable" => ~y.nested
  /\ y.op = "unlink" => y.stop

Stopping ==
  /\ task.command = "stop" \/ (task.command = "disable" /\ Opt("run"))
  /\ ~task.error
  => (\E y \in ToDo : Stops(y, task.arg)) \/ task.arg \in Leaving

Starting ==
  task.command = "start" /\ ~task.error =>
    \/ HasFor({"start", "load", "add"}, task.arg)
    \/ task.arg \in Units /\ mem[task.arg] # None /\ \A y \in ToDo : y.op = "run"

Defaulting ==
  task.command = "set-default" /\ ~task.error =>
    HasFor({"set-default", "ln"}, task.arg) \/ (dflt = task.arg /\ ToDo = {})

Kept == Enabling /\ Disabling /\ Stopping /\ Starting /\ Defaulting

Promising == Suited /\ (task.command # None => Kept)

(* The units that u excludes and that exclude it; the states in which they *)
(* are never linked together; as long as files do not change and scripts   *)
(* do not fail.                                                            *)
Excluders(u) == {v \in Units : v \in OnDisk(u).conflicts /\ u \in OnDisk(v).conflicts}
Scope        == IF setup.cmdline = None THEN UnitStates ELSE Range(Considered)
Fixed        == failed = 0 /\ \A u \in Units : Len(setup.conf[u]) = 1

Excluding ==
  Fixed => \A u \in Units : \A v \in Excluders(u) : \A s \in Scope :
    <<u, s>> \in links => <<v, s>> \notin links

(* Before a unit is linked its conflicts are disabled.                     *)
Clearing ==
  Fixed => \A y \in ToDo : y.op = "link" =>
    /\ Range(y.left) \subseteq {default, setup.cmdline, "reboot", "poweroff"}
    /\ \A v \in OnDisk(y.unit).conflicts : IsEnabled(v) => HasFor({"disable", "unlink"}, v)
-----------------------------------------------------------------------------
(* The steps as a set. *)

LEMMA ToDoIs ==
  ASSUME Serving, task.todo # <<>>
  PROVE  /\ ToDo = {Step} \cup Rest /\ ToDo \subseteq Steps /\ Step \in Steps
         /\ Rest \subseteq Steps
<1>1. /\ Step = task.todo[1] /\ 1 \in DOMAIN task.todo /\ task.todo[1] \in Steps
      /\ \A i \in DOMAIN task.todo : task.todo[i] \in Steps
  BY AtStep
<1>2. \A i \in DOMAIN task.todo : i = 1 \/ i > 1
  <2>1. task.todo \in Seq(Steps)
    BY DEF Serving
  <2> QED
    BY <2>1
<1> QED
  BY <1>1, <1>2 DEF ToDo, Rest, Range

LEMMA RestFollows ==
  ASSUME Serving, Planning, task.todo # <<>>
  PROVE  \A y \in Rest : Follows(Step, y) /\ y \in Feasible
BY HeadFollows DEF Rest

LEMMA NewToDo ==
  ASSUME Serving, task.todo # <<>>, NEW t \in Seq(Steps), task'.todo = t \o Tail(task.todo)
  PROVE  ToDo' = Range(t) \cup Rest
<1> DEFINE n == task'.todo
           s == task.todo
<1>1. s \in Seq(Steps) /\ s # <<>> /\ n = t \o Tail(s)
  BY DEF Serving
<1>2. /\ ToDo' = {n[k] : k \in DOMAIN n}
      /\ Rest = {s[j] : j \in {j \in DOMAIN s : j > 1}}
  BY DEF ToDo, Range, Rest
<1>3. Range(t) = {t[k] : k \in DOMAIN t}
  BY DEF Range
<1> HIDE DEF n, s
<1>4. /\ \A k \in DOMAIN n : \/ k \in DOMAIN t /\ n[k] = t[k]
                             \/ /\ k > Len(t) /\ k - Len(t) + 1 \in DOMAIN s
                                /\ k - Len(t) + 1 > 1 /\ n[k] = s[k - Len(t) + 1]
      /\ \A k \in DOMAIN t : k \in DOMAIN n /\ n[k] = t[k]
      /\ \A k \in DOMAIN s : k > 1 => /\ k - 1 + Len(t) \in DOMAIN n
                                      /\ n[k - 1 + Len(t)] = s[k]
  BY <1>1, Replaced, SMTT(60)
<1>5. /\ \A k \in DOMAIN n : \/ k \in DOMAIN t /\ n[k] = t[k]
                             \/ \E j \in DOMAIN s : j > 1 /\ n[k] = s[j]
      /\ \A k \in DOMAIN t : k \in DOMAIN n /\ n[k] = t[k]
      /\ \A k \in DOMAIN s : k > 1 => \E i \in DOMAIN n : n[i] = s[k]
  BY <1>4
<1>7. ToDo' \subseteq Range(t) \cup Rest
  BY <1>2, <1>3, <1>5
<1>8. Range(t) \subseteq ToDo' /\ Rest \subseteq ToDo'
  BY <1>2, <1>3, <1>5
<1> QED
  BY <1>7, <1>8

LEMMA RangeConcat ==
  ASSUME NEW s \in Seq(Steps), NEW t \in Seq(Steps)
  PROVE  s \o t \in Seq(Steps) /\ Range(s \o t) = Range(s) \cup Range(t)
<1> DEFINE n == s \o t
<1>1. /\ n \in Seq(Steps) /\ Len(n) = Len(s) + Len(t)
      /\ \A i \in 1..Len(n) : n[i] = IF i <= Len(s) THEN s[i] ELSE t[i - Len(s)]
  BY ConcatProperties
<1>2. DOMAIN n = 1..Len(n) /\ DOMAIN s = 1..Len(s) /\ DOMAIN t = 1..Len(t)
      /\ Len(s) \in Nat /\ Len(t) \in Nat
  BY <1>1, LenProperties
<1> HIDE DEF n
<1>3. Range(n) \subseteq Range(s) \cup Range(t)
  <2> SUFFICES ASSUME NEW i \in 1..Len(n) PROVE n[i] \in Range(s) \cup Range(t)
    BY <1>2 DEF Range
  <2>1. CASE i <= Len(s)
    <3>1. n[i] = s[i] /\ i \in DOMAIN s
      BY <1>1, <1>2, <2>1
    <3> QED
      BY <3>1 DEF Range
  <2>2. CASE i > Len(s)
    <3>1. n[i] = t[i - Len(s)] /\ i - Len(s) \in DOMAIN t
      BY <1>1, <1>2, <2>2
    <3> QED
      BY <3>1 DEF Range
  <2> QED
    BY <1>2, <2>1, <2>2
<1>4. Range(s) \subseteq Range(n)
  <2>1. \A i \in DOMAIN s : i \in DOMAIN n /\ n[i] = s[i]
    BY <1>1, <1>2
  <2> QED
    BY <2>1 DEF Range
<1>5. \A i \in DOMAIN t : Len(s) + i \in DOMAIN n /\ n[Len(s) + i] = t[i]
  BY <1>1, <1>2
<1>6. Range(t) \subseteq Range(n)
  BY <1>5 DEF Range
<1> QED
  BY <1>1, <1>3, <1>4, <1>6 DEF n

LEMMA Ranges ==
  /\ Range(<<>>) = {} /\ <<>> \in Seq(Steps)
  /\ \A x \in Steps : Range(<<x>>) = {x} /\ <<x>> \in Seq(Steps)
  /\ \A x, y \in Steps : Range(<<x, y>>) = {x, y} /\ <<x, y>> \in Seq(Steps)
<1>1. Range(<<>>) = {} /\ <<>> \in Seq(Steps)
  BY EmptySeq DEF Range
<1>2. ASSUME NEW x \in Steps PROVE Range(<<x>>) = {x} /\ <<x>> \in Seq(Steps)
  <2>1. DOMAIN <<x>> = {1} /\ <<x>>[1] = x
    OBVIOUS
  <2> QED
    BY <2>1 DEF Range
<1>3. ASSUME NEW x \in Steps, NEW y \in Steps
      PROVE  Range(<<x, y>>) = {x, y} /\ <<x, y>> \in Seq(Steps)
  <2>1. DOMAIN <<x, y>> = {1, 2} /\ <<x, y>>[1] = x /\ <<x, y>>[2] = y
    OBVIOUS
  <2>2. <<x, y>> \in Seq(Steps)
    OBVIOUS
  <2> QED
    BY <2>1, <2>2 DEF Range
<1> QED
  BY <1>1, <1>2, <1>3

(* The task of the same request.                                           *)
Onward == /\ task'.command = task.command /\ task'.arg = task.arg
          /\ task'.options = task.options /\ (task.error => task'.error)

(* A step is replaced by others, or the rest is refused with an error.     *)
Left(new) == ToDo' = new \cup Rest /\ task'.conf = task.conf
Refused   == ToDo' \in {Rest, {}} /\ task'.error /\ task'.conf = task.conf

LEMMA DoLeaves ==
  ASSUME LoopTypes, Serving, task.todo # <<>>, NEW t \in Seq(Steps), Do(t)
  PROVE  Onward /\ Left(Range(t))
<1>1. /\ task'.command = task.command /\ task'.arg = task.arg /\ task'.error = task.error
      /\ task'.options = task.options /\ task'.conf = task.conf
      /\ task'.todo = t \o Tail(task.todo)
  BY DEF Do, LoopTypes, Idle
<1> QED
  BY <1>1, NewToDo DEF Onward, Left

LEMMA DoOne ==
  ASSUME LoopTypes, Serving, task.todo # <<>>, NEW x \in Steps, Do(<<x>>)
  PROVE  Onward /\ Left({x})
<1>1. PICK t \in Seq(Steps) : t = <<x>> /\ Range(t) = {x}
  BY Ranges
<1>2. Onward /\ Left(Range(t))
  BY <1>1, DoLeaves
<1> QED
  BY <1>1, <1>2

LEMMA DoTwo ==
  ASSUME LoopTypes, Serving, task.todo # <<>>, NEW x \in Steps, NEW y \in Steps, Do(<<x, y>>)
  PROVE  Onward /\ Left({x, y})
<1>1. PICK t \in Seq(Steps) : t = <<x, y>> /\ Range(t) = {x, y}
  BY Ranges
<1>2. Do(t)
  BY <1>1
<1>3. Onward /\ Left(Range(t))
  BY <1>2, DoLeaves
<1> QED
  BY <1>1, <1>3

LEMMA RefuseLeaves ==
  ASSUME LoopTypes, Serving, task.todo # <<>>, Refuse
  PROVE  Onward /\ Refused /\ ToDo' = Rest
<1>1. /\ task'.command = task.command /\ task'.arg = task.arg /\ task'.error
      /\ task'.options = task.options /\ task'.conf = task.conf
  BY DEF Refuse, LoopTypes, Idle
<1>2. task'.todo = <<>> \o Tail(task.todo)
  BY Refusing
<1>3. PICK t \in Seq(Steps) : t = <<>> /\ Range(t) = {}
  BY Ranges
<1>4. task'.todo = t \o Tail(task.todo)
  BY <1>2, <1>3
<1>5. ToDo' = Range(t) \cup Rest
  BY <1>4, NewToDo
<1>6. ToDo' = Rest
  BY <1>3, <1>5
<1> QED
  BY <1>1, <1>6 DEF Onward, Refused
-----------------------------------------------------------------------------
(* What a step of a handler leaves to be done unless it refuses the        *)
(* request: the steps of which sort, and which one about the same unit.    *)
May(x, y) ==
  \/ x.op \in {"stop", "stopAll"} /\ y.op \in {"kill", "clear"}
  \/ x.op = "start"       /\ y.op \in {"stop", "load"}
  \/ x.op = "load"        /\ y.op \in {"stopAll", "add"}
  \/ x.op = "add"         /\ y.op = "run"
  \/ x.op = "disable"     /\ y.op = "unlink"
  \/ x.op = "unlink"      /\ y.op \in {"unlink", "stop"}
  \/ x.op = "enable"      /\ y.op \in {"disable", "check"}
  \/ x.op = "check"       /\ y.op \in {"disable", "verify"}
  \/ x.op = "verify"      /\ y.op \in {"disable", "stopAll", "link"}
  \/ x.op = "link"        /\ y.op \in {"link", "start"}
  \/ x.op = "set-default" /\ y.op \in {"rm", "ln"}

Then(op, u) == \E y \in ToDo' : y.op = op /\ y.unit = u

(* The steps that disable the conflicts, and those that link the unit.     *)
Unlinks ==
  /\ Step.op = "disable" =>
       \E y \in ToDo' : /\ y.op = "unlink" /\ y.unit = Step.unit
                        /\ Opt("run") /\ ~Step.nested => y.stop
  /\ Step.op = "unlink" /\ Step.left # <<>> =>
       \E y \in ToDo' : y.op = "unlink" /\ y.unit = Step.unit /\ (Step.stop => y.stop)
  /\ Step.op = "unlink" /\ Step.left = <<>> /\ Step.stop => Then("stop", Step.unit)

Links ==
  /\ Step.op = "verify" =>
       /\ Then("link", Step.unit)
       /\ \A y \in ToDo' : y.op = "link" =>
            y.unit = Step.unit /\ Range(y.left) = Targets(Conf(Step.unit, task.conf))
       /\ \A v \in Conf(Step.unit, task.conf).conflicts : IsRival(v) => Then("disable", v)
  /\ Step.op = "link" /\ Step.left # <<>> =>
       \E y \in ToDo' : /\ ToDo' = {y} /\ y.op = "link" /\ y.unit = Step.unit
                        /\ y.left = Tail(Step.left)
  /\ Step.op = "link" /\ Step.left = <<>> => \A y \in ToDo' : y.op = "start"

Proceeds ==
  /\ Rest \subseteq ToDo' /\ \A y \in ToDo' : y \in Rest \/ May(Step, y)
  /\ Step.op # "check" => task'.conf = task.conf
  /\ Step.op = "start"       => Then("load", Step.unit)
  /\ Step.op = "load"        => Then("add", Step.unit)
  /\ Step.op = "enable"      => Then("check", Step.unit)
  /\ Step.op = "check"       => Then("verify", Step.unit)
  /\ Step.op = "set-default" => Then("ln", Step.unit)
  /\ Unlinks /\ Links

(* Nothing is left of the step. *)
LEMMA Dropping ==
  ASSUME LoopTypes, Serving, task.todo # <<>>, Refuse \/ Do(<<>>),
         Step.op \in {"stop", "kill", "clear", "run", "rm", "ln", "status", "list", "get-default"}
  PROVE  Onward /\ (Refused \/ Proceeds)
<1>1. CASE Refuse
  BY <1>1, RefuseLeaves
<1>2. CASE Do(<<>>)
  <2>1. Onward /\ Left({})
    BY <1>2, Ranges, DoLeaves
  <2> QED
    BY <2>1 DEF Left, Proceeds, Unlinks, Links
<1> QED
  BY <1>1, <1>2

(* Units, each with a step of its own. *)
LEMMA EachSteps ==
  ASSUME NEW us \in SUBSET Units, NEW op \in {"kill", "clear"}
  PROVE  LET t == [i \in DOMAIN SetToSeq(us) |-> S(op, SetToSeq(us)[i])] IN
         t \in Seq(Steps) /\ \A y \in Range(t) : y.op = op
<1> DEFINE s == SetToSeq(us)
           t == [i \in DOMAIN s |-> S(op, s[i])]
<1>1. IsFiniteSet(us)
  BY ServerAssumption, FS_Subset
<1>2. s \in Seq(us)
  BY <1>1, Listed
<1> HIDE DEF s
<1>3. \A i \in DOMAIN s : S(op, s[i]) \in Steps /\ S(op, s[i]).op = op
  BY <1>2 DEF S, Steps
<1>4. DOMAIN t = DOMAIN s /\ \A i \in DOMAIN t : t[i] \in Steps /\ t[i].op = op
  BY <1>3
<1>5. DOMAIN s = 1..Len(s) /\ Len(s) \in Nat
  BY <1>2
<1>6. t \in [1..Len(s) -> Steps]
  BY <1>3, <1>5
<1> HIDE DEF t
<1>7. t \in Seq(Steps)
  BY <1>5, <1>6, IsSequence
<1> QED
  BY <1>4, <1>7 DEF Range, t, s

LEMMA StopUnitProceeds ==
  ASSUME LoopTypes, Serving, StopUnit
  PROVE  Onward /\ Proceeds
<1>1. At("stop")
  BY DEF StopUnit
<1>2. PICK u \in Units : task.todo # <<>> /\ u = Step.unit /\ Step.op = "stop"
  BY <1>1, AtUnit
<1>3. Do((IF Runs(u) THEN <<S("kill", u)>> ELSE <<>>) \o <<S("clear", u)>>)
  BY <1>2 DEF StopUnit
<1>4. S("kill", u) \in Steps /\ S("kill", u).op = "kill"
      /\ S("clear", u) \in Steps /\ S("clear", u).op = "clear"
  BY DEF S, Steps
<1> DEFINE a == IF Runs(u) THEN <<S("kill", u)>> ELSE <<>>
           b == <<S("clear", u)>>
<1>5. a \in Seq(Steps) /\ b \in Seq(Steps) /\ \A y \in Range(a) \cup Range(b) : y.op \in {"kill", "clear"}
  BY <1>4, Ranges
<1>6. Do(a \o b)
  BY <1>3
<1> HIDE DEF a, b
<1>7. Onward /\ Left(Range(a) \cup Range(b))
  BY <1>2, <1>5, <1>6, RangeConcat, DoLeaves
<1> QED
  BY <1>2, <1>5, <1>7 DEF Left, Proceeds, May, Unlinks, Links

LEMMA StopAllProceeds ==
  ASSUME LoopTypes, Serving, StopAll
  PROVE  Onward /\ Proceeds
<1>1. At("stopAll")
  BY DEF StopAll
<1>2. task.todo # <<>> /\ Step.op = "stopAll" /\ Step \in Steps
  BY <1>1, AtOther
<1>3. PICK us \in SUBSET Units : us = Step.units
  BY <1>2, StepTypes
<1>4. PICK ks \in SUBSET Units : ks = {v \in Step.units : Runs(v)}
  BY <1>3
<1> DEFINE a == [i \in DOMAIN SetToSeq(ks) |-> S("kill", SetToSeq(ks)[i])]
           b == [i \in DOMAIN SetToSeq(us) |-> S("clear", SetToSeq(us)[i])]
<1>5. Do(a \o b)
  BY <1>3, <1>4 DEF StopAll
<1>6. a \in Seq(Steps) /\ b \in Seq(Steps) /\ \A y \in Range(a) \cup Range(b) : y.op \in {"kill", "clear"}
  BY EachSteps
<1> HIDE DEF a, b
<1>7. Onward /\ Left(Range(a) \cup Range(b))
  BY <1>2, <1>5, <1>6, RangeConcat, DoLeaves
<1> QED
  BY <1>2, <1>6, <1>7 DEF Left, Proceeds, May, Unlinks, Links

LEMMA StartUnitProceeds ==
  ASSUME LoopTypes, Serving, StartUnit
  PROVE  Onward /\ (Refused \/ Proceeds)
<1>1. At("start")
  BY DEF StartUnit
<1>2. PICK u \in Units : task.todo # <<>> /\ u = Step.unit /\ Step.op = "start" /\ Step \in Steps
  BY <1>1, AtUnit
<1>3. Step.told \in BOOLEAN
  BY <1>2, StepTypes
<1>4. PICK load : load = [op |-> "load", unit |-> u, told |-> Step.told]
  OBVIOUS
<1>5. load \in Steps /\ load.op = "load" /\ load.unit = u
  BY <1>3, <1>4 DEF Steps
<1>6. Stop(u, FALSE) \in Steps /\ Stop(u, FALSE).op = "stop"
  BY DEF Stop, Steps
<1>7. Refuse \/ Do(<<Stop(u, FALSE), load>>) \/ Do(<<load>>)
  BY <1>2, <1>4 DEF StartUnit
<1>8. Refuse => Onward /\ Refused
  BY <1>2, RefuseLeaves
<1>9. Do(<<Stop(u, FALSE), load>>) => Onward /\ Left({Stop(u, FALSE), load})
  BY <1>2, <1>5, <1>6, DoTwo
<1>10. Do(<<load>>) => Onward /\ Left({load})
  BY <1>2, <1>5, DoOne
<1> QED
  BY <1>2, <1>5, <1>6, <1>7, <1>8, <1>9, <1>10 DEF Left, Proceeds, May, Then, Unlinks, Links

LEMMA LoadProceeds ==
  ASSUME DiskTypes, LoopTypes, Serving, Load
  PROVE  Onward /\ (Refused \/ Proceeds)
<1>1. At("load")
  BY DEF Load
<1>2. PICK u \in Units : task.todo # <<>> /\ u = Step.unit /\ Step.op = "load" /\ Step \in Steps
  BY <1>1, AtUnit
<1> DEFINE rivals == {v \in OnDisk(u).conflicts : mem[v] # None /\ Active(mem[v])}
           enabled == IF Step.told THEN IsEnabled(u) ELSE TRUE
           all == [op |-> "stopAll", units |-> rivals]
           add == [op |-> "add", unit |-> u, conf |-> file[u], enabled |-> enabled]
           a == IF rivals = {} THEN <<>> ELSE <<all>>
<1>3. Refuse \/ Do(a \o <<add>>)
  BY <1>2 DEF Load
<1>4. rivals \in SUBSET Units /\ file[u] \in Nat
  BY ConfFacts DEF ConfType
<1>5. enabled \in BOOLEAN
  BY DEF IsEnabled
<1> HIDE DEF rivals, enabled
<1>6. all \in Steps /\ all.op = "stopAll" /\ add \in Steps /\ add.op = "add" /\ add.unit = u
  BY <1>4, <1>5 DEF Steps
<1> HIDE DEF all, add
<1>7. a \in Seq(Steps) /\ <<add>> \in Seq(Steps) /\ Range(<<add>>) = {add} /\ Range(a) \subseteq {all}
  BY <1>6, Ranges
<1> HIDE DEF a
<1>8. Refuse => Onward /\ Refused
  BY <1>2, RefuseLeaves
<1> DEFINE b == <<add>>
<1>b. b \in Seq(Steps) /\ Range(b) = {add}
  BY <1>7
<1> HIDE DEF b
<1>d. a \o b \in Seq(Steps) /\ Range(a \o b) = Range(a) \cup {add}
  BY <1>7, <1>b, RangeConcat
<1>c. Do(a \o b) => Onward /\ Left(Range(a) \cup {add})
  BY <1>2, <1>d, DoLeaves
<1>9. Do(a \o <<add>>) => Onward /\ Left(Range(a) \cup {add})
  BY <1>c DEF b
<1> QED
  BY <1>2, <1>3, <1>6, <1>7, <1>8, <1>9 DEF Left, Proceeds, May, Then, Unlinks, Links

LEMMA AddProceeds ==
  ASSUME LoopTypes, Serving, Add
  PROVE  Onward /\ Proceeds
<1>1. At("add")
  BY DEF Add
<1>2. PICK u \in Units : task.todo # <<>> /\ u = Step.unit /\ Step.op = "add"
  BY <1>1, AtUnit
<1>3. S("run", u) \in Steps /\ S("run", u).op = "run"
  BY DEF S, Steps
<1>4. Do(<<S("run", u)>>)
  BY <1>2 DEF Add
<1>5. Onward /\ Left({S("run", u)})
  BY <1>2, <1>3, <1>4, DoOne
<1> QED
  BY <1>2, <1>3, <1>5 DEF Left, Proceeds, May, Unlinks, Links

LEMMA DisableUnitProceeds ==
  ASSUME DiskTypes, LoopTypes, Serving, DisableUnit
  PROVE  Onward /\ (Proceeds \/ (Refused /\ ~IsRival(Step.unit)))
<1>1. At("disable")
  BY DEF DisableUnit
<1>2. PICK u \in Units : task.todo # <<>> /\ u = Step.unit /\ Step.op = "disable" /\ Step \in Steps
  BY <1>1, AtUnit
<1>3. PICK stop \in BOOLEAN : stop = (Opt("run") /\ ~Step.nested)
  OBVIOUS
<1>4. PICK x : x = [op |-> "unlink", unit |-> u, left |-> Considered, stop |-> stop]
  OBVIOUS
<1>5. x \in Steps /\ x.op = "unlink" /\ x.unit = u /\ x.stop = stop
  BY <1>4, ConsideredTypes DEF Steps
<1>6. (Refuse /\ ~IsRival(u)) \/ Do(<<x>>)
  BY <1>2, <1>3, <1>4 DEF DisableUnit, IsRival
<1>7. Refuse => Onward /\ Refused
  BY <1>2, RefuseLeaves
<1>8. Do(<<x>>) => Onward /\ Left({x})
  BY <1>2, <1>5, DoOne
<1> QED
  BY <1>2, <1>3, <1>5, <1>6, <1>7, <1>8 DEF Left, Proceeds, May, Unlinks, Links

LEMMA UnlinkProceeds ==
  ASSUME LoopTypes, Serving, Unlink
  PROVE  Onward /\ (Proceeds \/ (Refused /\ Fails))
<1>1. At("unlink")
  BY DEF Unlink
<1>2. PICK u \in Units : task.todo # <<>> /\ u = Step.unit /\ Step.op = "unlink" /\ Step \in Steps
  BY <1>1, AtUnit
<1>3. PICK left \in Seq(UnitStates), stop \in BOOLEAN :
        Step = [op |-> "unlink", unit |-> u, left |-> left, stop |-> stop]
  BY <1>2, StepTypes
<1>4. Step.left = left /\ Step.stop = stop
  BY <1>3
<1>5. Refuse => Onward /\ Refused
  BY <1>2, RefuseLeaves
<1>6. CASE left = <<>>
  <2>1. Do(IF stop THEN <<Stop(u, FALSE)>> ELSE <<>>)
    BY <1>2, <1>4, <1>6 DEF Unlink
  <2>2. Stop(u, FALSE) \in Steps /\ Stop(u, FALSE).op = "stop" /\ Stop(u, FALSE).unit = u
    BY DEF Stop, Steps
  <2>3. stop => Onward /\ Left({Stop(u, FALSE)})
    BY <1>2, <2>1, <2>2, Ranges, DoLeaves
  <2>4. ~stop => Onward /\ Left({})
    BY <1>2, <2>1, Ranges, DoLeaves
  <2> QED
    BY <1>2, <1>4, <1>6, <2>2, <2>3, <2>4 DEF Left, Proceeds, May, Then, Unlinks, Links
<1>7. CASE left # <<>>
  <2>1. PICK x, rest : /\ rest = Tail(left)
                       /\ x = [op |-> "unlink", unit |-> u, left |-> rest, stop |-> stop]
    OBVIOUS
  <2>2. [Step EXCEPT !.left = rest] = x
    <3>1. [Step EXCEPT !.left = rest] = [op |-> "unlink", unit |-> u, left |-> rest, stop |-> stop]
      BY <1>3
    <3> QED
      BY <2>1, <3>1, Zenon
  <2>3. Tail(left) \in Seq(UnitStates)
    BY <1>7, RangeOfTail
  <2>4. x \in Steps /\ x.op = "unlink" /\ x.unit = u /\ x.stop = stop
    BY <2>1, <2>3 DEF Steps
  <2>5. (Refuse /\ Fails) \/ Do(<<x>>)
    <3>1. (Refuse /\ Fails) \/ Do(<<[Step EXCEPT !.left = Tail(left)]>>)
      BY <1>4, <1>7 DEF Unlink
    <3> QED
      BY <2>1, <2>2, <3>1
  <2>6. Do(<<x>>) => Onward /\ Left({x})
    BY <1>2, <2>4, DoOne
  <2> QED
    BY <1>2, <1>4, <1>5, <1>7, <2>4, <2>5, <2>6 DEF Left, Proceeds, May, Unlinks, Links
<1> QED
  BY <1>6, <1>7

LEMMA EnableUnitProceeds ==
  ASSUME LoopTypes, Serving, EnableUnit
  PROVE  Onward /\ (Refused \/ Proceeds)
<1>1. At("enable")
  BY DEF EnableUnit
<1>2. PICK u \in Units : task.todo # <<>> /\ u = Step.unit /\ Step.op = "enable"
  BY <1>1, AtUnit
<1>3. PICK x, y, z : /\ x = [op |-> "check", unit |-> u, already |-> FALSE]
                     /\ y = [op |-> "check", unit |-> u, already |-> TRUE]
                     /\ z = Disable(u, FALSE)
  OBVIOUS
<1>4. /\ x \in Steps /\ x.op = "check" /\ x.unit = u
      /\ y \in Steps /\ y.op = "check" /\ y.unit = u
      /\ z \in Steps /\ z.op = "disable"
  BY <1>3 DEF Steps, Disable
<1>5. Refuse \/ Do(<<x>>) \/ Do(<<z, y>>)
  BY <1>2, <1>3 DEF EnableUnit
<1>6. Refuse => Onward /\ Refused
  BY <1>2, RefuseLeaves
<1>7. Do(<<x>>) => Onward /\ Left({x})
  BY <1>2, <1>4, DoOne
<1>8. Do(<<z, y>>) => Onward /\ Left({z, y})
  BY <1>2, <1>4, DoTwo
<1> QED
  BY <1>2, <1>4, <1>5, <1>6, <1>7, <1>8 DEF Left, Proceeds, May, Then, Unlinks, Links

LEMMA CheckProceeds ==
  ASSUME LoopTypes, Serving, Check
  PROVE  Onward /\ (Refused \/ Proceeds)
<1>1. At("check")
  BY DEF Check
<1>2. PICK u \in Units : task.todo # <<>> /\ u = Step.unit /\ Step.op = "check"
  BY <1>1, AtUnit
<1>3. CASE Refuse
  BY <1>2, <1>3, RefuseLeaves
<1>4. CASE ~Refuse
  <2> DEFINE a == IF mem[u] = None /\ IsEnabled(u) /\ ~Step.already
                  THEN <<Disable(u, FALSE)>> ELSE <<>>
             b == <<S("verify", u)>>
  <2>1. task' = [task EXCEPT !.conf = file[u], !.todo = a \o b \o Tail(@)]
    BY <1>2, <1>4 DEF Check
  <2>2. /\ S("verify", u) \in Steps /\ S("verify", u).op = "verify" /\ S("verify", u).unit = u
        /\ Disable(u, FALSE) \in Steps /\ Disable(u, FALSE).op = "disable"
    BY DEF Steps, Disable, S
  <2>a. a \in Seq(Steps) /\ \A y \in Range(a) : y.op = "disable"
    <3> DEFINE x == Disable(u, FALSE)
    <3>1. x \in Steps /\ x.op = "disable"
      BY <2>2
    <3>2. a = <<x>> \/ a = <<>>
      OBVIOUS
    <3> HIDE DEF x, a
    <3> QED
      BY <3>1, <3>2, Ranges
  <2>b. b \in Seq(Steps) /\ Range(b) = {S("verify", u)}
    BY <2>2, Ranges
  <2>3. /\ a \in Seq(Steps) /\ \A y \in Range(a) : y.op = "disable"
        /\ b \in Seq(Steps) /\ Range(b) = {S("verify", u)}
    BY <2>a, <2>b
  <2> HIDE DEF a, b
  <2>4. /\ task'.command = task.command /\ task'.arg = task.arg /\ task'.error = task.error
        /\ task'.options = task.options /\ task'.todo = a \o b \o Tail(task.todo)
    BY <2>1 DEF LoopTypes, Idle
  <2>5. a \o b \in Seq(Steps) /\ Range(a \o b) = Range(a) \cup {S("verify", u)}
    BY <2>3, RangeConcat
  <2>6. ToDo' = Range(a \o b) \cup Rest
    BY <1>2, <2>4, <2>5, NewToDo
  <2> QED
    BY <1>2, <2>2, <2>3, <2>4, <2>5, <2>6 DEF Onward, Proceeds, May, Then, Unlinks, Links
<1> QED
  BY <1>3, <1>4

LEMMA SetDefaultProceeds ==
  ASSUME LoopTypes, Serving, SetDefault
  PROVE  Onward /\ (Refused \/ Proceeds)
<1>1. At("set-default")
  BY DEF SetDefault
<1>2. task.todo # <<>> /\ Step.op = "set-default" /\ Step \in Steps
  BY <1>1, AtOther
<1>3. PICK s \in Levels : s = Step.unit
  BY <1>2, StepTypes
<1>4. PICK x, y : x = [op |-> "rm", unit |-> s] /\ y = [op |-> "ln", unit |-> s]
  OBVIOUS
<1>5. x \in Steps /\ x.op = "rm" /\ y \in Steps /\ y.op = "ln" /\ y.unit = s
  BY <1>4 DEF Steps
<1>6. Refuse \/ Do(<<x, y>>)
  BY <1>3, <1>4 DEF SetDefault
<1>7. Refuse => Onward /\ Refused
  BY <1>2, RefuseLeaves
<1>8. Do(<<x, y>>) => Onward /\ Left({x, y})
  BY <1>2, <1>5, DoTwo
<1> QED
  BY <1>2, <1>3, <1>5, <1>6, <1>7, <1>8 DEF Left, Proceeds, May, Then, Unlinks, Links

LEMMA EachDisabled ==
  ASSUME NEW us \in SUBSET Units
  PROVE  LET t == [i \in 1..Cardinality(us) |-> Disable(SetToSeq(us)[i], TRUE)] IN
         /\ t \in Seq(Steps) /\ \A y \in Range(t) : y.op = "disable"
         /\ \A v \in us : \E y \in Range(t) : y.op = "disable" /\ y.unit = v
<1> DEFINE s == SetToSeq(us)
           n == Cardinality(us)
           t == [i \in 1..n |-> Disable(s[i], TRUE)]
<1>1. IsFiniteSet(us)
  BY ServerAssumption, FS_Subset
<1>2. s \in [1..n -> us] /\ Range(s) = us /\ n \in Nat
  BY <1>1, Listed
<1> HIDE DEF s, n
<1>3. \A i \in 1..n : /\ Disable(s[i], TRUE) \in Steps /\ Disable(s[i], TRUE).op = "disable"
                      /\ Disable(s[i], TRUE).unit = s[i]
  BY <1>2 DEF Disable, Steps
<1>4. DOMAIN t = 1..n /\ \A i \in 1..n : t[i] \in Steps /\ t[i].op = "disable" /\ t[i].unit = s[i]
  BY <1>3
<1>5. t \in [1..n -> Steps]
  BY <1>3
<1> HIDE DEF t
<1>6. t \in Seq(Steps)
  BY <1>2, <1>5, IsSequence
<1>7. \A y \in Range(t) : y.op = "disable"
  BY <1>4 DEF Range
<1>8. ASSUME NEW v \in us PROVE \E y \in Range(t) : y.op = "disable" /\ y.unit = v
  <2>1. PICK i \in 1..n : s[i] = v
    BY <1>2 DEF Range
  <2>2. t[i] \in Range(t) /\ t[i].op = "disable" /\ t[i].unit = v
    BY <1>4, <2>1 DEF Range
  <2> QED
    BY <2>2
<1> QED
  BY <1>6, <1>7, <1>8 DEF t, n, s

LEMMA VerifyProceeds ==
  ASSUME DiskTypes, LoopTypes, Serving, Planning, Verify \/ VerifyRequires
  PROVE  Onward /\ (Refused \/ Proceeds)
<1>1. At("verify")
  BY DEF Verify, VerifyRequires
<1>2. PICK u \in Units : task.todo # <<>> /\ u = Step.unit /\ Step.op = "verify"
  BY <1>1, AtUnit
<1>3. task.conf \in DOMAIN setup.conf[u]
  BY <1>2, HeadFollows DEF Ready
<1>4. Rest = {}
  BY <1>2, NoTail DEF Rest
<1>5. CASE Refuse
  BY <1>2, <1>5, RefuseLeaves
<1>6. CASE ~Refuse
  <2> DEFINE c == Conf(u, task.conf)
             rivals == {v \in c.conflicts : IsRival(v)}
             victims == IF Opt("run") THEN {v \in rivals : mem[v] # None} ELSE {}
             disables == [i \in 1..Cardinality(rivals) |-> Disable(SetToSeq(rivals)[i], TRUE)]
             all == [op |-> "stopAll", units |-> victims]
             a == IF victims = {} THEN <<>> ELSE <<all>>
             link == [op |-> "link", unit |-> u, left |-> SetToSeq(Targets(c))]
             b == <<link>>
  <2>1. Do(disables \o a \o b)
    BY <1>2, <1>6 DEF Verify, VerifyRequires
  <2>2. /\ rivals \in SUBSET Units /\ victims \in SUBSET Units
        /\ \A v \in c.conflicts : IsRival(v) => v \in rivals
    BY <1>3, ConfFacts DEF ConfType
  <2>3. SetToSeq(Targets(c)) \in Seq(UnitStates) /\ Range(SetToSeq(Targets(c))) = Targets(c)
    BY <1>3, TargetsListed
  <2> HIDE DEF rivals, victims
  <2>4. /\ link \in Steps /\ link.op = "link" /\ link.unit = u /\ Range(link.left) = Targets(c)
    BY <2>3 DEF Steps
  <2>5. all \in Steps /\ all.op = "stopAll"
    BY <2>2 DEF Steps
  <2>6. /\ disables \in Seq(Steps) /\ \A y \in Range(disables) : y.op = "disable"
        /\ \A v \in rivals : \E y \in Range(disables) : y.op = "disable" /\ y.unit = v
    BY <2>2, EachDisabled
  <2> HIDE DEF link, all, disables
  <2>7. /\ a \in Seq(Steps) /\ \A y \in Range(a) : y.op = "stopAll"
        /\ b \in Seq(Steps) /\ Range(b) = {link}
    BY <2>4, <2>5, Ranges
  <2> HIDE DEF a, b
  <2>8. disables \o a \in Seq(Steps) /\ Range(disables \o a) = Range(disables) \cup Range(a)
    BY <2>6, <2>7, RangeConcat
  <2> DEFINE d == disables \o a
  <2>9. d \in Seq(Steps) /\ Range(d) = Range(disables) \cup Range(a)
    BY <2>8
  <2>10. Do(d \o b)
    BY <2>1
  <2> HIDE DEF d
  <2>11. d \o b \in Seq(Steps) /\ Range(d \o b) = Range(disables) \cup Range(a) \cup {link}
    BY <2>7, <2>9, RangeConcat
  <2>12. Onward /\ Left(Range(d \o b))
    BY <1>2, <2>10, <2>11, DoLeaves
  <2>13. ToDo' = Range(disables) \cup Range(a) \cup {link} /\ task'.conf = task.conf
    BY <1>4, <2>11, <2>12 DEF Left
  <2>14. \A y \in ToDo' : \/ y.op = "disable" \/ y.op = "stopAll"
                          \/ y.op = "link" /\ y.unit = u /\ Range(y.left) = Targets(c)
    BY <2>4, <2>6, <2>7, <2>13
  <2>15. \A v \in c.conflicts : IsRival(v) => Then("disable", v)
    BY <2>2, <2>6, <2>13 DEF Then
  <2>16. Then("link", u)
    BY <2>4, <2>13 DEF Then
  <2> HIDE DEF c
  <2>17. Links
    BY <1>2, <2>14, <2>15, <2>16 DEF Links, c
  <2>18. \A y \in ToDo' : May(Step, y)
    BY <1>2, <2>14 DEF May
  <2> QED
    BY <1>2, <1>4, <2>12, <2>13, <2>17, <2>18 DEF Proceeds, Unlinks
<1> QED
  BY <1>5, <1>6

LEMMA LinkProceeds ==
  ASSUME LoopTypes, Serving, Planning, Link
  PROVE  Onward /\ (Refused \/ Proceeds)
<1>1. At("link")
  BY DEF Link
<1>2. PICK u \in Units : task.todo # <<>> /\ u = Step.unit /\ Step.op = "link" /\ Step \in Steps
  BY <1>1, AtUnit
<1>3. PICK left \in Seq(UnitStates) : Step = [op |-> "link", unit |-> u, left |-> left]
  BY <1>2, StepTypes
<1>4. Step.left = left
  BY <1>3
<1>5. Refuse => Onward /\ Refused
  BY <1>2, RefuseLeaves
<1>6. Rest = {}
  BY <1>2, NoTail DEF Rest
<1>7. CASE left = <<>>
  <2>1. Do(<<Start(u, FALSE)>>) \/ Do(<<>>)
    BY <1>2, <1>4, <1>7 DEF Link
  <2>2. Start(u, FALSE) \in Steps /\ Start(u, FALSE).op = "start"
    BY DEF Start, Steps
  <2>3. Do(<<Start(u, FALSE)>>) => Onward /\ Left({Start(u, FALSE)})
    BY <1>2, <2>2, DoOne
  <2>4. Do(<<>>) => Onward /\ Left({})
    BY <1>2, Ranges, DoLeaves
  <2> QED
    BY <1>2, <1>4, <1>6, <1>7, <2>1, <2>2, <2>3, <2>4 DEF Left, Proceeds, May, Unlinks, Links
<1>8. CASE left # <<>>
  <2>1. PICK x, rest : rest = Tail(left) /\ x = [op |-> "link", unit |-> u, left |-> rest]
    OBVIOUS
  <2>2. [Step EXCEPT !.left = rest] = x
    <3>1. [Step EXCEPT !.left = rest] = [op |-> "link", unit |-> u, left |-> rest]
      BY <1>3
    <3> QED
      BY <2>1, <3>1, Zenon
  <2>3. rest \in Seq(UnitStates)
    BY <1>8, <2>1, RangeOfTail
  <2>4. x \in Steps /\ x.op = "link" /\ x.unit = u /\ x.left = rest
    BY <2>1, <2>3 DEF Steps
  <2>5. Refuse \/ Do(<<x>>)
    <3>1. Refuse \/ Do(<<[Step EXCEPT !.left = Tail(left)]>>)
      BY <1>4, <1>8 DEF Link
    <3> QED
      BY <2>1, <2>2, <3>1
  <2>6. Do(<<x>>) => Onward /\ Left({x})
    BY <1>2, <2>4, DoOne
  <2>7. Left({x}) => ToDo' = {x} /\ task'.conf = task.conf
    BY <1>6 DEF Left
  <2>8. ToDo' = {x} => Links
    BY <1>2, <1>4, <1>8, <2>1, <2>4 DEF Links
  <2> QED
    BY <1>2, <1>5, <1>6, <2>4, <2>5, <2>6, <2>7, <2>8 DEF Proceeds, May, Unlinks
<1> QED
  BY <1>7, <1>8

(* Whatever a handler does, it goes on or has refused the request.         *)
LEMMA Proceeding ==
  ASSUME Sound, Working \/ Writing
  PROVE  task.todo # <<>> /\ Onward /\ (Refused \/ Proceeds)
<1>1. DiskTypes /\ LoopTypes /\ Serving /\ Planning
  BY DEF Sound
<1>2. task.todo # <<>>
  BY <1>1, WorkingAt, WritingFrame
<1>3. CASE StopDead \/ Kill \/ Clear \/ Run \/ LinkDefault \/ Show
  <2>1. Refuse \/ Do(<<>>)
    BY <1>3 DEF StopDead, Kill, Clear, Run, LinkDefault, Show
  <2>2. Step.op \in {"stop", "kill", "clear", "run", "ln", "status", "list", "get-default"}
    BY <1>3 DEF StopDead, Kill, Clear, Run, LinkDefault, Show, At, Step
  <2> QED
    BY <1>1, <1>2, <2>1, <2>2, Dropping
<1>4. CASE DropDefault
  <2>1. Step.op = "rm"
    BY <1>4 DEF DropDefault, At, Step
  <2>2. Do(<<>>) \/ task' = [task EXCEPT !.todo = <<>>, !.error = TRUE]
    BY <1>4 DEF DropDefault
  <2>3. CASE Do(<<>>)
    BY <1>1, <1>2, <2>1, <2>3, Dropping
  <2>4. CASE task' = [task EXCEPT !.todo = <<>>, !.error = TRUE]
    <3>1. /\ task'.command = task.command /\ task'.arg = task.arg /\ task'.error
          /\ task'.options = task.options /\ task'.conf = task.conf /\ task'.todo = <<>>
      BY <1>1, <2>4 DEF LoopTypes, Idle
    <3>2. ToDo' = {}
      BY <3>1, Ranges DEF ToDo
    <3>3. Onward
      BY <3>1 DEF Onward
    <3> QED
      BY <1>2, <3>1, <3>2, <3>3 DEF Refused
  <2> QED
    BY <1>2, <2>2, <2>3, <2>4
<1>5. CASE StopUnit \/ StopAll \/ StartUnit \/ Load \/ Add
  BY <1>1, <1>2, <1>5, StopUnitProceeds, StopAllProceeds, StartUnitProceeds, LoadProceeds, AddProceeds
<1>6. CASE DisableUnit \/ Unlink \/ SetDefault
  BY <1>1, <1>2, <1>6, DisableUnitProceeds, UnlinkProceeds, SetDefaultProceeds
<1>7. CASE EnableUnit \/ Check \/ VerifyRequires \/ Verify \/ Link
  BY <1>1, <1>2, <1>7, EnableUnitProceeds, CheckProceeds, VerifyProceeds, LinkProceeds
<1> QED
  BY <1>3, <1>4, <1>5, <1>6, <1>7 DEF Working, Writing

-----------------------------------------------------------------------------
(* What is promised stays promised while a handler works.                  *)

LEMMA LinksChange ==
  ASSUME Sound, Working \/ Writing
  PROVE  /\ setup' = setup /\ default' = default /\ file' = file
         /\ Range(Considered)' = Range(Considered)
         /\ Step.op # "link" => links' \subseteq links
         /\ Step.op \notin {"link", "unlink"} => links' = links
         /\ Step.op \in {"link", "unlink"} /\ Step.left = <<>> => links' = links
         /\ Step.op = "link" /\ Step.left # <<>> =>
              \/ links' = links \cup {<<Step.unit, Head(Step.left)>>}
              \/ links' = links /\ Refused /\ failed' > 0
<1>1. DiskTypes /\ ArrayTypes /\ LoopTypes /\ Serving /\ Planning
  BY DEF Sound
<1>2. CASE Working
  <2>1. setup' = setup /\ default' = default /\ links' = links /\ file' = file
    BY <1>1, <1>2, WorkingFrame DEF disk, states
  <2>2. Step.op \notin {"link", "unlink"}
    BY <1>1, <1>2, WorkingAt
  <2> QED
    BY <2>1, <2>2, SameStates
<1>3. CASE Writing
  <2>1. setup' = setup /\ default' = default /\ file' = file
    BY <1>1, <1>3, WritingFrame
  <2>2. CASE Unlink
    <3>1. Step.op = "unlink"
      BY <2>2 DEF Unlink, At, Step
    <3>2. links' \subseteq links /\ (Step.left = <<>> => links' = links)
      BY <2>2 DEF Unlink
    <3> QED
      BY <2>1, <3>1, <3>2, SameStates
  <2>3. CASE Link
    <3>1. Step.op = "link" /\ task.todo # <<>>
      BY <2>3 DEF Link, At, Step
    <3>2. Step.left = <<>> => links' = links
      BY <2>3 DEF Link
    <3>3. \/ links' = links \cup {<<Step.unit, Head(Step.left)>>}
          \/ Step.left = <<>> \/ (links' = links /\ Refuse /\ Fails)
      BY <2>3 DEF Link
    <3>4. Refuse => Refused
      BY <1>1, <3>1, RefuseLeaves
    <3>5. Fails => failed' > 0
      BY <1>1, FailsMore
    <3> QED
      BY <2>1, <3>1, <3>2, <3>3, <3>4, <3>5, SameStates
  <2>4. CASE SetDefault \/ DropDefault \/ LinkDefault
    <3>1. Step.op \notin {"link", "unlink"}
      BY <2>4 DEF SetDefault, DropDefault, LinkDefault, At, Step
    <3>2. links' = links
      BY <2>4 DEF SetDefault, DropDefault, LinkDefault, disk
    <3> QED
      BY <2>1, <3>1, <3>2, SameStates
  <2> QED
    BY <1>3, <2>2, <2>3, <2>4 DEF Writing
<1> QED
  BY <1>2, <1>3

LEMMA SuitedStays ==
  ASSUME Sound, Suited, Working \/ Writing
  PROVE  Suited'
<1>1. /\ task.todo # <<>> /\ task'.command = task.command
      /\ ToDo' \subseteq Rest \/ \A y \in ToDo' : y \in Rest \/ May(Step, y)
  BY Proceeding DEF Onward, Refused, Proceeds
<1>2. Rest \subseteq ToDo /\ Step \in ToDo
  BY <1>1, ToDoIs DEF Sound
<1>3. \A y \in ToDo' : y \in Rest \/ May(Step, y)
  BY <1>1
<1>4. \A y \in Rest : Allowed(y.op, task.command)
  BY <1>2 DEF Suited
<1>5. Allowed(Step.op, task.command)
  BY <1>2 DEF Suited
<1>6. ASSUME NEW y, May(Step, y) PROVE Allowed(y.op, task.command)
  BY <1>5, <1>6 DEF May, Allowed
<1>7. \A y \in ToDo' : Allowed(y.op, task'.command)
  BY <1>1, <1>3, <1>4, <1>6
<1> QED
  BY <1>7 DEF Suited

(* The states that a linking begins with.                                  *)
LEMMA TargetsAreWanted ==
  ASSUME DiskTypes, NEW c
  PROVE  c.wanted \cap Range(Considered) \subseteq Targets(c)
<1>1. Range(Considered) = {"reboot", "poweroff", Current}
  BY ConsideredTypes
<1> QED
  BY <1>1 DEF Targets, Current

LEMMA EnablingStays ==
  ASSUME Sound, Enabling, Working \/ Writing, task.todo # <<>>, Onward, Proceeds, ~Refused
  PROVE  Enabling'
<1>1. DiskTypes /\ LoopTypes /\ Serving /\ Planning
  BY DEF Sound
<1> SUFFICES ASSUME task'.command = "enable", ~task'.error PROVE Enabling'
  BY DEF Enabling
<1>2. PICK u : u = task.arg
  OBVIOUS
<1>3. task.command = "enable" /\ ~task.error /\ task'.arg = u
  BY <1>2 DEF Onward
<1>4. /\ setup' = setup /\ Range(Considered)' = Range(Considered)
      /\ Step.op \notin {"link", "unlink"} => links' = links
      /\ Step.op \in {"link", "unlink"} /\ Step.left = <<>> => links' = links
      /\ Step.op = "link" /\ Step.left # <<>> =>
           links' = links \cup {<<Step.unit, Head(Step.left)>>}
  BY LinksChange
<1>5. /\ ToDo = {Step} \cup Rest /\ Rest \subseteq ToDo'
      /\ \A y \in ToDo' : y \in Rest \/ May(Step, y)
      /\ Step.op # "check" => task'.conf = task.conf
  BY <1>1, ToDoIs DEF Proceeds
<1>6. \A y \in Rest : Follows(Step, y)
  BY <1>1, RestFollows
<1>w. PICK W : W = Wanted
  OBVIOUS
<1>7. Step.op # "check" => Wanted' = W
  BY <1>3, <1>2, <1>4, <1>5, <1>w DEF Wanted, Conf
<1>a. (\E y \in ToDo' : y.op \in {"enable", "check", "verify"} /\ y.unit = u) => Enabling'
  BY <1>3 DEF Enabling, HasFor
<1>b. Wanted' = W /\ (\E y \in ToDo' : /\ y.op = "link" /\ y.unit = u
                        /\ \A s \in W :
                             \/ s \in Range(y.left)
                             \/ <<u, s>> \in links' /\ ~\E z \in ToDo' : z.op \in {"disable", "unlink"})
      => Enabling'
  BY <1>3 DEF Enabling, Has
<1>d. Wanted' = W /\ (\E y \in ToDo' : y.op = "link" /\ y.unit = u /\ \A s \in W : s \in Range(y.left))
      => Enabling'
  BY <1>3 DEF Enabling
<1>c. Wanted' = W /\ (\A s \in W : <<u, s>> \in links')
      /\ (\A z \in ToDo' : z.op \notin {"enable", "check", "verify", "disable", "unlink", "link"})
      => Enabling'
  BY <1>3 DEF Enabling, Has
<1> DEFINE
      Before == HasFor({"enable", "check", "verify"}, u)
      During == \E y \in ToDo :
                  /\ y.op = "link" /\ y.unit = u
                  /\ \A s \in W : \/ s \in Range(y.left)
                                  \/ <<u, s>> \in links /\ ~Has({"disable", "unlink"})
      After  == /\ ~Has({"enable", "check", "verify", "disable", "unlink", "link"})
                /\ \A s \in W : <<u, s>> \in links
<1>8. CASE Before
  <2>1. PICK y \in ToDo : y.op \in {"enable", "check", "verify"} /\ y.unit = u
    BY <1>8 DEF HasFor
  <2>2. CASE y \in Rest
    BY <1>a, <1>5, <2>1, <2>2
  <2>3. CASE y = Step /\ Step.op \in {"enable", "check"}
    <3>1. Then("check", u) \/ Then("verify", u)
      BY <2>1, <2>3 DEF Proceeds
    <3>2. PICK z \in ToDo' : z.op \in {"check", "verify"} /\ z.unit = u
      BY <3>1 DEF Then
    <3> QED
      BY <1>a, <3>2
  <2>4. CASE y = Step /\ Step.op = "verify"
    <3>1. /\ Then("link", u)
          /\ \A z \in ToDo' : z.op = "link" =>
               z.unit = u /\ Range(z.left) = Targets(Conf(u, task.conf))
      BY <2>1, <2>4 DEF Proceeds, Links
    <3>2. W \subseteq Targets(Conf(u, task.conf))
      BY <1>1, <1>2, <1>w, TargetsAreWanted DEF Wanted
    <3>3. PICK z \in ToDo' : z.op = "link" /\ z.unit = u
      BY <3>1 DEF Then
    <3>4. Wanted' = W /\ \A s \in W : s \in Range(z.left)
      BY <1>7, <2>4, <3>1, <3>2, <3>3
    <3> QED
      BY <1>d, <3>3, <3>4
  <2> QED
    BY <1>5, <2>1, <2>2, <2>3, <2>4
<1>9. CASE During
  <2>1. PICK y \in ToDo : /\ y.op = "link" /\ y.unit = u
                          /\ \A s \in W : \/ s \in Range(y.left)
                                          \/ <<u, s>> \in links /\ ~Has({"disable", "unlink"})
    BY <1>9
  <2>2. CASE y \in Rest /\ Step.op \in {"disable", "unlink"}
    <3>1. Has({"disable", "unlink"})
      BY <1>5, <2>2 DEF Has
    <3>2. \A s \in W : s \in Range(y.left)
      BY <2>1, <3>1
    <3> QED
      BY <1>d, <1>5, <1>7, <2>1, <2>2, <3>2
  <2>3. CASE y \in Rest /\ Step.op \notin {"disable", "unlink"}
    <3>1. Step.op \in {"kill", "clear", "stopAll"}
      BY <1>6, <2>1, <2>3 DEF Follows
    <3>2. links' = links
      BY <1>4, <3>1
    <3>3. \A z \in ToDo' : z \in Rest \/ z.op \in {"kill", "clear"}
      BY <1>5, <3>1 DEF May
    <3>4. (\E z \in ToDo' : z.op \in {"disable", "unlink"}) => Has({"disable", "unlink"})
      BY <1>5, <3>3 DEF Has
    <3>5. Wanted' = W
      BY <1>7, <3>1
    <3>6. \A s \in W : \/ s \in Range(y.left)
                       \/ <<u, s>> \in links' /\ ~\E z \in ToDo' : z.op \in {"disable", "unlink"}
      BY <2>1, <3>2, <3>4
    <3> QED
      BY <1>b, <1>5, <2>1, <2>3, <3>5, <3>6
  <2>4. CASE y = Step /\ Step.left = <<>>
    <3>1. links' = links /\ \A z \in ToDo' : z.op = "start"
      BY <1>4, <2>1, <2>4 DEF Proceeds, Links
    <3>2. \A s \in W : <<u, s>> \in links
      BY <2>1, <2>4, Ranges
    <3>3. Wanted' = W
      BY <1>7, <2>1, <2>4
    <3> QED
      BY <1>c, <3>1, <3>2, <3>3
  <2>5. CASE y = Step /\ Step.left # <<>>
    <3>1. PICK z \in ToDo' : /\ ToDo' = {z} /\ z.op = "link" /\ z.unit = u
                             /\ z.left = Tail(Step.left)
      BY <2>1, <2>5 DEF Proceeds, Links
    <3>2. Step.left \in Seq(UnitStates)
      BY <1>1, <2>1, <2>5, ToDoIs, StepTypes
    <3>3. \A s : s \in Range(Step.left) => s = Head(Step.left) \/ s \in Range(Tail(Step.left))
      BY <2>5, <3>2, RangeOfTail
    <3>4. links' = links \cup {<<u, Head(Step.left)>>}
      BY <1>4, <2>1, <2>5
    <3>5. \A s \in W : s \in Range(z.left) \/ <<u, s>> \in links'
      BY <2>1, <2>5, <3>1, <3>3, <3>4
    <3>6. Wanted' = W
      BY <1>7, <2>1, <2>5
    <3> QED
      BY <1>b, <3>1, <3>5, <3>6
  <2> QED
    BY <1>5, <2>1, <2>2, <2>3, <2>4, <2>5
<1>10. CASE After
  <2>1. \A z \in ToDo : z.op \notin {"enable", "check", "verify", "disable", "unlink", "link"}
    BY <1>10 DEF Has
  <2>2. Step.op \notin {"enable", "check", "verify", "disable", "unlink", "link"}
    BY <1>5, <2>1
  <2>3. \A z \in ToDo' : z.op \notin {"enable", "check", "verify", "disable", "unlink", "link"}
    BY <1>5, <2>1, <2>2 DEF May
  <2>4. links' = links /\ Wanted' = W
    BY <1>4, <1>7, <2>2
  <2> QED
    BY <1>c, <1>10, <2>3, <2>4
<1>11. Before \/ During \/ After
  BY <1>2, <1>3, <1>w DEF Enabling
<1> HIDE DEF Before, During, After
<1> QED
  BY <1>8, <1>9, <1>10, <1>11

LEMMA DisablingStays ==
  ASSUME Sound, Suited, Unlinking, Disabling, Working \/ Writing, task.todo # <<>>, Onward, Proceeds
  PROVE  Disabling'
<1>1. DiskTypes /\ LoopTypes /\ Serving /\ Planning
  BY DEF Sound
<1> SUFFICES ASSUME task'.command = "disable", ~task'.error PROVE Disabling'
  BY DEF Disabling
<1>2. PICK u : u = task.arg
  OBVIOUS
<1>3. task.command = "disable" /\ ~task.error /\ task'.arg = u
  BY <1>2 DEF Onward
<1>4. ToDo = {Step} \cup Rest /\ Rest \subseteq ToDo'
  BY <1>1, ToDoIs DEF Proceeds
<1>5. (\E y \in ToDo' : y.op \in {"disable", "unlink"} /\ y.unit = u) => Disabling'
  BY <1>3 DEF Disabling, HasFor
<1>6. ~IsEnabled(u)' => Disabling'
  BY <1>3 DEF Disabling
<1>7. Step.op # "link"
  BY <1>3, <1>4 DEF Suited, Allowed
<1>8. links' \subseteq links /\ Range(Considered)' = Range(Considered)
  BY <1>7, LinksChange
<1>9. ~IsEnabled(u) => ~IsEnabled(u)'
  BY <1>8 DEF IsEnabled
<1>10. CASE HasFor({"disable", "unlink"}, u)
  <2>1. PICK y \in ToDo : y.op \in {"disable", "unlink"} /\ y.unit = u
    BY <1>10 DEF HasFor
  <2>2. CASE y \in Rest
    BY <1>4, <1>5, <2>1, <2>2
  <2>3. CASE y = Step /\ ~(Step.op = "unlink" /\ Step.left = <<>>)
    <3>1. \E z \in ToDo' : z.op = "unlink" /\ z.unit = u
      BY <2>1, <2>3 DEF Proceeds, Unlinks
    <3> QED
      BY <1>5, <3>1
  <2>4. CASE y = Step /\ Step.op = "unlink" /\ Step.left = <<>>
    <3>1. Step = task.todo[1] /\ 1 \in DOMAIN task.todo
      BY <1>1, AtStep
    <3>2. \A s \in Range(Considered) : <<u, s>> \in links => s \in Range(<<>>)
      BY <2>1, <2>4, <3>1 DEF Unlinking, HeadOp
    <3>3. ~IsEnabled(u)
      BY <3>2, Ranges DEF IsEnabled
    <3> QED
      BY <1>6, <1>9, <3>3
  <2> QED
    BY <1>4, <2>1, <2>2, <2>3, <2>4
<1> QED
  BY <1>2, <1>3, <1>6, <1>9, <1>10 DEF Disabling

(* A unit that may be taken out of the array remains so.                   *)
LEMMA StillLeaving ==
  ASSUME NEW v \in Leaving, Same(v) \/ Flagged(v, FALSE) \/ Gone(v), failed > 0 => failed' > 0,
         v \in ToKill => v \in ToKill'
  PROVE  v \in Leaving'
<1>1. v \in Units /\ v \in Settled /\ (alive[v] => failed > 0 \/ v \in ToKill)
  BY DEF Leaving, Settled
<1>2. alive'[v] => alive[v]
  BY DEF Same, Flagged, Gone
<1>3. v \in Settled'
  BY <1>1 DEF Settled, MidRestart, Same, Flagged, Gone
<1> QED
  BY <1>1, <1>2, <1>3 DEF Leaving

LEMMA KillsToDo ==
  /\ \A v \in Units : v \in ToKill <=> \E y \in ToDo : y.op = "kill" /\ y.unit = v
  /\ \A v \in Units : v \in ToKill' <=> \E y \in ToDo' : y.op = "kill" /\ y.unit = v
BY DEF ToKill, ToDo, Range

(* A unit that has just been stopped may be taken out of the array.        *)
LEMMA StopLeaves ==
  ASSUME Sound, StopDead \/ StopUnit, NEW u, u = Step.unit
  PROVE  u \in Leaving'
<1>1. /\ DiskTypes /\ ArrayTypes /\ LoopTypes /\ Serving /\ Living /\ Planning
  BY DEF Sound
<1>2. At("stop")
  BY DEF StopDead, StopUnit
<1>3. u \in Units /\ task.todo # <<>>
  BY <1>1, <1>2, AtUnit
<1>4. CASE StopDead
  <2>1. /\ \A v \in Units : Same(v) \/ (v = u /\ Gone(v) /\ mem[v] # None /\ mem[v].state = "dead")
        /\ mem'[u] # None => mem'[u].state = "dead"
    BY <1>1, <1>4, StopDeadDoes
  <2>2. alive'[u] = FALSE
    BY <1>1, <1>3, <2>1 DEF Same, Gone, Living, ArrayTypes
  <2> QED
    BY <1>3, <2>1, <2>2, NowLeaving
<1>5. CASE StopUnit
  <2>1. Planning' /\ task'.todo \in Seq(Steps)
    BY <1>1, <1>5, StopUnitPlans
  <2>2. PICK x : x = S("clear", u)
    OBVIOUS
  <2>3. x \in Steps /\ x.op = "clear" /\ x.unit = u /\ S("kill", u) \in Steps
    BY <1>3, <2>2 DEF S, Steps
  <2>4. PICK a \in Seq(Steps) : Do(a \o <<x>>)
    <3>1. Do((IF Runs(u) THEN <<S("kill", u)>> ELSE <<>>) \o <<S("clear", u)>>)
      BY <1>5 DEF StopUnit
    <3>2. (IF Runs(u) THEN <<S("kill", u)>> ELSE <<>>) \in Seq(Steps)
      BY <2>3, Ranges
    <3> QED
      BY <2>2, <3>1, <3>2
  <2>5. PICK b \in Seq(Steps) : b = <<x>> /\ Range(b) = {x}
    BY <2>3, Ranges
  <2>6. Do(a \o b) /\ a \o b \in Seq(Steps) /\ Range(a \o b) = Range(a) \cup {x}
    BY <2>4, <2>5, RangeConcat
  <2>7. x \in ToDo'
    BY <1>1, <1>3, <2>6, DoLeaves DEF Left
  <2>8. x \in Feasible'
    BY <2>7, <2>1 DEF ToDo, Range, Planning
  <2> QED
    BY <2>3, <2>8 DEF Feasible, Ready
<1> QED
  BY <1>4, <1>5

(* The action that a step belongs to.                                      *)
LEMMA StepActs ==
  ASSUME Working \/ Writing
  PROVE  /\ Step.op = "stop"    => StopDead \/ StopUnit
         /\ Step.op = "kill"    => Kill
         /\ Step.op = "clear"   => Clear
         /\ Step.op = "disable" => DisableUnit
         /\ Step.op = "unlink"  => Unlink
         /\ Step.op = "add"     => Add
         /\ Step.op = "run"     => Run
         /\ Step.op = "ln"      => LinkDefault
         /\ Step.op = "verify"  => Verify \/ VerifyRequires
         /\ Step.op = "link"    => Link
BY DEF Working, Writing, StopDead, StopUnit, Kill, Clear, StopAll, StartUnit, Load, Add, Run,
       DisableUnit, EnableUnit, Check, VerifyRequires, Verify, Show, Unlink, Link, SetDefault,
       DropDefault, LinkDefault, At, Step

(* So does one that is being stopped, whatever the stop or the disabling   *)
(* of it does next.                                                        *)
LEMMA LeavingStays ==
  ASSUME Sound, Working \/ Writing, task.todo # <<>>, Proceeds, NEW u \in Leaving,
         Step.op \in {"stop", "kill", "clear", "disable", "unlink"}
  PROVE  u \in Leaving'
<1>1. /\ DiskTypes /\ ArrayTypes /\ LoopTypes /\ Serving /\ Living /\ Planning
  BY DEF Sound
<1>2. /\ ToDo = {Step} \cup Rest /\ Rest \subseteq ToDo'
      /\ u \in Units
  BY <1>1, ToDoIs DEF Proceeds, Leaving, Settled
<1>3. u \in ToKill => u \in ToKill' \/ (Step.op = "kill" /\ Step.unit = u)
  BY <1>2, KillsToDo
<1>4. failed > 0 => failed' > 0
  BY StepEffects DEF Effects, Next, Handler, Working, Writing
<1>5. CASE Step.op = "stop"
  <2>1. StopDead \/ StopUnit
    BY <1>5, StepActs
  <2>2. Same(u) \/ Gone(u)
    BY <1>1, <1>2, <2>1, StopDeadDoes, StopUnitDoes
  <2> QED
    BY <1>3, <1>4, <1>5, <2>2, StillLeaving
<1>6. CASE Step.op = "kill"
  <2>1. Kill
    BY <1>6, StepActs
  <2>2. PICK v : v = Step.unit
    OBVIOUS
  <2>3. v \in Units /\ mem[v] # None /\ v \in Settled
    BY <1>1, <1>6, <2>2, HeadFollows, StepUnit DEF Ready
  <2>4. CASE u # v
    <3>1. Same(u)
      BY <1>1, <1>2, <2>1, <2>2, <2>3, <2>4, KillDoes
    <3> QED
      BY <1>3, <1>4, <2>2, <2>4, <3>1, StillLeaving
  <2>5. CASE u = v
    <3>1. /\ Alike(u)
          /\ \/ mem'[u].state = "dead" /\ mem'[u].final = "success" /\ alive'[u] = FALSE
             \/ alive[u] /\ mem'[u].state = mem[u].state /\ mem'[u].final = "failure" /\ Fails
      BY <1>1, <2>1, <2>2, <2>3, <2>5, KillDoes
    <3>2. Fails => failed' > 0
      BY <1>1, FailsMore
    <3>3. u \in Settled'
      BY <1>2, <2>3, <2>5, <3>1 DEF Settled, MidRestart, Alike
    <3>4. alive'[u] => failed' > 0
      BY <3>1, <3>2
    <3> QED
      BY <3>3, <3>4 DEF Leaving
  <2> QED
    BY <2>4, <2>5
<1>7. CASE Step.op = "clear"
  <2>1. Clear
    BY <1>7, StepActs
  <2>2. Same(u) \/ Gone(u)
    BY <1>1, <1>2, <2>1, ClearDoes
  <2> QED
    BY <1>3, <1>4, <1>7, <2>2, StillLeaving
<1>8. CASE Step.op = "disable"
  <2>1. DisableUnit
    BY <1>8, StepActs
  <2>2. Same(u)
    BY <1>1, <1>2, <2>1, AllSame DEF DisableUnit
  <2> QED
    BY <1>3, <1>4, <1>8, <2>2, StillLeaving
<1>9. CASE Step.op = "unlink"
  <2>1. Unlink
    BY <1>9, StepActs
  <2>2. Same(u) \/ Flagged(u, FALSE)
    BY <1>1, <1>2, <2>1, UnlinkDoes
  <2> QED
    BY <1>3, <1>4, <1>9, <2>2, StillLeaving
<1> QED
  BY <1>5, <1>6, <1>7, <1>8, <1>9

LEMMA StoppingStays ==
  ASSUME Sound, Suited, Stopping, Working \/ Writing, task.todo # <<>>, Onward, Proceeds
  PROVE  Stopping'
<1>1. /\ DiskTypes /\ ArrayTypes /\ LoopTypes /\ Serving /\ Living /\ Planning
  BY DEF Sound
<1> SUFFICES ASSUME task'.command = "stop" \/ (task'.command = "disable" /\ Opt("run")'), ~task'.error
             PROVE  Stopping'
  BY DEF Stopping
<1>2. PICK u : u = task.arg
  OBVIOUS
<1>3. /\ task.command = "stop" \/ (task.command = "disable" /\ Opt("run"))
      /\ ~task.error /\ task'.arg = u
  BY <1>2 DEF Onward, Opt
<1>4. ToDo = {Step} \cup Rest /\ Rest \subseteq ToDo' /\ Step \in Steps
  BY <1>1, ToDoIs DEF Proceeds
<1>5. (\E y \in ToDo' : Stops(y, u)) => Stopping'
  BY <1>3 DEF Stopping, Stops
<1>6. u \in Leaving' => Stopping'
  BY <1>3 DEF Stopping
<1>7. Step.op \in {"stop", "kill", "clear", "disable", "unlink"}
  <2>1. Allowed(Step.op, task.command)
    BY <1>4 DEF Suited
  <2>2. Step.op \in {"stop", "start", "load", "kill", "clear", "run", "enable", "verify", "status",
                     "set-default", "rm", "ln", "list", "get-default", "stopAll", "add", "disable",
                     "unlink", "check", "link"}
    BY <1>4 DEF Steps
  <2> QED
    BY <1>3, <2>1, <2>2 DEF Allowed
<1>8. Step.op = "disable" => Opt("run")
  BY <1>3, <1>4 DEF Suited, Allowed
<1>9. CASE u \in Leaving
  BY <1>6, <1>7, <1>9, LeavingStays
<1>10. CASE \E y \in ToDo : Stops(y, u)
  <2>1. PICK y \in ToDo : Stops(y, u)
    BY <1>10
  <2>2. CASE y \in Rest
    BY <1>4, <1>5, <2>1, <2>2
  <2>3. CASE y = Step /\ Step.op = "disable"
    <3>1. \E z \in ToDo' : z.op = "unlink" /\ z.unit = u /\ z.stop
      BY <1>8, <2>1, <2>3 DEF Proceeds, Unlinks, Stops
    <3> QED
      BY <1>5, <3>1 DEF Stops
  <2>4. CASE y = Step /\ Step.op = "unlink"
    <3>1. Step.unit = u /\ Step.stop
      BY <2>1, <2>4 DEF Stops
    <3>2. \/ \E z \in ToDo' : z.op = "unlink" /\ z.unit = u /\ z.stop
          \/ Then("stop", u)
      BY <2>4, <3>1 DEF Proceeds, Unlinks
    <3> QED
      BY <1>5, <3>2 DEF Stops, Then
  <2>5. CASE y = Step /\ Step.op = "stop"
    <3>1. StopDead \/ StopUnit
      BY <2>5, StepActs
    <3>2. Step.unit = u
      BY <2>1, <2>5 DEF Stops
    <3> QED
      BY <1>6, <3>1, <3>2, StopLeaves
  <2> QED
    BY <1>4, <2>1, <2>2, <2>3, <2>4, <2>5 DEF Stops
<1> QED
  BY <1>2, <1>3, <1>9, <1>10 DEF Stopping

LEMMA StartingStays ==
  ASSUME Sound, Starting, Working \/ Writing, task.todo # <<>>, Onward, Proceeds
  PROVE  Starting'
<1>1. /\ DiskTypes /\ ArrayTypes /\ LoopTypes /\ Serving /\ Living /\ Planning
  BY DEF Sound
<1> SUFFICES ASSUME task'.command = "start", ~task'.error PROVE Starting'
  BY DEF Starting
<1>2. PICK u : u = task.arg
  OBVIOUS
<1>3. task.command = "start" /\ ~task.error /\ task'.arg = u
  BY <1>2 DEF Onward
<1>4. /\ ToDo = {Step} \cup Rest /\ Rest \subseteq ToDo'
      /\ \A y \in ToDo' : y \in Rest \/ May(Step, y)
  BY <1>1, ToDoIs DEF Proceeds
<1>5. (\E y \in ToDo' : y.op \in {"start", "load", "add"} /\ y.unit = u) => Starting'
  BY <1>3 DEF Starting, HasFor
<1>6. u \in Units /\ mem'[u] # None /\ (\A y \in ToDo' : y.op = "run") => Starting'
  BY <1>3 DEF Starting
<1>7. /\ Step.op \in {"add", "run"} => Ready(Step) /\ Step.unit \in Units
      /\ Step.op = "add" => Rest = {}
  BY <1>1, HeadFollows, StepUnit, NoTail DEF Rest
<1>8. CASE HasFor({"start", "load", "add"}, u)
  <2>1. PICK y \in ToDo : y.op \in {"start", "load", "add"} /\ y.unit = u
    BY <1>8 DEF HasFor
  <2>2. CASE y \in Rest
    BY <1>4, <1>5, <2>1, <2>2
  <2>3. CASE y = Step /\ Step.op \in {"start", "load"}
    <3>1. \E z \in ToDo' : z.op \in {"load", "add"} /\ z.unit = u
      BY <2>1, <2>3 DEF Proceeds, Then
    <3> QED
      BY <1>5, <3>1
  <2>4. CASE y = Step /\ Step.op = "add"
    <3>1. Add /\ Step.unit = u /\ u \in Units /\ Ready(Step)
      BY <1>7, <2>1, <2>4, StepActs
    <3>2. mem[u] = None /\ Step.conf \in DOMAIN setup.conf[u]
      BY <2>4, <3>1 DEF Ready
    <3>3. mem'[u] # None
      BY <1>1, <3>1, <3>2, AddDoes
    <3>4. \A z \in ToDo' : z.op = "run"
      BY <1>4, <1>7, <2>4 DEF May
    <3> QED
      BY <1>6, <3>1, <3>3, <3>4
  <2> QED
    BY <1>4, <2>1, <2>2, <2>3, <2>4
<1>9. CASE u \in Units /\ mem[u] # None /\ \A y \in ToDo : y.op = "run"
  <2>1. PICK v : v = Step.unit
    OBVIOUS
  <2>2. Step.op = "run" /\ Run /\ v \in Units /\ mem[v] # None /\ mem[v].state = "dead"
    BY <1>4, <1>7, <1>9, <2>1, StepActs DEF Ready
  <2>3. Executed(v) /\ \A w \in Units : w # v => Same(w)
    BY <1>1, <2>1, <2>2, RunDoes
  <2>4. mem'[u] # None
    BY <1>9, <2>3 DEF Executed, Alike, Same
  <2>5. \A y \in ToDo' : y.op = "run"
    BY <1>4, <1>9, <2>2 DEF May
  <2> QED
    BY <1>6, <1>9, <2>4, <2>5
<1> QED
  BY <1>2, <1>3, <1>8, <1>9 DEF Starting

LEMMA DefaultingStays ==
  ASSUME Sound, Defaulting, Working \/ Writing, task.todo # <<>>, Onward, Proceeds, ~Refused
  PROVE  Defaulting'
<1>1. /\ DiskTypes /\ ArrayTypes /\ LoopTypes /\ Serving /\ Living /\ Planning
  BY DEF Sound
<1> SUFFICES ASSUME task'.command = "set-default", ~task'.error PROVE Defaulting'
  BY DEF Defaulting
<1>2. PICK u : u = task.arg
  OBVIOUS
<1>3. task.command = "set-default" /\ ~task.error /\ task'.arg = u
  BY <1>2 DEF Onward
<1>4. /\ ToDo = {Step} \cup Rest /\ Rest \subseteq ToDo'
      /\ \A y \in ToDo' : y \in Rest \/ May(Step, y)
  BY <1>1, ToDoIs DEF Proceeds
<1>5. PICK y \in ToDo : y.op \in {"set-default", "ln"} /\ y.unit = u
  BY <1>2, <1>3, <1>4 DEF Defaulting, HasFor
<1>6. (\E z \in ToDo' : z.op \in {"set-default", "ln"} /\ z.unit = u) => Defaulting'
  BY <1>3 DEF Defaulting, HasFor
<1>7. dflt' = u /\ ToDo' = {} => Defaulting'
  BY <1>3 DEF Defaulting
<1>8. CASE y \in Rest
  BY <1>4, <1>5, <1>6, <1>8
<1>9. CASE y = Step /\ Step.op = "set-default"
  <2>1. \E z \in ToDo' : z.op = "ln" /\ z.unit = u
    BY <1>5, <1>9 DEF Proceeds, Then
  <2> QED
    BY <1>6, <2>1
<1>10. CASE y = Step /\ Step.op = "ln"
  <2>1. LinkDefault /\ Step.unit = u
    BY <1>5, <1>10, StepActs
  <2>2. Refuse => Refused
    BY <1>1, RefuseLeaves
  <2>3. dflt' = u
    BY <2>1, <2>2 DEF LinkDefault
  <2>4. Rest = {}
    BY <1>1, <1>10, NoTail DEF Rest
  <2>5. ToDo' = {}
    BY <1>4, <1>10, <2>4 DEF May
  <2> QED
    BY <1>7, <2>3, <2>5
<1> QED
  BY <1>4, <1>5, <1>8, <1>9, <1>10

(* A refused request promises nothing; the others keep what they promise.  *)
LEMMA HandlersPromise ==
  ASSUME Sound, Unlinking, Promising, Working \/ Writing
  PROVE  Promising'
<1>1. task.todo # <<>> /\ Onward /\ (Refused \/ Proceeds)
  BY Proceeding
<1>2. Suited'
  BY SuitedStays DEF Promising
<1>3. CASE Refused
  <2>1. task'.error
    BY <1>3 DEF Refused
  <2>2. Kept'
    BY <2>1 DEF Kept, Enabling, Disabling, Stopping, Starting, Defaulting
  <2> QED
    BY <1>2, <2>2 DEF Promising
<1>4. CASE Proceeds /\ ~Refused
  <2> SUFFICES ASSUME task'.command # None PROVE Kept'
    BY <1>2 DEF Promising
  <2>1. Suited /\ Enabling /\ Disabling /\ Stopping /\ Starting /\ Defaulting
    BY <1>1 DEF Promising, Kept, Onward
  <2>2. Enabling'
    BY <1>1, <1>4, <2>1, EnablingStays
  <2>3. Disabling' /\ Stopping'
    BY <1>1, <1>4, <2>1, DisablingStays, StoppingStays
  <2>4. Starting' /\ Defaulting'
    BY <1>1, <1>4, <2>1, StartingStays, DefaultingStays
  <2> QED
    BY <2>2, <2>3, <2>4 DEF Kept
<1> QED
  BY <1>1, <1>3, <1>4

-----------------------------------------------------------------------------
(* What is promised stays so whatever happens meanwhile, and a request is  *)
(* received with its promises still to be fulfilled.                       *)

LEMMA StayingLeaves ==
  ASSUME Sound, Staying
  PROVE  /\ Leaving \subseteq Leaving'
         /\ \A v \in Units : mem[v] # None => mem'[v] # None
<1>1. /\ DiskTypes /\ ArrayTypes /\ LoopTypes /\ Serving /\ Living /\ Planning
  BY DEF Sound
<1>2. task' = task /\ failed' = failed
  BY <1>1, StayingFrame
<1>3. ToKill' = ToKill
  BY <1>2 DEF ToKill
<1>4. ASSUME NEW w \in Units, \A v \in Units : v # w => Same(v),
             mem[w] # None => mem'[w] # None,
             w \in Leaving => w \in Leaving'
      PROVE  /\ Leaving \subseteq Leaving'
             /\ \A v \in Units : mem[v] # None => mem'[v] # None
  <2>1. ASSUME NEW v \in Leaving, v # w PROVE v \in Leaving'
    <3>1. Same(v)
      BY <1>4, <2>1 DEF Leaving, Settled
    <3> QED
      BY <1>2, <1>3, <3>1, StillLeaving
  <2> QED
    BY <1>4, <2>1 DEF Same
<1>5. ASSUME \A v \in Units : Same(v)
      PROVE  /\ Leaving \subseteq Leaving'
             /\ \A v \in Units : mem[v] # None => mem'[v] # None
  <2>1. ASSUME NEW v \in Leaving PROVE v \in Leaving'
    <3>1. Same(v)
      BY <1>5 DEF Leaving, Settled
    <3> QED
      BY <1>2, <1>3, <3>1, StillLeaving
  <2> QED
    BY <1>5, <2>1 DEF Same
<1>6. CASE Accept \/ Signal
  <2>1. UNCHANGED procs
    BY <1>6 DEF Accept, Signal
  <2> QED
    BY <1>1, <1>5, <2>1, AllSame
<1>7. ASSUME NEW w \in Units, Die(w)
      PROVE  /\ Leaving \subseteq Leaving'
             /\ \A v \in Units : mem[v] # None => mem'[v] # None
  <2>1. /\ \A v \in Units : v # w => Same(v)
        /\ Alike(w) /\ alive[w] /\ alive'[w] = FALSE /\ mem'[w].listening = mem[w].listening
        /\ \/ mem'[w].state = mem[w].state /\ mem'[w].final = mem[w].final
           \/ mem'[w].state = "killed" /\ mem'[w].final = "failure"
    BY <1>1, <1>7, DieDoes
  <2>2. mem[w].state = "running"
    BY <1>1, <2>1 DEF Living
  <2>3. w \in Leaving => w \in Leaving'
    BY <2>1, <2>2 DEF Leaving, Settled, MidRestart, Alike
  <2> QED
    BY <1>4, <2>1, <2>3 DEF Alike
<1>8. ASSUME NEW w \in Units, Reset(w)
      PROVE  /\ Leaving \subseteq Leaving'
             /\ \A v \in Units : mem[v] # None => mem'[v] # None
  <2>1. /\ \A v \in Units : v # w => Same(v)
        /\ Alike(w) /\ mem[w].listening /\ mem[w].state \in {"exited", "killed"}
    BY <1>1, <1>8, ResetDoes
  <2>2. w \notin Leaving
    BY <2>1 DEF Leaving, Settled, Alike
  <2> QED
    BY <1>4, <2>1, <2>2 DEF Alike
<1>9. ASSUME NEW w \in Units, Restart(w)
      PROVE  /\ Leaving \subseteq Leaving'
             /\ \A v \in Units : mem[v] # None => mem'[v] # None
  <2>1. MidRestart(w) /\ Launch(w) /\ mem[w] # None /\ mem[w].state # "running"
    BY <1>9 DEF Restart, MidRestart
  <2>2. Executed(w) /\ \A v \in Units : v # w => Same(v)
    BY <1>1, <2>1, LaunchDoes
  <2>3. w \notin Leaving
    BY <2>1 DEF Leaving, Settled
  <2> QED
    BY <1>4, <2>2, <2>3 DEF Executed, Alike
<1>10. ASSUME NEW w \in Units, Edit(w) \/ Notify(w)
       PROVE  \A v \in Units : Same(v)
  <2>1. Edit(w) => UNCHANGED procs
    BY DEF Edit
  <2> QED
    BY <1>1, <1>10, <2>1, AllSame, NotifyDoes
<1> QED
  BY <1>5, <1>6, <1>7, <1>8, <1>9, <1>10 DEF Staying, Meanwhile

LEMMA StayingPromises ==
  ASSUME Sound, Promising, Staying
  PROVE  Promising'
<1>1. UNCHANGED <<setup, links, dflt, states, task, up, failed>>
  BY StayingFrame DEF Sound
<1>2. task' = task /\ links' = links /\ dflt' = dflt /\ setup' = setup /\ default' = default
  BY <1>1 DEF states
<1>3. Range(Considered)' = Range(Considered)
  BY <1>2, SameStates
<1>4. ToDo' = ToDo /\ Wanted' = Wanted
  BY <1>2, <1>3 DEF ToDo, Wanted, Conf
<1>5. Suited'
  BY <1>2, <1>4 DEF Promising, Suited
<1> SUFFICES ASSUME task'.command # None PROVE Kept'
  BY <1>5 DEF Promising
<1>6. Kept
  BY <1>2 DEF Promising
<1>7. Enabling' /\ Defaulting'
  BY <1>2, <1>4, <1>6 DEF Kept, Enabling, Defaulting, Has, HasFor
<1>8. Disabling'
  BY <1>2, <1>3, <1>4, <1>6 DEF Kept, Disabling, HasFor, IsEnabled
<1>9. Stopping'
  BY <1>2, <1>4, <1>6, StayingLeaves DEF Kept, Stopping, Stops, Opt
<1>10. Starting'
  BY <1>2, <1>4, <1>6, StayingLeaves DEF Kept, Starting, HasFor
<1> QED
  BY <1>7, <1>8, <1>9, <1>10 DEF Kept

LEMMA IdlePromises == ASSUME task' = Idle PROVE Promising' /\ ToDo' = {}
<1>1. task'.command = None /\ task'.todo = <<>>
  BY DEF Idle
<1>2. ToDo' = {}
  BY <1>1, Ranges DEF ToDo
<1> QED
  BY <1>1, <1>2 DEF Promising, Suited

LEMMA ReceivePromises ==
  ASSUME DiskTypes, Receive
  PROVE  Promising'
<1>1. CASE task' = Idle
  BY <1>1, IdlePromises
<1>2. CASE task' # Idle
  <2>1. PICK x \in Steps :
          /\ task'.todo = <<x>>
          /\ x.op \in {"stop", "start", "disable", "enable", "status", "set-default",
                       "list", "get-default"}
          /\ x.op = task'.command /\ x.unit = task'.arg
          /\ x.op = "disable" => ~x.nested
    BY <1>2, ReceiveDoes
  <2>2. ToDo' = {x}
    BY <2>1, Ranges DEF ToDo
  <2>3. Suited'
    BY <2>1, <2>2 DEF Suited, Allowed
  <2>4. Enabling' /\ Disabling' /\ Starting' /\ Defaulting'
    BY <2>1, <2>2 DEF Enabling, Disabling, Starting, Defaulting, HasFor
  <2>5. Stopping'
    BY <2>1, <2>2 DEF Stopping, Stops
  <2> QED
    BY <2>3, <2>4, <2>5 DEF Promising, Kept
<1> QED
  BY <1>1, <1>2

LEMMA BootPromises ==
  ASSUME DiskTypes, Boot
  PROVE  Promising'
<1>1. PICK loaded \in SUBSET Units, order \in Seq(Units) : BootLeaves(loaded, order)
  BY BootDoes
<1>2. task'.command = "boot" /\ task'.todo = [i \in DOMAIN order |-> S("run", order[i])]
  BY <1>1 DEF BootLeaves
<1>3. \A y \in ToDo' : y.op = "run"
  BY <1>2 DEF ToDo, Range, S
<1>4. Suited'
  BY <1>2, <1>3 DEF Suited, Allowed
<1>5. Kept'
  BY <1>2 DEF Kept, Enabling, Disabling, Stopping, Starting, Defaulting
<1> QED
  BY <1>4, <1>5 DEF Promising

LEMMA OthersPromise ==
  ASSUME Sound, Answer \/ Repair \/ Ending
  PROVE  task' = Idle
<1>1. CASE Answer
  BY <1>1 DEF Answer
<1>2. CASE Repair
  BY <1>2 DEF Repair, Sound, Serving
<1>3. CASE Ending
  BY <1>3, EndingIsOff DEF Off
<1> QED
  BY <1>1, <1>2, <1>3

LEMMA StepPromises ==
  ASSUME Sound, Unlinking, Promising, Next
  PROVE  Promising'
<1>1. \/ Working \/ Writing \/ Staying \/ Answer \/ Receive \/ Boot \/ Repair \/ Ending
  BY NextIs DEF Writing, Staying
<1>2. DiskTypes
  BY DEF Sound
<1> QED
  BY <1>1, <1>2, HandlersPromise, StayingPromises, ReceivePromises, BootPromises, OthersPromise,
     IdlePromises

LEMMA FirstPromises == Init => Promising
<1> SUFFICES ASSUME Init PROVE Promising
  OBVIOUS
<1>1. task.command = None /\ task.todo = <<>>
  BY DEF Init, Idle
<1>2. ToDo = {}
  BY <1>1, Ranges DEF ToDo
<1> QED
  BY <1>1, <1>2 DEF Promising, Suited

LEMMA StuttersPromise ==
  ASSUME Promising, UNCHANGED vars
  PROVE  Promising'
<1>1. UNCHANGED <<setup, file, links, dflt, mem, alive, default, task, failed>>
  BY DEF vars, disk, procs, states, loop
<1>2. Range(Considered)' = Range(Considered) /\ ToDo' = ToDo
  BY <1>1, SameStates DEF ToDo
<1>3. Leaving' = Leaving
  BY <1>1 DEF Leaving, Settled, ToKill, MidRestart
<1>4. Wanted' = Wanted /\ \A u : IsEnabled(u)' <=> IsEnabled(u)
  BY <1>1, <1>2 DEF Wanted, Conf, IsEnabled
<1>5. Suited' <=> Suited
  BY <1>1, <1>2 DEF Suited
<1>6. Enabling' <=> Enabling
  BY <1>1, <1>2, <1>4 DEF Enabling, Has, HasFor
<1>7. (Disabling' <=> Disabling) /\ (Defaulting' <=> Defaulting) /\ (Starting' <=> Starting)
  BY <1>1, <1>2, <1>4 DEF Disabling, Defaulting, Starting, HasFor
<1>8. Stopping' <=> Stopping
  BY <1>1, <1>2, <1>3 DEF Stopping, Stops, Opt
<1> QED
  BY <1>1, <1>5, <1>6, <1>7, <1>8 DEF Promising, Kept

(* A request that is answered without an error has done what it promises:  *)
(* whatever was stopped, started, disabled on its way, whichever of its    *)
(* scripts failed, and whatever died or was restarted meanwhile.           *)
THEOREM AnswersAreTrue == Spec => []AnswerIsTrue
<1>1. Init => IInv /\ Promising
  BY Initially, FirstPromises
<1>2. IInv /\ Promising /\ [Next]_vars => (IInv /\ Promising)'
  <2>1. IInv => Sound /\ Unlinking
    BY TypesAre DEF IInv, Sound
  <2> QED
    BY <2>1, NextKeeps, StuttersKeep, StepPromises, StuttersPromise
<1>3. IInv /\ Promising => AnswerIsTrue
  <2> SUFFICES ASSUME IInv, Promising, Answering, ~task.error
               PROVE  LET u == task.arg IN
                      /\ task.command = "enable" =>
                           \A s \in Conf(u, task.conf).wanted \cap Range(Considered) :
                             <<u, s>> \in links
                      /\ task.command = "disable" => ~IsEnabled(u)
                      /\ task.command = "set-default" => dflt = u
                      /\ task.command = "start" => mem[u] # None
                      /\ (task.command = "stop" \/ (task.command = "disable" /\ Opt("run"))) =>
                           ~alive[u] \/ failed > 0
    BY DEF AnswerIsTrue
  <2>1. Kept /\ task.todo = <<>>
    BY DEF Promising, Answering
  <2>2. ToDo = {}
    BY <2>1, Ranges DEF ToDo
  <2>3. task.command = "enable" =>
          \A s \in Conf(task.arg, task.conf).wanted \cap Range(Considered) : <<task.arg, s>> \in links
    BY <2>1, <2>2 DEF Kept, Enabling, HasFor, Wanted
  <2>4. task.command = "disable" => ~IsEnabled(task.arg)
    BY <2>1, <2>2 DEF Kept, Disabling, HasFor
  <2>5. task.command = "set-default" => dflt = task.arg
    BY <2>1, <2>2 DEF Kept, Defaulting, HasFor
  <2>6. task.command = "start" => mem[task.arg] # None
    BY <2>1, <2>2 DEF Kept, Starting, HasFor
  <2>7. ToKill = {}
    BY <2>2, KillsToDo DEF ToKill
  <2>8. (task.command = "stop" \/ (task.command = "disable" /\ Opt("run"))) =>
          ~alive[task.arg] \/ failed > 0
    BY <2>1, <2>2, <2>7 DEF Kept, Stopping, Leaving
  <2> QED
    BY <2>3, <2>4, <2>5, <2>6, <2>8
<1> QED
  BY <1>1, <1>2, <1>3, PTL DEF Spec

-----------------------------------------------------------------------------
(* Units that exclude each other are never linked in the same state.       *)

LEMMA ScopeIs ==
  ASSUME DiskTypes
  PROVE  /\ Scope = IF setup.cmdline = None THEN UnitStates
                    ELSE {"reboot", "poweroff", setup.cmdline}
         /\ Range(Considered) \subseteq Scope
<1>1. Range(Considered) = {"reboot", "poweroff", Current} /\ Current \in Levels
  BY ConsideredTypes
<1>2. setup.cmdline # None => Current = setup.cmdline
  BY DEF Current
<1> QED
  BY <1>1, <1>2 DEF Scope, UnitStates

LEMMA FixedFiles ==
  ASSUME DiskTypes, Fixed, NEW u \in Units
  PROVE  /\ file[u] = 1 /\ DOMAIN setup.conf[u] = {1} /\ OnDisk(u) = Conf(u, 1)
         /\ OnDisk(u) \in ConfType /\ u \notin OnDisk(u).conflicts
<1>1. Len(setup.conf[u]) = 1 /\ setup.conf[u] \in Seq(ConfType) /\ file[u] \in DOMAIN setup.conf[u]
  BY ConfFacts DEF Fixed, DiskTypes
<1>2. DOMAIN setup.conf[u] = {1}
  BY <1>1
<1>3. file[u] = 1
  BY <1>1, <1>2
<1> QED
  BY <1>2, <1>3, ConfFacts DEF OnDisk

LEMMA StaysFixed ==
  ASSUME DiskTypes, DiskTypes', Effects, Fixed'
  PROVE  /\ Fixed /\ \A u \in Units : OnDisk(u)' = OnDisk(u) /\ Excluders(u)' = Excluders(u)
         /\ Scope' = Scope
<1>1. setup' = setup /\ failed \in Nat /\ failed' = 0 /\ failed = 0
  BY TellingTypes DEF Effects, Fixed
<1>2. Fixed
  BY <1>1 DEF Fixed
<1>3. ASSUME NEW u \in Units PROVE file'[u] = file[u]
  <2>1. file[u] = 1 /\ DOMAIN setup.conf[u] = {1}
    BY <1>2, FixedFiles
  <2>2. file'[u] \in DOMAIN setup'.conf[u]
    BY DEF DiskTypes
  <2> QED
    BY <1>1, <2>1, <2>2
<1>4. \A u \in Units : OnDisk(u)' = OnDisk(u)
  BY <1>1, <1>3 DEF OnDisk, Conf
<1>5. CASE setup.cmdline = None
  BY <1>1, <1>2, <1>4, <1>5 DEF Scope, Excluders
<1>6. CASE setup.cmdline # None
  <2>1. Considered' = Considered
    BY <1>1, <1>6 DEF Considered, Current
  <2>2. Range(Considered)' = Range(Considered)
    BY <2>1 DEF Range
  <2> QED
    BY <1>1, <1>2, <1>4, <1>6, <2>2 DEF Scope, Excluders
<1> QED
  BY <1>5, <1>6

(* A conflict that is enabled is an enabled one to the handler as well, as *)
(* long as its links are not just being removed.                           *)
LEMMA RivalsAreEnabled ==
  ASSUME Sound, Agreeing, failed = 0, task.todo # <<>>, Step.op # "unlink", NEW v \in Units, IsEnabled(v)
  PROVE  IsRival(v)
<1>1. ~HeadOf("unlink", v)
  BY AtStep DEF Sound, HeadOf, HeadOp
<1> QED
  BY <1>1 DEF Agreeing, IsRival

(* The conflict v that was enabled still is to be disabled, or is not      *)
(* enabled any more.                                                       *)
LEMMA ClearingGoesOn ==
  ASSUME Sound, Unlinking, Agreeing, Working \/ Writing, task.todo # <<>>, failed = 0, failed' = 0,
         Refused \/ Proceeds, ToDo' # {}, NEW v \in Units, HasFor({"disable", "unlink"}, v),
         Step.op # "link"
  PROVE  HasFor({"disable", "unlink"}, v)' \/ ~IsEnabled(v)'
<1>1. DiskTypes /\ LoopTypes /\ Serving /\ Planning
  BY DEF Sound
<1>2. ToDo = {Step} \cup Rest /\ Rest \subseteq ToDo'
  BY <1>1, ToDoIs DEF Proceeds, Refused
<1>3. PICK y \in ToDo : y.op \in {"disable", "unlink"} /\ y.unit = v
  BY DEF HasFor
<1>4. links' \subseteq links /\ Range(Considered)' = Range(Considered)
  BY LinksChange
<1>5. ~IsEnabled(v) => ~IsEnabled(v)'
  BY <1>4 DEF IsEnabled
<1>6. (\E z \in ToDo' : z.op \in {"disable", "unlink"} /\ z.unit = v)
        => HasFor({"disable", "unlink"}, v)'
  BY DEF HasFor
<1>7. CASE y \in Rest
  BY <1>2, <1>3, <1>6, <1>7
<1>8. CASE y = Step /\ Step.op = "disable"
  <2>1. Proceeds \/ ~IsRival(v)
    BY <1>1, <1>3, <1>8, StepActs, DisableUnitProceeds
  <2>2. CASE Proceeds
    <3>1. \E z \in ToDo' : z.op = "unlink" /\ z.unit = v
      BY <1>3, <1>8, <2>2 DEF Proceeds, Unlinks
    <3> QED
      BY <1>6, <3>1
  <2>3. CASE ~IsRival(v)
    <3>1. ~IsEnabled(v)
      BY <1>8, <2>3, RivalsAreEnabled
    <3> QED
      BY <1>5, <3>1
  <2> QED
    BY <2>1, <2>2, <2>3
<1>9. CASE y = Step /\ Step.op = "unlink"
  <2>1. Proceeds
    <3>1. ~Fails
      BY <1>1, FailsMore
    <3> QED
      BY <1>1, <1>9, <3>1, StepActs, UnlinkProceeds
  <2>2. CASE Step.left # <<>>
    <3>1. \E z \in ToDo' : z.op = "unlink" /\ z.unit = v
      BY <1>3, <1>9, <2>1, <2>2 DEF Proceeds, Unlinks
    <3> QED
      BY <1>6, <3>1
  <2>3. CASE Step.left = <<>>
    <3>1. Step = task.todo[1] /\ 1 \in DOMAIN task.todo
      BY <1>1, AtStep
    <3>2. \A s \in Range(Considered) : <<v, s>> \in links => s \in Range(<<>>)
      BY <1>3, <1>9, <2>3, <3>1 DEF Unlinking, HeadOp
    <3>3. ~IsEnabled(v)
      BY <3>2, Ranges DEF IsEnabled
    <3> QED
      BY <1>5, <3>3
  <2> QED
    BY <2>2, <2>3
<1> QED
  BY <1>2, <1>3, <1>7, <1>8, <1>9

(* What a linking begins with, and what it may link. *)
Linkable == {default, setup.cmdline, "reboot", "poweroff"}

Cleared(y) == \A v \in OnDisk(y.unit).conflicts : IsEnabled(v) => HasFor({"disable", "unlink"}, v)

LEMMA HandlersClear ==
  ASSUME Sound, DiskTypes', Effects, Unlinking, Agreeing, Clearing, Working \/ Writing
  PROVE  Clearing'
<1>1. DiskTypes /\ LoopTypes /\ Serving /\ Planning
  BY DEF Sound
<1>2. task.todo # <<>> /\ (Refused \/ Proceeds)
  BY Proceeding
<1> SUFFICES ASSUME Fixed', NEW y \in ToDo', y.op = "link"
             PROVE  Range(y.left) \subseteq Linkable' /\ Cleared(y)'
  BY DEF Clearing, Linkable, Cleared
<1>3. /\ Fixed /\ failed = 0 /\ failed' = 0
      /\ \A u \in Units : OnDisk(u)' = OnDisk(u)
  BY <1>1, StaysFixed DEF Fixed
<1>4. \A z \in ToDo : z.op = "link" => Range(z.left) \subseteq Linkable /\ Cleared(z)
  BY <1>3 DEF Clearing, Linkable, Cleared
<1>5. /\ ToDo = {Step} \cup Rest /\ Step \in Steps /\ Rest \subseteq Steps
      /\ Rest \subseteq ToDo' \/ ToDo' = {}
      /\ y \in Rest \/ (Proceeds /\ May(Step, y))
  BY <1>1, <1>2, ToDoIs DEF Proceeds, Refused
<1>6. Linkable' = Linkable /\ Range(Considered)' = Range(Considered)
  BY LinksChange DEF Linkable
<1>7. CASE y \in Rest
  <2>1. Step.op # "link"
    BY <1>1, <1>2, <1>7, NoTail DEF Rest
  <2>2. y.unit \in Units /\ OnDisk(y.unit)' = OnDisk(y.unit)
    BY <1>3, <1>5, <1>7, StepUnit
  <2>3. links' \subseteq links
    BY <2>1, LinksChange
  <2>4. ASSUME NEW v \in OnDisk(y.unit).conflicts, IsEnabled(v)'
        PROVE  HasFor({"disable", "unlink"}, v)'
    <3>1. v \in Units
      BY <1>1, <1>3, <2>2, <2>4, FixedFiles DEF ConfType
    <3>2. IsEnabled(v)
      BY <1>6, <2>3, <2>4 DEF IsEnabled
    <3>3. HasFor({"disable", "unlink"}, v)
      BY <1>4, <1>5, <1>7, <2>4, <3>2 DEF Cleared
    <3>4. ToDo' # {}
      OBVIOUS
    <3> QED
      BY <1>2, <1>3, <2>1, <2>4, <3>1, <3>3, <3>4, ClearingGoesOn
  <2>5. Cleared(y)'
    BY <2>2, <2>4 DEF Cleared
  <2> QED
    BY <1>4, <1>5, <1>6, <1>7, <2>5
<1>8. CASE Proceeds /\ Step.op = "verify"
  <2>1. PICK u \in Units : u = Step.unit
    BY <1>5, <1>8, StepUnit
  <2>2. /\ y.unit = u /\ Range(y.left) = Targets(Conf(u, task.conf))
        /\ \A v \in Conf(u, task.conf).conflicts : IsRival(v) => Then("disable", v)
    <3>1. y \in Rest \/ y.op = "link"
      OBVIOUS
    <3> QED
      BY <1>8, <2>1 DEF Proceeds, Links
  <2>3. task.conf \in DOMAIN setup.conf[u]
    BY <1>1, <1>2, <1>8, <2>1, HeadFollows DEF Ready
  <2>4. Conf(u, task.conf) = OnDisk(u) /\ OnDisk(u) \in ConfType
    <3>1. task.conf = 1
      BY <1>1, <1>3, <2>3, FixedFiles
    <3> QED
      BY <1>1, <1>3, <3>1, FixedFiles
  <2>5. Range(y.left) \subseteq Linkable
    BY <2>2 DEF Targets, Linkable
  <2>6. links' = links
    BY <1>8, LinksChange
  <2>7. ASSUME NEW v \in OnDisk(u).conflicts, IsEnabled(v)'
        PROVE  HasFor({"disable", "unlink"}, v)'
    <3>1. v \in Units
      BY <2>4, <2>7 DEF ConfType
    <3>2. IsEnabled(v)
      BY <1>6, <2>6, <2>7 DEF IsEnabled
    <3>3. IsRival(v)
      BY <1>2, <1>3, <1>8, <3>1, <3>2, RivalsAreEnabled
    <3>4. Then("disable", v)
      BY <2>2, <2>4, <2>7, <3>3
    <3> QED
      BY <3>4 DEF Then, HasFor
  <2>8. Cleared(y)'
    BY <1>3, <2>2, <2>7 DEF Cleared
  <2> QED
    BY <1>6, <2>5, <2>8
<1>9. CASE Proceeds /\ Step.op = "link"
  <2>1. PICK u \in Units : u = Step.unit
    BY <1>5, <1>9, StepUnit
  <2>2. Step.left # <<>>
    BY <1>9 DEF Proceeds, Links
  <2>3. y.unit = u /\ y.left = Tail(Step.left)
    BY <1>9, <2>1, <2>2 DEF Proceeds, Links
  <2>4. Step.left \in Seq(UnitStates)
    BY <1>5, <1>9, StepTypes
  <2>5. Range(y.left) \subseteq Range(Step.left)
    BY <2>2, <2>3, <2>4, RangeOfTail
  <2>6. Range(Step.left) \subseteq Linkable /\ Cleared(Step)
    BY <1>4, <1>5, <1>9
  <2>7. ToDo = {Step}
    BY <1>1, <1>2, <1>5, <1>9, NoTail DEF Rest
  <2>8. \A v : ~HasFor({"disable", "unlink"}, v)
    BY <1>9, <2>7 DEF HasFor
  <2>9. \A v \in OnDisk(u).conflicts : ~IsEnabled(v) /\ v # u
    BY <1>1, <1>3, <2>1, <2>6, <2>8, FixedFiles DEF Cleared
  <2>10. links' \subseteq links \cup {<<u, Head(Step.left)>>}
    BY <1>9, <2>1, <2>2, LinksChange
  <2>11. \A v \in OnDisk(u).conflicts : ~IsEnabled(v)'
    BY <1>6, <2>9, <2>10 DEF IsEnabled
  <2>12. Cleared(y)'
    BY <1>3, <2>3, <2>11 DEF Cleared
  <2> QED
    BY <1>6, <2>5, <2>6, <2>12
<1> QED
  BY <1>5, <1>7, <1>8, <1>9 DEF May

LEMMA HandlersExclude ==
  ASSUME Sound, DiskTypes', Effects, Clearing, Excluding, Working \/ Writing
  PROVE  Excluding'
<1>1. DiskTypes /\ LoopTypes /\ Serving /\ Planning
  BY DEF Sound
<1> SUFFICES ASSUME Fixed', NEW a \in Units, NEW b \in Excluders(a)', NEW s \in Scope',
                    <<a, s>> \in links'
             PROVE  <<b, s>> \notin links'
  BY DEF Excluding
<1>2. task.todo # <<>>
  BY Proceeding
<1>3. /\ Fixed /\ \A w \in Units : Excluders(w)' = Excluders(w)
      /\ Scope' = Scope
  BY <1>1, StaysFixed
<1>4. /\ b \in Units /\ b \in Excluders(a) /\ a \in Excluders(b) /\ s \in Scope
  BY <1>3 DEF Excluders
<1>5. <<a, s>> \in links => <<b, s>> \notin links
  BY <1>3, <1>4 DEF Excluding
<1>6. CASE ~(Step.op = "link" /\ Step.left # <<>>)
  <2>1. links' \subseteq links
    BY <1>6, LinksChange
  <2> QED
    BY <1>5, <2>1
<1>7. CASE Step.op = "link" /\ Step.left # <<>>
  <2>1. PICK u \in Units : u = Step.unit
    BY <1>1, <1>2, <1>7, ToDoIs, StepUnit
  <2>2. PICK t : t = Head(Step.left)
    OBVIOUS
  <2>3. links' = links \cup {<<u, t>>} \/ links' = links
    BY <1>7, <2>1, <2>2, LinksChange
  <2>4. ToDo = {Step}
    BY <1>1, <1>2, <1>7, ToDoIs, NoTail DEF Rest
  <2>5. /\ Range(Step.left) \subseteq {default, setup.cmdline, "reboot", "poweroff"}
        /\ \A v \in OnDisk(u).conflicts : IsEnabled(v) => HasFor({"disable", "unlink"}, v)
    BY <1>3, <1>7, <2>1, <2>4 DEF Clearing
  <2>6. \A v \in OnDisk(u).conflicts : ~IsEnabled(v) /\ v # u
    BY <1>1, <1>3, <1>7, <2>4, <2>5, FixedFiles DEF HasFor
  <2>7. t \in Range(Step.left) /\ t \in UnitStates
    BY <1>1, <1>2, <1>7, <2>2, ToDoIs, StepTypes, RangeOfTail
  <2>8. t \in Scope => t \in Range(Considered)
    <3>1. Range(Considered) = {"reboot", "poweroff", Current}
      BY <1>1, ConsideredTypes
    <3>2. CASE setup.cmdline = None
      <4>1. t \in {default, "reboot", "poweroff"}
        BY <2>5, <2>7, <3>2, NoneIsNoUnit
      <4> QED
        BY <3>1, <3>2, <4>1 DEF Current
    <3>3. CASE setup.cmdline # None
      BY <3>3 DEF Scope
    <3> QED
      BY <3>2, <3>3
  <2>9. \A v \in Excluders(u) : v # u /\ (t \in Scope => <<v, t>> \notin links)
    BY <2>6, <2>8 DEF Excluders, IsEnabled
  <2>10. CASE <<a, s>> = <<u, t>>
    <3>1. b # u /\ <<b, s>> \notin links
      BY <1>4, <2>9, <2>10
    <3> QED
      BY <2>3, <3>1
  <2>11. CASE <<b, s>> = <<u, t>>
    <3>1. a # u /\ <<a, s>> \notin links
      BY <1>4, <2>9, <2>11
    <3> QED
      BY <2>3, <3>1
  <2>12. CASE <<a, s>> # <<u, t>> /\ <<b, s>> # <<u, t>>
    BY <1>5, <2>3, <2>12
  <2> QED
    BY <2>10, <2>11, <2>12
<1> QED
  BY <1>6, <1>7

LEMMA OthersExclude ==
  ASSUME Sound, DiskTypes', Effects, Clearing, Excluding,
         Staying \/ Answer \/ Receive \/ Boot \/ Repair \/ Ending
  PROVE  Clearing' /\ Excluding'
<1>1. DiskTypes /\ LoopTypes /\ Serving /\ Planning
  BY DEF Sound
<1> SUFFICES ASSUME Fixed' PROVE Clearing' /\ Excluding'
  BY DEF Clearing, Excluding
<1>2. /\ Fixed /\ \A w \in Units : OnDisk(w)' = OnDisk(w) /\ Excluders(w)' = Excluders(w)
      /\ Scope' = Scope
  BY <1>1, StaysFixed
<1>3. links' = links
  <2>1. CASE Staying
    BY <1>1, <2>1, StayingFrame
  <2>2. CASE Ending
    BY <2>2, EndingIsOff DEF Off, disk
  <2>3. CASE Answer \/ Receive \/ Boot \/ Repair
    BY <2>3 DEF Answer, Receive, Boot, Repair, disk
  <2> QED
    BY <2>1, <2>2, <2>3
<1>4. Excluding'
  BY <1>2, <1>3 DEF Excluding
<1>5. CASE Staying
  <2>1. task' = task /\ setup' = setup /\ default' = default
    BY <1>1, <1>5, StayingFrame DEF states
  <2>2. ToDo' = ToDo /\ \A u : IsEnabled(u)' <=> IsEnabled(u)
    BY <1>3, <2>1, SameEnabling DEF ToDo
  <2>3. \A y \in ToDo : y.op = "link" => OnDisk(y.unit)' = OnDisk(y.unit)
    <3>1. ToDo \subseteq Steps
      BY <1>1, <1>5 DEF ToDo, Range, Serving
    <3> QED
      BY <1>2, <3>1, StepUnit
  <2>4. Clearing'
    BY <1>2, <2>1, <2>2, <2>3 DEF Clearing, HasFor
  <2> QED
    BY <1>4, <2>4
<1>6. CASE Answer \/ Receive \/ Boot \/ Repair \/ Ending
  <2>1. \A k \in DOMAIN task'.todo : task'.todo[k].op \notin {"link", "unlink"}
    BY <1>1, <1>6, FirstLeaves
  <2>2. \A y \in ToDo' : y.op # "link"
    BY <2>1 DEF ToDo, Range
  <2>3. Clearing'
    BY <2>2 DEF Clearing
  <2> QED
    BY <1>4, <2>3
<1> QED
  BY <1>5, <1>6

LEMMA StuttersExclude ==
  ASSUME Clearing, Excluding, UNCHANGED vars
  PROVE  Clearing' /\ Excluding'
<1>1. UNCHANGED <<setup, file, links, default, task, failed>>
  BY DEF vars, disk, states
<1>2. /\ Range(Considered)' = Range(Considered) /\ ToDo' = ToDo
      /\ \A u : IsEnabled(u)' <=> IsEnabled(u)
  BY <1>1, SameStates, SameEnabling DEF ToDo
<1>3. Fixed' <=> Fixed
  BY <1>1 DEF Fixed
<1>4. Scope' = Scope /\ \A u : OnDisk(u)' = OnDisk(u) /\ Excluders(u)' = Excluders(u)
  BY <1>1, <1>2 DEF Scope, OnDisk, Conf, Excluders
<1>5. Excluding'
  BY <1>1, <1>3, <1>4 DEF Excluding
<1>6. Clearing'
  BY <1>1, <1>2, <1>3, <1>4 DEF Clearing, HasFor
<1> QED
  BY <1>5, <1>6

LEMMA FirstExcludes ==
  ASSUME LinksExclude, Init
  PROVE  Clearing /\ Excluding
<1>1. task.todo = <<>> /\ links = setup.links /\ setup \in Setups /\ file = [u \in Units |-> 1]
  BY DEF Init, Idle
<1>2. ToDo = {}
  BY <1>1, Ranges DEF ToDo
<1>3. DiskTypes
  BY Initially, TypesAre DEF IInv
<1>4. Scope \subseteq UnitStates
  BY <1>3, ScopeIs, ServerAssumption DEF DiskTypes, UnitStates
<1>5. Excluding
  <2> SUFFICES ASSUME Fixed, NEW u \in Units, NEW v \in Excluders(u), NEW s \in Scope, <<u, s>> \in links
               PROVE  <<v, s>> \notin links
    BY DEF Excluding
  <2>1. v \in Units /\ v \in setup.conf[u][1].conflicts /\ u \in setup.conf[v][1].conflicts
    BY <1>1 DEF Excluders, OnDisk, Conf
  <2> QED
    BY <1>1, <1>4, <2>1 DEF LinksExclude
<1> QED
  BY <1>2, <1>5 DEF Clearing

(* Two units that name each other as conflicts are never linked in the     *)
(* same state, in whatever order they are enabled, re-enabled and disabled,*)
(* with force or without it, and across boots: as long as their files stay *)
(* the same, no script fails and they were not linked so at first.         *)
THEOREM RivalsAreNotEnabled ==
  ASSUME LinksExclude
  PROVE  Spec => []EnabledExclude
<1>1. Init => IInv /\ Clearing /\ Excluding
  BY Initially, FirstExcludes
<1>2. IInv /\ Clearing /\ Excluding /\ [Next]_vars => (IInv /\ Clearing /\ Excluding)'
  <2>1. CASE IInv /\ Clearing /\ Excluding /\ Next
    <3>1. Sound /\ Unlinking /\ Agreeing
      BY <2>1, TypesAre DEF IInv, Sound
    <3>2. IInv'
      BY <2>1, NextKeeps
    <3>3. DiskTypes'
      BY <3>2, TypesAre DEF IInv, TypeOK, DiskTypes
    <3>4. Effects
      BY <2>1, <3>1, StepEffects
    <3>5. \/ Working \/ Writing \/ Staying \/ Answer \/ Receive \/ Boot \/ Repair \/ Ending
      BY <2>1, NextIs DEF Writing, Staying
    <3> QED
      BY <2>1, <3>1, <3>2, <3>3, <3>4, <3>5, HandlersClear, HandlersExclude, OthersExclude
  <2>2. CASE IInv /\ Clearing /\ Excluding /\ UNCHANGED vars
    BY <2>2, StuttersKeep, StuttersExclude
  <2> QED
    BY <2>1, <2>2
<1>3. IInv /\ Excluding => EnabledExclude
  <2> SUFFICES ASSUME IInv, Excluding, Quiet, \A u \in Units : Len(setup.conf[u]) = 1,
                      NEW u \in Units, NEW v \in Units, NEW s \in Range(Considered),
                      v \in OnDisk(u).conflicts, u \in OnDisk(v).conflicts, <<u, s>> \in links
               PROVE  <<v, s>> \notin links
    BY DEF EnabledExclude
  <2>1. Fixed
    BY DEF Fixed, Quiet
  <2>2. s \in Scope
    BY TypesAre, ScopeIs DEF IInv
  <2> QED
    BY <2>1, <2>2 DEF Excluding, Excluders
<1> QED
  BY <1>1, <1>2, <1>3, PTL DEF Spec
-----------------------------------------------------------------------------
(* What a client reads of the units that it asks for.                      *)

(* What processes may have left in a unit. *)
Remains == [pid : Numbers, num : Nat, max : Numbers, exit : Numbers, signal : Numbers,
            timer : {<<>>} \cup {<<<<t, n>>>> : t \in Nat, n \in Nat}, errors : Seq(Nat),
            history : Seq(Pasts)]

LEMMA RemainsAre == New \in Remains /\ First \in Remains /\ Third \in Remains
<1>1. /\ -1 \in Numbers /\ \A n \in Nat : n \in Numbers
      /\ 0 \in Nat /\ 1 \in Nat /\ 2 \in Nat /\ 3 \in Nat /\ 4 \in Nat /\ 5 \in Nat /\ 6 \in Nat
      /\ 7 \in Nat /\ 8 \in Nat /\ 15 \in Nat
  BY DEF Numbers
<1>2. NewPast \in Pasts
  BY <1>1 DEF NewPast, Pasts
<1> DEFINE p == [NewPast EXCEPT !.pid = 4, !.exit = 1, !.state = 1, !.final = 1]
           q == [NewPast EXCEPT !.pid = 5, !.signal = 15, !.state = 2, !.final = 1]
<1>3. p \in Pasts /\ q \in Pasts
  BY <1>1 DEF NewPast, Pasts
<1>4. New \in Remains
  BY <1>1 DEF New, Remains
<1>5. First \in Remains
  <2> DEFINE timer == <<<<8, 3>>>>
  <2>1. timer \in {<<>>} \cup {<<<<t, n>>>> : t \in Nat, n \in Nat}
    BY <1>1
  <2>2. First = [pid |-> 7, num |-> 0, max |-> -1, exit |-> -1, signal |-> -1, timer |-> timer,
                 errors |-> <<>>, history |-> <<>>]
    <3>1. First = [New EXCEPT !.pid = 7, !.timer = timer]
      BY DEF First
    <3> HIDE DEF timer
    <3>2. [New EXCEPT !.pid = 7] = [pid |-> 7, num |-> 0, max |-> -1, exit |-> -1, signal |-> -1,
                                   timer |-> <<>>, errors |-> <<>>, history |-> <<>>]
      BY DEF New
    <3> QED
      BY <3>1, <3>2
  <2> HIDE DEF timer
  <2> QED
    BY <1>1, <2>1, <2>2 DEF Remains
<1>6. Third \in Remains
  <2> DEFINE es == <<5, 6>>
             h  == <<p, q>>
  <2>1. es \in Seq(Nat) /\ h \in Seq(Pasts)
    BY <1>1, <1>3
  <2>2. Third = [pid |-> -1, num |-> 2, max |-> 3, exit |-> 0, signal |-> 15, timer |-> <<>>,
                 errors |-> es, history |-> h]
    <3>1. Third = [New EXCEPT !.num = 2, !.max = 3, !.exit = 0, !.signal = 15, !.errors = es,
                     !.history = h]
      BY DEF Third
    <3> HIDE DEF es, h
    <3>2. New = [pid |-> -1, num |-> 0, max |-> -1, exit |-> -1, signal |-> -1, timer |-> <<>>,
                 errors |-> <<>>, history |-> <<>>]
      BY DEF New
    <3> QED
      BY <3>1, <3>2
  <2> HIDE DEF es, h
  <2> QED
    BY <1>1, <2>1, <2>2 DEF Remains
<1> QED
  BY <1>4, <1>5, <1>6

(* The view of a unit is one that the messages carry.                      *)
LEMMA ViewIs ==
  ASSUME ArrayTypes, NEW u \in Units, mem[u] # None, NEW f \in Remains
  PROVE  View(u, f) \in Views(Nat)
<1>1. mem[u] \in Memory
  BY DEF ArrayTypes
<1>2. /\ mem[u].enabled \in BOOLEAN /\ mem[u].changed \in BOOLEAN
      /\ mem[u].state \in PStates /\ mem[u].final \in {"ready", "success", "failure"}
  BY <1>1 DEF Memory
<1>3. PStateNumber[mem[u].state] \in Nat /\ FinalNumber[mem[u].final] \in Numbers
  BY <1>2 DEF PStateNumber, FinalNumber, PStates, Numbers
<1> DEFINE restart == Loaded(u).restart /\ f.max = -1
           type == IF Loaded(u).kind = "daemon" THEN 0 ELSE 1
<1>4. restart \in BOOLEAN /\ type \in Nat /\ 9 \in Nat
  OBVIOUS
<1>5. View(u, f) =
        [name |-> 9, enabled |-> mem[u].enabled, pid |-> f.pid,
         state |-> PStateNumber[mem[u].state], final |-> FinalNumber[mem[u].final],
         num |-> f.num, restart |-> restart, max |-> f.max, type |-> type, signal |-> f.signal,
         changed |-> mem[u].changed, timer |-> f.timer, errors |-> f.errors, exit |-> f.exit,
         history |-> f.history]
  BY DEF View
<1> HIDE DEF restart, type
<1>6. /\ f.pid \in Numbers /\ f.num \in Nat /\ f.max \in Numbers /\ f.exit \in Numbers
      /\ f.signal \in Numbers /\ f.errors \in Seq(Nat) /\ f.history \in Seq(Pasts)
      /\ f.timer \in {<<>>} \cup {<<<<t, n>>>> : t \in Nat, n \in Nat}
  BY DEF Remains
<1> QED
  BY <1>2, <1>3, <1>4, <1>5, <1>6 DEF Views

LEMMA ShownIs ==
  ASSUME NEW v, NEW sort
  PROVE  Shown(v, sort) = ShownAs(v, sort)
BY DEF Shown, ShownAs, Told, ListView

(* A client that asks for a unit, or for all of them, reads what the array *)
(* says of each: its states, its numbers and their absence, whether it is  *)
(* enabled and whether its file has changed; the list without the details. *)
THEOREM ClientsSeeUnits == Spec => []ClientSeesUnit
<1>1. IInv => ClientSeesUnit
  <2> DEFINE sort == IF task.command = "list" THEN "list" ELSE "unit"
  <2> SUFFICES ASSUME IInv, NEW u \in Units, NEW f \in {New, First, Third}, mem[u] # None
               PROVE  LET out == [messages |-> <<1>>, errors |-> <<>>,
                                  units |-> <<View(u, f), View(u, f)>>] IN
                      UnmarshallResponse(MarshallResponse(out, sort))
                        = [out EXCEPT !.units = <<Shown(View(u, f), sort), Shown(View(u, f), sort)>>]
    BY DEF ClientSeesUnit
  <2> HIDE DEF sort
  <2>1. View(u, f) \in Views(Nat)
    BY TypesAre, RemainsAre, ViewIs DEF IInv
  <2> DEFINE v == View(u, f)
             w == Shown(v, sort)
             ms == <<1>>
             es == <<>>
             vs == <<v, v>>
  <2>2. w = ShownAs(v, sort)
    BY ShownIs
  <2> HIDE DEF v, w
  <2>3. ms \in Seq(Nat) /\ es \in Seq(Nat)
    OBVIOUS
  <2>4. vs \in Seq(Views(Nat))
    BY <2>1 DEF v
  <2>5. AllShown(vs, sort) = <<w, w>>
    BY <2>2 DEF AllShown
  <2> HIDE DEF ms, es, vs
  <2>6. UnmarshallResponse(MarshallResponse(Out(ms, es, vs), sort)) = Out(ms, es, <<w, w>>)
    <3>1. UnmarshallResponse(MarshallResponse(Out(ms, es, vs), sort))
            = Out(ms, es, AllShown(vs, sort))
      BY <2>3, <2>4, ResponseIsRead, SMTT(60)
    <3> QED
      BY <2>5, <3>1
  <2>7. [Out(ms, es, vs) EXCEPT !.units = <<w, w>>] = Out(ms, es, <<w, w>>)
    BY DEF Out
  <2>8. [messages |-> <<1>>, errors |-> <<>>, units |-> <<View(u, f), View(u, f)>>] = Out(ms, es, vs)
    BY DEF Out, ms, es, vs, v
  <2> QED
    BY <2>6, <2>7, <2>8 DEF v, w
<1> QED
  BY <1>1, Invariance, PTL
=============================================================================
