-------------------------- MODULE UnitServerPlans ---------------------------
(***************************************************************************)
(* The inductive invariant of UnitServer, for every finite set of units,   *)
(* all the versions of their files, every request unitctl may send, and    *)
(* every number of boots, deaths, failures and losses of power; what the   *)
(* steps of the handlers do to the units in the array; and what the main   *)
(* thread has still to do.  That stays in an order that the code can have  *)
(* written, and stays feasible: a unit that is to be added is not in the   *)
(* array, one that is to be cleared has no process any more, one that is to*)
(* be run is dead, whatever happens between two steps of a handler.        *)
(* UnitServerProofs shows the rest of the invariant.                       *)
(***************************************************************************)
EXTENDS UnitServer, UnitMessageProofs

(* The steps a handler may have still to do. *)
Steps ==
       [op : {"stop", "start", "load"}, unit : Units, told : BOOLEAN]
  \cup [op : {"kill", "clear", "run", "enable", "verify", "status"}, unit : Units]
  \cup [op : {"set-default", "rm", "ln"}, unit : Levels]
  \cup [op : {"list", "get-default"}, unit : {None}]
  \cup [op : {"stopAll"}, units : SUBSET Units]
  \cup [op : {"add"}, unit : Units, conf : Nat, enabled : BOOLEAN]
  \cup [op : {"disable"}, unit : Units, nested : BOOLEAN]
  \cup [op : {"unlink"}, unit : Units, left : Seq(UnitStates), stop : BOOLEAN]
  \cup [op : {"check"}, unit : Units, already : BOOLEAN]
  \cup [op : {"link"}, unit : Units, left : Seq(UnitStates)]

(* TypeOK, in three parts, and what the main thread has still to do.       *)
DiskTypes ==
  /\ setup \in Setups
  /\ \A u \in Units : file[u] \in DOMAIN setup.conf[u]
  /\ links \subseteq Units \X UnitStates
  /\ dflt \in Levels \cup {None}
  /\ default \in Levels /\ newDefault \in Levels \cup {None}
  /\ pending \subseteq Units /\ missed \subseteq Units
  /\ failed \in 0..setup.fails

ArrayTypes ==
  /\ mem \in [Units -> Memory \cup {None}]
  /\ alive \in [Units -> BOOLEAN] /\ orphans \in [Units -> Nat]
  /\ \A u \in Units : alive[u] => mem[u] # None

LoopTypes ==
  /\ DOMAIN task = DOMAIN Idle
  /\ open \in 0..MaxFds /\ watched \in 0..(Slots - 1)
  /\ up \in BOOLEAN /\ shutdown \in Shutdowns \cup {None}

Serving ==
  /\ task.todo \in Seq(Steps)
  /\ task.command \in {None, "boot"} \/ watched > 0
  /\ ~up => task = Idle /\ mem = [u \in Units |-> None]

(* Which step may come after which. *)
Follows(x, y) ==
  \/ x.op \in {"kill", "clear"} /\ y.op \in {"clear", "check", "verify", "load", "add", "link"}
  \/ x.op = "kill" /\ y.op = "kill"
  \/ x.op = "stop" /\ y.op \in {"check", "verify", "load"}
  \/ x.op = "disable" /\ x.nested /\ y.op \in {"disable", "stopAll", "link"}
  \/ x.op = "disable" /\ ~x.nested /\ y.op \in {"check", "verify"}
  \/ x.op = "unlink" /\ y.op \in {"check", "verify"}
  \/ x.op = "unlink" /\ ~x.stop /\ y.op \in {"disable", "stopAll", "link"}
  \/ x.op = "stopAll" /\ y.op \in {"link", "add"}
  \/ x.op = "run" /\ y.op = "run" /\ x.unit # y.unit
  \/ x.op = "rm" /\ y.op = "ln"

Ordered(steps) == \A i, j \in DOMAIN steps : i < j => Follows(steps[i], steps[j])

(* A process of a unit is a daemon that runs, and every unit is as one     *)
(* that is new, runs, has ended, has been stopped or is being restarted.   *)
Living ==
  \A u \in Units : alive[u] => mem[u].state = "running" /\ Loaded(u).kind = "daemon"

Shapes ==
  \A u \in Units : mem[u] # None =>
    \/ mem[u].state = "dead"
    \/ mem[u].state \in {"running", "exited"} /\ mem[u].final # "ready"
    \/ mem[u].state = "killed" /\ mem[u].final = "failure"
    \/ mem[u].state = "restarting" /\ mem[u].final # "success"

(* The units whose listener can neither be restarting nor restart them.    *)
Settled == {u \in Units : mem[u] # None =>
  ~MidRestart(u) /\ (mem[u].state = "dead" \/ ~mem[u].listening)}

ToKill == {u \in Units : \E i \in DOMAIN task.todo : task.todo[i].op = "kill" /\ task.todo[i].unit = u}
ToStop == {u \in Units : \E i \in DOMAIN task.todo : task.todo[i].op = "stop" /\ task.todo[i].unit = u}

(* The units that may be taken out of the array: the process is not alive, *)
(* or is still to be killed, unless something could not be executed.       *)
Leaving == {u \in Settled : alive[u] => failed > 0 \/ u \in ToKill}

(* What holds of the units, the disk and the task when a step is still to  *)
(* be done: a unit that is to be added has the version of its file, unless *)
(* the notifier has marked the change or is going to.                      *)
Ready(step) ==
  /\ step.op = "kill"  => mem[step.unit] # None /\ step.unit \in Settled
  /\ step.op = "clear" => step.unit \in Leaving
  /\ step.op = "load"  => step.unit \in ToStop \/ step.unit \in Leaving
  /\ step.op = "run"   => mem[step.unit] # None /\ mem[step.unit].state = "dead"
  /\ step.op = "stopAll" => \A u \in step.units : mem[u] # None
  /\ step.op = "verify"  => task.conf \in DOMAIN setup.conf[step.unit]
  /\ step.op \in {"start", "load"} => step.told \/ IsEnabled(step.unit)
  /\ step.op \in {"rm", "ln"} => step.unit \in {default, newDefault}
  /\ step.op = "add" =>
       /\ mem[step.unit] = None
       /\ step.conf \in DOMAIN setup.conf[step.unit]
       /\ step.unit \in pending \cup missed \/ step.conf = file[step.unit]
       /\ step.enabled <=> IsEnabled(step.unit)

Feasible == {step \in Steps : Ready(step)}

Planning ==
  /\ Ordered(task.todo)
  /\ \A i \in DOMAIN task.todo : task.todo[i] \in Feasible

(* The version that a unit has is one of its file's.                       *)
Versions == \A u \in Units : mem[u] # None => mem[u].conf \in DOMAIN setup.conf[u]

HeadOp(ops) == 1 \in DOMAIN task.todo /\ task.todo[1].op \in ops

(* default.state is what get-default tells but while it is replaced.       *)
Telling ==
  /\ ~up => newDefault = None
  /\ HeadOp({"rm"}) => 2 \in DOMAIN task.todo /\ task.todo[2].op = "ln"
  /\ up /\ failed = 0 /\ ~HeadOp({"rm", "ln"}) =>
       dflt = IF newDefault # None THEN newDefault ELSE default

(* The array and the links say the same of a unit but while its links are  *)
(* made or removed, one state after the other.                             *)
HeadOf(op, u) == HeadOp({op}) /\ task.todo[1].unit = u

Agreeing ==
  failed = 0 => \A u \in Units : mem[u] # None =>
    /\ mem[u].enabled => IsEnabled(u) \/ HeadOf("link", u)
    /\ IsEnabled(u) => mem[u].enabled \/ HeadOf("unlink", u)

Unlinking ==
  HeadOp({"unlink"}) =>
    \A s \in Range(Considered) :
      <<task.todo[1].unit, s>> \in links => s \in Range(task.todo[1].left)

Linking ==
  \A i \in DOMAIN task.todo : task.todo[i].op = "link" =>
    \/ Range(task.todo[i].left) \cap Range(Considered) # {}
    \/ i = 1 /\ IsEnabled(task.todo[i].unit)

IInv == /\ TypeOK /\ Serving /\ Living /\ Shapes /\ Planning /\ Versions
        /\ ProcessesAreKnown /\ StaleIsMarked /\ ConflictsExclude
        /\ Telling /\ Agreeing /\ Unlinking /\ Linking
-----------------------------------------------------------------------------
(* The steps of a handler. *)

(* A sequence in which the first element has been replaced by others.      *)
LEMMA Replaced ==
  ASSUME NEW E, NEW s \in Seq(E), s # <<>>, NEW t \in Seq(E), NEW n, n = t \o Tail(s)
  PROVE  /\ n \in Seq(E)
         /\ \A k \in DOMAIN n : \/ k \in DOMAIN t /\ n[k] = t[k]
                                \/ /\ k > Len(t) /\ k - Len(t) + 1 \in DOMAIN s
                                   /\ k - Len(t) + 1 > 1 /\ n[k] = s[k - Len(t) + 1]
         /\ \A k \in DOMAIN t : k \in DOMAIN n /\ n[k] = t[k]
         /\ \A k \in DOMAIN s : k > 1 => /\ k - 1 + Len(t) \in DOMAIN n
                                         /\ n[k - 1 + Len(t)] = s[k]
         /\ 1 \in DOMAIN s /\ Head(s) = s[1] /\ s[1] \in E
<1>1. /\ Tail(s) \in Seq(E) /\ Len(Tail(s)) = Len(s) - 1 /\ Len(s) \in Nat \ {0}
      /\ \A i \in 1..Len(Tail(s)) : Tail(s)[i] = s[i + 1]
  BY HeadTailProperties, EmptySeq
<1>2. /\ n \in Seq(E) /\ Len(n) = Len(t) + Len(s) - 1
      /\ \A i \in 1..Len(n) : n[i] = IF i <= Len(t) THEN t[i] ELSE Tail(s)[i - Len(t)]
  BY <1>1, ConcatProperties
<1>3. /\ DOMAIN n = 1..Len(n) /\ DOMAIN s = 1..Len(s) /\ DOMAIN t = 1..Len(t)
      /\ Len(t) \in Nat
  BY <1>2, LenProperties
<1>4. ASSUME NEW k \in DOMAIN n
      PROVE  \/ k \in DOMAIN t /\ n[k] = t[k]
             \/ /\ k > Len(t) /\ k - Len(t) + 1 \in DOMAIN s
                /\ k - Len(t) + 1 > 1 /\ n[k] = s[k - Len(t) + 1]
  <2>1. CASE k <= Len(t)
    BY <2>1, <1>2, <1>3
  <2>2. CASE k > Len(t)
    <3>1. k - Len(t) \in 1..Len(Tail(s))
      BY <2>2, <1>1, <1>2, <1>3
    <3>a. k \in 1..Len(n) /\ ~(k <= Len(t))
      BY <2>2, <1>2, <1>3
    <3>2. n[k] = Tail(s)[k - Len(t)]
      BY <3>a, <1>2
    <3>3. Tail(s)[k - Len(t)] = s[k - Len(t) + 1]
      BY <3>1, <1>1
    <3> QED
      BY <2>2, <3>1, <3>2, <3>3, <1>1, <1>3
  <2> QED
    BY <2>1, <2>2, <1>3
<1>5. ASSUME NEW k \in DOMAIN t PROVE k \in DOMAIN n /\ n[k] = t[k]
  BY <1>2, <1>3, <1>1
<1>6. ASSUME NEW k \in DOMAIN s, k > 1
      PROVE  k - 1 + Len(t) \in DOMAIN n /\ n[k - 1 + Len(t)] = s[k]
  <2>1. k - 1 \in 1..Len(Tail(s)) /\ k - 1 + Len(t) \in 1..Len(n)
    BY <1>6, <1>1, <1>2, <1>3
  <2>2. n[k - 1 + Len(t)] = Tail(s)[k - 1]
    BY <2>1, <1>2, <1>3
  <2>3. Tail(s)[k - 1] = s[k - 1 + 1]
    BY <2>1, <1>1
  <2> QED
    BY <2>1, <2>2, <2>3, <1>3
<1>7. 1 \in DOMAIN s /\ Head(s) = s[1] /\ s[1] \in E
  BY <1>1, <1>3, ElementOfSeq
<1> QED
  BY <1>2, <1>4, <1>5, <1>6, <1>7

(* The elements of a finite set in a sequence, each of them once.          *)
LEMMA Listed ==
  ASSUME NEW E, IsFiniteSet(E)
  PROVE  /\ SetToSeq(E) \in Seq(E) /\ SetToSeq(E) \in [1..Cardinality(E) -> E]
         /\ Range(SetToSeq(E)) = E /\ IsInjective(SetToSeq(E))
         /\ Cardinality(E) \in Nat
<1> DEFINE N == Cardinality(E)
           f == SetToSeq(E)
<1>1. N \in Nat /\ ExistsBijection(1..N, E)
  BY FS_CardinalityType
<1>2. \E g \in [1..N -> E] : IsInjective(g)
  BY <1>1 DEF ExistsBijection, Bijection, Injection, IsInjective
<1>3. f \in [1..N -> E] /\ IsInjective(f)
  BY <1>2 DEF SetToSeq
<1>4. f \in Injection(1..N, E)
  BY <1>3 DEF Injection, IsInjective
<1>5. IsFiniteSet(1..N) /\ Cardinality(1..N) = N
  BY <1>1, FS_Interval
<1>6. f \in Surjection(1..N, E)
  BY <1>4, <1>5, FS_Injection
<1>7. Range(f) = E
  BY <1>3, <1>6 DEF Surjection, Range
<1>8. f \in Seq(E)
  BY <1>1, <1>3
<1> QED
  BY <1>1, <1>3, <1>7, <1>8

(* The step that the main thread is at, and what it leaves of the task.    *)
LEMMA AtStep ==
  ASSUME Serving, task.todo # <<>>
  PROVE  /\ Step = task.todo[1] /\ task.todo[1] \in Steps
         /\ 1 \in DOMAIN task.todo
         /\ \A i \in DOMAIN task.todo : task.todo[i] \in Steps
<1>1. task.todo \in Seq(Steps)
  BY DEF Serving
<1>2. <<>> \in Seq(Steps)
  BY EmptySeq
<1>3. 1 \in DOMAIN task.todo /\ Head(task.todo) = task.todo[1] /\ task.todo[1] \in Steps
  BY <1>1, <1>2, Replaced
<1>4. \A i \in DOMAIN task.todo : task.todo[i] \in Steps
  BY <1>1
<1> QED
  BY <1>3, <1>4 DEF Step

LEMMA Doing ==
  ASSUME LoopTypes, NEW t, Do(t)
  PROVE  /\ task'.todo = t \o Tail(task.todo)
         /\ DOMAIN task' = DOMAIN Idle /\ task'.command = task.command
         /\ task'.options = task.options /\ task'.conf = task.conf
BY DEF Do, LoopTypes, Idle

LEMMA Refusing ==
  ASSUME LoopTypes, Serving, task.todo # <<>>, Refuse
  PROVE  /\ task'.todo = <<>> \o Tail(task.todo)
         /\ DOMAIN task' = DOMAIN Idle /\ task'.command = task.command
         /\ task'.options = task.options /\ task'.conf = task.conf
<1>1. Tail(task.todo) \in Seq(Steps)
  BY HeadTailProperties DEF Serving
<1>2. <<>> \o Tail(task.todo) = Tail(task.todo)
  BY <1>1, ConcatEmptySeq
<1>3. task' = [task EXCEPT !.todo = Tail(@), !.error = TRUE]
  BY DEF Refuse
<1> QED
  BY <1>2, <1>3 DEF LoopTypes, Idle

(* What a step is about. *)
LEMMA StepTypes ==
  ASSUME NEW x \in Steps
  PROVE  /\ x.op \in {"stop", "start", "load"} =>
              x \in [op : {"stop", "start", "load"}, unit : Units, told : BOOLEAN]
         /\ x.op \in {"kill", "clear", "run", "enable", "verify", "status"} =>
              x \in [op : {"kill", "clear", "run", "enable", "verify", "status"}, unit : Units]
         /\ x.op \in {"set-default", "rm", "ln"} =>
              x \in [op : {"set-default", "rm", "ln"}, unit : Levels]
         /\ x.op = "stopAll" => x \in [op : {"stopAll"}, units : SUBSET Units]
         /\ x.op = "add" => x \in [op : {"add"}, unit : Units, conf : Nat, enabled : BOOLEAN]
         /\ x.op = "disable" => x \in [op : {"disable"}, unit : Units, nested : BOOLEAN]
         /\ x.op = "unlink" =>
              x \in [op : {"unlink"}, unit : Units, left : Seq(UnitStates), stop : BOOLEAN]
         /\ x.op = "check" => x \in [op : {"check"}, unit : Units, already : BOOLEAN]
         /\ x.op = "link" => x \in [op : {"link"}, unit : Units, left : Seq(UnitStates)]
BY DEF Steps

LEMMA StepUnit ==
  ASSUME NEW x \in Steps,
         x.op \in {"stop", "start", "load", "kill", "clear", "run", "enable", "verify", "status",
                   "add", "disable", "unlink", "check", "link"}
  PROVE  x.unit \in Units
BY StepTypes

(* The step at the head of the task, by its name.                          *)
LEMMA AtUnit ==
  ASSUME Serving,
         NEW op \in {"stop", "start", "load", "kill", "clear", "run", "enable", "verify", "status",
                     "add", "disable", "unlink", "check", "link"},
         At(op)
  PROVE  /\ task.todo # <<>> /\ Step = task.todo[1] /\ Step.op = op
         /\ Step \in Steps /\ Step.unit \in Units /\ 1 \in DOMAIN task.todo
         /\ \A i \in DOMAIN task.todo : task.todo[i] \in Steps
<1>1. task.todo # <<>> /\ Step.op = op
  BY DEF At, Step
<1>2. /\ Step = task.todo[1] /\ Step \in Steps /\ 1 \in DOMAIN task.todo
      /\ \A i \in DOMAIN task.todo : task.todo[i] \in Steps
  BY <1>1, AtStep
<1> QED
  BY <1>1, <1>2, StepUnit

LEMMA AtOther ==
  ASSUME Serving, NEW op, At(op)
  PROVE  /\ task.todo # <<>> /\ Step = task.todo[1] /\ Step.op = op
         /\ Step \in Steps /\ 1 \in DOMAIN task.todo
         /\ \A i \in DOMAIN task.todo : task.todo[i] \in Steps
<1>1. task.todo # <<>> /\ Step.op = op
  BY DEF At, Step
<1> QED
  BY <1>1, AtStep

(* The versions of the files. *)
LEMMA ConfFacts ==
  ASSUME DiskTypes, NEW u \in Units
  PROVE  /\ setup.conf[u] \in Seq(ConfType) /\ setup.conf[u] # <<>>
         /\ 1 \in DOMAIN setup.conf[u] /\ DOMAIN setup.conf[u] \subseteq Nat
         /\ file[u] \in Nat /\ OnDisk(u) \in ConfType
         /\ \A n \in DOMAIN setup.conf[u] : Conf(u, n) \in ConfType /\ u \notin Conf(u, n).conflicts
<1>1. setup \in Setups /\ file[u] \in DOMAIN setup.conf[u]
  BY DEF DiskTypes
<1>2. setup.conf[u] \in Seq(ConfType) /\ setup.conf[u] # <<>>
  BY <1>1, ServerAssumption
<1>3. \A n \in DOMAIN setup.conf[u] : u \notin setup.conf[u][n].conflicts
  BY <1>1, ServerAssumption
<1>4. /\ DOMAIN setup.conf[u] = 1..Len(setup.conf[u]) /\ Len(setup.conf[u]) \in Nat \ {0}
      /\ \A n \in DOMAIN setup.conf[u] : setup.conf[u][n] \in ConfType
  BY <1>2, LenProperties, EmptySeq
<1> QED
  BY <1>1, <1>2, <1>3, <1>4 DEF Conf, OnDisk

LEMMA NewMemory ==
  ASSUME DiskTypes, NEW u \in Units, NEW n \in DOMAIN setup.conf[u], NEW e \in BOOLEAN,
         NEW x \in BOOLEAN
  PROVE  NewUnit(u, n, e, x) \in Memory
<1>1. n \in Nat /\ Conf(u, n).restart \in BOOLEAN
  BY ConfFacts DEF ConfType
<1> QED
  BY <1>1 DEF NewUnit, Memory, PStates

LEMMA NoneIsNoUnit == None \notin Memory /\ None \notin UnitStates /\ None \notin Levels
BY ServerAssumption DEF UnitStates

(* What a start leaves of a unit: it has failed, as it was or dead, it runs*)
(* and nothing it is in conflict with is active, or it has ended.          *)
LEMMA StartedIs ==
  ASSUME ArrayTypes, NEW u \in Units, mem[u] # None, NEW m \in Started(u)
  PROVE  /\ m \in Memory /\ m.conf = mem[u].conf /\ m.enabled = mem[u].enabled
         /\ m.changed = mem[u].changed /\ m.listening = mem[u].listening
         /\ m.stopping = mem[u].stopping /\ m.freed = mem[u].freed
         /\ \/ m.state \in {mem[u].state, "dead"} /\ m.final = "failure"
            \/ m.state = "exited" /\ m.final \in {"success", "failure"}
            \/ /\ m.state = "running" /\ m.final = "success" /\ Loaded(u).kind = "daemon"
               /\ ~\E v \in Loaded(u).conflicts : mem[v] # None /\ Active(mem[v])
<1> DEFINE Rivals == \E v \in Loaded(u).conflicts : mem[v] # None /\ Active(mem[v])
<1>1. mem[u] \in Memory /\ mem[u].state \in PStates /\ {"dead", "running", "exited"} \subseteq PStates
  BY DEF ArrayTypes, Memory, PStates
<1>2. \/ m = [mem[u] EXCEPT !.state = mem[u].state, !.final = "failure", !.errors = @ \/ TRUE]
      \/ m = [mem[u] EXCEPT !.state = "dead", !.final = "failure", !.errors = @ \/ TRUE]
      \/ m = [mem[u] EXCEPT !.state = "exited", !.final = "failure", !.errors = @ \/ FALSE]
      \/ /\ m = [mem[u] EXCEPT !.state = "running", !.final = "success", !.errors = @ \/ FALSE]
         /\ Loaded(u).kind = "daemon" /\ ~Rivals
      \/ m = [mem[u] EXCEPT !.state = "exited", !.final = "success", !.errors = @ \/ FALSE]
  <2>1. m \in Started(u)
    OBVIOUS
  <2> QED
    BY <2>1 DEF Started
<1> HIDE DEF Rivals
<1>3. CASE m = [mem[u] EXCEPT !.state = mem[u].state, !.final = "failure", !.errors = @ \/ TRUE]
  BY <1>1, <1>3 DEF Memory, PStates
<1>4. CASE m = [mem[u] EXCEPT !.state = "dead", !.final = "failure", !.errors = @ \/ TRUE]
  BY <1>1, <1>4 DEF Memory, PStates
<1>5. CASE m = [mem[u] EXCEPT !.state = "exited", !.final = "failure", !.errors = @ \/ FALSE]
  BY <1>1, <1>5 DEF Memory, PStates
<1>6. CASE /\ m = [mem[u] EXCEPT !.state = "running", !.final = "success", !.errors = @ \/ FALSE]
           /\ Loaded(u).kind = "daemon" /\ ~Rivals
  BY <1>1, <1>6 DEF Rivals, Memory, PStates
<1>7. CASE m = [mem[u] EXCEPT !.state = "exited", !.final = "success", !.errors = @ \/ FALSE]
  BY <1>1, <1>7 DEF Memory, PStates
<1> QED
  BY <1>2, <1>3, <1>4, <1>5, <1>6, <1>7

LEMMA Launched ==
  ASSUME ArrayTypes, NEW u \in Units, mem[u] # None, Launch(u)
  PROVE  /\ mem'[u] \in Memory /\ mem' = [mem EXCEPT ![u] = mem'[u]]
         /\ alive' = [alive EXCEPT ![u] = mem'[u].state = "running"]
         /\ orphans' = orphans
         /\ mem'[u].conf = mem[u].conf /\ mem'[u].enabled = mem[u].enabled
         /\ mem'[u].changed = mem[u].changed /\ mem'[u].listening = mem[u].listening
         /\ mem'[u].stopping = mem[u].stopping /\ mem'[u].freed = mem[u].freed
         /\ \/ mem'[u].state \in {mem[u].state, "dead"} /\ mem'[u].final = "failure"
            \/ mem'[u].state = "exited" /\ mem'[u].final \in {"success", "failure"}
            \/ /\ mem'[u].state = "running" /\ mem'[u].final = "success" /\ Loaded(u).kind = "daemon"
               /\ ~\E v \in Loaded(u).conflicts : mem[v] # None /\ Active(mem[v])
<1>1. PICK m \in Started(u) : /\ mem' = [mem EXCEPT ![u] = m]
                              /\ alive' = [alive EXCEPT ![u] = m.state = "running"]
  BY DEF Launch
<1>2. orphans' = orphans
  BY DEF Launch
<1>3. mem'[u] = m
  BY <1>1 DEF ArrayTypes
<1> HIDE DEF Started
<1>4. /\ m \in Memory /\ m.conf = mem[u].conf /\ m.enabled = mem[u].enabled
      /\ m.changed = mem[u].changed /\ m.listening = mem[u].listening
      /\ m.stopping = mem[u].stopping /\ m.freed = mem[u].freed
      /\ \/ m.state \in {mem[u].state, "dead"} /\ m.final = "failure"
         \/ m.state = "exited" /\ m.final \in {"success", "failure"}
         \/ /\ m.state = "running" /\ m.final = "success" /\ Loaded(u).kind = "daemon"
            /\ ~\E v \in Loaded(u).conflicts : mem[v] # None /\ Active(mem[v])
  BY StartedIs
<1>5. mem' = [mem EXCEPT ![u] = mem'[u]] /\ alive' = [alive EXCEPT ![u] = mem'[u].state = "running"]
  BY <1>1, <1>3
<1> QED
  BY <1>2, <1>3, <1>4, <1>5
-----------------------------------------------------------------------------
(* What each step does to the units. *)

(* The unit is the same but for its flags; it is taken out of the array.   *)
Same(v) ==
  /\ mem[v] = None <=> mem'[v] = None
  /\ mem[v] # None => /\ mem'[v].state = mem[v].state /\ mem'[v].final = mem[v].final
                      /\ mem'[v].conf = mem[v].conf /\ mem'[v].enabled = mem[v].enabled
                      /\ mem[v].changed => mem'[v].changed
                      /\ mem'[v].listening => mem[v].listening
  /\ alive'[v] = alive[v] /\ orphans'[v] = orphans[v]

Gone(v) ==
  /\ mem'[v] = None /\ alive'[v] = FALSE
  /\ orphans'[v] = IF alive[v] THEN orphans[v] + 1 ELSE orphans[v]

(* A function on 1..n is a sequence.                                       *)
LEMMA IsSequence ==
  ASSUME NEW E, NEW n \in Nat, NEW f \in [1..n -> E]
  PROVE  f \in Seq(E) /\ Len(f) = n
OBVIOUS

LEMMA AllSame ==
  ASSUME ArrayTypes, UNCHANGED procs
  PROVE  ArrayTypes' /\ \A v \in Units : Same(v)
BY DEF ArrayTypes, procs, Same

LEMMA FailsMore ==
  ASSUME DiskTypes, Fails
  PROVE  failed' = failed + 1 /\ failed' \in 0..setup.fails /\ failed' > 0 /\ failed \in Nat
BY ServerAssumption DEF DiskTypes, Fails

LEMMA Forgotten ==
  ASSUME ArrayTypes, NEW u \in Units, Forget(u)
  PROVE  ArrayTypes' /\ Gone(u) /\ \A v \in Units : v # u => Same(v)
<1>1. ArrayTypes'
  BY DEF ArrayTypes, Forget
<1>2. Gone(u)
  BY DEF ArrayTypes, Forget, Gone
<1>3. \A v \in Units : v # u => Same(v)
  BY DEF ArrayTypes, Forget, Same
<1> QED
  BY <1>1, <1>2, <1>3

(* The unit u has become m, and no process has changed.                    *)
Becomes(u, m) == mem' = [mem EXCEPT ![u] = m] /\ alive' = alive /\ orphans' = orphans

LEMMA Updated ==
  ASSUME ArrayTypes, NEW u \in Units, mem[u] # None, NEW m \in Memory,
         Becomes(u, m)
  PROVE  /\ ArrayTypes' /\ mem'[u] = m /\ m # None /\ alive'[u] = alive[u] /\ orphans'[u] = orphans[u]
         /\ \A v \in Units : v # u => Same(v)
<1>1. m # None
  BY NoneIsNoUnit
<1>2. mem'[u] = m /\ \A v \in Units : v # u => mem'[v] = mem[v]
  BY DEF ArrayTypes, Becomes
<1>3. ArrayTypes'
  BY <1>1 DEF ArrayTypes, Becomes
<1> QED
  BY <1>1, <1>2, <1>3 DEF Same, Becomes

LEMMA StopDeadDoes ==
  ASSUME ArrayTypes, LoopTypes, Serving, StopDead, NEW u, u = Step.unit
  PROVE  /\ ArrayTypes' /\ task'.todo = <<>> \o Tail(task.todo) /\ failed' = failed
         /\ \A v \in Units : Same(v) \/ (v = u /\ Gone(v) /\ mem[v] # None /\ mem[v].state = "dead")
         /\ mem'[u] # None => mem'[u].state = "dead"
<1> DEFINE Already == IF Step.told THEN Refuse ELSE Do(<<>>)
<1>1. At("stop")
  BY DEF StopDead
<1>2. /\ task.todo # <<>> /\ u \in Units
  BY <1>1, AtUnit
<1>3. ASSUME Already \/ Do(<<>>) PROVE task'.todo = <<>> \o Tail(task.todo)
  BY <1>2, <1>3, Doing, Refusing
<1>4. failed' = failed
  BY DEF StopDead
<1>5. \/ mem[u] = None /\ Already /\ UNCHANGED procs
      \/ mem[u] # None /\ mem[u].state = "dead" /\ Forget(u) /\ Do(<<>>)
      \/ /\ mem[u] # None /\ mem[u].state = "dead" /\ Already
         /\ mem' = [mem EXCEPT ![u].listening = FALSE] /\ UNCHANGED <<alive, orphans>>
  BY DEF StopDead
<1> HIDE DEF Already
<1>6. CASE mem[u] = None /\ Already /\ UNCHANGED procs
  <2>1. mem' = mem
    BY <1>6 DEF procs
  <2> QED
    BY <1>2, <1>3, <1>4, <1>6, <2>1, AllSame
<1>7. CASE mem[u] # None /\ mem[u].state = "dead" /\ Forget(u) /\ Do(<<>>)
  <2>1. ArrayTypes' /\ Gone(u) /\ \A v \in Units : v # u => Same(v)
    BY <1>2, <1>7, Forgotten
  <2>2. mem'[u] = None
    BY <2>1 DEF Gone
  <2> QED
    BY <1>3, <1>4, <1>7, <2>1, <2>2
<1>8. CASE /\ mem[u] # None /\ mem[u].state = "dead" /\ Already
           /\ mem' = [mem EXCEPT ![u].listening = FALSE] /\ UNCHANGED <<alive, orphans>>
  <2> DEFINE m == [mem[u] EXCEPT !.listening = FALSE]
  <2>1. mem[u] \in Memory
    BY <1>2, <1>8 DEF ArrayTypes
  <2>2. /\ m \in Memory /\ m.listening = FALSE /\ m.state = mem[u].state
        /\ m.final = mem[u].final /\ m.conf = mem[u].conf
        /\ m.enabled = mem[u].enabled /\ m.changed = mem[u].changed
    BY <2>1 DEF Memory
  <2>3. mem' = [mem EXCEPT ![u] = m]
    BY <1>8
  <2> HIDE DEF m
  <2>4. /\ ArrayTypes' /\ mem'[u] = m /\ m # None /\ alive'[u] = alive[u] /\ orphans'[u] = orphans[u]
        /\ \A v \in Units : v # u => Same(v)
    <3>1. Becomes(u, m)
      BY <1>2, <1>8, <2>2, <2>3 DEF Becomes
    <3> QED
      BY <1>2, <1>8, <2>2, <2>3, <3>1, Updated
  <2>5. Same(u)
    BY <1>8, <2>2, <2>4 DEF Same
  <2> QED
    BY <1>3, <1>4, <1>8, <2>2, <2>4, <2>5
<1> QED
  BY <1>5, <1>6, <1>7, <1>8

(* The unit has the same file, links and flags as before. *)
Alike(v) ==
  /\ mem[v] # None /\ mem'[v] # None
  /\ mem'[v].conf = mem[v].conf /\ mem'[v].enabled = mem[v].enabled
  /\ mem[v].changed => mem'[v].changed
  /\ mem'[v].listening => mem[v].listening
  /\ orphans'[v] = orphans[v]

LEMMA StopUnitDoes ==
  ASSUME ArrayTypes, LoopTypes, Serving, StopUnit, NEW u, u = Step.unit
  PROVE  /\ ArrayTypes' /\ failed' = failed
         /\ \A v \in Units : Same(v)
         /\ mem[u] # None /\ mem[u].state # "dead" /\ ~MidRestart(u) /\ ~mem'[u].listening
         /\ task'.todo = (IF Runs(u) THEN <<S("kill", u)>> ELSE <<>>) \o <<S("clear", u)>>
                         \o Tail(task.todo)
<1>1. u \in Units
  BY AtUnit DEF StopUnit
<1>2. /\ mem[u] # None /\ mem[u].state # "dead" /\ ~MidRestart(u)
      /\ mem' = [mem EXCEPT ![u].listening = FALSE, ![u].stopping = @ \/ Runs(u)]
      /\ Do((IF Runs(u) THEN <<S("kill", u)>> ELSE <<>>) \o <<S("clear", u)>>)
      /\ UNCHANGED <<alive, orphans>> /\ failed' = failed
  BY DEF StopUnit
<1> DEFINE m == [mem[u] EXCEPT !.listening = FALSE, !.stopping = @ \/ Runs(u)]
<1>3. mem[u] \in Memory /\ Runs(u) \in BOOLEAN
  BY <1>1, <1>2 DEF ArrayTypes, Runs
<1>4. /\ m \in Memory /\ m.listening = FALSE /\ m.state = mem[u].state
      /\ m.final = mem[u].final /\ m.conf = mem[u].conf
      /\ m.enabled = mem[u].enabled /\ m.changed = mem[u].changed
  BY <1>3 DEF Memory
<1>5. mem' = [mem EXCEPT ![u] = m]
  BY <1>2
<1> HIDE DEF m
<1>a. mem[u] # None /\ m \in Memory /\ alive' = alive /\ orphans' = orphans
  BY <1>2, <1>4
<1>6. /\ ArrayTypes' /\ mem'[u] = m /\ m # None /\ alive'[u] = alive[u] /\ orphans'[u] = orphans[u]
      /\ \A v \in Units : v # u => Same(v)
  <2>1. Becomes(u, m)
    BY <1>1, <1>a, <1>5 DEF Becomes
  <2> QED
    BY <1>1, <1>a, <1>5, <2>1, Updated
<1>7. Same(u)
  BY <1>2, <1>4, <1>6 DEF Same
<1>8. task'.todo = (IF Runs(u) THEN <<S("kill", u)>> ELSE <<>>) \o <<S("clear", u)>>
                   \o Tail(task.todo)
  BY <1>2, Doing
<1> QED
  BY <1>2, <1>4, <1>6, <1>7, <1>8

LEMMA KillDoes ==
  ASSUME ArrayTypes, LoopTypes, DiskTypes, Serving, Kill, NEW u, u = Step.unit, mem[u] # None
  PROVE  /\ ArrayTypes' /\ task'.todo = <<>> \o Tail(task.todo)
         /\ \A v \in Units : v # u => Same(v)
         /\ Alike(u)
         /\ \/ /\ mem'[u].state = "dead" /\ mem'[u].final = "success" /\ alive'[u] = FALSE
               /\ failed' = failed
            \/ /\ alive[u] /\ alive' = alive /\ mem'[u].state = mem[u].state
               /\ mem'[u].final = "failure" /\ Fails
<1>1. u \in Units /\ task.todo # <<>>
  BY AtUnit DEF Kill
<1>2. mem[u] \in Memory
  BY <1>1 DEF ArrayTypes
<1>3. /\ \/ /\ mem' = [mem EXCEPT ![u].state = "dead", ![u].final = "success"]
            /\ alive' = [alive EXCEPT ![u] = FALSE] /\ failed' = failed
         \/ /\ alive[u] /\ Fails /\ alive' = alive
            /\ mem' = [mem EXCEPT ![u].final = "failure"]
      /\ Do(<<>>) /\ orphans' = orphans
  BY DEF Kill
<1>4. task'.todo = <<>> \o Tail(task.todo)
  BY <1>3, Doing
<1>5. CASE /\ mem' = [mem EXCEPT ![u].state = "dead", ![u].final = "success"]
           /\ alive' = [alive EXCEPT ![u] = FALSE] /\ failed' = failed
  <2> DEFINE m == [mem[u] EXCEPT !.state = "dead", !.final = "success"]
  <2>1. /\ m \in Memory /\ m.state = "dead" /\ m.final = "success" /\ m.conf = mem[u].conf
        /\ m.enabled = mem[u].enabled /\ m.changed = mem[u].changed /\ m.listening = mem[u].listening
    BY <1>2 DEF Memory, PStates
  <2>2. mem' = [mem EXCEPT ![u] = m] /\ m # None
    BY <1>5, <2>1, NoneIsNoUnit
  <2> HIDE DEF m
  <2>3. ArrayTypes'
    BY <1>1, <1>3, <1>5, <2>1, <2>2 DEF ArrayTypes
  <2>4. mem'[u] = m /\ alive'[u] = FALSE /\ orphans'[u] = orphans[u]
    BY <1>1, <1>3, <1>5, <2>2 DEF ArrayTypes
  <2>5. \A v \in Units : v # u => Same(v)
    BY <1>1, <1>3, <1>5, <2>2 DEF ArrayTypes, Same
  <2> QED
    BY <1>4, <1>5, <2>1, <2>2, <2>3, <2>4, <2>5 DEF Alike
<1>6. CASE /\ alive[u] /\ Fails /\ alive' = alive
           /\ mem' = [mem EXCEPT ![u].final = "failure"]
  <2> DEFINE m == [mem[u] EXCEPT !.final = "failure"]
  <2>1. /\ m \in Memory /\ m.state = mem[u].state /\ m.final = "failure" /\ m.conf = mem[u].conf
        /\ m.enabled = mem[u].enabled /\ m.changed = mem[u].changed /\ m.listening = mem[u].listening
    BY <1>2 DEF Memory
  <2>2. mem' = [mem EXCEPT ![u] = m]
    BY <1>6
  <2> HIDE DEF m
  <2>a. mem[u] # None /\ m \in Memory /\ alive' = alive /\ orphans' = orphans
    BY <1>3, <1>6, <2>1
  <2>3. /\ ArrayTypes' /\ mem'[u] = m /\ m # None /\ alive'[u] = alive[u] /\ orphans'[u] = orphans[u]
        /\ \A v \in Units : v # u => Same(v)
    <3>1. Becomes(u, m)
      BY <1>1, <2>a, <2>2 DEF Becomes
    <3> QED
      BY <1>1, <2>a, <2>2, <3>1, Updated
  <2> QED
    BY <1>4, <1>6, <2>1, <2>3 DEF Alike
<1> QED
  BY <1>3, <1>5, <1>6

LEMMA ClearDoes ==
  ASSUME ArrayTypes, LoopTypes, Serving, Clear, NEW u, u = Step.unit
  PROVE  /\ ArrayTypes' /\ task'.todo = <<>> \o Tail(task.todo) /\ failed' = failed
         /\ \A v \in Units : Same(v) \/ (v = u /\ Gone(v))
<1>1. u \in Units
  BY AtUnit DEF Clear
<1>2. (Forget(u) \/ UNCHANGED procs) /\ Do(<<>>) /\ failed' = failed
  BY DEF Clear
<1>3. task'.todo = <<>> \o Tail(task.todo)
  BY <1>2, Doing
<1> QED
  BY <1>1, <1>2, <1>3, AllSame, Forgotten

LEMMA StopAllDoes ==
  ASSUME ArrayTypes, LoopTypes, Serving, StopAll, \A u \in Step.units : mem[u] # None
  PROVE  /\ ArrayTypes' /\ failed' = failed
         /\ \A v \in Units : Same(v)
         /\ \A u \in Step.units : ~MidRestart(u) /\ ~mem'[u].listening
         /\ LET us == SetToSeq(Step.units)
                running == SetToSeq({u \in Step.units : Runs(u)}) IN
            task'.todo = [i \in DOMAIN running |-> S("kill", running[i])]
                         \o [i \in DOMAIN us |-> S("clear", us[i])] \o Tail(task.todo)
<1>1. /\ \A u \in Step.units : ~MidRestart(u)
      /\ mem' = [u \in Units |-> IF u \in Step.units THEN [mem[u] EXCEPT !.listening = FALSE]
                                                     ELSE mem[u]]
      /\ UNCHANGED <<alive, orphans>> /\ failed' = failed
  BY DEF StopAll
<1>2. Step.units \subseteq Units
  <2>1. At("stopAll")
    BY DEF StopAll
  <2> QED
    BY <2>1, AtOther, StepTypes
<1>3. \A u \in Step.units :
        LET m == [mem[u] EXCEPT !.listening = FALSE] IN
        /\ m \in Memory /\ m.listening = FALSE /\ m.state = mem[u].state
        /\ m.final = mem[u].final /\ m.conf = mem[u].conf
        /\ m.enabled = mem[u].enabled /\ m.changed = mem[u].changed
  BY <1>2 DEF ArrayTypes, Memory
<1>4. \A v \in Units :
        /\ mem'[v] = None <=> mem[v] = None
        /\ mem'[v] \in Memory \cup {None}
        /\ v \in Step.units => mem'[v].listening = FALSE
        /\ v \notin Step.units => mem'[v] = mem[v]
        /\ v \in Step.units => /\ mem'[v].state = mem[v].state
                               /\ mem'[v].final = mem[v].final /\ mem'[v].conf = mem[v].conf
                               /\ mem'[v].enabled = mem[v].enabled /\ mem'[v].changed = mem[v].changed
  BY <1>1, <1>2, <1>3, NoneIsNoUnit DEF ArrayTypes
<1>5. \A v \in Units : Same(v)
  BY <1>1, <1>2, <1>4 DEF Same
<1>6. ArrayTypes'
  BY <1>1, <1>4 DEF ArrayTypes
<1>7. LET us == SetToSeq(Step.units)
          running == SetToSeq({u \in Step.units : Runs(u)}) IN
      task'.todo = [i \in DOMAIN running |-> S("kill", running[i])]
                   \o [i \in DOMAIN us |-> S("clear", us[i])] \o Tail(task.todo)
  BY Doing DEF StopAll
<1> QED
  BY <1>1, <1>2, <1>4, <1>5, <1>6, <1>7

(* What the load of a unit leaves to be done. *)
LoadLeaves(u) ==
  \/ task'.todo = <<>> \o Tail(task.todo)
  \/ \E enabled \in BOOLEAN, rivals \in SUBSET (Units \ {u}) :
       /\ \A v \in rivals : mem[v] # None
       /\ Step.told => (enabled <=> IsEnabled(u))
       /\ ~Step.told => enabled
       /\ task'.todo = (IF rivals = {} THEN <<>> ELSE <<[op |-> "stopAll", units |-> rivals]>>)
                       \o <<[op |-> "add", unit |-> u, conf |-> file[u], enabled |-> enabled]>>
                       \o Tail(task.todo)

LEMMA LoadDoes ==
  ASSUME ArrayTypes, LoopTypes, DiskTypes, Serving, Load, NEW u, u = Step.unit
  PROVE  /\ ArrayTypes' /\ failed' = failed /\ missed' = missed \ {u}
         /\ Gone(u) /\ \A v \in Units : v # u => Same(v)
         /\ LoadLeaves(u)
<1>1. u \in Units /\ task.todo # <<>>
  BY AtUnit DEF Load
<1> DEFINE c == OnDisk(u)
           Lacking(d) == \/ mem[d] = None \/ d = u \/ mem[d].state = "dead"
                         \/ mem[d].final # "success" \/ mem[d].errors
           rivals == {v \in c.conflicts : mem[v] # None /\ Active(mem[v])}
           refused == \/ c.bad \/ Current \notin c.wanted
                      \/ \E d \in c.requires : Lacking(d)
                      \/ rivals # {} /\ ~Opt("force")
           enabled == IF Step.told THEN IsEnabled(u) ELSE TRUE
<1>2. /\ mem' = [v \in Units |-> IF v = u THEN None
                                 ELSE IF v \in rivals /\ ~refused
                                 THEN [mem[v] EXCEPT !.stopping = TRUE] ELSE mem[v]]
      /\ alive' = [alive EXCEPT ![u] = FALSE]
      /\ orphans' = [orphans EXCEPT ![u] = IF alive[u] THEN @ + 1 ELSE @]
      /\ missed' = missed \ {u} /\ failed' = failed
      /\ IF refused THEN Refuse
         ELSE Do((IF rivals = {} THEN <<>> ELSE <<[op |-> "stopAll", units |-> rivals]>>)
                 \o <<[op |-> "add", unit |-> u, conf |-> file[u], enabled |-> enabled]>>)
  BY DEF Load
<1>3. c \in ConfType /\ u \notin c.conflicts
  BY <1>1, ConfFacts DEF OnDisk, DiskTypes
<1>4. rivals \in SUBSET (Units \ {u}) /\ \A v \in rivals : mem[v] # None
  BY <1>3 DEF ConfType
<1>5. enabled \in BOOLEAN /\ (Step.told => (enabled <=> IsEnabled(u))) /\ (~Step.told => enabled)
  BY DEF IsEnabled
<1> HIDE DEF refused, rivals, enabled, c
<1>6. /\ mem'[u] = None
      /\ \A v \in Units : v # u =>
           /\ mem'[v] \in Memory \cup {None} /\ (mem'[v] = None <=> mem[v] = None)
           /\ mem[v] # None => /\ mem'[v].state = mem[v].state
                               /\ mem'[v].final = mem[v].final /\ mem'[v].conf = mem[v].conf
                               /\ mem'[v].enabled = mem[v].enabled /\ mem'[v].changed = mem[v].changed
                               /\ mem'[v].listening = mem[v].listening
  <2>1. mem'[u] = None
    BY <1>1, <1>2
  <2>2. ASSUME NEW v \in Units, v # u
        PROVE  mem'[v] = mem[v] \/ (mem[v] # None /\ mem'[v] = [mem[v] EXCEPT !.stopping = TRUE])
    BY <2>2, <1>2, <1>4
  <2>3. ASSUME NEW v \in Units, mem[v] # None
        PROVE  LET m == [mem[v] EXCEPT !.stopping = TRUE] IN
               /\ m \in Memory /\ m.state = mem[v].state /\ m.final = mem[v].final
               /\ m.conf = mem[v].conf /\ m.enabled = mem[v].enabled
               /\ m.changed = mem[v].changed /\ m.listening = mem[v].listening
    BY <2>3 DEF ArrayTypes, Memory
  <2>4. ASSUME NEW v \in Units, v # u
        PROVE  /\ mem'[v] \in Memory \cup {None} /\ (mem'[v] = None <=> mem[v] = None)
               /\ mem[v] # None => /\ mem'[v].state = mem[v].state
                                   /\ mem'[v].final = mem[v].final /\ mem'[v].conf = mem[v].conf
                                   /\ mem'[v].enabled = mem[v].enabled
                                   /\ mem'[v].changed = mem[v].changed
                                   /\ mem'[v].listening = mem[v].listening
    <3>1. CASE mem'[v] = mem[v]
      BY <3>1 DEF ArrayTypes
    <3>2. CASE mem[v] # None /\ mem'[v] = [mem[v] EXCEPT !.stopping = TRUE]
      BY <3>2, <2>3, NoneIsNoUnit
    <3> QED
      BY <2>2, <2>4, <3>1, <3>2
  <2> QED
    BY <2>1, <2>4
<1>7. /\ alive'[u] = FALSE /\ orphans'[u] = (IF alive[u] THEN orphans[u] + 1 ELSE orphans[u])
      /\ \A v \in Units : v # u => alive'[v] = alive[v] /\ orphans'[v] = orphans[v]
      /\ alive' \in [Units -> BOOLEAN] /\ orphans' \in [Units -> Nat]
  BY <1>1, <1>2 DEF ArrayTypes
<1>8. Gone(u) /\ \A v \in Units : v # u => Same(v)
  BY <1>6, <1>7 DEF Gone, Same
<1>9. ArrayTypes'
  <2>1. mem' \in [Units -> Memory \cup {None}]
    <3>1. DOMAIN mem' = Units /\ \A v \in Units : mem'[v] \in Memory \cup {None}
      BY <1>1, <1>2, <1>6
    <3>2. mem' = [v \in Units |-> mem'[v]]
      BY <1>2
    <3> QED
      BY <3>1, <3>2
  <2> QED
    BY <2>1, <1>6, <1>7 DEF ArrayTypes
<1>10. CASE refused
  BY <1>1, <1>2, <1>8, <1>9, <1>10, Refusing DEF LoadLeaves
<1>11. CASE ~refused
  <2> DEFINE t == (IF rivals = {} THEN <<>> ELSE <<[op |-> "stopAll", units |-> rivals]>>)
                  \o <<[op |-> "add", unit |-> u, conf |-> file[u], enabled |-> enabled]>>
  <2>1. Do(t)
    BY <1>2, <1>11
  <2> HIDE DEF t
  <2>2. task'.todo = t \o Tail(task.todo)
    BY <2>1, Doing
  <2> QED
    BY <1>2, <1>4, <1>5, <1>8, <1>9, <2>2 DEF t, LoadLeaves
<1> QED
  BY <1>10, <1>11

LEMMA AddDoes ==
  ASSUME ArrayTypes, LoopTypes, DiskTypes, Serving, Add, NEW u, u = Step.unit, mem[u] = None,
         Step.conf \in DOMAIN setup.conf[u]
  PROVE  /\ ArrayTypes' /\ failed' = failed /\ \A v \in Units : v # u => Same(v)
         /\ mem'[u] # None /\ mem'[u].state = "dead" /\ mem'[u].final = "ready"
         /\ mem'[u].conf = Step.conf /\ mem'[u].enabled = Step.enabled
         /\ alive'[u] = FALSE /\ orphans'[u] = orphans[u]
         /\ task'.todo = <<S("run", u)>> \o Tail(task.todo)
<1>1. At("add") /\ u \in Units
  BY AtUnit DEF Add
<1>2. Step.enabled \in BOOLEAN
  BY <1>1, AtUnit, StepTypes
<1>3. /\ mem' = [mem EXCEPT ![u] = NewUnit(u, Step.conf, Step.enabled, FALSE)]
      /\ Do(<<S("run", u)>>) /\ UNCHANGED <<alive, orphans>> /\ failed' = failed
  BY DEF Add
<1> DEFINE m == NewUnit(u, Step.conf, Step.enabled, FALSE)
<1>4. m \in Memory
  BY <1>1, <1>2, NewMemory
<1>5. m.state = "dead" /\ m.final = "ready" /\ m.conf = Step.conf /\ m.enabled = Step.enabled
  BY DEF NewUnit
<1> HIDE DEF m
<1>6. mem' = [mem EXCEPT ![u] = m] /\ m # None
  BY <1>3, <1>4, NoneIsNoUnit DEF m
<1>7. alive[u] = FALSE
  BY <1>1 DEF ArrayTypes
<1>8. ArrayTypes'
  <2>1. mem' \in [Units -> Memory \cup {None}]
    BY <1>1, <1>4, <1>6 DEF ArrayTypes
  <2>2. UNCHANGED <<alive, orphans>>
    BY <1>3
  <2>3. \A v \in Units : mem[v] # None => mem'[v] # None
    BY <1>1, <1>6 DEF ArrayTypes
  <2> QED
    BY <2>1, <2>2, <2>3 DEF ArrayTypes
<1>9. mem'[u] = m /\ alive'[u] = FALSE /\ orphans'[u] = orphans[u]
  BY <1>1, <1>3, <1>6, <1>7 DEF ArrayTypes
<1>10. \A v \in Units : v # u => Same(v)
  BY <1>1, <1>3, <1>6 DEF ArrayTypes, Same
<1>11. task'.todo = <<S("run", u)>> \o Tail(task.todo)
  BY <1>3, Doing
<1> QED
  BY <1>3, <1>5, <1>6, <1>8, <1>9, <1>10, <1>11

(* A unit whose command is executed, by a request, the boot or its listener.*)
Executed(u) ==
  /\ Alike(u)
  /\ \/ mem'[u].state \in {mem[u].state, "dead"} /\ mem'[u].final = "failure" /\ ~alive'[u]
     \/ mem'[u].state = "exited" /\ mem'[u].final \in {"success", "failure"} /\ ~alive'[u]
     \/ /\ mem'[u].state = "running" /\ mem'[u].final = "success" /\ Loaded(u).kind = "daemon"
        /\ ~\E v \in Loaded(u).conflicts : mem[v] # None /\ Active(mem[v])

LEMMA LaunchDoes ==
  ASSUME ArrayTypes, NEW u \in Units, mem[u] # None, mem[u].state # "running", Launch(u)
  PROVE  ArrayTypes' /\ Executed(u) /\ \A v \in Units : v # u => Same(v)
<1> DEFINE m == mem'[u]
<1>1. /\ m \in Memory /\ mem' = [mem EXCEPT ![u] = m]
      /\ alive' = [alive EXCEPT ![u] = m.state = "running"]
      /\ orphans' = orphans
      /\ m.conf = mem[u].conf /\ m.enabled = mem[u].enabled
      /\ m.changed = mem[u].changed /\ m.listening = mem[u].listening
      /\ \/ m.state \in {mem[u].state, "dead"} /\ m.final = "failure"
         \/ m.state = "exited" /\ m.final \in {"success", "failure"}
         \/ /\ m.state = "running" /\ m.final = "success" /\ Loaded(u).kind = "daemon"
            /\ ~\E v \in Loaded(u).conflicts : mem[v] # None /\ Active(mem[v])
  BY Launched
<1> HIDE DEF m
<1>2. m # None /\ mem'[u] = m
  BY <1>1, NoneIsNoUnit DEF m
<1>3. alive'[u] = (m.state = "running") /\ alive' \in [Units -> BOOLEAN]
  BY <1>1 DEF ArrayTypes
<1>4. ArrayTypes'
  BY <1>1, <1>2, <1>3 DEF ArrayTypes
<1>5. \A v \in Units : v # u => Same(v)
  BY <1>1 DEF ArrayTypes, Same
<1>6. Alike(u)
  BY <1>1, <1>2 DEF Alike
<1> QED
  BY <1>1, <1>2, <1>3, <1>4, <1>5, <1>6 DEF Executed

LEMMA RunDoes ==
  ASSUME ArrayTypes, LoopTypes, Serving, Run, NEW u, u = Step.unit, mem[u] # None,
         mem[u].state = "dead"
  PROVE  /\ ArrayTypes' /\ failed' = failed /\ Executed(u) /\ \A v \in Units : v # u => Same(v)
         /\ task'.todo = <<>> \o Tail(task.todo)
<1>1. u \in Units
  BY AtUnit DEF Run
<1>2. Launch(u) /\ Do(<<>>) /\ failed' = failed
  BY DEF Run
<1>3. task'.todo = <<>> \o Tail(task.todo)
  BY <1>2, Doing
<1> QED
  BY <1>1, <1>2, <1>3, LaunchDoes

(* The unit is marked as enabled or as disabled, if it is in the array.    *)
Flagged(v, enabled) ==
  /\ mem[v] = None <=> mem'[v] = None
  /\ mem[v] # None => /\ mem'[v].state = mem[v].state /\ mem'[v].final = mem[v].final
                      /\ mem'[v].conf = mem[v].conf /\ mem'[v].enabled = enabled
                      /\ mem[v].changed => mem'[v].changed
                      /\ mem'[v].listening => mem[v].listening
  /\ alive'[v] = alive[v] /\ orphans'[v] = orphans[v]

LEMMA MarkedDoes ==
  ASSUME ArrayTypes, NEW u \in Units, NEW enabled \in BOOLEAN, mem' = Marked(u, enabled),
         UNCHANGED <<alive, orphans>>
  PROVE  ArrayTypes' /\ Flagged(u, enabled) /\ \A v \in Units : v # u => Same(v)
<1>1. CASE mem[u] = None
  <2>1. mem' = mem
    BY <1>1 DEF Marked
  <2>2. UNCHANGED procs
    BY <2>1 DEF procs
  <2> QED
    BY <1>1, <2>1, <2>2, AllSame DEF Flagged
<1>2. CASE mem[u] # None
  <2> DEFINE m == [mem[u] EXCEPT !.enabled = enabled]
  <2>1. mem[u] \in Memory
    BY <1>2 DEF ArrayTypes
  <2>2. /\ m \in Memory /\ m.listening = mem[u].listening /\ m.state = mem[u].state
        /\ m.final = mem[u].final /\ m.conf = mem[u].conf
        /\ m.enabled = enabled /\ m.changed = mem[u].changed
    BY <2>1 DEF Memory
  <2>3. mem' = [mem EXCEPT ![u] = m]
    BY <1>2 DEF Marked
  <2> HIDE DEF m
  <2>4. /\ ArrayTypes' /\ mem'[u] = m /\ m # None /\ alive'[u] = alive[u] /\ orphans'[u] = orphans[u]
        /\ \A v \in Units : v # u => Same(v)
    <3>1. Becomes(u, m)
      BY <1>2, <2>2, <2>3 DEF Becomes
    <3> QED
      BY <1>2, <2>2, <2>3, <3>1, Updated
  <2> QED
    BY <1>2, <2>2, <2>4 DEF Flagged
<1> QED
  BY <1>1, <1>2

LEMMA VerifyRequiresDoes ==
  ASSUME ArrayTypes, LoopTypes, Serving, VerifyRequires
  PROVE  /\ ArrayTypes' /\ failed' = failed /\ \A v \in Units : Same(v)
         /\ task'.todo = <<>> \o Tail(task.todo)
<1> DEFINE u == Step.unit
<1>1. u \in Units /\ task.todo # <<>>
  BY AtUnit DEF VerifyRequires
<1>2. /\ mem' = IF mem[u] # None THEN [mem EXCEPT ![u].freed = TRUE] ELSE mem
      /\ Refuse /\ UNCHANGED <<alive, orphans>> /\ failed' = failed
  BY DEF VerifyRequires
<1>3. task'.todo = <<>> \o Tail(task.todo)
  BY <1>1, <1>2, Refusing
<1> HIDE DEF u
<1>4. CASE mem[u] = None
  BY <1>2, <1>3, <1>4, AllSame DEF procs
<1>5. CASE mem[u] # None
  <2> DEFINE m == [mem[u] EXCEPT !.freed = TRUE]
  <2>1. mem[u] \in Memory
    BY <1>1, <1>5 DEF ArrayTypes
  <2>2. /\ m \in Memory /\ m.listening = mem[u].listening /\ m.state = mem[u].state
        /\ m.final = mem[u].final /\ m.conf = mem[u].conf
        /\ m.enabled = mem[u].enabled /\ m.changed = mem[u].changed
    BY <2>1 DEF Memory
  <2>3. mem' = [mem EXCEPT ![u] = m] /\ UNCHANGED <<alive, orphans>>
    BY <1>2, <1>5
  <2> HIDE DEF m
  <2>4. /\ ArrayTypes' /\ mem'[u] = m /\ m # None /\ alive'[u] = alive[u] /\ orphans'[u] = orphans[u]
        /\ \A v \in Units : v # u => Same(v)
    <3>1. Becomes(u, m)
      BY <1>1, <1>5, <2>2, <2>3 DEF Becomes
    <3> QED
      BY <1>1, <1>5, <2>2, <2>3, <3>1, Updated
  <2>5. Same(u)
    BY <1>5, <2>2, <2>4 DEF Same
  <2> QED
    BY <1>2, <1>3, <2>4, <2>5
<1> QED
  BY <1>4, <1>5

(* What the verification of a unit that is to be enabled leaves to be done.*)
VerifyLeaves(u) ==
  \/ task'.todo = <<>> \o Tail(task.todo)
  \/ \E rivals \in SUBSET Units, victims \in SUBSET Units :
       /\ \A v \in victims : mem[v] # None
       /\ Conf(u, task.conf).wanted \cap Range(Considered) # {}
       /\ task'.todo = [i \in 1..Cardinality(rivals) |-> Disable(SetToSeq(rivals)[i], TRUE)]
                       \o (IF victims = {} THEN <<>>
                           ELSE <<[op |-> "stopAll", units |-> victims]>>)
                       \o <<[op |-> "link", unit |-> u,
                             left |-> SetToSeq(Targets(Conf(u, task.conf)))]>>
                       \o Tail(task.todo)

LEMMA VerifyDoes ==
  ASSUME ArrayTypes, LoopTypes, DiskTypes, Serving, Verify, NEW u, u = Step.unit,
         task.conf \in DOMAIN setup.conf[u]
  PROVE  /\ ArrayTypes' /\ failed' = failed /\ \A v \in Units : Same(v)
         /\ VerifyLeaves(u)
<1>1. u \in Units /\ task.todo # <<>>
  BY AtUnit DEF Verify
<1> DEFINE c == Conf(u, task.conf)
           rivals == {v \in c.conflicts : IsRival(v)}
           victims == IF Opt("run") THEN {v \in rivals : mem[v] # None} ELSE {}
           disable == [i \in 1..Cardinality(rivals) |-> Disable(SetToSeq(rivals)[i], TRUE)]
           refused == \/ c.wanted \cap Range(Considered) = {}
                      \/ Cyclic(u, c)
                      \/ rivals # {} /\ ~Opt("force")
<1>2. /\ mem' = [v \in Units |-> IF v \in victims /\ ~refused
                                 THEN [mem[v] EXCEPT !.stopping = TRUE] ELSE mem[v]]
      /\ UNCHANGED <<alive, orphans>> /\ failed' = failed
      /\ IF refused THEN Refuse
         ELSE Do(disable
                 \o (IF victims = {} THEN <<>> ELSE <<[op |-> "stopAll", units |-> victims]>>)
                 \o <<[op |-> "link", unit |-> u, left |-> SetToSeq(Targets(c))]>>)
  BY DEF Verify
<1>3. c \in ConfType
  BY <1>1, ConfFacts
<1>4. rivals \in SUBSET Units /\ victims \in SUBSET Units /\ \A v \in victims : mem[v] # None
  BY <1>3 DEF ConfType
<1>5. ~refused => c.wanted \cap Range(Considered) # {}
  OBVIOUS
<1> HIDE DEF refused, victims
<1>6. ASSUME NEW v \in Units
      PROVE  /\ mem'[v] \in Memory \cup {None} /\ (mem'[v] = None <=> mem[v] = None)
             /\ mem[v] # None => /\ mem'[v].state = mem[v].state
                                 /\ mem'[v].final = mem[v].final /\ mem'[v].conf = mem[v].conf
                                 /\ mem'[v].enabled = mem[v].enabled
                                 /\ mem'[v].changed = mem[v].changed
                                 /\ mem'[v].listening = mem[v].listening
  <2>1. CASE mem'[v] = mem[v]
    BY <2>1 DEF ArrayTypes
  <2>2. CASE mem[v] # None /\ mem'[v] = [mem[v] EXCEPT !.stopping = TRUE]
    <3> DEFINE m == [mem[v] EXCEPT !.stopping = TRUE]
    <3>1. mem[v] \in Memory
      BY <2>2 DEF ArrayTypes
    <3>2. /\ m \in Memory /\ m.state = mem[v].state /\ m.final = mem[v].final
          /\ m.conf = mem[v].conf /\ m.enabled = mem[v].enabled
          /\ m.changed = mem[v].changed /\ m.listening = mem[v].listening
      BY <3>1 DEF Memory
    <3> QED
      BY <2>2, <3>2, NoneIsNoUnit
  <2> QED
    BY <1>2, <1>4, <2>1, <2>2
<1>7. \A v \in Units : Same(v)
  BY <1>2, <1>6 DEF Same
<1>8. ArrayTypes'
  <2>1. mem' = [v \in Units |-> mem'[v]]
    BY <1>2
  <2>2. mem' \in [Units -> Memory \cup {None}]
    BY <1>6, <2>1
  <2> QED
    BY <1>2, <1>6, <2>2 DEF ArrayTypes
<1>9. CASE refused
  BY <1>1, <1>2, <1>7, <1>8, <1>9, Refusing DEF VerifyLeaves
<1>10. CASE ~refused
  <2> DEFINE t == disable
                  \o (IF victims = {} THEN <<>> ELSE <<[op |-> "stopAll", units |-> victims]>>)
                  \o <<[op |-> "link", unit |-> u, left |-> SetToSeq(Targets(c))]>>
  <2>1. Do(t)
    BY <1>2, <1>10
  <2> HIDE DEF t
  <2>2. task'.todo = t \o Tail(task.todo)
    BY <2>1, Doing
  <2> HIDE DEF rivals, c
  <2>3. task'.todo = [i \in 1..Cardinality(rivals) |-> Disable(SetToSeq(rivals)[i], TRUE)]
                     \o (IF victims = {} THEN <<>>
                         ELSE <<[op |-> "stopAll", units |-> victims]>>)
                     \o <<[op |-> "link", unit |-> u, left |-> SetToSeq(Targets(c))]>>
                     \o Tail(task.todo)
    BY <2>2 DEF t
  <2> QED
    BY <1>2, <1>4, <1>5, <1>7, <1>8, <1>10, <2>3 DEF c, VerifyLeaves
<1> QED
  BY <1>9, <1>10
-----------------------------------------------------------------------------
(* What is still to be done when a step has been replaced by others.       *)

LEMMA HeadFollows ==
  ASSUME Serving, Planning, task.todo # <<>>
  PROVE  /\ Step = task.todo[1] /\ Step \in Feasible /\ Step \in Steps /\ Ready(Step)
         /\ \A j \in DOMAIN task.todo : j > 1 =>
              task.todo[j] \in Feasible /\ task.todo[j] \in Steps /\ Follows(Step, task.todo[j])
<1>1. Step = task.todo[1] /\ 1 \in DOMAIN task.todo
  BY AtStep
<1>2. DOMAIN task.todo \subseteq Nat
  BY DEF Serving
<1>3. \A i \in DOMAIN task.todo : task.todo[i] \in Feasible
  BY DEF Planning
<1>4. \A j \in DOMAIN task.todo : j > 1 => Follows(Step, task.todo[j])
  BY <1>1, <1>2 DEF Planning, Ordered
<1> QED
  BY <1>1, <1>3, <1>4 DEF Feasible

(* What no step but a few leaves to be done, unless it was so before.      *)
Special == {"unlink", "link", "rm", "ln"}

Plain ==
  \A k \in DOMAIN task'.todo :
    /\ task'.todo[k].op \notin Special \ {"link"}
    /\ task'.todo[k].op = "link" => \E j \in DOMAIN task.todo : j > 1 /\ task'.todo[k] = task.todo[j]

LEMMA Planned ==
  ASSUME Serving, Planning, task.todo # <<>>, NEW t \in Seq(Steps),
         task'.todo = t \o Tail(task.todo),
         Ordered(t),
         \A k \in DOMAIN t : \A j \in DOMAIN task.todo :
           j > 1 => Follows(t[k], task.todo[j]),
         \A k \in DOMAIN t : t[k] \in Feasible',
         \A j \in DOMAIN task.todo : j > 1 => task.todo[j] \in Feasible'
  PROVE  /\ Planning' /\ task'.todo \in Seq(Steps)
         /\ Step.op # "rm" /\ (\A k \in DOMAIN t : t[k].op \notin Special) => Plain
<1> DEFINE s == task.todo
           n == task'.todo
<1>1. s \in Seq(Steps) /\ s # <<>>
  BY DEF Serving
<1>5. n = t \o Tail(s)
  OBVIOUS
<1>4. \A i, j \in DOMAIN s : i < j => Follows(s[i], s[j])
  BY DEF Planning, Ordered
<1>a. \A j \in DOMAIN s : j > 1 => /\ s[j] \in Feasible'
                                   /\ \A k \in DOMAIN t : Follows(t[k], s[j])
  OBVIOUS
<1> HIDE DEF s, n
<1>2. /\ n \in Seq(Steps)
      /\ \A k \in DOMAIN n : \/ k \in DOMAIN t /\ n[k] = t[k]
                             \/ /\ k > Len(t) /\ k - Len(t) + 1 \in DOMAIN s
                                /\ k - Len(t) + 1 > 1 /\ n[k] = s[k - Len(t) + 1]
  BY <1>1, <1>5, Replaced
<1>3. DOMAIN n \subseteq Nat /\ Len(t) \in Nat /\ DOMAIN t = 1..Len(t) /\ DOMAIN s \subseteq Nat
  BY <1>1, <1>2
<1>6. ASSUME NEW i \in DOMAIN n, NEW j \in DOMAIN n, i < j PROVE Follows(n[i], n[j])
  <2>1. CASE j \in DOMAIN t /\ n[j] = t[j]
    <3>1. i \in DOMAIN t /\ n[i] = t[i]
      BY <1>2, <1>3, <1>6, <2>1
    <3> QED
      BY <1>6, <2>1, <3>1 DEF Ordered
  <2>2. CASE j > Len(t) /\ j - Len(t) + 1 \in DOMAIN s /\ j - Len(t) + 1 > 1 /\ n[j] = s[j - Len(t) + 1]
    <3>1. CASE i \in DOMAIN t /\ n[i] = t[i]
      BY <1>a, <2>2, <3>1
    <3>2. CASE i > Len(t) /\ i - Len(t) + 1 \in DOMAIN s /\ n[i] = s[i - Len(t) + 1]
      <4>1. i - Len(t) + 1 < j - Len(t) + 1
        BY <1>3, <1>6
      <4> QED
        BY <1>4, <2>2, <3>2, <4>1
    <3> QED
      BY <1>2, <3>1, <3>2
  <2> QED
    BY <1>2, <2>1, <2>2
<1>7. ASSUME NEW i \in DOMAIN n PROVE n[i] \in Feasible'
  BY <1>a, <1>2, <1>7
<1>8. Planning'
  BY <1>6, <1>7 DEF Planning, Ordered, n
<1>9. ASSUME Step.op # "rm", \A k \in DOMAIN t : t[k].op \notin Special, NEW k \in DOMAIN n
      PROVE  /\ n[k].op \notin Special \ {"link"}
             /\ n[k].op = "link" => \E j \in DOMAIN s : j > 1 /\ n[k] = s[j]
  <2>1. CASE k \in DOMAIN t /\ n[k] = t[k]
    BY <1>9, <2>1 DEF Special
  <2>2. CASE k > Len(t) /\ k - Len(t) + 1 \in DOMAIN s /\ k - Len(t) + 1 > 1 /\ n[k] = s[k - Len(t) + 1]
    <3>1. PICK j \in DOMAIN s : j > 1 /\ n[k] = s[j]
      BY <2>2
    <3>2. Follows(Step, s[j])
      BY <3>1, HeadFollows DEF s
    <3>3. s[j].op \notin Special \ {"link"}
      BY <1>9, <3>2 DEF Follows, Special
    <3> QED
      BY <3>1, <3>3
  <2> QED
    BY <1>2, <2>1, <2>2
<1>10. Step.op # "rm" /\ (\A k \in DOMAIN t : t[k].op \notin Special) => Plain
  BY <1>9 DEF Plain, n, s
<1> QED
  BY <1>2, <1>8, <1>10 DEF n

(* What is to be killed and stopped remains so, but for what is done.      *)
LEMMA StillToDo ==
  ASSUME Serving, task.todo # <<>>, NEW t \in Seq(Steps), task'.todo = t \o Tail(task.todo)
  PROVE  /\ \A v \in ToKill : v \in ToKill' \/ (Step.op = "kill" /\ v = Step.unit)
         /\ \A v \in ToStop : v \in ToStop' \/ (Step.op = "stop" /\ v = Step.unit)
         /\ \A k \in DOMAIN t : t[k].op = "kill" => t[k].unit \in ToKill'
         /\ \A k \in DOMAIN t : t[k].op = "stop" => t[k].unit \in ToStop'
<1> DEFINE s == task.todo
           n == task'.todo
<1>1. s \in Seq(Steps) /\ s # <<>> /\ Step = s[1]
  BY AtStep DEF Serving
<1>b. s \in Seq(Steps) /\ s # <<>> /\ n = t \o Tail(s)
  BY <1>1
<1> HIDE DEF s, n
<1>2. \A k \in DOMAIN t : k \in DOMAIN n /\ n[k] = t[k]
  BY <1>b, Replaced
<1>c. \A k \in DOMAIN s : k > 1 => /\ k - 1 + Len(t) \in DOMAIN n
                                   /\ n[k - 1 + Len(t)] = s[k]
  BY <1>b, Replaced
<1>3. DOMAIN s \subseteq Nat \ {0}
  BY <1>1
<1>4. \A k \in DOMAIN t : t[k] \in Steps
  OBVIOUS
<1>5. \A k \in DOMAIN t : t[k].op \in {"kill", "stop"} => t[k].unit \in Units
  BY <1>4, StepUnit
<1>6. \A k \in DOMAIN s : k = 1 \/ \E i \in DOMAIN n : n[i] = s[k]
  BY <1>c, <1>3
<1>7. ASSUME NEW v \in ToKill PROVE v \in ToKill' \/ (Step.op = "kill" /\ v = Step.unit)
  <2>1. PICK k \in DOMAIN s : s[k].op = "kill" /\ s[k].unit = v
    BY DEF ToKill, s
  <2>2. CASE k = 1
    BY <1>1, <2>1, <2>2
  <2>3. ASSUME NEW i \in DOMAIN n, n[i] = s[k] PROVE v \in ToKill'
    BY <2>1, <2>3 DEF ToKill, n
  <2> QED
    BY <1>6, <2>2, <2>3
<1>8. ASSUME NEW v \in ToStop PROVE v \in ToStop' \/ (Step.op = "stop" /\ v = Step.unit)
  <2>1. PICK k \in DOMAIN s : s[k].op = "stop" /\ s[k].unit = v
    BY DEF ToStop, s
  <2>2. CASE k = 1
    BY <1>1, <2>1, <2>2
  <2>3. ASSUME NEW i \in DOMAIN n, n[i] = s[k] PROVE v \in ToStop'
    BY <2>1, <2>3 DEF ToStop, n
  <2> QED
    BY <1>6, <2>2, <2>3
<1>9. /\ \A k \in DOMAIN t : t[k].op = "kill" => t[k].unit \in ToKill'
      /\ \A k \in DOMAIN t : t[k].op = "stop" => t[k].unit \in ToStop'
  BY <1>2, <1>5 DEF ToKill, ToStop, n
<1> QED
  BY <1>7, <1>8, <1>9

(* Nothing is to be killed or stopped behind the head of the task unless   *)
(* the head is of that sort too.                                           *)
LEMMA NothingBehind ==
  ASSUME Serving, Planning, task.todo # <<>>
  PROVE  /\ \A v \in ToStop : Step.op = "stop" /\ v = Step.unit
         /\ ToKill # {} => Step.op = "kill"
<1>1. \A j \in DOMAIN task.todo : j > 1 => Follows(Step, task.todo[j])
  BY HeadFollows
<1>2. Step = task.todo[1] /\ DOMAIN task.todo \subseteq Nat \ {0}
  BY AtStep DEF Serving
<1>3. \A v \in ToStop : Step.op = "stop" /\ v = Step.unit
  BY <1>1, <1>2 DEF ToStop, Follows
<1>4. \A v \in ToKill : Step.op = "kill"
  BY <1>1, <1>2 DEF ToKill, Follows
<1> QED
  BY <1>3, <1>4

(* A step that is to be done stays feasible when the units it is about stay*)
(* as they are.                                                            *)
LEMMA StillFeasible ==
  ASSUME NEW y \in Feasible, NEW u,
         setup' = setup, default' = default, newDefault' = newDefault, task'.conf = task.conf,
         links' = links \/ y.op \notin {"start", "load", "add"},
         y.op = "add" => /\ y.unit \in pending \cup missed => y.unit \in pending' \cup missed'
                         /\ y.conf = file[y.unit] =>
                              y.unit \in pending' \cup missed' \/ y.conf = file'[y.unit],
         \A v \in Units : v # u => Same(v),
         failed > 0 => failed' > 0,
         \A v \in ToKill : v # u => v \in ToKill',
         y.op = "load" /\ y.unit \in ToStop => y.unit \in ToStop',
         \/ y.op \notin {"kill", "clear", "load", "add", "run", "stopAll"}
         \/ y.op # "stopAll" /\ y.unit # u
         \/ Same(u) /\ ToKill \subseteq ToKill'
         \/ y.op = "stopAll" /\ mem'[u] # None
  PROVE  y \in Feasible'
<1>1. y \in Steps /\ Ready(y)
  BY DEF Feasible
<1>2. y.op \in {"kill", "clear", "load", "add", "run", "stop", "start", "verify"} => y.unit \in Units
  BY <1>1, StepUnit
<1>3. y.op = "stopAll" => y.units \subseteq Units
  BY <1>1, StepTypes
<1>4. y.op \in {"start", "load", "add"} => (IsEnabled(y.unit)' <=> IsEnabled(y.unit))
  BY DEF IsEnabled, Considered, Current
<1>5. (y.op \in {"start", "load"} => y.told \/ IsEnabled(y.unit))'
  BY <1>1, <1>4 DEF Ready
<1>6. /\ y.op = "verify"  => task'.conf \in DOMAIN setup'.conf[y.unit]
      /\ y.op \in {"rm", "ln"} => y.unit \in {default', newDefault'}
  BY <1>1 DEF Ready
<1>7. ASSUME NEW v \in Units, Same(v), v \in Settled PROVE v \in Settled'
  BY <1>7 DEF Same, Settled, MidRestart
<1>8. ASSUME NEW v \in Units, Same(v), v \in Leaving, v \in ToKill => v \in ToKill'
      PROVE  v \in Leaving'
  BY <1>7, <1>8 DEF Same, Leaving
<1>9. ASSUME y.op \in {"kill", "clear", "load", "add", "run"}
      PROVE  Same(y.unit) /\ (y.unit \in ToKill => y.unit \in ToKill')
  BY <1>2, <1>9
<1>10. y.op = "kill" => (mem[y.unit] # None /\ y.unit \in Settled)'
  BY <1>1, <1>2, <1>7, <1>9 DEF Ready, Same
<1>11. y.op = "clear" => y.unit \in Leaving'
  BY <1>1, <1>2, <1>8, <1>9 DEF Ready
<1>12. y.op = "load" => (y.unit \in ToStop \/ y.unit \in Leaving)'
  BY <1>1, <1>2, <1>8, <1>9 DEF Ready
<1>13. y.op = "run" => (mem[y.unit] # None /\ mem[y.unit].state = "dead")'
  BY <1>1, <1>2, <1>9 DEF Ready, Same
<1>14. ASSUME y.op = "stopAll" PROVE \A v \in y.units : mem'[v] # None
  BY <1>1, <1>3, <1>14 DEF Ready, Same
<1>15. ASSUME y.op = "add"
       PROVE (/\ mem[y.unit] = None
              /\ y.conf \in DOMAIN setup.conf[y.unit]
              /\ y.unit \in pending \cup missed \/ y.conf = file[y.unit]
              /\ y.enabled <=> IsEnabled(y.unit))'
  BY <1>1, <1>2, <1>4, <1>9, <1>15 DEF Ready, Same
<1> QED
  BY <1>1, <1>5, <1>6, <1>10, <1>11, <1>12, <1>13, <1>14, <1>15 DEF Ready, Feasible
(* A step at the end of its handler, and one step or two in its place.     *)
LEMMA Dropped ==
  ASSUME Serving, Planning, task.todo # <<>>, task'.todo = <<>> \o Tail(task.todo),
         \A j \in DOMAIN task.todo : j > 1 => task.todo[j] \in Feasible'
  PROVE  Planning' /\ task'.todo \in Seq(Steps) /\ (Step.op # "rm" => Plain)
<1> DEFINE t == <<>>
<1>1. t \in Seq(Steps) /\ DOMAIN t = {}
  BY EmptySeq
<1>2. task'.todo = t \o Tail(task.todo)
  OBVIOUS
<1> HIDE DEF t
<1>3. Ordered(t)
  BY <1>1 DEF Ordered
<1> QED
  BY <1>1, <1>2, <1>3, Planned

LEMMA ReplacedByOne ==
  ASSUME Serving, Planning, task.todo # <<>>, NEW x \in Steps, x \in Feasible',
         task'.todo = <<x>> \o Tail(task.todo),
         \A j \in DOMAIN task.todo : j > 1 =>
           task.todo[j] \in Feasible' /\ Follows(x, task.todo[j])
  PROVE  Planning' /\ task'.todo \in Seq(Steps) /\ (Step.op # "rm" /\ x.op \notin Special => Plain)
<1> DEFINE t == <<x>>
<1>1. t \in Seq(Steps) /\ DOMAIN t = {1} /\ t[1] = x
  OBVIOUS
<1>2. task'.todo = t \o Tail(task.todo)
  OBVIOUS
<1> HIDE DEF t
<1>3. Ordered(t)
  BY <1>1 DEF Ordered
<1>4. /\ \A k \in DOMAIN t : t[k] \in Feasible'
      /\ \A k \in DOMAIN t : \A j \in DOMAIN task.todo :
           j > 1 => Follows(t[k], task.todo[j])
      /\ \A j \in DOMAIN task.todo : j > 1 => task.todo[j] \in Feasible'
  BY <1>1
<1> QED
  BY <1>1, <1>2, <1>3, <1>4, Planned

LEMMA ReplacedByTwo ==
  ASSUME Serving, Planning, task.todo # <<>>, NEW x \in Steps, NEW y \in Steps,
         x \in Feasible', y \in Feasible', Follows(x, y),
         task'.todo = <<x, y>> \o Tail(task.todo),
         \A j \in DOMAIN task.todo : j > 1 =>
           task.todo[j] \in Feasible' /\ Follows(x, task.todo[j]) /\ Follows(y, task.todo[j])
  PROVE  Planning' /\ task'.todo \in Seq(Steps) /\ (Step.op # "rm" /\ {x.op, y.op} \cap Special = {} => Plain)
<1> DEFINE t == <<x, y>>
<1>1. t \in Seq(Steps) /\ DOMAIN t = {1, 2} /\ t[1] = x /\ t[2] = y
  OBVIOUS
<1>2. task'.todo = t \o Tail(task.todo)
  OBVIOUS
<1> HIDE DEF t
<1>3. Ordered(t)
  BY <1>1 DEF Ordered
<1>4. /\ \A k \in DOMAIN t : t[k] \in Feasible'
      /\ \A k \in DOMAIN t : \A j \in DOMAIN task.todo :
           j > 1 => Follows(t[k], task.todo[j])
      /\ \A j \in DOMAIN task.todo : j > 1 => task.todo[j] \in Feasible'
  BY <1>1
<1> QED
  BY <1>1, <1>2, <1>3, <1>4, Planned

(* Behind most steps there is nothing to be done.                          *)
LEMMA NoTail ==
  ASSUME Serving, Planning, task.todo # <<>>,
         Step.op \in {"start", "load", "add", "enable", "check", "verify", "link", "set-default",
                      "ln", "status", "list", "get-default"}
  PROVE  \A j \in DOMAIN task.todo : ~(j > 1)
BY HeadFollows DEF Follows

(* A step that is to be done about a unit which has been stopped.          *)
LEMMA NowFeasible ==
  ASSUME NEW y, y \in Feasible, setup' = setup, file' = file, links' = links,
         default' = default, newDefault' = newDefault, pending' = pending, missed' = missed,
         task'.conf = task.conf, y.op \notin {"run", "stopAll"},
         y.op = "kill" => mem'[y.unit] # None /\ y.unit \in Settled',
         y.op \in {"clear", "load"} => y.unit \in Leaving',
         y.op = "add" => mem'[y.unit] = None
  PROVE  y \in Feasible'
<1>1. y \in Steps /\ Ready(y)
  BY DEF Feasible
<1>2. IsEnabled(y.unit)' <=> IsEnabled(y.unit)
  BY DEF IsEnabled, Considered, Current
<1>3. Ready(y)'
  BY <1>1, <1>2 DEF Ready
<1> QED
  BY <1>1, <1>3 DEF Feasible

LEMMA NowLeaving ==
  ASSUME NEW v \in Units, mem'[v] = None \/ mem'[v].state = "dead", alive'[v] = FALSE
  PROVE  v \in Leaving' /\ v \in Settled'
BY DEF Leaving, Settled, MidRestart

LEMMA StopDeadPlans ==
  ASSUME DiskTypes, ArrayTypes, LoopTypes, Serving, Living, Planning, StopDead
  PROVE  Planning' /\ task'.todo \in Seq(Steps) /\ Plain
<1>1. At("stop") /\ UNCHANGED <<setup, file, links, default, newDefault, pending, missed, failed>>
  BY DEF StopDead, disk, states
<1>2. PICK u \in Units : task.todo # <<>> /\ u = Step.unit /\ Step.op = "stop"
  BY <1>1, AtUnit
<1>3. /\ ArrayTypes' /\ task'.todo = <<>> \o Tail(task.todo)
      /\ \A v \in Units : Same(v) \/ (v = u /\ Gone(v) /\ mem[v] # None /\ mem[v].state = "dead")
      /\ mem'[u] # None => mem'[u].state = "dead"
  BY <1>2, StopDeadDoes
<1>4. task'.conf = task.conf
  <2>1. (IF Step.told THEN Refuse ELSE Do(<<>>)) \/ Do(<<>>)
    BY DEF StopDead
  <2> QED
    BY <1>2, <2>1, Doing, Refusing
<1>5. alive'[u] = FALSE
  <2>1. CASE Gone(u)
    BY <2>1 DEF Gone
  <2>2. CASE Same(u)
    BY <1>2, <1>3, <2>2 DEF Same, Living, ArrayTypes
  <2> QED
    BY <1>2, <1>3, <2>1, <2>2
<1>6. u \in Leaving'
  BY <1>3, <1>5, NowLeaving
<1>7. ASSUME NEW j \in DOMAIN task.todo, j > 1 PROVE task.todo[j] \in Feasible'
  <2>0. PICK y : y = task.todo[j]
    OBVIOUS
  <2> SUFFICES y \in Feasible'
    BY <2>0
  <2>1. y \in Feasible /\ Follows(Step, y)
    BY <1>2, <1>7, <2>0, HeadFollows
  <2>2. y.op \in {"check", "verify", "load"}
    BY <1>2, <2>1 DEF Follows
  <2>3. CASE y.op = "load" /\ y.unit = u
    <3>1. /\ setup' = setup /\ file' = file /\ links' = links /\ default' = default
          /\ newDefault' = newDefault /\ pending' = pending /\ missed' = missed
          /\ task'.conf = task.conf /\ y \in Feasible
      BY <1>1, <1>4, <2>1
    <3>2. y.unit \in Leaving'
      BY <1>6, <2>3
    <3>3. y.op = "load"
      BY <2>3
    <3> QED
      BY <3>1, <3>2, <3>3, NowFeasible
  <2>4. CASE y.op # "load" \/ y.unit # u
    <3>1. /\ \A v \in Units : v # u => Same(v)
          /\ \A v \in ToStop : v = u
          /\ ToKill = {}
      BY <1>2, <1>3, NothingBehind
    <3> QED
      BY <1>1, <1>4, <2>1, <2>2, <2>4, <3>1, StillFeasible
  <2> QED
    BY <2>3, <2>4
<1> QED
  BY <1>2, <1>3, <1>7, Dropped

LEMMA KillPlans ==
  ASSUME DiskTypes, ArrayTypes, LoopTypes, Serving, Living, Planning, Kill
  PROVE  Planning' /\ task'.todo \in Seq(Steps) /\ Plain
<1>1. /\ At("kill") /\ Do(<<>>)
      /\ UNCHANGED <<setup, file, links, default, newDefault, pending, missed>>
  BY DEF Kill, disk, states
<1>2. PICK u \in Units : task.todo # <<>> /\ u = Step.unit /\ Step.op = "kill"
  BY <1>1, AtUnit
<1>3. mem[u] # None /\ u \in Settled
  BY <1>2, HeadFollows DEF Ready
<1>4. /\ ArrayTypes' /\ task'.todo = <<>> \o Tail(task.todo)
      /\ \A v \in Units : v # u => Same(v)
      /\ Alike(u)
      /\ \/ /\ mem'[u].state = "dead" /\ mem'[u].final = "success" /\ alive'[u] = FALSE
            /\ failed' = failed
         \/ /\ alive[u] /\ alive' = alive /\ mem'[u].state = mem[u].state
            /\ mem'[u].final = "failure" /\ Fails
  BY <1>2, <1>3, KillDoes
<1>5. task'.conf = task.conf
  BY <1>1, Doing
<1>6. mem'[u] # None /\ u \in Settled' /\ u \in Leaving' /\ (failed > 0 => failed' > 0)
  <2>1. CASE mem'[u].state = "dead" /\ alive'[u] = FALSE /\ failed' = failed
    BY <1>4, <2>1, NowLeaving DEF Alike
  <2>2. CASE /\ mem'[u].state = mem[u].state /\ mem'[u].final = "failure" /\ Fails
    <3>1. failed' > 0
      BY <2>2, FailsMore
    <3>2. mem'[u] # None /\ u \in Settled'
      BY <1>3, <1>4, <2>2 DEF Alike, Settled, MidRestart
    <3> QED
      BY <3>1, <3>2 DEF Leaving
  <2> QED
    BY <1>4, <2>1, <2>2
<1>7. /\ \A v \in ToStop : FALSE
      /\ \A v \in ToKill : v # u => v \in ToKill'
  <2>1. <<>> \in Seq(Steps)
    BY EmptySeq
  <2> QED
    BY <1>2, <1>4, <2>1, NothingBehind, StillToDo
<1>8. ASSUME NEW j \in DOMAIN task.todo, j > 1 PROVE task.todo[j] \in Feasible'
  <2>0. PICK y : y = task.todo[j]
    OBVIOUS
  <2> SUFFICES y \in Feasible'
    BY <2>0
  <2>1. y \in Feasible /\ Follows(Step, y)
    BY <1>2, <1>8, <2>0, HeadFollows
  <2>2. y.op \in {"kill", "clear", "check", "verify", "load", "add", "link"}
    BY <1>2, <2>1 DEF Follows
  <2>3. CASE y.op \in {"kill", "clear", "load", "add"} /\ y.unit = u
    <3>1. y.op # "add"
      BY <1>3, <2>1, <2>3 DEF Feasible, Ready
    <3> QED
      BY <1>1, <1>5, <1>6, <2>1, <2>2, <2>3, <3>1, NowFeasible
  <2>4. CASE y.op \notin {"kill", "clear", "load", "add"} \/ y.unit # u
    BY <1>1, <1>4, <1>5, <1>6, <1>7, <2>1, <2>2, <2>4, StillFeasible
  <2> QED
    BY <2>3, <2>4
<1> QED
  BY <1>2, <1>4, <1>8, Dropped

LEMMA ClearPlans ==
  ASSUME DiskTypes, ArrayTypes, LoopTypes, Serving, Living, Planning, Clear
  PROVE  Planning' /\ task'.todo \in Seq(Steps) /\ Plain
<1>1. /\ At("clear") /\ Do(<<>>)
      /\ UNCHANGED <<setup, file, links, default, newDefault, pending, missed, failed>>
  BY DEF Clear, disk, states
<1>2. PICK u \in Units : task.todo # <<>> /\ u = Step.unit /\ Step.op = "clear"
  BY <1>1, AtUnit
<1>3. /\ ArrayTypes' /\ task'.todo = <<>> \o Tail(task.todo)
      /\ \A v \in Units : Same(v) \/ (v = u /\ Gone(v))
  BY <1>2, ClearDoes
<1>4. task'.conf = task.conf
  BY <1>1, Doing
<1>5. ToStop = {} /\ ToKill = {}
  BY <1>2, NothingBehind
<1>6. ASSUME NEW j \in DOMAIN task.todo, j > 1 PROVE task.todo[j] \in Feasible'
  <2>0. PICK y : y = task.todo[j]
    OBVIOUS
  <2> SUFFICES y \in Feasible'
    BY <2>0
  <2>1. y \in Feasible /\ Follows(Step, y)
    BY <1>2, <1>6, <2>0, HeadFollows
  <2>2. y.op \in {"clear", "check", "verify", "load", "add", "link"}
    BY <1>2, <2>1 DEF Follows
  <2>3. CASE y.op \in {"clear", "load", "add"} /\ y.unit = u /\ Gone(u)
    <3>1. mem'[u] = None /\ u \in Leaving'
      BY <2>3, NowLeaving DEF Gone
    <3> QED
      BY <1>1, <1>4, <2>1, <2>2, <2>3, <3>1, NowFeasible
  <2>4. CASE y.op \notin {"clear", "load", "add"} \/ y.unit # u \/ Same(u)
    BY <1>1, <1>3, <1>4, <1>5, <2>1, <2>2, <2>4, StillFeasible
  <2> QED
    BY <1>2, <1>3, <2>3, <2>4
<1> QED
  BY <1>2, <1>3, <1>6, Dropped

(* No unit changes. *)
LEMMA SameFeasible ==
  ASSUME NEW y, y \in Feasible, setup' = setup, file' = file, default' = default,
         newDefault' = newDefault, pending' = pending, missed' = missed, task'.conf = task.conf,
         links' = links \/ y.op \notin {"start", "load", "add"},
         \A v \in Units : Same(v),
         failed > 0 => failed' > 0, ToKill \subseteq ToKill',
         y.op = "load" /\ y.unit \in ToStop => y.unit \in ToStop'
  PROVE  y \in Feasible'
<1>1. CASE y.op \in {"kill", "clear", "load", "add", "run"}
  <2>1. PICK u \in Units : u = y.unit
    BY <1>1, StepUnit DEF Feasible
  <2>2. Same(u)
    BY <2>1
  <2> QED
    BY <1>1, <2>1, <2>2, StillFeasible
<1>2. CASE y.op \notin {"kill", "clear", "load", "add", "run", "stopAll"}
  BY <1>2, StillFeasible
<1>3. CASE y.op = "stopAll"
  <2>1. y \in Steps /\ Ready(y)
    BY DEF Feasible
  <2>2. y.units \subseteq Units
    BY <1>3, <2>1, StepTypes
  <2>3. \A v \in y.units : mem'[v] # None
    BY <1>3, <2>1, <2>2 DEF Ready, Same
  <2>4. Ready(y)'
    BY <1>3, <2>3 DEF Ready
  <2> QED
    BY <2>1, <2>4 DEF Feasible
<1> QED
  BY <1>1, <1>2, <1>3

(* The steps of a stop. *)
LEMMA KillFeasible ==
  ASSUME NEW v \in Units, mem'[v] # None, v \in Settled'
  PROVE  S("kill", v) \in Steps /\ S("kill", v) \in Feasible' /\ S("kill", v).op = "kill"
         /\ S("kill", v).unit = v
<1>1. S("kill", v) \in Steps /\ S("kill", v).op = "kill" /\ S("kill", v).unit = v
  BY DEF S, Steps
<1>2. Ready(S("kill", v))'
  BY <1>1 DEF Ready, S
<1> QED
  BY <1>1, <1>2 DEF Feasible

LEMMA ClearFeasible ==
  ASSUME NEW v \in Units, v \in Leaving'
  PROVE  S("clear", v) \in Steps /\ S("clear", v) \in Feasible' /\ S("clear", v).op = "clear"
<1>1. S("clear", v) \in Steps /\ S("clear", v).op = "clear" /\ S("clear", v).unit = v
  BY DEF S, Steps
<1>2. Ready(S("clear", v))'
  BY <1>1 DEF Ready, S
<1> QED
  BY <1>1, <1>2 DEF Feasible

LEMMA ConcatTwo == ASSUME NEW a, NEW b PROVE <<a>> \o <<b>> = <<a, b>>
<1> DEFINE c == <<a>> \o <<b>>
           d == <<a, b>>
<1>1. /\ <<a>> \in Seq({a, b}) /\ <<b>> \in Seq({a, b}) /\ Len(<<a>>) = 1 /\ Len(<<b>>) = 1
      /\ <<a>>[1] = a /\ <<b>>[1] = b
  OBVIOUS
<1>2. /\ c \in Seq({a, b}) /\ Len(c) = 2 /\ c[1] = a /\ c[2] = b
  BY <1>1, ConcatProperties
<1>3. d \in Seq({a, b}) /\ Len(d) = 2 /\ d[1] = a /\ d[2] = b
  OBVIOUS
<1> HIDE DEF c, d
<1>4. \A i \in 1..Len(c) : c[i] = d[i]
  BY <1>2, <1>3
<1>5. c = d
  BY <1>2, <1>3, <1>4, SeqEqual
<1> QED
  BY <1>5 DEF c, d

LEMMA StopUnitPlans ==
  ASSUME DiskTypes, ArrayTypes, LoopTypes, Serving, Living, Planning, StopUnit
  PROVE  Planning' /\ task'.todo \in Seq(Steps) /\ Plain
<1>1. /\ At("stop") /\ setup' = setup /\ file' = file /\ links' = links /\ default' = default
      /\ newDefault' = newDefault /\ pending' = pending /\ missed' = missed /\ failed' = failed
  BY DEF StopUnit, disk, states
<1>2. PICK u \in Units : task.todo # <<>> /\ u = Step.unit /\ Step.op = "stop"
  BY <1>1, AtUnit
<1>3. /\ ArrayTypes' /\ \A v \in Units : Same(v)
      /\ mem[u] # None /\ mem[u].state # "dead" /\ ~MidRestart(u) /\ ~mem'[u].listening
      /\ task'.todo = (IF Runs(u) THEN <<S("kill", u)>> ELSE <<>>) \o <<S("clear", u)>>
                      \o Tail(task.todo)
  BY <1>2, StopUnitDoes
<1>4. task'.conf = task.conf
  <2>1. Do((IF Runs(u) THEN <<S("kill", u)>> ELSE <<>>) \o <<S("clear", u)>>)
    BY <1>2 DEF StopUnit
  <2> QED
    BY <2>1, Doing
<1>5. mem'[u] # None /\ u \in Settled'
  BY <1>3 DEF Same, Settled, MidRestart
<1>6. S("kill", u) \in Steps /\ S("kill", u) \in Feasible' /\ S("kill", u).op = "kill"
      /\ S("kill", u).unit = u
  BY <1>5, KillFeasible
<1>7. alive'[u] => Runs(u)
  BY <1>3 DEF Same, Living, Runs
<1>8. S("clear", u) \in Steps /\ S("clear", u).op = "clear"
  BY DEF S, Steps
<1> DEFINE t == IF Runs(u) THEN <<S("kill", u), S("clear", u)>> ELSE <<S("clear", u)>>
<1>9. task'.todo = t \o Tail(task.todo)
  <2>1. <<S("kill", u)>> \o <<S("clear", u)>> = <<S("kill", u), S("clear", u)>>
    BY ConcatTwo
  <2>2. <<>> \o <<S("clear", u)>> = <<S("clear", u)>>
    OBVIOUS
  <2> QED
    BY <1>3, <2>1, <2>2
<1>10. t \in Seq(Steps) /\ (Runs(u) => 1 \in DOMAIN t /\ t[1] = S("kill", u))
  BY <1>6, <1>8
<1> HIDE DEF t
<1>11. Runs(u) => u \in ToKill'
  BY <1>2, <1>6, <1>9, <1>10, StillToDo
<1>12. u \in Leaving'
  BY <1>5, <1>7, <1>11 DEF Leaving
<1>13. S("clear", u) \in Feasible'
  BY <1>12, ClearFeasible
<1>14. ToKill \subseteq ToKill' /\ \A v \in ToStop : v = u
  BY <1>2, NothingBehind
<1>15. ASSUME NEW j \in DOMAIN task.todo, j > 1
       PROVE  /\ task.todo[j] \in Feasible'
              /\ Follows(S("kill", u), task.todo[j]) /\ Follows(S("clear", u), task.todo[j])
  <2>0. PICK y : y = task.todo[j]
    OBVIOUS
  <2>1. y \in Feasible /\ Follows(Step, y)
    BY <1>2, <1>15, <2>0, HeadFollows
  <2>2. y.op \in {"check", "verify", "load"}
    BY <1>2, <2>1 DEF Follows
  <2>3. Follows(S("kill", u), y) /\ Follows(S("clear", u), y)
    BY <1>6, <1>8, <2>2 DEF Follows
  <2>4. CASE y.op = "load" /\ y.unit = u
    <3>1. y \in Feasible'
      BY <1>1, <1>4, <1>12, <2>1, <2>4, NowFeasible
    <3> QED
      BY <2>0, <2>3, <3>1
  <2>5. CASE ~(y.op = "load" /\ y.unit = u)
    <3>1. y \in Feasible'
      BY <1>1, <1>3, <1>4, <1>14, <2>1, <2>2, <2>5, SameFeasible
    <3> QED
      BY <2>0, <2>3, <3>1
  <2> QED
    BY <2>4, <2>5
<1>16. CASE Runs(u)
  <2>1. Follows(S("kill", u), S("clear", u))
    BY <1>6, <1>8 DEF Follows
  <2>2. task'.todo = <<S("kill", u), S("clear", u)>> \o Tail(task.todo)
    BY <1>9, <1>16 DEF t
  <2> QED
    BY <1>2, <1>6, <1>8, <1>13, <1>15, <2>1, <2>2, ReplacedByTwo DEF Special
<1>17. CASE ~Runs(u)
  <2>2. task'.todo = <<S("clear", u)>> \o Tail(task.todo)
    BY <1>9, <1>17 DEF t
  <2> QED
    BY <1>2, <1>8, <1>13, <1>15, <2>2, ReplacedByOne DEF Special
<1> QED
  BY <1>16, <1>17

LEMMA StopAllPlans ==
  ASSUME DiskTypes, ArrayTypes, LoopTypes, Serving, Living, Planning, StopAll
  PROVE  Planning' /\ task'.todo \in Seq(Steps) /\ Plain
<1>1. /\ At("stopAll") /\ setup' = setup /\ file' = file /\ links' = links /\ default' = default
      /\ newDefault' = newDefault /\ pending' = pending /\ missed' = missed /\ failed' = failed
  BY DEF StopAll, disk, states
<1>2. task.todo # <<>> /\ Step.op = "stopAll" /\ Step \in Steps /\ Ready(Step)
  BY <1>1, AtOther, HeadFollows
<1>3. PICK us \in SUBSET Units : us = Step.units
  BY <1>2, StepTypes
<1>4. PICK ks \in SUBSET us : ks = {v \in us : Runs(v)}
  OBVIOUS
<1>5. \A v \in us : mem[v] # None
  BY <1>2, <1>3 DEF Ready
<1> DEFINE kills  == [i \in DOMAIN SetToSeq(ks) |-> S("kill", SetToSeq(ks)[i])]
           clears == [i \in DOMAIN SetToSeq(us) |-> S("clear", SetToSeq(us)[i])]
           t == kills \o clears
<1>6. /\ ArrayTypes' /\ \A v \in Units : Same(v)
      /\ \A v \in us : ~MidRestart(v) /\ ~mem'[v].listening
      /\ task'.todo = t \o Tail(task.todo)
  BY <1>3, <1>4, <1>5, StopAllDoes
<1>7. task'.conf = task.conf
  <2>1. \E x : Do(x)
    BY DEF StopAll
  <2> QED
    BY <2>1, Doing
<1>8. /\ SetToSeq(ks) \in [1..Cardinality(ks) -> ks] /\ Range(SetToSeq(ks)) = ks
      /\ SetToSeq(us) \in [1..Cardinality(us) -> us]
      /\ Cardinality(ks) \in Nat /\ Cardinality(us) \in Nat
  <2>1. IsFiniteSet(us) /\ IsFiniteSet(ks)
    BY ServerAssumption, FS_Subset
  <2> QED
    BY <2>1, Listed
<1>9. \A v \in us : mem'[v] # None /\ v \in Settled'
  BY <1>5, <1>6 DEF Same, Settled, MidRestart
<1>10. \A v \in us : S("kill", v) \in Steps /\ S("kill", v) \in Feasible'
                     /\ S("kill", v).op = "kill" /\ S("kill", v).unit = v
  BY <1>9, KillFeasible
<1>11. \A v \in us : S("clear", v) \in Steps /\ S("clear", v).op = "clear"
  BY DEF S, Steps
<1>12. /\ kills \in Seq(Steps) /\ Len(kills) = Cardinality(ks)
       /\ \A i \in 1..Len(kills) : \E v \in us : kills[i] = S("kill", v)
       /\ \A v \in ks : \E i \in 1..Len(kills) : kills[i] = S("kill", v)
  <2>1. kills = [i \in 1..Cardinality(ks) |-> S("kill", SetToSeq(ks)[i])]
    BY <1>8
  <2>2. \A v \in ks : \E i \in 1..Cardinality(ks) : SetToSeq(ks)[i] = v
    BY <1>8 DEF Range
  <2> HIDE DEF kills
  <2>3. kills \in Seq(Steps) /\ Len(kills) = Cardinality(ks)
    <3>1. \A i \in 1..Cardinality(ks) : kills[i] \in Steps
      BY <1>8, <1>10, <2>1
    <3>2. kills \in [1..Cardinality(ks) -> Steps]
      BY <2>1, <3>1
    <3> QED
      BY <1>8, <3>2, IsSequence, Zenon
  <2>4. \A i \in 1..Cardinality(ks) : SetToSeq(ks)[i] \in us /\ kills[i] = S("kill", SetToSeq(ks)[i])
    BY <1>8, <2>1
  <2> QED
    BY <2>2, <2>3, <2>4
<1>13. /\ clears \in Seq(Steps) /\ Len(clears) = Cardinality(us)
       /\ \A i \in 1..Len(clears) : \E v \in us : clears[i] = S("clear", v)
  <2>1. clears = [i \in 1..Cardinality(us) |-> S("clear", SetToSeq(us)[i])]
    BY <1>8
  <2> HIDE DEF clears
  <2>2. clears \in Seq(Steps) /\ Len(clears) = Cardinality(us)
    <3>1. \A i \in 1..Cardinality(us) : clears[i] \in Steps
      BY <1>8, <1>11, <2>1
    <3>2. clears \in [1..Cardinality(us) -> Steps]
      BY <2>1, <3>1
    <3> QED
      BY <1>8, <3>2, IsSequence, Zenon
  <2>3. \A i \in 1..Cardinality(us) : SetToSeq(us)[i] \in us /\ clears[i] = S("clear", SetToSeq(us)[i])
    BY <1>8, <2>1
  <2> QED
    BY <2>2, <2>3
<1> HIDE DEF kills, clears
<1>14. /\ t \in Seq(Steps) /\ Len(t) = Len(kills) + Len(clears)
       /\ Len(kills) \in Nat /\ Len(clears) \in Nat /\ DOMAIN t = 1..Len(t)
       /\ \A i \in 1..Len(t) : t[i] = IF i <= Len(kills) THEN kills[i] ELSE clears[i - Len(kills)]
  <2>1. kills \in Seq(Steps) /\ clears \in Seq(Steps)
    BY <1>12, <1>13
  <2>2. /\ t \in Seq(Steps) /\ Len(t) = Len(kills) + Len(clears)
        /\ \A i \in 1..Len(t) :
             t[i] = IF i <= Len(kills) THEN kills[i] ELSE clears[i - Len(kills)]
    BY <2>1, ConcatProperties
  <2> HIDE DEF t
  <2>3. Len(kills) \in Nat /\ Len(clears) \in Nat /\ DOMAIN t = 1..Len(t)
    BY <2>1, <2>2, LenProperties
  <2> QED
    BY <2>2, <2>3
<1> HIDE DEF t
<1>15. \A i \in DOMAIN t : \/ i <= Len(kills) /\ \E v \in us : t[i] = S("kill", v)
                           \/ i > Len(kills) /\ \E v \in us : t[i] = S("clear", v)
  <2> SUFFICES ASSUME NEW i \in DOMAIN t
               PROVE  \/ i <= Len(kills) /\ \E v \in us : t[i] = S("kill", v)
                      \/ i > Len(kills) /\ \E v \in us : t[i] = S("clear", v)
    OBVIOUS
  <2>1. CASE i <= Len(kills)
    BY <2>1, <1>12, <1>14
  <2>2. CASE i > Len(kills)
    <3>1. i - Len(kills) \in 1..Len(clears) /\ t[i] = clears[i - Len(kills)]
      BY <2>2, <1>14
    <3> QED
      BY <2>2, <3>1, <1>13
  <2> QED
    BY <2>1, <2>2, <1>14
<1>16. \A v \in ks : v \in ToKill'
  <2>1. \A v \in ks : \E i \in DOMAIN t : t[i] = S("kill", v)
    BY <1>12, <1>14
  <2>2. \A k \in DOMAIN t : t[k].op = "kill" => t[k].unit \in ToKill'
    BY <1>2, <1>6, <1>14, StillToDo
  <2> QED
    BY <1>10, <2>1, <2>2
<1>17. \A v \in us : v \in Leaving'
  <2> SUFFICES ASSUME NEW v \in us PROVE v \in Leaving'
    OBVIOUS
  <2>1. alive'[v] => v \in ks
    BY <1>4, <1>6 DEF Same, Living, Runs
  <2> QED
    BY <1>9, <1>16, <2>1 DEF Leaving
<1>18. \A v \in us : S("clear", v) \in Feasible'
  BY <1>17, ClearFeasible
<1>19. Ordered(t)
  <2> SUFFICES ASSUME NEW i \in DOMAIN t, NEW j \in DOMAIN t, i < j PROVE Follows(t[i], t[j])
    BY DEF Ordered
  <2>1. /\ t[i].op \in {"kill", "clear"} /\ t[j].op \in {"kill", "clear"}
        /\ t[i].op = "clear" => t[j].op = "clear"
    BY <1>10, <1>11, <1>14, <1>15
  <2> QED
    BY <2>1 DEF Follows
<1>20. \A i \in DOMAIN t : t[i] \in Feasible' /\ t[i].op \in {"kill", "clear"}
  BY <1>10, <1>11, <1>15, <1>18
<1>21. ASSUME NEW j \in DOMAIN task.todo, j > 1
       PROVE  task.todo[j] \in Feasible' /\ task.todo[j].op \in {"link", "add"}
  <2>0. PICK y : y = task.todo[j]
    OBVIOUS
  <2>1. y \in Feasible /\ Follows(Step, y)
    BY <1>2, <1>21, <2>0, HeadFollows
  <2>2. y.op \in {"link", "add"}
    BY <1>2, <2>1 DEF Follows
  <2>3. ToKill \subseteq ToKill'
    BY <1>2, NothingBehind
  <2>4. y \in Feasible'
    BY <1>1, <1>6, <1>7, <2>1, <2>2, <2>3, SameFeasible
  <2> QED
    BY <2>0, <2>2, <2>4
<1>22. \A k \in DOMAIN t : \A j \in DOMAIN task.todo : j > 1 => Follows(t[k], task.todo[j])
  BY <1>20, <1>21 DEF Follows
<1> QED
  BY <1>2, <1>6, <1>14, <1>19, <1>20, <1>21, <1>22, Planned DEF Special
-----------------------------------------------------------------------------
(* The steps of a start. *)

LEMMA StartUnitPlans ==
  ASSUME DiskTypes, ArrayTypes, LoopTypes, Serving, Living, Planning, StartUnit
  PROVE  Planning' /\ task'.todo \in Seq(Steps) /\ Plain
<1>1. /\ At("start") /\ setup' = setup /\ links' = links /\ default' = default
      /\ UNCHANGED procs
  BY DEF StartUnit, disk, states
<1>2. PICK u \in Units : task.todo # <<>> /\ u = Step.unit /\ Step.op = "start" /\ Step \in Steps
  BY <1>1, AtUnit
<1>3. \A j \in DOMAIN task.todo : ~(j > 1)
  BY <1>2, NoTail
<1>4. PICK told \in BOOLEAN : told = Step.told
  BY <1>2, StepTypes
<1>5. told \/ IsEnabled(u)'
  <2>1. Step.told \/ IsEnabled(u)
    BY <1>2, HeadFollows DEF Ready
  <2>2. IsEnabled(u)' <=> IsEnabled(u)
    BY <1>1 DEF IsEnabled, Considered, Current
  <2> QED
    BY <1>4, <2>1, <2>2
<1>6. PICK load : load = [op |-> "load", unit |-> u, told |-> told]
  OBVIOUS
<1>7. load \in Steps /\ load.op = "load" /\ load.unit = u /\ load.told = told
  BY <1>6 DEF Steps
<1>8. PICK stop : stop = Stop(u, FALSE)
  OBVIOUS
<1>9. stop \in Steps /\ stop.op = "stop" /\ stop.unit = u /\ stop \in Feasible'
  <2>1. stop \in Steps /\ stop.op = "stop" /\ stop.unit = u
    BY <1>8 DEF Steps, Stop
  <2> QED
    BY <2>1 DEF Feasible, Ready
<1>10. ASSUME u \in ToStop' \/ u \in Leaving' PROVE load \in Feasible'
  BY <1>5, <1>7, <1>10 DEF Feasible, Ready
<1>11. \/ Refuse
       \/ Do(<<stop, load>>)
       \/ (mem[u] = None \/ mem[u].state = "dead") /\ Do(<<load>>)
  BY <1>2, <1>4, <1>6, <1>8 DEF StartUnit, MustStop
<1>12. CASE Refuse
  <2>1. task'.todo = <<>> \o Tail(task.todo)
    BY <1>2, <1>12, Refusing
  <2> QED
    BY <1>2, <1>3, <2>1, Dropped
<1>13. CASE Do(<<stop, load>>)
  <2>1. task'.todo = <<stop, load>> \o Tail(task.todo)
    BY <1>13, Doing
  <2>2. <<stop, load>> \in Seq(Steps) /\ 1 \in DOMAIN <<stop, load>> /\ <<stop, load>>[1] = stop
    BY <1>7, <1>9
  <2>3. PICK t \in Seq(Steps) : t = <<stop, load>>
    BY <2>2
  <2>4. u \in ToStop'
    <3>1. \A k \in DOMAIN t : t[k].op = "stop" => t[k].unit \in ToStop'
      BY <1>2, <2>1, <2>3, StillToDo
    <3> QED
      BY <1>9, <2>2, <2>3, <3>1
  <2>5. Follows(stop, load)
    BY <1>7, <1>9 DEF Follows
  <2> QED
    BY <1>2, <1>3, <1>7, <1>9, <1>10, <2>1, <2>4, <2>5, ReplacedByTwo DEF Special
<1>14. CASE (mem[u] = None \/ mem[u].state = "dead") /\ Do(<<load>>)
  <2>1. task'.todo = <<load>> \o Tail(task.todo)
    BY <1>14, Doing
  <2>2. mem'[u] = None \/ mem'[u].state = "dead"
    BY <1>1, <1>14 DEF procs
  <2>3. alive'[u] = FALSE
    BY <1>1, <1>14 DEF procs, Living, ArrayTypes
  <2>4. load \in Feasible'
    BY <1>10, <2>2, <2>3, NowLeaving
  <2> QED
    BY <1>2, <1>3, <1>7, <2>1, <2>4, ReplacedByOne DEF Special
<1> QED
  BY <1>11, <1>12, <1>13, <1>14

LEMMA LoadPlans ==
  ASSUME DiskTypes, ArrayTypes, LoopTypes, Serving, Living, Planning, Load
  PROVE  Planning' /\ task'.todo \in Seq(Steps) /\ Plain
<1>1. /\ At("load") /\ setup' = setup /\ file' = file /\ links' = links /\ default' = default
  BY DEF Load, disk, states
<1>2. PICK u \in Units : task.todo # <<>> /\ u = Step.unit /\ Step.op = "load" /\ Step \in Steps
  BY <1>1, AtUnit
<1>3. \A j \in DOMAIN task.todo : ~(j > 1)
  BY <1>2, NoTail
<1>4. Step.told \/ IsEnabled(u)
  BY <1>2, HeadFollows DEF Ready
<1>5. IsEnabled(u)' <=> IsEnabled(u)
  BY <1>1 DEF IsEnabled, Considered, Current
<1>6. Gone(u) /\ (\A v \in Units : v # u => Same(v)) /\ LoadLeaves(u)
  BY <1>2, LoadDoes
<1>7. CASE task'.todo = <<>> \o Tail(task.todo)
  BY <1>2, <1>3, <1>7, Dropped
<1>8. ASSUME NEW enabled \in BOOLEAN, NEW rivals \in SUBSET (Units \ {u}),
             \A v \in rivals : mem[v] # None,
             Step.told => (enabled <=> IsEnabled(u)), ~Step.told => enabled,
             task'.todo = (IF rivals = {} THEN <<>>
                           ELSE <<[op |-> "stopAll", units |-> rivals]>>)
                          \o <<[op |-> "add", unit |-> u, conf |-> file[u], enabled |-> enabled]>>
                          \o Tail(task.todo)
      PROVE  Planning' /\ task'.todo \in Seq(Steps) /\ Plain
  <2>1. PICK n \in Nat : n = file[u]
    BY ConfFacts
  <2>2. PICK add : add = [op |-> "add", unit |-> u, conf |-> n, enabled |-> enabled]
    OBVIOUS
  <2>3. add \in Steps /\ add.op = "add" /\ add.unit = u /\ add.conf = n /\ add.enabled = enabled
    BY <2>2 DEF Steps
  <2>4. mem'[u] = None /\ n \in DOMAIN setup'.conf[u] /\ n = file'[u]
    BY <1>1, <1>6, <2>1 DEF Gone, DiskTypes
  <2>5. enabled <=> IsEnabled(u)'
    BY <1>4, <1>5, <1>8
  <2>6. add \in Feasible'
    BY <2>3, <2>4, <2>5 DEF Feasible, Ready
  <2>7. PICK all : all = [op |-> "stopAll", units |-> rivals]
    OBVIOUS
  <2>8. all \in Steps /\ all.op = "stopAll" /\ all.units = rivals
    BY <2>7 DEF Steps
  <2>9. \A v \in rivals : mem'[v] # None
    BY <1>6, <1>8 DEF Same
  <2>10. all \in Feasible'
    BY <2>8, <2>9 DEF Feasible, Ready
  <2>11. Follows(all, add)
    BY <2>3, <2>8 DEF Follows
  <2>12. CASE rivals = {}
    <3>1. task'.todo = <<>> \o <<add>> \o Tail(task.todo)
      BY <1>8, <2>1, <2>2, <2>12
    <3>2. <<>> \o <<add>> = <<add>>
      OBVIOUS
    <3>3. task'.todo = <<add>> \o Tail(task.todo)
      BY <3>1, <3>2
    <3> QED
      BY <1>2, <1>3, <2>3, <2>6, <3>3, ReplacedByOne DEF Special
  <2>13. CASE rivals # {}
    <3>1. task'.todo = <<all>> \o <<add>> \o Tail(task.todo)
      BY <1>8, <2>1, <2>2, <2>7, <2>13
    <3>2. <<all>> \o <<add>> = <<all, add>>
      BY ConcatTwo
    <3>3. task'.todo = <<all, add>> \o Tail(task.todo)
      BY <3>1, <3>2
    <3> QED
      BY <1>2, <1>3, <2>3, <2>6, <2>8, <2>10, <2>11, <3>3, ReplacedByTwo DEF Special
  <2> QED
    BY <2>12, <2>13
<1> QED
  BY <1>6, <1>7, <1>8 DEF LoadLeaves

LEMMA AddPlans ==
  ASSUME DiskTypes, ArrayTypes, LoopTypes, Serving, Living, Planning, Add
  PROVE  Planning' /\ task'.todo \in Seq(Steps) /\ Plain
<1>1. At("add")
  BY DEF Add
<1>2. PICK u \in Units : task.todo # <<>> /\ u = Step.unit /\ Step.op = "add" /\ Step \in Steps
  BY <1>1, AtUnit
<1>3. \A j \in DOMAIN task.todo : ~(j > 1)
  BY <1>2, NoTail
<1>4. mem[u] = None /\ Step.conf \in DOMAIN setup.conf[u]
  BY <1>2, HeadFollows DEF Ready
<1>5. /\ mem'[u] # None /\ mem'[u].state = "dead"
      /\ task'.todo = <<S("run", u)>> \o Tail(task.todo)
  BY <1>2, <1>4, AddDoes
<1>6. PICK run : run = S("run", u)
  OBVIOUS
<1>7. run \in Steps /\ run.op = "run" /\ run.unit = u
  BY <1>6 DEF S, Steps
<1>8. run \in Feasible'
  BY <1>5, <1>7 DEF Feasible, Ready
<1> QED
  BY <1>2, <1>3, <1>5, <1>6, <1>7, <1>8, ReplacedByOne DEF Special

LEMMA RunPlans ==
  ASSUME DiskTypes, ArrayTypes, LoopTypes, Serving, Living, Planning, Run
  PROVE  Planning' /\ task'.todo \in Seq(Steps) /\ Plain
<1>1. /\ At("run") /\ Do(<<>>)
      /\ UNCHANGED <<setup, file, links, default, newDefault, pending, missed, failed>>
  BY DEF Run, disk, states
<1>2. PICK u \in Units : task.todo # <<>> /\ u = Step.unit /\ Step.op = "run"
  BY <1>1, AtUnit
<1>3. mem[u] # None /\ mem[u].state = "dead"
  BY <1>2, HeadFollows DEF Ready
<1>4. /\ \A v \in Units : v # u => Same(v)
      /\ task'.todo = <<>> \o Tail(task.todo)
  BY <1>2, <1>3, RunDoes
<1>5. task'.conf = task.conf
  BY <1>1, Doing
<1>6. ToStop = {} /\ ToKill = {}
  BY <1>2, NothingBehind
<1>7. ASSUME NEW j \in DOMAIN task.todo, j > 1 PROVE task.todo[j] \in Feasible'
  <2>0. PICK y : y = task.todo[j]
    OBVIOUS
  <2> SUFFICES y \in Feasible'
    BY <2>0
  <2>1. y \in Feasible /\ Follows(Step, y)
    BY <1>2, <1>7, <2>0, HeadFollows
  <2>2. y.op = "run" /\ y.unit # u
    BY <1>2, <2>1 DEF Follows
  <2> QED
    BY <1>1, <1>4, <1>5, <1>6, <2>1, <2>2, StillFeasible
<1> QED
  BY <1>2, <1>4, <1>7, Dropped
-----------------------------------------------------------------------------
(* The steps of a disabling and of an enabling. *)

LEMMA ConsideredTypes ==
  ASSUME DiskTypes
  PROVE  /\ Current \in Levels /\ Considered \in Seq(UnitStates) /\ Len(Considered) = 3
         /\ Range(Considered) = {"reboot", "poweroff", Current}
<1>1. Current \in Levels
  BY ServerAssumption DEF Current, DiskTypes
<1>2. Considered \in Seq(UnitStates) /\ Len(Considered) = 3
  BY <1>1 DEF Considered, UnitStates
<1>3. Range(Considered) = {"reboot", "poweroff", Current}
  <2> DEFINE c == Considered
  <2>1. DOMAIN c = 1..3 /\ c[1] = "reboot" /\ c[2] = "poweroff" /\ c[3] = Current
    BY DEF Considered
  <2> HIDE DEF c
  <2>2. Range(c) = {"reboot", "poweroff", Current}
    BY <2>1 DEF Range
  <2> QED
    BY <2>2 DEF c
<1> QED
  BY <1>1, <1>2, <1>3

LEMMA DisableUnitPlans ==
  ASSUME DiskTypes, ArrayTypes, LoopTypes, Serving, Living, Planning, DisableUnit
  PROVE  Planning' /\ task'.todo \in Seq(Steps)
<1>1. /\ At("disable") /\ UNCHANGED procs
      /\ UNCHANGED <<setup, file, links, default, newDefault, pending, missed, failed>>
  BY DEF DisableUnit, disk, states
<1>2. PICK u \in Units : task.todo # <<>> /\ u = Step.unit /\ Step.op = "disable" /\ Step \in Steps
  BY <1>1, AtUnit
<1>3. \A v \in Units : Same(v)
  BY <1>1, AllSame
<1>4. ToStop = {} /\ ToKill = {}
  BY <1>2, NothingBehind
<1>5. PICK stop \in BOOLEAN : stop = (Opt("run") /\ ~Step.nested)
  OBVIOUS
<1>6. PICK x : x = [op |-> "unlink", unit |-> u, left |-> Considered, stop |-> stop]
  OBVIOUS
<1>7. x \in Steps /\ x.op = "unlink" /\ x.stop = stop
  BY <1>6, ConsideredTypes DEF Steps
<1>8. x \in Feasible'
  BY <1>7 DEF Feasible, Ready
<1>9. Refuse \/ Do(<<x>>)
  BY <1>2, <1>5, <1>6 DEF DisableUnit
<1>10. task'.conf = task.conf
  BY <1>2, <1>9, Doing, Refusing
<1>11. ASSUME NEW j \in DOMAIN task.todo, j > 1
       PROVE  task.todo[j] \in Feasible' /\ Follows(x, task.todo[j])
  <2>0. PICK y : y = task.todo[j]
    OBVIOUS
  <2>1. y \in Feasible /\ Follows(Step, y)
    BY <1>2, <1>11, <2>0, HeadFollows
  <2>2. \/ y.op \in {"disable", "stopAll", "link"} /\ Step.nested
        \/ y.op \in {"check", "verify"}
    BY <1>2, <2>1 DEF Follows
  <2>3. y \in Feasible'
    BY <1>1, <1>3, <1>4, <1>10, <2>1, <2>2, SameFeasible
  <2>4. Follows(x, y)
    BY <1>5, <1>7, <2>2 DEF Follows
  <2> QED
    BY <2>0, <2>3, <2>4
<1>12. CASE Refuse
  <2>1. task'.todo = <<>> \o Tail(task.todo)
    BY <1>2, <1>12, Refusing
  <2> QED
    BY <1>2, <1>11, <2>1, Dropped
<1>13. CASE Do(<<x>>)
  <2>1. task'.todo = <<x>> \o Tail(task.todo)
    BY <1>13, Doing
  <2> QED
    BY <1>2, <1>7, <1>8, <1>11, <2>1, ReplacedByOne
<1> QED
  BY <1>9, <1>12, <1>13

(* The unit is marked as enabled or disabled, or no unit changes.          *)
LEMMA FlaggedFeasible ==
  ASSUME NEW y, y \in Feasible, NEW u \in Units, NEW e \in BOOLEAN,
         setup' = setup, default' = default, newDefault' = newDefault, task'.conf = task.conf,
         y.op \in {"disable", "stopAll", "link", "check", "verify"},
         Flagged(u, e) \/ Same(u), \A v \in Units : v # u => Same(v)
  PROVE  y \in Feasible'
<1>1. y \in Steps /\ Ready(y)
  BY DEF Feasible
<1>2. CASE y.op = "stopAll"
  <2>1. y.units \subseteq Units
    BY <1>1, <1>2, StepTypes
  <2>2. \A v \in Units : mem[v] # None => mem'[v] # None
    BY DEF Flagged, Same
  <2>3. Ready(y)'
    BY <1>1, <1>2, <2>1, <2>2 DEF Ready
  <2> QED
    BY <1>1, <2>3 DEF Feasible
<1>3. CASE y.op # "stopAll"
  <2>1. Ready(y)'
    BY <1>1, <1>3 DEF Ready
  <2> QED
    BY <1>1, <2>1 DEF Feasible
<1> QED
  BY <1>2, <1>3

(* What an unlinking does to the unit, and what it leaves to be done.      *)
LEMMA UnlinkDoes ==
  ASSUME DiskTypes, ArrayTypes, LoopTypes, Serving, Unlink, NEW u, u = Step.unit
  PROVE  /\ ArrayTypes' /\ \A v \in Units : v # u => Same(v)
         /\ \/ Same(u) /\ links' = links /\ failed' = failed /\ Step.left = <<>>
            \/ /\ Same(u) /\ links' = links /\ failed' = failed
               /\ Step.left # <<>> /\ <<u, Head(Step.left)>> \notin links
            \/ /\ Flagged(u, FALSE) /\ links' = links \ {<<u, Head(Step.left)>>}
               /\ failed' = failed /\ Step.left # <<>>
            \/ Same(u) /\ links' = links /\ Fails
         /\ \/ /\ Step.left = <<>> /\ ~Step.stop
               /\ task'.todo = <<>> \o Tail(task.todo)
            \/ /\ Step.left = <<>> /\ Step.stop
               /\ task'.todo = <<Stop(u, FALSE)>> \o Tail(task.todo)
            \/ /\ Step.left # <<>> /\ failed' = failed
               /\ task'.todo = <<[Step EXCEPT !.left = Tail(@)]>> \o Tail(task.todo)
            \/ /\ Step.left # <<>> /\ Fails
               /\ task'.todo = <<>> \o Tail(task.todo)
         /\ task'.conf = task.conf
<1>1. u \in Units /\ task.todo # <<>>
  BY AtUnit DEF Unlink
<1>2. UNCHANGED procs => Same(u) /\ (\A v \in Units : Same(v)) /\ ArrayTypes'
  BY <1>1, AllSame
<1>3. alive' = alive /\ orphans' = orphans
  BY DEF Unlink
<1>4. mem' = Marked(u, FALSE) => ArrayTypes' /\ Flagged(u, FALSE) /\ \A v \in Units : v # u => Same(v)
  BY <1>1, <1>3, MarkedDoes
<1> DEFINE rest == [Step EXCEPT !.left = Tail(@)]
<1>5. \/ /\ Step.left = <<>>
         /\ Do(IF Step.stop THEN <<Stop(u, FALSE)>> ELSE <<>>)
         /\ UNCHANGED <<links, mem, failed>>
      \/ /\ Step.left # <<>> /\ <<u, Head(Step.left)>> \notin links
         /\ Do(<<rest>>)
         /\ UNCHANGED <<links, mem, failed>>
      \/ /\ Step.left # <<>> /\ <<u, Head(Step.left)>> \in links
         /\ links' = links \ {<<u, Head(Step.left)>>}
         /\ mem' = Marked(u, FALSE)
         /\ Do(<<rest>>)
         /\ UNCHANGED failed
      \/ /\ Step.left # <<>> /\ <<u, Head(Step.left)>> \in links
         /\ Fails /\ Refuse
         /\ UNCHANGED <<links, mem>>
  BY DEF Unlink
<1> HIDE DEF rest
<1>6. CASE /\ Step.left = <<>>
           /\ Do(IF Step.stop THEN <<Stop(u, FALSE)>> ELSE <<>>)
           /\ UNCHANGED <<links, mem, failed>>
  <2>1. /\ task'.todo = (IF Step.stop THEN <<Stop(u, FALSE)>> ELSE <<>>) \o Tail(task.todo)
        /\ task'.conf = task.conf
    BY <1>6, Doing
  <2> QED
    BY <1>1, <1>2, <1>3, <1>6, <2>1 DEF procs
<1>7. CASE /\ Step.left # <<>> /\ <<u, Head(Step.left)>> \notin links
           /\ Do(<<rest>>)
           /\ UNCHANGED <<links, mem, failed>>
  <2>1. task'.todo = <<rest>> \o Tail(task.todo) /\ task'.conf = task.conf
    BY <1>7, Doing
  <2> QED
    BY <1>1, <1>2, <1>3, <1>7, <2>1 DEF procs, rest
<1>8. CASE /\ Step.left # <<>> /\ <<u, Head(Step.left)>> \in links
           /\ links' = links \ {<<u, Head(Step.left)>>}
           /\ mem' = Marked(u, FALSE)
           /\ Do(<<rest>>)
           /\ UNCHANGED failed
  <2>1. task'.todo = <<rest>> \o Tail(task.todo) /\ task'.conf = task.conf
    BY <1>8, Doing
  <2> QED
    BY <1>1, <1>4, <1>8, <2>1 DEF rest
<1>9. CASE /\ Step.left # <<>> /\ <<u, Head(Step.left)>> \in links
           /\ Fails /\ Refuse
           /\ UNCHANGED <<links, mem>>
  <2>1. task'.todo = <<>> \o Tail(task.todo) /\ task'.conf = task.conf
    BY <1>1, <1>9, Refusing
  <2> QED
    BY <1>1, <1>2, <1>3, <1>9, <2>1 DEF procs
<1> QED
  BY <1>5, <1>6, <1>7, <1>8, <1>9

(* What may be behind an unlinking. *)
LEMMA AfterUnlink ==
  ASSUME NEW x, NEW y, x.op = "unlink", Follows(x, y)
  PROVE  \/ y.op \in {"check", "verify"}
         \/ ~x.stop /\ y.op \in {"disable", "stopAll", "link"}
BY DEF Follows

LEMMA UnlinkPlans ==
  ASSUME DiskTypes, ArrayTypes, LoopTypes, Serving, Living, Planning, Unlink
  PROVE  Planning' /\ task'.todo \in Seq(Steps)
<1>1. /\ At("unlink") /\ setup' = setup /\ default' = default /\ newDefault' = newDefault
  BY DEF Unlink, states
<1>2. PICK u \in Units : task.todo # <<>> /\ u = Step.unit /\ Step.op = "unlink" /\ Step \in Steps
  BY <1>1, AtUnit
<1>3. PICK left \in Seq(UnitStates), stop \in BOOLEAN :
        Step = [op |-> "unlink", unit |-> u, left |-> left, stop |-> stop]
  BY <1>2, StepTypes
<1>4. /\ \A v \in Units : v # u => Same(v)
      /\ Same(u) \/ Flagged(u, FALSE)
      /\ \/ task'.todo = <<>> \o Tail(task.todo)
         \/ stop /\ task'.todo = <<Stop(u, FALSE)>> \o Tail(task.todo)
         \/ left # <<>> /\ task'.todo = <<[Step EXCEPT !.left = Tail(left)]>> \o Tail(task.todo)
      /\ task'.conf = task.conf
  <2>1. Step.left = left /\ Step.stop = stop
    BY <1>3
  <2>2. /\ \A v \in Units : v # u => Same(v)
        /\ task'.conf = task.conf
    BY <1>2, UnlinkDoes
  <2>3. Same(u) \/ Flagged(u, FALSE)
    BY <1>2, UnlinkDoes
  <2>4. \/ task'.todo = <<>> \o Tail(task.todo)
        \/ Step.stop /\ task'.todo = <<Stop(u, FALSE)>> \o Tail(task.todo)
        \/ Step.left # <<>> /\ task'.todo = <<[Step EXCEPT !.left = Tail(@)]>> \o Tail(task.todo)
    BY <1>2, UnlinkDoes
  <2>5. \/ task'.todo = <<>> \o Tail(task.todo)
        \/ stop /\ task'.todo = <<Stop(u, FALSE)>> \o Tail(task.todo)
        \/ left # <<>> /\ task'.todo = <<[Step EXCEPT !.left = Tail(left)]>> \o Tail(task.todo)
    BY <2>1, <2>4, Zenon
  <2> QED
    BY <2>2, <2>3, <2>5
<1>5. ASSUME NEW j \in DOMAIN task.todo, j > 1
      PROVE  /\ task.todo[j] \in Feasible'
             /\ \/ task.todo[j].op \in {"check", "verify"}
                \/ ~stop /\ task.todo[j].op \in {"disable", "stopAll", "link"}
  <2>0. PICK y : y = task.todo[j]
    OBVIOUS
  <2>1. y \in Feasible /\ Follows(Step, y)
    BY <1>2, <1>5, <2>0, HeadFollows
  <2>2. y.op \in {"check", "verify"} \/ (~stop /\ y.op \in {"disable", "stopAll", "link"})
    <3>1. y.op \in {"check", "verify"} \/ (~Step.stop /\ y.op \in {"disable", "stopAll", "link"})
      BY <1>2, <2>1, AfterUnlink
    <3>2. Step.stop = stop
      BY <1>3
    <3> QED
      BY <3>1, <3>2
  <2>3. y \in Feasible'
    BY <1>1, <1>4, <2>1, <2>2, FlaggedFeasible
  <2> QED
    BY <2>0, <2>2, <2>3
<1>6. CASE task'.todo = <<>> \o Tail(task.todo)
  BY <1>2, <1>5, <1>6, Dropped
<1>7. CASE stop /\ task'.todo = <<Stop(u, FALSE)>> \o Tail(task.todo)
  <2>1. PICK x : x = Stop(u, FALSE)
    OBVIOUS
  <2>2. x \in Steps /\ x.op = "stop"
    BY <2>1 DEF Steps, Stop
  <2>3. x \in Feasible'
    BY <2>2 DEF Feasible, Ready
  <2>4. \A j \in DOMAIN task.todo : j > 1 => Follows(x, task.todo[j])
    BY <1>5, <1>7, <2>2 DEF Follows
  <2> QED
    BY <1>2, <1>5, <1>7, <2>1, <2>2, <2>3, <2>4, ReplacedByOne
<1>8. CASE left # <<>> /\ task'.todo = <<[Step EXCEPT !.left = Tail(left)]>> \o Tail(task.todo)
  <2>0. left # <<>>
    BY <1>8, Zenon
  <2>a. Tail(left) \in Seq(UnitStates)
    BY <2>0
  <2>1. PICK t \in Seq(UnitStates) : t = Tail(left)
    BY <2>a, Zenon
  <2>2. PICK x : x = [op |-> "unlink", unit |-> u, left |-> t, stop |-> stop]
    OBVIOUS
  <2>3. x \in Steps /\ x.op = "unlink" /\ x.stop = stop
    BY <2>2 DEF Steps
  <2>4. x \in Feasible'
    BY <2>3 DEF Feasible, Ready
  <2>5. task'.todo = <<x>> \o Tail(task.todo)
    <3>1. [Step EXCEPT !.left = t] = [op |-> "unlink", unit |-> u, left |-> t, stop |-> stop]
      BY <1>3
    <3> QED
      BY <1>8, <2>1, <2>2, <3>1, Zenon
  <2>6. \A j \in DOMAIN task.todo : j > 1 => Follows(x, task.todo[j])
    BY <1>5, <2>3 DEF Follows
  <2> QED
    BY <1>2, <1>5, <2>3, <2>4, <2>5, <2>6, ReplacedByOne
<1> QED
  BY <1>4, <1>6, <1>7, <1>8

LEMMA EnableUnitPlans ==
  ASSUME DiskTypes, ArrayTypes, LoopTypes, Serving, Living, Planning, EnableUnit
  PROVE  Planning' /\ task'.todo \in Seq(Steps) /\ Plain
<1>1. At("enable")
  BY DEF EnableUnit
<1>2. PICK u \in Units : task.todo # <<>> /\ u = Step.unit /\ Step.op = "enable" /\ Step \in Steps
  BY <1>1, AtUnit
<1>3. \A j \in DOMAIN task.todo : ~(j > 1)
  BY <1>2, NoTail
<1>4. PICK x : x = [op |-> "check", unit |-> u, already |-> FALSE]
  OBVIOUS
<1>5. PICK y : y = [op |-> "check", unit |-> u, already |-> TRUE]
  OBVIOUS
<1>6. PICK z : z = Disable(u, FALSE)
  OBVIOUS
<1>7. x \in Steps /\ x.op = "check" /\ y \in Steps /\ y.op = "check"
  BY <1>4, <1>5 DEF Steps
<1>8. z \in Steps /\ z.op = "disable" /\ ~z.nested
  BY <1>6 DEF Steps, Disable
<1>9. x \in Feasible' /\ y \in Feasible' /\ z \in Feasible'
  BY <1>7, <1>8 DEF Feasible, Ready
<1>10. Do(<<x>>) \/ Refuse \/ Do(<<z, y>>)
  BY <1>2, <1>4, <1>5, <1>6 DEF EnableUnit
<1>11. CASE Do(<<x>>)
  <2>1. task'.todo = <<x>> \o Tail(task.todo)
    BY <1>11, Doing
  <2> QED
    BY <1>2, <1>3, <1>7, <1>9, <2>1, ReplacedByOne DEF Special
<1>12. CASE Refuse
  <2>1. task'.todo = <<>> \o Tail(task.todo)
    BY <1>2, <1>12, Refusing
  <2> QED
    BY <1>2, <1>3, <2>1, Dropped
<1>13. CASE Do(<<z, y>>)
  <2>1. task'.todo = <<z, y>> \o Tail(task.todo)
    BY <1>13, Doing
  <2>2. Follows(z, y)
    BY <1>7, <1>8 DEF Follows
  <2> QED
    BY <1>2, <1>3, <1>7, <1>8, <1>9, <2>1, <2>2, ReplacedByTwo DEF Special
<1> QED
  BY <1>10, <1>11, <1>12, <1>13

LEMMA CheckPlans ==
  ASSUME DiskTypes, ArrayTypes, LoopTypes, Serving, Living, Planning, Check
  PROVE  /\ Planning' /\ task'.todo \in Seq(Steps) /\ Plain
         /\ DOMAIN task' = DOMAIN Idle /\ task'.command = task.command
<1>1. At("check") /\ setup' = setup
  BY DEF Check
<1>2. PICK u \in Units : task.todo # <<>> /\ u = Step.unit /\ Step.op = "check" /\ Step \in Steps
  BY <1>1, AtUnit
<1>3. \A j \in DOMAIN task.todo : ~(j > 1)
  BY <1>2, NoTail
<1>4. PICK x : x = S("verify", u)
  OBVIOUS
<1>5. PICK z : z = Disable(u, FALSE)
  OBVIOUS
<1>6. x \in Steps /\ x.op = "verify" /\ x.unit = u
  BY <1>4 DEF Steps, S
<1>7. z \in Steps /\ z.op = "disable" /\ ~z.nested
  BY <1>5 DEF Steps, Disable
<1>8. z \in Feasible'
  BY <1>7 DEF Feasible, Ready
<1>9. PICK more : more = (mem[u] = None /\ IsEnabled(u) /\ ~Step.already)
  OBVIOUS
<1>10. \/ Refuse
       \/ task' = [task EXCEPT !.conf = file[u],
                     !.todo = (IF more THEN <<z>> ELSE <<>>) \o <<x>> \o Tail(@)]
  BY <1>2, <1>4, <1>5, <1>9 DEF Check
<1>11. CASE Refuse
  <2>1. /\ task'.todo = <<>> \o Tail(task.todo)
        /\ DOMAIN task' = DOMAIN Idle /\ task'.command = task.command
    BY <1>2, <1>11, Refusing
  <2> QED
    BY <1>2, <1>3, <2>1, Dropped
<1>12. CASE task' = [task EXCEPT !.conf = file[u],
                       !.todo = (IF more THEN <<z>> ELSE <<>>) \o <<x>> \o Tail(@)]
  <2>1. /\ DOMAIN task' = DOMAIN Idle /\ task'.command = task.command
        /\ task'.conf = file[u]
        /\ task'.todo = (IF more THEN <<z>> ELSE <<>>) \o <<x>> \o Tail(task.todo)
    <3>1. DOMAIN task = DOMAIN Idle /\ {"conf", "todo", "command"} \subseteq DOMAIN Idle
      BY DEF LoopTypes, Idle
    <3> DEFINE n == (IF more THEN <<z>> ELSE <<>>) \o <<x>> \o Tail(task.todo)
    <3>2. task' = [task EXCEPT !.conf = file[u], !.todo = n]
      BY <1>12
    <3> HIDE DEF n
    <3>3. DOMAIN task' = DOMAIN Idle /\ task'.command = task.command
          /\ task'.conf = file[u] /\ task'.todo = n
      BY <3>1, <3>2
    <3> QED
      BY <3>3 DEF n
  <2>2. x \in Feasible'
    BY <1>1, <1>6, <2>1 DEF Feasible, Ready, DiskTypes
  <2>3. Follows(z, x)
    BY <1>6, <1>7 DEF Follows
  <2>4. CASE more
    <3>1. task'.todo = <<z, x>> \o Tail(task.todo)
      BY <2>1, <2>4, ConcatTwo
    <3> QED
      BY <1>2, <1>3, <1>6, <1>7, <1>8, <2>1, <2>2, <2>3, <3>1, ReplacedByTwo DEF Special
  <2>5. CASE ~more
    <3>1. <<>> \o <<x>> = <<x>>
      OBVIOUS
    <3>2. task'.todo = <<x>> \o Tail(task.todo)
      BY <2>1, <2>5, <3>1
    <3> QED
      BY <1>2, <1>3, <1>6, <2>1, <2>2, <3>2, ReplacedByOne DEF Special
  <2> QED
    BY <2>4, <2>5
<1> QED
  BY <1>10, <1>11, <1>12

(* Handlers that leave nothing to be done, or what is refused.             *)
LEMMA EndPlans ==
  ASSUME DiskTypes, ArrayTypes, LoopTypes, Serving, Living, Planning,
         At("verify") \/ At("link") \/ At("ln") \/ At("status") \/ At("list") \/ At("get-default")
           \/ At("set-default"),
         Refuse \/ Do(<<>>)
  PROVE  Planning' /\ task'.todo \in Seq(Steps) /\ Plain
<1>1. /\ task.todo # <<>>
      /\ Step.op \in {"verify", "link", "ln", "status", "list", "get-default", "set-default"}
  BY AtOther
<1>2. \A j \in DOMAIN task.todo : ~(j > 1)
  BY <1>1, NoTail
<1>3. task'.todo = <<>> \o Tail(task.todo)
  BY <1>1, Doing, Refusing
<1> QED
  BY <1>1, <1>2, <1>3, Dropped

(* The states that a unit is to be linked in, in a sequence.               *)
LEMMA TargetsListed ==
  ASSUME DiskTypes, NEW u \in Units, NEW n \in DOMAIN setup.conf[u]
  PROVE  LET targets == Targets(Conf(u, n)) IN
         /\ targets \in SUBSET UnitStates
         /\ SetToSeq(targets) \in Seq(UnitStates) /\ Range(SetToSeq(targets)) = targets
<1>1. PICK targets \in SUBSET UnitStates : targets = Targets(Conf(u, n))
  BY ConfFacts DEF Targets, ConfType
<1>2. IsFiniteSet(UnitStates)
  <2>1. /\ IsFiniteSet({"multi-user"}) /\ IsFiniteSet({"graphical"})
        /\ IsFiniteSet({"reboot"}) /\ IsFiniteSet({"poweroff"})
    BY FS_Singleton
  <2>2. IsFiniteSet({"multi-user"} \cup {"graphical"}) /\ IsFiniteSet({"reboot"} \cup {"poweroff"})
    BY <2>1, FS_Union
  <2>3. UnitStates = ({"multi-user"} \cup {"graphical"}) \cup ({"reboot"} \cup {"poweroff"})
    BY DEF UnitStates, Levels
  <2> QED
    BY <2>2, <2>3, FS_Union
<1>3. IsFiniteSet(targets)
  BY <1>2, FS_Subset
<1>4. SetToSeq(targets) \in Seq(targets) /\ Range(SetToSeq(targets)) = targets
  BY <1>3, Listed
<1>5. SetToSeq(targets) \in Seq(UnitStates)
  BY <1>4
<1> QED
  BY <1>1, <1>4, <1>5

(* What the verification of a unit leaves of the task: a linking makes one *)
(* of the links by which a unit is enabled.                                *)
Prepared ==
  \A k \in DOMAIN task'.todo :
    /\ task'.todo[k].op \notin {"unlink", "rm", "ln"}
    /\ task'.todo[k].op = "link" => Range(task'.todo[k].left) \cap Range(Considered) # {}

LEMMA VerifyPlans ==
  ASSUME DiskTypes, ArrayTypes, LoopTypes, Serving, Living, Planning, Verify
  PROVE  Planning' /\ task'.todo \in Seq(Steps) /\ Prepared
<1>1. At("verify") /\ setup' = setup
  BY DEF Verify
<1>2. PICK u \in Units : task.todo # <<>> /\ u = Step.unit /\ Step.op = "verify" /\ Step \in Steps
  BY <1>1, AtUnit
<1>3. \A j \in DOMAIN task.todo : ~(j > 1)
  BY <1>2, NoTail
<1>4. task.conf \in DOMAIN setup.conf[u]
  BY <1>2, HeadFollows DEF Ready
<1>5. (\A v \in Units : Same(v)) /\ VerifyLeaves(u)
  BY <1>2, <1>4, VerifyDoes
<1>6. CASE task'.todo = <<>> \o Tail(task.todo)
  <2>1. Planning' /\ task'.todo \in Seq(Steps) /\ Plain
    BY <1>2, <1>3, <1>6, Dropped
  <2> QED
    BY <1>3, <2>1 DEF Plain, Special, Prepared
<1>7. PICK targets \in SUBSET UnitStates : targets = Targets(Conf(u, task.conf))
  BY <1>2, <1>4, TargetsListed
<1>8. SetToSeq(targets) \in Seq(UnitStates) /\ Range(SetToSeq(targets)) = targets
  BY <1>2, <1>4, <1>7, TargetsListed
<1>9. ASSUME NEW rivals \in SUBSET Units, NEW victims \in SUBSET Units,
             \A v \in victims : mem[v] # None,
             Conf(u, task.conf).wanted \cap Range(Considered) # {},
             task'.todo = [i \in 1..Cardinality(rivals) |-> Disable(SetToSeq(rivals)[i], TRUE)]
                          \o (IF victims = {} THEN <<>>
                              ELSE <<[op |-> "stopAll", units |-> victims]>>)
                          \o <<[op |-> "link", unit |-> u, left |-> SetToSeq(targets)]>>
                          \o Tail(task.todo)
      PROVE  Planning' /\ task'.todo \in Seq(Steps) /\ Prepared
  <2>1. PICK link : link = [op |-> "link", unit |-> u, left |-> SetToSeq(targets)]
    OBVIOUS
  <2>2. link \in Steps /\ link.op = "link"
    BY <1>8, <2>1 DEF Steps
  <2>3. PICK all : all = [op |-> "stopAll", units |-> victims]
    OBVIOUS
  <2>4. all \in Steps /\ all.op = "stopAll" /\ all.units = victims
    BY <2>3 DEF Steps
  <2>5. \A v \in victims : mem'[v] # None
    BY <1>5, <1>9 DEF Same
  <2>6. link \in Feasible' /\ all \in Feasible'
    BY <2>2, <2>4, <2>5 DEF Feasible, Ready
  <2>7. \A v \in Units : Disable(v, TRUE) \in Steps /\ Disable(v, TRUE).op = "disable"
                         /\ Disable(v, TRUE).nested
    BY DEF Disable, Steps
  <2>8. \A v \in Units : Disable(v, TRUE) \in Feasible'
    BY <2>7 DEF Feasible, Ready
  <2> DEFINE disables == [i \in 1..Cardinality(rivals) |-> Disable(SetToSeq(rivals)[i], TRUE)]
  <2>9. /\ disables \in Seq(Steps)
        /\ \A i \in 1..Len(disables) : \E v \in Units : disables[i] = Disable(v, TRUE)
    <3>1. IsFiniteSet(rivals)
      BY ServerAssumption, FS_Subset
    <3>2. SetToSeq(rivals) \in [1..Cardinality(rivals) -> rivals] /\ Cardinality(rivals) \in Nat
      BY <3>1, Listed
    <3>3. \A i \in 1..Cardinality(rivals) : SetToSeq(rivals)[i] \in Units
      BY <3>2
    <3>4. \A i \in 1..Cardinality(rivals) : disables[i] = Disable(SetToSeq(rivals)[i], TRUE)
      OBVIOUS
    <3>5. \A i \in 1..Cardinality(rivals) : disables[i] \in Steps
      BY <2>7, <3>3, <3>4
    <3>6. DOMAIN disables = 1..Cardinality(rivals) /\ disables = [i \in 1..Cardinality(rivals) |-> disables[i]]
      OBVIOUS
    <3> HIDE DEF disables
    <3>7. disables \in Seq(Steps) /\ Len(disables) = Cardinality(rivals)
      BY <3>2, <3>5, <3>6
    <3> QED
      BY <3>3, <3>4, <3>7
  <2> DEFINE rest == IF victims = {} THEN <<link>> ELSE <<all, link>>
             t == disables \o rest
  <2>10. /\ rest \in Seq(Steps) /\ Len(rest) \in {1, 2}
         /\ \A i \in 1..Len(rest) : rest[i] \in {all, link}
         /\ Len(rest) = 2 => rest[1] = all /\ rest[2] = link
    BY <2>2, <2>4
  <2>11. task'.todo = t \o Tail(task.todo)
    <3>0. DEFINE more == IF victims = {} THEN <<>> ELSE <<all>>
    <3>1. task'.todo = disables \o more \o <<link>> \o Tail(task.todo)
      BY <1>9, <2>1, <2>3
    <3>2. more \in Seq(Steps) /\ <<link>> \in Seq(Steps)
      BY <2>2, <2>4
    <3>3. more \o <<link>> = rest
      <4>1. <<>> \o <<link>> = <<link>>
        OBVIOUS
      <4> QED
        BY <4>1, ConcatTwo
    <3> HIDE DEF more, rest, disables
    <3>4. (disables \o more) \o <<link>> = disables \o (more \o <<link>>)
      BY <2>9, <3>2, ConcatAssociative
    <3> QED
      BY <3>1, <3>3, <3>4
  <2> HIDE DEF disables, rest
  <2>12. /\ t \in Seq(Steps) /\ Len(t) = Len(disables) + Len(rest)
         /\ Len(disables) \in Nat
         /\ \A i \in 1..Len(t) :
              t[i] = IF i <= Len(disables) THEN disables[i] ELSE rest[i - Len(disables)]
    BY <2>9, <2>10, ConcatProperties, LenProperties
  <2> HIDE DEF t
  <2>13. \A i \in 1..Len(t) :
           \/ i <= Len(disables) /\ t[i].op = "disable" /\ t[i].nested /\ t[i] \in Feasible'
           \/ i > Len(disables) /\ t[i] \in {all, link} /\ t[i] = rest[i - Len(disables)]
              /\ i - Len(disables) \in 1..Len(rest)
    <3> SUFFICES ASSUME NEW i \in 1..Len(t)
                 PROVE  \/ i <= Len(disables) /\ t[i].op = "disable" /\ t[i].nested
                           /\ t[i] \in Feasible'
                        \/ i > Len(disables) /\ t[i] \in {all, link} /\ t[i] = rest[i - Len(disables)]
                           /\ i - Len(disables) \in 1..Len(rest)
      OBVIOUS
    <3>1. CASE i <= Len(disables)
      <4>1. t[i] = disables[i] /\ i \in 1..Len(disables)
        BY <2>12, <3>1
      <4> QED
        BY <2>7, <2>8, <2>9, <3>1, <4>1
    <3>2. CASE i > Len(disables)
      BY <2>10, <2>12, <3>2
    <3> QED
      BY <2>12, <3>1, <3>2
  <2>14. Ordered(t)
    <3> SUFFICES ASSUME NEW i \in 1..Len(t), NEW j \in 1..Len(t), i < j PROVE Follows(t[i], t[j])
      BY <2>12 DEF Ordered
    <3>1. CASE i <= Len(disables)
      <4>1. t[i].op = "disable" /\ t[i].nested /\ t[j].op \in {"disable", "stopAll", "link"}
        BY <2>2, <2>4, <2>12, <2>13, <3>1
      <4> QED
        BY <4>1 DEF Follows
    <3>2. CASE i > Len(disables)
      <4>1. t[i] = all /\ t[j] = link
        BY <2>10, <2>12, <2>13, <3>2
      <4> QED
        BY <2>2, <2>4, <4>1 DEF Follows
    <3> QED
      BY <2>12, <3>1, <3>2
  <2>15. \A k \in DOMAIN t : t[k] \in Feasible'
    <3>1. \A k \in 1..Len(t) : t[k] \in Feasible' \/ t[k] \in {all, link}
      BY <2>13, Zenon
    <3>2. DOMAIN t = 1..Len(t)
      BY <2>12
    <3> QED
      BY <2>6, <3>1, <3>2, Zenon
  <2>16. Planning' /\ task'.todo \in Seq(Steps)
    BY <1>2, <1>3, <2>11, <2>12, <2>14, <2>15, Planned
  <2>17. Range(link.left) \cap Range(Considered) # {}
    <3>1. Range(Considered) = {"reboot", "poweroff", Current}
      BY ConsideredTypes
    <3>2. PICK s \in Conf(u, task.conf).wanted : s \in {"reboot", "poweroff", Current}
      BY <1>9, <3>1
    <3>3. s \in targets
      BY <1>7, <3>2 DEF Targets, Current
    <3>4. link.left = SetToSeq(targets)
      BY <2>1
    <3> QED
      BY <1>8, <3>1, <3>2, <3>3, <3>4
  <2>18. \A k \in DOMAIN task'.todo : k \in DOMAIN t /\ task'.todo[k] = t[k]
    <3> DEFINE s == task.todo
               n == task'.todo
    <3>1. s \in Seq(Steps) /\ s # <<>> /\ n = t \o Tail(s) /\ t \in Seq(Steps)
      BY <1>2, <2>11, <2>12 DEF Serving
    <3>2. \A j \in DOMAIN s : ~(j > 1)
      BY <1>3
    <3> HIDE DEF s, n
    <3>3. \A k \in DOMAIN n : \/ k \in DOMAIN t /\ n[k] = t[k]
                              \/ /\ k > Len(t) /\ k - Len(t) + 1 \in DOMAIN s
                                 /\ k - Len(t) + 1 > 1 /\ n[k] = s[k - Len(t) + 1]
      BY <3>1, Replaced
    <3>4. \A k \in DOMAIN n : k \in DOMAIN t /\ n[k] = t[k]
      BY <3>2, <3>3
    <3> QED
      BY <3>4 DEF n
  <2>19. \A k \in DOMAIN t : t[k].op = "disable" \/ t[k] \in {all, link}
    BY <2>12, <2>13
  <2>20. Prepared
    BY <2>2, <2>4, <2>17, <2>18, <2>19 DEF Prepared
  <2> QED
    BY <2>16, <2>20
<1> QED
  BY <1>5, <1>6, <1>7, <1>9 DEF VerifyLeaves

LEMMA VerifyRequiresPlans ==
  ASSUME DiskTypes, ArrayTypes, LoopTypes, Serving, Living, Planning, VerifyRequires
  PROVE  Planning' /\ task'.todo \in Seq(Steps) /\ Plain
BY EndPlans DEF VerifyRequires

(* What a linking does to the unit, and what it leaves to be done.         *)
LEMMA LinkDoes ==
  ASSUME DiskTypes, ArrayTypes, LoopTypes, Serving, Link, NEW u, u = Step.unit
  PROVE  /\ ArrayTypes' /\ \A v \in Units : v # u => Same(v)
         /\ \/ /\ Same(u) /\ links' = links /\ failed' = failed /\ Step.left = <<>>
               /\ Refuse \/ Do(<<>>) \/ Do(<<Start(u, FALSE)>>)
            \/ /\ Flagged(u, TRUE) /\ links' = links \cup {<<u, Head(Step.left)>>}
               /\ failed' = failed /\ Step.left # <<>>
               /\ Do(<<[Step EXCEPT !.left = Tail(@)]>>)
            \/ Same(u) /\ links' = links /\ Fails /\ Refuse
<1>1. u \in Units /\ task.todo # <<>>
  BY AtUnit DEF Link
<1>2. UNCHANGED procs => Same(u) /\ (\A v \in Units : Same(v)) /\ ArrayTypes'
  BY <1>1, AllSame
<1>3. alive' = alive /\ orphans' = orphans
  BY DEF Link
<1>4. mem' = Marked(u, TRUE) => ArrayTypes' /\ Flagged(u, TRUE) /\ \A v \in Units : v # u => Same(v)
  BY <1>1, <1>3, MarkedDoes
<1> DEFINE rest == [Step EXCEPT !.left = Tail(@)]
<1>5. \/ /\ Step.left = <<>>
         /\ Do(IF Opt("run") THEN <<Start(u, FALSE)>> ELSE <<>>)
         /\ UNCHANGED <<links, mem, failed>>
      \/ /\ Step.left # <<>>
         /\ links' = links \cup {<<u, Head(Step.left)>>}
         /\ mem' = Marked(u, TRUE)
         /\ Do(<<rest>>)
         /\ UNCHANGED failed
      \/ /\ Step.left # <<>>
         /\ Fails /\ Refuse
         /\ UNCHANGED <<links, mem>>
  BY DEF Link
<1> HIDE DEF rest
<1>6. CASE /\ Step.left = <<>>
           /\ Do(IF Opt("run") THEN <<Start(u, FALSE)>> ELSE <<>>)
           /\ UNCHANGED <<links, mem, failed>>
  <2>1. Do(<<Start(u, FALSE)>>) \/ Do(<<>>)
    BY <1>6
  <2> QED
    BY <1>1, <1>2, <1>3, <1>6, <2>1 DEF procs
<1>7. CASE /\ Step.left # <<>>
           /\ links' = links \cup {<<u, Head(Step.left)>>}
           /\ mem' = Marked(u, TRUE)
           /\ Do(<<rest>>)
           /\ UNCHANGED failed
  BY <1>1, <1>4, <1>7 DEF rest
<1>8. CASE /\ Step.left # <<>>
           /\ Fails /\ Refuse
           /\ UNCHANGED <<links, mem>>
  BY <1>1, <1>2, <1>3, <1>8 DEF procs
<1> QED
  BY <1>5, <1>6, <1>7, <1>8

LEMMA LinkPlans ==
  ASSUME DiskTypes, ArrayTypes, LoopTypes, Serving, Living, Planning, Linking, Link
  PROVE  Planning' /\ task'.todo \in Seq(Steps)
<1>1. At("link") /\ setup' = setup /\ default' = default
  BY DEF Link, states
<1>2. PICK u \in Units : task.todo # <<>> /\ u = Step.unit /\ Step.op = "link" /\ Step \in Steps
  BY <1>1, AtUnit
<1>3. \A j \in DOMAIN task.todo : ~(j > 1)
  BY <1>2, NoTail
<1>4. PICK left \in Seq(UnitStates) : Step = [op |-> "link", unit |-> u, left |-> left]
  BY <1>2, StepTypes
<1>5. Step.left = left
  BY <1>4
<1>6. CASE Refuse \/ Do(<<>>)
  BY <1>1, <1>6, EndPlans
<1>7. CASE Step.left = <<>> /\ links' = links /\ Do(<<Start(u, FALSE)>>)
  <2>1. task'.todo = <<Start(u, FALSE)>> \o Tail(task.todo)
    BY <1>7, Doing
  <2>2. PICK x : x = Start(u, FALSE)
    OBVIOUS
  <2>3. x \in Steps /\ x.op = "start" /\ x.unit = u
    BY <2>2 DEF Start, Steps
  <2>4. IsEnabled(u)
    <3>1. Step = task.todo[1] /\ 1 \in DOMAIN task.todo
      BY <1>2, AtStep
    <3>2. Range(Step.left) \cap Range(Considered) = {}
      <4>1. Range(left) = {}
        BY <1>5, <1>7 DEF Range
      <4> QED
        BY <1>5, <4>1
    <3> QED
      BY <1>2, <3>1, <3>2 DEF Linking
  <2>5. IsEnabled(u)'
    BY <1>1, <1>7, <2>4 DEF IsEnabled, Considered, Current
  <2>6. x \in Feasible'
    BY <2>3, <2>5 DEF Feasible, Ready
  <2> QED
    BY <1>2, <1>3, <2>1, <2>2, <2>3, <2>6, ReplacedByOne
<1>8. CASE Step.left # <<>> /\ Do(<<[Step EXCEPT !.left = Tail(@)]>>)
  <2>0. left # <<>>
    BY <1>5, <1>8, Zenon
  <2>a. Tail(left) \in Seq(UnitStates)
    BY <2>0
  <2>1. PICK t \in Seq(UnitStates) : t = Tail(left)
    BY <2>a, Zenon
  <2>2. PICK x : x = [op |-> "link", unit |-> u, left |-> t]
    OBVIOUS
  <2>3. x \in Steps /\ x.op = "link"
    BY <2>2 DEF Steps
  <2>4. x \in Feasible'
    BY <2>3 DEF Feasible, Ready
  <2>5. task'.todo = <<x>> \o Tail(task.todo)
    <3>1. [Step EXCEPT !.left = t] = [op |-> "link", unit |-> u, left |-> t]
      BY <1>4
    <3>2. Tail(Step.left) = t
      BY <1>5, <2>1, Zenon
    <3>3. Do(<<x>>)
      BY <1>8, <2>2, <3>1, <3>2, Zenon
    <3> QED
      BY <3>3, Doing
  <2> QED
    BY <1>2, <1>3, <2>3, <2>4, <2>5, ReplacedByOne
<1> QED
  BY <1>2, <1>6, <1>7, <1>8, LinkDoes
-----------------------------------------------------------------------------
(* The steps of the default state, and what is shown.                      *)

LEMMA SetDefaultPlans ==
  ASSUME DiskTypes, ArrayTypes, LoopTypes, Serving, Living, Planning, SetDefault
  PROVE  Planning' /\ task'.todo \in Seq(Steps)
<1>1. At("set-default") /\ default' = default
  BY DEF SetDefault
<1>2. task.todo # <<>> /\ Step.op = "set-default" /\ Step \in Steps
  BY <1>1, AtOther
<1>3. \A j \in DOMAIN task.todo : ~(j > 1)
  BY <1>2, NoTail
<1>4. PICK s \in Levels : s = Step.unit
  BY <1>2, StepTypes
<1>5. PICK x : x = [op |-> "rm", unit |-> s]
  OBVIOUS
<1>6. PICK y : y = [op |-> "ln", unit |-> s]
  OBVIOUS
<1>7. x \in Steps /\ y \in Steps /\ x.op = "rm" /\ y.op = "ln" /\ x.unit = s /\ y.unit = s
  BY <1>5, <1>6 DEF Steps
<1>8. Refuse \/ (s \in {default, newDefault'} /\ Do(<<x, y>>))
  BY <1>4, <1>5, <1>6 DEF SetDefault
<1>9. CASE Refuse
  BY <1>1, <1>9, EndPlans
<1>10. CASE s \in {default, newDefault'} /\ Do(<<x, y>>)
  <2>1. task'.todo = <<x, y>> \o Tail(task.todo)
    BY <1>10, Doing
  <2>2. x \in Feasible' /\ y \in Feasible'
    BY <1>1, <1>7, <1>10 DEF Feasible, Ready
  <2>3. Follows(x, y)
    BY <1>7 DEF Follows
  <2> QED
    BY <1>2, <1>3, <1>7, <2>1, <2>2, <2>3, ReplacedByTwo
<1> QED
  BY <1>8, <1>9, <1>10

(* Nothing is left to be done. *)
LEMMA NothingPlans ==
  ASSUME task'.todo = <<>>
  PROVE  Planning' /\ task'.todo \in Seq(Steps)
<1> DEFINE n == task'.todo
<1>1. n \in Seq(Steps) /\ DOMAIN n = {}
  BY EmptySeq
<1> HIDE DEF n
<1> QED
  BY <1>1 DEF Planning, Ordered, n

LEMMA DropDefaultPlans ==
  ASSUME DiskTypes, ArrayTypes, LoopTypes, Serving, Living, Planning, DropDefault
  PROVE  Planning' /\ task'.todo \in Seq(Steps)
<1>1. At("rm") /\ UNCHANGED procs
      /\ UNCHANGED <<setup, file, links, default, newDefault, pending, missed>>
  BY DEF DropDefault, states
<1>2. task.todo # <<>> /\ Step.op = "rm" /\ Step \in Steps
  BY <1>1, AtOther
<1>3. (Do(<<>>) /\ failed' = failed) \/ task' = [task EXCEPT !.todo = <<>>, !.error = TRUE]
  BY DEF DropDefault
<1>4. CASE Do(<<>>) /\ failed' = failed
  <2>1. task'.todo = <<>> \o Tail(task.todo) /\ task'.conf = task.conf
    BY <1>4, Doing
  <2>2. ToStop = {} /\ ToKill = {} /\ \A v \in Units : Same(v)
    BY <1>1, <1>2, NothingBehind, AllSame
  <2>3. ASSUME NEW j \in DOMAIN task.todo, j > 1 PROVE task.todo[j] \in Feasible'
    <3>0. PICK y : y = task.todo[j]
      OBVIOUS
    <3>1. y \in Feasible /\ Follows(Step, y)
      BY <1>2, <2>3, <3>0, HeadFollows
    <3>2. y.op = "ln"
      BY <1>2, <3>1 DEF Follows
    <3>3. y \in Feasible'
      BY <1>1, <1>4, <2>1, <2>2, <3>1, <3>2, SameFeasible
    <3> QED
      BY <3>0, <3>3
  <2> QED
    BY <1>2, <2>1, <2>3, Dropped
<1>5. CASE task' = [task EXCEPT !.todo = <<>>, !.error = TRUE]
  <2>1. "todo" \in DOMAIN task
    BY DEF LoopTypes, Idle
  <2>2. task'.todo = <<>>
    BY <1>5, <2>1
  <2> QED
    BY <2>2, NothingPlans
<1> QED
  BY <1>3, <1>4, <1>5

LEMMA LinkDefaultPlans ==
  ASSUME DiskTypes, ArrayTypes, LoopTypes, Serving, Living, Planning, LinkDefault
  PROVE  Planning' /\ task'.todo \in Seq(Steps) /\ Plain
BY EndPlans DEF LinkDefault

LEMMA ShowPlans ==
  ASSUME DiskTypes, ArrayTypes, LoopTypes, Serving, Living, Planning, Show
  PROVE  Planning' /\ task'.todo \in Seq(Steps) /\ Plain
BY EndPlans DEF Show

LEMMA AnswerPlans ==
  ASSUME Answer \/ GoDown \/ AcceptFails \/ Crash \/ PowerLoss
  PROVE  Planning' /\ task'.todo \in Seq(Steps)
<1>1. task' = Idle
  BY DEF Answer, GoDown, AcceptFails, Crash, PowerLoss, Off
<1> QED
  BY <1>1, NothingPlans DEF Idle
-----------------------------------------------------------------------------
(* What begins a task. *)

LEMMA OnePlans ==
  ASSUME NEW x \in Steps, x \in Feasible', task'.todo = <<x>>
  PROVE  Planning' /\ task'.todo \in Seq(Steps)
<1> DEFINE n == task'.todo
<1>1. n \in Seq(Steps) /\ DOMAIN n = {1} /\ n[1] = x
  OBVIOUS
<1> HIDE DEF n
<1> QED
  BY <1>1 DEF Planning, Ordered, n

(* A request that has been parsed begins with one step. *)
LEMMA RequestStep ==
  ASSUME NEW r, IsRequest(r), r.command \notin Shutdowns
  PROVE  LET arg == IF r.arg = <<>> THEN None ELSE r.arg[1]
             x == IF r.command \in {"stop", "start"}
                  THEN [op |-> r.command, unit |-> arg, told |-> TRUE]
                  ELSE IF r.command = "disable" THEN Disable(arg, FALSE)
                  ELSE S(r.command, arg) IN
         /\ x \in Steps /\ x.op = r.command
         /\ x.op \in {"stop", "start", "disable", "enable", "status", "set-default", "list",
                      "get-default"}
         /\ x.op \in {"stop", "start"} => x.told
         /\ x.unit = arg /\ (x.op = "disable" => ~x.nested)
<1> DEFINE arg == IF r.arg = <<>> THEN None ELSE r.arg[1]
<1>1. CASE r.command \in {"stop", "start"}
  <2>1. arg \in Units
    BY <1>1 DEF IsRequest, Shutdowns
  <2>2. [op |-> r.command, unit |-> arg, told |-> TRUE] \in Steps
    BY <1>1, <2>1 DEF Steps
  <2> QED
    BY <1>1, <2>2
<1>2. CASE r.command = "disable"
  <2>1. arg \in Units
    BY <1>2 DEF IsRequest, Shutdowns
  <2>2. /\ Disable(arg, FALSE) \in Steps /\ Disable(arg, FALSE).op = "disable"
        /\ Disable(arg, FALSE).unit = arg /\ ~Disable(arg, FALSE).nested
    BY <1>2, <2>1 DEF Steps, Disable
  <2> QED
    BY <1>2, <2>2
<1>3. CASE r.command \in {"enable", "status"}
  <2>1. arg \in Units
    BY <1>3 DEF IsRequest, Shutdowns
  <2>2. /\ S(r.command, arg) \in Steps /\ S(r.command, arg).op = r.command
        /\ S(r.command, arg).unit = arg
    BY <1>3, <2>1 DEF Steps, S
  <2> QED
    BY <1>3, <2>2
<1>4. CASE r.command = "set-default"
  <2>1. arg \in Levels
    BY <1>4 DEF IsRequest, Shutdowns
  <2>2. /\ S(r.command, arg) \in Steps /\ S(r.command, arg).op = r.command
        /\ S(r.command, arg).unit = arg
    BY <1>4, <2>1 DEF Steps, S
  <2> QED
    BY <1>4, <2>2
<1>5. CASE r.command \in {"list", "get-default"}
  <2>1. arg = None
    BY <1>5 DEF IsRequest, Shutdowns
  <2>2. /\ S(r.command, arg) \in Steps /\ S(r.command, arg).op = r.command
        /\ S(r.command, arg).unit = arg
    BY <1>5, <2>1 DEF Steps, S
  <2> QED
    BY <1>5, <2>2
<1>6. \/ r.command \in {"stop", "start"} \/ r.command = "disable"
      \/ r.command \in {"enable", "status"} \/ r.command = "set-default"
      \/ r.command \in {"list", "get-default"}
  BY DEF IsRequest
<1> QED
  BY <1>1, <1>2, <1>3, <1>4, <1>5, <1>6

(* The request that is dispatched is the one that the client has made.     *)
LEMMA RequestArrives ==
  ASSUME NEW request, IsRequest(request)
  PROVE  UnmarshallRequest(MarshallRequest(request)) = request
<1> DEFINE command == request.command
           arg == request.arg
           options == request.options
           T == {command} \cup Units \cup Levels \cup Options
<1>1. request = [command |-> command, arg |-> arg, options |-> options]
  BY DEF IsRequest
<1>2. arg = <<>> \/ \E x \in T : arg = <<x>>
  BY DEF IsRequest
<1>3. arg \in Seq(T) /\ Len(arg) <= 1
  <2> HIDE DEF T, arg
  <2>1. ASSUME NEW x \in T PROVE <<x>> \in Seq(T) /\ Len(<<x>>) <= 1
    OBVIOUS
  <2>2. <<>> \in Seq(T) /\ Len(<<>>) <= 1
    OBVIOUS
  <2>3. CASE arg = <<>>
    BY <2>2, <2>3
  <2>4. CASE \E x \in T : arg = <<x>>
    BY <2>1, <2>4
  <2> QED
    BY <1>2, <2>3, <2>4
<1>4. options \in Seq(T)
  <2>1. options \in Seq(Options) /\ Options \subseteq T
    BY DEF IsRequest
  <2> HIDE DEF T, options
  <2> QED
    BY <2>1
<1>5. command \in T
  OBVIOUS
<1> HIDE DEF T, command, arg, options
<1> QED
  BY <1>1, <1>3, <1>4, <1>5, RequestIsRead

LEMMA ReceiveDoes ==
  ASSUME DiskTypes, Receive
  PROVE  /\ UNCHANGED <<setup, disk, pending, procs, states, open, up, failed, missed>>
         /\ up /\ task = Idle /\ watched > 0
         /\ \/ task' = Idle /\ shutdown' \in Shutdowns /\ watched' = watched - 1
            \/ /\ shutdown' = shutdown /\ watched' = watched
               /\ DOMAIN task' = DOMAIN Idle
               /\ \E x \in Steps :
                    /\ task'.todo = <<x>>
                    /\ x.op \in {"stop", "start", "disable", "enable", "status", "set-default",
                                 "list", "get-default"}
                    /\ x.op \in {"stop", "start"} => x.told
                    /\ x.op = task'.command /\ x.unit = task'.arg
                    /\ x.op = "disable" => ~x.nested
<1>1. /\ UNCHANGED <<setup, disk, pending, procs, states, open, up, failed, missed>>
      /\ up /\ task = Idle /\ watched > 0
  BY DEF Receive, Waiting
<1>2. PICK request \in setup.requests :
       LET r == UnmarshallRequest(MarshallRequest(request))
           arg == IF r.arg = <<>> THEN None ELSE r.arg[1] IN
       IF r.command \in Shutdowns
       THEN /\ shutdown' = r.command /\ watched' = watched - 1
            /\ UNCHANGED task
       ELSE /\ task' = [Idle EXCEPT !.command = r.command, !.arg = arg,
                          !.options = r.options,
                          !.todo = IF r.command \in {"stop", "start"}
                                   THEN <<[op |-> r.command, unit |-> arg, told |-> TRUE]>>
                                   ELSE IF r.command = "disable" THEN <<Disable(arg, FALSE)>>
                                   ELSE <<S(r.command, arg)>>]
            /\ UNCHANGED <<shutdown, watched>>
  BY DEF Receive
<1>3. PICK r : r = UnmarshallRequest(MarshallRequest(request))
  OBVIOUS
<1>4. IsRequest(r)
  <2>1. IsRequest(request)
    BY RequestAssumption DEF DiskTypes
  <2> QED
    BY <1>3, <2>1, RequestArrives
<1>5. CASE r.command \in Shutdowns
  BY <1>1, <1>2, <1>3, <1>5
<1>6. CASE r.command \notin Shutdowns
  <2> DEFINE arg == IF r.arg = <<>> THEN None ELSE r.arg[1]
             x == IF r.command \in {"stop", "start"}
                  THEN [op |-> r.command, unit |-> arg, told |-> TRUE]
                  ELSE IF r.command = "disable" THEN Disable(arg, FALSE)
                  ELSE S(r.command, arg)
  <2>1. /\ x \in Steps /\ x.op = r.command
        /\ x.op \in {"stop", "start", "disable", "enable", "status", "set-default", "list",
                     "get-default"}
        /\ x.op \in {"stop", "start"} => x.told
        /\ x.unit = arg /\ (x.op = "disable" => ~x.nested)
    BY <1>4, <1>6, RequestStep
  <2>2. /\ task' = [Idle EXCEPT !.command = r.command, !.arg = arg, !.options = r.options,
                                !.todo = <<x>>]
        /\ UNCHANGED <<shutdown, watched>>
    <3>1. (IF r.command \in {"stop", "start"}
           THEN <<[op |-> r.command, unit |-> arg, told |-> TRUE]>>
           ELSE IF r.command = "disable" THEN <<Disable(arg, FALSE)>>
           ELSE <<S(r.command, arg)>>) = <<x>>
      OBVIOUS
    <3> QED
      BY <1>2, <1>3, <1>6, <3>1
  <2> HIDE DEF x, arg
  <2>3. /\ DOMAIN task' = DOMAIN Idle /\ task'.todo = <<x>>
        /\ task'.command = r.command /\ task'.arg = arg
    BY <2>2 DEF Idle
  <2> QED
    BY <1>1, <2>1, <2>2, <2>3
<1> QED
  BY <1>5, <1>6

LEMMA ReceivePlans ==
  ASSUME DiskTypes, ArrayTypes, LoopTypes, Serving, Living, Planning, Receive
  PROVE  Planning' /\ task'.todo \in Seq(Steps)
<1>1. CASE task' = Idle
  BY <1>1, NothingPlans DEF Idle
<1>2. ASSUME NEW x \in Steps, task'.todo = <<x>>,
             x.op \in {"stop", "start", "disable", "enable", "status", "set-default", "list",
                       "get-default"},
             x.op \in {"stop", "start"} => x.told
      PROVE  Planning' /\ task'.todo \in Seq(Steps)
  <2>1. x \in Feasible'
    BY <1>2 DEF Feasible, Ready
  <2> QED
    BY <1>2, <2>1, OnePlans
<1> QED
  BY <1>1, <1>2, ReceiveDoes

(* The units that are loaded at the boot, and what is to be done then.     *)
BootLeaves(loaded, order) ==
  /\ loaded = {u \in Units : <<u, Current'>> \in links}
  /\ \A i \in DOMAIN order : order[i] \in loaded
  /\ \A i, j \in DOMAIN order : i # j => order[i] # order[j]
  /\ mem' \in [Units -> Memory \cup {None}]
  /\ \A u \in Units : IF u \in loaded
                      THEN /\ mem'[u] \in Memory
                           /\ mem'[u].state = "dead" /\ mem'[u].final = "ready"
                           /\ mem'[u].conf = file[u] /\ mem'[u].enabled
                      ELSE mem'[u] = None
  /\ DOMAIN task' = DOMAIN Idle /\ task'.command = "boot"
  /\ task'.todo = [i \in DOMAIN order |-> S("run", order[i])]

LEMMA BootDoes ==
  ASSUME DiskTypes, Boot
  PROVE  /\ ~up /\ up' = TRUE /\ dflt # None /\ default' = dflt
         /\ UNCHANGED <<setup, disk, pending, alive, orphans, newDefault, open, watched, shutdown,
                        failed, missed>>
         /\ \E loaded \in SUBSET Units, order \in Seq(Units) : BootLeaves(loaded, order)
<1> DEFINE state == IF setup.cmdline # None THEN setup.cmdline ELSE dflt
           loaded == {u \in Units : <<u, state>> \in links}
           Wrong(u) == OnDisk(u).bad \/ state \notin OnDisk(u).wanted
<1>1. /\ ~up /\ up' = TRUE /\ dflt # None /\ default' = dflt
      /\ UNCHANGED <<setup, disk, pending, alive, orphans, newDefault, open, watched, shutdown,
                     failed, missed>>
  BY DEF Boot
<1>2. mem' = [u \in Units |-> IF u \in loaded THEN NewUnit(u, file[u], TRUE, Wrong(u)) ELSE None]
  BY DEF Boot
<1>3. PICK order \in SetToSeqs(loaded) :
        task' = [Idle EXCEPT !.command = "boot",
                             !.todo = [i \in DOMAIN order |-> S("run", order[i])]]
  BY DEF Boot
<1>4. state = Current'
  BY <1>1 DEF Current
<1>5. ASSUME NEW u \in Units
      PROVE  /\ NewUnit(u, file[u], TRUE, Wrong(u)) \in Memory
             /\ NewUnit(u, file[u], TRUE, Wrong(u)).state = "dead"
             /\ NewUnit(u, file[u], TRUE, Wrong(u)).final = "ready"
             /\ NewUnit(u, file[u], TRUE, Wrong(u)).conf = file[u]
             /\ NewUnit(u, file[u], TRUE, Wrong(u)).enabled
  <2>1. OnDisk(u).bad \in BOOLEAN
    BY ConfFacts DEF ConfType
  <2>2. Wrong(u) \in BOOLEAN
    BY <2>1
  <2>3. file[u] \in DOMAIN setup.conf[u]
    BY DEF DiskTypes
  <2> HIDE DEF Wrong
  <2>4. NewUnit(u, file[u], TRUE, Wrong(u)) \in Memory
    BY <2>2, <2>3, NewMemory
  <2> QED
    BY <2>4 DEF NewUnit
<1> HIDE DEF Wrong
<1>6. /\ mem' \in [Units -> Memory \cup {None}]
      /\ \A u \in Units : IF u \in loaded
                          THEN /\ mem'[u] \in Memory
                               /\ mem'[u].state = "dead" /\ mem'[u].final = "ready"
                               /\ mem'[u].conf = file[u] /\ mem'[u].enabled
                          ELSE mem'[u] = None
  BY <1>2, <1>5
<1>7. DOMAIN task' = DOMAIN Idle /\ task'.command = "boot"
      /\ task'.todo = [i \in DOMAIN order |-> S("run", order[i])]
  BY <1>3 DEF Idle
<1>8. /\ order \in Seq(Units) /\ \A i \in DOMAIN order : order[i] \in loaded
      /\ \A i, j \in DOMAIN order : i # j => order[i] # order[j]
  <2>1. IsFiniteSet(loaded)
    BY ServerAssumption, FS_Subset
  <2>2. Cardinality(loaded) \in Nat
    BY <2>1, FS_CardinalityType
  <2> HIDE DEF loaded
  <2>3. /\ order \in [1..Cardinality(loaded) -> loaded]
        /\ \A i, j \in 1..Cardinality(loaded) : i # j => order[i] # order[j]
    BY DEF SetToSeqs
  <2>4. loaded \subseteq Units
    BY DEF loaded
  <2> QED
    BY <2>2, <2>3, <2>4
<1>9. loaded = {u \in Units : <<u, Current'>> \in links}
  BY <1>4
<1> HIDE DEF loaded
<1>10. loaded \in SUBSET Units
  BY <1>9
<1>11. BootLeaves(loaded, order)
  BY <1>6, <1>7, <1>8, <1>9 DEF BootLeaves
<1> QED
  BY <1>1, <1>8, <1>10, <1>11

LEMMA BootPlans ==
  ASSUME DiskTypes, ArrayTypes, LoopTypes, Serving, Living, Planning, Boot
  PROVE  Planning' /\ task'.todo \in Seq(Steps)
<1>0. PICK loaded \in SUBSET Units, order \in Seq(Units) : BootLeaves(loaded, order)
  BY BootDoes
<1>1. /\ \A i \in DOMAIN order : order[i] \in loaded
      /\ \A i, j \in DOMAIN order : i # j => order[i] # order[j]
      /\ \A u \in loaded : mem'[u] \in Memory /\ mem'[u].state = "dead"
      /\ task'.todo = [i \in DOMAIN order |-> S("run", order[i])]
  BY <1>0 DEF BootLeaves
<1>2. \A u \in Units : S("run", u) \in Steps /\ S("run", u).op = "run" /\ S("run", u).unit = u
  BY DEF S, Steps
<1>3. \A u \in loaded : S("run", u) \in Feasible'
  BY <1>1, <1>2, NoneIsNoUnit DEF Feasible, Ready
<1> DEFINE n == task'.todo
<1>4. n = [i \in DOMAIN order |-> S("run", order[i])]
  BY <1>1
<1> HIDE DEF n
<1>5. DOMAIN n = DOMAIN order /\ \A i \in DOMAIN n : n[i] = S("run", order[i]) /\ order[i] \in Units
  BY <1>4
<1>6. n \in Seq(Steps)
  BY <1>2, <1>4, <1>5
<1>7. \A i, j \in DOMAIN n : i # j => Follows(n[i], n[j])
  BY <1>1, <1>2, <1>5 DEF Follows
<1>8. \A i, j \in DOMAIN n : i < j => Follows(n[i], n[j])
  BY <1>6, <1>7
<1>9. \A i \in DOMAIN n : n[i] \in Feasible'
  BY <1>1, <1>3, <1>5
<1> QED
  BY <1>6, <1>8, <1>9 DEF n, Planning, Ordered
-----------------------------------------------------------------------------
(* What happens while a task is done. *)

LEMMA MeanwhilePlans ==
  ASSUME Serving, Planning, task' = task,
         \A j \in DOMAIN task.todo : task.todo[j] \in Feasible => task.todo[j] \in Feasible'
  PROVE  Planning' /\ task'.todo \in Seq(Steps)
BY DEF Planning, Ordered, Serving

(* Nothing changes but for clients and the state on the disk. *)
LEMMA QuietPlans ==
  ASSUME DiskTypes, ArrayTypes, LoopTypes, Serving, Living, Planning,
         Accept \/ Signal \/ Repair
  PROVE  Planning' /\ task'.todo \in Seq(Steps)
<1>1. UNCHANGED <<setup, file, links, default, newDefault, pending, missed, failed, procs, task>>
  BY DEF Accept, Signal, Repair, disk, states
<1>2. /\ \A v \in Units : Same(v)
      /\ ToKill' = ToKill /\ ToStop' = ToStop
  BY <1>1, AllSame DEF ToKill, ToStop
<1>3. \A j \in DOMAIN task.todo : task.todo[j] \in Feasible => task.todo[j] \in Feasible'
  BY <1>1, <1>2, SameFeasible
<1> QED
  BY <1>1, <1>3, MeanwhilePlans

(* What a death changes of the unit. *)
LEMMA DieDoes ==
  ASSUME DiskTypes, ArrayTypes, LoopTypes, Living, NEW u \in Units, Die(u)
  PROVE  /\ UNCHANGED <<setup, disk, pending, states, task, loop, failed, missed>>
         /\ ArrayTypes' /\ \A v \in Units : v # u => Same(v)
         /\ Alike(u) /\ alive[u] /\ alive'[u] = FALSE /\ mem'[u].listening = mem[u].listening
         /\ \/ mem'[u].state = mem[u].state /\ mem'[u].final = mem[u].final
            \/ mem'[u].state = "killed" /\ mem'[u].final = "failure"
<1>1. /\ UNCHANGED <<setup, disk, pending, states, task, loop, failed, missed>>
      /\ alive[u] /\ alive' = [alive EXCEPT ![u] = FALSE] /\ orphans' = orphans
      /\ \/ mem' = [mem EXCEPT ![u].state = "killed", ![u].final = "failure"]
         \/ mem' = mem
  BY DEF Die
<1>2. mem[u] # None /\ mem[u] \in Memory
  BY <1>1 DEF ArrayTypes
<1> DEFINE m == [mem[u] EXCEPT !.state = "killed", !.final = "failure"]
<1>3. /\ m \in Memory /\ m.state = "killed" /\ m.final = "failure" /\ m.conf = mem[u].conf
      /\ m.enabled = mem[u].enabled /\ m.changed = mem[u].changed /\ m.listening = mem[u].listening
  BY <1>2 DEF Memory, PStates
<1>4. mem' = mem \/ mem' = [mem EXCEPT ![u] = m]
  BY <1>1
<1> HIDE DEF m
<1>5. m # None
  BY <1>3, NoneIsNoUnit
<1>6. mem'[u] = mem[u] \/ mem'[u] = m
  BY <1>4 DEF ArrayTypes
<1>7. \A v \in Units : v # u => mem'[v] = mem[v] /\ alive'[v] = alive[v]
  BY <1>1, <1>4 DEF ArrayTypes
<1>8. alive'[u] = FALSE /\ alive' \in [Units -> BOOLEAN] /\ orphans' \in [Units -> Nat]
  BY <1>1 DEF ArrayTypes
<1>9. mem' \in [Units -> Memory \cup {None}]
  BY <1>3, <1>4 DEF ArrayTypes
<1>10. ArrayTypes'
  BY <1>7, <1>8, <1>9 DEF ArrayTypes
<1>11. Alike(u) /\ mem'[u].listening = mem[u].listening
       /\ \/ mem'[u].state = mem[u].state /\ mem'[u].final = mem[u].final
          \/ mem'[u].state = "killed" /\ mem'[u].final = "failure"
  BY <1>1, <1>2, <1>3, <1>5, <1>6, NoneIsNoUnit DEF Alike
<1>12. \A v \in Units : v # u => Same(v)
  BY <1>1, <1>7 DEF Same
<1> QED
  BY <1>1, <1>8, <1>10, <1>11, <1>12

(* A unit that is alive, or whose listener is at work, is in the array and *)
(* may be about to be stopped, but is not about to be added or run.        *)
LEMMA BusyFeasible ==
  ASSUME NEW y, y \in Feasible, NEW u \in Units, mem[u] # None, mem'[u] # None,
         mem[u].state # "dead", u \in Settled => u \in Settled',
         u \in Leaving => u \in Leaving',
         \A v \in Units : v # u => Same(v),
         UNCHANGED <<setup, file, links, default, newDefault, pending, missed, failed, task>>
  PROVE  y \in Feasible'
<1>1. y \in Steps /\ Ready(y)
  BY DEF Feasible
<1>2. ToKill' = ToKill /\ ToStop' = ToStop
  BY DEF ToKill, ToStop
<1>3. CASE y.op \in {"kill", "clear", "load", "add", "run"} /\ y.unit = u
  <2>1. y.op \notin {"add", "run"}
    BY <1>1, <1>3 DEF Ready
  <2>2. IsEnabled(y.unit)' <=> IsEnabled(y.unit)
    BY DEF IsEnabled, Considered, Current
  <2>3. y.op \in {"kill", "clear", "load"}
    BY <1>3, <2>1
  <2>4. /\ y.op = "kill" => mem'[y.unit] # None /\ y.unit \in Settled'
        /\ y.op = "clear" => y.unit \in Leaving'
        /\ y.op = "load" => y.unit \in ToStop' \/ y.unit \in Leaving'
    BY <1>1, <1>2, <1>3 DEF Ready
  <2>5. y.op = "load" => (y.told \/ IsEnabled(y.unit))'
    BY <1>1, <2>2 DEF Ready
  <2>6. Ready(y)'
    BY <2>3, <2>4, <2>5 DEF Ready
  <2> QED
    BY <1>1, <2>6 DEF Feasible
<1>4. CASE ~(y.op \in {"kill", "clear", "load", "add", "run"} /\ y.unit = u)
  BY <1>2, <1>4, StillFeasible
<1> QED
  BY <1>3, <1>4

LEMMA DiePlans ==
  ASSUME DiskTypes, ArrayTypes, LoopTypes, Serving, Living, Planning, NEW u \in Units, Die(u)
  PROVE  Planning' /\ task'.todo \in Seq(Steps)
<1>1. /\ UNCHANGED <<setup, file, links, default, newDefault, pending, missed, failed, task>>
      /\ \A v \in Units : v # u => Same(v)
      /\ Alike(u) /\ alive[u] /\ alive'[u] = FALSE /\ mem'[u].listening = mem[u].listening
      /\ \/ mem'[u].state = mem[u].state /\ mem'[u].final = mem[u].final
         \/ mem'[u].state = "killed" /\ mem'[u].final = "failure"
  BY DieDoes DEF disk, states
<1>2. mem[u] # None /\ mem'[u] # None /\ mem[u].state # "dead"
  BY <1>1 DEF Alike, Living
<1>3. u \in Settled => u \in Settled'
  BY <1>1, <1>2 DEF Settled, MidRestart
<1>4. u \in Leaving => u \in Leaving'
  BY <1>1, <1>3 DEF Leaving
<1>5. \A j \in DOMAIN task.todo : task.todo[j] \in Feasible => task.todo[j] \in Feasible'
  BY <1>1, <1>2, <1>3, <1>4, BusyFeasible
<1> QED
  BY <1>1, <1>5, MeanwhilePlans

LEMMA ResetDoes ==
  ASSUME ArrayTypes, NEW u \in Units, Reset(u)
  PROVE  /\ UNCHANGED <<setup, disk, pending, states, task, loop, failed, missed>>
         /\ ArrayTypes' /\ \A v \in Units : v # u => Same(v)
         /\ Alike(u) /\ mem[u].listening /\ mem[u].state \in {"exited", "killed"}
         /\ alive'[u] = alive[u] /\ mem'[u].state = "restarting" /\ mem'[u].final = "ready"
<1>1. /\ UNCHANGED <<setup, disk, pending, states, task, loop, failed, missed>>
      /\ alive' = alive /\ orphans' = orphans
      /\ mem[u] # None /\ mem[u].listening /\ mem[u].state \in {"exited", "killed"}
      /\ mem' = [mem EXCEPT ![u].state = "restarting", ![u].final = "ready"]
  BY DEF Reset
<1>2. mem[u] \in Memory
  BY <1>1 DEF ArrayTypes
<1> DEFINE m == [mem[u] EXCEPT !.state = "restarting", !.final = "ready"]
<1>3. /\ m \in Memory /\ m.state = "restarting" /\ m.final = "ready" /\ m.conf = mem[u].conf
      /\ m.enabled = mem[u].enabled /\ m.changed = mem[u].changed /\ m.listening = mem[u].listening
  BY <1>2 DEF Memory, PStates
<1>4. mem' = [mem EXCEPT ![u] = m]
  BY <1>1
<1> HIDE DEF m
<1>5. /\ ArrayTypes' /\ mem'[u] = m /\ m # None /\ alive'[u] = alive[u] /\ orphans'[u] = orphans[u]
      /\ \A v \in Units : v # u => Same(v)
  <2>1. Becomes(u, m)
    BY <1>1, <1>3, <1>4 DEF Becomes
  <2> QED
    BY <1>1, <1>3, <1>4, <2>1, Updated
<1>6. Alike(u)
  BY <1>1, <1>3, <1>5 DEF Alike
<1> QED
  BY <1>1, <1>3, <1>5, <1>6

LEMMA ResetPlans ==
  ASSUME DiskTypes, ArrayTypes, LoopTypes, Serving, Living, Planning, NEW u \in Units, Reset(u)
  PROVE  Planning' /\ task'.todo \in Seq(Steps)
<1>1. /\ UNCHANGED <<setup, file, links, default, newDefault, pending, missed, failed, task>>
      /\ \A v \in Units : v # u => Same(v)
      /\ Alike(u) /\ mem[u].listening /\ mem[u].state \in {"exited", "killed"}
  BY ResetDoes DEF disk, states
<1>2. mem[u] # None /\ mem'[u] # None /\ mem[u].state # "dead"
  BY <1>1 DEF Alike
<1>3. u \notin Settled /\ u \notin Leaving
  BY <1>1, <1>2 DEF Leaving, Settled
<1>4. \A j \in DOMAIN task.todo : task.todo[j] \in Feasible => task.todo[j] \in Feasible'
  BY <1>1, <1>2, <1>3, BusyFeasible
<1> QED
  BY <1>1, <1>4, MeanwhilePlans

LEMMA RestartPlans ==
  ASSUME DiskTypes, ArrayTypes, LoopTypes, Serving, Living, Planning, NEW u \in Units, Restart(u)
  PROVE  Planning' /\ task'.todo \in Seq(Steps)
<1>1. /\ UNCHANGED <<setup, file, links, default, newDefault, pending, missed, failed, task>>
      /\ MidRestart(u) /\ Launch(u)
  BY DEF Restart, disk, states
<1>2. mem[u] # None /\ mem[u].state = "restarting" /\ mem[u].final = "ready"
  BY <1>1 DEF MidRestart
<1>3. Executed(u) /\ \A v \in Units : v # u => Same(v)
  BY <1>1, <1>2, LaunchDoes
<1>4. mem'[u] # None
  BY <1>3 DEF Executed, Alike
<1>5. u \notin Settled /\ u \notin Leaving
  BY <1>1, <1>2 DEF Leaving, Settled
<1>6. \A j \in DOMAIN task.todo : task.todo[j] \in Feasible => task.todo[j] \in Feasible'
  BY <1>1, <1>2, <1>3, <1>4, <1>5, BusyFeasible
<1> QED
  BY <1>1, <1>6, MeanwhilePlans

LEMMA EditPlans ==
  ASSUME DiskTypes, ArrayTypes, LoopTypes, Serving, Living, Planning, NEW u \in Units, Edit(u)
  PROVE  Planning' /\ task'.todo \in Seq(Steps)
<1>1. /\ UNCHANGED <<setup, links, default, newDefault, missed, failed, task, procs>>
      /\ file' = [file EXCEPT ![u] = @ + 1] /\ pending' = pending \cup {u}
  BY DEF Edit, states
<1>2. /\ \A v \in Units : Same(v)
      /\ ToKill' = ToKill /\ ToStop' = ToStop
  BY <1>1, AllSame DEF ToKill, ToStop
<1>3. ASSUME NEW y, y \in Feasible PROVE y \in Feasible'
  <2>1. y.op = "add" => /\ y.unit \in pending \cup missed => y.unit \in pending' \cup missed'
                        /\ y.conf = file[y.unit] =>
                             y.unit \in pending' \cup missed' \/ y.conf = file'[y.unit]
    <3>1. CASE y.unit = u
      BY <1>1, <3>1
    <3>2. CASE y.unit # u
      BY <1>1, <3>2
    <3> QED
      BY <3>1, <3>2
  <2>2. y.op = "stopAll" => mem'[u] # None \/ Same(u)
    BY <1>2
  <2> QED
    BY <1>1, <1>2, <1>3, <2>1, StillFeasible
<1> QED
  BY <1>1, <1>3, MeanwhilePlans

LEMMA NotifyDoes ==
  ASSUME ArrayTypes, NEW u \in Units, Notify(u)
  PROVE  /\ UNCHANGED <<setup, disk, states, task, loop, failed>>
         /\ ArrayTypes' /\ \A v \in Units : Same(v)
         /\ u \in pending /\ pending' = pending \ {u}
         /\ mem[u] # None => mem'[u].changed
         /\ missed' = missed \/ missed' = missed \cup {u}
         /\ (\E i \in DOMAIN task.todo : task.todo[i].op = "add" /\ task.todo[i].unit = u)
              => u \in missed'
<1>1. /\ UNCHANGED <<setup, disk, states, task, loop, failed>>
      /\ alive' = alive /\ orphans' = orphans
      /\ u \in pending /\ pending' = pending \ {u}
      /\ mem' = IF mem[u] # None THEN [mem EXCEPT ![u].changed = TRUE] ELSE mem
      /\ missed' = missed \/ missed' = missed \cup {u}
      /\ (\E i \in DOMAIN task.todo : task.todo[i].op = "add" /\ task.todo[i].unit = u)
           => u \in missed'
  BY DEF Notify, Marks
<1>2. CASE mem[u] = None
  BY <1>1, <1>2, AllSame DEF procs
<1>3. CASE mem[u] # None
  <2> DEFINE m == [mem[u] EXCEPT !.changed = TRUE]
  <2>1. mem[u] \in Memory
    BY <1>3 DEF ArrayTypes
  <2>2. /\ m \in Memory /\ m.state = mem[u].state /\ m.final = mem[u].final /\ m.conf = mem[u].conf
        /\ m.enabled = mem[u].enabled /\ m.changed /\ m.listening = mem[u].listening
    BY <2>1 DEF Memory
  <2>3. mem' = [mem EXCEPT ![u] = m]
    BY <1>1, <1>3
  <2> HIDE DEF m
  <2>4. /\ ArrayTypes' /\ mem'[u] = m /\ m # None /\ alive'[u] = alive[u] /\ orphans'[u] = orphans[u]
        /\ \A v \in Units : v # u => Same(v)
    <3>1. Becomes(u, m)
      BY <1>1, <1>3, <2>2, <2>3 DEF Becomes
    <3> QED
      BY <1>1, <1>3, <2>2, <2>3, <3>1, Updated
  <2>5. Same(u)
    BY <1>3, <2>2, <2>4 DEF Same
  <2> QED
    BY <1>1, <2>2, <2>4, <2>5
<1> QED
  BY <1>2, <1>3

LEMMA NotifyPlans ==
  ASSUME DiskTypes, ArrayTypes, LoopTypes, Serving, Living, Planning, NEW u \in Units, Notify(u)
  PROVE  Planning' /\ task'.todo \in Seq(Steps)
<1>1. /\ UNCHANGED <<setup, file, links, default, newDefault, failed, task>>
      /\ \A v \in Units : Same(v)
      /\ pending' = pending \ {u} /\ (missed' = missed \/ missed' = missed \cup {u})
      /\ (\E i \in DOMAIN task.todo : task.todo[i].op = "add" /\ task.todo[i].unit = u)
           => u \in missed'
  BY NotifyDoes DEF disk, states
<1>2. ToKill' = ToKill /\ ToStop' = ToStop
  BY <1>1 DEF ToKill, ToStop
<1>3. ASSUME NEW j \in DOMAIN task.todo, task.todo[j] \in Feasible PROVE task.todo[j] \in Feasible'
  <2>0. PICK y : y = task.todo[j]
    OBVIOUS
  <2> SUFFICES y \in Feasible'
    BY <2>0
  <2>1. y.op = "add" => (y.unit \in pending \cup missed => y.unit \in pending' \cup missed')
    BY <1>1, <2>0
  <2>2. y \in Feasible
    BY <1>3, <2>0
  <2> QED
    BY <1>1, <1>2, <2>1, <2>2, StillFeasible
<1> QED
  BY <1>1, <1>3, MeanwhilePlans
=============================================================================
