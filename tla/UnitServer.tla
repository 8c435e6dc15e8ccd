------------------------------ MODULE UnitServer ------------------------------
(***************************************************************************)
(* An instance of unitd between its boot and its end, as its users see it: *)
(* the main thread serves the requests of the control socket one after the *)
(* other (start, stop, enable, disable, the default state, what is shown), *)
(* while units die and are restarted by their listeners, the files of      *)
(* units are changed and the notifier marks that, scripts fail and the     *)
(* power is lost.  What a unit file says and which states a unit is linked *)
(* in is on the disk and outlives the instance; the units in the array, the*)
(* processes and the default state it has read do not.                     *)
(*                                                                         *)
(* A handler is cut where it waits (for a script, for processes to be      *)
(* started or to be stopped): what is still to do is the sequence          *)
(* task.todo, and a nested call puts its steps in front of the rest.       *)
(***************************************************************************)
EXTENDS UnitMessage, FiniteSets

CONSTANTS Units,    \* the units that have a file
          None,     \* no unit, no state, no request
          Setups,   \* instances, and what may happen to them
          MaxFds,   \* the descriptors that a process may have open for clients
          Slots     \* MAX_CLIENT_SUPPORTED: the descriptors that are monitored

Levels    == {"multi-user", "graphical"}
UnitStates == Levels \cup {"reboot", "poweroff"}

(* A version of a unit file. *)
ConfType == [kind : {"daemon", "oneshot"}, restart : BOOLEAN, wanted : SUBSET UnitStates,
             requires : SUBSET Units, conflicts : SUBSET Units, bad : BOOLEAN]

PStates == {"dead", "exited", "killed", "running", "restarting"}

(* A unit in the array. *)
Memory == [state : PStates, final : {"ready", "success", "failure"}, enabled : BOOLEAN,
           changed : BOOLEAN, conf : Nat, errors : BOOLEAN, listening : BOOLEAN,
           stopping : BOOLEAN, freed : BOOLEAN]

Shutdowns == {"reboot", "poweroff"}

(* The versions that the file of each unit goes through; the state on the  *)
(* kernel's command line; the default state and the links at first; the    *)
(* requests that clients make; the units that may die or fail to start;    *)
(* the bound on scripts and stop commands that cannot be executed; and     *)
(* whether the power may be lost.                                          *)
ASSUME ServerAssumption ==
  /\ IsFiniteSet(Units) /\ None \notin Memory \cup UnitStates
  /\ MaxFds \in Nat \ {0} /\ Slots \in Nat \ {0, 1}
  /\ \A s \in Setups :
       /\ s.conf \in [Units -> Seq(ConfType) \ {<<>>}]
       /\ \A u \in Units : \A i \in DOMAIN s.conf[u] : u \notin s.conf[u][i].conflicts
       /\ s.cmdline \in Levels \cup {None} /\ s.default \in Levels
       /\ s.links \subseteq Units \X UnitStates
       /\ s.flaky \subseteq Units /\ s.fails \in Nat /\ s.power \in BOOLEAN

(* A request that unitctl may send: it names a unit that has a file, a     *)
(* state, or nothing, and has any of the options.                          *)
Options == {"force", "restart", "run", "requires", "conflicts", "states", "no-wtmp", "analyze",
            "re-enable", "reset"}

IsRequest(r) ==
  /\ r = [command |-> r.command, arg |-> r.arg, options |-> r.options]
  /\ r.options \in Seq(Options)
  /\ \/ /\ r.command \in {"stop", "start", "disable", "enable", "status"}
        /\ \E u \in Units : r.arg = <<u>>
     \/ r.command = "set-default" /\ \E s \in Levels : r.arg = <<s>>
     \/ r.command \in {"list", "get-default"} \cup Shutdowns /\ r.arg = <<>>

ASSUME RequestAssumption == \A s \in Setups : \A request \in s.requests : IsRequest(request)

(* No two units that name each other as conflicts are linked in the same   *)
(* state when an instance is installed: what enable keeps, and what it is  *)
(* not asked to repair.                                                    *)
LinksExclude ==
  \A s \in Setups : \A u, v \in Units :
    v \in s.conf[u][1].conflicts /\ u \in s.conf[v][1].conflicts =>
      \A t \in UnitStates : <<u, t>> \in s.links => <<v, t>> \notin s.links
-----------------------------------------------------------------------------
VARIABLES
  setup,
  file,        \* file[u]: the version of the file of u on the disk
  links,       \* the links <<u, state>> below UNITS_ENAB_PATH
  dflt,        \* where the link default.state points to, None while there is none
  pending,     \* the units whose changed file the notifier has not seen yet
  mem,         \* mem[u]: the unit in the array UNITD_DATA->units, None when it is not there
  alive,       \* alive[u]: the process of the unit in the array is alive
  orphans,     \* orphans[u]: processes of u that no unit in the array knows (history)
  default,     \* STATE_DEFAULT
  newDefault,  \* STATE_NEW_DEFAULT
  task,        \* the request that is served, or the boot
  open,        \* descriptors of clients: they are never closed
  watched,     \* clients in MONITORED_FD_SET
  up,          \* the instance runs
  shutdown,    \* SHUTDOWN_COMMAND
  failed,      \* scripts and commands that could not be executed (history)
  missed       \* changes of a file between its parsing and arrayAdd (history)

disk   == <<file, links, dflt>>
procs  == <<mem, alive, orphans>>
states == <<default, newDefault>>
loop   == <<open, watched, up, shutdown>>
vars   == <<setup, disk, pending, procs, states, task, loop, failed, missed>>

Idle == [command |-> None, arg |-> None, options |-> <<>>, todo |-> <<>>, error |-> FALSE,
         conf |-> 0]

TypeOK ==
  /\ setup \in Setups
  /\ \A u \in Units : file[u] \in DOMAIN setup.conf[u]
  /\ links \subseteq Units \X UnitStates
  /\ dflt \in Levels \cup {None}
  /\ pending \subseteq Units
  /\ mem \in [Units -> Memory \cup {None}]
  /\ alive \in [Units -> BOOLEAN] /\ orphans \in [Units -> Nat]
  /\ \A u \in Units : alive[u] => mem[u] # None
  /\ default \in Levels /\ newDefault \in Levels \cup {None}
  /\ DOMAIN task = DOMAIN Idle
  /\ open \in 0..MaxFds /\ watched \in 0..(Slots - 1)
  /\ up \in BOOLEAN /\ shutdown \in Shutdowns \cup {None}
  /\ failed \in 0..setup.fails /\ missed \subseteq Units

Conf(u, n) == setup.conf[u][n]
Loaded(u)  == Conf(u, mem[u].conf)
OnDisk(u)  == Conf(u, file[u])
Current    == IF setup.cmdline # None THEN setup.cmdline ELSE default

(* The states that enable and disable look at, in the order of the code.   *)
Considered == <<"reboot", "poweroff", Current>>

(* isEnabledUnit with NO_STATE *)
IsEnabled(u) == \E s \in Range(Considered) : <<u, s>> \in links

NewUnit(u, n, enabled, errors) ==
  [state |-> "dead", final |-> "ready", enabled |-> enabled, changed |-> FALSE, conf |-> n,
   errors |-> errors, listening |-> Conf(u, n).restart, stopping |-> FALSE, freed |-> FALSE]

Init ==
  /\ setup \in Setups
  /\ file = [u \in Units |-> 1] /\ links = setup.links /\ dflt = setup.default
  /\ pending = {}
  /\ mem = [u \in Units |-> None]
  /\ alive = [u \in Units |-> FALSE] /\ orphans = [u \in Units |-> 0]
  /\ default = setup.default /\ newDefault = None
  /\ task = Idle
  /\ open = 0 /\ watched = 0 /\ up = FALSE /\ shutdown = None
  /\ failed = 0 /\ missed = {}

(* The step that the main thread is at, what it goes on with, and its end  *)
(* with an error for the client.                                           *)
At(op)    == task.todo # <<>> /\ Head(task.todo).op = op
Step      == Head(task.todo)
Do(steps) == task' = [task EXCEPT !.todo = steps \o Tail(@)]
Refuse    == task' = [task EXCEPT !.todo = Tail(@), !.error = TRUE]
Opt(name) == name \in Range(task.options)

S(op, u)       == [op |-> op, unit |-> u]
Stop(u, told)  == [op |-> "stop", unit |-> u, told |-> told]
Start(u, told) == [op |-> "start", unit |-> u, told |-> told]

(* arrayRemove: a process that is still alive is known to nobody then.     *)
Forget(u) ==
  /\ mem' = [mem EXCEPT ![u] = None]
  /\ alive' = [alive EXCEPT ![u] = FALSE]
  /\ orphans' = [orphans EXCEPT ![u] = IF alive[u] THEN @ + 1 ELSE @]

Fails == failed < setup.fails /\ failed' = failed + 1

(* A restart by the listener is under way; closePipes waits for its end.   *)
MidRestart(u) == mem[u] # None /\ mem[u].state = "restarting" /\ mem[u].final = "ready"
-----------------------------------------------------------------------------
(* stopUnitServer. *)

Runs(u) == Loaded(u).kind = "daemon" /\ mem[u].state = "running"

(* A unit which is not in the array, or is dead there, is not stopped; a   *)
(* dead one with errors or a changed file is released.                     *)
StopDead ==
  /\ At("stop")
  /\ LET u == Step.unit
         Already == IF Step.told THEN Refuse ELSE Do(<<>>) IN
     \/ /\ mem[u] = None
        /\ Already /\ UNCHANGED procs
     \/ /\ mem[u] # None /\ mem[u].state = "dead" /\ (mem[u].changed \/ mem[u].errors)
        /\ Forget(u) /\ Do(<<>>)
     \/ /\ mem[u] # None /\ mem[u].state = "dead" /\ ~mem[u].changed /\ ~mem[u].errors
        /\ mem' = [mem EXCEPT ![u].listening = FALSE]
        /\ Already /\ UNCHANGED <<alive, orphans>>
  /\ UNCHANGED <<setup, disk, pending, states, loop, failed, missed>>

StopUnit ==
  /\ At("stop")
  /\ LET u == Step.unit IN
     /\ mem[u] # None /\ mem[u].state # "dead" /\ ~MidRestart(u)
     /\ mem' = [mem EXCEPT ![u].listening = FALSE, ![u].stopping = @ \/ Runs(u)]
     /\ Do((IF Runs(u) THEN <<S("kill", u)>> ELSE <<>>) \o <<S("clear", u)>>)
  /\ UNCHANGED <<setup, disk, pending, alive, orphans, states, loop, failed, missed>>

(* stopProcess and stopDaemon; the daemon stays when its stop command      *)
(* cannot be executed.                                                     *)
Kill ==
  /\ At("kill")
  /\ LET u == Step.unit IN
     \/ /\ mem' = [mem EXCEPT ![u].state = "dead", ![u].final = "success"]
        /\ alive' = [alive EXCEPT ![u] = FALSE]
        /\ UNCHANGED failed
     \/ /\ alive[u] /\ Fails
        /\ mem' = [mem EXCEPT ![u].final = "failure"]
        /\ UNCHANGED alive
  /\ Do(<<>>)
  /\ UNCHANGED <<setup, disk, pending, orphans, states, loop, missed>>

(* After a stop the unit is released, or it stays as a dead one.           *)
Clear ==
  /\ At("clear")
  /\ LET u == Step.unit IN
     IF \/ mem[u].changed \/ mem[u].errors \/ Loaded(u).kind = "oneshot"
        \/ mem[u].state \in {"exited", "killed"}
     THEN Forget(u) ELSE UNCHANGED procs
  /\ Do(<<>>)
  /\ UNCHANGED <<setup, disk, pending, states, loop, failed, missed>>

(* The conflicts of a forced start or enabling are stopped together.       *)
StopAll ==
  /\ At("stopAll")
  /\ LET us == SetToSeq(Step.units)
         running == SetToSeq({u \in Step.units : Runs(u)}) IN
     /\ \A u \in Step.units : ~MidRestart(u)
     /\ mem' = [u \in Units |-> IF u \in Step.units THEN [mem[u] EXCEPT !.listening = FALSE]
                                                    ELSE mem[u]]
     /\ Do([i \in DOMAIN running |-> S("kill", running[i])]
           \o [i \in DOMAIN us |-> S("clear", us[i])])
  /\ UNCHANGED <<setup, disk, pending, alive, orphans, states, loop, failed, missed>>
-----------------------------------------------------------------------------
(* startUnitServer and startProcess. *)

(* Seeded bug: a restart does not stop a unit without errors. *)
BugMustStop(u) == mem[u].errors

MustStop(u) == mem[u].state # "dead" \/ mem[u].errors

StartUnit ==
  /\ At("start")
  /\ LET u == Step.unit
         load == [op |-> "load", unit |-> u, told |-> Step.told] IN
     IF mem[u] # None /\ ~Opt("restart") /\ mem[u].state # "dead" THEN Refuse
     ELSE IF mem[u] # None /\ MustStop(u) THEN Do(<<Stop(u, FALSE), load>>)
     ELSE Do(<<load>>)
  /\ UNCHANGED <<setup, disk, pending, procs, states, loop, failed, missed>>

(* Seeded bug: a unit that runs well is no conflict. *)
BugActive(m) == m.state = "dead" /\ m.final # "success"

(* What a unit must not be in conflict with. *)
Active(m) == m.state # "dead" \/ m.final # "success"

(* The unit is always removed and its file is parsed anew; it must be      *)
(* wanted by the current state, the dependencies must be up, and a conflict*)
(* needs the option force.                                                 *)
Load ==
  /\ At("load")
  /\ LET u == Step.unit
         c == OnDisk(u)
         Lacking(d) == mem[d] = None \/ d = u \/ mem[d].state = "dead"
                       \/ mem[d].final # "success" \/ mem[d].errors
         rivals == {v \in c.conflicts : mem[v] # None /\ Active(mem[v])}
         refused == \/ c.bad \/ Current \notin c.wanted
                    \/ \E d \in c.requires : Lacking(d)
                    \/ rivals # {} /\ ~Opt("force")
         enabled == IF Step.told THEN IsEnabled(u) ELSE TRUE IN
     /\ mem' = [v \in Units |-> IF v = u THEN None
                                ELSE IF v \in rivals /\ ~refused
                                THEN [mem[v] EXCEPT !.stopping = TRUE] ELSE mem[v]]
     /\ alive' = [alive EXCEPT ![u] = FALSE]
     /\ orphans' = [orphans EXCEPT ![u] = IF alive[u] THEN @ + 1 ELSE @]
     /\ missed' = missed \ {u}
     /\ IF refused THEN Refuse
        ELSE Do((IF rivals = {} THEN <<>> ELSE <<[op |-> "stopAll", units |-> rivals]>>)
                \o <<[op |-> "add", unit |-> u, conf |-> file[u], enabled |-> enabled]>>)
  /\ UNCHANGED <<setup, disk, pending, states, loop, failed>>

Add ==
  /\ At("add")
  /\ mem' = [mem EXCEPT ![Step.unit] = NewUnit(Step.unit, Step.conf, Step.enabled, FALSE)]
  /\ Do(<<S("run", Step.unit)>>)
  /\ UNCHANGED <<setup, disk, pending, alive, orphans, states, loop, failed, missed>>

(* What startProcess makes of a unit: it looks again at the conflicts and  *)
(* at the dependencies, and then executes the command.                     *)
Started(u) ==
  LET c == Loaded(u)
      Rival(v) == mem[v] # None /\ Active(mem[v])
      Gone(d) == mem[d] = None \/ mem[d].errors
      Result(state, final, errors) ==
        [mem[u] EXCEPT !.state = state, !.final = final, !.errors = @ \/ errors]
      gone   == {Result(mem[u].state, "failure", TRUE) : d \in {d \in c.requires : Gone(d)}}
      broken == {Result("dead", "failure", TRUE) :
                  d \in {d \in c.requires : ~Gone(d) /\ mem[d].final = "failure"}} IN
  IF mem[u].errors THEN {Result(mem[u].state, "failure", TRUE)}
  ELSE IF \E v \in c.conflicts : Rival(v) THEN {Result(mem[u].state, "failure", TRUE)}
  ELSE IF gone \cup broken # {} THEN gone \cup broken
  ELSE {Result(IF c.kind = "daemon" THEN "running" ELSE "exited", "success", FALSE)}
       \cup (IF u \in setup.flaky THEN {Result("exited", "failure", FALSE)} ELSE {})

(* A dependency that is being restarted is waited for. *)
Launch(u) ==
  /\ \A d \in Loaded(u).requires : ~MidRestart(d)
  /\ \E m \in Started(u) :
       /\ mem' = [mem EXCEPT ![u] = m]
       /\ alive' = [alive EXCEPT ![u] = m.state = "running"]
  /\ UNCHANGED orphans

Run ==
  /\ At("run")
  /\ Launch(Step.unit)
  /\ Do(<<>>)
  /\ UNCHANGED <<setup, disk, pending, states, loop, failed, missed>>
-----------------------------------------------------------------------------
(* disableUnitServer. *)

(* The steps of a disabling: with nested, that of a conflict by an enabling.*)
Disable(u, nested) == [op |-> "disable", unit |-> u, nested |-> nested]

DisableUnit ==
  /\ At("disable")
  /\ LET u == Step.unit IN
     IF IF mem[u] # None THEN ~mem[u].enabled /\ ~Opt("re-enable") ELSE ~IsEnabled(u)
     THEN Refuse
     ELSE Do(<<[op |-> "unlink", unit |-> u, left |-> Considered,
                stop |-> Opt("run") /\ ~Step.nested]>>)
  /\ UNCHANGED <<setup, disk, pending, procs, states, loop, failed, missed>>

(* Seeded bug: the unit in the array is not told. *)
BugMarked(u, enabled) == mem

(* The array when the unit u, if it is there, is marked as (not) enabled.  *)
Marked(u, enabled) ==
  IF mem[u] # None THEN [mem EXCEPT ![u].enabled = enabled] ELSE mem

(* One execution of symlink-handle.sh after the other; the first failure   *)
(* ends the disabling.                                                     *)
Unlink ==
  /\ At("unlink")
  /\ LET u == Step.unit
         rest == [Step EXCEPT !.left = Tail(@)] IN
     \/ /\ Step.left = <<>>
        /\ Do(IF Step.stop THEN <<Stop(u, FALSE)>> ELSE <<>>)
        /\ UNCHANGED <<links, mem, failed>>
     \/ /\ Step.left # <<>> /\ <<u, Head(Step.left)>> \notin links
        /\ Do(<<rest>>)
        /\ UNCHANGED <<links, mem, failed>>
     \/ /\ Step.left # <<>> /\ <<u, Head(Step.left)>> \in links
        /\ links' = links \ {<<u, Head(Step.left)>>}
        /\ mem' = Marked(u, FALSE)
        /\ Do(<<rest>>)
        /\ UNCHANGED failed
     \/ /\ Step.left # <<>> /\ <<u, Head(Step.left)>> \in links
        /\ Fails /\ Refuse
        /\ UNCHANGED <<links, mem>>
  /\ UNCHANGED <<setup, file, dflt, pending, alive, orphans, states, loop, missed>>
-----------------------------------------------------------------------------
(* enableUnitServer. *)

EnableUnit ==
  /\ At("enable")
  /\ LET u == Step.unit IN
     IF mem[u] = None \/ ~Opt("re-enable")
     THEN Do(<<[op |-> "check", unit |-> u, already |-> FALSE]>>)
     ELSE IF mem[u].changed /\ ~Opt("run") THEN Refuse
     ELSE Do(<<Disable(u, FALSE), [op |-> "check", unit |-> u, already |-> TRUE]>>)
  /\ UNCHANGED <<setup, disk, pending, procs, states, loop, failed, missed>>

(* The file is parsed; one that is enabled already is refused, or disabled *)
(* first with the option re-enable.                                        *)
Check ==
  /\ At("check")
  /\ LET u == Step.unit IN
     IF \/ mem[u] # None /\ (mem[u].enabled \/ mem[u].changed)
        \/ OnDisk(u).bad
        \/ mem[u] = None /\ IsEnabled(u) /\ ~Opt("re-enable")
     THEN Refuse
     ELSE task' = [task EXCEPT !.conf = file[u],
                     !.todo = (IF mem[u] = None /\ IsEnabled(u) /\ ~Step.already
                               THEN <<Disable(u, FALSE)>> ELSE <<>>)
                              \o <<S("verify", u)>> \o Tail(@)]
  /\ UNCHANGED <<setup, disk, pending, procs, states, loop, failed, missed>>

(* checkRequires: u would wait for itself, directly, through a dependency  *)
(* in the array, or through two of them.                                   *)
Cyclic(u, c) ==
  \E d \in c.requires :
    \/ d = u
    \/ mem[d] # None /\ \E e \in Loaded(d).requires :
         e = u \/ (mem[e] # None /\ u \in Loaded(e).requires)

(* Seeded bug: conflicts are looked for among the units in the array only. *)
BugIsRival(v) == mem[v] # None /\ mem[v].enabled

(* A conflict that is enabled: one in the array says so itself. *)
IsRival(v) == IF mem[v] # None THEN mem[v].enabled ELSE IsEnabled(v)

(* Seeded bug: only the current state is linked. *)
BugTargets(c) == {s \in c.wanted : s = Current}

(* The wanted states that are linked: the default one even when it is not  *)
(* the current one.                                                        *)
Targets(c) == {s \in c.wanted : s \in {default, setup.cmdline, "reboot", "poweroff"}}

(* A dependency which is not enabled makes the handler release a unit that *)
(* is still in the array.                                                  *)
VerifyRequires ==
  /\ At("verify")
  /\ LET u == Step.unit
         c == Conf(u, task.conf) IN
     /\ c.wanted \cap Range(Considered) # {}
     /\ \E d \in c.requires : ~IsEnabled(d)
     /\ mem' = IF mem[u] # None THEN [mem EXCEPT ![u].freed = TRUE] ELSE mem
  /\ Refuse
  /\ UNCHANGED <<setup, disk, pending, alive, orphans, states, loop, failed, missed>>

(* With force the conflicts are disabled, and stopped with run; whether    *)
(* that has gone well is not asked.                                        *)
Verify ==
  /\ At("verify")
  /\ LET u == Step.unit
         c == Conf(u, task.conf)
         rivals == {v \in c.conflicts : IsRival(v)}
         victims == IF Opt("run") THEN {v \in rivals : mem[v] # None} ELSE {}
         disable == [i \in 1..Cardinality(rivals) |-> Disable(SetToSeq(rivals)[i], TRUE)]
         refused == \/ c.wanted \cap Range(Considered) = {}
                    \/ Cyclic(u, c)
                    \/ rivals # {} /\ ~Opt("force") IN
     /\ c.wanted \cap Range(Considered) = {} \/ \A d \in c.requires : IsEnabled(d)
     /\ mem' = [v \in Units |-> IF v \in victims /\ ~refused
                                THEN [mem[v] EXCEPT !.stopping = TRUE] ELSE mem[v]]
     /\ IF refused THEN Refuse
        ELSE Do(disable
                \o (IF victims = {} THEN <<>> ELSE <<[op |-> "stopAll", units |-> victims]>>)
                \o <<[op |-> "link", unit |-> u, left |-> SetToSeq(Targets(c))]>>)
  /\ UNCHANGED <<setup, disk, pending, alive, orphans, states, loop, failed, missed>>

Link ==
  /\ At("link")
  /\ LET u == Step.unit IN
     \/ /\ Step.left = <<>>
        /\ Do(IF Opt("run") THEN <<Start(u, FALSE)>> ELSE <<>>)
        /\ UNCHANGED <<links, mem, failed>>
     \/ /\ Step.left # <<>>
        /\ links' = links \cup {<<u, Head(Step.left)>>}
        /\ mem' = Marked(u, TRUE)
        /\ Do(<<[Step EXCEPT !.left = Tail(@)]>>)
        /\ UNCHANGED failed
     \/ /\ Step.left # <<>>
        /\ Fails /\ Refuse
        /\ UNCHANGED <<links, mem>>
  /\ UNCHANGED <<setup, file, dflt, pending, alive, orphans, states, loop, missed>>
-----------------------------------------------------------------------------
(* setDefaultStateServer. *)

(* The new default state is remembered, and default.state replaced by      *)
(* unitd.sh in two steps.                                                  *)
SetDefault ==
  /\ At("set-default")
  /\ LET s == Step.unit
         script == <<[op |-> "rm", unit |-> s], [op |-> "ln", unit |-> s]>> IN
     \/ s = default /\ newDefault = None /\ Refuse /\ UNCHANGED newDefault
     \/ s = default /\ newDefault # None /\ Do(script) /\ UNCHANGED newDefault
     \/ s # default /\ newDefault' = s /\ Do(script)
  /\ UNCHANGED <<setup, disk, pending, procs, default, loop, failed, missed>>

DropDefault ==
  /\ At("rm")
  /\ \/ dflt' = None /\ Do(<<>>) /\ UNCHANGED failed
     \/ /\ Fails /\ UNCHANGED dflt
        /\ task' = [task EXCEPT !.todo = <<>>, !.error = TRUE]
  /\ UNCHANGED <<setup, file, links, pending, procs, states, loop, missed>>

(* Seeded bug: the new default state is not forgotten when the old one is  *)
(* restored.                                                               *)
BugRemembered(s) == newDefault

(* STATE_NEW_DEFAULT once default.state points to s. *)
Remembered(s) == IF s = default THEN None ELSE newDefault

LinkDefault ==
  /\ At("ln")
  /\ \/ /\ dflt' = Step.unit
        /\ newDefault' = Remembered(Step.unit)
        /\ Do(<<>>) /\ UNCHANGED failed
     \/ Fails /\ Refuse /\ UNCHANGED <<dflt, newDefault>>
  /\ UNCHANGED <<setup, file, links, pending, procs, default, loop, missed>>
-----------------------------------------------------------------------------
(* getUnitStatusServer, getUnitDataServer, getUnitListServer and           *)
(* getDefaultStateServer change nothing; the first two do not show a unit  *)
(* whose file has changed.                                                 *)
Show ==
  /\ \/ At("status") /\ IF mem[Step.unit] # None /\ mem[Step.unit].changed THEN Refuse ELSE Do(<<>>)
     \/ At("list") /\ Do(<<>>)
     \/ At("get-default") /\ Do(<<>>)
  /\ UNCHANGED <<setup, disk, pending, procs, states, loop, failed, missed>>
-----------------------------------------------------------------------------
(* listenSocketRequest. *)

Waiting == up /\ task = Idle

(* Seeded bug: the set of monitored descriptors has no limit. *)
BugMonitored == watched + 1

(* The monitored clients with one more; one for which there is no slot is  *)
(* never heard of again.  The socket itself has the first slot.            *)
Monitored == IF watched < Slots - 1 THEN watched + 1 ELSE watched

Accept ==
  /\ Waiting /\ shutdown = None /\ open < MaxFds
  /\ open' = open + 1
  /\ watched' = Monitored
  /\ UNCHANGED <<setup, disk, pending, procs, states, task, up, shutdown, failed, missed>>

(* socketDispatchRequest *)
Receive ==
  /\ Waiting /\ watched > 0
  /\ \E request \in setup.requests :
       LET r == UnmarshallRequest(MarshallRequest(request))
           arg == IF r.arg = <<>> THEN None ELSE r.arg[1] IN
       IF r.command \in Shutdowns
       THEN /\ shutdown' = r.command /\ watched' = watched - 1
            /\ UNCHANGED task
       ELSE /\ task' = [Idle EXCEPT !.command = r.command, !.arg = arg,
                          !.options = r.options,
                          !.todo = IF r.command \in {"stop", "start"}
                                   THEN <<[op |-> r.command, unit |-> arg, told |-> TRUE]>>
                                   ELSE IF r.command = "disable" THEN <<Disable(arg, FALSE)>>
                                   ELSE <<S(r.command, arg)>>]
            /\ UNCHANGED <<shutdown, watched>>
  /\ UNCHANGED <<setup, disk, pending, procs, states, open, up, failed, missed>>

(* The response is sent; or the boot is over. *)
Answering == up /\ task.command # None /\ task.todo = <<>>

Answer ==
  /\ Answering
  /\ task' = Idle
  /\ watched' = IF task.command = "boot" THEN watched ELSE watched - 1
  /\ UNCHANGED <<setup, disk, pending, procs, states, open, up, shutdown, failed, missed>>

(* SIGINT and SIGTERM *)
Signal ==
  /\ setup.power /\ up /\ shutdown = None /\ task.command # "boot"
  /\ shutdown' = "reboot"
  /\ UNCHANGED <<setup, disk, pending, procs, states, task, open, watched, up, failed, missed>>
-----------------------------------------------------------------------------
(* The end of an instance, and the next one. *)

Off ==
  /\ up' = FALSE /\ shutdown' = None /\ open' = 0 /\ watched' = 0
  /\ mem' = [u \in Units |-> None]
  /\ alive' = [u \in Units |-> FALSE] /\ orphans' = [u \in Units |-> 0]
  /\ task' = Idle /\ pending' = {} /\ missed' = {} /\ newDefault' = None
  /\ UNCHANGED <<setup, disk, default, failed>>

GoDown == Waiting /\ shutdown # None /\ Off

(* Without a descriptor for a client, accept ends the main loop and the    *)
(* instance goes down without a command.                                   *)
AcceptFails == Waiting /\ shutdown = None /\ open = MaxFds /\ Off

(* What is done with a released unit is undefined. *)
Crash == up /\ (\E u \in Units : mem[u] # None /\ mem[u].freed) /\ Off

PowerLoss == setup.power /\ up /\ Off

(* unitdInit: the units that are linked in the current state are loaded as *)
(* enabled ones, whatever their files say, and then started, each after    *)
(* its dependencies.  The other units of the system, without which it does *)
(* not boot, are left out.                                                 *)
Boot ==
  /\ ~up /\ dflt # None
  /\ LET state == IF setup.cmdline # None THEN setup.cmdline ELSE dflt
         loaded == {u \in Units : <<u, state>> \in links}
         Wrong(u) == OnDisk(u).bad \/ state \notin OnDisk(u).wanted IN
     /\ default' = dflt
     /\ mem' = [u \in Units |-> IF u \in loaded THEN NewUnit(u, file[u], TRUE, Wrong(u))
                                               ELSE None]
     /\ \E order \in SetToSeqs(loaded) :
          /\ \A i, j \in DOMAIN order : order[j] \in OnDisk(order[i]).requires => j < i
          /\ task' = [Idle EXCEPT !.command = "boot",
                                  !.todo = [i \in DOMAIN order |-> S("run", order[i])]]
  /\ up' = TRUE
  /\ UNCHANGED <<setup, disk, pending, alive, orphans, newDefault, open, watched, shutdown,
                 failed, missed>>

(* Without default.state there is an emergency shell only. *)
Repair ==
  /\ ~up /\ dflt = None
  /\ dflt' \in Levels
  /\ UNCHANGED <<setup, file, links, pending, procs, states, task, loop, failed, missed>>
-----------------------------------------------------------------------------
(* What happens meanwhile. *)

(* A daemon dies; the handler finds its unit unless that is being stopped  *)
(* or the system is going down.                                            *)
Die(u) ==
  /\ u \in setup.flaky /\ alive[u]
  /\ alive' = [alive EXCEPT ![u] = FALSE]
  /\ mem' = IF shutdown = None /\ ~mem[u].stopping
            THEN [mem EXCEPT ![u].state = "killed", ![u].final = "failure"] ELSE mem
  /\ UNCHANGED <<setup, disk, pending, orphans, states, task, loop, failed, missed>>

(* The listener restarts it, when the system is up. *)
Reset(u) ==
  /\ up /\ shutdown = None /\ task.command # "boot"
  /\ mem[u] # None /\ mem[u].listening /\ mem[u].state \in {"exited", "killed"}
  /\ mem[u].final = "failure"
  /\ mem' = [mem EXCEPT ![u].state = "restarting", ![u].final = "ready"]
  /\ UNCHANGED <<setup, disk, pending, alive, orphans, states, task, loop, failed, missed>>

Restart(u) ==
  /\ MidRestart(u)
  /\ Launch(u)
  /\ UNCHANGED <<setup, disk, pending, states, task, loop, failed, missed>>

Edit(u) ==
  /\ up /\ file[u] < Len(setup.conf[u])
  /\ file' = [file EXCEPT ![u] = @ + 1]
  /\ pending' = pending \cup {u}
  /\ UNCHANGED <<setup, links, dflt, procs, states, task, loop, failed, missed>>

(* Seeded bug: only a unit that runs is marked. *)
BugMarks(u) == mem[u] # None /\ mem[u].state = "running"

Marks(u) == mem[u] # None

(* checkUnitChanging: between the parsing of its file and arrayAdd the     *)
(* notifier does not find the unit.                                        *)
Notify(u) ==
  /\ u \in pending
  /\ pending' = pending \ {u}
  /\ mem' = IF Marks(u) THEN [mem EXCEPT ![u].changed = TRUE] ELSE mem
  /\ missed' = IF \E i \in DOMAIN task.todo : task.todo[i].op = "add" /\ task.todo[i].unit = u
               THEN missed \cup {u} ELSE missed
  /\ UNCHANGED <<setup, disk, alive, orphans, states, task, loop, failed>>
-----------------------------------------------------------------------------
Handler ==
  \/ StopDead \/ StopUnit \/ Kill \/ Clear \/ StopAll \/ StartUnit \/ Load \/ Add \/ Run
  \/ DisableUnit \/ Unlink \/ EnableUnit \/ Check \/ VerifyRequires \/ Verify \/ Link
  \/ SetDefault \/ DropDefault \/ LinkDefault \/ Show \/ Answer

Next ==
  \/ Handler \/ Accept \/ Receive \/ Signal \/ GoDown \/ AcceptFails \/ Crash \/ PowerLoss
  \/ Boot \/ Repair
  \/ \E u \in Units : Die(u) \/ Reset(u) \/ Restart(u) \/ Edit(u) \/ Notify(u)

Spec == Init /\ [][Next]_vars
-----------------------------------------------------------------------------
(* Properties. *)

Quiet == Waiting /\ failed = 0

(* A process that unitd has started is known to it: a unit is only removed *)
(* from the array, by a stop, a restart or a forced start of another one,  *)
(* when its process has ended, as long as stop commands can be executed.   *)
ProcessesAreKnown == \A u \in Units : orphans[u] > 0 => failed > 0

(* Two units in the array that name each other as conflicts never run both,*)
(* whoever starts them: a request, an enabling with run, the boot or the   *)
(* listener of one that has died.                                          *)
ConflictsExclude ==
  \A u, v \in Units :
    /\ alive[u] /\ alive[v]
    /\ v \in Loaded(u).conflicts
    => u \notin Loaded(v).conflicts

(* What the array says of the enabling of a unit is what the links say,    *)
(* when no request is served and no script has failed.                     *)
EnabledIsLinked ==
  Quiet => \A u \in Units : mem[u] # None => (mem[u].enabled <=> IsEnabled(u))

(* Two units that name each other as conflicts are never both linked in a  *)
(* state that enable looks at, as long as their files stay the same.       *)
EnabledExclude ==
  (Quiet /\ \A u \in Units : Len(setup.conf[u]) = 1) =>
    \A u, v \in Units : \A s \in Range(Considered) :
      /\ v \in OnDisk(u).conflicts /\ u \in OnDisk(v).conflicts
      /\ <<u, s>> \in links
      => <<v, s>> \notin links

(* What get-default tells of the next boot is where default.state points.  *)
DefaultIsTold == Quiet => dflt = IF newDefault # None THEN newDefault ELSE default

(* An answer without an error is true when it is sent: an enabled unit has *)
(* the links its file asks for, a disabled one has none, the new default   *)
(* state is on the disk, a stopped unit has no process and a started one   *)
(* is in the array.                                                        *)
AnswerIsTrue ==
  (Answering /\ ~task.error) =>
    LET u == task.arg IN
    /\ task.command = "enable" =>
         \A s \in Conf(u, task.conf).wanted \cap Range(Considered) : <<u, s>> \in links
    /\ task.command = "disable" => ~IsEnabled(u)
    /\ task.command = "set-default" => dflt = u
    /\ task.command = "start" => mem[u] # None
    /\ (task.command = "stop" \/ (task.command = "disable" /\ Opt("run"))) =>
         ~alive[u] \/ failed > 0

(* applyListFilter; a unit that is not in the array is shown dead.         *)
ListsAs(u, pstates, finals) ==
  IF mem[u] = None THEN "dead" \in pstates /\ "ready" \in finals
                   ELSE mem[u].state \in pstates /\ mem[u].final \in finals
InStarted(u) == ListsAs(u, {"running", "exited"}, {"success"})
InFailed(u)  == ListsAs(u, PStates, {"failure"})

(* Seeded bug: the final status of a dead unit does not matter. *)
BugInDead(u) == ListsAs(u, {"dead"}, {"ready", "success", "failure"})

InDead(u)    == ListsAs(u, {"dead"}, {"ready", "success"})

(* Every unit is in exactly one of the lists of started, dead and failed   *)
(* units, except one that is just being restarted, which is in none.       *)
ListsCover ==
  Waiting => \A u \in Units :
    LET lists == {f \in {"started", "dead", "failed"} :
                    CASE f = "started" -> InStarted(u)
                      [] f = "dead"    -> InDead(u)
                      [] f = "failed"  -> InFailed(u)} IN
    Cardinality(lists) = IF MidRestart(u) THEN 0 ELSE 1

(* A unit in the array that does not have the current version of its file  *)
(* is marked as changed once the notifier has seen the change, unless that *)
(* was between the parsing and the adding of the unit.                     *)
StaleIsMarked ==
  \A u \in Units \ (pending \cup missed) :
    mem[u] # None /\ mem[u].conf # file[u] => mem[u].changed

(* What a client reads of a unit is what the server has written of it: the *)
(* numbers of the unit and of its history, "not set" included; the list    *)
(* leaves out the details.                                                 *)
PStateNumber == [dead |-> 0, exited |-> 1, killed |-> 2, running |-> 3, restarting |-> 4]
FinalNumber  == [ready |-> -1, success |-> 0, failure |-> 1]

(* What processes may have left in a unit: nothing; a first one that runs; *)
(* and the last one of three.                                              *)
New    == [pid |-> -1, num |-> 0, max |-> -1, exit |-> -1, signal |-> -1, timer |-> <<>>,
           errors |-> <<>>, history |-> <<>>]
First  == [New EXCEPT !.pid = 7, !.timer = <<<<8, 3>>>>]
Third  == [New EXCEPT !.num = 2, !.max = 3, !.exit = 0, !.signal = 15, !.errors = <<5, 6>>,
             !.history = <<[NewPast EXCEPT !.pid = 4, !.exit = 1, !.state = 1, !.final = 1],
                           [NewPast EXCEPT !.pid = 5, !.signal = 15, !.state = 2, !.final = 1]>>]

View(u, f) ==
  [name |-> 9, enabled |-> mem[u].enabled, pid |-> f.pid, state |-> PStateNumber[mem[u].state],
   final |-> FinalNumber[mem[u].final], num |-> f.num,
   restart |-> Loaded(u).restart /\ f.max = -1, max |-> f.max,
   type |-> IF Loaded(u).kind = "daemon" THEN 0 ELSE 1, signal |-> f.signal,
   changed |-> mem[u].changed, timer |-> f.timer, errors |-> f.errors, exit |-> f.exit,
   history |-> f.history]

Shown(v, sort) ==
  LET w == [v EXCEPT !.restart = @ \/ v.max > 0] IN
  IF sort = "unit" THEN w
  ELSE [w EXCEPT !.timer = <<>>, !.max = -1, !.errors = <<>>, !.exit = -1, !.history = <<>>]

ClientSeesUnit ==
  (Answering /\ task.command \in {"status", "list"} /\ ~task.error) =>
    \A u \in Units : \A f \in {New, First, Third} :
      LET sort == IF task.command = "list" THEN "list" ELSE "unit"
          out  == [messages |-> <<1>>, errors |-> <<>>, units |-> <<View(u, f), View(u, f)>>] IN
      mem[u] # None =>
        UnmarshallResponse(MarshallResponse(out, sort))
          = [out EXCEPT !.units = <<Shown(View(u, f), sort), Shown(View(u, f), sort)>>]
=============================================================================
