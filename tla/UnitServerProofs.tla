-------------------------- MODULE UnitServerProofs --------------------------
(***************************************************************************)
(* The safety properties of UnitServer.  Every step does to each unit one  *)
(* of a few things (Moved); from these alone follow the parts of the       *)
(* invariant that are about units.  The parts about the default state and  *)
(* the links are shown step by step.                                       *)
(***************************************************************************)
EXTENDS UnitServerPlans

-----------------------------------------------------------------------------
(* What a step of any sort does to one unit, and what stays true of it.    *)

(* It has been stopped, or the command to stop it could not be executed.   *)
Ended(v) ==
  /\ Alike(v) /\ alive'[v] = FALSE
  /\ mem'[v].state = "dead" /\ mem'[v].final = "success"

NotEnded(v) ==
  /\ Alike(v) /\ alive[v] /\ alive'[v] = alive[v] /\ failed' > 0
  /\ mem'[v].state = mem[v].state /\ mem'[v].final = "failure"

(* It has been loaded, by a start or by the boot.                          *)
Added(v) ==
  /\ mem[v] = None /\ mem'[v] # None /\ alive'[v] = FALSE /\ orphans'[v] = orphans[v]
  /\ mem'[v].state = "dead" /\ mem'[v].final = "ready"
  /\ mem'[v].conf \in DOMAIN setup.conf[v]
  /\ v \in pending \cup missed \/ mem'[v].conf = file[v]

(* It has been executed, and nothing else has happened.                    *)
Begun(v) ==
  /\ Executed(v) /\ mem[v].state \in {"dead", "restarting"}
  /\ \A w \in Units : w # v => Same(w)

(* It has died, or is to be restarted. *)
Died(v) ==
  /\ Alike(v) /\ alive'[v] = FALSE
  /\ \/ mem'[v].state = mem[v].state /\ mem'[v].final = mem[v].final
     \/ mem'[v].state = "killed" /\ mem'[v].final = "failure"

Renewed(v) ==
  /\ Alike(v) /\ alive'[v] = FALSE
  /\ mem'[v].state = "restarting" /\ mem'[v].final = "ready"

(* The instance has come to an end. *)
Wiped(v) == mem'[v] = None /\ alive'[v] = FALSE /\ orphans'[v] = 0

Moved(v) ==
  \/ Same(v) \/ Flagged(v, TRUE) \/ Flagged(v, FALSE)
  \/ Gone(v) /\ (alive[v] => failed > 0)
  \/ Ended(v) \/ NotEnded(v) \/ Added(v) \/ Begun(v) \/ Died(v) \/ Renewed(v) \/ Wiped(v)

(* A unit that is not marked as changed has not missed a change, or has    *)
(* just been marked.                                                       *)
Noticed(v) ==
  v \notin pending' \cup missed' /\ mem'[v] # None =>
    (v \notin pending \cup missed /\ file'[v] = file[v]) \/ mem'[v].changed

(* What a step does to all units. *)
Effects ==
  /\ ArrayTypes' /\ setup' = setup /\ (failed > 0 => failed' > 0)
  /\ \A v \in Units : Moved(v) /\ Noticed(v)

LEMMA LivingStays ==
  ASSUME Effects, Living
  PROVE  Living'
<1> SUFFICES ASSUME NEW v \in Units, alive'[v]
             PROVE  mem'[v].state = "running" /\ setup'.conf[v][mem'[v].conf].kind = "daemon"
  BY DEF Living, Loaded, Conf
<1>1. Moved(v) /\ mem'[v] # None /\ setup' = setup
  BY DEF Effects, ArrayTypes
<1>2. alive[v] => mem[v].state = "running" /\ setup.conf[v][mem[v].conf].kind = "daemon"
  BY DEF Living, Loaded, Conf
<1>3. CASE Same(v) \/ Flagged(v, TRUE) \/ Flagged(v, FALSE) \/ NotEnded(v)
  BY <1>1, <1>2, <1>3 DEF Same, Flagged, NotEnded, Alike, Conf
<1>4. CASE Gone(v) \/ Ended(v) \/ Added(v) \/ Died(v) \/ Renewed(v) \/ Wiped(v)
  BY <1>4 DEF Gone, Ended, Added, Died, Renewed, Wiped
<1>5. CASE Begun(v)
  BY <1>1, <1>5 DEF Begun, Executed, Alike, Loaded, Conf
<1> QED
  BY <1>1, <1>3, <1>4, <1>5 DEF Moved

LEMMA ShapesStay ==
  ASSUME Effects, Living, Shapes
  PROVE  Shapes'
<1> SUFFICES ASSUME NEW v \in Units, mem'[v] # None
             PROVE  \/ mem'[v].state = "dead"
                    \/ mem'[v].state \in {"running", "exited"} /\ mem'[v].final # "ready"
                    \/ mem'[v].state = "killed" /\ mem'[v].final = "failure"
                    \/ mem'[v].state = "restarting" /\ mem'[v].final # "success"
  BY DEF Shapes
<1>1. Moved(v)
  BY DEF Effects
<1>2. mem[v] # None => \/ mem[v].state = "dead"
                       \/ mem[v].state \in {"running", "exited"} /\ mem[v].final # "ready"
                       \/ mem[v].state = "killed" /\ mem[v].final = "failure"
                       \/ mem[v].state = "restarting" /\ mem[v].final # "success"
  BY DEF Shapes
<1>3. CASE Same(v) \/ Flagged(v, TRUE) \/ Flagged(v, FALSE)
  BY <1>2, <1>3 DEF Same, Flagged
<1>4. CASE Gone(v) \/ Wiped(v) \/ Ended(v) \/ Added(v) \/ Renewed(v)
  BY <1>4 DEF Gone, Ended, Added, Renewed, Wiped
<1>5. CASE NotEnded(v)
  BY <1>5 DEF NotEnded, Alike, Living
<1>6. CASE Died(v)
  BY <1>2, <1>6 DEF Died, Alike
<1>7. CASE Begun(v)
  BY <1>7 DEF Begun, Executed
<1> QED
  BY <1>1, <1>3, <1>4, <1>5, <1>6, <1>7 DEF Moved

LEMMA VersionsStay ==
  ASSUME Effects, Versions
  PROVE  Versions'
<1> SUFFICES ASSUME NEW v \in Units, mem'[v] # None PROVE mem'[v].conf \in DOMAIN setup'.conf[v]
  BY DEF Versions
<1>1. Moved(v) /\ setup' = setup
  BY DEF Effects
<1>2. mem[v] # None => mem[v].conf \in DOMAIN setup.conf[v]
  BY DEF Versions
<1>3. CASE Added(v)
  BY <1>1, <1>3 DEF Added
<1>4. CASE Same(v) \/ Flagged(v, TRUE) \/ Flagged(v, FALSE)
  BY <1>1, <1>2, <1>4 DEF Same, Flagged
<1>5. CASE NotEnded(v) \/ Ended(v) \/ Renewed(v) \/ Died(v) \/ Begun(v)
  <2>1. Alike(v)
    BY <1>5 DEF NotEnded, Ended, Renewed, Died, Begun, Executed
  <2> QED
    BY <1>1, <1>2, <2>1 DEF Alike
<1>6. CASE Gone(v) \/ Wiped(v)
  BY <1>6 DEF Gone, Wiped
<1> QED
  BY <1>1, <1>3, <1>4, <1>5, <1>6 DEF Moved

LEMMA ProcessesStayKnown ==
  ASSUME ArrayTypes, Effects, ProcessesAreKnown
  PROVE  ProcessesAreKnown'
<1> SUFFICES ASSUME NEW v \in Units, orphans'[v] > 0 PROVE failed' > 0
  BY DEF ProcessesAreKnown
<1>1. Moved(v) /\ (failed > 0 => failed' > 0)
  BY DEF Effects
<1>2. orphans[v] > 0 => failed > 0
  BY DEF ProcessesAreKnown
<1>3. CASE Gone(v) /\ (alive[v] => failed > 0)
  BY <1>1, <1>2, <1>3 DEF Gone, ArrayTypes
<1>4. CASE Same(v) \/ Flagged(v, TRUE) \/ Flagged(v, FALSE) \/ Added(v)
  BY <1>1, <1>2, <1>4 DEF Same, Flagged, Added
<1>5. CASE NotEnded(v) \/ Ended(v) \/ Renewed(v) \/ Died(v) \/ Begun(v)
  <2>1. Alike(v)
    BY <1>5 DEF NotEnded, Ended, Renewed, Died, Begun, Executed
  <2> QED
    BY <1>1, <1>2, <2>1 DEF Alike
<1>6. CASE Wiped(v)
  BY <1>6 DEF Wiped
<1> QED
  BY <1>1, <1>3, <1>4, <1>5, <1>6 DEF Moved

LEMMA StaleStaysMarked ==
  ASSUME Effects, StaleIsMarked
  PROVE  StaleIsMarked'
<1> SUFFICES ASSUME NEW v \in Units, v \notin pending' \cup missed', mem'[v] # None,
                    mem'[v].conf # file'[v], ~mem'[v].changed
             PROVE  FALSE
  BY DEF StaleIsMarked
<1>1. Moved(v) /\ v \notin pending \cup missed /\ file'[v] = file[v]
  BY DEF Effects, Noticed
<1>2. mem[v] # None /\ mem[v].conf # file[v] => mem[v].changed
  BY <1>1 DEF StaleIsMarked
<1>3. CASE Added(v)
  BY <1>1, <1>3 DEF Added
<1>4. CASE Same(v) \/ Flagged(v, TRUE) \/ Flagged(v, FALSE)
  BY <1>1, <1>2, <1>4 DEF Same, Flagged
<1>5. CASE NotEnded(v) \/ Ended(v) \/ Renewed(v) \/ Died(v) \/ Begun(v)
  <2>1. Alike(v)
    BY <1>5 DEF NotEnded, Ended, Renewed, Died, Begun, Executed
  <2> QED
    BY <1>1, <1>2, <2>1 DEF Alike
<1>6. CASE Gone(v) \/ Wiped(v)
  BY <1>6 DEF Gone, Wiped
<1> QED
  BY <1>1, <1>3, <1>4, <1>5, <1>6 DEF Moved

(* A unit that lives after a step has lived before, or has been executed.  *)
LEMMA LivesOn ==
  ASSUME ArrayTypes, Effects, NEW v \in Units, alive'[v]
  PROVE  \/ alive[v] /\ mem[v] # None /\ mem'[v] # None /\ mem'[v].conf = mem[v].conf
         \/ Begun(v)
<1>1. Moved(v) /\ mem'[v] # None
  BY DEF Effects, ArrayTypes
<1>2. CASE Same(v) \/ Flagged(v, TRUE) \/ Flagged(v, FALSE) \/ NotEnded(v)
  BY <1>1, <1>2 DEF Same, Flagged, NotEnded, Alike, ArrayTypes
<1>3. CASE Gone(v) \/ Ended(v) \/ Added(v) \/ Died(v) \/ Renewed(v) \/ Wiped(v)
  BY <1>3 DEF Gone, Ended, Added, Died, Renewed, Wiped
<1> QED
  BY <1>1, <1>2, <1>3 DEF Moved

LEMMA ConflictsStayExcluded ==
  ASSUME DiskTypes, ArrayTypes, Effects, Living, Versions, ConflictsExclude
  PROVE  ConflictsExclude'
<1>1. ASSUME NEW u \in Units, NEW v \in Units, alive'[u], alive'[v],
             v \in Conf(u, mem'[u].conf).conflicts, u \in Conf(v, mem'[v].conf).conflicts
      PROVE  FALSE
  <2>1. ASSUME NEW x \in Units, NEW y \in Units, x # y, Begun(x), alive'[x], alive'[y],
               y \in Conf(x, mem'[x].conf).conflicts
        PROVE  FALSE
    <3>1. alive[y] /\ Alike(x)
      BY <2>1 DEF Begun, Same, Executed
    <3>2. mem[y] # None /\ mem[y].state = "running"
      BY <3>1 DEF ArrayTypes, Living
    <3>3. ~\E w \in Loaded(x).conflicts : mem[w] # None /\ Active(mem[w])
      BY <2>1 DEF Begun, Executed
    <3>4. Loaded(x) = Conf(x, mem'[x].conf)
      BY <3>1 DEF Alike, Loaded
    <3> QED
      BY <2>1, <3>2, <3>3, <3>4 DEF Active
  <2>2. CASE u = v
    <3>1. mem'[u].conf \in DOMAIN setup.conf[u]
      BY <1>1, VersionsStay DEF Versions, Effects, ArrayTypes
    <3> QED
      BY <1>1, <2>2, <3>1, ConfFacts
  <2>3. CASE u # v /\ (Begun(u) \/ Begun(v))
    BY <1>1, <2>1, <2>3
  <2>4. CASE ~Begun(u) /\ ~Begun(v)
    <3>1. /\ alive[u] /\ mem'[u].conf = mem[u].conf
          /\ alive[v] /\ mem'[v].conf = mem[v].conf
      BY <1>1, <2>4, LivesOn
    <3> QED
      BY <1>1, <3>1 DEF ConflictsExclude, Loaded
  <2> QED
    BY <2>2, <2>3, <2>4
<1>2. setup' = setup
  BY DEF Effects
<1> QED
  BY <1>1, <1>2 DEF ConflictsExclude, Loaded, Conf
-----------------------------------------------------------------------------
(* The effects of each step. *)

(* No unit comes into the array, and none is marked as enabled or disabled.*)
Unflagged ==
  \A v \in Units : mem'[v] # None => mem[v] # None /\ mem'[v].enabled = mem[v].enabled

LEMMA Unflagging ==
  ASSUME \A v \in Units : Same(v) \/ Gone(v) \/ Alike(v)
  PROVE  Unflagged
BY DEF Unflagged, Same, Gone, Alike

LEMMA Keeping ==
  ASSUME ArrayTypes', setup' = setup, failed > 0 => failed' > 0,
         UNCHANGED <<file, pending, missed>>, \A v \in Units : Moved(v)
  PROVE  Effects
BY DEF Effects, Noticed

LEMMA NoEffects ==
  ASSUME ArrayTypes, setup' = setup, failed > 0 => failed' > 0,
         UNCHANGED <<file, pending, missed>>, UNCHANGED procs
  PROVE  Effects /\ Unflagged
<1>1. ArrayTypes' /\ \A v \in Units : Same(v)
  BY AllSame
<1>2. \A v \in Units : Moved(v)
  BY <1>1 DEF Moved
<1> QED
  BY <1>1, <1>2, Keeping, Unflagging

LEMMA StopDeadEffects ==
  ASSUME ArrayTypes, LoopTypes, Serving, Living, StopDead
  PROVE  Effects /\ Unflagged
<1>1. /\ ArrayTypes' /\ failed' = failed
      /\ \A v \in Units : Same(v) \/ (Gone(v) /\ mem[v] # None /\ mem[v].state = "dead")
  BY StopDeadDoes
<1>2. UNCHANGED <<setup, file, pending, missed>>
  BY DEF StopDead, disk
<1>3. \A v \in Units : Moved(v)
  BY <1>1 DEF Moved, Living
<1>u. Unflagged
  BY <1>1, Unflagging
<1> QED
  BY <1>u, <1>1, <1>2, <1>3, Keeping

LEMMA StopUnitEffects ==
  ASSUME ArrayTypes, LoopTypes, Serving, StopUnit
  PROVE  Effects /\ Unflagged
<1>1. ArrayTypes' /\ failed' = failed /\ \A v \in Units : Same(v)
  BY StopUnitDoes
<1>2. UNCHANGED <<setup, file, pending, missed>>
  BY DEF StopUnit, disk
<1>3. \A v \in Units : Moved(v)
  BY <1>1 DEF Moved
<1>u. Unflagged
  BY <1>1, Unflagging
<1> QED
  BY <1>u, <1>1, <1>2, <1>3, Keeping

LEMMA KillEffects ==
  ASSUME DiskTypes, ArrayTypes, LoopTypes, Serving, Planning, Kill
  PROVE  Effects /\ Unflagged
<1> DEFINE u == Step.unit
<1>1. At("kill") /\ UNCHANGED <<setup, file, pending, missed>>
  BY DEF Kill, disk
<1>2. task.todo # <<>> /\ Step.op = "kill" /\ u \in Units
  BY <1>1, AtUnit
<1>3. mem[u] # None
  BY <1>2, HeadFollows DEF Ready
<1> HIDE DEF u
<1>4. /\ ArrayTypes' /\ (\A v \in Units : v # u => Same(v)) /\ Alike(u)
      /\ \/ /\ mem'[u].state = "dead" /\ mem'[u].final = "success" /\ alive'[u] = FALSE
            /\ failed' = failed
         \/ /\ alive[u] /\ alive' = alive /\ mem'[u].state = mem[u].state
            /\ mem'[u].final = "failure" /\ Fails
  BY <1>3, KillDoes DEF u
<1>5. Fails => failed' > 0
  BY FailsMore
<1>6. Ended(u) \/ NotEnded(u)
  BY <1>4, <1>5 DEF Ended, NotEnded
<1>7. \A v \in Units : Moved(v)
  BY <1>4, <1>6 DEF Moved
<1>8. failed > 0 => failed' > 0
  BY <1>4, <1>5
<1>u. Unflagged
  BY <1>4, Unflagging
<1> QED
  BY <1>u, <1>1, <1>4, <1>7, <1>8, Keeping

LEMMA ClearEffects ==
  ASSUME ArrayTypes, LoopTypes, Serving, Planning, Clear
  PROVE  Effects /\ Unflagged
<1> DEFINE u == Step.unit
<1>1. At("clear") /\ UNCHANGED <<setup, file, pending, missed>>
  BY DEF Clear, disk
<1>2. task.todo # <<>> /\ Step.op = "clear" /\ u \in Units
  BY <1>1, AtUnit
<1>3. u \in Leaving /\ ToKill = {}
  BY <1>2, HeadFollows, NothingBehind DEF Ready
<1>4. alive[u] => failed > 0
  BY <1>3 DEF Leaving
<1>5. /\ ArrayTypes' /\ failed' = failed
      /\ \A v \in Units : Same(v) \/ (v = u /\ Gone(v))
  BY ClearDoes
<1>6. \A v \in Units : Moved(v)
  BY <1>4, <1>5 DEF Moved
<1>u. Unflagged
  BY <1>5, Unflagging
<1> QED
  BY <1>u, <1>1, <1>5, <1>6, Keeping

LEMMA StopAllEffects ==
  ASSUME ArrayTypes, LoopTypes, Serving, Planning, StopAll
  PROVE  Effects /\ Unflagged
<1>1. At("stopAll") /\ UNCHANGED <<setup, file, pending, missed>>
  BY DEF StopAll, disk
<1>2. task.todo # <<>> /\ Step.op = "stopAll"
  BY <1>1, AtOther
<1>3. \A u \in Step.units : mem[u] # None
  BY <1>2, HeadFollows DEF Ready
<1>4. ArrayTypes' /\ failed' = failed /\ \A v \in Units : Same(v)
  BY <1>3, StopAllDoes
<1>5. \A v \in Units : Moved(v)
  BY <1>4 DEF Moved
<1>u. Unflagged
  BY <1>4, Unflagging
<1> QED
  BY <1>u, <1>1, <1>4, <1>5, Keeping

LEMMA LoadEffects ==
  ASSUME DiskTypes, ArrayTypes, LoopTypes, Serving, Planning, Load
  PROVE  Effects /\ Unflagged
<1> DEFINE u == Step.unit
<1>1. At("load") /\ UNCHANGED <<setup, file, pending>>
  BY DEF Load, disk
<1>2. task.todo # <<>> /\ Step.op = "load" /\ u \in Units
  BY <1>1, AtUnit
<1>3. u \in Leaving /\ ToKill = {}
  BY <1>2, HeadFollows, NothingBehind DEF Ready
<1>4. alive[u] => failed > 0
  BY <1>3 DEF Leaving
<1> HIDE DEF u
<1>5. /\ ArrayTypes' /\ failed' = failed /\ missed' = missed \ {u}
      /\ Gone(u) /\ \A v \in Units : v # u => Same(v)
  BY LoadDoes DEF u
<1>6. \A v \in Units : Moved(v)
  BY <1>4, <1>5 DEF Moved
<1>7. mem'[u] = None
  BY <1>5 DEF Gone
<1>8. \A v \in Units : Noticed(v)
  BY <1>1, <1>5, <1>7 DEF Noticed
<1>u. Unflagged
  BY <1>5, Unflagging
<1> QED
  BY <1>u, <1>1, <1>5, <1>6, <1>8 DEF Effects

LEMMA AddEffects ==
  ASSUME DiskTypes, ArrayTypes, LoopTypes, Serving, Planning, Add
  PROVE  /\ Effects
         /\ \A v \in Units : mem'[v] # None =>
              (mem[v] # None /\ mem'[v].enabled = mem[v].enabled) \/ (mem'[v].enabled <=> IsEnabled(v))
<1> DEFINE u == Step.unit
<1>1. At("add") /\ UNCHANGED <<setup, file, pending, missed>>
  BY DEF Add, disk
<1>2. task.todo # <<>> /\ Step.op = "add" /\ u \in Units
  BY <1>1, AtUnit
<1>3. /\ mem[u] = None /\ Step.conf \in DOMAIN setup.conf[u]
      /\ u \in pending \cup missed \/ Step.conf = file[u]
      /\ Step.enabled <=> IsEnabled(u)
  BY <1>2, HeadFollows DEF Ready
<1> HIDE DEF u
<1>4. /\ ArrayTypes' /\ failed' = failed /\ \A v \in Units : v # u => Same(v)
      /\ mem'[u] # None /\ mem'[u].state = "dead" /\ mem'[u].final = "ready"
      /\ mem'[u].conf = Step.conf /\ mem'[u].enabled = Step.enabled
      /\ alive'[u] = FALSE /\ orphans'[u] = orphans[u]
  BY <1>3, AddDoes DEF u
<1>5. Added(u)
  BY <1>3, <1>4 DEF Added
<1>6. \A v \in Units : Moved(v)
  BY <1>4, <1>5 DEF Moved
<1>7. Effects
  BY <1>1, <1>4, <1>6, Keeping
<1>8. \A v \in Units : v # u /\ mem'[v] # None => mem[v] # None /\ mem'[v].enabled = mem[v].enabled
  BY <1>4 DEF Same
<1> QED
  BY <1>3, <1>4, <1>7, <1>8

LEMMA RunEffects ==
  ASSUME ArrayTypes, LoopTypes, Serving, Planning, Run
  PROVE  Effects /\ Unflagged
<1> DEFINE u == Step.unit
<1>1. At("run") /\ UNCHANGED <<setup, file, pending, missed>>
  BY DEF Run, disk
<1>2. task.todo # <<>> /\ Step.op = "run" /\ u \in Units
  BY <1>1, AtUnit
<1>3. mem[u] # None /\ mem[u].state = "dead"
  BY <1>2, HeadFollows DEF Ready
<1> HIDE DEF u
<1>4. ArrayTypes' /\ failed' = failed /\ Executed(u) /\ \A v \in Units : v # u => Same(v)
  BY <1>3, RunDoes DEF u
<1>5. Begun(u)
  BY <1>3, <1>4 DEF Begun
<1>6. \A v \in Units : Moved(v)
  BY <1>4, <1>5 DEF Moved
<1>u. Unflagged
  BY <1>4, Unflagging DEF Executed
<1> QED
  BY <1>u, <1>1, <1>4, <1>6, Keeping

LEMMA VerifyEffects ==
  ASSUME DiskTypes, ArrayTypes, LoopTypes, Serving, Planning, Verify \/ VerifyRequires
  PROVE  Effects /\ Unflagged
<1> DEFINE u == Step.unit
<1>1. At("verify") /\ UNCHANGED <<setup, file, pending, missed>>
  BY DEF Verify, VerifyRequires, disk
<1>2. task.todo # <<>> /\ Step.op = "verify"
  BY <1>1, AtUnit
<1>3. task.conf \in DOMAIN setup.conf[Step.unit]
  BY <1>2, HeadFollows DEF Ready
<1>4. ArrayTypes' /\ failed' = failed /\ \A v \in Units : Same(v)
  BY <1>3, VerifyDoes, VerifyRequiresDoes
<1>5. \A v \in Units : Moved(v)
  BY <1>4 DEF Moved
<1>u. Unflagged
  BY <1>4, Unflagging
<1> QED
  BY <1>u, <1>1, <1>4, <1>5, Keeping

LEMMA LinkingEffects ==
  ASSUME DiskTypes, ArrayTypes, LoopTypes, Serving, Unlink \/ Link
  PROVE  Effects
<1> DEFINE u == Step.unit
<1>1. UNCHANGED <<setup, file, pending, missed>>
  BY DEF Unlink, Link
<1>2. Fails => failed' > 0
  BY FailsMore
<1>3. CASE Unlink
  <2>1. /\ ArrayTypes' /\ \A v \in Units : v # u => Same(v)
        /\ Same(u) \/ Flagged(u, FALSE)
        /\ failed' = failed \/ Fails
    BY <1>3, UnlinkDoes
  <2>2. \A v \in Units : Moved(v)
    BY <2>1 DEF Moved
  <2> QED
    BY <1>1, <1>2, <2>1, <2>2, Keeping
<1>4. CASE Link
  <2>1. /\ ArrayTypes' /\ \A v \in Units : v # u => Same(v)
        /\ Same(u) \/ Flagged(u, TRUE)
        /\ failed' = failed \/ Fails
    BY <1>4, LinkDoes
  <2>2. \A v \in Units : Moved(v)
    BY <2>1 DEF Moved
  <2> QED
    BY <1>1, <1>2, <2>1, <2>2, Keeping
<1> QED
  BY <1>3, <1>4

(* The steps that leave the units alone. *)
LEMMA QuietEffects ==
  ASSUME DiskTypes, ArrayTypes,
         \/ StartUnit \/ DisableUnit \/ EnableUnit \/ Check \/ Show
         \/ SetDefault \/ DropDefault \/ LinkDefault
         \/ Answer \/ Accept \/ Receive \/ Signal \/ Repair
  PROVE  Effects /\ Unflagged
<1>1. UNCHANGED <<setup, file, pending, missed, procs>>
  BY DEF StartUnit, DisableUnit, EnableUnit, Check, Show, SetDefault, DropDefault, LinkDefault,
         Answer, Accept, Receive, Signal, Repair, disk
<1>2. failed' = failed \/ Fails
  BY DEF StartUnit, DisableUnit, EnableUnit, Check, Show, SetDefault, DropDefault, LinkDefault,
         Answer, Accept, Receive, Signal, Repair
<1>3. failed > 0 => failed' > 0
  BY <1>2, FailsMore
<1> QED
  BY <1>1, <1>3, NoEffects

LEMMA OffEffects ==
  ASSUME Off
  PROVE  Effects
<1>1. /\ UNCHANGED <<setup, failed>> /\ mem' = [u \in Units |-> None]
      /\ alive' = [u \in Units |-> FALSE] /\ orphans' = [u \in Units |-> 0]
  BY DEF Off
<1>2. ArrayTypes' /\ \A v \in Units : Wiped(v) /\ mem'[v] = None
  BY <1>1 DEF ArrayTypes, Wiped
<1> QED
  BY <1>1, <1>2 DEF Effects, Moved, Noticed

LEMMA BootEffects ==
  ASSUME DiskTypes, ArrayTypes, Serving, Boot
  PROVE  Effects
<1>1. /\ ~up /\ UNCHANGED <<setup, disk, pending, alive, orphans, failed, missed>>
      /\ \E loaded \in SUBSET Units, order \in Seq(Units) : BootLeaves(loaded, order)
  BY BootDoes
<1>2. PICK loaded \in SUBSET Units, order \in Seq(Units) : BootLeaves(loaded, order)
  BY <1>1
<1>3. \A v \in Units : mem[v] = None /\ ~alive[v]
  BY <1>1 DEF Serving, ArrayTypes
<1>4. /\ mem' \in [Units -> Memory \cup {None}]
      /\ \A v \in Units : IF v \in loaded
                          THEN /\ mem'[v] \in Memory
                               /\ mem'[v].state = "dead" /\ mem'[v].final = "ready"
                               /\ mem'[v].conf = file[v] /\ mem'[v].enabled
                          ELSE mem'[v] = None
  BY <1>2 DEF BootLeaves
<1>5. ArrayTypes'
  BY <1>1, <1>3, <1>4 DEF ArrayTypes
<1>6. ASSUME NEW v \in Units PROVE Moved(v)
  <2>1. CASE v \in loaded
    <3>1. Added(v)
      BY <1>1, <1>3, <1>4, <2>1, NoneIsNoUnit DEF Added, DiskTypes, ArrayTypes
    <3> QED
      BY <3>1 DEF Moved
  <2>2. CASE v \notin loaded
    <3>1. Same(v)
      BY <1>1, <1>3, <1>4, <2>2 DEF Same
    <3> QED
      BY <3>1 DEF Moved
  <2> QED
    BY <2>1, <2>2
<1>7. UNCHANGED <<file, pending, missed>> /\ setup' = setup /\ failed' = failed
  BY <1>1 DEF disk
<1> QED
  BY <1>5, <1>6, <1>7, Keeping

LEMMA DieEffects ==
  ASSUME DiskTypes, ArrayTypes, LoopTypes, Living, NEW u \in Units, Die(u)
  PROVE  Effects /\ Unflagged
<1>1. /\ UNCHANGED <<setup, disk, pending, failed, missed>>
      /\ ArrayTypes' /\ \A v \in Units : v # u => Same(v)
      /\ Alike(u) /\ alive'[u] = FALSE
      /\ \/ mem'[u].state = mem[u].state /\ mem'[u].final = mem[u].final
         \/ mem'[u].state = "killed" /\ mem'[u].final = "failure"
  BY DieDoes
<1>2. Died(u)
  BY <1>1 DEF Died
<1>3. \A v \in Units : Moved(v)
  BY <1>1, <1>2 DEF Moved
<1>4. UNCHANGED <<file, pending, missed>> /\ setup' = setup /\ failed' = failed
  BY <1>1 DEF disk
<1>u. Unflagged
  BY <1>1, Unflagging
<1> QED
  BY <1>u, <1>1, <1>3, <1>4, Keeping

LEMMA ResetEffects ==
  ASSUME ArrayTypes, Living, NEW u \in Units, Reset(u)
  PROVE  Effects /\ Unflagged
<1>1. /\ UNCHANGED <<setup, disk, pending, failed, missed>>
      /\ ArrayTypes' /\ \A v \in Units : v # u => Same(v)
      /\ Alike(u) /\ mem[u].state \in {"exited", "killed"}
      /\ alive'[u] = alive[u] /\ mem'[u].state = "restarting" /\ mem'[u].final = "ready"
  BY ResetDoes
<1>2. Renewed(u)
  BY <1>1 DEF Renewed, Living, ArrayTypes
<1>3. \A v \in Units : Moved(v)
  BY <1>1, <1>2 DEF Moved
<1>4. UNCHANGED <<file, pending, missed>> /\ setup' = setup /\ failed' = failed
  BY <1>1 DEF disk
<1>u. Unflagged
  BY <1>1, Unflagging
<1> QED
  BY <1>u, <1>1, <1>3, <1>4, Keeping

LEMMA RestartEffects ==
  ASSUME ArrayTypes, NEW u \in Units, Restart(u)
  PROVE  Effects /\ Unflagged
<1>1. /\ UNCHANGED <<setup, disk, pending, failed, missed>> /\ Launch(u)
      /\ mem[u] # None /\ mem[u].state = "restarting"
  BY DEF Restart, MidRestart
<1>2. ArrayTypes' /\ Executed(u) /\ \A v \in Units : v # u => Same(v)
  BY <1>1, LaunchDoes
<1>3. Begun(u)
  BY <1>1, <1>2 DEF Begun
<1>4. \A v \in Units : Moved(v)
  BY <1>2, <1>3 DEF Moved
<1>5. UNCHANGED <<file, pending, missed>> /\ setup' = setup /\ failed' = failed
  BY <1>1 DEF disk
<1>u. Unflagged
  BY <1>2, Unflagging DEF Executed
<1> QED
  BY <1>u, <1>2, <1>4, <1>5, Keeping

LEMMA EditEffects ==
  ASSUME DiskTypes, ArrayTypes, NEW u \in Units, Edit(u)
  PROVE  Effects /\ Unflagged
<1>1. /\ UNCHANGED <<setup, procs, failed, missed>>
      /\ file' = [file EXCEPT ![u] = file[u] + 1] /\ pending' = pending \cup {u}
  BY DEF Edit
<1>2. ArrayTypes' /\ \A v \in Units : Same(v)
  BY <1>1, AllSame
<1>3. \A v \in Units : Noticed(v)
  BY <1>1 DEF Noticed
<1>u. Unflagged
  BY <1>2, Unflagging
<1> QED
  BY <1>u, <1>1, <1>2, <1>3 DEF Effects, Moved

LEMMA NotifyEffects ==
  ASSUME ArrayTypes, NEW u \in Units, Notify(u)
  PROVE  Effects /\ Unflagged
<1>1. /\ UNCHANGED <<setup, disk, failed>>
      /\ ArrayTypes' /\ \A v \in Units : Same(v)
      /\ pending' = pending \ {u}
      /\ mem[u] # None => mem'[u].changed
      /\ missed' = missed \/ missed' = missed \cup {u}
  BY NotifyDoes
<1>2. file' = file
  BY <1>1 DEF disk
<1>3. \A v \in Units : Noticed(v)
  BY <1>1, <1>2 DEF Noticed, Same
<1>u. Unflagged
  BY <1>1, Unflagging
<1> QED
  BY <1>u, <1>1, <1>3 DEF Effects, Moved
-----------------------------------------------------------------------------
(* What a step does to the disk and to the main loop.                      *)

(* The task goes on, or comes to its end. *)
Handled == task.todo # <<>> /\ DOMAIN task' = DOMAIN Idle /\ task'.command = task.command

LEMMA HandledByDo ==
  ASSUME LoopTypes, task.todo # <<>>, NEW t, Do(t)
  PROVE  Handled
BY Doing DEF Handled

LEMMA HandledByRefuse ==
  ASSUME LoopTypes, Serving, task.todo # <<>>, Refuse
  PROVE  Handled
BY Refusing DEF Handled

Working ==
  \/ StopDead \/ StopUnit \/ Kill \/ Clear \/ StopAll \/ StartUnit \/ Load \/ Add \/ Run
  \/ DisableUnit \/ EnableUnit \/ Check \/ VerifyRequires \/ Verify \/ Show

Writing == Unlink \/ Link \/ SetDefault \/ DropDefault \/ LinkDefault

LEMMA WorkingFrame ==
  ASSUME DiskTypes, LoopTypes, Working
  PROVE  /\ UNCHANGED <<setup, disk, pending, states, loop>> /\ missed' \subseteq missed
         /\ failed' \in 0..setup.fails
<1>1. UNCHANGED <<setup, disk, pending, states, loop>>
  BY DEF Working, StopDead, StopUnit, Kill, Clear, StopAll, StartUnit, Load, Add, Run,
         DisableUnit, EnableUnit, Check, VerifyRequires, Verify, Show
<1>2. missed' = missed \/ \E u : missed' = missed \ {u}
  BY DEF Working, StopDead, StopUnit, Kill, Clear, StopAll, StartUnit, Load, Add, Run,
         DisableUnit, EnableUnit, Check, VerifyRequires, Verify, Show
<1>3. failed' = failed \/ Fails
  BY DEF Working, StopDead, StopUnit, Kill, Clear, StopAll, StartUnit, Load, Add, Run,
         DisableUnit, EnableUnit, Check, VerifyRequires, Verify, Show
<1> QED
  BY <1>1, <1>2, <1>3, FailsMore DEF DiskTypes

LEMMA WorkingAt ==
  ASSUME Serving, Working
  PROVE  /\ task.todo # <<>>
         /\ Step.op \in {"stop", "kill", "clear", "stopAll", "start", "load", "add", "run", "disable",
                         "enable", "check", "verify", "status", "list", "get-default"}
<1>1. \E op \in {"stop", "kill", "clear", "stopAll", "start", "load", "add", "run", "disable",
                 "enable", "check", "verify", "status", "list", "get-default"} : At(op)
  BY DEF Working, StopDead, StopUnit, Kill, Clear, StopAll, StartUnit, Load, Add, Run,
         DisableUnit, EnableUnit, Check, VerifyRequires, Verify, Show
<1> QED
  BY <1>1 DEF At, Step

LEMMA WorkingHandles ==
  ASSUME DiskTypes, ArrayTypes, LoopTypes, Serving, Living, Planning, Working
  PROVE  Handled
<1>1. task.todo # <<>>
  BY WorkingAt
<1>2. CASE StopDead \/ Load \/ StartUnit \/ DisableUnit \/ EnableUnit \/ Verify \/ Show
  <2>1. Refuse \/ \E t : Do(t)
    BY <1>2 DEF StopDead, Load, StartUnit, DisableUnit, EnableUnit, Verify, Show
  <2> QED
    BY <1>1, <2>1, HandledByDo, HandledByRefuse
<1>3. CASE StopUnit \/ Kill \/ Clear \/ StopAll \/ Add \/ Run \/ VerifyRequires
  <2>1. Refuse \/ \E t : Do(t)
    BY <1>3 DEF StopUnit, Kill, Clear, StopAll, Add, Run, VerifyRequires
  <2> QED
    BY <1>1, <2>1, HandledByDo, HandledByRefuse
<1>4. CASE Check
  BY <1>1, <1>4, CheckPlans DEF Handled
<1> QED
  BY <1>2, <1>3, <1>4 DEF Working

LEMMA WritingFrame ==
  ASSUME DiskTypes, LoopTypes, Serving, Writing
  PROVE  /\ UNCHANGED <<setup, file, default, pending, loop, missed>>
         /\ task.todo # <<>> /\ Handled /\ failed' \in 0..setup.fails
<1>1. UNCHANGED <<setup, file, default, pending, loop, missed>>
  BY DEF Writing, Unlink, Link, SetDefault, DropDefault, LinkDefault, states, disk
<1>2. failed' = failed \/ Fails
  BY DEF Writing, Unlink, Link, SetDefault, DropDefault, LinkDefault
<1>3. task.todo # <<>>
  BY DEF Writing, Unlink, Link, SetDefault, DropDefault, LinkDefault, At
<1>4. Refuse \/ (\E t : Do(t)) \/ task' = [task EXCEPT !.todo = <<>>, !.error = TRUE]
  <2>1. CASE Unlink
    BY <2>1 DEF Unlink
  <2>2. CASE Link
    BY <2>2 DEF Link
  <2>3. CASE SetDefault \/ DropDefault \/ LinkDefault
    BY <2>3 DEF SetDefault, DropDefault, LinkDefault
  <2> QED
    BY <2>1, <2>2, <2>3 DEF Writing
<1>5. task' = [task EXCEPT !.todo = <<>>, !.error = TRUE] => Handled
  BY <1>3 DEF Handled, LoopTypes, Idle
<1>6. Handled
  BY <1>3, <1>4, <1>5, HandledByDo, HandledByRefuse
<1>7. failed' \in 0..setup.fails
  BY <1>2, FailsMore DEF DiskTypes
<1> QED
  BY <1>1, <1>3, <1>6, <1>7

LEMMA HandlersServe ==
  ASSUME LoopTypes, Serving, Handled, UNCHANGED loop, task'.todo \in Seq(Steps)
  PROVE  LoopTypes' /\ Serving' /\ up' = up /\ up
<1>1. up
  BY DEF Serving, Handled, Idle
<1> QED
  BY <1>1 DEF LoopTypes, Serving, Handled, loop

LEMMA WorkingTypes ==
  ASSUME DiskTypes, LoopTypes, Working
  PROVE  DiskTypes'
BY WorkingFrame DEF DiskTypes, disk, states

LEMMA WritingTypes ==
  ASSUME DiskTypes, ArrayTypes, LoopTypes, Serving, Writing
  PROVE  DiskTypes'
<1>1. /\ UNCHANGED <<setup, file, default, pending, missed>> /\ failed' \in 0..setup.fails
  BY WritingFrame
<1>2. CASE Unlink
  <2>1. links' = links \/ \E x : links' = links \ {x}
    BY <1>2 DEF Unlink
  <2>2. UNCHANGED <<dflt, newDefault>>
    BY <1>2 DEF Unlink, states
  <2> QED
    BY <1>1, <2>1, <2>2 DEF DiskTypes
<1>3. CASE Link
  <2>1. At("link") /\ UNCHANGED <<dflt, newDefault>>
    BY <1>3 DEF Link, states
  <2>2. Step.unit \in Units /\ Step.left \in Seq(UnitStates)
    BY <2>1, AtUnit, StepTypes
  <2>3. Step.left # <<>> => Head(Step.left) \in UnitStates
    BY <2>2, HeadTailProperties
  <2>4. links' = links \/ (Step.left # <<>> /\ links' = links \cup {<<Step.unit, Head(Step.left)>>})
    BY <1>3 DEF Link
  <2>5. links' \subseteq Units \X UnitStates
    BY <2>2, <2>3, <2>4 DEF DiskTypes
  <2> QED
    BY <1>1, <2>1, <2>5 DEF DiskTypes
<1>4. CASE SetDefault
  <2>1. At("set-default") /\ UNCHANGED <<links, dflt>>
    BY <1>4 DEF SetDefault, disk
  <2>2. Step.unit \in Levels
    BY <2>1, AtOther, StepTypes
  <2>3. newDefault' = newDefault \/ newDefault' = Step.unit
    BY <1>4 DEF SetDefault
  <2> QED
    BY <1>1, <2>1, <2>2, <2>3 DEF DiskTypes
<1>5. CASE DropDefault
  <2>1. UNCHANGED <<links, newDefault>> /\ dflt' \in {None, dflt}
    BY <1>5 DEF DropDefault, states
  <2> QED
    BY <1>1, <2>1 DEF DiskTypes
<1>6. CASE LinkDefault
  <2>1. At("ln") /\ links' = links
    BY <1>6 DEF LinkDefault
  <2>2. Step.unit \in Levels
    BY <2>1, AtOther, StepTypes
  <2>3. dflt' \in {Step.unit, dflt} /\ newDefault' \in {None, newDefault}
    BY <1>6 DEF LinkDefault, Remembered
  <2> QED
    BY <1>1, <2>1, <2>2, <2>3 DEF DiskTypes
<1> QED
  BY <1>2, <1>3, <1>4, <1>5, <1>6 DEF Writing

(* What happens to the units and their files while the task stays.         *)
Meanwhile == \E u \in Units : Die(u) \/ Reset(u) \/ Restart(u) \/ Edit(u) \/ Notify(u)

LEMMA MeanwhileFrame ==
  ASSUME DiskTypes, Meanwhile
  PROVE  /\ UNCHANGED <<setup, links, dflt, states, task, loop, failed>>
         /\ DiskTypes'
<1>1. PICK u \in Units : Die(u) \/ Reset(u) \/ Restart(u) \/ Edit(u) \/ Notify(u)
  BY DEF Meanwhile
<1>2. CASE Die(u) \/ Reset(u) \/ Restart(u)
  BY <1>2 DEF Die, Reset, Restart, DiskTypes, disk, states
<1>3. CASE Edit(u)
  <2>1. /\ UNCHANGED <<setup, links, dflt, states, task, loop, failed, missed>>
        /\ file[u] < Len(setup.conf[u]) /\ pending' = pending \cup {u}
        /\ file' = [file EXCEPT ![u] = file[u] + 1]
    BY <1>3 DEF Edit
  <2>2. \A v \in Units : file'[v] = file[v] \/ (v = u /\ file'[v] = file[u] + 1)
    BY <2>1
  <2>3. setup.conf[u] \in Seq(ConfType) /\ file[u] \in Nat /\ file[u] \in DOMAIN setup.conf[u]
    BY ConfFacts DEF DiskTypes
  <2>4. DOMAIN setup.conf[u] = 1..Len(setup.conf[u]) /\ Len(setup.conf[u]) \in Nat
    BY <2>3, LenProperties
  <2>5. file[u] + 1 \in DOMAIN setup.conf[u]
    BY <2>1, <2>3, <2>4
  <2>6. \A v \in Units : file'[v] \in DOMAIN setup'.conf[v]
    BY <2>1, <2>2, <2>5 DEF DiskTypes
  <2> QED
    BY <2>1, <2>6 DEF DiskTypes, states
<1>4. CASE Notify(u)
  <2>1. /\ UNCHANGED <<setup, disk, states, task, loop, failed>> /\ pending' = pending \ {u}
        /\ missed' = missed \/ missed' = missed \cup {u}
    BY <1>4 DEF Notify
  <2> QED
    BY <2>1 DEF DiskTypes, disk, states
<1> QED
  BY <1>1, <1>2, <1>3, <1>4

LEMMA MeanwhileEffects ==
  ASSUME DiskTypes, ArrayTypes, LoopTypes, Living, Meanwhile
  PROVE  Effects /\ Unflagged
<1>1. PICK u \in Units : Die(u) \/ Reset(u) \/ Restart(u) \/ Edit(u) \/ Notify(u)
  BY DEF Meanwhile
<1> QED
  BY <1>1, DieEffects, ResetEffects, RestartEffects, EditEffects, NotifyEffects

LEMMA MeanwhilePlanning ==
  ASSUME DiskTypes, ArrayTypes, LoopTypes, Serving, Living, Planning, Meanwhile
  PROVE  Planning'
<1>1. PICK u \in Units : Die(u) \/ Reset(u) \/ Restart(u) \/ Edit(u) \/ Notify(u)
  BY DEF Meanwhile
<1> QED
  BY <1>1, DiePlans, ResetPlans, RestartPlans, EditPlans, NotifyPlans

(* No unit comes into the array of an instance that does not run.          *)
LEMMA MeanwhileServes ==
  ASSUME DiskTypes, ArrayTypes, LoopTypes, Serving, Living, Meanwhile
  PROVE  LoopTypes' /\ Serving'
<1>1. UNCHANGED <<task, loop>>
  BY MeanwhileFrame
<1>2. LoopTypes'
  BY <1>1 DEF LoopTypes, loop
<1>3. ASSUME ~up PROVE mem' = [v \in Units |-> None]
  <2>1. mem = [v \in Units |-> None] /\ \A v \in Units : mem[v] = None
    BY <1>3 DEF Serving
  <2>2. ArrayTypes'
    BY MeanwhileEffects DEF Effects
  <2>3. PICK u \in Units : Die(u) \/ Reset(u) \/ Restart(u) \/ Edit(u) \/ Notify(u)
    BY DEF Meanwhile
  <2>4. ~Die(u) /\ ~Reset(u) /\ ~Restart(u)
    BY <2>1 DEF ArrayTypes, Die, Reset, Restart, MidRestart
  <2>5. CASE Edit(u)
    BY <2>1, <2>5 DEF Edit, procs
  <2>6. CASE Notify(u)
    BY <2>1, <2>6 DEF Notify, Marks
  <2> QED
    BY <2>3, <2>4, <2>5, <2>6
<1> QED
  BY <1>1, <1>2, <1>3 DEF Serving, loop

(* The clients, the end of an instance and the next one. *)
Ending == GoDown \/ AcceptFails \/ Crash \/ PowerLoss

LEMMA EndingIsOff ==
  ASSUME Ending
  PROVE  Off
BY DEF Ending, GoDown, AcceptFails, Crash, PowerLoss

LEMMA OffTypes ==
  ASSUME DiskTypes, ArrayTypes, LoopTypes, Serving, Off
  PROVE  DiskTypes' /\ LoopTypes' /\ Serving'
<1>1. DiskTypes'
  BY DEF Off, DiskTypes, disk
<1>2. /\ task' = Idle /\ up' = FALSE /\ shutdown' = None /\ open' = 0 /\ watched' = 0
      /\ mem' = [u \in Units |-> None]
  BY DEF Off
<1>3. LoopTypes'
  <2>1. MaxFds \in Nat \ {0} /\ Slots \in Nat \ {0, 1}
    BY ServerAssumption
  <2>2. 0 \in 0..MaxFds /\ 0 \in 0..(Slots - 1)
    BY <2>1
  <2>3. DOMAIN task' = DOMAIN Idle
    BY <1>2 DEF Idle
  <2> QED
    BY <1>2, <2>2, <2>3 DEF LoopTypes
<1>4. Idle.todo \in Seq(Steps) /\ Idle.command = None
  BY EmptySeq DEF Idle
<1> QED
  BY <1>1, <1>2, <1>3, <1>4 DEF Serving

LEMMA ClientTypes ==
  ASSUME DiskTypes, LoopTypes, Serving, Accept \/ Receive \/ Answer \/ Signal \/ Repair \/ Boot,
         task'.todo \in Seq(Steps)
  PROVE  DiskTypes' /\ LoopTypes' /\ Serving'
<1>1. CASE Accept
  <2>1. /\ UNCHANGED <<setup, disk, pending, procs, states, task, up, shutdown, failed, missed>>
        /\ open < MaxFds /\ open' = open + 1 /\ watched' = Monitored
    BY <1>1 DEF Accept
  <2>2. open' \in 0..MaxFds /\ watched' \in 0..(Slots - 1) /\ watched' >= watched
    BY <2>1, ServerAssumption DEF LoopTypes, Monitored
  <2>3. watched > 0 => watched' > 0
    BY <2>2 DEF LoopTypes
  <2> QED
    BY <2>1, <2>2, <2>3 DEF DiskTypes, LoopTypes, Serving, disk, procs, states
<1>2. CASE Receive
  <2>1. /\ UNCHANGED <<setup, disk, pending, procs, states, open, up, failed, missed>>
        /\ up /\ task = Idle /\ watched > 0
        /\ \/ task' = Idle /\ shutdown' \in Shutdowns /\ watched' = watched - 1
           \/ /\ shutdown' = shutdown /\ watched' = watched
              /\ DOMAIN task' = DOMAIN Idle
    BY <1>2, ReceiveDoes
  <2>2. DiskTypes'
    BY <2>1 DEF DiskTypes, disk, states
  <2>3. LoopTypes'
    BY <2>1, ServerAssumption DEF LoopTypes
  <2>4. Idle.command = None
    BY DEF Idle
  <2> QED
    BY <2>1, <2>2, <2>3, <2>4 DEF Serving
<1>3. CASE Answer
  <2>1. /\ UNCHANGED <<setup, disk, pending, procs, states, open, up, shutdown, failed, missed>>
        /\ up /\ task.command # None /\ task' = Idle
        /\ watched' = IF task.command = "boot" THEN watched ELSE watched - 1
    BY <1>3 DEF Answer, Answering
  <2>2. watched' \in 0..(Slots - 1)
    BY <2>1, ServerAssumption DEF Serving, LoopTypes
  <2>3. Idle.command = None
    BY DEF Idle
  <2> QED
    BY <2>1, <2>2, <2>3 DEF DiskTypes, LoopTypes, Serving, disk, procs, states
<1>4. CASE Signal
  <2>1. /\ UNCHANGED <<setup, disk, pending, procs, states, task, open, watched, up, failed, missed>>
        /\ shutdown' = "reboot"
    BY <1>4 DEF Signal
  <2> QED
    BY <2>1 DEF DiskTypes, LoopTypes, Serving, disk, procs, states, Shutdowns
<1>5. CASE Repair
  <2>1. /\ UNCHANGED <<setup, file, links, pending, procs, states, task, loop, failed, missed>>
        /\ dflt' \in Levels
    BY <1>5 DEF Repair
  <2> QED
    BY <2>1 DEF DiskTypes, LoopTypes, Serving, procs, states, loop
<1>6. CASE Boot
  <2>1. /\ up' = TRUE /\ dflt # None /\ default' = dflt
        /\ UNCHANGED <<setup, disk, pending, newDefault, open, watched, shutdown, failed, missed>>
        /\ \E loaded \in SUBSET Units, order \in Seq(Units) : BootLeaves(loaded, order)
    BY <1>6, BootDoes
  <2>2. DOMAIN task' = DOMAIN Idle /\ task'.command = "boot"
    BY <2>1 DEF BootLeaves
  <2> QED
    BY <2>1, <2>2 DEF DiskTypes, LoopTypes, Serving, disk
<1> QED
  BY <1>1, <1>2, <1>3, <1>4, <1>5, <1>6
-----------------------------------------------------------------------------
(* What is told of the default state. *)
(* A step that was behind the one that has been done. *)
Behind(y) ==
  \E j \in DOMAIN task.todo : j > 1 /\ y = task.todo[j] /\ Follows(task.todo[1], y)

LEMMA RestOfTask ==
  ASSUME Serving, Planning, task.todo # <<>>, NEW t \in Seq(Steps),
         task'.todo = t \o Tail(task.todo)
  PROVE  \A k \in DOMAIN task'.todo : \/ k \in DOMAIN t /\ task'.todo[k] = t[k]
                                      \/ Behind(task'.todo[k])
<1>1. task.todo \in Seq(Steps)
  BY DEF Serving
<1> SUFFICES ASSUME NEW k \in DOMAIN task'.todo
             PROVE  (k \in DOMAIN t /\ task'.todo[k] = t[k]) \/ Behind(task'.todo[k])
  OBVIOUS
<1>2. \/ k \in DOMAIN t /\ task'.todo[k] = t[k]
      \/ /\ k > Len(t) /\ k - Len(t) + 1 \in DOMAIN task.todo
         /\ k - Len(t) + 1 > 1 /\ task'.todo[k] = task.todo[k - Len(t) + 1]
  BY <1>1, Replaced
<1>3. \A j \in DOMAIN task.todo : j > 1 => Follows(task.todo[1], task.todo[j])
  BY HeadFollows
<1> QED
  BY <1>2, <1>3 DEF Behind

LEMMA BehindIs ==
  ASSUME Serving, Planning, task.todo # <<>>, NEW y, Behind(y)
  PROVE  y.op \notin {"unlink", "rm"} /\ (Step.op # "rm" => y.op # "ln")
<1>1. Follows(Step, y)
  BY HeadFollows DEF Behind
<1> QED
  BY <1>1 DEF Follows

(* No step that the handlers of units and links leave replaces default.state. *)
LEMMA NoReplacement ==
  ASSUME Serving, Planning, task.todo # <<>>, NEW t \in Seq(Steps),
         task'.todo = t \o Tail(task.todo), Step.op # "rm",
         \A k \in DOMAIN t : t[k].op \notin {"rm", "ln"}
  PROVE  ~HeadOp({"rm", "ln"})' /\ ~HeadOp({"rm"})'
<1>1. \A k \in DOMAIN task'.todo : (k \in DOMAIN t /\ task'.todo[k] = t[k]) \/ Behind(task'.todo[k])
  BY RestOfTask
<1>2. ASSUME NEW k \in DOMAIN task'.todo PROVE task'.todo[k].op \notin {"rm", "ln"}
  <2> DEFINE y == task'.todo[k]
  <2>1. (k \in DOMAIN t /\ y = t[k]) \/ Behind(y)
    BY <1>1, <1>2
  <2> HIDE DEF y
  <2>2. y.op \notin {"rm", "ln"}
    BY <2>1, BehindIs
  <2> QED
    BY <2>2 DEF y
<1> QED
  BY <1>2 DEF HeadOp

LEMMA TellingStays ==
  ASSUME Telling, UNCHANGED <<dflt, states, up>>, failed > 0 => failed' > 0,
         failed \in Nat, failed' \in Nat,
         ~HeadOp({"rm", "ln"}), ~HeadOp({"rm"})'
  PROVE  Telling'
BY DEF Telling, states, HeadOp

LEMMA PlainIs ==
  ASSUME Plain
  PROVE  /\ ~HeadOp({"rm", "ln"})' /\ ~HeadOp({"rm"})' /\ ~HeadOp({"unlink"})'
         /\ \A k \in DOMAIN task'.todo : task'.todo[k].op = "link" =>
              \E j \in DOMAIN task.todo : j > 1 /\ task'.todo[k] = task.todo[j]
BY DEF Plain, Special, HeadOp

(* When one step, or none, has been put in front of the rest.              *)
LEMMA OneLeft ==
  ASSUME Serving, Planning, task.todo # <<>>, NEW x \in Steps,
         task'.todo = <<x>> \o Tail(task.todo)
  PROVE  /\ 1 \in DOMAIN task'.todo /\ task'.todo[1] = x
         /\ \A k \in DOMAIN task'.todo : (k = 1 /\ task'.todo[k] = x) \/ Behind(task'.todo[k])
<1> DEFINE t == <<x>>
<1>1. t \in Seq(Steps) /\ DOMAIN t = {1} /\ t[1] = x
  OBVIOUS
<1>2. task'.todo = t \o Tail(task.todo)
  OBVIOUS
<1> HIDE DEF t
<1>3. \A k \in DOMAIN task'.todo : (k \in DOMAIN t /\ task'.todo[k] = t[k]) \/ Behind(task'.todo[k])
  BY <1>1, <1>2, RestOfTask
<1>4. 1 \in DOMAIN task'.todo /\ task'.todo[1] = t[1]
  <2>1. task.todo \in Seq(Steps)
    BY DEF Serving
  <2> QED
    BY <1>1, <1>2, <2>1, Replaced
<1> QED
  BY <1>1, <1>3, <1>4

LEMMA NoneLeft ==
  ASSUME Serving, Planning, task.todo # <<>>, task'.todo = <<>> \o Tail(task.todo)
  PROVE  /\ \A k \in DOMAIN task'.todo : Behind(task'.todo[k])
         /\ \A j \in DOMAIN task.todo : j > 1 =>
              j - 1 \in DOMAIN task'.todo /\ task'.todo[j - 1] = task.todo[j]
<1> DEFINE t == <<>>
<1>1. t \in Seq(Steps) /\ DOMAIN t = {} /\ Len(t) = 0
  BY EmptySeq
<1>2. task'.todo = t \o Tail(task.todo)
  OBVIOUS
<1> HIDE DEF t
<1>3. \A k \in DOMAIN task'.todo : (k \in DOMAIN t /\ task'.todo[k] = t[k]) \/ Behind(task'.todo[k])
  BY <1>1, <1>2, RestOfTask
<1>4. task.todo \in Seq(Steps)
  BY DEF Serving
<1>5. \A j \in DOMAIN task.todo : j > 1 =>
        j - 1 + Len(t) \in DOMAIN task'.todo /\ task'.todo[j - 1 + Len(t)] = task.todo[j]
  BY <1>1, <1>2, <1>4, Replaced
<1>6. \A j \in DOMAIN task.todo : j \in Nat
  BY <1>4
<1> QED
  BY <1>1, <1>3, <1>5, <1>6

(* What a disabling, an unlinking and a linking leave to be done.          *)
DisableLeaves ==
  \/ task'.todo = <<>> \o Tail(task.todo)
  \/ \E x \in Steps : /\ x.op = "unlink" /\ x.left = Considered
                      /\ task'.todo = <<x>> \o Tail(task.todo)

LEMMA DisableUnitDoes ==
  ASSUME DiskTypes, LoopTypes, Serving, Planning, DisableUnit
  PROVE  DisableLeaves
<1>1. At("disable")
  BY DEF DisableUnit
<1>2. PICK u \in Units : task.todo # <<>> /\ u = Step.unit
  BY <1>1, AtUnit
<1>3. PICK stop \in BOOLEAN : stop = (Opt("run") /\ ~Step.nested)
  OBVIOUS
<1>4. PICK x : x = [op |-> "unlink", unit |-> u, left |-> Considered, stop |-> stop]
  OBVIOUS
<1>5. x \in Steps /\ x.op = "unlink" /\ x.left = Considered
  BY <1>4, ConsideredTypes DEF Steps
<1>6. Refuse \/ Do(<<x>>)
  BY <1>2, <1>3, <1>4 DEF DisableUnit
<1>7. task'.todo = <<>> \o Tail(task.todo) \/ task'.todo = <<x>> \o Tail(task.todo)
  BY <1>2, <1>6, Doing, Refusing
<1> QED
  BY <1>5, <1>7 DEF DisableLeaves

UnlinkLeaves(u, left) ==
  \/ Fails /\ task'.todo = <<>> \o Tail(task.todo)
  \/ left = <<>> /\ task'.todo = <<>> \o Tail(task.todo)
  \/ left = <<>> /\ \E x \in Steps : x.op = "stop" /\ task'.todo = <<x>> \o Tail(task.todo)
  \/ /\ left # <<>>
     /\ links' \subseteq links /\ <<u, Head(left)>> \notin links'
     /\ \E x \in Steps : /\ x.op = "unlink" /\ x.unit = u /\ x.left = Tail(left)
                         /\ task'.todo = <<x>> \o Tail(task.todo)

LEMMA UnlinkLeavesTo ==
  ASSUME DiskTypes, ArrayTypes, LoopTypes, Serving, Unlink,
         NEW u, u = Step.unit, NEW left, left = Step.left
  PROVE  UnlinkLeaves(u, left)
<1>1. At("unlink")
  BY DEF Unlink
<1>2. u \in Units /\ Step \in Steps /\ Step.op = "unlink"
  BY <1>1, AtUnit
<1>3. PICK stop \in BOOLEAN : Step = [op |-> "unlink", unit |-> u, left |-> left, stop |-> stop]
  BY <1>2, StepTypes
<1>4. left \in Seq(UnitStates)
  BY <1>2, StepTypes
<1>5. \/ /\ left = <<>>
         /\ task'.todo = <<>> \o Tail(task.todo) \/ task'.todo = <<Stop(u, FALSE)>> \o Tail(task.todo)
      \/ /\ left # <<>> /\ failed' = failed
         /\ task'.todo = <<[Step EXCEPT !.left = Tail(@)]>> \o Tail(task.todo)
      \/ Fails /\ task'.todo = <<>> \o Tail(task.todo)
  BY UnlinkDoes
<1>a. ASSUME left # <<>>, failed' = failed
      PROVE  links' \subseteq links /\ <<u, Head(left)>> \notin links'
  <2>1. ~Fails
    BY <1>a, FailsMore
  <2>2. \/ links' = links /\ <<u, Head(left)>> \notin links
        \/ links' = links \ {<<u, Head(left)>>}
    BY <1>a, <2>1, UnlinkDoes
  <2> QED
    BY <2>2
<1>6. CASE left = <<>> /\ task'.todo = <<Stop(u, FALSE)>> \o Tail(task.todo)
  <2>1. PICK x : x = Stop(u, FALSE)
    OBVIOUS
  <2>2. x \in Steps /\ x.op = "stop"
    BY <1>2, <2>1 DEF Steps, Stop
  <2>3. task'.todo = <<x>> \o Tail(task.todo)
    BY <1>6, <2>1, Zenon
  <2> QED
    BY <1>6, <2>2, <2>3 DEF UnlinkLeaves
<1>7. CASE /\ left # <<>> /\ failed' = failed
           /\ task'.todo = <<[Step EXCEPT !.left = Tail(@)]>> \o Tail(task.todo)
  <2>0. left # <<>> /\ failed' = failed
    BY <1>7, Zenon
  <2>a. Tail(left) \in Seq(UnitStates)
    BY <1>4, <2>0
  <2>1. PICK t \in Seq(UnitStates) : t = Tail(left)
    BY <2>a, Zenon
  <2>2. PICK x : x = [op |-> "unlink", unit |-> u, left |-> t, stop |-> stop]
    OBVIOUS
  <2>3. x \in Steps /\ x.op = "unlink" /\ x.unit = u /\ x.left = t
    BY <1>2, <2>2 DEF Steps
  <2>4. task'.todo = <<x>> \o Tail(task.todo)
    <3>1. [Step EXCEPT !.left = t] = [op |-> "unlink", unit |-> u, left |-> t, stop |-> stop]
      BY <1>3
    <3>2. Tail(Step.left) = t
      BY <2>1, Zenon
    <3> QED
      BY <1>7, <2>2, <3>1, <3>2, Zenon
  <2> QED
    BY <1>a, <2>0, <2>1, <2>3, <2>4 DEF UnlinkLeaves
<1>8. CASE left = <<>> /\ task'.todo = <<>> \o Tail(task.todo)
  BY <1>8 DEF UnlinkLeaves
<1>9. CASE Fails /\ task'.todo = <<>> \o Tail(task.todo)
  BY <1>9 DEF UnlinkLeaves
<1> QED
  BY <1>5, <1>6, <1>7, <1>8, <1>9

LinkLeaves(u, left) ==
  \/ task'.todo = <<>> \o Tail(task.todo)
  \/ left = <<>> /\ \E x \in Steps : x.op = "start" /\ task'.todo = <<x>> \o Tail(task.todo)
  \/ /\ left # <<>> /\ links' = links \cup {<<u, Head(left)>>} /\ Flagged(u, TRUE)
     /\ \E x \in Steps : /\ x.op = "link" /\ x.unit = u /\ x.left = Tail(left)
                         /\ task'.todo = <<x>> \o Tail(task.todo)

LEMMA LinkLeavesTo ==
  ASSUME DiskTypes, ArrayTypes, LoopTypes, Serving, Link,
         NEW u, u = Step.unit, NEW left, left = Step.left
  PROVE  LinkLeaves(u, left)
<1>1. At("link")
  BY DEF Link
<1>2. u \in Units /\ Step \in Steps /\ Step.op = "link" /\ task.todo # <<>>
  BY <1>1, AtUnit
<1>3. Step = [op |-> "link", unit |-> u, left |-> left]
  BY <1>2, StepTypes
<1>4. left \in Seq(UnitStates)
  BY <1>2, StepTypes
<1>5. \/ left = <<>> /\ Do(<<Start(u, FALSE)>>)
      \/ Do(<<>>) \/ Refuse
      \/ /\ Flagged(u, TRUE) /\ links' = links \cup {<<u, Head(left)>>}
         /\ left # <<>> /\ Do(<<[Step EXCEPT !.left = Tail(@)]>>)
  BY LinkDoes
<1>6. CASE left = <<>> /\ Do(<<Start(u, FALSE)>>)
  <2>1. PICK x : x = Start(u, FALSE)
    OBVIOUS
  <2>2. x \in Steps /\ x.op = "start"
    BY <1>2, <2>1 DEF Steps, Start
  <2>3. Do(<<x>>)
    BY <1>6, <2>1, Zenon
  <2>4. task'.todo = <<x>> \o Tail(task.todo)
    BY <2>3, Doing
  <2> QED
    BY <1>6, <2>2, <2>4 DEF LinkLeaves
<1>7. CASE /\ Flagged(u, TRUE) /\ links' = links \cup {<<u, Head(left)>>}
           /\ left # <<>> /\ Do(<<[Step EXCEPT !.left = Tail(@)]>>)
  <2>0. left # <<>>
    BY <1>7, Zenon
  <2>a. Tail(left) \in Seq(UnitStates)
    BY <1>4, <2>0
  <2>1. PICK t \in Seq(UnitStates) : t = Tail(left)
    BY <2>a, Zenon
  <2>2. PICK x : x = [op |-> "link", unit |-> u, left |-> t]
    OBVIOUS
  <2>3. x \in Steps /\ x.op = "link" /\ x.unit = u /\ x.left = t
    BY <1>2, <2>2 DEF Steps
  <2>4. task'.todo = <<x>> \o Tail(task.todo)
    <3>1. [Step EXCEPT !.left = t] = [op |-> "link", unit |-> u, left |-> t]
      BY <1>3
    <3>2. Tail(Step.left) = t
      BY <2>1, Zenon
    <3>3. Do(<<x>>)
      BY <1>7, <2>2, <3>1, <3>2, Zenon
    <3> QED
      BY <3>3, Doing
  <2>5. Flagged(u, TRUE) /\ links' = links \cup {<<u, Head(left)>>}
    BY <1>7, Zenon
  <2>6. \E y \in Steps : /\ y.op = "link" /\ y.unit = u /\ y.left = Tail(left)
                         /\ task'.todo = <<y>> \o Tail(task.todo)
    BY <2>1, <2>3, <2>4, Zenon
  <2> QED
    BY <2>0, <2>5, <2>6, Zenon DEF LinkLeaves
<1>8. CASE Do(<<>>) \/ Refuse
  <2>1. task'.todo = <<>> \o Tail(task.todo)
    BY <1>2, <1>8, Doing, Refusing
  <2> QED
    BY <2>1 DEF LinkLeaves
<1> QED
  BY <1>5, <1>6, <1>7, <1>8

LEMMA NothingReplaced ==
  ASSUME Serving, Planning, task.todo # <<>>, Step.op # "rm",
         \/ task'.todo = <<>> \o Tail(task.todo)
         \/ \E x \in Steps : x.op \notin {"rm", "ln"} /\ task'.todo = <<x>> \o Tail(task.todo)
  PROVE  ~HeadOp({"rm", "ln"})' /\ ~HeadOp({"rm"})'
<1>1. ASSUME NEW y, Behind(y) PROVE y.op \notin {"rm", "ln"}
  BY <1>1, BehindIs
<1>2. CASE task'.todo = <<>> \o Tail(task.todo)
  <2>1. \A k \in DOMAIN task'.todo : Behind(task'.todo[k])
    BY <1>2, NoneLeft
  <2>2. \A k \in DOMAIN task'.todo : task'.todo[k].op \notin {"rm", "ln"}
    BY <1>1, <2>1
  <2> QED
    BY <2>2 DEF HeadOp
<1>3. CASE \E x \in Steps : x.op \notin {"rm", "ln"} /\ task'.todo = <<x>> \o Tail(task.todo)
  <2>1. PICK x \in Steps : x.op \notin {"rm", "ln"} /\ task'.todo = <<x>> \o Tail(task.todo)
    BY <1>3
  <2>2. 1 \in DOMAIN task'.todo /\ task'.todo[1] = x
    BY <2>1, OneLeft
  <2> QED
    BY <2>1, <2>2 DEF HeadOp
<1> QED
  BY <1>2, <1>3

LEMMA TellingTypes ==
  ASSUME DiskTypes, DiskTypes', Effects
  PROVE  failed \in Nat /\ failed' \in Nat /\ (failed > 0 => failed' > 0)
BY ServerAssumption DEF DiskTypes, Effects

LEMMA WorkingTells ==
  ASSUME DiskTypes, ArrayTypes, LoopTypes, Serving, Living, Planning, Telling,
         Working \/ Unlink \/ Link, Plain \/ DisableUnit \/ Verify \/ Unlink \/ Link,
         Effects, DiskTypes'
  PROVE  Telling'
<1>1. /\ UNCHANGED <<dflt, states, loop>> /\ task.todo # <<>>
      /\ Step.op \notin {"rm", "ln"}
  <2>1. CASE Working
    BY <2>1, WorkingFrame, WorkingAt DEF disk
  <2>2. CASE Unlink
    BY <2>2 DEF Unlink, At, Step
  <2>3. CASE Link
    BY <2>3 DEF Link, At, Step
  <2> QED
    BY <2>1, <2>2, <2>3
<1>2. ~HeadOp({"rm", "ln"})
  BY <1>1, AtStep DEF HeadOp
<1>3. ~HeadOp({"rm", "ln"})' /\ ~HeadOp({"rm"})'
  <2>1. CASE Plain
    BY <2>1, PlainIs
  <2>2. CASE DisableUnit
    <3>1. \/ task'.todo = <<>> \o Tail(task.todo)
          \/ \E x \in Steps : x.op = "unlink" /\ task'.todo = <<x>> \o Tail(task.todo)
      BY <2>2, DisableUnitDoes DEF DisableLeaves
    <3> QED
      BY <1>1, <3>1, NothingReplaced
  <2>3. CASE Verify
    BY <2>3, VerifyPlans DEF Prepared, HeadOp
  <2>4. CASE Unlink
    <3>1. PICK u, left : UnlinkLeaves(u, left)
      BY <2>4, UnlinkLeavesTo
    <3>2. \/ task'.todo = <<>> \o Tail(task.todo)
          \/ \E x \in Steps : x.op \in {"stop", "unlink"} /\ task'.todo = <<x>> \o Tail(task.todo)
      BY <3>1 DEF UnlinkLeaves
    <3> QED
      BY <1>1, <3>2, NothingReplaced
  <2>5. CASE Link
    <3>1. PICK u, left : LinkLeaves(u, left)
      BY <2>5, LinkLeavesTo
    <3>2. \/ task'.todo = <<>> \o Tail(task.todo)
          \/ \E x \in Steps : x.op \in {"start", "link"} /\ task'.todo = <<x>> \o Tail(task.todo)
      BY <3>1 DEF LinkLeaves
    <3> QED
      BY <1>1, <3>2, NothingReplaced
  <2> QED
    BY <2>1, <2>2, <2>3, <2>4, <2>5
<1>4. up' = up
  BY <1>1 DEF loop
<1> QED
  BY <1>1, <1>2, <1>3, <1>4, TellingTypes, TellingStays DEF states

LEMMA SetDefaultTells ==
  ASSUME DiskTypes, ArrayTypes, LoopTypes, Serving, Living, Planning, Telling, SetDefault,
         Effects, DiskTypes'
  PROVE  Telling'
<1>1. At("set-default") /\ UNCHANGED <<disk, default, loop, failed>>
  BY DEF SetDefault
<1>2. task.todo # <<>> /\ Step.op = "set-default" /\ Step \in Steps
  BY <1>1, AtOther
<1>3. PICK s \in Levels : s = Step.unit
  BY <1>2, StepTypes
<1>4. up /\ up' = up
  BY <1>1, <1>2 DEF Serving, Idle, loop
<1>5. PICK x : x = [op |-> "rm", unit |-> s]
  OBVIOUS
<1>6. PICK y : y = [op |-> "ln", unit |-> s]
  OBVIOUS
<1>7. x \in Steps /\ y \in Steps /\ x.op = "rm" /\ y.op = "ln"
  BY <1>5, <1>6 DEF Steps
<1>8. (Refuse /\ newDefault' = newDefault) \/ Do(<<x, y>>)
  BY <1>3, <1>5, <1>6 DEF SetDefault
<1>9. CASE Refuse /\ newDefault' = newDefault
  <2>1. task'.todo = <<>> \o Tail(task.todo)
    BY <1>2, <1>9, Refusing
  <2>2. ~HeadOp({"rm", "ln"})' /\ ~HeadOp({"rm"})'
    BY <1>2, <2>1, NothingReplaced
  <2>3. ~HeadOp({"rm", "ln"})
    BY <1>2, AtStep DEF HeadOp
  <2> QED
    BY <1>1, <1>4, <1>9, <2>2, <2>3, TellingTypes, TellingStays DEF states, disk
<1>10. CASE Do(<<x, y>>)
  <2> DEFINE t == <<x, y>>
  <2>1. t \in Seq(Steps) /\ DOMAIN t = {1, 2} /\ t[1] = x /\ t[2] = y
    BY <1>7
  <2>2. task'.todo = t \o Tail(task.todo)
    BY <1>10, Doing
  <2>3. task.todo \in Seq(Steps) /\ task.todo # <<>>
    BY <1>2 DEF Serving
  <2> HIDE DEF t
  <2>a. t \in Seq(Steps)
    BY <2>1
  <2>4. \A k \in DOMAIN t : k \in DOMAIN task'.todo /\ task'.todo[k] = t[k]
    BY <2>a, <2>2, <2>3, Replaced
  <2>5. /\ 1 \in DOMAIN task'.todo /\ 2 \in DOMAIN task'.todo
        /\ task'.todo[1].op = "rm" /\ task'.todo[2].op = "ln"
    BY <1>7, <2>1, <2>4
  <2> QED
    BY <1>4, <2>5 DEF Telling, HeadOp
<1> QED
  BY <1>8, <1>9, <1>10

LEMMA DropDefaultTells ==
  ASSUME DiskTypes, ArrayTypes, LoopTypes, Serving, Living, Planning, Telling, DropDefault,
         Effects, DiskTypes'
  PROVE  Telling'
<1>1. At("rm") /\ UNCHANGED <<states, loop>>
  BY DEF DropDefault
<1>2. task.todo # <<>> /\ Step.op = "rm" /\ 1 \in DOMAIN task.todo /\ Step = task.todo[1]
  BY <1>1, AtOther
<1>3. up /\ up' = up
  BY <1>1, <1>2 DEF Serving, Idle, loop
<1>4. Do(<<>>) \/ (Fails /\ task' = [task EXCEPT !.todo = <<>>, !.error = TRUE])
  BY DEF DropDefault
<1>5. CASE Do(<<>>)
  <2>1. task'.todo = <<>> \o Tail(task.todo)
    BY <1>5, Doing
  <2>2. 2 \in DOMAIN task.todo /\ task.todo[2].op = "ln"
    BY <1>2 DEF Telling, HeadOp
  <2>3. 1 \in DOMAIN task'.todo /\ task'.todo[1] = task.todo[2]
    <3>1. 2 - 1 \in DOMAIN task'.todo /\ task'.todo[2 - 1] = task.todo[2]
      BY <1>2, <2>1, <2>2, NoneLeft
    <3> QED
      BY <3>1
  <2> QED
    BY <1>3, <2>2, <2>3 DEF Telling, HeadOp
<1>6. CASE Fails /\ task' = [task EXCEPT !.todo = <<>>, !.error = TRUE]
  <2>1. task'.todo = <<>>
    BY <1>6 DEF LoopTypes, Idle
  <2>2. failed' > 0
    BY <1>6, FailsMore
  <2>3. failed' # 0
    BY <2>2, TellingTypes
  <2> QED
    BY <1>3, <2>1, <2>3 DEF Telling, HeadOp
<1> QED
  BY <1>4, <1>5, <1>6

(* default.state points to what the array remembers of it.                 *)
LEMMA LinkDefaultTells ==
  ASSUME DiskTypes, ArrayTypes, LoopTypes, Serving, Living, Planning, Telling, LinkDefault,
         Effects, DiskTypes'
  PROVE  Telling'
<1>1. At("ln") /\ UNCHANGED <<default, loop>>
  BY DEF LinkDefault
<1>2. task.todo # <<>> /\ Step.op = "ln" /\ Step \in Steps
  BY <1>1, AtOther
<1>3. up /\ up' = up
  BY <1>1, <1>2 DEF Serving, Idle, loop
<1>4. PICK s \in Levels : s = Step.unit
  BY <1>2, StepTypes
<1>5. s \in {default, newDefault}
  BY <1>2, <1>4, HeadFollows DEF Ready
<1>6. task'.todo = <<>> \o Tail(task.todo)
  <2>1. Do(<<>>) \/ Refuse
    BY DEF LinkDefault
  <2> QED
    BY <1>2, <2>1, Doing, Refusing
<1>7. ~HeadOp({"rm", "ln"})' /\ ~HeadOp({"rm"})'
  BY <1>2, <1>6, NothingReplaced
<1>8. CASE dflt' = s /\ newDefault' = IF s = default THEN None ELSE newDefault
  <2>1. s # None
    BY NoneIsNoUnit
  <2>2. dflt' = IF newDefault' # None THEN newDefault' ELSE default'
    BY <1>1, <1>5, <1>8, <2>1
  <2> QED
    BY <1>3, <1>7, <2>2 DEF Telling
<1>9. CASE Fails
  <2>1. failed' > 0
    BY <1>9, FailsMore
  <2>2. failed' # 0
    BY <2>1, TellingTypes
  <2> QED
    BY <1>3, <1>7, <2>2 DEF Telling
<1> QED
  BY <1>4, <1>8, <1>9 DEF LinkDefault, Remembered

LEMMA OthersTell ==
  ASSUME DiskTypes, ArrayTypes, LoopTypes, Serving, Living, Planning, Telling,
         Meanwhile \/ Answer \/ Accept \/ Receive \/ Signal \/ Repair \/ Boot \/ Ending,
         Effects, DiskTypes'
  PROVE  Telling'
<1>1. CASE Meanwhile \/ Accept \/ Signal
  <2>1. UNCHANGED <<dflt, states, up, task>>
    <3>1. CASE Meanwhile
      BY <3>1, MeanwhileFrame DEF loop
    <3>2. CASE Accept \/ Signal
      BY <3>2 DEF Accept, Signal, disk
    <3> QED
      BY <1>1, <3>1, <3>2
  <2>2. failed' = 0 => failed = 0
    BY TellingTypes
  <2> QED
    BY <2>1, <2>2 DEF Telling, HeadOp, states
<1>2. CASE Answer
  <2>1. /\ UNCHANGED <<dflt, states, up, failed>> /\ task.todo = <<>> /\ task' = Idle
    BY <1>2 DEF Answer, Answering, disk
  <2> QED
    BY <2>1 DEF Telling, HeadOp, states, Idle
<1>3. CASE Receive
  <2>1. /\ UNCHANGED <<disk, states, up, failed>> /\ task = Idle
        /\ \/ task' = Idle
           \/ \E x \in Steps :
                /\ task'.todo = <<x>>
                /\ x.op \in {"stop", "start", "disable", "enable", "status", "set-default",
                             "list", "get-default"}
    BY <1>3, ReceiveDoes
  <2>2. ~HeadOp({"rm", "ln"}) /\ ~HeadOp({"rm", "ln"})' /\ ~HeadOp({"rm"})'
    BY <2>1 DEF HeadOp, Idle
  <2> QED
    BY <2>1, <2>2, TellingTypes, TellingStays DEF disk
<1>4. CASE Repair
  <2>1. ~up /\ UNCHANGED <<newDefault, up, task>>
    BY <1>4 DEF Repair, states, loop
  <2>2. task = Idle
    BY <2>1 DEF Serving
  <2> QED
    BY <2>1, <2>2 DEF Telling, HeadOp, Idle
<1>5. CASE Boot
  <2>1. /\ ~up /\ up' = TRUE /\ default' = dflt /\ UNCHANGED <<disk, newDefault>>
        /\ \E loaded \in SUBSET Units, order \in Seq(Units) : BootLeaves(loaded, order)
    BY <1>5, BootDoes
  <2>2. PICK order \in Seq(Units) : task'.todo = [i \in DOMAIN order |-> S("run", order[i])]
    BY <2>1 DEF BootLeaves
  <2>3. ~HeadOp({"rm"})'
    BY <2>2 DEF HeadOp, S
  <2> QED
    BY <2>1, <2>3 DEF Telling, disk
<1>6. CASE Ending
  <2>1. up' = FALSE /\ newDefault' = None /\ task' = Idle
    BY <1>6, EndingIsOff DEF Off
  <2> QED
    BY <2>1 DEF Telling, HeadOp, Idle
<1> QED
  BY <1>1, <1>2, <1>3, <1>4, <1>5, <1>6
-----------------------------------------------------------------------------
(* What is being unlinked and linked. *)
LEMMA SameStates ==
  ASSUME setup' = setup, default' = default
  PROVE  Considered' = Considered /\ Range(Considered)' = Range(Considered)
BY DEF Considered, Current, Range

LEMMA SameEnabling ==
  ASSUME setup' = setup, default' = default, links' = links, NEW u
  PROVE  IsEnabled(u)' <=> IsEnabled(u)
BY DEF IsEnabled, Considered, Current

(* Nothing is unlinked after the step. *)
LEMMA NothingUnlinked ==
  ASSUME Serving, Planning, task.todo # <<>>,
         \/ task'.todo = <<>> \o Tail(task.todo)
         \/ \E x \in Steps : x.op # "unlink" /\ task'.todo = <<x>> \o Tail(task.todo)
  PROVE  Unlinking'
<1>1. ASSUME NEW y, Behind(y) PROVE y.op # "unlink"
  BY <1>1, BehindIs
<1>2. CASE task'.todo = <<>> \o Tail(task.todo)
  <2>1. \A k \in DOMAIN task'.todo : Behind(task'.todo[k])
    BY <1>2, NoneLeft
  <2>2. \A k \in DOMAIN task'.todo : task'.todo[k].op # "unlink"
    BY <1>1, <2>1
  <2> QED
    BY <2>2 DEF HeadOp, Unlinking
<1>3. CASE \E x \in Steps : x.op # "unlink" /\ task'.todo = <<x>> \o Tail(task.todo)
  <2>1. PICK x \in Steps : x.op # "unlink" /\ task'.todo = <<x>> \o Tail(task.todo)
    BY <1>3
  <2>2. 1 \in DOMAIN task'.todo /\ task'.todo[1] = x
    BY <2>1, OneLeft
  <2> QED
    BY <2>1, <2>2 DEF HeadOp, Unlinking
<1> QED
  BY <1>2, <1>3

LEMMA PlainUnlinks ==
  ASSUME Plain
  PROVE  Unlinking'
BY PlainIs DEF Unlinking

LEMMA DisableUnitUnlinks ==
  ASSUME DiskTypes, ArrayTypes, LoopTypes, Serving, Living, Planning, DisableUnit
  PROVE  Unlinking'
<1>1. UNCHANGED <<setup, disk, states>>
  BY DEF DisableUnit
<1>2. task.todo # <<>> /\ Step.op = "disable"
  BY DEF DisableUnit, At, Step
<1>3. Considered' = Considered /\ Range(Considered)' = Range(Considered)
  BY <1>1, SameStates DEF states
<1>4. CASE task'.todo = <<>> \o Tail(task.todo)
  BY <1>2, <1>4, NothingUnlinked
<1>5. CASE \E x \in Steps : /\ x.op = "unlink" /\ x.left = Considered
                            /\ task'.todo = <<x>> \o Tail(task.todo)
  <2>1. PICK x \in Steps : /\ x.op = "unlink" /\ x.left = Considered
                           /\ task'.todo = <<x>> \o Tail(task.todo)
    BY <1>5
  <2>2. task'.todo[1] = x
    BY <1>2, <2>1, OneLeft
  <2>3. task'.todo[1].left = Considered
    BY <2>1, <2>2
  <2>4. Range(task'.todo[1].left) = Range(Considered)'
    BY <1>3, <2>3
  <2> QED
    BY <2>4 DEF Unlinking
<1> QED
  BY <1>4, <1>5, DisableUnitDoes DEF DisableLeaves

(* The states that are left, when the first one has been done.             *)
LEMMA RangeOfTail ==
  ASSUME NEW E, NEW s \in Seq(E), s # <<>>
  PROVE  /\ \A x : x \in Range(s) <=> x = Head(s) \/ x \in Range(Tail(s))
         /\ Head(s) \in E /\ Tail(s) \in Seq(E)
<1>1. /\ Tail(s) \in Seq(E) /\ Len(Tail(s)) = Len(s) - 1 /\ Len(s) \in Nat \ {0}
      /\ \A i \in 1..Len(Tail(s)) : Tail(s)[i] = s[i + 1]
  BY HeadTailProperties, EmptySeq
<1>2. DOMAIN s = 1..Len(s) /\ DOMAIN Tail(s) = 1..Len(Tail(s)) /\ Head(s) = s[1] /\ Head(s) \in E
  BY <1>1, LenProperties, HeadTailProperties
<1>3. ASSUME NEW x \in Range(s), x # Head(s) PROVE x \in Range(Tail(s))
  <2>1. PICK i \in 1..Len(s) : s[i] = x
    BY <1>2 DEF Range
  <2>2. i - 1 \in 1..Len(Tail(s)) /\ Tail(s)[i - 1] = s[i - 1 + 1]
    BY <1>1, <1>2, <1>3, <2>1
  <2>3. Tail(s)[i - 1] = x
    BY <2>1, <2>2
  <2> QED
    BY <1>2, <2>2, <2>3 DEF Range
<1>4. ASSUME NEW x \in Range(Tail(s)) PROVE x \in Range(s)
  <2>1. PICK i \in 1..Len(Tail(s)) : Tail(s)[i] = x
    BY <1>2 DEF Range
  <2>2. i + 1 \in 1..Len(s) /\ s[i + 1] = x
    BY <1>1, <2>1
  <2> QED
    BY <1>2, <2>2 DEF Range
<1>5. Head(s) \in Range(s)
  BY <1>1, <1>2 DEF Range
<1> QED
  BY <1>1, <1>2, <1>3, <1>4, <1>5

LEMMA UnlinkUnlinks ==
  ASSUME DiskTypes, ArrayTypes, LoopTypes, Serving, Living, Planning, Unlinking, Unlink
  PROVE  Unlinking'
<1>1. At("unlink") /\ setup' = setup /\ default' = default
  BY DEF Unlink, states
<1>2. PICK u \in Units : /\ task.todo # <<>> /\ u = Step.unit /\ Step.op = "unlink" /\ Step \in Steps
                         /\ Step = task.todo[1] /\ 1 \in DOMAIN task.todo
  BY <1>1, AtUnit
<1>3. PICK left \in Seq(UnitStates) : left = Step.left
  BY <1>2, StepTypes
<1>4. Range(Considered)' = Range(Considered)
  BY <1>1, SameStates
<1>5. \A s \in Range(Considered) : <<u, s>> \in links => s \in Range(left)
  BY <1>2, <1>3 DEF Unlinking, HeadOp
<1>6. UnlinkLeaves(u, left)
  BY <1>2, <1>3, UnlinkLeavesTo
<1>7. CASE \/ task'.todo = <<>> \o Tail(task.todo)
           \/ \E x \in Steps : x.op = "stop" /\ task'.todo = <<x>> \o Tail(task.todo)
  <2>1. \/ task'.todo = <<>> \o Tail(task.todo)
        \/ \E x \in Steps : x.op # "unlink" /\ task'.todo = <<x>> \o Tail(task.todo)
    BY <1>7
  <2> QED
    BY <1>2, <2>1, NothingUnlinked
<1>8. CASE /\ left # <<>>
           /\ links' \subseteq links /\ <<u, Head(left)>> \notin links'
           /\ \E x \in Steps : /\ x.op = "unlink" /\ x.unit = u /\ x.left = Tail(left)
                               /\ task'.todo = <<x>> \o Tail(task.todo)
  <2>1. PICK x \in Steps : /\ x.op = "unlink" /\ x.unit = u /\ x.left = Tail(left)
                           /\ task'.todo = <<x>> \o Tail(task.todo)
    BY <1>8
  <2>2. task'.todo[1] = x
    BY <1>2, <2>1, OneLeft
  <2>3. links' \subseteq links /\ <<u, Head(left)>> \notin links' /\ left # <<>>
    BY <1>8
  <2>5. \A s : s \in Range(left) <=> s = Head(left) \/ s \in Range(Tail(left))
    BY <1>3, <2>3, RangeOfTail
  <2>6. \A s \in Range(Considered) : <<u, s>> \in links' => s \in Range(Tail(left))
    BY <1>5, <2>3, <2>5
  <2>7. task'.todo[1].unit = u /\ task'.todo[1].left = Tail(left)
    BY <2>1, <2>2
  <2>8. Range(task'.todo[1].left) = Range(Tail(left))
    BY <2>7
  <2> QED
    BY <1>4, <2>6, <2>7, <2>8 DEF Unlinking
<1> QED
  BY <1>6, <1>7, <1>8 DEF UnlinkLeaves

LEMMA NothingBehindIt ==
  ASSUME Serving, Planning, task.todo # <<>>,
         Step.op \in {"start", "load", "add", "enable", "check", "verify", "link", "set-default",
                      "ln", "status", "list", "get-default"}
  PROVE  \A y : ~Behind(y)
BY NoTail DEF Behind

LEMMA SetDefaultDoes ==
  ASSUME LoopTypes, Serving, Planning, SetDefault
  PROVE  \A k \in DOMAIN task'.todo : task'.todo[k].op \in {"rm", "ln"}
<1>1. At("set-default")
  BY DEF SetDefault
<1>2. task.todo # <<>> /\ Step.op = "set-default" /\ Step \in Steps
  BY <1>1, AtOther
<1>3. PICK s \in Levels : s = Step.unit
  BY <1>2, StepTypes
<1>4. \A y : ~Behind(y)
  BY <1>2, NothingBehindIt
<1>5. PICK x : x = [op |-> "rm", unit |-> s]
  OBVIOUS
<1>6. PICK y : y = [op |-> "ln", unit |-> s]
  OBVIOUS
<1>7. x \in Steps /\ y \in Steps /\ x.op = "rm" /\ y.op = "ln"
  BY <1>5, <1>6 DEF Steps
<1>8. Refuse \/ Do(<<x, y>>)
  BY <1>3, <1>5, <1>6 DEF SetDefault
<1>9. CASE Refuse
  <2>1. task'.todo = <<>> \o Tail(task.todo)
    BY <1>2, <1>9, Refusing
  <2>2. \A k \in DOMAIN task'.todo : Behind(task'.todo[k])
    BY <1>2, <2>1, NoneLeft
  <2> QED
    BY <1>4, <2>2
<1>10. CASE Do(<<x, y>>)
  <2> DEFINE t == <<x, y>>
  <2>1. t \in Seq(Steps) /\ DOMAIN t = {1, 2} /\ t[1] = x /\ t[2] = y
    BY <1>7
  <2>2. task'.todo = t \o Tail(task.todo)
    BY <1>10, Doing
  <2> HIDE DEF t
  <2>3. t \in Seq(Steps)
    BY <2>1
  <2>4. \A k \in DOMAIN task'.todo : (k \in DOMAIN t /\ task'.todo[k] = t[k]) \/ Behind(task'.todo[k])
    BY <1>2, <2>2, <2>3, RestOfTask
  <2> QED
    BY <1>4, <1>7, <2>1, <2>4
<1> QED
  BY <1>8, <1>9, <1>10

(* The steps that leave nothing special to be done, or only default.state. *)
LEMMA DefaultLeaves ==
  ASSUME LoopTypes, Serving, Planning, SetDefault \/ DropDefault \/ LinkDefault
  PROVE  \A k \in DOMAIN task'.todo : task'.todo[k].op \in {"rm", "ln"}
<1>1. CASE SetDefault
  BY <1>1, SetDefaultDoes
<1>2. CASE DropDefault
  <2>1. task.todo # <<>> /\ Step.op = "rm"
    BY <1>2 DEF DropDefault, At, Step
  <2>2. CASE task'.todo = <<>>
    BY <2>2
  <2>3. CASE task'.todo = <<>> \o Tail(task.todo)
    <3>1. \A k \in DOMAIN task'.todo : Behind(task'.todo[k])
      BY <2>1, <2>3, NoneLeft
    <3>2. ASSUME NEW y, Behind(y) PROVE y.op = "ln"
      BY <2>1, <3>2, HeadFollows DEF Behind, Follows
    <3> QED
      BY <3>1, <3>2
  <2>4. Do(<<>>) \/ task' = [task EXCEPT !.todo = <<>>, !.error = TRUE]
    BY <1>2 DEF DropDefault
  <2>5. task' = [task EXCEPT !.todo = <<>>, !.error = TRUE] => task'.todo = <<>>
    BY DEF LoopTypes, Idle
  <2> QED
    BY <2>2, <2>3, <2>4, <2>5, Doing
<1>3. CASE LinkDefault
  <2>1. task.todo # <<>> /\ Step.op = "ln"
    BY <1>3 DEF LinkDefault, At, Step
  <2>2. Do(<<>>) \/ Refuse
    BY <1>3 DEF LinkDefault
  <2>3. task'.todo = <<>> \o Tail(task.todo)
    BY <2>1, <2>2, Doing, Refusing
  <2>4. \A k \in DOMAIN task'.todo : Behind(task'.todo[k])
    BY <2>1, <2>3, NoneLeft
  <2>5. \A y : ~Behind(y)
    BY <2>1, NothingBehindIt
  <2> QED
    BY <2>4, <2>5
<1> QED
  BY <1>1, <1>2, <1>3

(* The task of a client or of the boot has nothing to unlink or to link at *)
(* first.                                                                  *)
LEMMA FirstLeaves ==
  ASSUME DiskTypes, Serving, Answer \/ Receive \/ Boot \/ Repair \/ Ending
  PROVE  \A k \in DOMAIN task'.todo : task'.todo[k].op \notin {"link", "unlink"}
<1>1. CASE Answer \/ Ending \/ Repair
  <2>1. task' = Idle
    <3>1. CASE Answer
      BY <3>1 DEF Answer
    <3>2. CASE Ending
      BY <3>2, EndingIsOff DEF Off
    <3>3. CASE Repair
      BY <3>3 DEF Repair, Serving
    <3> QED
      BY <1>1, <3>1, <3>2, <3>3
  <2> QED
    BY <2>1 DEF Idle
<1>2. CASE Receive
  <2>1. \/ task' = Idle
        \/ \E x \in Steps :
             /\ task'.todo = <<x>>
             /\ x.op \in {"stop", "start", "disable", "enable", "status", "set-default",
                          "list", "get-default"}
    BY <1>2, ReceiveDoes
  <2> QED
    BY <2>1 DEF Idle
<1>3. CASE Boot
  <2>1. \E loaded \in SUBSET Units, order \in Seq(Units) : BootLeaves(loaded, order)
    BY <1>3, BootDoes
  <2>2. PICK order \in Seq(Units) : task'.todo = [i \in DOMAIN order |-> S("run", order[i])]
    BY <2>1 DEF BootLeaves
  <2> QED
    BY <2>2 DEF S
<1> QED
  BY <1>1, <1>2, <1>3

(* The steps in which the task stays, and what is linked.                  *)
Staying == Meanwhile \/ Accept \/ Signal

LEMMA StayingFrame ==
  ASSUME DiskTypes, Staying
  PROVE  UNCHANGED <<setup, links, dflt, states, task, up, failed>>
<1>1. CASE Meanwhile
  BY <1>1, MeanwhileFrame DEF loop
<1>2. CASE Accept \/ Signal
  BY <1>2 DEF Accept, Signal, disk
<1> QED
  BY <1>1, <1>2 DEF Staying

Plainly ==
  \/ StopDead \/ StopUnit \/ Kill \/ Clear \/ StopAll \/ StartUnit \/ Load \/ Add \/ Run
  \/ EnableUnit \/ Check \/ VerifyRequires \/ Show

LEMMA PlainlyPlans ==
  ASSUME DiskTypes, ArrayTypes, LoopTypes, Serving, Living, Planning, Plainly
  PROVE  Planning' /\ task'.todo \in Seq(Steps) /\ Plain
BY StopDeadPlans, StopUnitPlans, KillPlans, ClearPlans, StopAllPlans, StartUnitPlans, LoadPlans,
   AddPlans, RunPlans, EnableUnitPlans, CheckPlans, VerifyRequiresPlans, ShowPlans DEF Plainly

LEMMA UnlinkingStays ==
  ASSUME DiskTypes, ArrayTypes, LoopTypes, Serving, Living, Planning, Unlinking,
         \/ Plainly \/ DisableUnit \/ Verify \/ Writing \/ Staying
         \/ Answer \/ Receive \/ Boot \/ Repair \/ Ending
  PROVE  Unlinking'
<1>1. CASE Plainly
  BY <1>1, PlainlyPlans, PlainUnlinks
<1>2. CASE DisableUnit
  BY <1>2, DisableUnitUnlinks
<1>3. CASE Verify
  BY <1>3, VerifyPlans DEF Prepared, Unlinking, HeadOp
<1>4. CASE Unlink
  BY <1>4, UnlinkUnlinks
<1>5. CASE Link
  <2>1. task.todo # <<>>
    BY <1>5 DEF Link, At
  <2>2. PICK u, left : LinkLeaves(u, left)
    BY <1>5, LinkLeavesTo
  <2>3. \/ task'.todo = <<>> \o Tail(task.todo)
        \/ \E x \in Steps : x.op \in {"start", "link"} /\ task'.todo = <<x>> \o Tail(task.todo)
    BY <2>2 DEF LinkLeaves
  <2>4. \/ task'.todo = <<>> \o Tail(task.todo)
        \/ \E x \in Steps : x.op # "unlink" /\ task'.todo = <<x>> \o Tail(task.todo)
    BY <2>3
  <2> QED
    BY <2>1, <2>4, NothingUnlinked
<1>6. CASE SetDefault \/ DropDefault \/ LinkDefault
  BY <1>6, DefaultLeaves DEF Unlinking, HeadOp
<1>7. CASE Staying
  <2>1. UNCHANGED <<setup, links, states, task>>
    BY <1>7, StayingFrame
  <2>2. Range(Considered)' = Range(Considered)
    BY <2>1, SameStates DEF states
  <2> QED
    BY <2>1, <2>2 DEF Unlinking, HeadOp
<1>8. CASE Answer \/ Receive \/ Boot \/ Repair \/ Ending
  BY <1>8, FirstLeaves DEF Unlinking, HeadOp
<1> QED
  BY <1>1, <1>2, <1>3, <1>4, <1>5, <1>6, <1>7, <1>8 DEF Writing

(* A linking that is behind another step makes a link by which the unit is *)
(* enabled.                                                                *)
LEMMA LinkingBehind ==
  ASSUME Linking, Serving, NEW y, y.op = "link",
         \E j \in DOMAIN task.todo : j > 1 /\ y = task.todo[j]
  PROVE  Range(y.left) \cap Range(Considered) # {}
BY DEF Linking, Serving

LEMMA OneLinks ==
  ASSUME Linking, Serving, Planning, task.todo # <<>>, Range(Considered)' = Range(Considered),
         \/ task'.todo = <<>> \o Tail(task.todo)
         \/ \E x \in Steps : x.op # "link" /\ task'.todo = <<x>> \o Tail(task.todo)
  PROVE  Linking'
<1>1. ASSUME NEW y, Behind(y), y.op = "link" PROVE Range(y.left) \cap Range(Considered) # {}
  <2>1. \E j \in DOMAIN task.todo : j > 1 /\ y = task.todo[j]
    BY <1>1 DEF Behind
  <2> QED
    BY <1>1, <2>1, LinkingBehind
<1>2. ASSUME NEW k \in DOMAIN task'.todo, task'.todo[k].op = "link" PROVE Behind(task'.todo[k])
  <2>1. CASE task'.todo = <<>> \o Tail(task.todo)
    BY <1>2, <2>1, NoneLeft
  <2>2. CASE \E x \in Steps : x.op # "link" /\ task'.todo = <<x>> \o Tail(task.todo)
    <3>1. PICK x \in Steps : x.op # "link" /\ task'.todo = <<x>> \o Tail(task.todo)
      BY <2>2
    <3>2. (k = 1 /\ task'.todo[k] = x) \/ Behind(task'.todo[k])
      BY <1>2, <3>1, OneLeft
    <3> QED
      BY <1>2, <3>1, <3>2
  <2> QED
    BY <2>1, <2>2
<1>3. \A k \in DOMAIN task'.todo : task'.todo[k].op = "link" =>
        Range(task'.todo[k].left) \cap Range(Considered) # {}
  BY <1>1, <1>2
<1> QED
  BY <1>3 DEF Linking

LEMMA LinkLinks ==
  ASSUME DiskTypes, ArrayTypes, LoopTypes, Serving, Living, Planning, Linking, Link
  PROVE  Linking'
<1>1. At("link") /\ setup' = setup /\ default' = default
  BY DEF Link, states
<1>2. PICK u \in Units : /\ task.todo # <<>> /\ u = Step.unit /\ Step.op = "link" /\ Step \in Steps
                         /\ Step = task.todo[1] /\ 1 \in DOMAIN task.todo
  BY <1>1, AtUnit
<1>3. PICK left \in Seq(UnitStates) : left = Step.left
  BY <1>2, StepTypes
<1>4. Range(Considered)' = Range(Considered) /\ Considered' = Considered
  BY <1>1, SameStates
<1>5. Range(left) \cap Range(Considered) # {} \/ IsEnabled(u)
  BY <1>2, <1>3 DEF Linking
<1>6. LinkLeaves(u, left)
  BY <1>2, <1>3, LinkLeavesTo
<1>7. CASE \/ task'.todo = <<>> \o Tail(task.todo)
           \/ \E x \in Steps : x.op = "start" /\ task'.todo = <<x>> \o Tail(task.todo)
  <2>1. \/ task'.todo = <<>> \o Tail(task.todo)
        \/ \E x \in Steps : x.op # "link" /\ task'.todo = <<x>> \o Tail(task.todo)
    BY <1>7
  <2> QED
    BY <1>2, <1>4, <2>1, OneLinks
<1>8. CASE /\ left # <<>> /\ links' = links \cup {<<u, Head(left)>>} /\ Flagged(u, TRUE)
           /\ \E x \in Steps : /\ x.op = "link" /\ x.unit = u /\ x.left = Tail(left)
                               /\ task'.todo = <<x>> \o Tail(task.todo)
  <2>1. PICK x \in Steps : /\ x.op = "link" /\ x.unit = u /\ x.left = Tail(left)
                           /\ task'.todo = <<x>> \o Tail(task.todo)
    BY <1>8
  <2>2. links' = links \cup {<<u, Head(left)>>} /\ left # <<>>
    BY <1>8
  <2>3. \A k \in DOMAIN task'.todo : k = 1 /\ task'.todo[k] = x
    <3>1. \A y : ~Behind(y)
      BY <1>2, NothingBehindIt
    <3> QED
      BY <1>2, <2>1, <3>1, OneLeft
  <2>4. \A s : s \in Range(left) <=> s = Head(left) \/ s \in Range(Tail(left))
    BY <1>3, <2>2, RangeOfTail
  <2>5. Range(Tail(left)) \cap Range(Considered) # {} \/ IsEnabled(u)'
    <3>1. IsEnabled(u)' <=> \E s \in Range(Considered) : <<u, s>> \in links'
      BY <1>4 DEF IsEnabled
    <3>2. CASE IsEnabled(u)
      BY <2>2, <3>1, <3>2 DEF IsEnabled
    <3>3. CASE Range(left) \cap Range(Considered) # {}
      BY <2>2, <2>4, <3>1, <3>3
    <3> QED
      BY <1>5, <3>2, <3>3
  <2>6. Range(x.left) \cap Range(Considered) # {} \/ IsEnabled(u)'
    BY <2>1, <2>5
  <2>7. \A k \in DOMAIN task'.todo :
          k = 1 /\ task'.todo[k].left = x.left /\ task'.todo[k].unit = u
    BY <2>1, <2>3
  <2>8. \A k \in DOMAIN task'.todo : Range(task'.todo[k].left) = Range(x.left)
    BY <2>7
  <2> QED
    BY <1>4, <2>6, <2>7, <2>8 DEF Linking, IsEnabled
<1> QED
  BY <1>6, <1>7, <1>8 DEF LinkLeaves

LEMMA LinkingStays ==
  ASSUME DiskTypes, ArrayTypes, LoopTypes, Serving, Living, Planning, Linking,
         \/ Plainly \/ DisableUnit \/ Verify \/ Writing \/ Staying
         \/ Answer \/ Receive \/ Boot \/ Repair \/ Ending
  PROVE  Linking'
<1>1. CASE Plainly
  <2>1. Range(Considered)' = Range(Considered)
    BY <1>1, WorkingFrame, SameStates DEF Plainly, Working, states
  <2>2. \A k \in DOMAIN task'.todo : task'.todo[k].op = "link" =>
          \E j \in DOMAIN task.todo : j > 1 /\ task'.todo[k] = task.todo[j]
    BY <1>1, PlainlyPlans, PlainIs
  <2>3. \A k \in DOMAIN task'.todo : task'.todo[k].op = "link" =>
          Range(task'.todo[k].left) \cap Range(Considered) # {}
    BY <2>2, LinkingBehind
  <2> QED
    BY <2>1, <2>3 DEF Linking
<1>2. CASE DisableUnit
  <2>1. UNCHANGED <<setup, states>> /\ task.todo # <<>>
    BY <1>2 DEF DisableUnit, At
  <2>2. \/ task'.todo = <<>> \o Tail(task.todo)
        \/ \E x \in Steps : x.op = "unlink" /\ task'.todo = <<x>> \o Tail(task.todo)
    BY <1>2, DisableUnitDoes DEF DisableLeaves
  <2>3. \/ task'.todo = <<>> \o Tail(task.todo)
        \/ \E x \in Steps : x.op # "link" /\ task'.todo = <<x>> \o Tail(task.todo)
    BY <2>2
  <2>4. Range(Considered)' = Range(Considered)
    BY <2>1, SameStates DEF states
  <2> QED
    BY <2>1, <2>3, <2>4, OneLinks
<1>3. CASE Verify
  <2>1. Range(Considered)' = Range(Considered)
    BY <1>3, WorkingFrame, SameStates DEF Working, states
  <2> QED
    BY <1>3, <2>1, VerifyPlans DEF Prepared, Linking
<1>4. CASE Unlink
  <2>1. setup' = setup /\ default' = default /\ task.todo # <<>>
    BY <1>4 DEF Unlink, At, states
  <2>2. PICK u, left : UnlinkLeaves(u, left)
    BY <1>4, UnlinkLeavesTo
  <2>3. \/ task'.todo = <<>> \o Tail(task.todo)
        \/ \E x \in Steps : x.op \in {"stop", "unlink"} /\ task'.todo = <<x>> \o Tail(task.todo)
    BY <2>2 DEF UnlinkLeaves
  <2>4. \/ task'.todo = <<>> \o Tail(task.todo)
        \/ \E x \in Steps : x.op # "link" /\ task'.todo = <<x>> \o Tail(task.todo)
    BY <2>3
  <2>5. Range(Considered)' = Range(Considered)
    BY <2>1, SameStates
  <2> QED
    BY <2>1, <2>4, <2>5, OneLinks
<1>5. CASE Link
  BY <1>5, LinkLinks
<1>6. CASE SetDefault \/ DropDefault \/ LinkDefault
  <2>1. \A k \in DOMAIN task'.todo : task'.todo[k].op # "link"
    BY <1>6, DefaultLeaves
  <2> QED
    BY <2>1 DEF Linking
<1>7. CASE Staying
  <2>1. UNCHANGED <<setup, links, states, task>>
    BY <1>7, StayingFrame
  <2>2. Range(Considered)' = Range(Considered) /\ \A u : IsEnabled(u)' <=> IsEnabled(u)
    BY <2>1, SameStates, SameEnabling DEF states
  <2> QED
    BY <2>1, <2>2 DEF Linking
<1>8. CASE Answer \/ Receive \/ Boot \/ Repair \/ Ending
  BY <1>8, FirstLeaves DEF Linking
<1> QED
  BY <1>1, <1>2, <1>3, <1>4, <1>5, <1>6, <1>7, <1>8 DEF Writing
-----------------------------------------------------------------------------
(* The array and the links. *)
LEMMA AgreeingStays ==
  ASSUME Agreeing, failed' = 0 => failed = 0, setup' = setup, default' = default, links' = links,
         \A v \in Units : mem'[v] # None =>
           \/ mem'[v].enabled <=> IsEnabled(v)
           \/ /\ mem[v] # None /\ mem'[v].enabled = mem[v].enabled
              /\ task' = task \/ (~HeadOf("link", v) /\ ~HeadOf("unlink", v))
  PROVE  Agreeing'
<1> SUFFICES ASSUME failed' = 0, NEW v \in Units, mem'[v] # None
             PROVE  /\ mem'[v].enabled => IsEnabled(v)' \/ HeadOf("link", v)'
                    /\ IsEnabled(v)' => mem'[v].enabled \/ HeadOf("unlink", v)'
  BY DEF Agreeing
<1>1. IsEnabled(v)' <=> IsEnabled(v)
  BY SameEnabling
<1>2. CASE mem'[v].enabled <=> IsEnabled(v)
  BY <1>1, <1>2
<1>3. CASE /\ mem[v] # None /\ mem'[v].enabled = mem[v].enabled
           /\ task' = task \/ (~HeadOf("link", v) /\ ~HeadOf("unlink", v))
  <2>1. /\ mem[v].enabled => IsEnabled(v) \/ HeadOf("link", v)
        /\ IsEnabled(v) => mem[v].enabled \/ HeadOf("unlink", v)
    BY <1>3 DEF Agreeing
  <2>2. CASE ~HeadOf("link", v) /\ ~HeadOf("unlink", v)
    BY <1>1, <1>3, <2>1, <2>2
  <2>3. CASE task' = task
    BY <1>1, <1>3, <2>1, <2>3 DEF HeadOf, HeadOp
  <2> QED
    BY <1>3, <2>2, <2>3
<1> QED
  BY <1>2, <1>3

LEMMA NotAtLinks ==
  ASSUME Serving, task.todo # <<>> => Step.op \notin {"link", "unlink"}
  PROVE  \A v : ~HeadOf("link", v) /\ ~HeadOf("unlink", v)
<1>1. CASE task.todo = <<>>
  BY <1>1 DEF HeadOf, HeadOp
<1>2. CASE task.todo # <<>>
  BY <1>2, AtStep DEF HeadOf, HeadOp
<1> QED
  BY <1>1, <1>2

(* The requests that change neither links nor what the array says of them. *)
LEMMA UnflaggedAgrees ==
  ASSUME DiskTypes, DiskTypes', Serving, Agreeing, Effects, Unflagged,
         setup' = setup, default' = default, links' = links,
         task' = task \/ (task.todo # <<>> => Step.op \notin {"link", "unlink"})
  PROVE  Agreeing'
<1>1. failed' = 0 => failed = 0
  BY TellingTypes
<1>2. \A v \in Units : mem'[v] # None => mem[v] # None /\ mem'[v].enabled = mem[v].enabled
  BY DEF Unflagged
<1>3. task' = task \/ \A v : ~HeadOf("link", v) /\ ~HeadOf("unlink", v)
  BY NotAtLinks
<1> QED
  BY <1>1, <1>2, <1>3, AgreeingStays

LEMMA UnlinkAgrees ==
  ASSUME DiskTypes, ArrayTypes, LoopTypes, Serving, Living, Planning, Unlinking, Agreeing, Unlink,
         DiskTypes', Effects
  PROVE  Agreeing'
<1>1. At("unlink") /\ setup' = setup /\ default' = default
  BY DEF Unlink, states
<1>2. PICK u \in Units : /\ task.todo # <<>> /\ u = Step.unit /\ Step.op = "unlink" /\ Step \in Steps
                         /\ Step = task.todo[1] /\ 1 \in DOMAIN task.todo
  BY <1>1, AtUnit
<1>3. PICK left \in Seq(UnitStates) : left = Step.left
  BY <1>2, StepTypes
<1>4. Considered' = Considered
  BY <1>1, SameStates
<1>5. \A s \in Range(Considered) : <<u, s>> \in links => s \in Range(left)
  BY <1>2, <1>3 DEF Unlinking, HeadOp
<1>6. UnlinkLeaves(u, left)
  BY <1>2, <1>3, UnlinkLeavesTo
<1>7. /\ \A v \in Units : v # u => Same(v)
      /\ \/ Same(u) /\ links' = links /\ failed' = failed /\ left = <<>>
         \/ Same(u) /\ links' = links /\ failed' = failed /\ left # <<>>
         \/ /\ Flagged(u, FALSE) /\ links' = links \ {<<u, Head(left)>>}
            /\ failed' = failed /\ left # <<>>
         \/ Fails
  BY <1>2, <1>3, UnlinkDoes
<1>8. \A v \in Units : v # u => ~HeadOf("link", v) /\ ~HeadOf("unlink", v)
  BY <1>2 DEF HeadOf
<1>9. ~HeadOf("link", u)
  BY <1>2 DEF HeadOf, HeadOp
<1>10. CASE Fails
  <2>1. failed' # 0
    BY <1>10, FailsMore, TellingTypes
  <2> QED
    BY <2>1 DEF Agreeing
<1>11. CASE Same(u) /\ links' = links /\ failed' = failed /\ left = <<>>
  <2>0. Range(left) = {}
    BY <1>11 DEF Range
  <2>1. ~IsEnabled(u)
    BY <1>5, <2>0 DEF IsEnabled
  <2>2. CASE failed' = 0
    <3>1. \A v \in Units : mem'[v] # None => mem[v] # None /\ mem'[v].enabled = mem[v].enabled
      BY <1>7, <1>11 DEF Same
    <3>2. mem[u] # None => (mem[u].enabled <=> IsEnabled(u))
      BY <1>9, <1>11, <2>1, <2>2 DEF Agreeing
    <3>3. mem'[u] # None => (mem'[u].enabled <=> IsEnabled(u))
      BY <3>1, <3>2
    <3>4. setup' = setup /\ default' = default /\ links' = links
      BY <1>1, <1>11
    <3>5. failed' = 0 => failed = 0
      BY <1>11
    <3> QED
      BY <1>8, <3>1, <3>3, <3>4, <3>5, AgreeingStays
  <2>3. CASE failed' # 0
    BY <2>3 DEF Agreeing
  <2> QED
    BY <2>2, <2>3
<1>12. CASE failed' = failed /\ left # <<>>
  <2>1. ~Fails
    BY <1>12, FailsMore
  <2>2. PICK x \in Steps : /\ x.op = "unlink" /\ x.unit = u
                           /\ task'.todo = <<x>> \o Tail(task.todo)
    BY <1>6, <1>12, <2>1 DEF UnlinkLeaves
  <2>3. 1 \in DOMAIN task'.todo /\ task'.todo[1] = x
    BY <1>2, <2>2, OneLeft
  <2>4. HeadOf("unlink", u)'
    BY <2>2, <2>3 DEF HeadOf, HeadOp
  <2> SUFFICES ASSUME failed' = 0, NEW v \in Units, mem'[v] # None
               PROVE  /\ mem'[v].enabled => IsEnabled(v)' \/ HeadOf("link", v)'
                      /\ IsEnabled(v)' => mem'[v].enabled \/ HeadOf("unlink", v)'
    BY DEF Agreeing
  <2>5. CASE v = u
    <3>1. CASE Flagged(u, FALSE)
      BY <2>4, <2>5, <3>1 DEF Flagged
    <3>2. CASE Same(u) /\ links' = links
      <4>1. mem[u] # None /\ mem'[u].enabled = mem[u].enabled
        BY <2>5, <3>2 DEF Same
      <4>2. mem[u].enabled => IsEnabled(u)
        BY <1>9, <1>12, <4>1 DEF Agreeing
      <4>3. IsEnabled(u)' <=> IsEnabled(u)
        BY <1>1, <3>2, SameEnabling
      <4> QED
        BY <2>4, <2>5, <4>1, <4>2, <4>3
    <3> QED
      BY <1>7, <1>12, <2>1, <3>1, <3>2
  <2>6. CASE v # u
    <3>1. mem[v] # None /\ mem'[v].enabled = mem[v].enabled
      BY <1>7, <2>6 DEF Same
    <3>2. mem[v].enabled <=> IsEnabled(v)
      BY <1>8, <1>12, <2>6, <3>1 DEF Agreeing
    <3>3. \A s : <<v, s>> \in links' <=> <<v, s>> \in links
      BY <1>7, <1>12, <2>1, <2>6
    <3>4. IsEnabled(v)' <=> IsEnabled(v)
      BY <1>4, <3>3 DEF IsEnabled
    <3> QED
      BY <3>1, <3>2, <3>4
  <2> QED
    BY <2>5, <2>6
<1> QED
  BY <1>7, <1>10, <1>11, <1>12

LEMMA LinkAgrees ==
  ASSUME DiskTypes, ArrayTypes, LoopTypes, Serving, Living, Planning, Linking, Agreeing, Link,
         DiskTypes', Effects
  PROVE  Agreeing'
<1>1. At("link") /\ setup' = setup /\ default' = default
  BY DEF Link, states
<1>2. PICK u \in Units : /\ task.todo # <<>> /\ u = Step.unit /\ Step.op = "link" /\ Step \in Steps
                         /\ Step = task.todo[1] /\ 1 \in DOMAIN task.todo
  BY <1>1, AtUnit
<1>3. PICK left \in Seq(UnitStates) : left = Step.left
  BY <1>2, StepTypes
<1>4. Considered' = Considered
  BY <1>1, SameStates
<1>5. Range(left) \cap Range(Considered) # {} \/ IsEnabled(u)
  BY <1>2, <1>3 DEF Linking
<1>6. /\ \A v \in Units : v # u => Same(v)
      /\ \/ Same(u) /\ links' = links /\ failed' = failed /\ left = <<>>
         \/ /\ Flagged(u, TRUE) /\ links' = links \cup {<<u, Head(left)>>}
            /\ failed' = failed /\ left # <<>>
            /\ Do(<<[Step EXCEPT !.left = Tail(@)]>>)
         \/ Fails
  BY <1>2, <1>3, LinkDoes
<1>7. \A v \in Units : v # u => ~HeadOf("link", v) /\ ~HeadOf("unlink", v)
  BY <1>2 DEF HeadOf
<1>8. ~HeadOf("unlink", u)
  BY <1>2 DEF HeadOf, HeadOp
<1>9. CASE Fails
  <2>1. failed' # 0
    BY <1>9, FailsMore, TellingTypes
  <2> QED
    BY <2>1 DEF Agreeing
<1>10. CASE Same(u) /\ links' = links /\ failed' = failed /\ left = <<>>
  <2>1. IsEnabled(u)
    <3>1. Range(left) = {}
      BY <1>10 DEF Range
    <3> QED
      BY <1>5, <3>1
  <2>2. CASE failed' = 0
    <3>1. \A v \in Units : mem'[v] # None => mem[v] # None /\ mem'[v].enabled = mem[v].enabled
      BY <1>6, <1>10 DEF Same
    <3>2. mem[u] # None => (mem[u].enabled <=> IsEnabled(u))
      BY <1>8, <1>10, <2>1, <2>2, <3>1, Zenon DEF Agreeing
    <3>3. mem'[u] # None => (mem'[u].enabled <=> IsEnabled(u))
      BY <3>1, <3>2
    <3>4. setup' = setup /\ default' = default /\ links' = links
      BY <1>1, <1>10
    <3>5. failed' = 0 => failed = 0
      BY <1>10
    <3> QED
      BY <1>7, <3>1, <3>3, <3>4, <3>5, AgreeingStays
  <2>3. CASE failed' # 0
    BY <2>3 DEF Agreeing
  <2> QED
    BY <2>2, <2>3
<1>11. CASE /\ Flagged(u, TRUE) /\ links' = links \cup {<<u, Head(left)>>}
            /\ failed' = failed /\ left # <<>>
            /\ Do(<<[Step EXCEPT !.left = Tail(@)]>>)
  <2>0. /\ Flagged(u, TRUE) /\ links' = links \cup {<<u, Head(left)>>} /\ failed' = failed
        /\ Do(<<[Step EXCEPT !.left = Tail(@)]>>) /\ left # <<>>
    BY <1>11, Zenon
  <2>1. task'.todo = <<[Step EXCEPT !.left = Tail(@)]>> \o Tail(task.todo)
    BY <2>0, Doing
  <2>2. PICK t \in Seq(UnitStates) : t = Tail(left)
    <3>1. Tail(left) \in Seq(UnitStates)
      BY <1>3, <2>0, RangeOfTail
    <3> QED
      BY <3>1, Zenon
  <2>3. PICK x : x = [op |-> "link", unit |-> u, left |-> t]
    OBVIOUS
  <2>4. x \in Steps /\ x.op = "link" /\ x.unit = u
    BY <2>3 DEF Steps
  <2>5. task'.todo = <<x>> \o Tail(task.todo)
    <3>1. Step = [op |-> "link", unit |-> u, left |-> left]
      BY <1>2, <1>3, StepTypes
    <3>2. [Step EXCEPT !.left = t] = [op |-> "link", unit |-> u, left |-> t]
      BY <3>1
    <3>3. Tail(Step.left) = t
      BY <1>3, <2>2, Zenon
    <3> QED
      BY <2>1, <2>3, <3>2, <3>3, Zenon
  <2>6. 1 \in DOMAIN task'.todo /\ task'.todo[1] = x
    BY <1>2, <2>4, <2>5, OneLeft
  <2>7. HeadOf("link", u)'
    BY <2>4, <2>6 DEF HeadOf, HeadOp
  <2> SUFFICES ASSUME failed' = 0, NEW v \in Units, mem'[v] # None
               PROVE  /\ mem'[v].enabled => IsEnabled(v)' \/ HeadOf("link", v)'
                      /\ IsEnabled(v)' => mem'[v].enabled \/ HeadOf("unlink", v)'
    BY DEF Agreeing
  <2>8. CASE v = u
    BY <2>0, <2>7, <2>8 DEF Flagged
  <2>9. CASE v # u
    <3>1. mem[v] # None /\ mem'[v].enabled = mem[v].enabled
      BY <1>6, <2>9 DEF Same
    <3>2. mem[v].enabled <=> IsEnabled(v)
      BY <1>7, <2>0, <2>9, <3>1 DEF Agreeing
    <3>3. \A s : <<v, s>> \in links' <=> <<v, s>> \in links
      BY <2>0, <2>9
    <3>4. IsEnabled(v)' <=> IsEnabled(v)
      BY <1>4, <3>3 DEF IsEnabled
    <3> QED
      BY <3>1, <3>2, <3>4
  <2> QED
    BY <2>8, <2>9
<1> QED
  BY <1>6, <1>9, <1>10, <1>11

LEMMA BootAgrees ==
  ASSUME DiskTypes, Boot
  PROVE  Agreeing'
<1>1. /\ UNCHANGED disk
      /\ \E loaded \in SUBSET Units, order \in Seq(Units) : BootLeaves(loaded, order)
  BY BootDoes
<1>2. PICK loaded \in SUBSET Units, order \in Seq(Units) : BootLeaves(loaded, order)
  BY <1>1
<1>3. \A v \in Units : mem'[v] # None => mem'[v].enabled /\ <<v, Current'>> \in links
  BY <1>2 DEF BootLeaves
<1>4. Current' \in Range(Considered)'
  BY DEF Considered, Range
<1>5. \A v \in Units : mem'[v] # None => mem'[v].enabled /\ IsEnabled(v)'
  BY <1>1, <1>3, <1>4 DEF IsEnabled, disk
<1> QED
  BY <1>5 DEF Agreeing
-----------------------------------------------------------------------------
(* All steps together. *)

(* What the steps need of the invariant to keep its shape. *)
Sound == DiskTypes /\ ArrayTypes /\ LoopTypes /\ Serving /\ Living /\ Planning

LEMMA TypesAre == TypeOK <=> DiskTypes /\ ArrayTypes /\ LoopTypes
BY DEF TypeOK, DiskTypes, ArrayTypes, LoopTypes

LEMMA NextIs ==
  ASSUME Next
  PROVE  \/ Working \/ Unlink \/ Link \/ SetDefault \/ DropDefault \/ LinkDefault
         \/ Answer \/ Accept \/ Receive \/ Signal \/ Repair \/ Boot \/ Ending \/ Meanwhile
BY DEF Next, Handler, Working, Ending, Meanwhile

LEMMA WorkingIs ==
  ASSUME Working
  PROVE  Plainly \/ DisableUnit \/ Verify
BY DEF Working, Plainly

LEMMA StepEffects ==
  ASSUME Sound, Next
  PROVE  Effects
<1>1. DiskTypes /\ ArrayTypes /\ LoopTypes /\ Serving /\ Living /\ Planning
  BY DEF Sound
<1>2. CASE Working
  <2>1. CASE StopDead \/ StopUnit \/ Kill \/ Clear \/ StopAll
    BY <1>1, <2>1, StopDeadEffects, StopUnitEffects, KillEffects, ClearEffects, StopAllEffects
  <2>2. CASE Load \/ Add \/ Run \/ Verify \/ VerifyRequires
    BY <1>1, <2>2, LoadEffects, AddEffects, RunEffects, VerifyEffects
  <2>3. CASE StartUnit \/ DisableUnit \/ EnableUnit \/ Check \/ Show
    BY <1>1, <2>3, QuietEffects
  <2> QED
    BY <1>2, <2>1, <2>2, <2>3 DEF Working
<1>3. CASE Unlink \/ Link
  BY <1>1, <1>3, LinkingEffects
<1>4. CASE SetDefault \/ DropDefault \/ LinkDefault \/ Answer \/ Accept \/ Receive \/ Signal \/ Repair
  BY <1>1, <1>4, QuietEffects
<1>5. CASE Boot
  BY <1>1, <1>5, BootEffects
<1>6. CASE Ending
  BY <1>6, EndingIsOff, OffEffects
<1>7. CASE Meanwhile
  BY <1>1, <1>7, MeanwhileEffects
<1> QED
  BY <1>2, <1>3, <1>4, <1>5, <1>6, <1>7, NextIs

LEMMA StepPlans ==
  ASSUME Sound, Linking, Next
  PROVE  Planning' /\ task'.todo \in Seq(Steps)
<1>1. DiskTypes /\ ArrayTypes /\ LoopTypes /\ Serving /\ Living /\ Planning
  BY DEF Sound
<1>2. CASE Working
  <2>1. CASE Plainly
    BY <1>1, <2>1, PlainlyPlans
  <2>2. CASE DisableUnit \/ Verify
    BY <1>1, <2>2, DisableUnitPlans, VerifyPlans
  <2> QED
    BY <1>2, <2>1, <2>2, WorkingIs
<1>3. CASE Unlink \/ Link
  BY <1>1, <1>3, UnlinkPlans, LinkPlans
<1>4. CASE SetDefault \/ DropDefault \/ LinkDefault
  BY <1>1, <1>4, SetDefaultPlans, DropDefaultPlans, LinkDefaultPlans
<1>5. CASE Answer \/ Ending
  BY <1>5, AnswerPlans DEF Ending
<1>6. CASE Receive \/ Boot
  BY <1>1, <1>6, ReceivePlans, BootPlans
<1>7. CASE Accept \/ Signal \/ Repair
  BY <1>1, <1>7, QuietPlans
<1>8. CASE Meanwhile
  <2>1. task' = task
    BY <1>1, <1>8, MeanwhileFrame
  <2> QED
    BY <1>1, <1>8, <2>1, MeanwhilePlanning DEF Serving
<1> QED
  BY <1>2, <1>3, <1>4, <1>5, <1>6, <1>7, <1>8, NextIs

LEMMA StepTyped ==
  ASSUME Sound, Next, task'.todo \in Seq(Steps)
  PROVE  DiskTypes' /\ LoopTypes' /\ Serving'
<1>1. DiskTypes /\ ArrayTypes /\ LoopTypes /\ Serving /\ Living /\ Planning
  BY DEF Sound
<1>2. CASE Working
  <2>1. DiskTypes' /\ Handled /\ UNCHANGED loop
    BY <1>1, <1>2, WorkingTypes, WorkingHandles, WorkingFrame
  <2> QED
    BY <1>1, <2>1, HandlersServe
<1>3. CASE Writing
  <2>1. DiskTypes' /\ Handled /\ UNCHANGED loop
    BY <1>1, <1>3, WritingTypes, WritingFrame
  <2> QED
    BY <1>1, <2>1, HandlersServe
<1>4. CASE Accept \/ Receive \/ Answer \/ Signal \/ Repair \/ Boot
  BY <1>1, <1>4, ClientTypes
<1>5. CASE Ending
  BY <1>1, <1>5, EndingIsOff, OffTypes
<1>6. CASE Meanwhile
  BY <1>1, <1>6, MeanwhileServes, MeanwhileFrame
<1> QED
  BY <1>2, <1>3, <1>4, <1>5, <1>6, NextIs DEF Writing

LEMMA StepTells ==
  ASSUME Sound, Telling, Next, Effects, DiskTypes'
  PROVE  Telling'
<1>1. DiskTypes /\ ArrayTypes /\ LoopTypes /\ Serving /\ Living /\ Planning
  BY DEF Sound
<1>2. CASE Working \/ Unlink \/ Link
  <2>1. Plain \/ DisableUnit \/ Verify \/ Unlink \/ Link
    BY <1>1, <1>2, WorkingIs, PlainlyPlans
  <2> QED
    BY <1>1, <1>2, <2>1, WorkingTells
<1>3. CASE SetDefault
  BY <1>1, <1>3, SetDefaultTells
<1>4. CASE DropDefault
  BY <1>1, <1>4, DropDefaultTells
<1>5. CASE LinkDefault
  BY <1>1, <1>5, LinkDefaultTells
<1>6. CASE Meanwhile \/ Answer \/ Accept \/ Receive \/ Signal \/ Repair \/ Boot \/ Ending
  BY <1>1, <1>6, OthersTell
<1> QED
  BY <1>2, <1>3, <1>4, <1>5, <1>6, NextIs

LEMMA StepIs ==
  ASSUME Next
  PROVE  \/ Plainly \/ DisableUnit \/ Verify \/ Writing \/ Staying
         \/ Answer \/ Receive \/ Boot \/ Repair \/ Ending
BY NextIs, WorkingIs DEF Writing, Staying

LEMMA StepLinks ==
  ASSUME Sound, Unlinking, Linking, Next
  PROVE  Unlinking' /\ Linking'
BY StepIs, UnlinkingStays, LinkingStays DEF Sound

(* Whatever else is done changes neither the links nor the flags.          *)
LEMMA WorkingAgrees ==
  ASSUME Sound, Agreeing, Effects, DiskTypes', Working
  PROVE  Agreeing'
<1>1. DiskTypes /\ ArrayTypes /\ LoopTypes /\ Serving /\ Living /\ Planning
  BY DEF Sound
<1>2. setup' = setup /\ default' = default /\ links' = links
  BY <1>1, WorkingFrame DEF disk, states
<1>3. task.todo # <<>> => Step.op \notin {"link", "unlink"}
  BY <1>1, WorkingAt
<1>4. CASE Add
  <2>1. \A v \in Units : mem'[v] # None =>
          (mem[v] # None /\ mem'[v].enabled = mem[v].enabled) \/ (mem'[v].enabled <=> IsEnabled(v))
    BY <1>1, <1>4, AddEffects
  <2>2. \A v : ~HeadOf("link", v) /\ ~HeadOf("unlink", v)
    BY <1>1, <1>3, NotAtLinks
  <2>3. failed' = 0 => failed = 0
    BY <1>1, TellingTypes
  <2> QED
    BY <1>2, <2>1, <2>2, <2>3, AgreeingStays
<1>5. CASE ~Add
  <2>4. Unflagged
    <3>1. CASE StopDead \/ StopUnit \/ Kill \/ Clear \/ StopAll
      BY <1>1, <3>1, StopDeadEffects, StopUnitEffects, KillEffects, ClearEffects, StopAllEffects
    <3>2. CASE Load \/ Run \/ Verify \/ VerifyRequires
      BY <1>1, <3>2, LoadEffects, RunEffects, VerifyEffects
    <3>3. CASE StartUnit \/ DisableUnit \/ EnableUnit \/ Check \/ Show
      BY <1>1, <3>3, QuietEffects
    <3> QED
      BY <1>5, <3>1, <3>2, <3>3 DEF Working
  <2> QED
    BY <1>1, <1>2, <1>3, <2>4, UnflaggedAgrees
<1> QED
  BY <1>4, <1>5

LEMMA StepAgrees ==
  ASSUME Sound, Unlinking, Linking, Agreeing, Next, Effects, DiskTypes'
  PROVE  Agreeing'
<1>1. DiskTypes /\ ArrayTypes /\ LoopTypes /\ Serving /\ Living /\ Planning
  BY DEF Sound
<1>2. CASE Working
  BY <1>2, WorkingAgrees
<1>3. CASE Unlink
  BY <1>1, <1>3, UnlinkAgrees
<1>4. CASE Link
  BY <1>1, <1>4, LinkAgrees
<1>5. CASE SetDefault \/ DropDefault \/ LinkDefault
  <2>1. setup' = setup /\ default' = default /\ links' = links
    BY <1>5 DEF SetDefault, DropDefault, LinkDefault, disk, states
  <2>2. Step.op \notin {"link", "unlink"}
    BY <1>5 DEF SetDefault, DropDefault, LinkDefault, At, Step
  <2>3. Unflagged
    BY <1>1, <1>5, QuietEffects
  <2> QED
    BY <1>1, <2>1, <2>2, <2>3, UnflaggedAgrees
<1>6. CASE Answer \/ Receive \/ Repair \/ Accept \/ Signal
  <2>1. setup' = setup /\ default' = default /\ links' = links
    BY <1>1, <1>6, ReceiveDoes DEF Answer, Repair, Accept, Signal, disk, states
  <2>2. task' = task \/ task.todo = <<>>
    BY <1>1, <1>6, ReceiveDoes DEF Answer, Answering, Repair, Accept, Signal, Idle
  <2>3. Unflagged
    BY <1>1, <1>6, QuietEffects
  <2> QED
    BY <1>1, <2>1, <2>2, <2>3, UnflaggedAgrees
<1>7. CASE Boot
  BY <1>1, <1>7, BootAgrees
<1>8. CASE Ending
  BY <1>8, EndingIsOff DEF Off, Agreeing
<1>9. CASE Meanwhile
  <2>1. setup' = setup /\ default' = default /\ links' = links /\ task' = task
    BY <1>1, <1>9, MeanwhileFrame DEF states
  <2>2. Unflagged
    BY <1>1, <1>9, MeanwhileEffects
  <2> QED
    BY <1>1, <2>1, <2>2, UnflaggedAgrees
<1> QED
  BY <1>2, <1>3, <1>4, <1>5, <1>6, <1>7, <1>8, <1>9, NextIs
-----------------------------------------------------------------------------
(* The inductive invariant.                                                *)

LEMMA Initially == Init => IInv
<1> SUFFICES ASSUME Init PROVE IInv
  OBVIOUS
<1>1. \A s \in Setups : /\ s.conf \in [Units -> Seq(ConfType) \ {<<>>}]
                        /\ s.default \in Levels /\ s.links \subseteq Units \X UnitStates
                        /\ s.fails \in Nat
  BY ServerAssumption
<1>2. MaxFds \in Nat \ {0} /\ Slots \in Nat \ {0, 1}
  BY ServerAssumption
<1>3. DiskTypes
  <2>1. \A u \in Units : 1 \in DOMAIN setup.conf[u]
    <3> SUFFICES ASSUME NEW u \in Units PROVE 1 \in DOMAIN setup.conf[u]
      OBVIOUS
    <3>1. setup.conf[u] \in Seq(ConfType) /\ setup.conf[u] # <<>>
      BY <1>1 DEF Init
    <3> QED
      BY <3>1
  <2>2. failed \in 0..setup.fails
    BY <1>1 DEF Init
  <2> QED
    BY <1>1, <2>1, <2>2 DEF Init, DiskTypes
<1>4. ArrayTypes
  BY DEF Init, ArrayTypes
<1>5. LoopTypes
  <2>1. 0 \in 0..MaxFds /\ 0 \in 0..(Slots - 1)
    BY <1>2
  <2> QED
    BY <2>1 DEF Init, LoopTypes
<1>6. Serving
  BY DEF Init, Serving, Idle
<1>7. Living /\ Shapes /\ Versions /\ StaleIsMarked /\ ConflictsExclude
  BY DEF Init, Living, Shapes, Versions, StaleIsMarked, ConflictsExclude
<1>8. ProcessesAreKnown
  BY DEF Init, ProcessesAreKnown
<1>9. Planning /\ Unlinking /\ Linking
  BY DEF Init, Idle, Planning, Ordered, Unlinking, Linking, HeadOp
<1>10. Telling /\ Agreeing
  BY DEF Init, Idle, Telling, Agreeing, HeadOp
<1> QED
  BY <1>3, <1>4, <1>5, <1>6, <1>7, <1>8, <1>9, <1>10, TypesAre DEF IInv

LEMMA NextKeeps ==
  ASSUME IInv, Next
  PROVE  IInv'
<1>1. Sound
  BY TypesAre DEF IInv, Sound
<1>2. /\ Shapes /\ Versions /\ ProcessesAreKnown /\ StaleIsMarked /\ ConflictsExclude
      /\ Telling /\ Agreeing /\ Unlinking /\ Linking
  BY DEF IInv
<1>3. DiskTypes /\ ArrayTypes /\ Living
  BY <1>1 DEF Sound
<1>4. Effects
  BY <1>1, StepEffects
<1>5. ArrayTypes'
  BY <1>4 DEF Effects
<1>6. Planning' /\ task'.todo \in Seq(Steps)
  BY <1>1, <1>2, StepPlans
<1>7. DiskTypes' /\ LoopTypes' /\ Serving'
  BY <1>1, <1>6, StepTyped
<1>8. Living' /\ Shapes' /\ Versions'
  BY <1>2, <1>3, <1>4, LivingStays, ShapesStay, VersionsStay
<1>9. ProcessesAreKnown' /\ StaleIsMarked' /\ ConflictsExclude'
  BY <1>2, <1>3, <1>4, ProcessesStayKnown, StaleStaysMarked, ConflictsStayExcluded
<1>10. Telling'
  BY <1>1, <1>2, <1>4, <1>7, StepTells
<1>11. Unlinking' /\ Linking'
  BY <1>1, <1>2, StepLinks
<1>12. Agreeing'
  BY <1>1, <1>2, <1>4, <1>7, StepAgrees
<1>13. TypeOK'
  BY <1>5, <1>7 DEF TypeOK, DiskTypes, ArrayTypes, LoopTypes
<1> QED
  BY <1>6, <1>7, <1>8, <1>9, <1>10, <1>11, <1>12, <1>13 DEF IInv

LEMMA StuttersKeep ==
  ASSUME IInv, UNCHANGED vars
  PROVE  IInv'
<1>1. UNCHANGED <<setup, file, links, dflt, pending, mem, alive, orphans, default, newDefault, task,
                  open, watched, up, shutdown, failed, missed>>
  BY DEF vars, disk, procs, states, loop
<1>2. TypeOK' /\ Serving'
  BY <1>1 DEF IInv, TypeOK, Serving
<1>3. Living' /\ Shapes' /\ Versions'
  BY <1>1 DEF IInv, Living, Shapes, Versions, Loaded, Conf
<1>4. ProcessesAreKnown' /\ StaleIsMarked' /\ ConflictsExclude'
  BY <1>1 DEF IInv, ProcessesAreKnown, StaleIsMarked, ConflictsExclude, Loaded, Conf
<1>5. Range(Considered)' = Range(Considered) /\ \A u : IsEnabled(u)' <=> IsEnabled(u)
  BY <1>1, SameStates, SameEnabling
<1>6. Telling' /\ Agreeing'
  BY <1>1, <1>5 DEF IInv, Telling, Agreeing, HeadOp, HeadOf
<1>7. Unlinking' /\ Linking'
  BY <1>1, <1>5 DEF IInv, Unlinking, Linking, HeadOp
<1>8. Planning'
  <2>1. Feasible' = Feasible
    BY <1>1, <1>5 DEF Feasible, Ready, Leaving, Settled, ToKill, ToStop, MidRestart
  <2> QED
    BY <1>1, <2>1 DEF IInv, Planning, Ordered
<1> QED
  BY <1>2, <1>3, <1>4, <1>6, <1>7, <1>8 DEF IInv

(* The inductive invariant holds in every state the instance reaches. *)
THEOREM Invariance == Spec => []IInv
<1>1. IInv /\ [Next]_vars => IInv'
  BY NextKeeps, StuttersKeep
<1> QED
  BY <1>1, Initially, PTL DEF Spec
-----------------------------------------------------------------------------
(* Every variable keeps its type: no unit without a version of its file, no*)
(* process of a unit that is not in the array, never more clients than     *)
(* descriptors or monitored slots.                                         *)
THEOREM Typing == Spec => []TypeOK
<1>1. IInv => TypeOK
  BY DEF IInv
<1> QED
  BY <1>1, Invariance, PTL

(* No unit is released while its process is alive, but when a command that *)
(* should have stopped it could not be executed: whatever stop, start,     *)
(* restart, enable and disable do, in whatever order and however the units *)
(* die meanwhile.                                                          *)
THEOREM NoProcessIsLost == Spec => []ProcessesAreKnown
<1>1. IInv => ProcessesAreKnown
  BY DEF IInv
<1> QED
  BY <1>1, Invariance, PTL

(* Units that exclude each other never run together, whether a request, a  *)
(* forced enabling, a listener or the boot has started them.               *)
THEOREM ConflictsNeverRun == Spec => []ConflictsExclude
<1>1. IInv => ConflictsExclude
  BY DEF IInv
<1> QED
  BY <1>1, Invariance, PTL

(* A unit whose file has changed since it was loaded is marked, but when   *)
(* the notifier has looked for it between the parsing of the file and      *)
(* arrayAdd.                                                               *)
THEOREM ChangesAreMarked == Spec => []StaleIsMarked
<1>1. IInv => StaleIsMarked
  BY DEF IInv
<1> QED
  BY <1>1, Invariance, PTL

(* While no request is served and no script has failed, get-default tells  *)
(* where default.state points to.                                          *)
THEOREM DefaultsAreTold == Spec => []DefaultIsTold
<1>1. IInv => DefaultIsTold
  <2> SUFFICES ASSUME IInv, Quiet PROVE dflt = IF newDefault # None THEN newDefault ELSE default
    BY DEF DefaultIsTold
  <2>1. up /\ task.todo = <<>> /\ failed = 0
    BY DEF Quiet, Waiting, Idle
  <2>2. ~HeadOp({"rm", "ln"})
    BY <2>1 DEF HeadOp
  <2> QED
    BY <2>1, <2>2 DEF IInv, Telling
<1> QED
  BY <1>1, Invariance, PTL

(* While no request is served and no script has failed, the array and the  *)
(* links say the same of every unit.                                       *)
THEOREM LinksAreKnown == Spec => []EnabledIsLinked
<1>1. IInv => EnabledIsLinked
  <2> SUFFICES ASSUME IInv, Quiet, NEW u \in Units, mem[u] # None
               PROVE  mem[u].enabled <=> IsEnabled(u)
    BY DEF EnabledIsLinked
  <2>1. task.todo = <<>> /\ failed = 0
    BY DEF Quiet, Waiting, Idle
  <2>2. ~HeadOf("link", u) /\ ~HeadOf("unlink", u)
    BY <2>1 DEF HeadOf, HeadOp
  <2> QED
    BY <2>1, <2>2 DEF IInv, Agreeing
<1> QED
  BY <1>1, Invariance, PTL

(* Every unit is in exactly one list that unitctl shows, and in none only  *)
(* while it is being restarted.                                            *)
THEOREM UnitsAreListedOnce == Spec => []ListsCover
<1>1. IInv => ListsCover
  <2> SUFFICES ASSUME IInv, Waiting, NEW u \in Units
               PROVE  LET lists == {f \in {"started", "dead", "failed"} :
                                CASE f = "started" -> InStarted(u)
                                  [] f = "dead"    -> InDead(u)
                                  [] f = "failed"  -> InFailed(u)} IN
                      Cardinality(lists) = IF MidRestart(u) THEN 0 ELSE 1
    BY DEF ListsCover
  <2> DEFINE lists == {f \in {"started", "dead", "failed"} :
                         CASE f = "started" -> InStarted(u)
                           [] f = "dead"    -> InDead(u)
                           [] f = "failed"  -> InFailed(u)}
  <2>1. /\ "started" \in lists <=> InStarted(u)
        /\ "dead" \in lists <=> InDead(u)
        /\ "failed" \in lists <=> InFailed(u)
        /\ lists \subseteq {"started", "dead", "failed"}
    OBVIOUS
  <2> HIDE DEF lists
  <2>2. /\ mem[u] # None => mem[u] \in Memory
        /\ mem[u] # None =>
             \/ mem[u].state = "dead"
             \/ mem[u].state \in {"running", "exited"} /\ mem[u].final # "ready"
             \/ mem[u].state = "killed" /\ mem[u].final = "failure"
             \/ mem[u].state = "restarting" /\ mem[u].final # "success"
    BY DEF IInv, TypeOK, Shapes
  <2>3. CASE MidRestart(u)
    <3>1. ~InStarted(u) /\ ~InDead(u) /\ ~InFailed(u)
      BY <2>3 DEF MidRestart, InStarted, InDead, InFailed, ListsAs
    <3>2. lists = {}
      BY <2>1, <3>1
    <3> QED
      BY <2>3, <3>2, FS_EmptySet DEF lists
  <2>4. CASE ~MidRestart(u)
    <3>1. \E f : lists = {f}
      <4>1. \/ InStarted(u) /\ ~InDead(u) /\ ~InFailed(u)
            \/ ~InStarted(u) /\ InDead(u) /\ ~InFailed(u)
            \/ ~InStarted(u) /\ ~InDead(u) /\ InFailed(u)
        BY <2>2, <2>4 DEF MidRestart, InStarted, InDead, InFailed, ListsAs, PStates, Memory
      <4>2. CASE InStarted(u) /\ ~InDead(u) /\ ~InFailed(u)
        <5>1. lists = {"started"}
          BY <2>1, <4>2
        <5> QED
          BY <5>1
      <4>3. CASE ~InStarted(u) /\ InDead(u) /\ ~InFailed(u)
        <5>1. lists = {"dead"}
          BY <2>1, <4>3
        <5> QED
          BY <5>1
      <4>4. CASE ~InStarted(u) /\ ~InDead(u) /\ InFailed(u)
        <5>1. lists = {"failed"}
          BY <2>1, <4>4
        <5> QED
          BY <5>1
      <4> QED
        BY <4>1, <4>2, <4>3, <4>4
    <3>2. Cardinality(lists) = 1
      BY <3>1, FS_Singleton
    <3> QED
      BY <2>4, <3>2 DEF lists
  <2> QED
    BY <2>3, <2>4
<1> QED
  BY <1>1, Invariance, PTL
=============================================================================
