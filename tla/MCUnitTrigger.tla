--------------------------- MODULE MCUnitTrigger ---------------------------
(***************************************************************************)
(* A timer, a path unit, and both at once, for UnitTrigger.                *)
(***************************************************************************)
EXTENDS UnitTrigger

Setup(us, kinds, level, time, change, request, boot) ==
  [units |-> us, kinds |-> kinds, level |-> level, time |-> time, changes |-> change,
   requests |-> request, boots |-> boot]

Timers(kinds, time, request, boot) == Setup({"timer"}, kinds, FALSE, time, 0, request, boot)
Paths(level, change, request)      == Setup({"path"}, {"stop", "start"}, level, 0, change, request, 1)

(* A timer that expires twice and is stopped and started; one that loses   *)
(* its power; path units of both sorts; and a timer with a path unit.      *)
Triggers ==
  {Timers({"start"}, 4, 0, 1), Timers({"stop", "start"}, 2, 2, 1),
   Timers({"start"}, 3, 0, 2),
   Paths(FALSE, 2, 2), Paths(TRUE, 3, 1),
   Setup({"timer", "path"}, {"stop", "start"}, FALSE, 2, 1, 1, 1)}

Restarted == {Timers({"restart"}, 2, 1, 1)}
=============================================================================
