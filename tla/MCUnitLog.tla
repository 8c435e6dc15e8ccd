----------------------------- MODULE MCUnitLog -----------------------------
(***************************************************************************)
(* Runs of unitlogctl and starts of unitlogd for UnitLog.                  *)
(***************************************************************************)
EXTENDS UnitLog

CONSTANTS ctl1, ctl2, MaxEvents

(* Messages, appended kernel logs, requests and crashes, all together; one *)
(* fewer once two have been at work together, of which little is claimed.  *)
FewEvents ==
  sent + kernels + requests + crashes <= IF disturbed THEN MaxEvents - 1 ELSE MaxEvents

Symmetric == Permutations(Ctls)
=============================================================================
