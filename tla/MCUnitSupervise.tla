-------------------------- MODULE MCUnitSupervise --------------------------
(***************************************************************************)
(* One daemon with every policy, or two daemons, for UnitSupervise.        *)
(***************************************************************************)
EXTENDS UnitSupervise, TLC

CONSTANTS a, b

Policy(restart, max, failure, ends, mayFail, bound) ==
  [restart |-> restart, max |-> max, failure |-> failure, ends |-> ends, mayFail |-> mayFail,
   forks |-> bound]

(* Without Restart, with Restart, with RestartMax = 1 and 2, each with and *)
(* without a failure command.                                              *)
Every(ends, mayFail, bound) ==
  {Policy(r, m, f, ends, mayFail, bound) : r \in BOOLEAN, m \in {-1, 1, 2}, f \in BOOLEAN}

Alone(policies) == {[u \in Units |-> IF u = a THEN p ELSE Policy(FALSE, -1, FALSE, {}, {}, 0)] :
                    p \in policies}

Faults == {"fork", "dependency", "conflict"}

(* One daemon that can only exit, one that may end in every way, and two   *)
(* that restart, run a failure command and exit, or exit or are killed.    *)
Supervised ==
  Alone(Every({"exit"}, Faults, 4)) \cup Alone(Every({"exit", "kill", "dump"}, Faults, 4))
  \cup {[u \in Units |-> Policy(TRUE, -1, TRUE, ends, {}, 2)] :
        ends \in {{"exit"}, {"exit", "kill"}}}

Living     == Alone(Every({"exit", "kill", "dump"}, {"dependency", "conflict"}, 3))
Restarting == Alone({Policy(TRUE, -1, FALSE, {"exit"}, {}, 2)})
Dumping    == Alone({Policy(FALSE, -1, TRUE, {"dump"}, {}, 2)})

(* The model never tells two daemons with the same policies apart.         *)
Symmetric == Permutations(Units)
=============================================================================
