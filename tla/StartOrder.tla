----------------------------- MODULE StartOrder -----------------------------
(***************************************************************************)
(* What the parallel start of a batch of units promises, with no threads,  *)
(* mutexes or condition variables in it: every unit is settled exactly     *)
(* once, as started or as failed, and the command of a unit begins only    *)
(* when every unit it requires has been announced as started.  UnitStart   *)
(* is shown to implement this module.                                      *)
(***************************************************************************)

CONSTANTS Units,        \* the units of the batch
          Names         \* every unit name a Requires property may hold

VARIABLES needs,        \* needs[u]: the names unit u requires, fixed at load
          phase         \* phase[u]: how far the start of u has come

vars == <<needs, phase>>

Phases == {"pending", "executing", "started", "failed"}

TypeOK == /\ needs \in [Units -> SUBSET Names]
          /\ phase \in [Units -> Phases]

Init == /\ needs \in [Units -> SUBSET Names]
        /\ phase = [u \in Units |-> "pending"]

(* Every name that u requires is a unit of the batch that has started. *)
Satisfied(u) == \A n \in needs[u] : n \in Units /\ phase[n] = "started"

(* The command of u begins. *)
Begin(u) == /\ phase[u] = "pending"
            /\ Satisfied(u)
            /\ phase' = [phase EXCEPT ![u] = "executing"]
            /\ UNCHANGED needs

(* The start of u is over, with or without the command having begun; only  *)
(* a command that has begun can leave the unit started.                    *)
Settle(u) == /\ \/ phase[u] = "pending" /\ phase' = [phase EXCEPT ![u] = "failed"]
                \/ /\ phase[u] = "executing"
                   /\ \E p \in {"started", "failed"} : phase' = [phase EXCEPT ![u] = p]
             /\ UNCHANGED needs

Next == \E u \in Units : Begin(u) \/ Settle(u)

Spec == Init /\ [][Next]_vars /\ WF_vars(Next)

(* Every unit of the batch is settled. *)
Settled == \A u \in Units : phase[u] \in {"started", "failed"}

=============================================================================
