------------------------------ MODULE UnitLoad ------------------------------
(***************************************************************************)
(* The configuration checks made while the units of a state are loaded,    *)
(* one after the other in the order of the array: what decides whether a   *)
(* unit enters the start with an error on it.                              *)
(***************************************************************************)
EXTENDS Naturals, Sequences, SequencesExt

CONSTANTS Order         \* the units in the order loadUnits adds them

Loaded(u) == {Order[i] : i \in {j \in DOMAIN Order : \E k \in DOMAIN Order :
                                                       j < k /\ Order[k] = u}}

(* Seeded bug: only cycles of one and two units are looked for. *)
BugCheckRequires(requires, u) ==
  \E e \in ToSet(requires[u]) :
    e = u \/ (e \in Loaded(u) /\ u \in ToSet(requires[e]))

(* parseUnit has added every Requires value of u; the units of the array   *)
(* are those loaded before it.  Only cycles of one, two and three units    *)
(* are looked for.                                                         *)
CheckRequires(requires, u) ==
  \E d \in ToSet(requires[u]) :
    \/ d = u
    \/ /\ d \in Loaded(u)
       /\ \/ u \in ToSet(requires[d])
          \/ \E e \in ToSet(requires[d]) \cap Loaded(u) : u \in ToSet(requires[e])

(* A unit in conflict with itself, or with a unit it requires.  A Conflict *)
(* is compared with the Requires above it in the file only: first[u] are   *)
(* the names that come first as a Conflict.                                *)
CheckConflicts(requires, conflicts, first, u) ==
  \E c \in ToSet(conflicts[u]) : c = u \/ c \in ToSet(requires[u]) \ first[u]

=============================================================================
