---------------------------- MODULE MCUnitStart ----------------------------
(***************************************************************************)
(* Small batches of units for UnitStart: three units a, b, c loaded in     *)
(* this order, a name "ghost" that no loaded unit has.                     *)
(***************************************************************************)
EXTENDS UnitStart

CONSTANTS a, b, c, d, ghost

ABC      == {a, b, c}
LoadABC  == <<a, b, c>>
WithGhost == ABC \cup {ghost}

(* The lists without duplicates of at most n names of S. *)
Lists(S, n) == UNION {{s \in [1..k -> S] : \A i, j \in 1..k : i # j => s[i] # s[j]} : k \in 0..n}

Plain(kinds, requires) ==
  [kind |-> kinds, requires |-> requires, conflicts |-> [u \in ABC |-> <<>>],
   first |-> [u \in ABC |-> {}], bad |-> [u \in ABC |-> FALSE]]

(* Every dependency graph on three units, each unit requiring its          *)
(* dependencies in either order; cycles and self-dependencies included.    *)
Graphs ==
  {Plain((a :> "daemon" @@ b :> "oneshot" @@ c :> "daemon"), r) :
     r \in {f \in [ABC -> Lists(ABC, 2)] : \A u \in ABC : Len(f[u]) = 2 => u \notin ToSet(f[u])}}

(* A chain against and along the load order, a fork, a join, and the       *)
(* cycles of two and of three units that the loader breaks.                *)
Shapes ==
  {Plain((a :> "daemon" @@ b :> "oneshot" @@ c :> "daemon"), r) :
     r \in {(a :> <<b>> @@ b :> <<c>> @@ c :> <<>>), (a :> <<>> @@ b :> <<a>> @@ c :> <<b, a>>),
            (a :> <<>> @@ b :> <<a>> @@ c :> <<a>>), (a :> <<b, c>> @@ b :> <<>> @@ c :> <<>>),
            (a :> <<b>> @@ b :> <<a>> @@ c :> <<a>>), (a :> <<b>> @@ b :> <<c>> @@ c :> <<a>>)}}

(* Four units that require one another in a ring. *)
ABCD     == {a, b, c, d}
LoadABCD == <<a, b, c, d>>

Ring == {[kind |-> [u \in ABCD |-> "daemon"],
          requires |-> (a :> <<b>> @@ b :> <<c>> @@ c :> <<d>> @@ d :> <<a>>),
          conflicts |-> [u \in ABCD |-> <<>>], first |-> [u \in ABCD |-> {}],
          bad |-> [u \in ABCD |-> FALSE]]}

(* Every conflict between the three units, together with a chain or a fork *)
(* of dependencies, missing dependencies, broken files and timers; what a  *)
(* unit both requires and conflicts with comes in either order.            *)
Conflicted ==
  {[kind |-> (a :> "daemon" @@ b :> "timer" @@ c :> "oneshot"), requires |-> r,
    conflicts |-> f, bad |-> [u \in ABC |-> u = x],
    first |-> [u \in ABC |-> IF early THEN ToSet(r[u]) \cap ToSet(f[u]) ELSE {}]] :
     r \in {(a :> <<>> @@ b :> <<>> @@ c :> <<>>), (a :> <<>> @@ b :> <<a>> @@ c :> <<>>),
            (a :> <<b>> @@ b :> <<c>> @@ c :> <<>>), (a :> <<ghost>> @@ b :> <<>> @@ c :> <<a>>)},
     f \in [ABC -> Lists(WithGhost, 1)],
     x \in {b, ghost}, early \in BOOLEAN}

All == Graphs \cup Conflicted
=============================================================================
