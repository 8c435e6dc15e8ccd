-------------------------- MODULE UnitMessageProofs -------------------------
(***************************************************************************)
(* What is written into a message of the control socket is read out of it: *)
(* a request as it was made, a response with, of each unit, what its sort  *)
(* shows.  The readers are functions on the first entries of a buffer.     *)
(* Instead of an induction over the buffer, which the provers cannot be    *)
(* given, a set of numbers is shown to be closed (RangeInduction): a       *)
(* function that is claimed to be the reader agrees with it at 0 and, where*)
(* it does, at the next number (ReadAs).  Then the sections of a message   *)
(* are read one after the other (ReadConcat, ReadFlatten).                 *)
(***************************************************************************)
EXTENDS UnitMessage, FiniteSets, FiniteSetTheorems, FunctionTheorems, SequenceTheorems,
        WellFoundedInduction, TLAPS
-----------------------------------------------------------------------------
(* Induction over the numbers up to a bound. *)

(* A set of numbers has a least one. *)
LEMMA LeastNumber ==
  ASSUME NEW T \in SUBSET Nat, T # {}
  PROVE  \E m \in T : \A k \in T : m <= k
<1>1. PICK m \in T : \A k \in T : <<k, m>> \notin OpToRel(<, Nat)
  BY WFMin, NatLessThanWellFounded, Zenon
<1>2. \A k \in T : ~(k < m)
  BY <1>1, Zenon DEF OpToRel
<1> QED
  BY <1>2

(* Induction, for a set of numbers instead of a predicate: what holds for  *)
(* 0, and with each number below N for the next one, holds up to N.        *)
LEMMA RangeInduction ==
  ASSUME NEW N \in Nat, NEW T, 0 \in T, \A n \in 0..(N - 1) : n \in T => n + 1 \in T
  PROVE  \A n \in 0..N : n \in T
<1> SUFFICES ASSUME NEW n \in 0..N, n \notin T PROVE FALSE
  OBVIOUS
<1> DEFINE Out == {k \in 0..N : k \notin T}
<1>1. PICK m \in Out : \A k \in Out : m <= k
  <2>1. Out \in SUBSET Nat /\ Out # {}
    OBVIOUS
  <2> QED
    BY <2>1, LeastNumber
<1>2. m # 0 /\ m - 1 \in 0..(N - 1) /\ m - 1 \in T
  BY <1>1
<1> QED
  BY <1>1, <1>2
-----------------------------------------------------------------------------
(* Requests. *)

(* What Repeat writes for a repeated key: a pair for each value.           *)
LEMMA RepeatIs ==
  ASSUME NEW T, NEW values \in Seq(T), NEW key
  PROVE  /\ Repeat(key, values) \in Seq({key} \X T) /\ Len(Repeat(key, values)) = Len(values)
         /\ \A i \in 1..Len(values) : Repeat(key, values)[i] = <<key, values[i]>>
<1> DEFINE y == Repeat(key, values)
<1>1. y = [i \in 1..Len(values) |-> <<key, values[i]>>] /\ Len(values) \in Nat
  BY DEF Repeat
<1>2. \A i \in 1..Len(values) : y[i] = <<key, values[i]>> /\ y[i] \in {key} \X T
  BY <1>1
<1>3. DOMAIN y = 1..Len(values) /\ y = [i \in 1..Len(values) |-> y[i]]
  BY <1>1
<1> HIDE DEF y
<1>4. y \in Seq({key} \X T) /\ Len(y) = Len(values)
  BY <1>1, <1>2, <1>3
<1> QED
  BY <1>2, <1>4 DEF y

(* The server reads the request that the client has written: any command,  *)
(* an argument or none, and any number of options in their order.          *)
THEOREM RequestIsRead ==
  ASSUME NEW T, NEW command \in T, NEW arg \in Seq(T), Len(arg) <= 1,
         NEW options \in Seq(T),
         NEW r, r = [command |-> command, arg |-> arg, options |-> options]
  PROVE  UnmarshallRequest(MarshallRequest(r)) = r
<1> DEFINE a == Len(arg)
           k == Len(options)
           b == MarshallRequest(r)
           none == [command |-> "none", arg |-> <<>>, options |-> <<>>]
           Upto(i) == [command |-> command, arg |-> arg, options |-> SubSeq(options, 1, i)]
           R == ReadsRequest(b)
<1>1. a \in {0, 1} /\ k \in Nat /\ (a = 0 => arg = <<>>) /\ (a = 1 => arg = <<arg[1]>>)
  <2>1. a \in {0, 1} /\ k \in Nat /\ (a = 1 => arg[1] \in T)
    <3>1. a \in Nat /\ k \in Nat /\ a <= 1
      BY LenProperties
    <3>2. a \in {0, 1}
      <4> HIDE DEF a
      <4> QED
        BY <3>1
    <3>3. a = 1 => 1 \in 1..Len(arg)
      OBVIOUS
    <3> QED
      BY <3>1, <3>2, <3>3, ElementOfSeq
  <2>2. a = 1 => arg = <<arg[1]>>
    <3>1. ASSUME NEW v \in T, arg[1] = v, a = 1 PROVE arg = <<v>>
      <4>1. <<v>> \in Seq(T) /\ Len(<<v>>) = 1 /\ <<v>>[1] = v
        OBVIOUS
      <4> QED
        BY <3>1, <4>1, SeqEqual
    <3> QED
      BY <2>1, <3>1
  <2> QED
    BY <2>1, <2>2, EmptySeq
<1>2. /\ Len(b) = 1 + a + k
      /\ b[1] = <<"Command", command>>
      /\ a = 1 => b[2] = <<"Arg", arg[1]>>
      /\ \A i \in 1..k : b[1 + a + i] = <<"Option", options[i]>>
  <2> DEFINE E == {"Command", "Arg", "Option"} \X T
             x == <<<<"Command", command>>>>
             y == Repeat("Arg", arg)
             z == Repeat("Option", options)
  <2>1. /\ x \in Seq(E) /\ Len(x) = 1 /\ x[1] = <<"Command", command>>
        /\ {"Arg"} \X T \subseteq E /\ {"Option"} \X T \subseteq E
    OBVIOUS
  <2>2. y \in Seq(E) /\ Len(y) = a /\ (a = 1 => y[1] = <<"Arg", arg[1]>>)
    <3>1. y \in Seq({"Arg"} \X T) /\ Len(y) = a /\ \A i \in 1..a : y[i] = <<"Arg", arg[i]>>
      BY RepeatIs
    <3> HIDE DEF y, E
    <3> QED
      BY <1>1, <2>1, <3>1
  <2>3. z \in Seq(E) /\ Len(z) = k /\ \A i \in 1..k : z[i] = <<"Option", options[i]>>
    <3>1. /\ z \in Seq({"Option"} \X T) /\ Len(z) = k
          /\ \A i \in 1..k : z[i] = <<"Option", options[i]>>
      BY RepeatIs
    <3> HIDE DEF z, E
    <3> QED
      BY <1>1, <2>1, <3>1
  <2>4. b = (x \o y) \o z
    BY DEF MarshallRequest
  <2> HIDE DEF E, x, y, z, b, a, k
  <2>5. /\ x \o y \in Seq(E) /\ Len(x \o y) = 1 + a /\ (x \o y)[1] = x[1]
        /\ a = 1 => (x \o y)[2] = y[1]
    <3>1. /\ x \o y \in Seq(E) /\ Len(x \o y) = Len(x) + Len(y)
          /\ \A i \in 1..(Len(x) + Len(y)) :
               (x \o y)[i] = IF i <= Len(x) THEN x[i] ELSE y[i - Len(x)]
      BY <2>1, <2>2, ConcatProperties
    <3>2. Len(x) = 1 /\ Len(y) = a /\ a \in {0, 1}
      BY <1>1, <2>1, <2>2
    <3> QED
      BY <3>1, <3>2
  <2>6. /\ Len(b) = 1 + a + k
        /\ \A i \in 1..(1 + a + k) : b[i] = IF i <= 1 + a THEN (x \o y)[i] ELSE z[i - (1 + a)]
    <3> DEFINE w == x \o y
    <3> HIDE DEF w
    <3>1. w \in Seq(E) /\ Len(w) = 1 + a
      BY <2>5 DEF w
    <3>2. /\ Len(w \o z) = Len(w) + Len(z)
          /\ \A i \in 1..(Len(w) + Len(z)) :
               (w \o z)[i] = IF i <= Len(w) THEN w[i] ELSE z[i - Len(w)]
      BY <2>3, <3>1, ConcatProperties
    <3>3. w \o z = b /\ Len(z) = k
      BY <2>3, <2>4 DEF w
    <3> QED
      BY <3>1, <3>2, <3>3 DEF w
  <2>7. b[1] = x[1] /\ (a = 1 => b[2] = y[1])
    <3>1. 1 \in 1..(1 + a + k) /\ 1 <= 1 + a /\ (a = 1 => 2 \in 1..(1 + a + k) /\ 2 <= 1 + a)
      BY <1>1
    <3> QED
      BY <2>5, <2>6, <3>1
  <2>8. \A i \in 1..k : b[1 + a + i] = z[i]
    BY <1>1, <2>6
  <2> QED
    BY <1>1, <2>1, <2>2, <2>3, <2>6, <2>7, <2>8
<1>3. /\ Upto(0) = [command |-> command, arg |-> arg, options |-> <<>>] /\ Upto(k) = r
      /\ \A i \in 1..k : PutRequest(Upto(i - 1), <<"Option", options[i]>>) = Upto(i)
  <2>1. SubSeq(options, 1, 0) = <<>> /\ SubSeq(options, 1, k) = options
    OBVIOUS
  <2>2. ASSUME NEW i \in 1..k PROVE PutRequest(Upto(i - 1), <<"Option", options[i]>>) = Upto(i)
    <3>1. SubSeq(options, 1, i) = Append(SubSeq(options, 1, i - 1), options[i])
      OBVIOUS
    <3> QED
      BY <3>1 DEF PutRequest
  <2> QED
    BY <2>1, <2>2
<1>4. /\ PutRequest(none, <<"Command", command>>)
            = [command |-> command, arg |-> <<>>, options |-> <<>>]
      /\ a = 1 => PutRequest([command |-> command, arg |-> <<>>, options |-> <<>>],
                             <<"Arg", arg[1]>>) = Upto(0)
  BY <1>1, <1>3 DEF PutRequest
<1> HIDE DEF a, k, b, Upto
(* What is read of the first n entries, and that it is the recursion.      *)
<1> DEFINE g == [n \in 0..(1 + a + k) |->
                   IF n = 0 THEN none
                   ELSE IF n < 1 + a THEN [command |-> command, arg |-> <<>>, options |-> <<>>]
                   ELSE Upto(n - 1 - a)]
<1>5. g = [n \in 0..Len(b) |-> IF n = 0 THEN none ELSE PutRequest(g[n - 1], b[n])]
  <2>1. ASSUME NEW n \in 1..(1 + a + k) PROVE g[n] = PutRequest(g[n - 1], b[n])
    <3>1. CASE n = 1 /\ a = 0
      <4>1. g[1] = Upto(0) /\ g[0] = none /\ arg = <<>>
        BY <1>1, <3>1
      <4> HIDE DEF g, none
      <4> QED
        BY <1>2, <1>3, <1>4, <3>1, <4>1
    <3>2. CASE n = 1 /\ a = 1
      <4>1. g[1] = [command |-> command, arg |-> <<>>, options |-> <<>>] /\ g[0] = none
        BY <1>1, <3>2
      <4> HIDE DEF g, none
      <4> QED
        BY <1>2, <1>4, <3>2, <4>1
    <3>3. CASE n = 2 /\ a = 1
      <4>1. g[1] = [command |-> command, arg |-> <<>>, options |-> <<>>] /\ g[2] = Upto(0)
        BY <1>1, <3>3
      <4> HIDE DEF g, none
      <4>2. b[2] = <<"Arg", arg[1]>> /\ PutRequest(g[1], <<"Arg", arg[1]>>) = Upto(0)
        BY <1>2, <1>4, <3>3, <4>1
      <4>3. n - 1 = 1 /\ n = 2
        BY <3>3
      <4> QED
        BY <4>1, <4>2, <4>3, Zenon
    <3>4. CASE n > 1 + a
      <4>1. PICK i \in 1..k : n = 1 + a + i
        <5>1. n - 1 - a \in 1..k
          BY <1>1, <3>4
        <5> QED
          BY <1>1, <5>1
      <4>2. g[n] = Upto(i) /\ g[n - 1] = Upto(i - 1)
        BY <1>1, <4>1
      <4> HIDE DEF g
      <4> QED
        BY <1>2, <1>3, <4>1, <4>2
    <3> QED
      BY <1>1, <3>1, <3>2, <3>3, <3>4
  <2>2. \A n \in 0..(1 + a + k) : g[n] = IF n = 0 THEN none ELSE PutRequest(g[n - 1], b[n])
    <3>1. g[0] = none
      BY <1>1
    <3> HIDE DEF g, none
    <3> QED
      BY <1>1, <2>1, <3>1
  <2>3. g = [n \in 0..(1 + a + k) |-> g[n]]
    OBVIOUS
  <2> HIDE DEF g, none
  <2> QED
    BY <1>2, <2>2, <2>3
<1>6. R = [n \in 0..Len(b) |-> IF n = 0 THEN none ELSE PutRequest(R[n - 1], b[n])]
  <2> HIDE DEF g
  <2> QED
    BY <1>5 DEF ReadsRequest
<1> HIDE DEF R, none, g
<1>7. \A n \in 0..Len(b) : R[n] = g[n]
  <2> DEFINE Q == {n \in 0..Len(b) : R[n] = g[n]}
  <2>1. 0 \in Q /\ Len(b) \in Nat
    BY <1>1, <1>2, <1>5, <1>6
  <2>2. ASSUME NEW n \in 0..(Len(b) - 1), n \in Q PROVE n + 1 \in Q
    BY <1>5, <1>6, <2>1, <2>2
  <2> HIDE DEF Q
  <2>3. \A n \in 0..Len(b) : n \in Q
    BY <2>1, <2>2, RangeInduction
  <2> QED
    BY <2>3 DEF Q
<1>8. g[Len(b)] = r
  <2>1. 1 + a + k \in 0..(1 + a + k) /\ (1 + a + k) - 1 - a = k /\ 1 + a + k # 0
        /\ ~(1 + a + k < 1 + a)
    BY <1>1
  <2>2. g[1 + a + k] = Upto(k)
    BY <2>1 DEF g
  <2> QED
    BY <1>2, <1>3, <2>2
<1>9. R[Len(b)] = r
  BY <1>1, <1>2, <1>7, <1>8
<1> QED
  BY <1>9 DEF UnmarshallRequest, R, b
-----------------------------------------------------------------------------
(* What is read of a whole buffer. *)
Read(out, s) == Reads(out, s)[Len(s)]

(* The recursion that defines the reader of responses exists: it starts    *)
(* from out, and each entry is put into what was read before it.           *)
LEMMA ReadsStep ==
  ASSUME NEW out, NEW s, Len(s) \in Nat
  PROVE  /\ Reads(out, s)[0] = out
         /\ \A n \in 1..Len(s) : Reads(out, s)[n] = Put(Reads(out, s)[n - 1], s[n])
<1> DEFINE F(g, n) == IF n = 0 THEN out ELSE Put(g[n - 1], s[n])
           G(k, g) == g = [n \in 0..k |-> F(g, n)]
           T == {k \in 0..Len(s) : \E g : G(k, g)}
<1>1. 0 \in T
  <2> DEFINE g == [n \in 0..0 |-> out]
  <2>1. G(0, g) /\ 0 \in 0..Len(s)
    OBVIOUS
  <2> HIDE DEF G
  <2> QED
    BY <2>1
<1>2. ASSUME NEW k \in 0..(Len(s) - 1), k \in T PROVE k + 1 \in T
  <2>1. PICK g : G(k, g)
    BY <1>2
  <2> DEFINE h == [n \in 0..(k + 1) |-> IF n <= k THEN g[n] ELSE Put(g[k], s[k + 1])]
  <2>2. ASSUME NEW n \in 0..(k + 1) PROVE h[n] = F(h, n)
    <3>1. CASE n <= k
      <4>1. h[n] = F(g, n)
        BY <2>1, <3>1
      <4>2. n # 0 => h[n - 1] = g[n - 1]
        BY <3>1
      <4> QED
        BY <4>1, <4>2
    <3>2. CASE n = k + 1
      BY <3>2
    <3> QED
      BY <3>1, <3>2
  <2>3. G(k + 1, h)
    <3> HIDE DEF F
    <3> QED
      BY <2>2
  <2>4. k + 1 \in 0..Len(s)
    OBVIOUS
  <2> QED
    <3> HIDE DEF G, h
    <3> QED
      BY <2>3, <2>4
<1>3. Len(s) \in T
  <2> HIDE DEF T
  <2>1. \A k \in 0..Len(s) : k \in T
    BY <1>1, <1>2, RangeInduction
  <2> QED
    BY <2>1
<1>4. \E g : g = [n \in 0..Len(s) |-> IF n = 0 THEN out ELSE Put(g[n - 1], s[n])]
  BY <1>3
<1> DEFINE R == Reads(out, s)
<1>5. R = [n \in 0..Len(s) |-> IF n = 0 THEN out ELSE Put(R[n - 1], s[n])]
  BY <1>4 DEF Reads
<1> HIDE DEF R
<1>6. R[0] = out /\ \A n \in 1..Len(s) : R[n] = Put(R[n - 1], s[n])
  BY <1>5
<1> QED
  BY <1>6 DEF R

(* A sequence of results that each entry leads from one to the next.       *)
LEMMA ReadAs ==
  ASSUME NEW s, Len(s) \in Nat, NEW f, \A n \in 1..Len(s) : f[n] = Put(f[n - 1], s[n])
  PROVE  /\ \A n \in 0..Len(s) : Reads(f[0], s)[n] = f[n]
         /\ Read(f[0], s) = f[Len(s)]
<1> DEFINE R == Reads(f[0], s)
           T == {n \in 0..Len(s) : R[n] = f[n]}
<1>1. R[0] = f[0] /\ \A n \in 1..Len(s) : R[n] = Put(R[n - 1], s[n])
  BY ReadsStep
<1> HIDE DEF R
<1>2. 0 \in T
  BY <1>1
<1>3. ASSUME NEW n \in 0..(Len(s) - 1), n \in T PROVE n + 1 \in T
  <2>1. n + 1 \in 1..Len(s) /\ (n + 1) - 1 = n /\ R[n] = f[n]
    BY <1>3
  <2> QED
    BY <1>1, <2>1
<1>4. \A n \in 0..Len(s) : n \in T
  <2> HIDE DEF T
  <2> QED
    BY <1>2, <1>3, RangeInduction
<1> QED
  BY <1>4 DEF R, Read

(* Of an empty buffer nothing is read.                                     *)
LEMMA ReadNone == \A out : Read(out, <<>>) = out
BY ReadsStep DEF Read

(* What is read of two buffers, one after the other. *)
LEMMA ReadConcat ==
  ASSUME NEW E, NEW s \in Seq(E), NEW t \in Seq(E), NEW out
  PROVE  Read(out, s \o t) = Read(Read(out, s), t)
<1> DEFINE R == Reads(out, s)
           Q == Reads(R[Len(s)], t)
           f == [n \in 0..(Len(s) + Len(t)) |-> IF n <= Len(s) THEN R[n] ELSE Q[n - Len(s)]]
<1>1. /\ Len(s) \in Nat /\ Len(t) \in Nat /\ Len(s \o t) = Len(s) + Len(t)
      /\ \A i \in 1..(Len(s) + Len(t)) :
           (s \o t)[i] = IF i <= Len(s) THEN s[i] ELSE t[i - Len(s)]
  BY LenProperties, ConcatProperties
<1>2. /\ R[0] = out /\ \A n \in 1..Len(s) : R[n] = Put(R[n - 1], s[n])
      /\ Q[0] = R[Len(s)] /\ \A n \in 1..Len(t) : Q[n] = Put(Q[n - 1], t[n])
  <2> HIDE DEF R
  <2>1. Q[0] = R[Len(s)] /\ \A n \in 1..Len(t) : Q[n] = Put(Q[n - 1], t[n])
    BY <1>1, ReadsStep
  <2>2. R[0] = out /\ \A n \in 1..Len(s) : R[n] = Put(R[n - 1], s[n])
    BY <1>1, ReadsStep DEF R
  <2> QED
    BY <2>1, <2>2
<1> HIDE DEF R, Q
<1>3. ASSUME NEW n \in 1..Len(s \o t) PROVE f[n] = Put(f[n - 1], (s \o t)[n])
  <2>1. CASE n <= Len(s)
    <3>1. f[n] = R[n] /\ f[n - 1] = R[n - 1] /\ (s \o t)[n] = s[n] /\ n \in 1..Len(s)
      BY <1>1, <2>1
    <3> HIDE DEF f
    <3> QED
      BY <1>2, <3>1
  <2>2. CASE n = Len(s) + 1
    <3>1. /\ f[n] = Q[1] /\ f[n - 1] = R[Len(s)] /\ (s \o t)[n] = t[1] /\ 1 \in 1..Len(t)
      BY <1>1, <2>2
    <3> HIDE DEF f
    <3> QED
      BY <1>2, <3>1
  <2>3. CASE n > Len(s) + 1
    <3> DEFINE i == n - Len(s)
    <3>1. i \in 1..Len(t) /\ f[n] = Q[i] /\ f[n - 1] = Q[i - 1] /\ (s \o t)[n] = t[i]
      BY <1>1, <2>3
    <3> HIDE DEF f, i
    <3> QED
      BY <1>2, <3>1
  <2> QED
    BY <1>1, <2>1, <2>2, <2>3
<1>4. f[0] = out /\ f[Len(s) + Len(t)] = Q[Len(t)]
  <2>1. f[0] = R[0] /\ f[Len(s)] = R[Len(s)]
    BY <1>1
  <2>2. Len(t) > 0 => f[Len(s) + Len(t)] = Q[Len(t)]
    BY <1>1
  <2> HIDE DEF f
  <2> QED
    BY <1>1, <1>2, <2>1, <2>2
<1> HIDE DEF f
<1>5. Read(f[0], s \o t) = f[Len(s \o t)]
  <2> DEFINE st == s \o t
  <2>1. Len(st) \in Nat /\ \A n \in 1..Len(st) : f[n] = Put(f[n - 1], st[n])
    BY <1>1, <1>3
  <2> HIDE DEF st
  <2>2. Read(f[0], st) = f[Len(st)]
    BY <2>1, ReadAs
  <2> QED
    BY <2>2 DEF st
<1> QED
  BY <1>1, <1>4, <1>5 DEF Read, Q, R

(* What is read of many buffers, one after the other. *)
(* The recursion of FlattenSeq exists.                                     *)
LEMMA FlattenExists ==
  ASSUME NEW n \in Nat, NEW seqs
  PROVE  \E h : h = [i \in 1..n |-> IF i = 1 THEN seqs[i] ELSE h[i - 1] \o seqs[i]]
<1> DEFINE C(x, y) == x \o y
           F(g, i) == IF i = 1 THEN seqs[i] ELSE C(g[i - 1], seqs[i])
           G(k, g) == g = [i \in 1..k |-> F(g, i)]
           T == {k \in 0..n : \E g : G(k, g)}
<1>1. \A x, y : x \o y = C(x, y)
  OBVIOUS
<1> HIDE DEF C
<1>2. 0 \in T
  <2> DEFINE g == [i \in 1..0 |-> <<>>]
  <2>1. G(0, g) /\ 0 \in 0..n
    OBVIOUS
  <2> HIDE DEF G, g
  <2> QED
    BY <2>1
<1>3. ASSUME NEW k \in 0..(n - 1), k \in T PROVE k + 1 \in T
  <2>1. PICK g : G(k, g)
    BY <1>3
  <2> DEFINE h == [i \in 1..(k + 1) |-> IF i <= k THEN g[i] ELSE F(g, i)]
  <2>2. ASSUME NEW i \in 1..(k + 1) PROVE h[i] = F(h, i)
    <3>1. h[i] = F(g, i)
      BY <2>1
    <3>2. i # 1 => h[i - 1] = g[i - 1]
      OBVIOUS
    <3> HIDE DEF h
    <3> QED
      BY <3>1, <3>2
  <2>3. G(k + 1, h) /\ k + 1 \in 0..n
    <3> HIDE DEF F
    <3> QED
      BY <2>2
  <2> HIDE DEF G, h
  <2> QED
    BY <2>3
<1>4. n \in T
  <2> HIDE DEF T
  <2>1. \A k \in 0..n : k \in T
    BY <1>2, <1>3, RangeInduction
  <2> QED
    BY <2>1
<1>5. PICK h : G(n, h)
  BY <1>4
<1> QED
  BY <1>1, <1>5

(* FlattenSeq puts the sequences one behind the other.                     *)
LEMMA FlattenIs ==
  ASSUME NEW E, NEW seqs \in Seq(Seq(E)), NEW n, n = Len(seqs)
  PROVE  \E g : /\ g[0] = <<>> /\ FlattenSeq(seqs) = g[n]
                /\ \A i \in 1..n : g[i] = g[i - 1] \o seqs[i]
                /\ \A i \in 0..n : g[i] \in Seq(E)
<1>1. n \in Nat /\ seqs \in [1..n -> Seq(E)]
  BY LenProperties
<1>2. CASE n = 0
  <2> DEFINE g == [i \in {0} |-> <<>>]
  <2>1. seqs = <<>> /\ FlattenSeq(seqs) = seqs
    BY <1>2, EmptySeq DEF FlattenSeq
  <2>2. g[0] = <<>> /\ FlattenSeq(seqs) = g[0] /\ g[0] \in Seq(E)
    BY <2>1, EmptySeq
  <2>3. (\A i \in 1..n : FALSE) /\ (\A i \in 0..n : i = n) /\ n = 0
    BY <1>2
  <2> HIDE DEF g
  <2>4. /\ g[0] = <<>> /\ FlattenSeq(seqs) = g[n]
        /\ \A i \in 1..n : g[i] = g[i - 1] \o seqs[i]
        /\ \A i \in 0..n : g[i] \in Seq(E)
    BY <2>2, <2>3
  <2> QED
    BY <2>4
<1>3. CASE n # 0
  <2> DEFINE C(x, y) == x \o y
             h == CHOOSE h : h = [i \in 1..Len(seqs) |->
                                     IF i = 1 THEN seqs[i] ELSE h[i - 1] \o seqs[i]]
             g == [i \in 0..n |-> IF i = 0 THEN <<>> ELSE h[i]]
             U == {i \in 0..n : g[i] \in Seq(E)}
  <2>1. FlattenSeq(seqs) = h[n]
    <3>1. Len(seqs) # 0
      BY <1>3
    <3>2. FlattenSeq(seqs) = h[Len(seqs)]
      BY <3>1, Zenon DEF FlattenSeq
    <3> HIDE DEF h
    <3> QED
      BY <3>2
  <2>2. h = [i \in 1..n |-> IF i = 1 THEN seqs[i] ELSE h[i - 1] \o seqs[i]]
    BY <1>1, FlattenExists
  <2> HIDE DEF h
  <2>3. /\ \A i \in 1..n : h[i] = IF i = 1 THEN seqs[i] ELSE C(h[i - 1], seqs[i])
        /\ \A x, y : x \o y = C(x, y)
    BY <2>2
  <2>4. /\ g[0] = <<>> /\ g[n] = h[n]
        /\ \A i \in 1..n : g[i] = h[i] /\ (i # 1 => g[i - 1] = h[i - 1]) /\ (i = 1 => g[i - 1] = <<>>)
    BY <1>1, <1>3
  <2> HIDE DEF g, C
  <2>5. ASSUME NEW i \in 1..n PROVE g[i] = g[i - 1] \o seqs[i]
    <3>1. CASE i = 1
      <4>1. <<>> \o seqs[i] = seqs[i]
        BY <1>1, ConcatEmptySeq
      <4> QED
        BY <2>3, <2>4, <3>1, <4>1
    <3>2. CASE i # 1
      BY <2>3, <2>4, <3>2
    <3> QED
      BY <3>1, <3>2
  <2>6. 0 \in U
    <3>1. g[0] \in Seq(E)
      BY <2>4, EmptySeq
    <3> QED
      BY <1>1, <3>1
  <2>7. ASSUME NEW i \in 0..(n - 1), i \in U PROVE i + 1 \in U
    <3>1. i + 1 \in 1..n /\ (i + 1) - 1 = i /\ seqs[i + 1] \in Seq(E) /\ g[i] \in Seq(E)
      BY <1>1, <2>7
    <3>2. g[i + 1] = g[i] \o seqs[i + 1]
      BY <2>5, <3>1
    <3>3. g[i + 1] \in Seq(E)
      BY <3>1, <3>2, ConcatProperties
    <3> QED
      BY <1>1, <3>1, <3>3
  <2>8. \A i \in 0..n : i \in U
    <3> HIDE DEF U
    <3> QED
      BY <1>1, <2>6, <2>7, RangeInduction
  <2> QED
    BY <2>1, <2>4, <2>5, <2>8
<1> QED
  BY <1>1, <1>2, <1>3

(* What is read of many buffers, one after the other.                      *)
LEMMA ReadFlatten ==
  ASSUME NEW E, NEW seqs \in Seq(Seq(E)), NEW f,
         \A i \in 1..Len(seqs) : f[i] = Read(f[i - 1], seqs[i])
  PROVE  Read(f[0], FlattenSeq(seqs)) = f[Len(seqs)]
<1>1. PICK g : /\ g[0] = <<>> /\ FlattenSeq(seqs) = g[Len(seqs)]
               /\ \A i \in 1..Len(seqs) : g[i] = g[i - 1] \o seqs[i]
               /\ \A i \in 0..Len(seqs) : g[i] \in Seq(E)
  BY FlattenIs
<1>2. Len(seqs) \in Nat /\ \A i \in 1..Len(seqs) : seqs[i] \in Seq(E)
  BY LenProperties, ElementOfSeq
<1> DEFINE T == {i \in 0..Len(seqs) : Read(f[0], g[i]) = f[i]}
<1>3. 0 \in T
  BY <1>1, <1>2, ReadNone
<1>4. ASSUME NEW i \in 0..(Len(seqs) - 1), i \in T PROVE i + 1 \in T
  <2>1. i + 1 \in 1..Len(seqs) /\ (i + 1) - 1 = i /\ i \in 0..Len(seqs) /\ i + 1 \in 0..Len(seqs)
    BY <1>2
  <2>2. g[i + 1] = g[i] \o seqs[i + 1] /\ g[i] \in Seq(E) /\ seqs[i + 1] \in Seq(E)
    BY <1>1, <1>2, <2>1
  <2>3. Read(f[0], g[i] \o seqs[i + 1]) = Read(Read(f[0], g[i]), seqs[i + 1])
    BY <2>2, ReadConcat
  <2>4. f[i + 1] = Read(f[i], seqs[i + 1])
    BY <2>1
  <2> QED
    BY <1>4, <2>1, <2>2, <2>3, <2>4
<1>5. Len(seqs) \in T
  <2> HIDE DEF T
  <2>1. \A k \in 0..Len(seqs) : k \in T
    BY <1>2, <1>3, <1>4, RangeInduction
  <2> QED
    BY <1>2, <2>1
<1> QED
  BY <1>1, <1>5
-----------------------------------------------------------------------------
(* The numbers that -1 stands among; a unit and an entry of its history as *)
(* they are shown.                                                         *)
Numbers == Nat \cup {-1}
Pasts   == [pid : Numbers, exit : Numbers, state : Nat, signal : Numbers, final : Numbers]
Views(T) ==
  [name : T, enabled : BOOLEAN, pid : Numbers, state : Nat, final : Numbers, num : Nat,
   restart : BOOLEAN, max : Numbers, type : Nat, signal : Numbers, changed : BOOLEAN,
   timer : {<<>>} \cup {<<<<t, n>>>> : t \in T, n \in Nat}, errors : Seq(T), exit : Numbers,
   history : Seq(Pasts)]

Out(m, e, us) == [messages |-> m, errors |-> e, units |-> us]

(* A number is read as it was written, -1 in a field where the word None   *)
(* is looked for; and so is a flag.                                        *)
LEMMA NumbersAreRead ==
  /\ \A n \in Nat : Format(n) = n /\ \A f : Parsed(f, n) = n
  /\ \A n \in Numbers : \A f \in {"pid", "exit", "signal", "max", "final"} : Parsed(f, Format(n)) = n
  /\ \A b \in BOOLEAN : (Flag(b) = 1) = b
BY DEF Numbers, Format, Parsed, Flag, NoneText

(* The last element of a sequence, and the sequence with another last one. *)
LEMMA LastIs ==
  ASSUME NEW T, NEW s \in Seq(T), NEW w, NEW x
  PROVE  /\ Len(Append(s, w)) = Len(s) + 1 /\ Append(s, w)[Len(Append(s, w))] = w
         /\ [Append(s, w) EXCEPT ![Len(Append(s, w))] = x] = Append(s, x)
<1> DEFINE V == T \cup {w, x}
           n == Len(s) + 1
           a == Append(s, w)
           b == Append(s, x)
<1>1. s \in Seq(V) /\ w \in V /\ x \in V /\ Len(s) \in Nat
  BY LenProperties
<1> HIDE DEF V
<1>2. /\ a \in Seq(V) /\ Len(a) = n /\ a[n] = w
      /\ b \in Seq(V) /\ Len(b) = n /\ b[n] = x
      /\ \A i \in 1..Len(s) : a[i] = s[i] /\ b[i] = s[i]
  BY <1>1, AppendProperties
<1> HIDE DEF a, b
<1> DEFINE e == [a EXCEPT ![n] = x]
<1>3. n \in 1..Len(a) /\ \A i \in 1..n : i = n \/ i \in 1..Len(s)
  BY <1>1, <1>2
<1>4. /\ e \in Seq(V) /\ Len(e) = Len(a)
      /\ \A i \in 1..Len(a) : e[i] = IF i = n THEN x ELSE a[i]
  BY <1>1, <1>2, <1>3, ExceptSeq
<1> HIDE DEF e
<1>5. \A i \in 1..Len(e) : e[i] = b[i]
  BY <1>2, <1>3, <1>4
<1>6. e = b
  BY <1>2, <1>4, <1>5, SeqEqual
<1> QED
  BY <1>2, <1>6 DEF a, b, e

(* The last unit of a response is changed by the entries about it. *)
LEMMA LastUnit ==
  ASSUME NEW T, NEW us \in Seq(T), NEW m, NEW e, NEW w
  PROVE  LET o == Out(m, e, Append(us, w)) IN
         /\ o.units[Len(o.units)] = w
         /\ \A v : [o EXCEPT !.units = [o.units EXCEPT ![Len(o.units)] = v]]
                    = Out(m, e, Append(us, v))
<1> DEFINE a == Append(us, w)
           o == Out(m, e, Append(us, w))
           n == Len(o.units)
<1>1. n = Len(a) /\ a = o.units /\ o = [messages |-> m, errors |-> e, units |-> a]
  BY DEF Out
<1>2. a[Len(a)] = w /\ \A v : [a EXCEPT ![Len(a)] = v] = Append(us, v)
  BY LastIs
<1> HIDE DEF a, o, n
<1>3. ASSUME NEW v
      PROVE  [o EXCEPT !.units = [o.units EXCEPT ![n] = v]] = Out(m, e, Append(us, v))
  <2> DEFINE b == Append(us, v)
  <2>1. [o.units EXCEPT ![n] = v] = b
    BY <1>1, <1>2
  <2> HIDE DEF b
  <2>2. [o EXCEPT !.units = b] = Out(m, e, b)
    BY <1>1 DEF Out
  <2> QED
    BY <2>1, <2>2 DEF b
<1>4. o.units[n] = w
  BY <1>1, <1>2
<1> QED
  BY <1>3, <1>4 DEF o, n

(* A response whose last unit is w, and a unit with a field replaced: the  *)
(* two as operators that the lemmas below do not look into.                *)
Closing(m, e, us, w)   == Out(m, e, Append(us, w))
With(w, field, value) == [w EXCEPT ![field] = value]
Section(name)         == <<name>>
Entry(key, value)     == <<key, value>>
Timer(t, n)           == <<<<t, n>>>>
Truth(x)              == x = 1

(* What each entry about a unit changes: the last unit of the response, in *)
(* the one field that the key names.                                       *)
LEMMA PutEnds ==
  ASSUME NEW T, NEW us \in Seq(T), NEW m, NEW e, NEW w, NEW x
  PROVE  /\ Put(Out(m, e, us), Section("[Unit]")) = Closing(m, e, us, NewView)
         /\ Put(Closing(m, e, us, w), Entry("Name", x)) = Closing(m, e, us, With(w, "name", x))
         /\ Put(Closing(m, e, us, w), Entry("Enabled", x)) = Closing(m, e, us, With(w, "enabled", Truth(x)))
         /\ Put(Closing(m, e, us, w), Entry("Restartable", x))
              = Closing(m, e, us, With(w, "restart", Truth(x)))
         /\ Put(Closing(m, e, us, w), Entry("IsChanged", x)) = Closing(m, e, us, With(w, "changed", Truth(1)))
         /\ Put(Closing(m, e, us, w), Entry("TimerName", x))
              = Closing(m, e, us, With(w, "timer", Timer(x, 0)))
         /\ Put(Closing(m, e, us, w), Entry("Pid", x))
              = Closing(m, e, us, With(w, "pid", Parsed("pid", x)))
         /\ Put(Closing(m, e, us, w), Entry("PState", x))
              = Closing(m, e, us, With(w, "state", Parsed("state", x)))
         /\ Put(Closing(m, e, us, w), Entry("FinalStatus", x))
              = Closing(m, e, us, With(w, "final", Parsed("final", x)))
         /\ Put(Closing(m, e, us, w), Entry("RestartNum", x))
              = Closing(m, e, us, With(w, "num", Parsed("num", x)))
         /\ Put(Closing(m, e, us, w), Entry("Type", x))
              = Closing(m, e, us, With(w, "type", Parsed("type", x)))
         /\ Put(Closing(m, e, us, w), Entry("SignalNum", x))
              = Closing(m, e, us, With(w, "signal", Parsed("signal", x)))
         /\ Put(Closing(m, e, us, w), Entry("RestartMax", x))
              = Closing(m, e, us, With(w, "max", Parsed("max", x)))
         /\ Put(Closing(m, e, us, w), Entry("ExitCode", x))
              = Closing(m, e, us, With(w, "exit", Parsed("exit", x)))
         /\ Put(Closing(m, e, us, w), Entry("UnitError", x))
              = Closing(m, e, us, With(w, "errors", Append(w.errors, x)))
<1> USE DEF Section, Entry, Timer, Truth
<1> DEFINE At(v) == Closing(m, e, us, v)
           o == At(w)
           n == Len(o.units)
<1>1. o.units[n] = w /\ \A v : [o EXCEPT !.units = [o.units EXCEPT ![n] = v]] = At(v)
  BY LastUnit DEF Closing
<1>2. ASSUME NEW field, NEW value PROVE InUnit(o, field, value) = At(With(w, field, value))
  <2>1. InUnit(o, field, value) = [o EXCEPT !.units[n][field] = value]
    BY DEF InUnit
  <2> HIDE DEF o, n, At
  <2>2. [o EXCEPT !.units[n][field] = value]
          = [o EXCEPT !.units = [o.units EXCEPT ![n] = [o.units[n] EXCEPT ![field] = value]]]
    OBVIOUS
  <2> QED
    BY <1>1, <2>1, <2>2 DEF With
<1>3. /\ Put(o, Entry("Name", x)) = InUnit(o, "name", x)
      /\ Put(o, Entry("TimerName", x)) = InUnit(o, "timer", Timer(x, 0))
  BY DEF Put, UnitField, PastField
<1>4. /\ Put(o, Entry("Pid", x)) = InUnit(o, "pid", Parsed("pid", x))
      /\ Put(o, Entry("PState", x)) = InUnit(o, "state", Parsed("state", x))
      /\ Put(o, Entry("FinalStatus", x)) = InUnit(o, "final", Parsed("final", x))
      /\ Put(o, Entry("RestartNum", x)) = InUnit(o, "num", Parsed("num", x))
      /\ Put(o, Entry("Type", x)) = InUnit(o, "type", Parsed("type", x))
      /\ Put(o, Entry("SignalNum", x)) = InUnit(o, "signal", Parsed("signal", x))
      /\ Put(o, Entry("RestartMax", x)) = InUnit(o, "max", Parsed("max", x))
      /\ Put(o, Entry("ExitCode", x)) = InUnit(o, "exit", Parsed("exit", x))
  BY DEF Put, UnitField, PastField
<1>5. Put(o, Entry("UnitError", x)) = At(With(w, "errors", Append(w.errors, x)))
  <2> DEFINE y == Append(w.errors, x)
  <2>1. \A r : Put(r, Entry("UnitError", x))
                = [r EXCEPT !.units[Len(r.units)].errors = Append(@, x)]
    BY DEF Put, UnitField, PastField
  <2>2. Put(o, Entry("UnitError", x)) = [o EXCEPT !.units[n].errors = y]
    <3> HIDE DEF o, At
    <3> QED
      BY <1>1, <2>1
  <2> HIDE DEF o, n, At, y
  <2>3. [o EXCEPT !.units[n].errors = y]
          = [o EXCEPT !.units = [o.units EXCEPT ![n] = [o.units[n] EXCEPT !.errors = y]]]
    OBVIOUS
  <2>4. Put(o, Entry("UnitError", x)) = At(With(w, "errors", y))
    BY <1>1, <2>2, <2>3 DEF With
  <2> QED
    BY <2>4 DEF y
<1>6. Put(Out(m, e, us), Section("[Unit]")) = At(NewView)
  <2>1. \A r : Put(r, Section("[Unit]")) = [r EXCEPT !.units = Append(r.units, NewView)]
    BY DEF Put, UnitField, PastField
  <2> QED
    BY <2>1 DEF Out, Closing
<1> HIDE DEF o, n, At
<1>7. \A field, value : InUnit(o, field, value) = At(With(w, field, value))
  BY <1>2
<1>8. /\ Put(o, Entry("Name", x)) = At(With(w, "name", x))
      /\ Put(o, Entry("TimerName", x)) = At(With(w, "timer", Timer(x, 0)))
  BY <1>3, <1>7
<1>9. Put(o, Entry("Enabled", x)) = At(With(w, "enabled", Truth(x)))
  <2>1. Put(o, Entry("Enabled", x)) = InUnit(o, "enabled", Truth(x))
    BY DEF Put, UnitField, PastField
  <2> QED
    BY <1>7, <2>1, Zenon
<1>10. Put(o, Entry("Restartable", x)) = At(With(w, "restart", Truth(x)))
  <2>1. Put(o, Entry("Restartable", x)) = InUnit(o, "restart", Truth(x))
    BY DEF Put, UnitField, PastField
  <2> QED
    BY <1>7, <2>1, Zenon
<1>11. Put(o, Entry("IsChanged", x)) = At(With(w, "changed", Truth(1)))
  <2>1. Put(o, Entry("IsChanged", x)) = InUnit(o, "changed", TRUE) /\ Truth(1) = TRUE
    BY DEF Put, UnitField, PastField
  <2> QED
    BY <1>7, <2>1, Zenon
<1>12. /\ Put(o, Entry("Pid", x)) = At(With(w, "pid", Parsed("pid", x)))
       /\ Put(o, Entry("PState", x)) = At(With(w, "state", Parsed("state", x)))
       /\ Put(o, Entry("FinalStatus", x)) = At(With(w, "final", Parsed("final", x)))
       /\ Put(o, Entry("RestartNum", x)) = At(With(w, "num", Parsed("num", x)))
       /\ Put(o, Entry("Type", x)) = At(With(w, "type", Parsed("type", x)))
       /\ Put(o, Entry("SignalNum", x)) = At(With(w, "signal", Parsed("signal", x)))
       /\ Put(o, Entry("RestartMax", x)) = At(With(w, "max", Parsed("max", x)))
       /\ Put(o, Entry("ExitCode", x)) = At(With(w, "exit", Parsed("exit", x)))
  BY <1>4, <1>7
<1> QED
  BY <1>5, <1>6, <1>8, <1>9, <1>10, <1>11, <1>12 DEF At, o

(* The entries about the timer and the history of a unit.                  *)
LEMMA TimerEnds ==
  ASSUME NEW T, NEW us \in Seq(T), NEW m, NEW e, NEW w, NEW x, NEW t, w.timer = Timer(t, 0)
  PROVE  Put(Closing(m, e, us, w), Entry("TimerPState", x))
           = Closing(m, e, us, With(w, "timer", Timer(t, Parsed("state", x))))
<1> USE DEF Section, Entry, Timer, Truth
<1> DEFINE At(v) == Closing(m, e, us, v)
           o == At(w)
           n == Len(o.units)
<1>1. o.units[n] = w /\ \A v : [o EXCEPT !.units = [o.units EXCEPT ![n] = v]] = At(v)
  BY LastUnit DEF Closing
<1>2. \A r : Put(r, Entry("TimerPState", x))
              = [r EXCEPT !.units[Len(r.units)].timer[1][2] = Parsed("state", x)]
  BY DEF Put, UnitField, PastField
<1> DEFINE y == Parsed("state", x)
<1> HIDE DEF o, At, y
<1>3. Put(o, Entry("TimerPState", x)) = [o EXCEPT !.units[n].timer[1][2] = y]
  BY <1>2 DEF y
<1> HIDE DEF n
<1>4. [o EXCEPT !.units[n].timer[1][2] = y]
        = [o EXCEPT !.units = [o.units EXCEPT ![n] =
             [o.units[n] EXCEPT !.timer = [o.units[n].timer EXCEPT ![1] =
                [o.units[n].timer[1] EXCEPT ![2] = y]]]]]
  OBVIOUS
<1>5. [w.timer EXCEPT ![1] = [w.timer[1] EXCEPT ![2] = y]] = Timer(t, y)
  OBVIOUS
<1>6. Put(o, Entry("TimerPState", x)) = At(With(w, "timer", Timer(t, y)))
  BY <1>1, <1>3, <1>4, <1>5 DEF With
<1> QED
  BY <1>6 DEF y, o, At

(* A section of the history begins a new entry of the last unit.           *)
LEMMA HistoryEnds ==
  ASSUME NEW T, NEW us \in Seq(T), NEW m, NEW e, NEW w
  PROVE  Put(Closing(m, e, us, w), Section("[PDataHistory]"))
           = Closing(m, e, us, With(w, "history", Append(w.history, NewPast)))
<1> USE DEF Section, Entry, Timer, Truth
<1> DEFINE At(v) == Closing(m, e, us, v)
           o == At(w)
           n == Len(o.units)
<1>1. o.units[n] = w /\ \A v : [o EXCEPT !.units = [o.units EXCEPT ![n] = v]] = At(v)
  BY LastUnit DEF Closing
<1>2. \A r : Put(r, Section("[PDataHistory]"))
              = [r EXCEPT !.units[Len(r.units)].history = Append(@, NewPast)]
  BY DEF Put, UnitField, PastField
<1> DEFINE y == Append(w.history, NewPast)
<1> HIDE DEF o, At
<1>3. Put(o, Section("[PDataHistory]")) = [o EXCEPT !.units[n].history = y]
  BY <1>1, <1>2
<1> HIDE DEF n, y
<1>4. [o EXCEPT !.units[n].history = y]
        = [o EXCEPT !.units = [o.units EXCEPT ![n] = [o.units[n] EXCEPT !.history = y]]]
  OBVIOUS
<1>5. Put(o, Section("[PDataHistory]")) = At(With(w, "history", y))
  BY <1>1, <1>3, <1>4 DEF With
<1> QED
  BY <1>5 DEF y, o, At

(* The entries of such a section change the last entry of the history of   *)
(* the last unit.                                                          *)
LEMMA PastEnds ==
  ASSUME NEW T, NEW us \in Seq(T), NEW m, NEW e, NEW w, NEW x,
         NEW P, NEW h \in Seq(P), NEW p, w.history = Append(h, p)
  PROVE  LET Hist(q) == Closing(m, e, us, With(w, "history", Append(h, q))) IN
         /\ Put(Closing(m, e, us, w), Entry("PidH", x)) = Hist(With(p, "pid", Parsed("pid", x)))
         /\ Put(Closing(m, e, us, w), Entry("ExitCodeH", x))
              = Hist(With(p, "exit", Parsed("exit", x)))
         /\ Put(Closing(m, e, us, w), Entry("PStateH", x))
              = Hist(With(p, "state", Parsed("state", x)))
         /\ Put(Closing(m, e, us, w), Entry("SignalNumH", x))
              = Hist(With(p, "signal", Parsed("signal", x)))
         /\ Put(Closing(m, e, us, w), Entry("FinalStatusH", x))
              = Hist(With(p, "final", Parsed("final", x)))
<1> USE DEF Section, Entry, Timer, Truth
<1> DEFINE At(v) == Closing(m, e, us, v)
           Hist(q) == At(With(w, "history", Append(h, q)))
           o == At(w)
           n == Len(o.units)
<1>1. o.units[n] = w /\ \A v : [o EXCEPT !.units = [o.units EXCEPT ![n] = v]] = At(v)
  BY LastUnit DEF Closing
<1>2. /\ Put(o, Entry("PidH", x)) = InPast(o, "pid", Parsed("pid", x))
      /\ Put(o, Entry("ExitCodeH", x)) = InPast(o, "exit", Parsed("exit", x))
      /\ Put(o, Entry("PStateH", x)) = InPast(o, "state", Parsed("state", x))
      /\ Put(o, Entry("SignalNumH", x)) = InPast(o, "signal", Parsed("signal", x))
      /\ Put(o, Entry("FinalStatusH", x)) = InPast(o, "final", Parsed("final", x))
  BY DEF Put, UnitField, PastField
<1>3. \A field, value :
        InPast(o, field, value)
          = [o EXCEPT !.units[n].history[Len(o.units[n].history)][field] = value]
  BY DEF InPast
<1> HIDE DEF o, n, At
<1>4. ASSUME NEW field, NEW value
      PROVE  InPast(o, field, value) = Hist(With(p, field, value))
  <2> DEFINE a == Append(h, p)
             k == Len(a)
             q == With(p, field, value)
             b == Append(h, q)
  <2>1. a[k] = p /\ [a EXCEPT ![k] = q] = b
    BY LastIs
  <2>2. w.history = a
    OBVIOUS
  <2> HIDE DEF a, b
  <2>3. InPast(o, field, value) = [o EXCEPT !.units[n].history[k][field] = value]
    BY <1>1, <1>3, <2>2
  <2> HIDE DEF k
  <2>4. [o EXCEPT !.units[n].history[k][field] = value]
          = [o EXCEPT !.units = [o.units EXCEPT ![n] =
               [o.units[n] EXCEPT !.history = [o.units[n].history EXCEPT ![k] =
                  [o.units[n].history[k] EXCEPT ![field] = value]]]]]
    OBVIOUS
  <2>5. [w.history EXCEPT ![k] = [w.history[k] EXCEPT ![field] = value]] = b
    BY <2>1, <2>2 DEF With
  <2>6. InPast(o, field, value) = At(With(w, "history", b))
    BY <1>1, <2>3, <2>4, <2>5 DEF With
  <2> QED
    BY <2>6 DEF b
<1> HIDE DEF Hist
<1>5. /\ Put(o, Entry("PidH", x)) = Hist(With(p, "pid", Parsed("pid", x)))
      /\ Put(o, Entry("ExitCodeH", x)) = Hist(With(p, "exit", Parsed("exit", x)))
      /\ Put(o, Entry("PStateH", x)) = Hist(With(p, "state", Parsed("state", x)))
      /\ Put(o, Entry("SignalNumH", x)) = Hist(With(p, "signal", Parsed("signal", x)))
      /\ Put(o, Entry("FinalStatusH", x)) = Hist(With(p, "final", Parsed("final", x)))
  BY <1>2, <1>4
<1> QED
  BY <1>5 DEF o, At, Hist
-----------------------------------------------------------------------------
(* The keys and the entries of the messages. *)
Keys == {"[Unit]", "[PDataHistory]", "Message", "Error", "UnitError", "Name", "Enabled",
         "Restartable", "IsChanged", "TimerName", "TimerPState"}
        \cup DOMAIN UnitField \cup DOMAIN PastField
Entries(T) == {<<k>> : k \in Keys} \cup (Keys \X (T \cup Int))

(* A unit as the entries of a list tell it, and as those of the response   *)
(* about one unit do.                                                      *)
Told(v)     == [v EXCEPT !.restart = v.restart \/ v.max > 0]
ListView(v) == [Told(v) EXCEPT !.timer = <<>>, !.max = -1, !.errors = <<>>, !.exit = -1,
                               !.history = <<>>]

(* What is read of the entries of a repeated key, given what each one      *)
(* leads to.                                                               *)
LEMMA RepeatRead ==
  ASSUME NEW T, NEW values \in Seq(T), NEW key, NEW f,
         \A i \in 1..Len(values) : f[i] = Put(f[i - 1], Entry(key, values[i]))
  PROVE  Read(f[0], Repeat(key, values)) = f[Len(values)]
<1> DEFINE y == Repeat(key, values)
<1>1. /\ Len(y) = Len(values) /\ Len(values) \in Nat
      /\ \A i \in 1..Len(values) : y[i] = Entry(key, values[i])
  BY RepeatIs, LenProperties DEF Entry
<1> HIDE DEF y
<1>2. Len(y) \in Nat /\ \A i \in 1..Len(y) : f[i] = Put(f[i - 1], y[i])
  BY <1>1
<1>3. Read(f[0], y) = f[Len(y)]
  BY <1>2, ReadAs
<1> QED
  BY <1>1, <1>3 DEF y

(* The entries of a repeated key are entries of a message.                 *)
LEMMA EntriesAreSeqs ==
  ASSUME NEW T, NEW values \in Seq(T), NEW key \in Keys
  PROVE  Repeat(key, values) \in Seq(Entries(T))
<1> DEFINE y == Repeat(key, values)
<1>1. y \in Seq({key} \X T)
  BY RepeatIs
<1>2. {key} \X T \subseteq Entries(T)
  BY DEF Entries
<1> HIDE DEF y
<1>3. y \in Seq(Entries(T))
  BY <1>1, <1>2, SeqMonotonic
<1> QED
  BY <1>3 DEF y

(* So are a section, an entry with a name, and one with a number.          *)
LEMMA EntryIs ==
  ASSUME NEW T
  PROVE  /\ \A k \in Keys : Section(k) \in Entries(T)
         /\ \A k \in Keys : \A x \in T : Entry(k, x) \in Entries(T)
         /\ \A k \in Keys : \A x \in Int : Entry(k, x) \in Entries(T)
BY DEF Entries, Section, Entry

(* What both sorts of response say of a unit. *)
LEMMA CommonIsRead ==
  ASSUME NEW T, NEW us, NEW S, us \in Seq(S), NEW m, NEW e, NEW v \in Views(T)
  PROVE  /\ Common(v) \in Seq(Entries(T))
         /\ Read(Out(m, e, us), Common(v)) = Out(m, e, Append(us, ListView(v)))
<1> DEFINE At(w) == Closing(m, e, us, w)
           r == v.restart \/ v.max > 0
           w1 == With(NewView, "name", v.name)
           w2 == With(w1, "enabled", v.enabled)
           w3 == With(w2, "pid", v.pid)
           w4 == With(w3, "state", v.state)
           w5 == With(w4, "final", v.final)
           w6 == With(w5, "num", v.num)
           w7 == With(w6, "restart", r)
           w8 == With(w7, "type", v.type)
           w9 == With(w8, "signal", v.signal)
           w10 == With(w9, "changed", Truth(1))
           c == << Section("[Unit]"), Entry("Name", v.name), Entry("Enabled", Flag(v.enabled)),
                   Entry("Pid", Format(v.pid)), Entry("PState", Format(v.state)),
                   Entry("FinalStatus", Format(v.final)), Entry("RestartNum", Format(v.num)),
                   Entry("Restartable", Flag(r)), Entry("Type", Format(v.type)),
                   Entry("SignalNum", Format(v.signal)) >>
           d == IF v.changed THEN << Entry("IsChanged", 1) >> ELSE <<>>
<1>1. /\ v.name \in T /\ v.enabled \in BOOLEAN /\ v.pid \in Numbers /\ v.state \in Nat
      /\ v.final \in Numbers /\ v.num \in Nat /\ v.max \in Numbers
      /\ v.type \in Nat /\ v.signal \in Numbers /\ v.changed \in BOOLEAN /\ r \in BOOLEAN
  BY DEF Views
<1>2. Common(v) = c \o d
  BY DEF Common, Section, Entry
<1>3. /\ v.changed = TRUE => w10 = ListView(v)
      /\ v.changed = FALSE => w9 = ListView(v)
  <2> DEFINE R(q) ==
        [name |-> v.name, enabled |-> v.enabled, pid |-> v.pid, state |-> v.state,
         final |-> v.final, num |-> v.num, restart |-> r, max |-> -1, type |-> v.type,
         signal |-> v.signal, changed |-> q, timer |-> <<>>, errors |-> <<>>, exit |-> -1,
         history |-> <<>>]
  <2>1. v = [name |-> v.name, enabled |-> v.enabled, pid |-> v.pid, state |-> v.state,
             final |-> v.final, num |-> v.num, restart |-> v.restart, max |-> v.max,
             type |-> v.type, signal |-> v.signal, changed |-> v.changed, timer |-> v.timer,
             errors |-> v.errors, exit |-> v.exit, history |-> v.history]
    BY DEF Views
  <2>2. ListView(v) = With(With(With(With(With(With(v, "restart", r), "timer", <<>>), "max", -1),
                                         "errors", <<>>), "exit", -1), "history", <<>>)
    BY Zenon DEF ListView, Told, With
  <2> HIDE DEF r
  <2>3. ListView(v) = R(v.changed)
    <3> DEFINE Y(a1, a2, a3, a4, a5, a6) ==
                 [name |-> v.name, enabled |-> v.enabled, pid |-> v.pid, state |-> v.state,
                  final |-> v.final, num |-> v.num, restart |-> a1, max |-> a3, type |-> v.type,
                  signal |-> v.signal, changed |-> v.changed, timer |-> a2, errors |-> a4,
                  exit |-> a5, history |-> a6]
    <3>1. With(Y(v.restart, v.timer, v.max, v.errors, v.exit, v.history), "restart", r)
            = Y(r, v.timer, v.max, v.errors, v.exit, v.history)
      BY DEF With
    <3>2. With(Y(r, v.timer, v.max, v.errors, v.exit, v.history), "timer", <<>>)
            = Y(r, <<>>, v.max, v.errors, v.exit, v.history)
      BY DEF With
    <3>3. With(Y(r, <<>>, v.max, v.errors, v.exit, v.history), "max", -1)
            = Y(r, <<>>, -1, v.errors, v.exit, v.history)
      BY DEF With
    <3>4. With(Y(r, <<>>, -1, v.errors, v.exit, v.history), "errors", <<>>)
            = Y(r, <<>>, -1, <<>>, v.exit, v.history)
      BY DEF With
    <3>5. With(Y(r, <<>>, -1, <<>>, v.exit, v.history), "exit", -1)
            = Y(r, <<>>, -1, <<>>, -1, v.history)
      BY DEF With
    <3>6. With(Y(r, <<>>, -1, <<>>, -1, v.history), "history", <<>>)
            = Y(r, <<>>, -1, <<>>, -1, <<>>)
      BY DEF With
    <3>7. v = Y(v.restart, v.timer, v.max, v.errors, v.exit, v.history)
      BY <2>1
    <3>8. R(v.changed) = Y(r, <<>>, -1, <<>>, -1, <<>>)
      OBVIOUS
    <3> HIDE DEF Y, R
    <3> QED
      BY <2>2, <3>1, <3>2, <3>3, <3>4, <3>5, <3>6, <3>7, <3>8
  <2>4. w9 = R(FALSE)
    <3> DEFINE no == FALSE
               Z(a1, a2, a3, a4, a5, a6, a7, a8, a9) ==
                 [name |-> a1, enabled |-> a2, pid |-> a3, state |-> a4, final |-> a5,
                  num |-> a6, restart |-> a7, max |-> -1, type |-> a8, signal |-> a9,
                  changed |-> no, timer |-> <<>>, errors |-> <<>>, exit |-> -1, history |-> <<>>]
    <3>1. NewView = Z(0, no, -1, 0, -1, 0, no, 0, -1)
      BY Zenon DEF NewView
    <3> HIDE DEF no
    <3>2. [Z(0, no, -1, 0, -1, 0, no, 0, -1) EXCEPT !.name = v.name]
            = Z(v.name, no, -1, 0, -1, 0, no, 0, -1)
      OBVIOUS
    <3>3. [Z(v.name, no, -1, 0, -1, 0, no, 0, -1) EXCEPT !.enabled = v.enabled]
            = Z(v.name, v.enabled, -1, 0, -1, 0, no, 0, -1)
      OBVIOUS
    <3>4. [Z(v.name, v.enabled, -1, 0, -1, 0, no, 0, -1) EXCEPT !.pid = v.pid]
            = Z(v.name, v.enabled, v.pid, 0, -1, 0, no, 0, -1)
      OBVIOUS
    <3>5. [Z(v.name, v.enabled, v.pid, 0, -1, 0, no, 0, -1) EXCEPT !.state = v.state]
            = Z(v.name, v.enabled, v.pid, v.state, -1, 0, no, 0, -1)
      OBVIOUS
    <3>6. [Z(v.name, v.enabled, v.pid, v.state, -1, 0, no, 0, -1) EXCEPT !.final = v.final]
            = Z(v.name, v.enabled, v.pid, v.state, v.final, 0, no, 0, -1)
      OBVIOUS
    <3>7. [Z(v.name, v.enabled, v.pid, v.state, v.final, 0, no, 0, -1) EXCEPT !.num = v.num]
            = Z(v.name, v.enabled, v.pid, v.state, v.final, v.num, no, 0, -1)
      OBVIOUS
    <3>8. [Z(v.name, v.enabled, v.pid, v.state, v.final, v.num, no, 0, -1) EXCEPT !.restart = r]
            = Z(v.name, v.enabled, v.pid, v.state, v.final, v.num, r, 0, -1)
      OBVIOUS
    <3>9. [Z(v.name, v.enabled, v.pid, v.state, v.final, v.num, r, 0, -1) EXCEPT !.type = v.type]
            = Z(v.name, v.enabled, v.pid, v.state, v.final, v.num, r, v.type, -1)
      OBVIOUS
    <3>10. [Z(v.name, v.enabled, v.pid, v.state, v.final, v.num, r, v.type, -1) EXCEPT !.signal = v.signal]
            = Z(v.name, v.enabled, v.pid, v.state, v.final, v.num, r, v.type, v.signal)
      OBVIOUS
    <3>11. Z(v.name, v.enabled, v.pid, v.state, v.final, v.num, r, v.type, v.signal) = R(no)
      OBVIOUS
    <3> HIDE DEF Z, R
    <3>12. w9 = R(no)
      BY <3>1, <3>2, <3>3, <3>4, <3>5, <3>6, <3>7, <3>8, <3>9, <3>10, <3>11 DEF With
    <3> HIDE DEF w9
    <3> QED
      BY <3>12, Zenon DEF no
  <2>5. [R(FALSE) EXCEPT !.changed = TRUE] = R(TRUE)
    <3> DEFINE no == FALSE
               yes == TRUE
    <3> HIDE DEF no, yes
    <3>1. [R(no) EXCEPT !.changed = yes] = R(yes)
      OBVIOUS
    <3> QED
      BY <3>1, Zenon DEF no, yes
  <2> HIDE DEF w9, R
  <2>6. w10 = R(TRUE)
    <3>1. Truth(1) = TRUE
      BY DEF Truth
    <3> QED
      BY <2>4, <2>5, <3>1, Zenon DEF With
  <2> HIDE DEF w10
  <2>7. v.changed = TRUE => w10 = ListView(v)
    BY <2>3, <2>6, Zenon
  <2>8. v.changed = FALSE => w9 = ListView(v)
    BY <2>3, <2>4, Zenon
  <2> QED
    BY <2>7, <2>8
<1> HIDE DEF r
<1>4. /\ Parsed("pid", Format(v.pid)) = v.pid /\ Parsed("state", Format(v.state)) = v.state
      /\ Parsed("final", Format(v.final)) = v.final /\ Parsed("num", Format(v.num)) = v.num
      /\ Parsed("type", Format(v.type)) = v.type
      /\ Parsed("signal", Format(v.signal)) = v.signal
  BY <1>1, NumbersAreRead
<1>5. /\ Format(v.pid) \in Int /\ Format(v.state) \in Int /\ Format(v.final) \in Int
      /\ Format(v.num) \in Int /\ Format(v.type) \in Int /\ Format(v.signal) \in Int
      /\ Flag(v.enabled) \in Int /\ Flag(r) \in Int
  BY <1>1 DEF Format, Flag, Numbers, NoneText
<1>6. c \in Seq(Entries(T)) /\ d \in Seq(Entries(T))
  <2> DEFINE E == Entries(T)
  <2>1. /\ Section("[Unit]") \in E /\ Entry("Name", v.name) \in E /\ Entry("Enabled", Flag(v.enabled)) \in E
        /\ Entry("Pid", Format(v.pid)) \in E /\ Entry("PState", Format(v.state)) \in E
        /\ Entry("FinalStatus", Format(v.final)) \in E /\ Entry("RestartNum", Format(v.num)) \in E
        /\ Entry("Restartable", Flag(r)) \in E /\ Entry("Type", Format(v.type)) \in E
        /\ Entry("SignalNum", Format(v.signal)) \in E /\ Entry("IsChanged", 1) \in E
    <3> DEFINE K == Keys
               N == Int
    <3>1. /\ \A k \in K : Section(k) \in E
          /\ \A k \in K : \A x \in T : Entry(k, x) \in E
          /\ \A k \in K : \A x \in N : Entry(k, x) \in E
      BY EntryIs
    <3>2. /\ "[Unit]" \in K /\ "Name" \in K /\ "Enabled" \in K /\ "Pid" \in K /\ "PState" \in K
          /\ "FinalStatus" \in K /\ "RestartNum" \in K /\ "Restartable" \in K /\ "Type" \in K
          /\ "SignalNum" \in K /\ "IsChanged" \in K
      BY DEF Keys, UnitField
    <3>3. /\ Format(v.pid) \in N /\ Format(v.state) \in N /\ Format(v.final) \in N
          /\ Format(v.num) \in N /\ Format(v.type) \in N /\ Format(v.signal) \in N
          /\ Flag(v.enabled) \in N /\ Flag(r) \in N /\ 1 \in N
      BY <1>5
    <3> HIDE DEF E, K, N
    <3> QED
      BY <1>1, <3>1, <3>2, <3>3
  <2> HIDE DEF E
  <2>2. c \in Seq(E)
    BY <2>1
  <2>3. d \in Seq(E)
    <3>1. << Entry("IsChanged", 1) >> \in Seq(E)
      BY <2>1
    <3> QED
      BY <1>1, <3>1, EmptySeq
  <2> QED
    BY <2>2, <2>3 DEF E
<1>7. /\ w1 = With(NewView, "name", v.name) /\ w3 = With(w2, "pid", v.pid)
      /\ w4 = With(w3, "state", v.state) /\ w5 = With(w4, "final", v.final)
      /\ w6 = With(w5, "num", v.num) /\ w8 = With(w7, "type", v.type)
      /\ w9 = With(w8, "signal", v.signal)
  BY Zenon
<1>8. w2 = With(w1, "enabled", v.enabled) /\ w7 = With(w6, "restart", r)
      /\ w10 = With(w9, "changed", Truth(1))
  BY Zenon
<1> HIDE DEF w1, w2, w3, w4, w5, w6, w7, w8, w9, w10
<1>9. /\ Put(Out(m, e, us), Section("[Unit]")) = At(NewView)
      /\ Put(At(NewView), Entry("Name", v.name)) = At(w1)
      /\ Put(At(w2), Entry("Pid", Format(v.pid))) = At(w3)
      /\ Put(At(w3), Entry("PState", Format(v.state))) = At(w4)
      /\ Put(At(w4), Entry("FinalStatus", Format(v.final))) = At(w5)
      /\ Put(At(w5), Entry("RestartNum", Format(v.num))) = At(w6)
      /\ Put(At(w7), Entry("Type", Format(v.type))) = At(w8)
      /\ Put(At(w8), Entry("SignalNum", Format(v.signal))) = At(w9)
  BY <1>4, <1>7, PutEnds
<1>10. Put(At(w9), Entry("IsChanged", 1)) = At(w10)
  <2>1. Put(At(w9), Entry("IsChanged", 1)) = At(With(w9, "changed", Truth(1)))
    BY PutEnds
  <2> QED
    BY <1>8, <2>1, Zenon
<1>11. Put(At(w1), Entry("Enabled", Flag(v.enabled))) = At(w2)
  <2>1. Truth(Flag(v.enabled)) = v.enabled
    BY <1>1 DEF Flag, Truth
  <2>2. Put(At(w1), Entry("Enabled", Flag(v.enabled)))
          = At(With(w1, "enabled", Truth(Flag(v.enabled))))
    BY PutEnds
  <2> QED
    BY <1>8, <2>1, <2>2, Zenon
<1>12. Put(At(w6), Entry("Restartable", Flag(r))) = At(w7)
  <2>1. Truth(Flag(r)) = r
    BY <1>1 DEF Flag, Truth
  <2>2. Put(At(w6), Entry("Restartable", Flag(r))) = At(With(w6, "restart", Truth(Flag(r))))
    BY PutEnds
  <2> QED
    BY <1>8, <2>1, <2>2, Zenon
<1> HIDE DEF At
<1>13. Read(Out(m, e, us), c) = At(w9)
  <2> DEFINE f == [i \in 0..10 |-> CASE i = 0 -> Out(m, e, us)
                     [] i = 1 -> At(NewView) [] i = 2 -> At(w1) [] i = 3 -> At(w2)
                     [] i = 4 -> At(w3) [] i = 5 -> At(w4) [] i = 6 -> At(w5)
                     [] i = 7 -> At(w6) [] i = 8 -> At(w7) [] i = 9 -> At(w8)
                     [] i = 10 -> At(w9)]
  <2>1. /\ Len(c) = 10 /\ f[0] = Out(m, e, us) /\ f[10] = At(w9)
        /\ \A i \in 1..10 : f[i] = Put(f[i - 1], c[i])
    <3>1. \A i \in 1..10 : i \in {1, 2, 3, 4, 5, 6, 7, 8, 9, 10}
      OBVIOUS
    <3> QED
      BY <1>9, <1>11, <1>12, <3>1
  <2> HIDE DEF f, c
  <2>2. Len(c) \in Nat /\ \A i \in 1..Len(c) : f[i] = Put(f[i - 1], c[i])
    BY <2>1
  <2>3. Read(f[0], c) = f[Len(c)]
    BY <2>2, ReadAs
  <2> QED
    BY <2>1, <2>3
<1>14. Read(At(w9), d) = At(ListView(v))
  <2>1. Read(At(w9), << Entry("IsChanged", 1) >>) = At(w10)
    <3> DEFINE f == [i \in 0..1 |-> IF i = 0 THEN At(w9) ELSE At(w10)]
               x == << Entry("IsChanged", 1) >>
    <3>1. Len(x) = 1 /\ f[0] = At(w9) /\ f[1] = At(w10) /\ x[1] = Entry("IsChanged", 1)
      OBVIOUS
    <3> HIDE DEF f, x
    <3>2. Len(x) \in Nat /\ \A i \in 1..Len(x) : f[i] = Put(f[i - 1], x[i])
      BY <1>10, <3>1
    <3>3. Read(f[0], x) = f[Len(x)]
      BY <3>2, ReadAs
    <3> QED
      BY <3>1, <3>3 DEF x
  <2>2. Read(At(w9), <<>>) = At(w9)
    BY ReadNone
  <2> QED
    BY <1>1, <1>3, <2>1, <2>2
<1> HIDE DEF c, d
<1>15. Read(Out(m, e, us), c \o d) = Read(Read(Out(m, e, us), c), d)
  BY <1>6, ReadConcat
<1> QED
  BY <1>2, <1>6, <1>13, <1>14, <1>15 DEF At, Closing

(* A field that is replaced. *)
LEMMA WithIs ==
  ASSUME NEW w, NEW field \in DOMAIN w, NEW x, NEW y
  PROVE  /\ With(w, field, x)[field] = x /\ DOMAIN With(w, field, x) = DOMAIN w
         /\ With(With(w, field, x), field, y) = With(w, field, y)
BY DEF With

(* The entries of an entry of the history. *)
LEMMA PastIsSeq ==
  ASSUME NEW T, NEW p \in Pasts
  PROVE  Past(p) \in Seq(Entries(T))
<1> DEFINE E == Entries(T)
           K == Keys
           N == Int
           c == << Section("[PDataHistory]"), Entry("PidH", Format(p.pid)),
                   Entry("ExitCodeH", Format(p.exit)), Entry("PStateH", Format(p.state)),
                   Entry("SignalNumH", Format(p.signal)), Entry("FinalStatusH", Format(p.final)) >>
<1>1. /\ p.pid \in Numbers /\ p.exit \in Numbers /\ p.state \in Nat /\ p.signal \in Numbers
      /\ p.final \in Numbers
  BY DEF Pasts
<1>2. Past(p) = c
  BY DEF Past, Section, Entry
<1>3. /\ \A k \in K : Section(k) \in E
      /\ \A k \in K : \A x \in N : Entry(k, x) \in E
  BY EntryIs
<1>4. /\ "[PDataHistory]" \in K /\ "PidH" \in K /\ "ExitCodeH" \in K /\ "PStateH" \in K
      /\ "SignalNumH" \in K /\ "FinalStatusH" \in K
  BY DEF Keys, PastField
<1>5. /\ Format(p.pid) \in N /\ Format(p.exit) \in N /\ Format(p.state) \in N
      /\ Format(p.signal) \in N /\ Format(p.final) \in N
  BY <1>1 DEF Format, Numbers, NoneText
<1> HIDE DEF E, K, N
<1>6. /\ Section("[PDataHistory]") \in E /\ Entry("PidH", Format(p.pid)) \in E
      /\ Entry("ExitCodeH", Format(p.exit)) \in E /\ Entry("PStateH", Format(p.state)) \in E
      /\ Entry("SignalNumH", Format(p.signal)) \in E
      /\ Entry("FinalStatusH", Format(p.final)) \in E
  BY <1>3, <1>4, <1>5
<1>7. c \in Seq(E)
  BY <1>6
<1> QED
  BY <1>2, <1>7 DEF E

(* An entry of the history is read as it was written.                      *)
LEMMA PastIsRead ==
  ASSUME NEW us, NEW S, us \in Seq(S), NEW m, NEW e, NEW w, "history" \in DOMAIN w,
         w.history \in Seq(Pasts), NEW p \in Pasts
  PROVE  Read(Closing(m, e, us, w), Past(p))
           = Closing(m, e, us, With(w, "history", Append(w.history, p)))
<1> DEFINE h == w.history
           At(q) == Closing(m, e, us, With(w, "history", Append(h, q)))
           q1 == With(NewPast, "pid", p.pid)
           q2 == With(q1, "exit", p.exit)
           q3 == With(q2, "state", p.state)
           q4 == With(q3, "signal", p.signal)
           q5 == With(q4, "final", p.final)
           c == << Section("[PDataHistory]"), Entry("PidH", Format(p.pid)),
                   Entry("ExitCodeH", Format(p.exit)), Entry("PStateH", Format(p.state)),
                   Entry("SignalNumH", Format(p.signal)), Entry("FinalStatusH", Format(p.final)) >>
<1>1. /\ p.pid \in Numbers /\ p.exit \in Numbers /\ p.state \in Nat /\ p.signal \in Numbers
      /\ p.final \in Numbers
  BY DEF Pasts
<1>2. Past(p) = c
  BY DEF Past, Section, Entry
<1>3. q5 = p
  BY DEF With, NewPast, Pasts
<1>4. /\ Parsed("pid", Format(p.pid)) = p.pid /\ Parsed("exit", Format(p.exit)) = p.exit
      /\ Parsed("state", Format(p.state)) = p.state
      /\ Parsed("signal", Format(p.signal)) = p.signal
      /\ Parsed("final", Format(p.final)) = p.final
  BY <1>1, NumbersAreRead
<1>6. Put(Closing(m, e, us, w), Section("[PDataHistory]")) = At(NewPast)
  BY HistoryEnds
<1>7. ASSUME NEW q, NEW x
      PROVE  /\ Put(At(q), Entry("PidH", x)) = At(With(q, "pid", Parsed("pid", x)))
             /\ Put(At(q), Entry("ExitCodeH", x)) = At(With(q, "exit", Parsed("exit", x)))
             /\ Put(At(q), Entry("PStateH", x)) = At(With(q, "state", Parsed("state", x)))
             /\ Put(At(q), Entry("SignalNumH", x)) = At(With(q, "signal", Parsed("signal", x)))
             /\ Put(At(q), Entry("FinalStatusH", x)) = At(With(q, "final", Parsed("final", x)))
  <2> DEFINE u == With(w, "history", Append(h, q))
  <2>1. u.history = Append(h, q)
    BY DEF With
  <2>2. \A y : With(u, "history", y) = With(w, "history", y)
    BY WithIs
  <2>3. h \in Seq(Pasts)
    OBVIOUS
  <2> HIDE DEF h, u
  <2> QED
    BY <2>1, <2>2, <2>3, PastEnds DEF u
<1>8. /\ q1 = With(NewPast, "pid", p.pid) /\ q2 = With(q1, "exit", p.exit)
      /\ q3 = With(q2, "state", p.state) /\ q4 = With(q3, "signal", p.signal)
      /\ q5 = With(q4, "final", p.final)
  BY Zenon
<1> HIDE DEF At, q1, q2, q3, q4, q5
<1>9. Read(Closing(m, e, us, w), c) = At(q5)
  <2> DEFINE f == [i \in 0..6 |-> CASE i = 0 -> Closing(m, e, us, w)
                     [] i = 1 -> At(NewPast) [] i = 2 -> At(q1) [] i = 3 -> At(q2)
                     [] i = 4 -> At(q3) [] i = 5 -> At(q4) [] i = 6 -> At(q5)]
  <2>1. /\ Put(At(NewPast), Entry("PidH", Format(p.pid))) = At(q1)
        /\ Put(At(q1), Entry("ExitCodeH", Format(p.exit))) = At(q2)
        /\ Put(At(q2), Entry("PStateH", Format(p.state))) = At(q3)
        /\ Put(At(q3), Entry("SignalNumH", Format(p.signal))) = At(q4)
        /\ Put(At(q4), Entry("FinalStatusH", Format(p.final))) = At(q5)
    BY <1>4, <1>7, <1>8
  <2>2. /\ Len(c) = 6 /\ f[0] = Closing(m, e, us, w) /\ f[6] = At(q5)
        /\ \A i \in 1..6 : f[i] = Put(f[i - 1], c[i])
    <3>1. \A i \in 1..6 : i \in {1, 2, 3, 4, 5, 6}
      OBVIOUS
    <3> QED
      BY <1>6, <2>1, <3>1
  <2> HIDE DEF f, c
  <2>3. Len(c) \in Nat /\ \A i \in 1..Len(c) : f[i] = Put(f[i - 1], c[i])
    BY <2>2
  <2>4. Read(f[0], c) = f[Len(c)]
    BY <2>3, ReadAs
  <2> QED
    BY <2>2, <2>4
<1> QED
  BY <1>2, <1>3, <1>9 DEF At

(* What is read of the errors, and of the history, of a unit.              *)
LEMMA ErrorsAreRead ==
  ASSUME NEW T, NEW us, NEW S, us \in Seq(S), NEW m, NEW e, NEW w, "errors" \in DOMAIN w,
         w.errors = <<>>, NEW es \in Seq(T)
  PROVE  Read(Closing(m, e, us, w), Repeat("UnitError", es))
           = Closing(m, e, us, IF es = <<>> THEN w ELSE With(w, "errors", es))
<1> DEFINE W(i) == IF i = 0 THEN w ELSE With(w, "errors", SubSeq(es, 1, i))
           f == [i \in 0..Len(es) |-> Closing(m, e, us, W(i))]
<1>1. Len(es) \in Nat /\ (Len(es) = 0 <=> es = <<>>) /\ SubSeq(es, 1, Len(es)) = es
  BY EmptySeq
<1>2. ASSUME NEW i \in 1..Len(es)
      PROVE  Put(Closing(m, e, us, W(i - 1)), Entry("UnitError", es[i])) = Closing(m, e, us, W(i))
  <2> DEFINE a == W(i - 1)
             b == SubSeq(es, 1, i)
  <2>1. Put(Closing(m, e, us, a), Entry("UnitError", es[i]))
          = Closing(m, e, us, With(a, "errors", Append(a.errors, es[i])))
    <3> HIDE DEF a
    <3> QED
      BY PutEnds
  <2>2. a.errors = SubSeq(es, 1, i - 1)
    <3>1. CASE i = 1
      <4>1. SubSeq(es, 1, i - 1) = <<>>
        BY <3>1
      <4>2. a = w
        BY <3>1
      <4> HIDE DEF a
      <4> QED
        BY <4>1, <4>2
    <3>2. CASE i # 1
      <4>1. a = With(w, "errors", SubSeq(es, 1, i - 1))
        BY <3>2
      <4> HIDE DEF a
      <4> QED
        BY <4>1 DEF With
    <3> QED
      BY <3>1, <3>2
  <2>3. \A y : With(a, "errors", y) = With(w, "errors", y)
    <3> HIDE DEF a
    <3>1. a = w \/ a = With(w, "errors", SubSeq(es, 1, i - 1))
      BY DEF a
    <3> QED
      BY <3>1, WithIs
  <2>4. Append(SubSeq(es, 1, i - 1), es[i]) = b
    OBVIOUS
  <2>5. W(i) = With(w, "errors", b)
    OBVIOUS
  <2> HIDE DEF a, b, W
  <2>6. Put(Closing(m, e, us, a), Entry("UnitError", es[i])) = Closing(m, e, us, W(i))
    BY <2>1, <2>2, <2>3, <2>4, <2>5
  <2> QED
    BY <2>6 DEF a
<1>3. f[0] = Closing(m, e, us, w) /\ f[Len(es)] = Closing(m, e, us, W(Len(es)))
  BY <1>1
<1>4. \A i \in 1..Len(es) : f[i] = Put(f[i - 1], Entry("UnitError", es[i]))
  <2> HIDE DEF W
  <2> QED
    BY <1>1, <1>2
<1> HIDE DEF f
<1>5. Read(f[0], Repeat("UnitError", es)) = f[Len(es)]
  BY <1>4, RepeatRead
<1>6. W(Len(es)) = IF es = <<>> THEN w ELSE With(w, "errors", es)
  BY <1>1
<1> QED
  BY <1>3, <1>5, <1>6

Codes              == Nat
HistoryEntries(h)  == [i \in DOMAIN h |-> Past(h[i])]
TimerEntries(t, n) == << Entry("TimerName", t), Entry("TimerPState", Format(n)) >>

(* The entries of the history of a unit. *)
LEMMA HistoryIsSeq ==
  ASSUME NEW T, NEW h \in Seq(Pasts)
  PROVE  /\ HistoryEntries(h) \in Seq(Seq(Entries(T))) /\ Len(HistoryEntries(h)) = Len(h)
         /\ \A i \in 1..Len(h) : HistoryEntries(h)[i] = Past(h[i])
<1> DEFINE E == Seq(Entries(T))
           ps == [i \in DOMAIN h |-> Past(h[i])]
<1>1. DOMAIN h = 1..Len(h) /\ Len(h) \in Nat /\ \A i \in 1..Len(h) : Past(h[i]) \in E
  BY PastIsSeq
<1> HIDE DEF E
<1>2. ps = [i \in 1..Len(h) |-> Past(h[i])]
  BY <1>1
<1> HIDE DEF ps
<1>3. ps \in Seq(E) /\ Len(ps) = Len(h) /\ \A i \in 1..Len(h) : ps[i] = Past(h[i])
  BY <1>1, <1>2
<1> QED
  BY <1>3 DEF E, ps, HistoryEntries

(* The history of a unit is read as it was written.                        *)
LEMMA HistoryIsRead ==
  ASSUME NEW us, NEW S, us \in Seq(S), NEW m, NEW e, NEW w, "history" \in DOMAIN w,
         w.history = <<>>, NEW h \in Seq(Pasts)
  PROVE  Read(Closing(m, e, us, w), FlattenSeq(HistoryEntries(h)))
           = Closing(m, e, us, IF h = <<>> THEN w ELSE With(w, "history", h))
<1> DEFINE ps == HistoryEntries(h)
           W(i) == IF i = 0 THEN w ELSE With(w, "history", SubSeq(h, 1, i))
           f == [i \in 0..Len(h) |-> Closing(m, e, us, W(i))]
<1>1. /\ Len(h) \in Nat /\ (Len(h) = 0 <=> h = <<>>) /\ SubSeq(h, 1, Len(h)) = h
      /\ DOMAIN h = 1..Len(h) /\ \A i \in 1..Len(h) : h[i] \in Pasts
  BY EmptySeq
<1>2. ASSUME NEW i \in 1..Len(h)
      PROVE  Read(Closing(m, e, us, W(i - 1)), Past(h[i])) = Closing(m, e, us, W(i))
  <2> DEFINE a == W(i - 1)
             b == SubSeq(h, 1, i)
             g == SubSeq(h, 1, i - 1)
  <2>1. "history" \in DOMAIN a /\ a.history = g
    <3>1. CASE i = 1
      <4>1. g = <<>>
        BY <3>1
      <4>2. a = w
        BY <3>1
      <4> HIDE DEF a, g
      <4> QED
        BY <4>1, <4>2
    <3>2. CASE i # 1
      <4>1. a = With(w, "history", g)
        BY <3>2
      <4> HIDE DEF a, g
      <4> QED
        BY <4>1 DEF With
    <3> QED
      BY <3>1, <3>2
  <2>2. g \in Seq(Pasts)
    OBVIOUS
  <2>3. \A y : With(a, "history", y) = With(w, "history", y)
    <3> HIDE DEF a
    <3>1. a = w \/ a = With(w, "history", SubSeq(h, 1, i - 1))
      BY DEF a
    <3> QED
      BY <3>1, WithIs
  <2>4. Append(g, h[i]) = b
    OBVIOUS
  <2>5. W(i) = With(w, "history", b)
    OBVIOUS
  <2> HIDE DEF a, b, g, W
  <2>6. Read(Closing(m, e, us, a), Past(h[i]))
          = Closing(m, e, us, With(a, "history", Append(a.history, h[i])))
    <3>1. a.history \in Seq(Pasts) /\ "history" \in DOMAIN a
      BY <2>1, <2>2
    <3> DEFINE p == h[i]
    <3>2. p \in Pasts
      BY <1>1
    <3> HIDE DEF p
    <3>3. Read(Closing(m, e, us, a), Past(p))
            = Closing(m, e, us, With(a, "history", Append(a.history, p)))
      BY <3>1, <3>2, PastIsRead
    <3> QED
      BY <3>3 DEF p
  <2>7. Read(Closing(m, e, us, a), Past(h[i])) = Closing(m, e, us, W(i))
    BY <2>1, <2>3, <2>4, <2>5, <2>6
  <2> QED
    BY <2>7 DEF a
<1>3. /\ f[0] = Closing(m, e, us, w) /\ f[Len(h)] = Closing(m, e, us, W(Len(h)))
  BY <1>1
<1>4. \A i \in 1..Len(h) : f[i] = Read(f[i - 1], Past(h[i]))
  <2> HIDE DEF W
  <2> QED
    BY <1>1, <1>2
<1> DEFINE E == Entries({})
<1>5. ps \in Seq(Seq(E)) /\ Len(ps) = Len(h) /\ \A i \in 1..Len(h) : ps[i] = Past(h[i])
  BY HistoryIsSeq
<1> HIDE DEF f, ps, E
<1>6. Read(f[0], FlattenSeq(ps)) = f[Len(ps)]
  <2>1. \A i \in 1..Len(ps) : f[i] = Read(f[i - 1], ps[i])
    BY <1>4, <1>5
  <2> QED
    BY <1>5, <2>1, ReadFlatten
<1>7. W(Len(h)) = IF h = <<>> THEN w ELSE With(w, "history", h)
  BY <1>1
<1> QED
  BY <1>3, <1>5, <1>6, <1>7 DEF ps

(* A buffer of one entry.                                                  *)
LEMMA ReadOne ==
  ASSUME NEW out, NEW x
  PROVE  Read(out, <<x>>) = Put(out, x)
<1> DEFINE s == <<x>>
           f == [i \in 0..1 |-> IF i = 0 THEN out ELSE Put(out, x)]
<1>1. Len(s) = 1 /\ f[0] = out /\ f[1] = Put(out, x) /\ s[1] = x
  OBVIOUS
<1> HIDE DEF s, f
<1>2. Len(s) \in Nat /\ \A i \in 1..Len(s) : f[i] = Put(f[i - 1], s[i])
  BY <1>1
<1>3. Read(f[0], s) = f[Len(s)]
  BY <1>2, ReadAs
<1> QED
  BY <1>1, <1>3 DEF s

(* What is read of the timer of a unit. *)
LEMMA TimerIsRead ==
  ASSUME NEW T, NEW us, NEW S, us \in Seq(S), NEW m, NEW e, NEW w, "timer" \in DOMAIN w,
         NEW t \in T, NEW n \in Codes
  PROVE  /\ TimerEntries(t, n) \in Seq(Entries(T))
         /\ Read(Closing(m, e, us, w), TimerEntries(t, n))
              = Closing(m, e, us, With(w, "timer", Timer(t, n)))
<1> DEFINE a == Entry("TimerName", t)
           b == Entry("TimerPState", Format(n))
           u == With(w, "timer", Timer(t, 0))
<1> USE DEF Codes
<1>1. a \in Entries(T) /\ b \in Entries(T)
  <2> DEFINE E == Entries(T)
             K == Keys
             N == Int
  <2>1. /\ \A k \in K : \A x \in T : Entry(k, x) \in E
        /\ \A k \in K : \A x \in N : Entry(k, x) \in E
    BY EntryIs
  <2>2. "TimerName" \in K /\ "TimerPState" \in K
    BY DEF Keys
  <2>3. Format(n) \in N
    BY DEF Format, NoneText
  <2> HIDE DEF E, K, N
  <2>4. a \in E /\ b \in E
    BY <2>1, <2>2, <2>3
  <2> QED
    BY <2>4 DEF E
<1>2. Put(Closing(m, e, us, w), a) = Closing(m, e, us, u)
  BY PutEnds
<1>3. u.timer = Timer(t, 0)
  BY DEF With
<1>4. \A x : With(u, "timer", x) = With(w, "timer", x)
  BY WithIs
<1>5. Parsed("state", Format(n)) = n
  BY NumbersAreRead
<1> HIDE DEF u
<1>6. Put(Closing(m, e, us, u), b) = Closing(m, e, us, With(w, "timer", Timer(t, n)))
  BY <1>3, <1>4, <1>5, TimerEnds
<1> HIDE DEF a, b
<1> DEFINE s == <<a, b>>
           o == Closing(m, e, us, w)
           p == Closing(m, e, us, With(w, "timer", Timer(t, n)))
           f == [i \in 0..2 |-> CASE i = 0 -> o [] i = 1 -> Closing(m, e, us, u) [] i = 2 -> p]
<1>7. s \in Seq(Entries(T))
  BY <1>1
<1> HIDE DEF o, p
<1>8. /\ Len(s) = 2 /\ f[0] = o /\ f[1] = Closing(m, e, us, u) /\ f[2] = p
      /\ s[1] = a /\ s[2] = b
  OBVIOUS
<1> HIDE DEF s, f
<1>9. Len(s) \in Nat /\ \A i \in 1..Len(s) : f[i] = Put(f[i - 1], s[i])
  <2>1. \A i \in 1..2 : i \in {1, 2}
    OBVIOUS
  <2> QED
    BY <1>2, <1>6, <1>8, <2>1 DEF o, p
<1>10. Read(f[0], s) = f[Len(s)]
  BY <1>9, ReadAs
<1> QED
  BY <1>7, <1>8, <1>10 DEF a, b, s, o, p, TimerEntries

(* What the response about one unit says of it besides.                    *)
LEMMA DetailsAreRead ==
  ASSUME NEW T, NEW us, NEW S, us \in Seq(S), NEW m, NEW e, NEW v \in Views(T)
  PROVE  /\ Details(v) \in Seq(Entries(T))
         /\ Read(Closing(m, e, us, ListView(v)), Details(v)) = Closing(m, e, us, Told(v))
<1> DEFINE E == Entries(T)
           At(w) == Closing(m, e, us, w)
           r == v.restart \/ v.max > 0
           R(a, b, c, d, f) ==
             [name |-> v.name, enabled |-> v.enabled, pid |-> v.pid, state |-> v.state,
              final |-> v.final, num |-> v.num, restart |-> r, max |-> b, type |-> v.type,
              signal |-> v.signal, changed |-> v.changed, timer |-> a, errors |-> c,
              exit |-> d, history |-> f]
           c1 == IF v.timer = <<>> THEN <<>> ELSE TimerEntries(v.timer[1][1], v.timer[1][2])
           c2 == << Entry("RestartMax", Format(v.max)) >>
           c3 == Repeat("UnitError", v.errors)
           c4 == << Entry("ExitCode", Format(v.exit)) >>
           c5 == FlattenSeq(HistoryEntries(v.history))
<1>1. /\ v.max \in Numbers /\ v.exit \in Numbers /\ v.errors \in Seq(T)
      /\ v.history \in Seq(Pasts)
      /\ v.timer = <<>> \/ \E t \in T, n \in Nat : v.timer = <<<<t, n>>>>
  BY DEF Views
<1>2. Details(v) = c1 \o c2 \o c3 \o c4 \o c5
  BY DEF Details, Entry, TimerEntries, HistoryEntries
<1>3. Told(v) = R(v.timer, v.max, v.errors, v.exit, v.history)
  <2>1. v = [name |-> v.name, enabled |-> v.enabled, pid |-> v.pid, state |-> v.state,
             final |-> v.final, num |-> v.num, restart |-> v.restart, max |-> v.max,
             type |-> v.type, signal |-> v.signal, changed |-> v.changed, timer |-> v.timer,
             errors |-> v.errors, exit |-> v.exit, history |-> v.history]
    BY DEF Views
  <2>2. Told(v) = [v EXCEPT !.restart = r]
    BY DEF Told
  <2> HIDE DEF r
  <2> QED
    BY <2>1, <2>2
<1> HIDE DEF r
<1>4. ASSUME NEW a, NEW b, NEW c, NEW d, NEW f, NEW x
      PROVE  /\ With(R(a, b, c, d, f), "timer", x) = R(x, b, c, d, f)
             /\ With(R(a, b, c, d, f), "max", x) = R(a, x, c, d, f)
             /\ With(R(a, b, c, d, f), "errors", x) = R(a, b, x, d, f)
             /\ With(R(a, b, c, d, f), "exit", x) = R(a, b, c, x, f)
             /\ With(R(a, b, c, d, f), "history", x) = R(a, b, c, d, x)
             /\ "timer" \in DOMAIN R(a, b, c, d, f) /\ "errors" \in DOMAIN R(a, b, c, d, f)
             /\ "history" \in DOMAIN R(a, b, c, d, f)
             /\ R(a, b, c, d, f).errors = c /\ R(a, b, c, d, f).history = f
  <2>1. [R(a, b, c, d, f) EXCEPT !.timer = x] = R(x, b, c, d, f)
    OBVIOUS
  <2>2. [R(a, b, c, d, f) EXCEPT !.max = x] = R(a, x, c, d, f)
    OBVIOUS
  <2>3. [R(a, b, c, d, f) EXCEPT !.errors = x] = R(a, b, x, d, f)
    OBVIOUS
  <2>4. [R(a, b, c, d, f) EXCEPT !.exit = x] = R(a, b, c, x, f)
    OBVIOUS
  <2>5. [R(a, b, c, d, f) EXCEPT !.history = x] = R(a, b, c, d, x)
    OBVIOUS
  <2>6. /\ "timer" \in DOMAIN R(a, b, c, d, f) /\ "errors" \in DOMAIN R(a, b, c, d, f)
        /\ "history" \in DOMAIN R(a, b, c, d, f)
        /\ R(a, b, c, d, f).errors = c /\ R(a, b, c, d, f).history = f
    OBVIOUS
  <2> HIDE DEF R
  <2> QED
    BY <2>1, <2>2, <2>3, <2>4, <2>5, <2>6 DEF With
<1> HIDE DEF R
<1>5. ListView(v) = R(<<>>, -1, <<>>, -1, <<>>)
  <2>1. ListView(v) = With(With(With(With(With(Told(v), "timer", <<>>), "max", -1), "errors", <<>>),
                              "exit", -1), "history", <<>>)
    BY Zenon DEF ListView, With
  <2> QED
    BY <1>3, <1>4, <2>1
<1> DEFINE l0 == R(<<>>, -1, <<>>, -1, <<>>)
           l1 == R(v.timer, -1, <<>>, -1, <<>>)
           l2 == R(v.timer, v.max, <<>>, -1, <<>>)
           l3 == R(v.timer, v.max, v.errors, -1, <<>>)
           l4 == R(v.timer, v.max, v.errors, v.exit, <<>>)
           l5 == R(v.timer, v.max, v.errors, v.exit, v.history)
<1>6. c1 \in Seq(E) /\ Read(At(l0), c1) = At(l1)
  <2>1. CASE v.timer = <<>>
    <3>1. c1 = <<>> /\ l1 = l0
      BY <2>1
    <3> HIDE DEF c1, l0, l1, At
    <3> QED
      BY <3>1, ReadNone, EmptySeq
  <2>2. CASE v.timer # <<>>
    <3>1. PICK t \in T, n \in Codes : v.timer = <<<<t, n>>>>
      BY <1>1, <2>2 DEF Codes
    <3>2. c1 = TimerEntries(t, n)
      BY <2>2, <3>1
    <3>3. "timer" \in DOMAIN l0 /\ With(l0, "timer", Timer(t, n)) = l1
      BY <1>4, <3>1 DEF Timer
    <3> HIDE DEF c1, l0, l1
    <3>4. /\ TimerEntries(t, n) \in Seq(E)
          /\ Read(At(l0), TimerEntries(t, n)) = At(With(l0, "timer", Timer(t, n)))
      BY <3>3, TimerIsRead
    <3> QED
      BY <3>2, <3>3, <3>4
  <2> QED
    BY <2>1, <2>2
<1>7. c2 \in Seq(E) /\ Read(At(l1), c2) = At(l2)
  <2>1. Entry("RestartMax", Format(v.max)) \in E
    <3> DEFINE K == Keys
               N == Int
    <3>1. \A k \in K : \A x \in N : Entry(k, x) \in E
      BY EntryIs
    <3>2. "RestartMax" \in K
      BY DEF Keys, UnitField
    <3>3. Format(v.max) \in N
      BY <1>1 DEF Format, Numbers, NoneText
    <3> HIDE DEF E, K, N
    <3> QED
      BY <3>1, <3>2, <3>3
  <2>2. Parsed("max", Format(v.max)) = v.max
    BY <1>1, NumbersAreRead
  <2>3. With(l1, "max", v.max) = l2
    BY <1>4
  <2> HIDE DEF l1, l2, E
  <2>4. Put(At(l1), Entry("RestartMax", Format(v.max))) = At(l2)
    BY <2>2, <2>3, PutEnds
  <2>5. c2 \in Seq(E)
    BY <2>1
  <2> HIDE DEF At
  <2>6. Read(At(l1), c2) = Put(At(l1), Entry("RestartMax", Format(v.max)))
    BY ReadOne
  <2> QED
    BY <2>4, <2>5, <2>6
<1>8. c3 \in Seq(E) /\ Read(At(l2), c3) = At(l3)
  <2>1. c3 \in Seq(E)
    <3>1. "UnitError" \in Keys
      BY DEF Keys
    <3> QED
      BY <1>1, <3>1, EntriesAreSeqs
  <2>2. /\ "errors" \in DOMAIN l2 /\ l2.errors = <<>> /\ With(l2, "errors", v.errors) = l3
        /\ v.errors = <<>> => l2 = l3
    BY <1>4
  <2> HIDE DEF l2, l3, c3
  <2>3. Read(At(l2), Repeat("UnitError", v.errors))
          = At(IF v.errors = <<>> THEN l2 ELSE With(l2, "errors", v.errors))
    BY <1>1, <2>2, ErrorsAreRead
  <2> QED
    BY <2>1, <2>2, <2>3 DEF c3
<1>9. c4 \in Seq(E) /\ Read(At(l3), c4) = At(l4)
  <2>1. Entry("ExitCode", Format(v.exit)) \in E
    <3> DEFINE K == Keys
               N == Int
    <3>1. \A k \in K : \A x \in N : Entry(k, x) \in E
      BY EntryIs
    <3>2. "ExitCode" \in K
      BY DEF Keys, UnitField
    <3>3. Format(v.exit) \in N
      BY <1>1 DEF Format, Numbers, NoneText
    <3> HIDE DEF E, K, N
    <3> QED
      BY <3>1, <3>2, <3>3
  <2>2. Parsed("exit", Format(v.exit)) = v.exit
    BY <1>1, NumbersAreRead
  <2>3. With(l3, "exit", v.exit) = l4
    BY <1>4
  <2> HIDE DEF l3, l4, E
  <2>4. Put(At(l3), Entry("ExitCode", Format(v.exit))) = At(l4)
    BY <2>2, <2>3, PutEnds
  <2>5. c4 \in Seq(E)
    BY <2>1
  <2> HIDE DEF At
  <2>6. Read(At(l3), c4) = Put(At(l3), Entry("ExitCode", Format(v.exit)))
    BY ReadOne
  <2> QED
    BY <2>4, <2>5, <2>6
<1>10. c5 \in Seq(E) /\ Read(At(l4), c5) = At(l5)
  <2> DEFINE h == v.history
             ps == HistoryEntries(h)
  <2>1. /\ "history" \in DOMAIN l4 /\ l4.history = <<>> /\ With(l4, "history", h) = l5
        /\ h = <<>> => l4 = l5
    BY <1>4
  <2>2. h \in Seq(Pasts)
    BY <1>1
  <2>3. c5 = FlattenSeq(ps)
    OBVIOUS
  <2> HIDE DEF l4, l5, h, c5
  <2>4. /\ ps \in Seq(Seq(E))
        /\ Read(At(l4), FlattenSeq(ps)) = At(IF h = <<>> THEN l4 ELSE With(l4, "history", h))
    <3>1. Read(Closing(m, e, us, l4), FlattenSeq(HistoryEntries(h)))
            = Closing(m, e, us, IF h = <<>> THEN l4 ELSE With(l4, "history", h))
      BY <2>1, <2>2, HistoryIsRead
    <3>2. HistoryEntries(h) \in Seq(Seq(Entries(T)))
      BY <2>2, HistoryIsSeq
    <3> QED
      BY <3>1, <3>2
  <2> HIDE DEF ps
  <2>5. FlattenSeq(ps) \in Seq(E)
    <3>1. Len(ps) \in Nat
      BY <2>4, LenProperties
    <3>2. PICK g : /\ FlattenSeq(ps) = g[Len(ps)]
                   /\ \A i \in 0..Len(ps) : g[i] \in Seq(E)
      BY <2>4, FlattenIs
    <3> QED
      BY <3>1, <3>2
  <2> QED
    BY <2>1, <2>3, <2>4, <2>5
<1> HIDE DEF c1, c2, c3, c4, c5, l0, l1, l2, l3, l4, l5, At, E
<1>11. /\ c1 \o c2 \in Seq(E) /\ Read(At(l0), c1 \o c2) = At(l2)
  <2>1. Read(At(l0), c1 \o c2) = Read(Read(At(l0), c1), c2)
    BY <1>6, <1>7, ReadConcat
  <2> QED
    BY <1>6, <1>7, <2>1, ConcatProperties
<1>12. /\ c1 \o c2 \o c3 \in Seq(E) /\ Read(At(l0), c1 \o c2 \o c3) = At(l3)
  <2> DEFINE c == c1 \o c2
  <2> HIDE DEF c
  <2>1. c \in Seq(E) /\ Read(At(l0), c) = At(l2)
    BY <1>11 DEF c
  <2>2. Read(At(l0), c \o c3) = Read(Read(At(l0), c), c3)
    BY <1>8, <2>1, ReadConcat
  <2>3. c \o c3 \in Seq(E)
    BY <1>8, <2>1, ConcatProperties
  <2> QED
    BY <1>8, <2>1, <2>2, <2>3 DEF c
<1>13. /\ c1 \o c2 \o c3 \o c4 \in Seq(E) /\ Read(At(l0), c1 \o c2 \o c3 \o c4) = At(l4)
  <2> DEFINE c == c1 \o c2 \o c3
  <2> HIDE DEF c
  <2>1. c \in Seq(E) /\ Read(At(l0), c) = At(l3)
    BY <1>12 DEF c
  <2>2. Read(At(l0), c \o c4) = Read(Read(At(l0), c), c4)
    BY <1>9, <2>1, ReadConcat
  <2>3. c \o c4 \in Seq(E)
    BY <1>9, <2>1, ConcatProperties
  <2> QED
    BY <1>9, <2>1, <2>2, <2>3 DEF c
<1>14. /\ c1 \o c2 \o c3 \o c4 \o c5 \in Seq(E)
       /\ Read(At(l0), c1 \o c2 \o c3 \o c4 \o c5) = At(l5)
  <2> DEFINE c == c1 \o c2 \o c3 \o c4
  <2> HIDE DEF c
  <2>1. c \in Seq(E) /\ Read(At(l0), c) = At(l4)
    BY <1>13 DEF c
  <2>2. Read(At(l0), c \o c5) = Read(Read(At(l0), c), c5)
    BY <1>10, <2>1, ReadConcat
  <2>3. c \o c5 \in Seq(E)
    BY <1>10, <2>1, ConcatProperties
  <2> QED
    BY <1>10, <2>1, <2>2, <2>3 DEF c
<1> QED
  BY <1>2, <1>3, <1>5, <1>14 DEF E, At, l0, l5
-----------------------------------------------------------------------------
(* A whole response. *)
UnitEntries(v, sort) == Common(v) \o (IF sort = "unit" THEN Details(v) ELSE <<>>)
ShownAs(v, sort)     == IF sort = "unit" THEN Told(v) ELSE ListView(v)

(* A unit is read as the sort of the response shows it, behind the units   *)
(* that were read before.                                                  *)
LEMMA UnitIsRead ==
  ASSUME NEW T, NEW us, NEW S, us \in Seq(S), NEW m, NEW e, NEW v \in Views(T), NEW sort
  PROVE  /\ UnitEntries(v, sort) \in Seq(Entries(T))
         /\ Read(Out(m, e, us), UnitEntries(v, sort))
              = Out(m, e, Append(us, ShownAs(v, sort)))
<1> DEFINE E == Entries(T)
           c == Common(v)
           d == Details(v)
<1>1. c \in Seq(E) /\ Read(Out(m, e, us), c) = Closing(m, e, us, ListView(v))
  BY CommonIsRead DEF Closing
<1>2. d \in Seq(E) /\ Read(Closing(m, e, us, ListView(v)), d) = Closing(m, e, us, Told(v))
  BY DetailsAreRead
<1> HIDE DEF c, d, E
<1>3. CASE sort = "unit"
  <2>1. Read(Out(m, e, us), c \o d) = Read(Read(Out(m, e, us), c), d) /\ c \o d \in Seq(E)
    BY <1>1, <1>2, ReadConcat, ConcatProperties
  <2>2. UnitEntries(v, sort) = c \o d /\ ShownAs(v, sort) = Told(v)
    BY <1>3 DEF UnitEntries, ShownAs, c, d
  <2> QED
    BY <1>1, <1>2, <2>1, <2>2 DEF Closing, E
<1>4. CASE sort # "unit"
  <2>1. c \o <<>> = c
    BY <1>1, ConcatEmptySeq
  <2>2. UnitEntries(v, sort) = c \o <<>> /\ ShownAs(v, sort) = ListView(v)
    BY <1>4 DEF UnitEntries, ShownAs, c
  <2> QED
    BY <1>1, <2>1, <2>2 DEF Closing, E
<1> QED
  BY <1>3, <1>4

AllEntries(vs, sort) == [i \in DOMAIN vs |-> UnitEntries(vs[i], sort)]
AllShown(vs, sort)   == [i \in DOMAIN vs |-> ShownAs(vs[i], sort)]

(* All the units of a response are read so.                                *)
LEMMA UnitsAreRead ==
  ASSUME NEW T, NEW m, NEW e, NEW vs \in Seq(Views(T)), NEW sort
  PROVE  /\ FlattenSeq(AllEntries(vs, sort)) \in Seq(Entries(T))
         /\ Read(Out(m, e, <<>>), FlattenSeq(AllEntries(vs, sort))) = Out(m, e, AllShown(vs, sort))
<1> DEFINE V == Views(T)
           E == Seq(Entries(T))
           n == Len(vs)
           S == {ShownAs(v, sort) : v \in V}
           c == AllEntries(vs, sort)
           d == AllShown(vs, sort)
           G(i) == SubSeq(d, 1, i)
           f == [i \in 0..n |-> Out(m, e, G(i))]
<1>1. n \in Nat /\ DOMAIN vs = 1..n /\ \A i \in 1..n : vs[i] \in V
  BY LenProperties, ElementOfSeq
<1>2. \A v \in V : UnitEntries(v, sort) \in E
  BY UnitIsRead, EmptySeq
<1> HIDE DEF V, E, n
<1>3. c \in Seq(E) /\ Len(c) = n /\ \A i \in 1..n : c[i] = UnitEntries(vs[i], sort)
  <2>1. c = [i \in 1..n |-> UnitEntries(vs[i], sort)]
    BY <1>1 DEF AllEntries
  <2> HIDE DEF c
  <2> QED
    BY <1>1, <1>2, <2>1
<1>4. d \in Seq(S) /\ Len(d) = n /\ \A i \in 1..n : d[i] = ShownAs(vs[i], sort)
  <2>1. d = [i \in 1..n |-> ShownAs(vs[i], sort)] /\ \A i \in 1..n : ShownAs(vs[i], sort) \in S
    BY <1>1 DEF AllShown
  <2> HIDE DEF d, S
  <2> QED
    BY <1>1, <2>1
<1> HIDE DEF c, d, S
<1>5. ASSUME NEW i \in 1..n PROVE f[i] = Read(f[i - 1], c[i])
  <2> DEFINE us == SubSeq(d, 1, i - 1)
             v == vs[i]
  <2>1. us \in Seq(S) /\ Append(us, d[i]) = SubSeq(d, 1, i)
    BY <1>1, <1>4
  <2>2. f[i - 1] = Out(m, e, us) /\ f[i] = Out(m, e, SubSeq(d, 1, i))
    BY <1>1
  <2>3. v \in Views(T) /\ c[i] = UnitEntries(v, sort) /\ d[i] = ShownAs(v, sort)
    BY <1>1, <1>3, <1>4 DEF V
  <2> HIDE DEF us, v, f
  <2>4. Read(Out(m, e, us), UnitEntries(v, sort)) = Out(m, e, Append(us, ShownAs(v, sort)))
    BY <2>1, <2>3, UnitIsRead
  <2> QED
    BY <2>1, <2>2, <2>3, <2>4
<1>6. f[0] = Out(m, e, <<>>) /\ f[n] = Out(m, e, d)
  <2>1. G(0) = <<>> /\ G(n) = d
    BY <1>1, <1>4
  <2> HIDE DEF G
  <2> QED
    BY <1>1, <2>1
<1> HIDE DEF f
<1>7. Read(f[0], FlattenSeq(c)) = f[Len(c)]
  <2>1. \A i \in 1..Len(c) : f[i] = Read(f[i - 1], c[i])
    BY <1>3, <1>5
  <2>2. c \in Seq(Seq(Entries(T)))
    BY <1>3 DEF E
  <2> QED
    BY <2>1, <2>2, ReadFlatten
<1>8. FlattenSeq(c) \in Seq(Entries(T))
  <2>1. c \in Seq(Seq(Entries(T)))
    BY <1>3 DEF E
  <2>2. PICK g : /\ FlattenSeq(c) = g[Len(c)]
                 /\ \A i \in 0..Len(c) : g[i] \in Seq(Entries(T))
    BY <2>1, FlattenIs
  <2> QED
    BY <1>1, <1>3, <2>2
<1> QED
  BY <1>3, <1>6, <1>7, <1>8 DEF c, d

(* The entries of a response that are not about a unit.                    *)
LEMMA PutText ==
  ASSUME NEW m, NEW e, NEW us, NEW x
  PROVE  /\ Put(Out(m, e, us), Entry("Message", x)) = Out(Append(m, x), e, us)
         /\ Put(Out(m, e, us), Entry("Error", x)) = Out(m, Append(e, x), us)
<1>1. \A o : /\ Put(o, Entry("Message", x)) = [o EXCEPT !.messages = Append(o.messages, x)]
             /\ Put(o, Entry("Error", x)) = [o EXCEPT !.errors = Append(o.errors, x)]
  BY DEF Put, Entry, UnitField, PastField
<1> DEFINE o == Out(m, e, us)
           y == Append(m, x)
           z == Append(e, x)
<1>2. o = [messages |-> m, errors |-> e, units |-> us]
  BY DEF Out
<1>3. o.messages = m /\ o.errors = e
  BY <1>2
<1> HIDE DEF o
<1>4. Put(o, Entry("Message", x)) = [o EXCEPT !.messages = y]
  BY <1>1, <1>3
<1>5. Put(o, Entry("Error", x)) = [o EXCEPT !.errors = z]
  BY <1>1, <1>3
<1> HIDE DEF y, z
<1>6. [o EXCEPT !.messages = y] = Out(y, e, us) /\ [o EXCEPT !.errors = z] = Out(m, z, us)
  BY <1>2 DEF Out
<1> QED
  BY <1>4, <1>5, <1>6 DEF o, y, z

(* The messages and the errors of a response are read as they were         *)
(* written.                                                                *)
LEMMA TextsAreRead ==
  ASSUME NEW T, NEW ms \in Seq(T), NEW es \in Seq(T)
  PROVE  /\ Read(Out(<<>>, <<>>, <<>>), Repeat("Message", ms)) = Out(ms, <<>>, <<>>)
         /\ Read(Out(ms, <<>>, <<>>), Repeat("Error", es)) = Out(ms, es, <<>>)
<1>1. Read(Out(<<>>, <<>>, <<>>), Repeat("Message", ms)) = Out(ms, <<>>, <<>>)
  <2> DEFINE G(i) == SubSeq(ms, 1, i)
             f == [i \in 0..Len(ms) |-> Out(G(i), <<>>, <<>>)]
  <2>1. Len(ms) \in Nat /\ G(Len(ms)) = ms /\ G(0) = <<>>
    OBVIOUS
  <2>2. f[0] = Out(<<>>, <<>>, <<>>) /\ f[Len(ms)] = Out(ms, <<>>, <<>>)
    <3> HIDE DEF G
    <3> QED
      BY <2>1
  <2>3. ASSUME NEW i \in 1..Len(ms) PROVE f[i] = Put(f[i - 1], Entry("Message", ms[i]))
    <3> DEFINE a == SubSeq(ms, 1, i - 1)
    <3>1. f[i - 1] = Out(a, <<>>, <<>>) /\ f[i] = Out(SubSeq(ms, 1, i), <<>>, <<>>)
      BY <2>1
    <3>2. SubSeq(ms, 1, i) = Append(a, ms[i])
      OBVIOUS
    <3> HIDE DEF a, f
    <3>3. Put(Out(a, <<>>, <<>>), Entry("Message", ms[i])) = Out(Append(a, ms[i]), <<>>, <<>>)
      BY PutText
    <3> QED
      BY <3>1, <3>2, <3>3
  <2> HIDE DEF f
  <2>4. Read(f[0], Repeat("Message", ms)) = f[Len(ms)]
    BY <2>3, RepeatRead
  <2> QED
    BY <2>2, <2>4
<1>2. Read(Out(ms, <<>>, <<>>), Repeat("Error", es)) = Out(ms, es, <<>>)
  <2> DEFINE G(i) == SubSeq(es, 1, i)
             f == [i \in 0..Len(es) |-> Out(ms, G(i), <<>>)]
  <2>1. Len(es) \in Nat /\ G(Len(es)) = es /\ G(0) = <<>>
    OBVIOUS
  <2>2. f[0] = Out(ms, <<>>, <<>>) /\ f[Len(es)] = Out(ms, es, <<>>)
    <3> HIDE DEF G
    <3> QED
      BY <2>1
  <2>3. ASSUME NEW i \in 1..Len(es) PROVE f[i] = Put(f[i - 1], Entry("Error", es[i]))
    <3> DEFINE a == SubSeq(es, 1, i - 1)
    <3>1. f[i - 1] = Out(ms, a, <<>>) /\ f[i] = Out(ms, SubSeq(es, 1, i), <<>>)
      BY <2>1
    <3>2. SubSeq(es, 1, i) = Append(a, es[i])
      OBVIOUS
    <3> HIDE DEF a, f
    <3>3. Put(Out(ms, a, <<>>), Entry("Error", es[i])) = Out(ms, Append(a, es[i]), <<>>)
      BY PutText
    <3> QED
      BY <3>1, <3>2, <3>3
  <2> HIDE DEF f
  <2>4. Read(f[0], Repeat("Error", es)) = f[Len(es)]
    BY <2>3, RepeatRead
  <2> QED
    BY <2>2, <2>4
<1> QED
  BY <1>1, <1>2

(* The client reads the response that the server has written: all messages *)
(* and errors, and of every unit what the sort of the response shows, its  *)
(* errors and its history in their order; no value of one unit is taken for*)
(* one of another.                                                         *)
THEOREM ResponseIsRead ==
  ASSUME NEW T, NEW ms \in Seq(T), NEW es \in Seq(T), NEW vs \in Seq(Views(T)), NEW sort
  PROVE  UnmarshallResponse(MarshallResponse(Out(ms, es, vs), sort))
           = Out(ms, es, AllShown(vs, sort))
<1> DEFINE E == Entries(T)
           a == Repeat("Message", ms)
           b == Repeat("Error", es)
           c == FlattenSeq(AllEntries(vs, sort))
           o == Out(<<>>, <<>>, <<>>)
<1>1. MarshallResponse(Out(ms, es, vs), sort) = (a \o b) \o c
  BY DEF MarshallResponse, Out, AllEntries, UnitEntries
<1>2. a \in Seq(E) /\ b \in Seq(E) /\ c \in Seq(E)
  <2>1. "Message" \in Keys /\ "Error" \in Keys
    BY DEF Keys
  <2> QED
    BY <2>1, EntriesAreSeqs, UnitsAreRead
<1>3. /\ Read(o, a) = Out(ms, <<>>, <<>>) /\ Read(Out(ms, <<>>, <<>>), b) = Out(ms, es, <<>>)
      /\ Read(Out(ms, es, <<>>), c) = Out(ms, es, AllShown(vs, sort))
  BY TextsAreRead, UnitsAreRead
<1>4. \A s : UnmarshallResponse(s) = Read(o, s)
  BY DEF UnmarshallResponse, Read, Out
<1> HIDE DEF a, b, c, o, E
<1>5. Read(o, a \o b) = Read(Read(o, a), b) /\ a \o b \in Seq(E)
  BY <1>2, ReadConcat, ConcatProperties
<1>6. Read(o, (a \o b) \o c) = Read(Read(o, a \o b), c)
  <2> DEFINE d == a \o b
  <2> HIDE DEF d
  <2>1. d \in Seq(E)
    BY <1>5 DEF d
  <2>2. Read(o, d \o c) = Read(Read(o, d), c)
    BY <1>2, <2>1, ReadConcat
  <2> QED
    BY <2>2 DEF d
<1> QED
  BY <1>1, <1>3, <1>4, <1>5, <1>6
=============================================================================
