----------------------------- MODULE UnitLogProofs -----------------------------
(***************************************************************************)
(* The safety properties of UnitLog, for every number of boots, messages,  *)
(* requests and crashes, and every set of runs of unitlogctl: what a       *)
(* message, a vacuum, a repair and a start or stop of the daemon do to the *)
(* log and to its index, whatever their length.                            *)
(*                                                                         *)
(* Reading is a recursive function over the lines.  SetInduction gives     *)
(* induction on them, for a set of numbers: the theorems of the library    *)
(* take an operator instead.                                               *)
(***************************************************************************)
EXTENDS UnitLog, SequenceTheorems, FiniteSetTheorems, WellFoundedInduction, TLAPS

(* The lines that have an entry, and what is read of no line; the texts    *)
(* that no NUL has broken.                                                 *)
Marks == {"start", "finish"}
Nothing == [ok |-> TRUE, open |-> FALSE, boot |-> 0, entries |-> <<>>]
Whole == {"plain", "percent", "escaped"}
AnyLine == [kind : {"start", "finish", "message", "kernel"}, boot : Nat, id : Nat, text : Whole]
RawLine == [kind : {"start", "finish", "message", "kernel"}, boot : Nat, id : Nat,
            text : DOMAIN Printed]
AnyEntry == [kind : Marks, boot : Nat, offset : Nat]

(* What is read of the lines s, and its entries.                           *)
ReadingOf(s) == Reading(s)[Len(s)]
EntriesOf(s) == ReadingOf(s).entries

(* The lines of a log in which the boots follow one another: a boot begins *)
(* with its start and ends with its finish, and only the last one may have *)
(* none.                                                                   *)
Tidy(s) ==
  /\ \A i, j \in DOMAIN s : i <= j => s[i].boot <= s[j].boot
  /\ \A n \in DOMAIN s : s[n].kind = "start" <=> n = 1 \/ s[n - 1].boot # s[n].boot
  /\ \A n \in DOMAIN s : n > 1 => (s[n - 1].kind = "finish" <=> s[n - 1].boot # s[n].boot)

IsOpen(s) == s # <<>> /\ Last(s).kind # "finish"
-----------------------------------------------------------------------------
(* Every set of numbers that is not empty has a least one.                 *)
LEMMA LeastNumber ==
  ASSUME NEW T \in SUBSET Nat, T # {}
  PROVE  \E m \in T : \A k \in T : m <= k
<1>1. PICK m \in T : \A k \in T : <<k, m>> \notin OpToRel(<, Nat)
  BY WFMin, NatLessThanWellFounded, Zenon
<1>2. \A k \in T : ~(k < m)
  BY <1>1, Zenon DEF OpToRel
<1> QED
  BY <1>2

(* A set of numbers that has 0, and with each number the next one, has all *)
(* of them: induction, for a set instead of a predicate.                   *)
LEMMA SetInduction ==
  ASSUME NEW T \in SUBSET Nat, 0 \in T, \A n \in T : n + 1 \in T
  PROVE  T = Nat
<1>1. SUFFICES ASSUME Nat \ T # {} PROVE FALSE
  OBVIOUS
<1>2. PICK m \in Nat \ T : \A k \in Nat \ T : m <= k
  <2>1. Nat \ T \in SUBSET Nat
    OBVIOUS
  <2> QED
    BY <1>1, <2>1, LeastNumber
<1>3. m # 0 /\ m - 1 \in Nat /\ m - 1 \notin Nat \ T
  BY <1>2
<1> QED
  BY <1>2, <1>3

(* The same for the numbers up to a limit.                                 *)
LEMMA RangeInduction ==
  ASSUME NEW N \in Nat, NEW T, 0 \in T, \A n \in 0..(N - 1) : n \in T => n + 1 \in T
  PROVE  \A n \in 0..N : n \in T
<1> DEFINE U == {n \in Nat : n <= N => n \in T}
<1>1. 0 \in U
  OBVIOUS
<1>2. \A n \in U : n + 1 \in U
  OBVIOUS
<1>3. U = Nat
  <2> HIDE DEF U
  <2>1. U \in SUBSET Nat
    BY DEF U
  <2> QED
    BY <1>1, <1>2, <2>1, SetInduction
<1> QED
  BY <1>3
-----------------------------------------------------------------------------
(* The recursion of Reading has a solution.                                *)
LEMMA ReadingExists ==
  ASSUME NEW s
  PROVE  \A k \in Nat : \E g :
           g = [n \in 0..k |-> IF n = 0 THEN Nothing ELSE ReadLine(g[n - 1], s, n)]
<1> DEFINE F(g, n) == IF n = 0 THEN Nothing ELSE ReadLine(g[n - 1], s, n)
           G(k, g) == g = [n \in 0..k |-> F(g, n)]
           T == {k \in Nat : \E g : G(k, g)}
<1>1. 0 \in T
  <2> DEFINE g == [n \in 0..0 |-> Nothing]
  <2>1. G(0, g)
    OBVIOUS
  <2> QED
    BY <2>1
<1>2. ASSUME NEW k \in T PROVE k + 1 \in T
  <2>1. PICK g : G(k, g)
    OBVIOUS
  <2> DEFINE h == [n \in 0..(k + 1) |-> IF n <= k THEN g[n] ELSE ReadLine(g[k], s, k + 1)]
  <2>2. ASSUME NEW n \in 0..(k + 1) PROVE h[n] = F(h, n)
    <3>1. CASE n <= k
      <4>1. h[n] = F(g, n)
        BY <2>1, <3>1
      <4>2. n # 0 => h[n - 1] = g[n - 1]
        BY <3>1
      <4> QED
        BY <4>1, <4>2
    <3>2. CASE n = k + 1
      BY <3>2
    <3> QED
      BY <3>1, <3>2
  <2>3. G(k + 1, h)
    <3> HIDE DEF F
    <3> QED
      BY <2>2
  <2> QED
    <3> HIDE DEF G, h
    <3> QED
      BY <2>3
<1>3. T = Nat
  <2> HIDE DEF T
  <2>1. T \in SUBSET Nat
    BY DEF T
  <2> QED
    BY <1>1, <1>2, <2>1, SetInduction
<1> QED
  BY <1>3

(* What is read of n lines: of none nothing, of one line more what         *)
(* ReadLine makes of it.                                                   *)
LEMMA ReadingStep ==
  ASSUME NEW s, Len(s) \in Nat
  PROVE  /\ Reading(s)[0] = Nothing
         /\ \A n \in 1..Len(s) : Reading(s)[n] = ReadLine(Reading(s)[n - 1], s, n)
<1>1. \E g : g = [n \in 0..Len(s) |->
                    IF n = 0 THEN Nothing ELSE ReadLine(g[n - 1], s, n)]
  BY ReadingExists
<1>2. Reading(s) = [n \in 0..Len(s) |->
                      IF n = 0 THEN Nothing ELSE ReadLine(Reading(s)[n - 1], s, n)]
  BY <1>1 DEF Reading, Nothing
<1> DEFINE R == Reading(s)
<1>3. R = [n \in 0..Len(s) |-> IF n = 0 THEN Nothing ELSE ReadLine(R[n - 1], s, n)]
  BY <1>2
<1> HIDE DEF R
<1>4. /\ R[0] = Nothing
      /\ \A n \in 1..Len(s) : R[n] = ReadLine(R[n - 1], s, n)
  BY <1>3
<1> QED
  BY <1>4 DEF R

(* No line goes on with the one before it where no text is broken.         *)
LEMMA WholeReading ==
  ASSUME NEW s \in Seq(AnyLine)
  PROVE  /\ Reading(s)[0] = Nothing
         /\ \A n \in 1..Len(s) : /\ ~Joined(s, n)
                                  /\ Reading(s)[n] = ParseLine(Reading(s)[n - 1], s[n], n - 1)
<1>1. Len(s) \in Nat
  OBVIOUS
<1>2. ASSUME NEW n \in 1..Len(s) PROVE ~Joined(s, n)
  <2>1. n > 1 => s[n - 1] \in AnyLine
    BY <1>1
  <2>2. n > 1 => s[n - 1].text \in Whole
    BY <2>1 DEF AnyLine
  <2> QED
    BY <2>2 DEF Joined, Whole
<1> QED
  BY <1>1, <1>2, ReadingStep DEF ReadLine
-----------------------------------------------------------------------------
ReadType == [ok : BOOLEAN, open : BOOLEAN, boot : Nat, entries : Seq(AnyEntry)]

(* The entries that are read are of lines that start or finish a boot.     *)
AreOfLines(entries, s, n) ==
  \A i \in DOMAIN entries : \E k \in 1..n :
    entries[i] = Entry(s[k], k - 1) /\ s[k].kind \in Marks

(* What a line adds to what is read.                                       *)
LEMMA ParseLineType ==
  ASSUME NEW acc \in ReadType, NEW line \in RawLine, NEW offset \in Nat
  PROVE  /\ ParseLine(acc, line, offset) \in ReadType
         /\ ParseLine(acc, line, offset).entries = acc.entries
            \/ /\ line.kind \in Marks
               /\ ParseLine(acc, line, offset).entries = Append(acc.entries, Entry(line, offset))
<1>1. CASE line.kind = "start" /\ ~acc.open
  <2>1. Entry(line, offset) \in AnyEntry
    BY <1>1 DEF Entry, AnyEntry, RawLine, Marks
  <2>2. ParseLine(acc, line, offset) = [acc EXCEPT !.open = TRUE, !.boot = line.boot,
                                              !.entries = Append(@, Entry(line, offset))]
    BY <1>1 DEF ParseLine
  <2>3. Append(acc.entries, Entry(line, offset)) \in Seq(AnyEntry) /\ line.boot \in Nat
    BY <2>1 DEF ReadType, RawLine
  <2>4. /\ ParseLine(acc, line, offset).entries = Append(acc.entries, Entry(line, offset))
        /\ ParseLine(acc, line, offset) \in ReadType
    BY <2>2, <2>3 DEF ReadType
  <2> QED
    BY <1>1, <2>4 DEF Marks
<1>2. CASE line.kind = "finish" /\ acc.open
  <2>1. Entry(line, offset) \in AnyEntry
    BY <1>2 DEF Entry, AnyEntry, RawLine, Marks
  <2>2. ParseLine(acc, line, offset) = [acc EXCEPT !.open = FALSE,
                                              !.ok = @ /\ line.boot = acc.boot,
                                              !.entries = Append(@, Entry(line, offset))]
    BY <1>2 DEF ParseLine
  <2>3. (acc.ok /\ line.boot = acc.boot) \in BOOLEAN
    BY DEF ReadType
  <2>4. Append(acc.entries, Entry(line, offset)) \in Seq(AnyEntry)
    BY <2>1 DEF ReadType
  <2>5. /\ ParseLine(acc, line, offset).entries = Append(acc.entries, Entry(line, offset))
        /\ ParseLine(acc, line, offset) \in ReadType
    BY <2>2, <2>3, <2>4 DEF ReadType
  <2> QED
    BY <1>2, <2>5 DEF Marks
<1>3. CASE ~(line.kind = "start" /\ ~acc.open) /\ ~(line.kind = "finish" /\ acc.open)
  <2>1. ParseLine(acc, line, offset) = [acc EXCEPT !.ok = @ /\ acc.open]
    BY <1>3 DEF ParseLine
  <2>2. (acc.ok /\ acc.open) \in BOOLEAN
    BY DEF ReadType
  <2> QED
    BY <2>1, <2>2 DEF ReadType
<1> QED
  BY <1>1, <1>2, <1>3

(* What is read has its type, and its entries are of lines read.           *)
LEMMA ReadingTypes ==
  ASSUME NEW s \in Seq(RawLine)
  PROVE  \A n \in 0..Len(s) :
           Reading(s)[n] \in ReadType /\ AreOfLines(Reading(s)[n].entries, s, n)
<1> DEFINE P(n) == Reading(s)[n] \in ReadType /\ AreOfLines(Reading(s)[n].entries, s, n)
           T == {n \in 0..Len(s) : P(n)}
<1>0. /\ Len(s) \in Nat /\ Reading(s)[0] = Nothing
      /\ \A n \in 1..Len(s) : Reading(s)[n] = ReadLine(Reading(s)[n - 1], s, n)
  <2>1. Len(s) \in Nat
    OBVIOUS
  <2> QED
    BY <2>1, ReadingStep
<1>1. 0 \in T
  <2>1. Nothing \in ReadType /\ Nothing.entries = <<>>
    BY DEF Nothing, ReadType
  <2> QED
    BY <1>0, <2>1 DEF AreOfLines
<1>2. ASSUME NEW n \in 0..(Len(s) - 1), n \in T PROVE n + 1 \in T
  <2>1. s[n + 1] \in RawLine /\ n + 1 \in 1..Len(s)
    OBVIOUS
  <2>2. Reading(s)[n] \in ReadType /\ AreOfLines(Reading(s)[n].entries, s, n)
    BY <1>2
  <2>3. Reading(s)[n + 1] \in {Reading(s)[n], ParseLine(Reading(s)[n], s[n + 1], n)}
    <3>1. Reading(s)[n + 1] = ReadLine(Reading(s)[n], s, n + 1) /\ (n + 1) - 1 = n
      BY <1>0, <2>1
    <3> QED
      BY <3>1 DEF ReadLine
  <2> DEFINE e == Reading(s)[n].entries
             f == Reading(s)[n + 1].entries
  <2>4. /\ Reading(s)[n + 1] \in ReadType
        /\ f = e \/ (s[n + 1].kind \in Marks /\ f = Append(e, Entry(s[n + 1], n)))
    <3>1. n \in Nat
      OBVIOUS
    <3>2. /\ ParseLine(Reading(s)[n], s[n + 1], n) \in ReadType
          /\ ParseLine(Reading(s)[n], s[n + 1], n).entries = Reading(s)[n].entries
             \/ /\ s[n + 1].kind \in Marks
                /\ ParseLine(Reading(s)[n], s[n + 1], n).entries
                     = Append(Reading(s)[n].entries, Entry(s[n + 1], n))
      BY <2>1, <2>2, <3>1, ParseLineType
    <3> QED
      BY <2>2, <2>3, <3>2
  <2>5. e \in Seq(AnyEntry) /\ AreOfLines(e, s, n)
    BY <2>2 DEF ReadType
  <2> HIDE DEF e, f
  <2>6. AreOfLines(f, s, n + 1)
    <3> SUFFICES ASSUME NEW i \in DOMAIN f
                 PROVE  \E k \in 1..(n + 1) : f[i] = Entry(s[k], k - 1) /\ s[k].kind \in Marks
      BY DEF AreOfLines
    <3>1. CASE i \in DOMAIN e /\ f[i] = e[i]
      BY <2>5, <3>1 DEF AreOfLines
    <3>2. CASE ~(i \in DOMAIN e /\ f[i] = e[i])
      <4>1. f[i] = Entry(s[n + 1], n) /\ s[n + 1].kind \in Marks
        BY <2>4, <2>5, <3>2
      <4> QED
        BY <4>1, (n + 1) - 1 = n
    <3> QED
      BY <3>1, <3>2
  <2>7. P(n + 1)
    BY <2>4, <2>6 DEF f
  <2> QED
    BY <2>1, <2>7, <1>0
<1>3. \A n \in 0..Len(s) : n \in T
  <2> HIDE DEF T
  <2> QED
    BY <1>0, <1>1, <1>2, RangeInduction
<1> QED
  BY <1>3

LEMMA WholeIsRaw ==
  ASSUME NEW s \in Seq(AnyLine)
  PROVE  s \in Seq(RawLine)
<1>1. AnyLine \subseteq RawLine
  BY DEF AnyLine, RawLine, Whole, Printed
<1>2. Len(s) \in Nat /\ s = [i \in 1..Len(s) |-> s[i]] /\ \A i \in 1..Len(s) : s[i] \in AnyLine
  OBVIOUS
<1> QED
  BY <1>1, <1>2

(* What is read of the first lines does not depend on the lines that follow. *)
LEMMA ReadingPrefix ==
  ASSUME NEW s \in Seq(AnyLine), NEW t \in Seq(AnyLine), Len(s) <= Len(t),
         \A n \in 1..Len(s) : t[n] = s[n]
  PROVE  \A n \in 0..Len(s) : Reading(t)[n] = Reading(s)[n]
<1> DEFINE T == {n \in 0..Len(s) : Reading(t)[n] = Reading(s)[n]}
<1>0. Len(s) \in Nat /\ Len(t) \in Nat
  OBVIOUS
<1>1. 0 \in T
  BY <1>0, WholeReading
<1>2. ASSUME NEW n \in 0..(Len(s) - 1), n \in T PROVE n + 1 \in T
  <2>1. n + 1 \in 1..Len(s) /\ n + 1 \in 1..Len(t) /\ (n + 1) - 1 = n
    BY <1>0
  <2>2. /\ Reading(s)[n + 1] = ParseLine(Reading(s)[n], s[n + 1], n)
        /\ Reading(t)[n + 1] = ParseLine(Reading(t)[n], t[n + 1], n)
    BY <2>1, WholeReading
  <2> QED
    BY <1>2, <2>1, <2>2
<1>3. \A n \in 0..Len(s) : n \in T
  <2> HIDE DEF T
  <2> QED
    BY <1>0, <1>1, <1>2, RangeInduction
<1> QED
  BY <1>3

(* One line more.                                                          *)
LEMMA ReadingAppend ==
  ASSUME NEW s \in Seq(AnyLine), NEW line \in AnyLine
  PROVE  /\ ReadingOf(Append(s, line)) = ParseLine(ReadingOf(s), line, Len(s))
         /\ ReadingOf(s) \in ReadType
<1> DEFINE t == Append(s, line)
<1>1. Len(s) \in Nat /\ Len(t) = Len(s) + 1 /\ t[Len(s) + 1] = line /\ \A n \in 1..Len(s) : t[n] = s[n]
  OBVIOUS
<1>0. t \in Seq(AnyLine)
  OBVIOUS
<1> HIDE DEF t
<1>2. Reading(t)[Len(s)] = Reading(s)[Len(s)]
  BY <1>0, <1>1, ReadingPrefix
<1>3. Reading(t)[Len(s) + 1] = ParseLine(Reading(t)[Len(s)], t[Len(s) + 1], Len(s))
  <2>1. Len(s) + 1 \in 1..Len(t) /\ (Len(s) + 1) - 1 = Len(s) /\ Len(t) \in Nat
    BY <1>1
  <2> QED
    BY <1>0, <2>1, WholeReading
<1>4. ReadingOf(s) \in ReadType
  BY <1>1, WholeIsRaw, ReadingTypes DEF ReadingOf
<1> QED
  BY <1>1, <1>2, <1>3, <1>4 DEF ReadingOf, t
-----------------------------------------------------------------------------
(* The entries of the first n lines of a tidy log: one for each line that  *)
(* starts or finishes a boot, in their order, starts and finishes in turn. *)
OpenAt(s, n) == n > 0 /\ s[n].kind # "finish"

EntriesRight(e, s, n) ==
  /\ \A i \in DOMAIN e : /\ e[i].offset \in 0..(n - 1)
                         /\ e[i] = Entry(s[e[i].offset + 1], e[i].offset)
                         /\ e[i].kind = IF i % 2 = 1 THEN "start" ELSE "finish"
                         /\ i % 2 = 0 => e[i].boot = e[i - 1].boot
  /\ \A i, j \in DOMAIN e : i < j => e[i].offset < e[j].offset
  /\ \A k \in 1..n : s[k].kind \in Marks => \E i \in DOMAIN e : e[i].offset = k - 1
  /\ Len(e) % 2 = 1 <=> OpenAt(s, n)
  /\ n > 0 => e # <<>> /\ e[Len(e)].boot = s[n].boot

(* What a line of a tidy log may be after the one before it.               *)
LEMMA TidyLine ==
  ASSUME NEW s \in Seq(AnyLine), Tidy(s), NEW n \in 0..(Len(s) - 1)
  PROVE  /\ s[n + 1].kind = "start" <=> ~OpenAt(s, n)
         /\ s[n + 1].kind # "start" => s[n + 1].boot = s[n].boot
<1>1. n + 1 \in DOMAIN s /\ (n + 1) - 1 = n
  OBVIOUS
<1>2. s[n + 1].kind = "start" <=> n + 1 = 1 \/ s[n].boot # s[n + 1].boot
  BY <1>1 DEF Tidy
<1>3. n + 1 > 1 => (s[n].kind = "finish" <=> s[n].boot # s[n + 1].boot)
  BY <1>1 DEF Tidy
<1> QED
  BY <1>2, <1>3 DEF OpenAt

LEMMA Parity ==
  \A n \in Nat : n % 2 \in {0, 1} /\ ((n + 1) % 2 = 1 <=> n % 2 = 0)
OBVIOUS

(* The entries stay right when the next line is read.                      *)
LEMMA EntriesStep ==
  ASSUME NEW s \in Seq(AnyLine), NEW n \in 0..(Len(s) - 1), NEW e \in Seq(AnyEntry),
         EntriesRight(e, s, n), s[n + 1].kind = "start" <=> ~OpenAt(s, n),
         s[n + 1].kind # "start" => s[n + 1].boot = s[n].boot
  PROVE  EntriesRight(IF s[n + 1].kind \in Marks THEN Append(e, Entry(s[n + 1], n)) ELSE e, s, n + 1)
<1>1. CASE s[n + 1].kind \notin Marks
  <2>1. n > 0 /\ OpenAt(s, n) /\ OpenAt(s, n + 1) /\ s[n + 1].boot = s[n].boot
    BY <1>1 DEF OpenAt, Marks
  <2>2. EntriesRight(e, s, n + 1)
    <3>1. \A i \in DOMAIN e : e[i].offset \in 0..((n + 1) - 1)
      BY DEF EntriesRight
    <3>2. ASSUME NEW k \in 1..(n + 1), s[k].kind \in Marks
          PROVE  \E i \in DOMAIN e : e[i].offset = k - 1
      <4>1. k \in 1..n
        BY <1>1, <3>2
      <4> QED
        BY <3>2, <4>1 DEF EntriesRight
    <3> QED
      BY <2>1, <3>1, <3>2 DEF EntriesRight
  <2> QED
    BY <1>1, <2>2
<1>2. CASE s[n + 1].kind \in Marks
  <2> DEFINE x == Entry(s[n + 1], n)
             f == Append(e, x)
  <2>0. s[n + 1] \in AnyLine /\ n \in Nat
    OBVIOUS
  <2>1. /\ x \in AnyEntry /\ x.offset = n /\ x.kind = s[n + 1].kind /\ x.boot = s[n + 1].boot
        /\ s[n + 1] \in AnyLine
    <3>1. s[n + 1].boot \in Nat
      BY <2>0 DEF AnyLine
    <3> QED
      BY <1>2, <2>0, <3>1 DEF Entry, AnyEntry
  <2>2. /\ f \in Seq(AnyEntry) /\ Len(f) = Len(e) + 1 /\ f[Len(e) + 1] = x
        /\ DOMAIN f = 1..(Len(e) + 1) /\ DOMAIN e = 1..Len(e) /\ Len(e) \in Nat
        /\ \A i \in DOMAIN e : f[i] = e[i]
    BY <2>1
  <2>3. Len(e) % 2 = 1 <=> OpenAt(s, n)
    BY DEF EntriesRight
  <2>x. x = Entry(s[x.offset + 1], x.offset)
    BY <2>1
  <2> HIDE DEF x, f
  <2>4. (Len(e) + 1) % 2 = 1 <=> OpenAt(s, n + 1)
    <3>1. (Len(e) + 1) % 2 = 1 <=> ~OpenAt(s, n)
      BY <2>2, <2>3, Parity
    <3>2. OpenAt(s, n + 1) <=> s[n + 1].kind # "finish"
      BY DEF OpenAt
    <3> QED
      BY <1>2, <3>1, <3>2 DEF Marks
  <2>5. ASSUME NEW i \in DOMAIN f
        PROVE  /\ f[i].offset \in 0..n
               /\ f[i] = Entry(s[f[i].offset + 1], f[i].offset)
               /\ f[i].kind = IF i % 2 = 1 THEN "start" ELSE "finish"
               /\ i % 2 = 0 => f[i].boot = f[i - 1].boot
    <3>1. CASE i \in DOMAIN e
      <4>1. /\ f[i] = e[i] /\ e[i].offset \in 0..(n - 1)
            /\ e[i] = Entry(s[e[i].offset + 1], e[i].offset)
            /\ e[i].kind = IF i % 2 = 1 THEN "start" ELSE "finish"
            /\ i % 2 = 0 => e[i].boot = e[i - 1].boot
        BY <2>2, <3>1 DEF EntriesRight
      <4>2. i % 2 = 0 => i - 1 \in DOMAIN e
        BY <2>2, <3>1
      <4>3. i % 2 = 0 => f[i - 1] = e[i - 1]
        BY <2>2, <4>2
      <4> QED
        BY <4>1, <4>3
    <3>2. CASE i \notin DOMAIN e
      <4>1. i = Len(e) + 1 /\ f[i] = x
        BY <2>2, <3>2
      <4>2. x.kind = IF i % 2 = 1 THEN "start" ELSE "finish"
        <5>1. i % 2 = 1 <=> ~OpenAt(s, n)
          BY <2>2, <2>3, <4>1, Parity
        <5> QED
          BY <1>2, <2>1, <5>1 DEF Marks
      <4>3. i % 2 = 0 => f[i].boot = f[i - 1].boot
        <5> SUFFICES ASSUME i % 2 = 0 PROVE x.boot = f[i - 1].boot
          BY <4>1
        <5>1. Len(e) % 2 = 1 /\ i - 1 = Len(e) /\ i - 1 \in DOMAIN e
          BY <2>2, <4>1, SMTT(20)
        <5>2. n > 0 /\ e[Len(e)].boot = s[n].boot /\ s[n + 1].boot = s[n].boot
          BY <5>1, <2>3 DEF EntriesRight, OpenAt
        <5> QED
          BY <2>1, <2>2, <5>1, <5>2
      <4> QED
        BY <2>1, <2>x, <4>1, <4>2, <4>3
    <3> QED
      BY <3>1, <3>2
  <2>6. ASSUME NEW i \in DOMAIN f, NEW j \in DOMAIN f, i < j PROVE f[i].offset < f[j].offset
    <3>0. i \in DOMAIN e
      BY <2>2, <2>6
    <3>1. i \in DOMAIN e /\ f[i] = e[i] /\ e[i].offset \in 0..(n - 1)
      BY <3>0, <2>2 DEF EntriesRight
    <3>2. CASE j \in DOMAIN e
      BY <2>2, <2>6, <3>1, <3>2 DEF EntriesRight
    <3>3. CASE j \notin DOMAIN e
      BY <2>1, <2>2, <3>1, <3>3
    <3> QED
      BY <3>2, <3>3
  <2>7. ASSUME NEW k \in 1..(n + 1), s[k].kind \in Marks
        PROVE  \E i \in DOMAIN f : f[i].offset = k - 1
    <3>1. CASE k \in 1..n
      BY <2>2, <2>7, <3>1, SMTT(20) DEF EntriesRight
    <3>2. CASE k = n + 1
      BY <2>1, <2>2, <3>2
    <3> QED
      BY <3>1, <3>2
  <2>8. f # <<>> /\ f[Len(f)].boot = s[n + 1].boot
    BY <2>1, <2>2
  <2>9. Len(f) % 2 = 1 <=> OpenAt(s, n + 1)
    BY <2>2, <2>4
  <2>10. EntriesRight(f, s, n + 1)
    <3>1. (n + 1) - 1 = n
      OBVIOUS
    <3> QED
      BY <3>1, <2>5, <2>6, <2>7, <2>8, <2>9 DEF EntriesRight
  <2> QED
    BY <1>2, <2>10 DEF f, x
<1> QED
  BY <1>1, <1>2

(* Of a tidy log everything is read, and the entries are right.            *)
TidyRead(s, n) ==
  /\ Reading(s)[n].ok
  /\ Reading(s)[n].open <=> OpenAt(s, n)
  /\ n > 0 => Reading(s)[n].boot = s[n].boot
  /\ EntriesRight(Reading(s)[n].entries, s, n)

(* A tidy log is read to the end, and its entries are right.               *)
LEMMA TidyReading ==
  ASSUME NEW s \in Seq(AnyLine), Tidy(s)
  PROVE  \A n \in 0..Len(s) : TidyRead(s, n)
<1> DEFINE T == {n \in 0..Len(s) : TidyRead(s, n)}
<1>0. /\ Len(s) \in Nat /\ Reading(s)[0] = Nothing
      /\ \A n \in 1..Len(s) : Reading(s)[n] = ParseLine(Reading(s)[n - 1], s[n], n - 1)
  <2>1. Len(s) \in Nat
    OBVIOUS
  <2> QED
    BY <2>1, WholeReading
<1>1. 0 \in T
  <2>1. EntriesRight(<<>>, s, 0)
    BY DEF EntriesRight, OpenAt
  <2>2. TidyRead(s, 0)
    BY <1>0, <2>1 DEF TidyRead, Nothing, OpenAt
  <2> QED
    BY <1>0, <2>2
<1>2. ASSUME NEW n \in 0..(Len(s) - 1), n \in T PROVE n + 1 \in T
  <2> DEFINE acc == Reading(s)[n]
             line == s[n + 1]
             e == acc.entries
  <2>1. n \in Nat /\ n + 1 \in 1..Len(s) /\ (n + 1) - 1 = n /\ line \in AnyLine
    BY <1>0
  <2>2. acc \in ReadType /\ e \in Seq(AnyEntry)
    BY <1>0, <2>1, WholeIsRaw, ReadingTypes DEF ReadType
  <2>3. acc.ok /\ (acc.open <=> OpenAt(s, n)) /\ (n > 0 => acc.boot = s[n].boot) /\ EntriesRight(e, s, n)
    BY <1>2 DEF TidyRead
  <2>4. /\ line.kind = "start" <=> ~OpenAt(s, n)
        /\ line.kind # "start" => line.boot = s[n].boot
    BY TidyLine
  <2>5. Reading(s)[n + 1] = ParseLine(acc, line, n)
    BY <1>0, <2>1
  <2>6. EntriesRight(IF line.kind \in Marks THEN Append(e, Entry(line, n)) ELSE e, s, n + 1)
    BY <2>2, <2>3, <2>4, EntriesStep
  <2>7. OpenAt(s, n + 1) <=> line.kind # "finish"
    BY <2>1 DEF OpenAt
  <2> HIDE DEF acc, line
  <2>8. TidyRead(s, n + 1)
    <3>1. CASE line.kind = "start"
      <4>1. ParseLine(acc, line, n) = [acc EXCEPT !.open = TRUE, !.boot = line.boot,
                                            !.entries = Append(@, Entry(line, n))]
        BY <2>3, <2>4, <3>1 DEF ParseLine
      <4>2. /\ ParseLine(acc, line, n).ok /\ ParseLine(acc, line, n).open
            /\ ParseLine(acc, line, n).boot = line.boot
            /\ ParseLine(acc, line, n).entries = Append(e, Entry(line, n))
        BY <2>2, <2>3, <4>1 DEF ReadType
      <4> QED
        BY <2>5, <2>6, <2>7, <3>1, <4>2 DEF TidyRead, Marks, line
    <3>2. CASE line.kind = "finish"
      <4>0. n > 0
        BY <2>1, <2>4, <3>2 DEF OpenAt
      <4>1. ParseLine(acc, line, n) = [acc EXCEPT !.open = FALSE, !.ok = @ /\ line.boot = acc.boot,
                                            !.entries = Append(@, Entry(line, n))]
        BY <2>3, <2>4, <3>2 DEF ParseLine
      <4>2. /\ ParseLine(acc, line, n).ok /\ ~ParseLine(acc, line, n).open
            /\ ParseLine(acc, line, n).boot = line.boot
            /\ ParseLine(acc, line, n).entries = Append(e, Entry(line, n))
        BY <2>2, <2>3, <2>4, <3>2, <4>0, <4>1 DEF ReadType
      <4> QED
        BY <2>5, <2>6, <2>7, <3>2, <4>2 DEF TidyRead, Marks, line
    <3>3. CASE line.kind \notin Marks
      <4>0. n > 0 /\ acc.open
        BY <2>1, <2>3, <2>4, <3>3 DEF OpenAt, Marks
      <4>1. ParseLine(acc, line, n) = [acc EXCEPT !.ok = @ /\ acc.open]
        BY <3>3 DEF ParseLine, Marks
      <4>2. /\ ParseLine(acc, line, n).ok /\ ParseLine(acc, line, n).open
            /\ ParseLine(acc, line, n).boot = line.boot
            /\ ParseLine(acc, line, n).entries = e
        BY <2>2, <2>3, <2>4, <3>3, <4>0, <4>1 DEF ReadType, Marks
      <4> QED
        BY <2>5, <2>6, <2>7, <3>3, <4>2 DEF TidyRead, Marks, line
    <3> QED
      BY <3>1, <3>2, <3>3 DEF Marks
  <2> QED
    BY <1>0, <2>1, <2>8
<1>3. \A n \in 0..Len(s) : n \in T
  <2> HIDE DEF T
  <2> QED
    BY <1>0, <1>1, <1>2, RangeInduction
<1> QED
  BY <1>3
-----------------------------------------------------------------------------
(* A tidy log is read without an error, and its entries are right.         *)
LEMMA TidyIsRead ==
  ASSUME NEW s \in Seq(AnyLine), Tidy(s)
  PROVE  /\ ReadingOf(s).ok /\ (ReadingOf(s).open <=> IsOpen(s))
         /\ EntriesRight(EntriesOf(s), s, Len(s)) /\ EntriesOf(s) \in Seq(AnyEntry)
<1>1. Len(s) \in Nat /\ (s # <<>> <=> Len(s) > 0)
  OBVIOUS
<1>2. TidyRead(s, Len(s)) /\ Reading(s)[Len(s)] \in ReadType
  BY <1>1, TidyReading, WholeIsRaw, ReadingTypes
<1>3. OpenAt(s, Len(s)) <=> IsOpen(s)
  BY <1>1 DEF OpenAt, IsOpen, Last
<1> QED
  BY <1>2, <1>3 DEF TidyRead, ReadingOf, EntriesOf, ReadType

(* What one more line adds to the entries.                                 *)
LEMMA AppendEntries ==
  ASSUME NEW s \in Seq(AnyLine), NEW line \in AnyLine
  PROVE  /\ line.kind \notin Marks => EntriesOf(Append(s, line)) = EntriesOf(s)
         /\ Tidy(s) /\ (IF IsOpen(s) THEN line.kind = "finish" ELSE line.kind = "start") =>
              EntriesOf(Append(s, line)) = Append(EntriesOf(s), Entry(line, Len(s)))
<1> DEFINE acc == ReadingOf(s)
<1>1. ReadingOf(Append(s, line)) = ParseLine(acc, line, Len(s)) /\ acc \in ReadType
  BY ReadingAppend
<1>2. Tidy(s) => (acc.open <=> IsOpen(s))
  BY TidyIsRead
<1> HIDE DEF acc
<1>3. CASE line.kind \notin Marks
  BY <1>1, <1>3 DEF ParseLine, EntriesOf, ReadType, Marks, acc
<1>4. CASE Tidy(s) /\ IsOpen(s) /\ line.kind = "finish"
  <2>1. ParseLine(acc, line, Len(s)).entries = Append(acc.entries, Entry(line, Len(s)))
    BY <1>1, <1>2, <1>4 DEF ParseLine, ReadType
  <2> QED
    BY <1>1, <1>4, <2>1 DEF EntriesOf, acc, Marks
<1>5. CASE Tidy(s) /\ ~IsOpen(s) /\ line.kind = "start"
  <2>1. ParseLine(acc, line, Len(s)).entries = Append(acc.entries, Entry(line, Len(s)))
    BY <1>1, <1>2, <1>5 DEF ParseLine, ReadType
  <2> QED
    BY <1>1, <1>5, <2>1 DEF EntriesOf, acc, Marks
<1> QED
  BY <1>3, <1>4, <1>5 DEF Marks

(* The empty log.                                                          *)
LEMMA EmptyIsTidy == Tidy(<<>>) /\ ~IsOpen(<<>>) /\ EntriesOf(<<>>) = <<>>
<1>1. Tidy(<<>>) /\ ~IsOpen(<<>>)
  BY DEF Tidy, IsOpen
<1>2. <<>> \in Seq(AnyLine) /\ Len(<<>>) = 0
  OBVIOUS
<1>3. Reading(<<>>)[0] = Nothing
  BY <1>2, WholeReading
<1> QED
  BY <1>1, <1>2, <1>3 DEF EntriesOf, ReadingOf, Nothing

(* A line that goes on with the last boot or starts a new one leaves the   *)
(* log tidy.                                                               *)
LEMMA TidyAppend ==
  ASSUME NEW s \in Seq(AnyLine), Tidy(s), NEW line \in AnyLine,
         IF IsOpen(s) THEN line.boot = Last(s).boot /\ line.kind # "start"
         ELSE line.kind = "start" /\ \A n \in DOMAIN s : s[n].boot < line.boot
  PROVE  Tidy(Append(s, line))
<1> DEFINE t == Append(s, line)
<1>1. /\ Len(s) \in Nat /\ DOMAIN s = 1..Len(s) /\ DOMAIN t = 1..(Len(s) + 1)
      /\ t[Len(s) + 1] = line /\ \A n \in DOMAIN s : t[n] = s[n] /\ s[n] \in AnyLine
  OBVIOUS
<1>2. line.boot \in Nat /\ \A n \in DOMAIN s : s[n].boot \in Nat
  BY <1>1 DEF AnyLine
<1>3. Len(s) > 0 => Last(s) = s[Len(s)] /\ Len(s) \in DOMAIN s
  BY <1>1 DEF Last
<1>4. IsOpen(s) <=> Len(s) > 0 /\ s[Len(s)].kind # "finish"
  BY <1>1, <1>3 DEF IsOpen
<1>5. Len(s) > 0 /\ IsOpen(s) => s[Len(s)].boot = line.boot
  BY <1>3
<1>6. ~IsOpen(s) => \A n \in DOMAIN s : s[n].boot < line.boot
  OBVIOUS
<1>7. line.kind = "start" <=> ~IsOpen(s)
  OBVIOUS
<1>8. \A i, j \in DOMAIN s : i <= j => s[i].boot <= s[j].boot
  BY DEF Tidy
<1> HIDE DEF t
<1>9. ASSUME NEW i \in DOMAIN t, NEW j \in DOMAIN t, i <= j PROVE t[i].boot <= t[j].boot
  <2>1. CASE j \in DOMAIN s
    BY <1>1, <1>8, <1>9, <2>1
  <2>2. CASE j = Len(s) + 1 /\ i \in DOMAIN s
    <3>1. Len(s) > 0 /\ i <= Len(s)
      BY <1>1, <2>2
    <3>2. s[i].boot <= s[Len(s)].boot
      BY <1>3, <1>8, <2>2, <3>1
    <3>3. s[i].boot <= line.boot
      BY <1>2, <1>5, <1>6, <2>2, <3>1, <3>2
    <3> QED
      BY <1>1, <2>2, <3>3
  <2>3. CASE i = Len(s) + 1 /\ j = Len(s) + 1
    BY <1>1, <1>2, <2>3
  <2> QED
    BY <1>1, <1>9, <2>1, <2>2, <2>3
<1>10. ASSUME NEW n \in DOMAIN t
       PROVE  /\ t[n].kind = "start" <=> n = 1 \/ t[n - 1].boot # t[n].boot
              /\ n > 1 => (t[n - 1].kind = "finish" <=> t[n - 1].boot # t[n].boot)
  <2>1. CASE n \in DOMAIN s
    <3>1. t[n] = s[n] /\ (n > 1 => n - 1 \in DOMAIN s /\ t[n - 1] = s[n - 1])
      BY <1>1, <2>1
    <3> QED
      BY <1>1, <2>1, <3>1 DEF Tidy
  <2>2. CASE n = Len(s) + 1
    <3>1. t[n] = line /\ n - 1 = Len(s) /\ (n > 1 => t[n - 1] = s[Len(s)] /\ Len(s) > 0)
      BY <1>1, <2>2
    <3>2. Len(s) > 0 => (IsOpen(s) <=> s[Len(s)].kind # "finish") /\ (IsOpen(s) <=> s[Len(s)].boot = line.boot)
      BY <1>2, <1>3, <1>4, <1>5, <1>6
    <3> QED
      BY <1>1, <1>4, <1>7, <2>2, <3>1, <3>2
  <2> QED
    BY <1>1, <2>1, <2>2
<1> QED
  BY <1>9, <1>10 DEF Tidy, t

(* In a tidy log what is before a start is of earlier boots, and what is   *)
(* after a finish of later ones.                                           *)
LEMMA Borders ==
  ASSUME NEW s \in Seq(AnyLine), Tidy(s), NEW n \in DOMAIN s, NEW k \in DOMAIN s
  PROVE  /\ s[n].boot \in Nat /\ s[k].boot \in Nat
         /\ k < n => s[k].boot <= s[n].boot
         /\ s[n].kind = "start" /\ k < n => s[k].boot < s[n].boot
         /\ s[n].kind = "finish" /\ n < k => s[n].boot < s[k].boot
<1>0. DOMAIN s = 1..Len(s) /\ Len(s) \in Nat /\ \A i \in DOMAIN s : s[i] \in AnyLine
  OBVIOUS
<1>1. DOMAIN s = 1..Len(s) /\ Len(s) \in Nat /\ \A i \in DOMAIN s : s[i].boot \in Nat
  BY <1>0 DEF AnyLine
<1>2. \A i, j \in DOMAIN s : i <= j => s[i].boot <= s[j].boot
  BY DEF Tidy
<1>3. ASSUME s[n].kind = "start", k < n PROVE s[k].boot < s[n].boot
  <2>1. n - 1 \in DOMAIN s /\ n # 1 /\ k <= n - 1 /\ n - 1 <= n
    BY <1>1, <1>3
  <2>2. s[n - 1].boot # s[n].boot
    BY <1>3, <2>1 DEF Tidy
  <2>3. s[k].boot <= s[n - 1].boot /\ s[n - 1].boot <= s[n].boot
    BY <1>2, <2>1
  <2> QED
    BY <1>1, <2>1, <2>2, <2>3
<1>4. ASSUME s[n].kind = "finish", n < k PROVE s[n].boot < s[k].boot
  <2>1. n + 1 \in DOMAIN s /\ n + 1 > 1 /\ (n + 1) - 1 = n /\ n <= n + 1 /\ n + 1 <= k
    BY <1>1, <1>4
  <2>2. s[n].boot # s[n + 1].boot
    BY <1>4, <2>1 DEF Tidy
  <2>3. s[n].boot <= s[n + 1].boot /\ s[n + 1].boot <= s[k].boot
    BY <1>2, <2>1
  <2> QED
    BY <1>1, <2>1, <2>2, <2>3
<1> QED
  BY <1>1, <1>2, <1>3, <1>4

(* Every line of a tidy log is at or after the start of its boot.          *)
LEMMA HasStart ==
  ASSUME NEW s \in Seq(AnyLine), Tidy(s), NEW n \in DOMAIN s
  PROVE  \E k \in DOMAIN s : k <= n /\ s[k].kind = "start" /\ s[k].boot = s[n].boot
<1> DEFINE T == {k \in DOMAIN s : s[k].boot = s[n].boot}
<1>1. T \in SUBSET Nat /\ n \in T /\ DOMAIN s = 1..Len(s) /\ Len(s) \in Nat
  OBVIOUS
<1>2. PICK k \in T : \A j \in T : k <= j
  <2> HIDE DEF T
  <2>1. T # {}
    BY <1>1
  <2> QED
    BY <1>1, <2>1, LeastNumber
<1>3. k \in DOMAIN s /\ k <= n /\ s[k].boot = s[n].boot
  BY <1>1, <1>2
<1>4. k # 1 => s[k - 1].boot # s[k].boot
  BY <1>1, <1>2, <1>3
<1>5. s[k].kind = "start"
  BY <1>3, <1>4 DEF Tidy
<1> QED
  BY <1>3, <1>5

(* A tidy log without the lines from a start to a finish is tidy, whatever *)
(* their texts have become.                                                *)
SameMark(line, of) == line.kind = of.kind /\ line.boot = of.boot

LEMMA TidyCut ==
  ASSUME NEW s \in Seq(AnyLine), Tidy(s), NEW a \in DOMAIN s, NEW b \in DOMAIN s, a <= b,
         s[a].kind = "start", s[b].kind = "finish", NEW t \in Seq(AnyLine),
         Len(t) = Len(s) - (b + 1 - a),
         \A i \in DOMAIN t : SameMark(t[i], s[IF i < a THEN i ELSE i + (b + 1 - a)])
  PROVE  Tidy(t)
<1> DEFINE f(i) == IF i < a THEN i ELSE i + (b + 1 - a)
<1>1. /\ Len(s) \in Nat /\ DOMAIN s = 1..Len(s) /\ Len(t) \in Nat /\ DOMAIN t = 1..Len(t)
      /\ a \in Nat /\ b \in Nat
  OBVIOUS
<1>2. \A i \in DOMAIN t : f(i) \in DOMAIN s /\ SameMark(t[i], s[f(i)])
  BY <1>1
<1>3. \A i, j \in DOMAIN t : i <= j => f(i) <= f(j)
  BY <1>1
<1>4. \A n \in DOMAIN t : n > 1 => n - 1 \in DOMAIN t
  BY <1>1
<1>5. \A n \in DOMAIN t : n > 1 /\ n # a => f(n - 1) = f(n) - 1 /\ f(n) > 1
  BY <1>1
<1>6. a \in DOMAIN t => b + 1 \in DOMAIN s /\ f(a) = b + 1 /\ s[b + 1].kind = "start"
  <2> SUFFICES ASSUME a \in DOMAIN t PROVE b + 1 \in DOMAIN s /\ f(a) = b + 1 /\ s[b + 1].kind = "start"
    OBVIOUS
  <2>0. a <= Len(s) - (b + 1 - a) /\ b \in 1..Len(s)
    BY <1>1
  <2>1. b + 1 \in DOMAIN s /\ f(a) = b + 1 /\ (b + 1) - 1 = b /\ b + 1 > 1
    <3>1. b + 1 \in DOMAIN s
      BY <1>1, <2>0
    <3>2. f(a) = b + 1
      BY <1>1
    <3> QED
      BY <1>1, <2>0, <3>1, <3>2
  <2> HIDE DEF f
  <2>2. s[b].boot # s[b + 1].boot
    BY <2>1 DEF Tidy
  <2> QED
    BY <2>1, <2>2 DEF Tidy
<1>7. a \in DOMAIN t /\ a > 1 =>
        /\ f(a - 1) = a - 1 /\ a - 1 \in DOMAIN s
        /\ s[a - 1].kind = "finish" /\ s[a - 1].boot # s[b + 1].boot
  <2> SUFFICES ASSUME a \in DOMAIN t, a > 1
               PROVE  /\ f(a - 1) = a - 1 /\ a - 1 \in DOMAIN s
                      /\ s[a - 1].kind = "finish" /\ s[a - 1].boot # s[b + 1].boot
    OBVIOUS
  <2>1. f(a - 1) = a - 1 /\ a - 1 \in DOMAIN s /\ a - 1 < a /\ a < b + 1
    BY <1>1
  <2> HIDE DEF f
  <2>2. s[a - 1].boot < s[a].boot /\ s[a].boot <= s[b + 1].boot
    BY <1>6, <2>1, Borders
  <2>3. s[a - 1].boot \in Nat /\ s[a].boot \in Nat /\ s[b + 1].boot \in Nat
    BY <1>6, <2>1, Borders
  <2>4. s[a - 1].kind = "finish"
    BY <1>1, <2>2, <2>3 DEF Tidy
  <2> QED
    BY <2>1, <2>2, <2>3, <2>4
<1> HIDE DEF f
<1>8. \A i, j \in DOMAIN t : i <= j => t[i].boot <= t[j].boot
  BY <1>2, <1>3 DEF Tidy, SameMark
<1>9. ASSUME NEW n \in DOMAIN t
      PROVE  /\ t[n].kind = "start" <=> n = 1 \/ t[n - 1].boot # t[n].boot
             /\ n > 1 => (t[n - 1].kind = "finish" <=> t[n - 1].boot # t[n].boot)
  <2>1. CASE n = a
    <3>1. SameMark(t[n], s[b + 1]) /\ s[b + 1].kind = "start"
      BY <1>2, <1>6, <2>1
    <3>2. n > 1 => SameMark(t[n - 1], s[a - 1]) /\ s[a - 1].kind = "finish" /\ s[a - 1].boot # s[b + 1].boot
      BY <1>2, <1>4, <1>7, <2>1
    <3>3. n = 1 \/ n > 1
      BY <1>1
    <3> QED
      BY <3>1, <3>2, <3>3 DEF SameMark
  <2>2. CASE n # a /\ n > 1
    <3>1. /\ SameMark(t[n], s[f(n)]) /\ SameMark(t[n - 1], s[f(n) - 1]) /\ f(n) \in DOMAIN s /\ f(n) > 1
      BY <1>2, <1>4, <1>5, <2>2
    <3>2. f(n) # 1
      BY <1>1, <3>1
    <3> QED
      BY <2>2, <3>1, <3>2 DEF Tidy, SameMark
  <2>3. CASE n # a /\ n = 1
    <3>1. SameMark(t[n], s[1]) /\ 1 \in DOMAIN s
      BY <1>1, <1>2, <2>3 DEF f
    <3> QED
      BY <2>3, <3>1 DEF Tidy, SameMark
  <2> QED
    BY <1>1, <2>1, <2>2, <2>3
<1> QED
  BY <1>8, <1>9 DEF Tidy
-----------------------------------------------------------------------------
(* A line with which the daemon may go on after the lines s.               *)
Fits(s, line) ==
  IF IsOpen(s) THEN line = Finished(Last(s).boot)
               ELSE line = Started(boots) /\ \A n \in DOMAIN s : s[n].boot < boots

(* While a vacuum has removed the log and not yet renamed its own, that is *)
(* the log.                                                                *)
Renaming == {c \in Ctls : ctl[c].at = "rename"}
Text     == IF Renaming = {} THEN log ELSE tmp
Removed  == cut \cup UNION {ctl[c].cuts : c \in Renaming}
-----------------------------------------------------------------------------
Clear == "char" \notin Texts
TextsOf == IF "char" \in Texts THEN DOMAIN Printed ELSE Whole
Bounded == [kind : {"start", "finish", "message", "kernel"}, boot : 1..boots, id : 0..sent,
            text : TextsOf]
BoundedEntries == [kind : {"start", "finish"}, boot : 1..boots, offset : Nat]
Runs == [at : {"idle", "lock", "copy", "rename", "parse", "create", "open", "write",
               "end"},
         from : Nat, to : Nat, pos : Nat, cuts : SUBSET (1..boots),
         entries : Seq(BoundedEntries), file : Nat]

(* The types of the variables, boots and messages no greater than those    *)
(* there have been.                                                        *)
FileTypes ==
  /\ log \in Seq(Bounded) /\ tmp \in Seq(Bounded) /\ index \in Seq(BoundedEntries)
  /\ logFile \in Nat \ {0} /\ indexFile \in Nat \ {0} /\ opened \in Nat
  /\ lock \in Ctls \cup {"none", "daemon"}
  /\ boots \in 0..MaxBoots /\ sent \in 0..MaxMessages /\ crashes \in Nat
  /\ disturbed \in BOOLEAN /\ interrupted \in BOOLEAN
  /\ logged \subseteq Bounded /\ cut \subseteq 1..boots

ThreadTypes ==
  /\ daemon \in [at : {"down", "index", "log", "run"}, job : Lines, offset : Nat,
                 log : Nat, index : Nat]
  /\ daemon.at # "down" =>
       /\ daemon.job.boot \in 1..boots /\ daemon.job.kind \in {"start", "finish"}
       /\ daemon.job.id = 0 /\ daemon.job.text = "plain"
       /\ daemon.job.kind = "start" => daemon.job.boot = boots
  /\ daemon.at = "run" => daemon.job.kind = "start"
  /\ unix \in [at : {"idle", "write", "close", "closed"}, id : 0..sent, text : TextsOf]
  /\ unix.at # "idle" => lock = "daemon" /\ daemon.at = "run"
  /\ unix.at = "write" => unix.id = sent
  /\ kernel \in {"idle", "begin", "write", "close", "closed"}
  /\ kernel # "idle" => daemon.at = "run"
  /\ ctl \in [Ctls -> Runs]
  /\ \A c \in Ctls : ctl[c].at \in {"lock", "copy"} => ctl[c].pos # 0

(* The boot that is running has been finished nowhere and is not cut.      *)
Unfinished == daemon.at # "down" /\ daemon.job # Finished(boots)
NoFinish(s, b) == \A n \in DOMAIN s : s[n].kind = "finish" => s[n].boot # b
Running ==
  Unfinished =>
    /\ NoFinish(log, boots) /\ NoFinish(tmp, boots) /\ NoFinish(index, boots)
    /\ \A c \in Ctls : boots \notin ctl[c].cuts /\ NoFinish(ctl[c].entries, boots)
    /\ boots \notin cut
-----------------------------------------------------------------------------
(* Who has the log open and the lock.                                      *)
Guarded ==
  /\ ~Unguarded
  /\ opened = IF unix.at \in {"write", "close"} \/ kernel \in {"write", "close"}
              THEN logFile ELSE 0
  /\ \A c \in Ctls : ctl[c].at \in {"copy", "rename"} => lock = c
  /\ (\A c \in Ctls : ctl[c].at \notin {"copy", "rename"}) => tmp = <<>>

(* The log, and in it every message that was logged and not cut, once.     *)
InLog(s, m) ==
  \E n \in DOMAIN s : /\ SameLine(s[n], m) /\ (m.text = "plain" => s[n].text = "plain")
                      /\ \A k \in DOMAIN s : SameLine(s[k], m) => k = n

Logged ==
  /\ Tidy(Text)
  /\ daemon.at = "run" => IsOpen(Text) /\ Last(Text).boot = boots
  /\ \A n \in DOMAIN Text :
       /\ Text[n].boot \notin Removed
       /\ Text[n].kind = "message" /\ unix.at = "write" => Text[n].id # unix.id
  /\ \A m \in logged :
       /\ m.kind = "message" /\ (unix.at = "write" => m.id # unix.id)
       /\ m.boot \notin Removed => InLog(Text, m)

(* The index has the entries of the log, or, after a crash, one more that  *)
(* is not in the log.  A vacuum of all the boots but that one empties the  *)
(* log, and then the index stays as it is.                                 *)
Ahead == \E line \in Lines : /\ Fits(log, line)
                             /\ index = Append(EntriesOf(log), Entry(line, Len(log)))
Crashed == daemon.at = "down" /\ crashes > 0
Indexed == index = EntriesOf(log) \/ (Crashed /\ (log = <<>> \/ Ahead))

DaemonIndex ==
  /\ Writing =>
       /\ daemon.offset = Len(log) /\ daemon.log = logFile /\ daemon.index = indexFile
       /\ Fits(log, daemon.job)
       /\ index = IF daemon.at = "index" THEN EntriesOf(log)
                  ELSE Append(EntriesOf(log), Entry(daemon.job, Len(log)))
  /\ ~Writing /\ Busy = {} => Indexed

CtlIndex ==
  \A c \in Ctls :
    /\ ctl[c].at \in {"lock", "copy", "end"} => Indexed
    /\ ctl[c].at = "parse" /\ log = <<>> => Indexed
    /\ ctl[c].at \in {"create", "open"} => ctl[c].entries = EntriesOf(log)
    /\ ctl[c].at = "open" => index = <<>>
    /\ ctl[c].at = "write" =>
         ctl[c].file = indexFile /\ index \o ctl[c].entries = EntriesOf(log)

(* What a vacuum is to cut are the lines of its boots, which are finished; *)
(* it cuts nothing if the first comes after the last.                      *)
CutOf(d) ==
  IF d.from > d.to THEN d.cuts = {}
  ELSE /\ d.from + 1 \in DOMAIN log /\ d.to + 1 \in DOMAIN log
       /\ d.to + 1 = Len(log) => Crashed
       /\ log[d.from + 1].kind = "start" /\ log[d.to + 1].kind = "finish"
       /\ \A n \in DOMAIN log : log[n].boot \in d.cuts <=> n \in (d.from + 1)..(d.to + 1)

(* What it has copied.                                                     *)
Gap(d) == IF d.from > d.to THEN 0 ELSE d.to + 1 - d.from
Kept(d, n) == IF n <= d.from \/ d.from > d.to THEN n
              ELSE IF n <= d.to + 1 THEN d.from ELSE n - Gap(d)
Source(d, i) == IF i <= d.from THEN i ELSE i + Gap(d)
Copied(d) ==
  /\ d.pos \in 1..(Len(log) + 1)
  /\ tmp = [i \in 1..Kept(d, d.pos - 1) |-> Rewritten(log[Source(d, i)])]

Cutting ==
  \A c \in Ctls :
    /\ ctl[c].at = "lock" => ctl[c].pos = 1
    /\ ctl[c].at \in {"lock", "copy"} => IF log = <<>> THEN Crashed ELSE CutOf(ctl[c])
    /\ ctl[c].at = "copy" => Copied(ctl[c])
    /\ ctl[c].at = "rename" /\ tmp = <<>> => Crashed

Ordered == Guarded /\ Logged /\ DaemonIndex /\ CtlIndex /\ Cutting

IInv == FileTypes /\ ThreadTypes /\ Running /\ (Orderly => Ordered)
-----------------------------------------------------------------------------
LEMMA SeqMono ==
  ASSUME NEW S, NEW T, S \subseteq T
  PROVE  Seq(S) \subseteq Seq(T)
OBVIOUS

(* What the writing makes of the texts there may be.                       *)
LEMMA TextsAre ==
  /\ TextsOf \subseteq DOMAIN Printed /\ "plain" \in TextsOf /\ Texts \subseteq TextsOf
  /\ \A t \in TextsOf : Printed[t] \in TextsOf /\ (t = "plain" => Printed[t] = "plain")
  /\ Clear => TextsOf = Whole
<1>1. /\ DOMAIN Printed = {"plain", "percent", "escaped", "char", "nul", "broken"}
      /\ Printed["plain"] = "plain" /\ Printed["percent"] = "plain"
      /\ Printed["escaped"] = "percent" /\ Printed["char"] = "nul"
      /\ Printed["nul"] = "broken" /\ Printed["broken"] = "broken"
  BY DEF Printed
<1>2. Texts \subseteq {"plain", "percent", "escaped", "char"}
  BY LogAssumption
<1> QED
  BY <1>1, <1>2 DEF TextsOf, Whole, Clear

LEMMA RewrittenIs ==
  ASSUME NEW line \in Bounded
  PROVE  /\ Rewritten(line) \in Bounded
         /\ Rewritten(line).kind = line.kind /\ Rewritten(line).boot = line.boot
         /\ Rewritten(line).id = line.id
         /\ line.text = "plain" => Rewritten(line).text = "plain"
<1>1. line.text \in TextsOf
  BY DEF Bounded
<1> DEFINE t == Printed[line.text]
<1>2. t \in TextsOf /\ (line.text = "plain" => t = "plain")
  BY <1>1, TextsAre
<1> HIDE DEF t
<1>3. Rewritten(line) = [line EXCEPT !.text = t]
  BY <1>1 DEF Rewritten, t, Bounded
<1> QED
  BY <1>2, <1>3 DEF Bounded

(* The types are those of TypeOK, and of the lemmas on what is read.       *)
LEMMA LinesAre ==
  ASSUME FileTypes, ThreadTypes
  PROVE  /\ Bounded \subseteq RawLine /\ Bounded \subseteq Lines
         /\ BoundedEntries \subseteq AnyEntry /\ BoundedEntries \subseteq Entries
         /\ index \in Seq(AnyEntry)
         /\ Clear => /\ Bounded \subseteq AnyLine
                     /\ log \in Seq(AnyLine) /\ tmp \in Seq(AnyLine)
<1>1. MaxBoots \in Nat /\ MaxMessages \in Nat /\ boots \in 0..MaxBoots /\ sent \in 0..MaxMessages
  BY LogAssumption DEF FileTypes
<1>0. 1..boots \subseteq Nat /\ 0..sent \subseteq Nat /\ 1..boots \subseteq 0..MaxBoots /\ 0..sent \subseteq 0..MaxMessages
  BY <1>1
<1>2. Bounded \subseteq RawLine /\ Bounded \subseteq Lines
  BY <1>0, TextsAre DEF Bounded, RawLine, Lines
<1>5. Clear => Bounded \subseteq AnyLine
  BY <1>0, TextsAre DEF Bounded, AnyLine
<1>3. BoundedEntries \subseteq AnyEntry /\ BoundedEntries \subseteq Entries
  <2>1. 1..boots \subseteq Nat /\ 1..boots \subseteq 0..MaxBoots
    BY <1>1
  <2> QED
    BY <2>1 DEF BoundedEntries, AnyEntry, Entries, Marks
<1>4. log \in Seq(Bounded) /\ tmp \in Seq(Bounded) /\ index \in Seq(BoundedEntries)
  BY DEF FileTypes
<1> QED
  BY <1>2, <1>3, <1>4, <1>5, SeqMono

(* The invariant implies the types of TypeOK.                              *)
LEMMA TypesAre ==
  ASSUME FileTypes, ThreadTypes
  PROVE  TypeOK
<1>1. log \in Seq(Lines) /\ tmp \in Seq(Lines) /\ index \in Seq(Entries)
  BY LinesAre, SeqMono DEF FileTypes
<1>2. 1..boots \subseteq 1..MaxBoots
  BY LogAssumption DEF FileTypes
<1>3. \A c \in Ctls : /\ ctl[c].at \in {"idle", "lock", "copy", "rename", "parse", "create",
                                       "open", "write", "end"}
                     /\ ctl[c].cuts \subseteq 1..MaxBoots
  BY <1>2 DEF ThreadTypes, Runs
<1>4. logged \subseteq Lines /\ cut \subseteq 1..MaxBoots /\ lock \in Ctls \cup {"none", "daemon"}
  BY <1>2, LinesAre DEF FileTypes
<1>5. /\ daemon.at \in {"down", "index", "log", "run"} /\ daemon.job \in Lines
      /\ unix.at \in {"idle", "write", "close", "closed"}
      /\ kernel \in {"idle", "begin", "write", "close", "closed"}
  BY DEF ThreadTypes
<1> QED
  BY <1>1, <1>3, <1>4, <1>5 DEF TypeOK

(* What is read of lines of boots up to the last one is of these boots.    *)
LEMMA EntriesAreBounded ==
  ASSUME FileTypes, ThreadTypes, NEW s \in Seq(Bounded)
  PROVE  /\ EntriesOf(s) \in Seq(BoundedEntries)
         /\ \A i \in DOMAIN EntriesOf(s) : \E k \in DOMAIN s : EntriesOf(s)[i] = Entry(s[k], k - 1)
<1>1. s \in Seq(RawLine) /\ Len(s) \in 0..Len(s) /\ DOMAIN s = 1..Len(s)
  BY LinesAre, SeqMono
<1>2. Reading(s)[Len(s)] \in ReadType /\ AreOfLines(Reading(s)[Len(s)].entries, s, Len(s))
  BY <1>1, ReadingTypes
<1> DEFINE e == EntriesOf(s)
<1>3. e \in Seq(AnyEntry) /\ \A i \in DOMAIN e : \E k \in DOMAIN s : e[i] = Entry(s[k], k - 1) /\ s[k].kind \in Marks
  BY <1>1, <1>2 DEF EntriesOf, ReadingOf, ReadType, AreOfLines
<1>4. \A k \in DOMAIN s : s[k].kind \in Marks => Entry(s[k], k - 1) \in BoundedEntries
  <2>1. \A k \in DOMAIN s : s[k] \in Bounded /\ k - 1 \in Nat
    BY <1>1
  <2>2. \A k \in DOMAIN s : s[k].boot \in 1..boots
    BY <2>1 DEF Bounded
  <2> QED
    BY <2>1, <2>2 DEF Entry, BoundedEntries, Marks
<1> HIDE DEF e
<1>5. \A i \in DOMAIN e : e[i] \in BoundedEntries
  BY <1>3, <1>4
<1>6. e \in Seq(BoundedEntries)
  BY <1>3, <1>5
<1> QED
  BY <1>3, <1>6 DEF e

(* The entries of the boots that a vacuum may name: neither is the last.   *)
LEMMA MaxIdxRange ==
  ASSUME index \in Seq(AnyEntry), NEW i \in Nat, i < MaxIdx
  PROVE  /\ 2 * i + 1 \in DOMAIN index /\ 2 * i + 2 \in DOMAIN index
         /\ 2 * i + 2 < Len(index)
<1>1. Len(index) \in Nat /\ DOMAIN index = 1..Len(index)
  OBVIOUS
<1>2. CASE Len(index) % 2 = 0
  <2>1. i < (Len(index) - 2) \div 2
    BY <1>2 DEF MaxIdx
  <2>2. 2 * i + 2 < Len(index)
    BY <1>1, <2>1
  <2> QED
    BY <1>1, <2>2
<1>3. CASE Len(index) % 2 # 0
  <2>1. i < (Len(index) - 1) \div 2
    BY <1>3 DEF MaxIdx
  <2>2. 2 * i + 2 < Len(index)
    BY <1>1, <1>3, <2>1
  <2> QED
    BY <1>1, <2>2
<1> QED
  BY <1>2, <1>3
-----------------------------------------------------------------------------
(* A run of unitlogctl that goes from one stage to the next.               *)
LEMMA RunTypes ==
  ASSUME ThreadTypes, NEW c \in Ctls, NEW d \in Runs, ctl' = [ctl EXCEPT ![c] = d], UNCHANGED boots
  PROVE  /\ ctl' \in [Ctls -> Runs]' /\ ctl'[c] = d
         /\ \A b \in Ctls \ {c} : ctl'[b] = ctl[b]
BY DEF ThreadTypes, Runs, BoundedEntries

(* Every step keeps the types.                                             *)
LEMMA TypeStep ==
  ASSUME FileTypes, ThreadTypes, [Next]_vars
  PROVE  FileTypes' /\ ThreadTypes'
<1> USE LogAssumption
<1>0. /\ MaxBoots \in Nat /\ MaxMessages \in Nat /\ boots \in 0..MaxBoots /\ sent \in 0..MaxMessages
      /\ Bounded \subseteq Lines
  BY LinesAre DEF FileTypes
<1>2. disturbed' \in BOOLEAN /\ interrupted' \in BOOLEAN
  BY DEF Next, vars, Unitlogctl, Note, FileTypes, WriteIndexEntry, WriteLogEntry, DaemonStops, DaemonCrashes,
    UnixLock, UnixWrite, UnixCloses, UnixUnlock, KernelBegins, KernelWrites, KernelCloses, KernelEnds,
    AssertionFails, DaemonStarts, Vacuum, CtlLock, CopyLine, RemoveLog, RenameLog, Repair, ParseLog,
    CreateIndex, OpenIndex, WriteIndex, CtlEnds, CtlCrashes, CtlDoes
<1>3. boots' = boots /\ sent' = sent => Bounded' = Bounded /\ BoundedEntries' = BoundedEntries /\ Runs' = Runs
  BY DEF Bounded, BoundedEntries, Runs
<1>1. CASE DaemonStarts
  <2>1. boots' = boots + 1 /\ boots + 1 \in 0..MaxBoots /\ sent' = sent
    BY <1>0, <1>1 DEF DaemonStarts
  <2>2. Bounded \subseteq Bounded' /\ BoundedEntries \subseteq BoundedEntries' /\ 1..boots \subseteq 1..(boots')
    <3>1. 1..boots \subseteq 1..(boots')
      BY <1>0, <2>1
    <3> QED
      BY <2>1, <3>1 DEF Bounded, BoundedEntries
  <2>3. FileTypes'
    <3>1. /\ log' \in Seq(Bounded') /\ tmp' \in Seq(Bounded') /\ index' \in Seq(BoundedEntries')
          /\ logged' \subseteq Bounded' /\ cut' \subseteq 1..(boots')
      BY <1>1, <2>2, SeqMono DEF FileTypes, DaemonStarts, files
    <3>2. disturbed' \in BOOLEAN
      BY <1>1 DEF DaemonStarts, Note, FileTypes
    <3> QED
      BY <1>1, <2>1, <3>1, <3>2 DEF FileTypes, DaemonStarts, files
  <2>4. ctl' \in [Ctls -> Runs']
    <3>1. Runs \subseteq Runs'
      <4>1. Seq(BoundedEntries) \subseteq Seq(BoundedEntries') /\ SUBSET (1..boots) \subseteq SUBSET (1..(boots'))
        BY <2>2, SeqMono
      <4> QED
        BY <4>1 DEF Runs
    <3> QED
      BY <1>1, <3>1 DEF ThreadTypes, DaemonStarts
  <2>5. /\ daemon' \in [at : {"down", "index", "log", "run"}, job : Lines, offset : Nat,
                        log : Nat, index : Nat]
        /\ daemon'.at = "index"
        /\ daemon'.job.boot \in 1..(boots') /\ daemon'.job.kind \in {"start", "finish"}
        /\ daemon'.job.id = 0 /\ daemon'.job.text = "plain" /\ (daemon'.job.kind = "start" => daemon'.job.boot = boots')
    <3> DEFINE line == IF Len(index) % 2 = 1 THEN Finished(Last(index).boot) ELSE Started(boots + 1)
    <3>1. /\ line \in Lines /\ line.boot \in 1..(boots') /\ line.kind \in {"start", "finish"}
          /\ line.id = 0 /\ line.text = "plain" /\ (line.kind = "start" => line.boot = boots')
      <4>1. CASE Len(index) % 2 = 1
        <5>1. Len(index) \in DOMAIN index
          BY <4>1, SMTT(20) DEF FileTypes
        <5>2. Last(index).boot \in 1..boots
          <6>1. index[Len(index)] \in BoundedEntries
            BY <5>1 DEF FileTypes
          <6> QED
            BY <6>1 DEF BoundedEntries, Last
        <5> QED
          BY <1>0, <2>1, <4>1, <5>2 DEF Finished, Lines, Printed
      <4>2. CASE Len(index) % 2 # 1
        BY <1>0, <2>1, <4>2 DEF Started, Lines, Printed
      <4> QED
        BY <4>1, <4>2
    <3> HIDE DEF line
    <3>2. daemon' = [at |-> "index", job |-> line, offset |-> Len(log), log |-> logFile, index |-> indexFile]
      BY <1>1 DEF DaemonStarts, Writes, line
    <3>3. Len(log) \in Nat /\ logFile \in Nat /\ indexFile \in Nat
      BY DEF FileTypes
    <3> QED
      BY <3>1, <3>2, <3>3
  <2>6. unix' = unix /\ kernel' = kernel /\ lock' = lock
    BY <1>1 DEF DaemonStarts
  <2>7. unix.at = "idle" /\ kernel = "idle"
    BY <1>1 DEF DaemonStarts, ThreadTypes
  <2>8. ThreadTypes'
    <3>1. \A c \in Ctls : ctl'[c].at \in {"lock", "copy"} => ctl'[c].pos # 0
      BY <1>1 DEF DaemonStarts, ThreadTypes
    <3> QED
      BY <2>1, <2>4, <2>5, <2>6, <2>7, <3>1 DEF ThreadTypes
  <2> QED
    BY <2>3, <2>8
<1>4. CASE WriteIndexEntry
  <2>1. boots' = boots /\ sent' = sent
    BY <1>4 DEF WriteIndexEntry, counts
  <2>2. daemon.job.boot \in 1..boots /\ daemon.job.kind \in Marks /\ daemon.offset \in Nat
    BY <1>4 DEF WriteIndexEntry, ThreadTypes, Marks
  <2>3. index' \in Seq(BoundedEntries)
    <3>1. Entry(daemon.job, daemon.offset) \in BoundedEntries
      BY <2>2 DEF Entry, BoundedEntries, Marks
    <3> QED
      BY <1>4, <3>1 DEF WriteIndexEntry, FileTypes
  <2> QED
    BY <1>2, <1>3, <1>4, <2>1, <2>3 DEF WriteIndexEntry, counts, FileTypes, ThreadTypes
<1>5. CASE WriteLogEntry
  <2>1. boots' = boots /\ sent' = sent
    BY <1>5 DEF WriteLogEntry, counts
  <2>2. daemon.job.boot \in 1..boots /\ daemon.job.kind \in Marks /\ daemon.job \in Lines
    BY <1>5 DEF WriteLogEntry, ThreadTypes, Marks
  <2>3. daemon.job \in Bounded
    BY <1>0, <1>5, <2>2, TextsAre DEF WriteLogEntry, ThreadTypes, Bounded, Marks, Lines
  <2>4. log' \in Seq(Bounded) /\ Len(log') \in Nat
    BY <1>5, <2>3 DEF WriteLogEntry, LogWith, FileTypes
  <2>5. FileTypes'
    BY <1>2, <1>3, <1>5, <2>1, <2>4 DEF WriteLogEntry, counts, FileTypes
  <2>6. CASE /\ daemon.job.kind = "finish" /\ daemon.job.boot # boots
             /\ daemon' = [at |-> "index", job |-> Started(boots), offset |-> Len(log'),
                           log |-> logFile, index |-> indexFile]
             /\ UNCHANGED kernel
    <3>1. Started(boots) \in Lines /\ boots \in 1..boots
      BY <1>0, <2>2 DEF Started, Lines, Printed
    <3>2. daemon.at = "log" /\ ctl' = ctl /\ unix' = unix /\ lock' = lock
      BY <1>5 DEF WriteLogEntry
    <3> QED
      BY <1>3, <2>1, <2>4, <2>5, <2>6, <3>1, <3>2 DEF ThreadTypes, FileTypes, Started
  <2>7. CASE daemon.job.kind = "start" /\ daemon' = [daemon EXCEPT !.at = "run"] /\ kernel' = "begin"
    BY <1>3, <1>5, <2>1, <2>5, <2>7 DEF WriteLogEntry, ThreadTypes
  <2>8. CASE daemon' = Down /\ UNCHANGED kernel
    <3>1. Down \in [at : {"down", "index", "log", "run"}, job : Lines, offset : Nat, log : Nat, index : Nat]
      BY <1>0 DEF Down, Started, Lines, Printed
    <3> QED
      BY <1>3, <1>5, <2>1, <2>5, <2>8, <3>1 DEF WriteLogEntry, ThreadTypes, Down
  <2> QED
    BY <1>5, <2>6, <2>7, <2>8 DEF WriteLogEntry
<1>6. CASE DaemonStops
  <2>1. boots' = boots /\ sent' = sent
    BY <1>6 DEF DaemonStops, Writes, counts
  <2>2. Finished(boots) \in Lines /\ boots \in 1..boots
    BY <1>0, <1>6 DEF DaemonStops, ThreadTypes, Finished, Lines, Printed
  <2>3. Len(log) \in Nat
    BY DEF FileTypes
  <2>8. FileTypes'
    BY <1>2, <1>3, <1>6, <2>1, <2>2, <2>3 DEF DaemonStops, Writes, files, threads, counts, FileTypes, Finished
  <2>9. ThreadTypes'
    <3>1. daemon' \in [at : {"down", "index", "log", "run"}, job : Lines, offset : Nat, log : Nat, index : Nat]
      BY <1>6, <2>2, <2>3 DEF DaemonStops, Writes, FileTypes
    <3>2. daemon'.at = "index" /\ daemon'.job = Finished(boots)
      BY <1>6 DEF DaemonStops, Writes
    <3> QED
      BY <1>3, <1>6, <2>1, <2>2, <3>1, <3>2 DEF DaemonStops, counts, ThreadTypes, Finished
  <2> QED
    BY <2>8, <2>9
<1>7. Gone => /\ daemon' \in [at : {"down", "index", "log", "run"}, job : Lines, offset : Nat, log : Nat, index : Nat]
              /\ daemon'.at = "down" /\ kernel' = "idle" /\ unix'.at = "idle"
              /\ unix' \in [at : {"idle", "write", "close", "closed"}, id : 0..sent, text : TextsOf]
              /\ opened' = 0 /\ lock' \in {lock, "none"}
  BY <1>0, TextsAre DEF Gone, Down, Listening, Started, Lines, Printed
<1>8. CASE DaemonCrashes
  <2>1. boots' = boots /\ sent' = sent /\ Gone
    BY <1>8 DEF DaemonCrashes, counts
  <2>8. FileTypes'
    BY <1>2, <1>3, <1>7, <1>8, <2>1, SMTT(20) DEF DaemonCrashes, files, counts, FileTypes
  <2>9. ThreadTypes'
    BY <1>3, <1>7, <1>8, <2>1 DEF DaemonCrashes, counts, ThreadTypes
  <2> QED
    BY <2>8, <2>9
<1>9. CASE AssertionFails
  <2>1. boots' = boots /\ sent' = sent /\ Gone
    BY <1>9 DEF AssertionFails, counts
  <2>8. FileTypes'
    BY <1>2, <1>3, <1>7, <1>9, <2>1 DEF AssertionFails, files, counts, FileTypes
  <2>9. ThreadTypes'
    BY <1>3, <1>7, <1>9, <2>1 DEF AssertionFails, counts, ThreadTypes
  <2> QED
    BY <2>8, <2>9
<1>10. CASE UnixLock
  <2>1. boots' = boots /\ sent' = sent + 1 /\ sent' \in 0..MaxMessages
    BY <1>0, <1>10 DEF UnixLock, Receive
  <2>2. Bounded \subseteq Bounded' /\ BoundedEntries' = BoundedEntries /\ Runs' = Runs
    <3>1. 0..sent \subseteq 0..(sent')
      BY <1>0, <2>1
    <3> QED
      BY <2>1, <3>1 DEF Bounded, BoundedEntries, Runs
  <2>3. log' \in Seq(Bounded') /\ tmp' \in Seq(Bounded') /\ logged' \subseteq Bounded'
    BY <1>10, <2>2, SeqMono DEF FileTypes, UnixLock, Receive, files
  <2>4. FileTypes'
    BY <1>2, <1>10, <2>1, <2>2, <2>3 DEF FileTypes, UnixLock, files, Open
  <2>5. ThreadTypes'
    <3>1. PICK text \in Texts : unix' = [at |-> "write", id |-> sent + 1, text |-> text]
      BY <1>10 DEF UnixLock, Receive
    <3>2. text \in TextsOf
      BY TextsAre
    <3> QED
      BY <1>0, <1>10, <2>1, <2>2, <3>1, <3>2 DEF ThreadTypes, UnixLock
  <2> QED
    BY <2>4, <2>5
<1>11. CASE UnixWrite
  <2>1. boots' = boots /\ sent' = sent
    BY <1>11 DEF UnixWrite, counts
  <2>2. Message(boots, unix.id, unix.text) \in Bounded
    BY <1>0, <1>11 DEF UnixWrite, ThreadTypes, Message, Bounded
  <2>8. FileTypes'
    BY <1>2, <1>3, <1>11, <2>1, <2>2, RewrittenIs, SMTT(20) DEF UnixWrite, files, threads, counts, FileTypes, LogLine
  <2>9. ThreadTypes'
    BY <1>2, <1>3, <1>11, <2>1, <2>2 DEF UnixWrite, files, threads, counts, ThreadTypes, LogLine
  <2> QED
    BY <2>8, <2>9
<1>12. CASE UnixCloses \/ UnixUnlock
  <2>1. boots' = boots /\ sent' = sent
    BY <1>12 DEF UnixCloses, UnixUnlock, counts
  <2>8. FileTypes'
    BY <1>2, <1>3, <1>12, <2>1 DEF UnixCloses, UnixUnlock, files, threads, counts, FileTypes
  <2>9. ThreadTypes'
    BY <1>0, <1>3, <1>12, <2>1, TextsAre DEF UnixCloses, UnixUnlock, Listening, counts, ThreadTypes
  <2> QED
    BY <2>8, <2>9
<1>13. CASE KernelBegins
  <2>1. boots' = boots /\ sent' = sent
    BY <1>13 DEF KernelBegins, counts
  <2>8. FileTypes'
    BY <1>2, <1>3, <1>13, <2>1 DEF KernelBegins, files, threads, counts, FileTypes, Open
  <2>9. ThreadTypes'
    BY <1>2, <1>3, <1>13, <2>1 DEF KernelBegins, files, threads, counts, ThreadTypes, Open
  <2> QED
    BY <2>8, <2>9
<1>14. CASE KernelWrites
  <2>1. boots' = boots /\ sent' = sent
    BY <1>14 DEF KernelWrites, counts
  <2>2. KernelLine(boots) \in Bounded
    BY <1>0, <1>14, TextsAre DEF KernelWrites, ThreadTypes, KernelLine, Bounded
  <2>8. FileTypes'
    BY <1>2, <1>3, <1>14, <2>1, <2>2, RewrittenIs DEF KernelWrites, files, threads, counts, FileTypes, LogLine
  <2>9. ThreadTypes'
    BY <1>2, <1>3, <1>14, <2>1, <2>2 DEF KernelWrites, files, threads, counts, ThreadTypes, LogLine
  <2> QED
    BY <2>8, <2>9
<1>15. CASE KernelCloses
  <2>1. boots' = boots /\ sent' = sent
    BY <1>15 DEF KernelCloses, counts
  <2>8. FileTypes'
    BY <1>2, <1>3, <1>15, <2>1 DEF KernelCloses, files, threads, counts, FileTypes
  <2>9. ThreadTypes'
    BY <1>2, <1>3, <1>15, <2>1 DEF KernelCloses, files, threads, counts, ThreadTypes
  <2> QED
    BY <2>8, <2>9
<1>18. CASE KernelEnds
  <2>1. boots' = boots /\ sent' = sent
    BY <1>18 DEF KernelEnds, counts
  <2>8. FileTypes'
    BY <1>2, <1>3, <1>18, <2>1 DEF KernelEnds, files, threads, counts, FileTypes
  <2>9. ThreadTypes'
    BY <1>2, <1>3, <1>18, <2>1 DEF KernelEnds, files, threads, counts, ThreadTypes
  <2> QED
    BY <2>8, <2>9
<1>16. ASSUME NEW c \in Ctls, Unitlogctl(c) PROVE FileTypes' /\ ThreadTypes'
  <2>0. /\ ctl \in [Ctls -> Runs] /\ ctl[c] \in Runs
        /\ log \in Seq(Bounded) /\ tmp \in Seq(Bounded) /\ index \in Seq(BoundedEntries)
        /\ Len(log) \in Nat /\ Len(index) \in Nat
    BY SMTT(20) DEF ThreadTypes, FileTypes
  <2>00. \A d \in Runs : [ctl EXCEPT ![c] = d] \in [Ctls -> Runs]
    BY <2>0
  <2>1. ASSUME boots' = boots /\ sent' = sent, UNCHANGED threads, ctl' \in [Ctls -> Runs],
               lock' \in Ctls \cup {"none", "daemon"}, lock = "daemon" => lock' = "daemon",
               ctl'[c].at \in {"lock", "copy"} => ctl'[c].pos # 0,
               \A b \in Ctls \ {c} : ctl'[b] = ctl[b]
        PROVE  ThreadTypes'
    <3>1. \A b \in Ctls : ctl'[b].at \in {"lock", "copy"} => ctl'[b].pos # 0
      BY <2>1 DEF ThreadTypes
    <3> QED
      BY <1>3, <2>1, <3>1 DEF ThreadTypes, threads
  <2>2. ASSUME boots' = boots /\ sent' = sent /\ crashes' \in Nat, UNCHANGED <<threads, logged>>,
               log' \in Seq(Bounded), tmp' \in Seq(Bounded), index' \in Seq(BoundedEntries),
               logFile' \in Nat \ {0}, indexFile' \in Nat \ {0}, cut' \subseteq 1..boots,
               lock' \in Ctls \cup {"none", "daemon"}
        PROVE  FileTypes'
    BY <1>2, <1>3, <2>2 DEF FileTypes, threads
  <2>3. c # "daemon" /\ c # "none"
    OBVIOUS
  <2>4. CASE \E first, last \in 0..MaxBoots : Vacuum(c, first, last)
    <3>1. PICK first \in 0..MaxBoots, last \in 0..MaxBoots : Vacuum(c, first, last)
      BY <2>4
    <3> DEFINE d == [at |-> "lock", from |-> index[2 * first + 1].offset,
                     to |-> index[2 * last + 2].offset, pos |-> 1, entries |-> <<>>,
                     file |-> 0, cuts |-> {index[2 * i + 1].boot : i \in first..last}]
    <3>2. first \in Nat /\ last \in Nat /\ first < MaxIdx /\ last < MaxIdx
      BY <1>0, <3>1 DEF Vacuum
    <3>3. /\ index \in Seq(AnyEntry)
          /\ \A i \in DOMAIN index : index[i].offset \in Nat /\ index[i].boot \in 1..boots
      <4>1. \A i \in DOMAIN index : index[i] \in BoundedEntries
        BY <2>0
      <4> QED
        BY <4>1, LinesAre DEF BoundedEntries
    <3>4. 2 * first + 1 \in DOMAIN index /\ 2 * last + 2 \in DOMAIN index
      BY <3>2, <3>3, MaxIdxRange
    <3>5. \A i \in first..last : 2 * i + 1 \in DOMAIN index
      <4>1. last \in Int /\ Len(index) \in Int /\ 2 * last + 2 <= Len(index) /\ first \in Nat
        BY <3>2, <3>4
      <4> QED
        BY <4>1
    <3>6. d \in Runs
      BY <3>3, <3>4, <3>5, SMTT(20) DEF Runs
    <3> HIDE DEF d
    <3>7. ctl' = [ctl EXCEPT ![c] = d]
      BY <3>1 DEF Vacuum, d
    <3>8. /\ ctl' \in [Ctls -> Runs] /\ \A b \in Ctls \ {c} : ctl'[b] = ctl[b]
          /\ ctl'[c].at \in {"lock", "copy"} => ctl'[c].pos # 0
      BY <2>0, <3>6, <3>7 DEF d
    <3> QED
      BY <2>0, <2>1, <2>2, <3>1, <3>8 DEF Vacuum, Requested, CtlDoes, files, threads, FileTypes
  <2>5. CASE CtlLock(c)
    <3>1. /\ ctl' \in [Ctls -> Runs] /\ \A b \in Ctls \ {c} : ctl'[b] = ctl[b]
          /\ ctl'[c].at \in {"lock", "copy"} => ctl'[c].pos # 0
      BY <2>0, <2>5 DEF CtlLock, Runs, ThreadTypes
    <3> QED
      BY <2>0, <2>1, <2>2, <2>5, <3>1 DEF CtlLock, CtlDoes, files, threads, FileTypes
  <2>6. CASE CopyLine(c)
    <3>1. /\ ctl' \in [Ctls -> Runs] /\ \A b \in Ctls \ {c} : ctl'[b] = ctl[b]
          /\ ctl'[c].at \in {"lock", "copy"} => ctl'[c].pos # 0
      <4> DEFINE d == [ctl[c] EXCEPT !.pos = ctl[c].pos + 1]
      <4>0. ctl[c] \in Runs /\ ctl[c].pos \in Nat /\ ctl[c].pos + 1 \in Nat /\ ctl[c].pos + 1 # 0
        <5>1. ctl[c] \in Runs /\ ctl[c].pos \in Nat
          BY <2>0 DEF Runs
        <5> QED
          BY <5>1
      <4>1. d \in Runs /\ d.pos # 0
        <5> DEFINE p == ctl[c].pos + 1
        <5> HIDE DEF p
        <5>1. p \in Nat /\ p # 0
          BY <4>0 DEF p
        <5>2. d = [ctl[c] EXCEPT !.pos = p]
          BY DEF p
        <5> HIDE DEF d
        <5> QED
          BY <4>0, <5>1, <5>2 DEF Runs
      <4> HIDE DEF d
      <4>2. ctl' = [ctl EXCEPT ![c] = d]
        BY <2>6 DEF CopyLine, d
      <4> QED
        BY <2>0, <4>1, <4>2
    <3>2. tmp' \in Seq(Bounded)
      <4>1. ctl[c].pos \in DOMAIN log
        <5>1. ctl[c].at = "copy" /\ ctl[c].pos <= Len(log)
          BY <2>6 DEF CopyLine
        <5>2. ctl[c].pos # 0 /\ ctl[c].pos \in Nat
          BY <2>0, <5>1 DEF ThreadTypes, Runs
        <5> QED
          BY <2>0, <5>1, <5>2
      <4>2. log[ctl[c].pos] \in Bounded
        BY <2>0, <4>1
      <4> QED
        BY <2>0, <2>6, <4>2, RewrittenIs DEF CopyLine
    <3> QED
      BY <2>0, <2>1, <2>2, <2>6, <3>1, <3>2 DEF CopyLine, CtlDoes, files, threads, FileTypes
  <2>7. CASE RemoveLog(c)
    <3>1. /\ ctl' \in [Ctls -> Runs] /\ \A b \in Ctls \ {c} : ctl'[b] = ctl[b]
          /\ ctl'[c].at \in {"lock", "copy"} => ctl'[c].pos # 0
      BY <2>0, <2>7 DEF RemoveLog, Runs
    <3>2. log' \in Seq(Bounded)
      BY <2>7 DEF RemoveLog
    <3> QED
      BY <2>0, <2>1, <2>2, <2>7, <3>1, <3>2, SMTT(20) DEF RemoveLog, CtlDoes, files, threads, FileTypes
  <2>8. CASE RenameLog(c)
    <3>1. /\ ctl' \in [Ctls -> Runs] /\ \A b \in Ctls \ {c} : ctl'[b] = ctl[b]
          /\ ctl'[c].at \in {"lock", "copy"} => ctl'[c].pos # 0
      BY <2>0, <2>8 DEF RenameLog, Runs
    <3>2. log' \in Seq(Bounded) /\ tmp' \in Seq(Bounded)
      BY <2>0, <2>8 DEF RenameLog
    <3>3. cut' \subseteq 1..boots
      BY <2>0, <2>8 DEF RenameLog, FileTypes, Runs
    <3> QED
      <4>1. /\ boots' = boots /\ sent' = sent /\ crashes' = crashes /\ UNCHANGED <<threads, logged>>
            /\ index' = index /\ logFile' = logFile + 1 /\ indexFile' = indexFile /\ lock' = lock
        BY <2>8 DEF RenameLog, CtlDoes
      <4>2. FileTypes'
        BY <2>0, <2>2, <3>2, <3>3, <4>1 DEF FileTypes
      <4> QED
        BY <2>1, <3>1, <4>1, <4>2 DEF FileTypes
  <2>9. CASE Repair(c)
    <3>0. Idle \in Runs
      BY DEF Idle, Runs
    <3>1. [Idle EXCEPT !.at = "parse"] \in Runs
      BY <3>0 DEF Runs
    <3>2. /\ ctl' \in [Ctls -> Runs] /\ \A b \in Ctls \ {c} : ctl'[b] = ctl[b]
          /\ ctl'[c].at \in {"lock", "copy"} => ctl'[c].pos # 0
      BY <2>0, <2>9, <3>1 DEF Repair, Idle
    <3> QED
      BY <2>0, <2>1, <2>2, <2>9, <3>2 DEF Repair, Requested, CtlDoes, files, threads, FileTypes
  <2>10. CASE ParseLog(c)
    <3>1. Parsed.entries \in Seq(BoundedEntries)
      BY <2>0, EntriesAreBounded DEF Parsed, EntriesOf, ReadingOf
    <3>2. /\ ctl' \in [Ctls -> Runs] /\ \A b \in Ctls \ {c} : ctl'[b] = ctl[b]
          /\ ctl'[c].at \in {"lock", "copy"} => ctl'[c].pos # 0
      BY <2>0, <2>10, <3>1 DEF ParseLog, Runs
    <3> QED
      BY <2>0, <2>1, <2>2, <2>10, <3>2 DEF ParseLog, CtlDoes, files, threads, FileTypes
  <2>11. CASE CreateIndex(c)
    <3>1. /\ ctl' \in [Ctls -> Runs] /\ \A b \in Ctls \ {c} : ctl'[b] = ctl[b]
          /\ ctl'[c].at \in {"lock", "copy"} => ctl'[c].pos # 0
      BY <2>0, <2>11 DEF CreateIndex, Runs
    <3>2. index' \in Seq(BoundedEntries)
      BY <2>11 DEF CreateIndex
    <3> QED
      BY <2>0, <2>1, <2>2, <2>11, <3>1, <3>2, SMTT(20) DEF CreateIndex, CtlDoes, files, threads, FileTypes
  <2>16. CASE OpenIndex(c)
    <3>1. /\ ctl' \in [Ctls -> Runs] /\ \A b \in Ctls \ {c} : ctl'[b] = ctl[b]
          /\ ctl'[c].at \in {"lock", "copy"} => ctl'[c].pos # 0
      <4>1. [ctl[c] EXCEPT !.at = "write", !.file = indexFile] \in Runs
        BY <2>0 DEF Runs, FileTypes
      <4> QED
        BY <2>0, <2>16, <4>1 DEF OpenIndex, Runs
    <3> QED
      BY <2>0, <2>1, <2>2, <2>16, <3>1 DEF OpenIndex, CtlDoes, files, threads, FileTypes
  <2>12. CASE WriteIndex(c)
    <3> DEFINE d == [ctl[c] EXCEPT !.entries = Tail(ctl[c].entries),
                                   !.at = IF Len(ctl[c].entries) = 1 THEN "end" ELSE "write"]
    <3>0. ctl[c].entries \in Seq(BoundedEntries) /\ ctl[c].entries # <<>>
      BY <2>0, <2>12 DEF WriteIndex, Runs
    <3>1. /\ Head(ctl[c].entries) \in BoundedEntries
          /\ Tail(ctl[c].entries) \in Seq(BoundedEntries)
      BY <3>0
    <3>2. d \in Runs /\ d.at \notin {"lock", "copy"}
      BY <2>0, <3>1 DEF Runs
    <3> HIDE DEF d
    <3>3. ctl' = [ctl EXCEPT ![c] = d]
      BY <2>0, <2>12 DEF WriteIndex, d
    <3>4. /\ ctl' \in [Ctls -> Runs] /\ \A b \in Ctls \ {c} : ctl'[b] = ctl[b]
          /\ ctl'[c].at \in {"lock", "copy"} => ctl'[c].pos # 0
      BY <2>0, <3>2, <3>3
    <3>5. index' \in Seq(BoundedEntries)
      BY <2>0, <2>12, <3>1 DEF WriteIndex
    <3> QED
      BY <2>0, <2>1, <2>2, <2>12, <3>4, <3>5 DEF WriteIndex, CtlDoes, files, threads, FileTypes
  <2>13. Idle \in Runs
    BY DEF Idle, Runs
  <2>14. CASE CtlEnds(c)
    <3>1. /\ ctl' \in [Ctls -> Runs] /\ \A b \in Ctls \ {c} : ctl'[b] = ctl[b]
          /\ ctl'[c].at \in {"lock", "copy"} => ctl'[c].pos # 0
      BY <2>0, <2>13, <2>14 DEF CtlEnds, Idle
    <3> QED
      BY <2>0, <2>1, <2>2, <2>3, <2>14, <3>1 DEF CtlEnds, CtlDoes, files, threads, FileTypes
  <2>15. CASE CtlCrashes(c)
    <3>1. /\ ctl' \in [Ctls -> Runs] /\ \A b \in Ctls \ {c} : ctl'[b] = ctl[b]
          /\ ctl'[c].at \in {"lock", "copy"} => ctl'[c].pos # 0
      BY <2>0, <2>13, <2>15 DEF CtlCrashes, Idle
    <3> QED
      BY <2>0, <2>1, <2>2, <2>3, <2>15, <3>1 DEF CtlCrashes, files, threads, FileTypes
  <2> QED
    BY <1>16, <2>4, <2>5, <2>6, <2>7, <2>8, <2>9, <2>10, <2>11, <2>12, <2>14, <2>15, <2>16 DEF Unitlogctl
<1>17. CASE UNCHANGED vars
  BY <1>3, <1>17 DEF vars, FileTypes, ThreadTypes
<1> QED
  BY <1>1, <1>4, <1>5, <1>6, <1>8, <1>9, <1>10, <1>11, <1>12, <1>13, <1>14, <1>15, <1>16, <1>17, <1>18 DEF Next
-----------------------------------------------------------------------------
(* The invariant holds at the beginning.                                   *)
LEMMA Initially ==
  ASSUME Init
  PROVE  IInv
<1> USE LogAssumption DEF Init
<1>1. FileTypes
  <2>1. log \in Seq(Bounded) /\ tmp \in Seq(Bounded) /\ index \in Seq(BoundedEntries)
    OBVIOUS
  <2>2. 0 \in 0..MaxBoots /\ 0 \in 0..MaxMessages
    BY DEF Init
  <2>3. /\ logFile \in Nat \ {0} /\ indexFile \in Nat \ {0} /\ opened \in Nat
        /\ lock \in Ctls \cup {"none", "daemon"} /\ crashes \in Nat
    OBVIOUS
  <2>6. disturbed \in BOOLEAN /\ interrupted \in BOOLEAN
    OBVIOUS
  <2>4. logged \subseteq Bounded /\ cut \subseteq 1..boots
    OBVIOUS
  <2>5. boots \in 0..MaxBoots /\ sent \in 0..MaxMessages
    BY <2>2
  <2> QED
    BY <2>1, <2>3, <2>4, <2>5, <2>6 DEF FileTypes
<1>2. ThreadTypes
  <2>1. Idle \in Runs
    BY DEF Idle, Runs
  <2>2. Started(0) \in Lines
    BY DEF Started, Lines, Printed
  <2>3. ctl \in [Ctls -> Runs] /\ \A c \in Ctls : ctl[c].at = "idle"
    BY <2>1 DEF Idle
  <2> QED
    BY <2>2, <2>3, TextsAre DEF ThreadTypes, Down, Listening
<1>3. Running
  BY DEF Running, Unfinished, Down
<1>4. \A c \in Ctls : ctl[c].at = "idle"
  BY DEF Idle
<1>5. Guarded
  BY <1>4 DEF Guarded, Unguarded, Busy, Writing, Appending, Down, Listening
<1>6. Renaming = {} /\ Text = <<>>
  BY <1>4 DEF Renaming, Text
<1>7. Logged
  BY <1>6, EmptyIsTidy DEF Logged, Down
<1>8. DaemonIndex /\ CtlIndex
  BY <1>4, EmptyIsTidy DEF DaemonIndex, CtlIndex, Writing, Down, Indexed
<1>9. Cutting
  BY <1>4 DEF Cutting
<1> QED
  BY <1>1, <1>2, <1>3, <1>5, <1>7, <1>8, <1>9 DEF IInv, Ordered
-----------------------------------------------------------------------------
(* Lines and entries that do not finish the boot b.                        *)
LEMMA NoFinishAppend ==
  ASSUME NEW S, NEW s \in Seq(S), NEW b, NoFinish(s, b), NEW line \in S,
         line.kind = "finish" => line.boot # b
  PROVE  NoFinish(Append(s, line), b)
<1>1. DOMAIN Append(s, line) = 1..(Len(s) + 1) /\ DOMAIN s = 1..Len(s) /\ Len(s) \in Nat
  OBVIOUS
<1>2. \A n \in DOMAIN s : Append(s, line)[n] = s[n]
  OBVIOUS
<1>3. Append(s, line)[Len(s) + 1] = line
  OBVIOUS
<1>4. \A n \in 1..(Len(s) + 1) : n \in DOMAIN s \/ n = Len(s) + 1
  BY <1>1
<1> QED
  BY <1>1, <1>2, <1>3, <1>4 DEF NoFinish

LEMMA NoFinishEntries ==
  ASSUME FileTypes, ThreadTypes, NEW s \in Seq(Bounded), NEW b, NoFinish(s, b)
  PROVE  NoFinish(EntriesOf(s), b)
BY EntriesAreBounded DEF NoFinish, Entry

LEMMA NoFinishNext ==
  ASSUME NEW S, NEW s \in Seq(S), s # <<>>, NEW b, NoFinish(s, b)
  PROVE  /\ Head(s) \in S /\ (Head(s).kind = "finish" => Head(s).boot # b)
         /\ NoFinish(Tail(s), b)
<1>1. /\ 1 \in DOMAIN s /\ Head(s) = s[1] /\ s[1] \in S
      /\ \A n \in DOMAIN Tail(s) : n + 1 \in DOMAIN s /\ Tail(s)[n] = s[n + 1]
  OBVIOUS
<1> QED
  BY <1>1 DEF NoFinish
-----------------------------------------------------------------------------
(* No step finishes or cuts the boot that is running.                      *)
LEMMA RunningStep ==
  ASSUME FileTypes, ThreadTypes, Running, [Next]_vars
  PROVE  Running'
<1>0. /\ log \in Seq(Bounded) /\ tmp \in Seq(Bounded) /\ index \in Seq(BoundedEntries)
      /\ boots \in Nat /\ cut \subseteq 1..boots /\ ctl \in [Ctls -> Runs]
  BY LogAssumption DEF FileTypes, ThreadTypes
<1>a. \A b : NoFinish(<<>>, b)
  BY DEF NoFinish
<1>1. CASE DaemonStarts
  <2>1. boots' = boots + 1 /\ UNCHANGED <<files, ctl, cut>>
    BY <1>1 DEF DaemonStarts
  <2>2. \A s \in Seq(Bounded) : NoFinish(s, boots')
    <3> SUFFICES ASSUME NEW s \in Seq(Bounded), NEW n \in DOMAIN s PROVE s[n].boot # boots'
      BY DEF NoFinish
    <3>1. s[n] \in Bounded
      OBVIOUS
    <3>2. s[n].boot \in 1..boots
      BY <3>1 DEF Bounded
    <3> QED
      BY <1>0, <2>1, <3>2
  <2>3. \A s \in Seq(BoundedEntries) : NoFinish(s, boots')
    <3> SUFFICES ASSUME NEW s \in Seq(BoundedEntries), NEW n \in DOMAIN s PROVE s[n].boot # boots'
      BY DEF NoFinish
    <3>1. s[n] \in BoundedEntries
      OBVIOUS
    <3>2. s[n].boot \in 1..boots
      BY <3>1 DEF BoundedEntries
    <3> QED
      BY <1>0, <2>1, <3>2
  <2>4. boots' \notin 1..boots
    BY <1>0, <2>1
  <2>5. \A c \in Ctls : ctl[c].cuts \subseteq 1..boots /\ ctl[c].entries \in Seq(BoundedEntries)
    BY <1>0 DEF Runs
  <2> QED
    BY <1>0, <2>1, <2>2, <2>3, <2>4, <2>5 DEF Running, files
<1>2. ASSUME daemon'.at = "down" \/ (daemon'.job = Finished(boots) /\ boots' = boots) PROVE Running'
  BY <1>2 DEF Running, Unfinished, Finished
<1>3. CASE DaemonStops
  BY <1>2, <1>3 DEF DaemonStops, Writes, counts
<1>4. CASE DaemonCrashes \/ AssertionFails
  BY <1>2, <1>4 DEF DaemonCrashes, AssertionFails, Gone, Down
<1>5. CASE WriteIndexEntry
  <2>1. daemon'.job = daemon.job /\ daemon.at # "down" /\ UNCHANGED <<log, tmp, ctl, boots, cut>>
    BY <1>5 DEF WriteIndexEntry, counts, ThreadTypes
  <2> SUFFICES ASSUME Unfinished
               PROVE  NoFinish(index', boots)
    BY <2>1 DEF Running, Unfinished, Finished
  <2>2. daemon.job.kind = "finish" => daemon.job.boot # boots
    BY <2>1 DEF Unfinished, Finished, ThreadTypes, Lines
  <2> DEFINE e == Entry(daemon.job, daemon.offset)
  <2>3. e \in BoundedEntries /\ (e.kind = "finish" => e.boot # boots)
    BY <2>1, <2>2 DEF Entry, BoundedEntries, ThreadTypes
  <2> HIDE DEF e
  <2>4. index' = Append(index, e) \/ index' = index
    BY <1>5 DEF WriteIndexEntry, e
  <2>5. NoFinish(index, boots)
    BY DEF Running
  <2> QED
    BY <1>0, <2>3, <2>4, <2>5, NoFinishAppend
<1>6. CASE WriteLogEntry
  <2>1. daemon.at # "down" /\ UNCHANGED <<index, tmp, ctl, boots, cut>>
    BY <1>6 DEF WriteLogEntry, counts
  <2>2. CASE daemon.job.kind = "finish" /\ daemon.job.boot = boots
    <3>1. daemon'.at = "down"
      BY <1>6, <2>2 DEF WriteLogEntry, Down
    <3> QED
      BY <1>2, <3>1
  <2>3. CASE ~(daemon.job.kind = "finish" /\ daemon.job.boot = boots)
    <3>1. Unfinished
      BY <2>1, <2>3 DEF Unfinished, Finished
    <3>2. daemon.job \in Bounded
      BY <2>1, <1>0, TextsAre DEF ThreadTypes, Bounded, FileTypes, Lines
    <3>3. log' = Append(log, daemon.job) \/ log' = log
      BY <1>6 DEF WriteLogEntry, LogWith
    <3>4. NoFinish(log, boots)
      BY <3>1 DEF Running
    <3>5. NoFinish(log', boots)
      <4>1. NoFinish(Append(log, daemon.job), boots)
        BY <1>0, <2>3, <3>2, <3>4, NoFinishAppend
      <4> QED
        BY <3>3, <3>4, <4>1
    <3> QED
      BY <2>1, <3>1, <3>5 DEF Running
  <2> QED
    BY <2>2, <2>3
<1>7. ASSUME UNCHANGED <<daemon, boots>>, \A c \in Ctls : Unfinished =>
                    /\ boots \notin ctl'[c].cuts /\ NoFinish(ctl'[c].entries, boots),
             Unfinished => /\ NoFinish(log', boots) /\ NoFinish(tmp', boots) /\ NoFinish(index', boots)
                           /\ boots \notin cut'
      PROVE  Running'
  BY <1>7 DEF Running, Unfinished, Finished
<1>8. CASE UnixWrite \/ KernelWrites
  <2>1. UNCHANGED <<daemon, boots, index, tmp, ctl, cut>>
    BY <1>8 DEF UnixWrite, KernelWrites, counts
  <2>2. PICK line \in Bounded : line.kind # "finish" /\ (log' = Append(log, line) \/ log' = log)
    <3>1. CASE UnixWrite
      <4>1. daemon.at = "run" /\ unix.id \in 0..sent
        BY <3>1 DEF UnixWrite, ThreadTypes
      <4>2. boots \in 1..boots
        BY <4>1, <1>0 DEF ThreadTypes
      <4>3. /\ Message(boots, unix.id, unix.text) \in Bounded
            /\ Message(boots, unix.id, unix.text).kind # "finish"
        BY <4>1, <4>2 DEF Message, Bounded, ThreadTypes
      <4> QED
        BY <3>1, <4>3, RewrittenIs DEF UnixWrite, LogLine
    <3>2. CASE KernelWrites
      <4>1. daemon.at = "run" /\ 0 \in 0..sent
        BY <3>2, LogAssumption DEF KernelWrites, ThreadTypes, FileTypes
      <4>2. boots \in 1..boots
        BY <4>1, <1>0 DEF ThreadTypes
      <4>3. KernelLine(boots) \in Bounded /\ KernelLine(boots).kind # "finish"
        BY <4>1, <4>2, TextsAre DEF KernelLine, Bounded
      <4> QED
        BY <3>2, <4>3, RewrittenIs DEF KernelWrites, LogLine
    <3> QED
      BY <1>8, <3>1, <3>2
  <2>3. Unfinished => NoFinish(log', boots)
    <3>1. Unfinished => NoFinish(log, boots)
      BY DEF Running
    <3>2. Unfinished => NoFinish(Append(log, line), boots)
      BY <1>0, <2>2, <3>1, NoFinishAppend
    <3> QED
      BY <2>2, <3>1, <3>2
  <2> QED
    BY <1>7, <2>1, <2>3 DEF Running
<1>9. CASE \/ UnixLock \/ UnixCloses \/ UnixUnlock
          \/ KernelBegins \/ KernelCloses \/ KernelEnds \/ UNCHANGED vars
  <2>1. UNCHANGED <<daemon, boots, files, ctl, cut>>
    BY <1>9 DEF UnixLock, UnixCloses, UnixUnlock, KernelBegins, KernelCloses, KernelEnds, vars, counts, files
  <2> QED
    BY <1>7, <2>1 DEF Running, files
<1>10. ASSUME NEW c \in Ctls, Unitlogctl(c) PROVE Running'
  <2>0. UNCHANGED <<daemon, boots>>
    BY <1>10 DEF Unitlogctl, Vacuum, CtlLock, CopyLine, RemoveLog, RenameLog, Repair, ParseLog, CreateIndex,
      OpenIndex, WriteIndex, CtlEnds, CtlCrashes, CtlDoes, threads
  <2> SUFFICES ASSUME Unfinished
               PROVE  /\ NoFinish(log', boots) /\ NoFinish(tmp', boots) /\ NoFinish(index', boots)
                      /\ \A d \in Ctls : boots \notin ctl'[d].cuts /\ NoFinish(ctl'[d].entries, boots)
                      /\ boots \notin cut'
    BY <1>7, <2>0
  <2>1. /\ NoFinish(log, boots) /\ NoFinish(tmp, boots) /\ NoFinish(index, boots)
        /\ \A d \in Ctls : boots \notin ctl[d].cuts /\ NoFinish(ctl[d].entries, boots)
        /\ boots \notin cut
    BY DEF Running
  <2>a. ctl[c] \in Runs /\ ctl[c].entries \in Seq(BoundedEntries) /\ ctl[c].pos \in Nat
    BY <1>0 DEF Runs
  <2>b. Idle.cuts = {} /\ Idle.entries = <<>>
    BY DEF Idle
  <2>2. ASSUME NEW first \in 0..MaxBoots, NEW last \in 0..MaxBoots, Vacuum(c, first, last)
        PROVE  \A d \in Ctls : boots \notin ctl'[d].cuts /\ NoFinish(ctl'[d].entries, boots)
    <3>1. WellFormed /\ last < MaxIdx /\ first \in Nat /\ last \in Nat
      BY <2>2, LogAssumption DEF Vacuum
    <3>2. index \in Seq(AnyEntry)
      BY LinesAre
    <3>3. ASSUME NEW i \in first..last PROVE index[2 * i + 1].boot # boots
      <4>1. 2 * last + 2 < Len(index) /\ Len(index) \in Nat /\ DOMAIN index = 1..Len(index)
        BY <3>1, <3>2, MaxIdxRange
      <4>2. 2 * i + 2 \in DOMAIN index /\ (2 * i + 2) % 2 # 1 /\ (2 * i + 2) - 1 = 2 * i + 1
        BY <3>1, <4>1
      <4>3. index[2 * i + 2].kind = "finish" /\ index[2 * i + 2].boot = index[2 * i + 1].boot
        BY <3>1, <4>2 DEF WellFormed
      <4> QED
        BY <2>1, <4>2, <4>3 DEF NoFinish
    <3>4. \A d \in Ctls \ {c} : ctl'[d] = ctl[d]
      BY <2>2, <1>0 DEF Vacuum
    <3>5. ctl'[c].entries = <<>> /\ ctl'[c].cuts = {index[2 * i + 1].boot : i \in first..last}
      <4> DEFINE d == [at |-> "lock", from |-> index[2 * first + 1].offset,
                       to |-> index[2 * last + 2].offset, pos |-> 1, entries |-> <<>>,
                       file |-> 0, cuts |-> {index[2 * i + 1].boot : i \in first..last}]
      <4>1. d.entries = <<>> /\ d.cuts = {index[2 * i + 1].boot : i \in first..last}
        OBVIOUS
      <4> HIDE DEF d
      <4>2. ctl' = [ctl EXCEPT ![c] = d]
        BY <2>2 DEF Vacuum, d
      <4> QED
        BY <1>0, <4>1, <4>2
    <3>6. boots \notin ctl'[c].cuts /\ NoFinish(ctl'[c].entries, boots)
      BY <1>a, <3>3, <3>5
    <3> QED
      BY <2>1, <3>4, <3>6
  <2>3. CASE \E first, last \in 0..MaxBoots : Vacuum(c, first, last)
    BY <2>1, <2>2, <2>3 DEF Vacuum, files
  <2>4. CASE CtlLock(c)
    BY <2>1, <2>4, <1>0 DEF CtlLock, files
  <2>5. CASE CopyLine(c)
    <3>1. NoFinish(tmp', boots)
      <4>1. ctl[c].pos \in DOMAIN log
        <5>1. ctl[c].pos # 0 /\ ctl[c].pos <= Len(log)
          BY <2>5 DEF CopyLine, ThreadTypes
        <5> QED
          BY <1>0, <2>a, <5>1
      <4>2. log[ctl[c].pos] \in Bounded /\ (log[ctl[c].pos].kind = "finish" => log[ctl[c].pos].boot # boots)
        BY <1>0, <2>1, <4>1 DEF NoFinish
      <4>3. tmp' = Append(tmp, Rewritten(log[ctl[c].pos])) \/ tmp' = tmp
        BY <2>5 DEF CopyLine
      <4>4. NoFinish(Append(tmp, Rewritten(log[ctl[c].pos])), boots)
        BY <1>0, <2>1, <4>2, RewrittenIs, NoFinishAppend
      <4> QED
        BY <2>1, <4>3, <4>4
    <3>2. \A d \in Ctls : ctl'[d].cuts = ctl[d].cuts /\ ctl'[d].entries = ctl[d].entries
      BY <1>0, <2>a, <2>5 DEF CopyLine, Runs
    <3> QED
      BY <2>1, <2>5, <3>1, <3>2 DEF CopyLine
  <2>6. CASE RemoveLog(c)
    BY <1>a, <2>1, <2>6, <1>0 DEF RemoveLog
  <2>7. CASE RenameLog(c)
    BY <1>a, <2>1, <2>7, <1>0 DEF RenameLog
  <2>8. CASE Repair(c)
    BY <1>a, <2>1, <2>8, <1>0, <2>b DEF Repair, files
  <2>9. CASE ParseLog(c)
    <3>1. NoFinish(Parsed.entries, boots)
      BY <1>0, <2>1, NoFinishEntries DEF Parsed, EntriesOf, ReadingOf
    <3>2. /\ \A d \in Ctls \ {c} : ctl'[d] = ctl[d]
          /\ ctl'[c].cuts = ctl[c].cuts /\ ctl'[c].entries = Parsed.entries
      BY <1>0, <2>9, <2>a DEF ParseLog, Runs
    <3> QED
      BY <2>1, <2>9, <3>1, <3>2 DEF ParseLog, files
  <2>10. CASE CreateIndex(c)
    BY <1>a, <2>1, <2>10, <1>0 DEF CreateIndex
  <2>11. CASE WriteIndex(c)
    <3>1. /\ Head(ctl[c].entries) \in BoundedEntries
          /\ Head(ctl[c].entries).kind = "finish" => Head(ctl[c].entries).boot # boots
          /\ NoFinish(Tail(ctl[c].entries), boots)
      BY <2>1, <2>11, <2>a, NoFinishNext DEF WriteIndex
    <3>2. NoFinish(Append(index, Head(ctl[c].entries)), boots)
      BY <1>0, <2>1, <3>1, NoFinishAppend
    <3>3. NoFinish(index', boots)
      BY <2>1, <2>11, <3>2 DEF WriteIndex
    <3>4. /\ \A d \in Ctls \ {c} : ctl'[d] = ctl[d]
          /\ ctl'[c].cuts = ctl[c].cuts /\ ctl'[c].entries = Tail(ctl[c].entries)
      BY <1>0, <2>11, <2>a DEF WriteIndex, Runs
    <3> QED
      BY <2>1, <2>11, <3>1, <3>3, <3>4 DEF WriteIndex
  <2>14. CASE OpenIndex(c)
    BY <2>1, <2>14, <1>0 DEF OpenIndex, files
  <2>12. CASE CtlEnds(c)
    BY <1>a, <2>1, <2>12, <1>0, <2>b DEF CtlEnds, files
  <2>13. CASE CtlCrashes(c)
    BY <1>a, <2>1, <2>13, <1>0, <2>b DEF CtlCrashes, files
  <2> QED
    BY <1>10, <2>3, <2>4, <2>5, <2>6, <2>7, <2>8, <2>9, <2>10, <2>11, <2>12, <2>13, <2>14 DEF Unitlogctl
<1> QED
  BY <1>1, <1>3, <1>4, <1>5, <1>6, <1>8, <1>9, <1>10 DEF Next
-----------------------------------------------------------------------------
(* What the proofs of the steps need of the types.                         *)
LEMMA Numbers ==
  ASSUME Clear, FileTypes, ThreadTypes
  PROVE  /\ log \in Seq(AnyLine) /\ tmp \in Seq(AnyLine) /\ index \in Seq(AnyEntry)
         /\ Len(log) \in Nat /\ DOMAIN log = 1..Len(log) /\ Len(index) \in Nat
         /\ boots \in Nat /\ sent \in Nat /\ crashes \in Nat /\ logFile # 0
         /\ ctl \in [Ctls -> Runs]
         /\ \A n \in DOMAIN log : log[n] \in AnyLine /\ log[n].boot \in 1..boots /\ log[n].id \in 0..sent
<1>1. log \in Seq(AnyLine) /\ tmp \in Seq(AnyLine) /\ index \in Seq(AnyEntry)
  BY LinesAre
<1>2. \A n \in DOMAIN log : log[n] \in AnyLine /\ log[n] \in Bounded
  BY <1>1 DEF FileTypes
<1>3. \A n \in DOMAIN log : log[n].boot \in 1..boots /\ log[n].id \in 0..sent
  BY <1>2 DEF Bounded
<1>4. Len(log) \in Nat /\ DOMAIN log = 1..Len(log) /\ Len(index) \in Nat
  BY <1>1
<1> QED
  BY <1>1, <1>2, <1>3, <1>4, LogAssumption, SMTT(20) DEF FileTypes, ThreadTypes

(* An index that the integrity check passes is not behind the log.         *)
LEMMA CheckedIsIndexed ==
  ASSUME Clear, FileTypes, ThreadTypes, Indexed, IntegrityCheck
  PROVE  index = EntriesOf(log)
<1>0. /\ index \in Seq(AnyEntry) /\ DOMAIN index = 1..Len(index) /\ Len(index) \in Nat /\ Len(log) \in Nat
      /\ log \in Seq(AnyLine)
  BY Numbers
<1>1. \A i \in DOMAIN index : index[i].offset \in Nat /\ index[i].offset < Len(log)
  <2>1. \A i \in DOMAIN index : index[i] \in AnyEntry
    BY <1>0
  <2> QED
    BY <2>1 DEF IntegrityCheck, MatchLogLine, AnyEntry
<1>2. CASE log = <<>>
  <2>1. DOMAIN index = {}
    BY <1>0, <1>1, <1>2
  <2>2. index = <<>>
    BY <1>0, <2>1
  <2> QED
    BY <1>2, <2>2, EmptyIsTidy
<1>3. ASSUME Ahead PROVE FALSE
  <2>1. PICK line \in Lines : index = Append(EntriesOf(log), Entry(line, Len(log)))
    BY <1>3 DEF Ahead
  <2>2. EntriesOf(log) \in Seq(AnyEntry)
    BY <1>0, EntriesAreBounded, LinesAre, SeqMono DEF FileTypes
  <2>3. Len(index) \in DOMAIN index /\ index[Len(index)] = Entry(line, Len(log))
    BY <2>1, <2>2
  <2> QED
    BY <1>0, <1>1, <2>3 DEF Entry
<1> QED
  BY <1>2, <1>3 DEF Indexed

(* The last of the entries of a tidy log tells whether the log is open.    *)
LEMMA LastEntry ==
  ASSUME NEW s \in Seq(AnyLine), Tidy(s)
  PROVE  /\ Len(EntriesOf(s)) % 2 = 1 <=> IsOpen(s)
         /\ s # <<>> => EntriesOf(s) # <<>> /\ Last(EntriesOf(s)).boot = Last(s).boot
<1>1. Len(s) \in Nat /\ (s # <<>> <=> Len(s) > 0)
  OBVIOUS
<1>2. EntriesRight(EntriesOf(s), s, Len(s)) /\ EntriesOf(s) \in Seq(AnyEntry)
  BY TidyIsRead
<1>3. Len(EntriesOf(s)) % 2 = 1 <=> IsOpen(s)
  BY <1>1, <1>2 DEF EntriesRight, OpenAt, IsOpen, Last
<1> QED
  BY <1>1, <1>2, <1>3 DEF EntriesRight, Last

(* The last line of a log is of its greatest boot.                         *)
LEMMA LastBoot ==
  ASSUME NEW s \in Seq(AnyLine), Tidy(s), s # <<>>
  PROVE  /\ Len(s) \in DOMAIN s /\ Last(s) = s[Len(s)]
         /\ \A n \in DOMAIN s : s[n].boot <= Last(s).boot
<1>1. Len(s) \in DOMAIN s /\ Last(s) = s[Len(s)] /\ \A n \in DOMAIN s : n <= Len(s)
  BY DEF Last
<1> QED
  BY <1>1 DEF Tidy

(* When no run of unitlogctl is at work the log is the text.               *)
LEMMA AllIdle ==
  ASSUME Busy = {}
  PROVE  /\ \A c \in Ctls : ctl[c].at = "idle"
         /\ Renaming = {} /\ Text = log /\ Removed = cut
<1>1. \A c \in Ctls : ctl[c].at = "idle"
  BY DEF Busy
<1> QED
  BY <1>1 DEF Renaming, Text, Removed

(* What stays as it is when no line is written and no run takes a step.    *)
LEMMA SameIndexed ==
  ASSUME UNCHANGED <<log, index, boots>>, Crashed => Crashed'
  PROVE  Indexed => Indexed'
BY DEF Indexed, Ahead, Fits

(* A step that writes no line.                                             *)
LEMMA SameLogged ==
  ASSUME UNCHANGED <<log, tmp, ctl, cut, boots, logged>>, Logged,
         daemon'.at = "run" => daemon.at = "run", unix'.at = "write" => unix = unix'
  PROVE  Logged'
<1>1. Text' = Text /\ Removed' = Removed
  BY DEF Text, Removed, Renaming
<1> QED
  BY <1>1 DEF Logged

(* A step of the daemon that leaves the files as they are.                 *)
LEMMA SameCtls ==
  ASSUME UNCHANGED <<log, index, indexFile, tmp, ctl, boots>>, Crashed => Crashed', CtlIndex,
         Cutting
  PROVE  CtlIndex' /\ Cutting'
<1>1. CtlIndex'
  BY SameIndexed DEF CtlIndex
<1>2. \A c \in Ctls : CutOf(ctl[c]) => CutOf(ctl[c])'
  BY DEF CutOf
<1>3. \A c \in Ctls : Copied(ctl[c]) => Copied(ctl[c])'
  BY DEF Copied, Kept, Source, Gap
<1> QED
  BY <1>1, <1>2, <1>3 DEF Cutting
-----------------------------------------------------------------------------
(* The daemon opens a boot, or finishes the one a crash left open.         *)
LEMMA DaemonStartsStep ==
  ASSUME Clear, FileTypes, ThreadTypes, Ordered, DaemonStarts, ~Unguarded'
  PROVE  Ordered'
<1>1. /\ daemon.at = "down" /\ daemon'.at = "index" /\ boots' = boots + 1
      /\ UNCHANGED <<log, index, tmp, logFile, indexFile, lock, unix, kernel, opened, ctl, logged, cut>>
  BY DEF DaemonStarts, Writes, files
<1>2. Busy = {} /\ Busy' = {} /\ ~Writing /\ Indexed
  BY <1>1 DEF Unguarded, Writing, Busy, Ordered, DaemonIndex
<1>3. Guarded'
  BY <1>1 DEF Guarded, Ordered, Appending
<1>4. Logged'
  <2>1. Text' = Text /\ Removed' = Removed
    BY <1>1 DEF Text, Removed, Renaming
  <2> QED
    BY <1>1, <2>1 DEF Logged, Ordered
<1>5. CtlIndex' /\ Cutting'
  <2>1. \A c \in Ctls : ctl'[c].at = "idle"
    BY <1>1, <1>2, AllIdle
  <2> QED
    BY <2>1 DEF CtlIndex, Cutting
<1>6. index = EntriesOf(log)
  BY <1>2, CheckedIsIndexed DEF DaemonStarts
<1>7. Fits(log, daemon.job)'
  <2>1. Tidy(log)
    BY <1>2, AllIdle DEF Ordered, Logged
  <2>2. /\ Len(index) % 2 = 1 <=> IsOpen(log)
        /\ IsOpen(log) => Last(index).boot = Last(log).boot
    BY <1>6, <2>1, LastEntry, Numbers DEF IsOpen
  <2>3. daemon'.job = IF IsOpen(log) THEN Finished(Last(log).boot) ELSE Started(boots')
    BY <2>2 DEF DaemonStarts, Writes
  <2>4. \A n \in DOMAIN log : log[n].boot < boots'
    BY <1>1, Numbers
  <2> QED
    BY <1>1, <2>3, <2>4 DEF Fits
<1>8. DaemonIndex'
  BY <1>1, <1>6, <1>7 DEF DaemonIndex, Writing, DaemonStarts, Writes
<1> QED
  BY <1>3, <1>4, <1>5, <1>8 DEF Ordered

(* It writes the entry in the index.                                       *)
LEMMA WriteIndexEntryStep ==
  ASSUME Clear, FileTypes, ThreadTypes, Ordered, WriteIndexEntry, ~Unguarded'
  PROVE  Ordered'
<1>1. /\ daemon.at = "index" /\ daemon' = [daemon EXCEPT !.at = "log"]
      /\ UNCHANGED <<log, tmp, logFile, indexFile, lock, unix, kernel, opened, ctl, logged, cut, boots>>
  BY DEF WriteIndexEntry, counts
<1>2. /\ daemon'.at = "log" /\ daemon'.job = daemon.job /\ daemon'.offset = daemon.offset
      /\ daemon'.log = daemon.log /\ daemon'.index = daemon.index
  BY <1>1 DEF ThreadTypes
<1>3. Writing /\ Writing' /\ Busy = {} /\ Busy' = {}
  BY <1>1, <1>2 DEF Writing, Ordered, Guarded, Unguarded, Busy
<1>4. Guarded'
  BY <1>1 DEF Guarded, Ordered, Appending
<1>5. Logged'
  BY <1>1, <1>2, SameLogged DEF Ordered
<1>6. CtlIndex' /\ Cutting'
  <2>1. \A c \in Ctls : ctl'[c].at = "idle"
    BY <1>1, <1>3, AllIdle
  <2> QED
    BY <2>1 DEF CtlIndex, Cutting
<1>7. DaemonIndex'
  BY <1>1, <1>2, <1>3 DEF DaemonIndex, Ordered, WriteIndexEntry, Fits
<1> QED
  BY <1>4, <1>5, <1>6, <1>7 DEF Ordered
-----------------------------------------------------------------------------
(* A line is appended to the log, of the message that is written or of     *)
(* another kind.                                                           *)
LEMMA LoggedAppend ==
  ASSUME Clear, FileTypes, ThreadTypes, Logged, Renaming = {}, UNCHANGED <<ctl, cut, boots>>,
         NEW line \in AnyLine, line.boot \notin cut,
         \/ line.kind # "message" /\ UNCHANGED <<unix, logged>>
         \/ /\ line.kind = "message" /\ unix.at = "write" /\ line.id = unix.id
            /\ \E m : /\ logged' = logged \cup {m} /\ SameLine(line, m)
                      /\ m.text = "plain" => line.text = "plain"
            /\ unix'.at # "write",
         IF IsOpen(log) THEN line.boot = Last(log).boot /\ line.kind # "start"
         ELSE line.kind = "start" /\ \A n \in DOMAIN log : log[n].boot < line.boot,
         log' = Append(log, line),
         daemon'.at = "run" => line.kind # "finish" /\ line.boot = boots
  PROVE  Logged'
<1>0. log \in Seq(AnyLine) /\ Text = log /\ Text' = log' /\ Removed = cut /\ Removed' = cut /\ Len(log) \in Nat
  BY Numbers DEF Text, Removed, Renaming
<1>1. Tidy(log')
  BY <1>0, TidyAppend DEF Logged
<1>2. /\ DOMAIN log' = 1..(Len(log) + 1) /\ log'[Len(log) + 1] = line
      /\ \A n \in DOMAIN log : log'[n] = log[n]
      /\ log' # <<>> /\ Last(log') = line /\ DOMAIN log = 1..Len(log)
  BY <1>0 DEF Last
<1>3. \A n \in DOMAIN log' : n \in DOMAIN log \/ n = Len(log) + 1
  BY <1>0, <1>2
<1>4. daemon'.at = "run" => IsOpen(log') /\ Last(log').boot = boots
  BY <1>2 DEF IsOpen
<1>5. \A n \in DOMAIN log' :
        /\ log'[n].boot \notin Removed'
        /\ log'[n].kind = "message" /\ unix'.at = "write" => log'[n].id # unix'.id
  BY <1>0, <1>2, <1>3 DEF Logged
<1>6. ASSUME NEW m \in logged'
      PROVE  /\ m.kind = "message" /\ (unix'.at = "write" => m.id # unix'.id)
             /\ m.boot \notin Removed' => InLog(log', m)
  <2>1. CASE m \in logged
    <3>1. /\ m.kind = "message" /\ (unix'.at = "write" => m.id # unix'.id)
          /\ ~SameLine(line, m)
      BY <2>1 DEF Logged, SameLine
    <3> SUFFICES ASSUME m.boot \notin cut
                 PROVE  InLog(log', m)
      BY <1>0, <3>1
    <3>2. PICK n \in DOMAIN log : /\ SameLine(log[n], m) /\ (m.text = "plain" => log[n].text = "plain")
                                  /\ \A k \in DOMAIN log : SameLine(log[k], m) => k = n
      BY <1>0, <2>1 DEF Logged, InLog
    <3>3. n \in DOMAIN log' /\ log'[n] = log[n]
      BY <1>0, <1>2, <3>2
    <3>4. \A k \in DOMAIN log' : SameLine(log'[k], m) => k = n
      BY <1>2, <1>3, <3>1, <3>2
    <3> QED
      BY <3>2, <3>3, <3>4 DEF InLog
  <2>2. CASE m \notin logged
    <3>1. /\ SameLine(line, m) /\ (m.text = "plain" => line.text = "plain")
          /\ line.kind = "message" /\ unix.at = "write" /\ line.id = unix.id /\ unix'.at # "write"
      BY <1>6, <2>2
    <3>2. \A k \in DOMAIN log : ~SameLine(log[k], m)
      BY <1>0, <3>1 DEF Logged, SameLine
    <3>3. /\ Len(log) + 1 \in DOMAIN log'
          /\ \A k \in DOMAIN log' : SameLine(log'[k], m) => k = Len(log) + 1
      BY <1>0, <1>2, <1>3, <3>2
    <3> QED
      BY <1>2, <3>1, <3>3 DEF InLog, SameLine
  <2> QED
    BY <2>1, <2>2
<1> QED
  BY <1>0, <1>1, <1>4, <1>5, <1>6 DEF Logged

(* It writes the line in the log.                                          *)
LEMMA WriteLogEntryStep ==
  ASSUME Clear, FileTypes, ThreadTypes, Running, Ordered, WriteLogEntry, ~Unguarded'
  PROVE  Ordered'
<1> DEFINE job == daemon.job
<1>1. /\ daemon.at = "log"
      /\ UNCHANGED <<index, tmp, logFile, indexFile, lock, unix, opened, ctl, logged, cut, boots>>
  BY DEF WriteLogEntry, counts
<1>2. Writing /\ Busy = {} /\ Busy' = {} /\ Renaming = {} /\ Removed = cut /\ Text = log
  BY <1>1, AllIdle DEF Writing, Ordered, Guarded, Unguarded, Busy
<1>3. /\ log \in Seq(AnyLine) /\ Tidy(log) /\ Len(log) \in Nat /\ boots \in Nat
      /\ Fits(log, job) /\ index = Append(EntriesOf(log), Entry(job, Len(log)))
      /\ log' = Append(log, job)
  BY <1>1, <1>2, Numbers DEF Ordered, DaemonIndex, Logged, WriteLogEntry, LogWith
<1>4. /\ job \in AnyLine /\ job \in Lines /\ job.kind \in {"start", "finish"} /\ job.boot \in 1..boots
      /\ job.kind = "start" => job.boot = boots
  <2>1. /\ job \in Lines /\ job.kind \in {"start", "finish"} /\ job.boot \in 1..boots
        /\ job.text = "plain"
    BY <1>1 DEF ThreadTypes
  <2>2. job \in AnyLine
    BY <2>1, LogAssumption DEF Lines, AnyLine, Whole
  <2> QED
    BY <1>1, <2>1, <2>2 DEF ThreadTypes
<1>5. IF IsOpen(log) THEN job.kind = "finish" /\ job.boot = Last(log).boot
      ELSE job.kind = "start" /\ \A n \in DOMAIN log : log[n].boot < job.boot
  BY <1>3 DEF Fits, Finished, Started
<1>6. EntriesOf(log') = index
  BY <1>3, <1>4, <1>5, AppendEntries
<1>7. job.boot \notin cut
  <2>1. CASE IsOpen(log)
    <3>1. Len(log) \in DOMAIN log /\ log[Len(log)].boot = job.boot
      BY <1>3, <1>5, <2>1, LastBoot DEF IsOpen
    <3> QED
      BY <1>2, <3>1 DEF Ordered, Logged
  <2>2. CASE ~IsOpen(log)
    <3>1. job.kind = "start" /\ job.boot = boots
      BY <1>4, <1>5, <2>2
    <3>2. Unfinished
      BY <1>1, <3>1 DEF Unfinished, Finished
    <3> QED
      BY <3>1, <3>2 DEF Running
  <2> QED
    BY <2>1, <2>2
<1>a. CtlIndex' /\ Cutting'
  <2>1. \A c \in Ctls : ctl'[c].at = "idle"
    BY <1>1, <1>2, AllIdle
  <2> QED
    BY <2>1 DEF CtlIndex, Cutting
<1>8. CASE daemon.job.kind = "finish" /\ daemon.job.boot # boots
  <2>1. /\ daemon'.at = "index" /\ daemon'.job = Started(boots) /\ daemon'.offset = Len(log')
        /\ daemon'.log = logFile /\ daemon'.index = indexFile
        /\ UNCHANGED kernel
    BY <1>8 DEF WriteLogEntry
  <2>2. Logged'
    BY <1>1, <1>2, <1>3, <1>4, <1>5, <1>7, <2>1, LoggedAppend DEF Ordered
  <2>3. Fits(log, daemon.job)'
    <3>1. IsOpen(log) /\ job.boot < boots /\ log # <<>>
      BY <1>3, <1>4, <1>5, <1>8 DEF IsOpen
    <3>2. ~IsOpen(log')
      BY <1>3, <1>8 DEF IsOpen, Last
    <3>3. ASSUME NEW n \in DOMAIN log' PROVE log'[n].boot < boots
      <4>1. CASE n = Len(log) + 1
        BY <1>3, <3>1, <4>1
      <4>2. CASE n # Len(log) + 1
        <5>1. n \in DOMAIN log /\ log'[n] = log[n]
          BY <1>3, <4>2
        <5>2. log[n].boot <= job.boot /\ log[n].boot \in 1..boots
          BY <1>3, <1>5, <3>1, <5>1, LastBoot, Numbers
        <5> QED
          BY <1>3, <1>4, <3>1, <5>1, <5>2
      <4> QED
        BY <4>1, <4>2
    <3> QED
      BY <1>1, <2>1, <3>2, <3>3 DEF Fits
  <2>4. DaemonIndex'
    BY <1>1, <1>6, <2>1, <2>3 DEF DaemonIndex, Writing
  <2>5. Guarded'
    BY <1>1, <2>1 DEF Guarded, Ordered, Appending
  <2> QED
    BY <1>2, <2>2, <2>4, <2>5, <1>a DEF Ordered
<1>9. CASE ~(daemon.job.kind = "finish" /\ daemon.job.boot # boots)
  <2>1. \/ daemon'.at = "run" /\ job.kind = "start" /\ kernel' = "begin"
        \/ daemon'.at = "down" /\ job.kind = "finish" /\ kernel' = kernel
    BY <1>4, <1>9 DEF WriteLogEntry, Down, ThreadTypes
  <2>2. Logged'
    BY <1>1, <1>2, <1>3, <1>4, <1>5, <1>7, <2>1, LoggedAppend DEF Ordered
  <2>3. DaemonIndex'
    BY <1>1, <1>6, <2>1 DEF DaemonIndex, Writing, Indexed
  <2>4. Guarded'
    <3>1. kernel = "idle" /\ unix.at = "idle"
      BY <1>1 DEF ThreadTypes
    <3> QED
      BY <1>1, <2>1, <3>1 DEF Guarded, Ordered, Appending
  <2> QED
    BY <1>2, <2>2, <2>3, <2>4, <1>a DEF Ordered
<1> QED
  BY <1>8, <1>9
-----------------------------------------------------------------------------
(* It finishes its own boot.                                               *)
LEMMA DaemonStopsStep ==
  ASSUME Clear, FileTypes, ThreadTypes, Ordered, DaemonStops, ~Unguarded'
  PROVE  Ordered'
<1>1. /\ daemon.at = "run" /\ unix.at = "idle" /\ kernel \in {"idle", "begin"} /\ kernel' = "idle"
      /\ daemon'.at = "index" /\ daemon'.job = Finished(boots) /\ daemon'.offset = Len(log)
      /\ daemon'.log = logFile /\ daemon'.index = indexFile
      /\ UNCHANGED <<log, index, tmp, logFile, indexFile, lock, unix, opened, ctl, logged, cut, boots>>
  BY DEF DaemonStops, Writes, files, counts
<1>2. Busy = {} /\ Busy' = {} /\ ~Writing
  BY <1>1 DEF Unguarded, Writing, Busy
<1>3. index = EntriesOf(log)
  BY <1>1, <1>2 DEF Ordered, DaemonIndex, Indexed, Crashed
<1>4. Fits(log, Finished(boots))
  BY <1>1, <1>2, AllIdle DEF Ordered, Logged, Fits
<1>5. DaemonIndex'
  BY <1>1, <1>3, <1>4 DEF DaemonIndex, Writing, Fits
<1>6. Guarded'
  BY <1>1 DEF Guarded, Ordered, Appending
<1>7. Logged'
  BY <1>1, SameLogged DEF Ordered
<1>8. CtlIndex' /\ Cutting'
  <2>1. \A c \in Ctls : ctl'[c].at = "idle"
    BY <1>1, <1>2, AllIdle
  <2> QED
    BY <2>1 DEF CtlIndex, Cutting
<1> QED
  BY <1>5, <1>6, <1>7, <1>8 DEF Ordered

(* The assertions cannot fail: a thread that writes has the log open, and  *)
(* when it has closed the log nobody has opened it again.                  *)
LEMMA NoAssertionFails ==
  ASSUME FileTypes, ThreadTypes, Guarded
  PROVE  ~AssertionFails
BY DEF FileTypes, ThreadTypes, Guarded, Unguarded, AssertionFails, Appending

(* A crash leaves the index as it is, at most one entry ahead.             *)
LEMMA DaemonCrashesStep ==
  ASSUME Clear, FileTypes, ThreadTypes, Ordered, DaemonCrashes, ~Unguarded'
  PROVE  Ordered'
<1>1. /\ daemon.at # "down" /\ daemon'.at = "down" /\ unix'.at = "idle" /\ kernel' = "idle" /\ opened' = 0
      /\ lock' = (IF lock = "daemon" THEN "none" ELSE lock) /\ crashes' = crashes + 1
      /\ UNCHANGED <<log, index, tmp, logFile, indexFile, ctl, logged, cut, boots>>
  BY DEF DaemonCrashes, Gone, Down, Listening, files
<1>2. Crashed' /\ ~Crashed
  BY <1>1, Numbers DEF Crashed
<1>3. Guarded'
  BY <1>1, LogAssumption DEF Guarded, Ordered, Appending
<1>4. Logged'
  BY <1>1, SameLogged DEF Ordered
<1>5. CtlIndex' /\ Cutting'
  BY <1>1, <1>2, SameCtls DEF Ordered
<1>6. ASSUME Busy = {} PROVE Indexed'
  <2>1. CASE ~Writing
    BY <1>1, <1>2, <1>6, <2>1, SameIndexed DEF Ordered, DaemonIndex
  <2>2. CASE daemon.at = "index"
    BY <1>1, <2>2 DEF Ordered, DaemonIndex, Writing, Indexed
  <2>3. CASE daemon.at = "log"
    <3>1. /\ daemon.job \in Lines /\ Fits(log, daemon.job)
          /\ index = Append(EntriesOf(log), Entry(daemon.job, Len(log)))
      BY <2>3 DEF Ordered, DaemonIndex, Writing, ThreadTypes
    <3>3. \E line \in Lines : Fits(log, line)' /\ index' = Append(EntriesOf(log'), Entry(line, Len(log')))
      BY <1>1, <3>1 DEF Fits
    <3>4. Ahead'
      BY <3>3 DEF Ahead, Lines
    <3> QED
      BY <1>2, <3>4 DEF Indexed
  <2> QED
    BY <2>1, <2>2, <2>3 DEF Writing
<1>7. DaemonIndex'
  BY <1>1, <1>6 DEF DaemonIndex, Writing, Busy
<1> QED
  BY <1>3, <1>4, <1>5, <1>7 DEF Ordered
-----------------------------------------------------------------------------
(* Steps of the threads that write no line.                                *)
LEMMA SameDaemonIndex ==
  ASSUME UNCHANGED <<log, index, logFile, indexFile, daemon, ctl, boots, crashes>>, DaemonIndex
  PROVE  DaemonIndex'
BY DEF DaemonIndex, Writing, Busy, Indexed, Ahead, Crashed, Fits

(* The steps of the thread of /dev/log and of the kernel thread.           *)
LEMMA UnixLockStep ==
  ASSUME Clear, FileTypes, ThreadTypes, Ordered, UnixLock, ~Unguarded'
  PROVE  Ordered'
<1>1. /\ unix.at = "idle" /\ sent' = sent + 1 /\ lock = "none" /\ lock' = "daemon"
      /\ unix'.at = "write" /\ unix'.id = sent + 1
      /\ UNCHANGED <<log, index, tmp, logFile, indexFile, daemon, kernel, ctl, boots, crashes, logged, cut>>
  BY DEF UnixLock, Receive, files
<1>2. opened' = logFile
  BY <1>1 DEF UnixLock, Open, Ordered, Guarded
<1>3. Guarded'
  BY <1>1, <1>2, LogAssumption DEF Guarded, Ordered, Appending
<1>4. Logged'
  <2>1. Text' = Text /\ Removed' = Removed
    BY <1>1 DEF Text, Removed, Renaming
  <2>2. Text \in Seq(Bounded) /\ sent \in Nat
    BY Numbers DEF Text, FileTypes
  <2>3. \A n \in DOMAIN Text : Text[n].id # sent + 1
    <3>1. \A n \in DOMAIN Text : Text[n] \in Bounded
      BY <2>2
    <3>2. \A n \in DOMAIN Text : Text[n].id \in 0..sent
      BY <3>1 DEF Bounded
    <3> QED
      BY <2>2, <3>2
  <2>4. \A m \in logged : m.id # sent + 1
    <3>1. \A m \in logged : m.id \in 0..sent
      BY DEF FileTypes, Bounded
    <3> QED
      BY <2>2, <3>1
  <2> QED
    BY <1>1, <2>1, <2>3, <2>4 DEF Logged, Ordered
<1>5. CtlIndex' /\ Cutting'
  BY <1>1, SameCtls DEF Ordered, Crashed
<1>6. DaemonIndex'
  BY <1>1, SameDaemonIndex DEF Ordered
<1> QED
  BY <1>3, <1>4, <1>5, <1>6 DEF Ordered

LEMMA UnixClosesStep ==
  ASSUME Clear, FileTypes, ThreadTypes, Ordered, UnixCloses, ~Unguarded'
  PROVE  Ordered'
<1>1. /\ unix.at = "close" /\ unix'.at = "closed" /\ opened' = 0
      /\ UNCHANGED <<log, index, tmp, logFile, indexFile, lock, daemon, kernel, ctl, boots, crashes, logged, cut>>
  BY DEF UnixCloses, ThreadTypes, files, counts
<1>2. lock = "daemon" /\ ~Appending
  BY <1>1 DEF ThreadTypes, Ordered, Guarded, Unguarded
<1>3. Guarded'
  BY <1>1, <1>2, LogAssumption DEF Guarded, Ordered, Appending
<1>4. Logged'
  BY <1>1, SameLogged DEF Ordered
<1>5. CtlIndex' /\ Cutting'
  BY <1>1, SameCtls DEF Ordered, Crashed
<1>6. DaemonIndex'
  BY <1>1, SameDaemonIndex DEF Ordered
<1> QED
  BY <1>3, <1>4, <1>5, <1>6 DEF Ordered

LEMMA UnixUnlockStep ==
  ASSUME Clear, FileTypes, ThreadTypes, Ordered, UnixUnlock, ~Unguarded'
  PROVE  Ordered'
<1>1. /\ unix.at = "closed" /\ unix'.at = "idle" /\ opened = 0 /\ opened' = 0 /\ lock' = "none"
      /\ UNCHANGED <<log, index, tmp, logFile, indexFile, daemon, kernel, ctl, boots, crashes, logged, cut>>
  BY DEF UnixUnlock, Listening, files, counts
<1>2. lock = "daemon" /\ ~Appending
  BY <1>1 DEF ThreadTypes, Ordered, Guarded, Unguarded
<1>3. Guarded'
  BY <1>1, <1>2, LogAssumption DEF Guarded, Ordered, Appending
<1>4. Logged'
  BY <1>1, SameLogged DEF Ordered
<1>5. CtlIndex' /\ Cutting'
  BY <1>1, SameCtls DEF Ordered, Crashed
<1>6. DaemonIndex'
  BY <1>1, SameDaemonIndex DEF Ordered
<1> QED
  BY <1>3, <1>4, <1>5, <1>6 DEF Ordered

LEMMA KernelBeginsStep ==
  ASSUME Clear, FileTypes, ThreadTypes, Ordered, KernelBegins, ~Unguarded'
  PROVE  Ordered'
<1>1. /\ kernel = "begin"
      /\ \/ kernel' = "idle" /\ opened' = opened
         \/ kernel' = "write" /\ Open
      /\ UNCHANGED <<log, index, tmp, logFile, indexFile, lock, daemon, unix, ctl, boots, crashes, logged, cut>>
  BY DEF KernelBegins, files
<1>2. opened = IF unix.at \in {"write", "close"} THEN logFile ELSE 0
  BY <1>1 DEF Ordered, Guarded
<1>3. opened' = IF unix'.at \in {"write", "close"} \/ kernel' \in {"write", "close"}
                THEN logFile' ELSE 0
  BY <1>1, <1>2 DEF Open
<1>4. Guarded'
  BY <1>1, <1>3 DEF Guarded, Ordered
<1>5. Logged'
  BY <1>1, SameLogged DEF Ordered
<1>6. CtlIndex' /\ Cutting'
  BY <1>1, SameCtls DEF Ordered, Crashed
<1>7. DaemonIndex'
  BY <1>1, SameDaemonIndex DEF Ordered
<1> QED
  BY <1>4, <1>5, <1>6, <1>7 DEF Ordered

LEMMA KernelClosesStep ==
  ASSUME Clear, FileTypes, ThreadTypes, Ordered, KernelCloses, ~Unguarded'
  PROVE  Ordered'
<1>1. /\ kernel = "close" /\ kernel' = "closed" /\ opened' = 0
      /\ UNCHANGED <<log, index, tmp, logFile, indexFile, lock, daemon, unix, ctl, boots, crashes, logged, cut>>
  BY DEF KernelCloses, files, counts
<1>2. unix.at = "idle"
  BY <1>1 DEF Ordered, Guarded, Unguarded, Appending
<1>3. Guarded'
  BY <1>1, <1>2 DEF Guarded, Ordered, Appending
<1>4. Logged'
  BY <1>1, SameLogged DEF Ordered
<1>5. CtlIndex' /\ Cutting'
  BY <1>1, SameCtls DEF Ordered, Crashed
<1>6. DaemonIndex'
  BY <1>1, SameDaemonIndex DEF Ordered
<1> QED
  BY <1>3, <1>4, <1>5, <1>6 DEF Ordered

LEMMA KernelEndsStep ==
  ASSUME Clear, FileTypes, ThreadTypes, Ordered, KernelEnds, ~Unguarded'
  PROVE  Ordered'
<1>1. /\ kernel = "closed" /\ kernel' = "idle" /\ opened = 0 /\ opened' = 0
      /\ UNCHANGED <<log, index, tmp, logFile, indexFile, lock, daemon, unix, ctl, boots, crashes, logged, cut>>
  BY DEF KernelEnds, files, counts
<1>2. unix.at = "idle"
  BY <1>1 DEF Ordered, Guarded, Unguarded, Appending
<1>3. Guarded'
  BY <1>1, <1>2 DEF Guarded, Ordered, Appending
<1>4. Logged'
  BY <1>1, SameLogged DEF Ordered
<1>5. CtlIndex' /\ Cutting'
  BY <1>1, SameCtls DEF Ordered, Crashed
<1>6. DaemonIndex'
  BY <1>1, SameDaemonIndex DEF Ordered
<1> QED
  BY <1>3, <1>4, <1>5, <1>6 DEF Ordered
-----------------------------------------------------------------------------
(* A line of the running boot is appended, while no vacuum copies the log. *)
LEMMA LineStep ==
  ASSUME Clear, FileTypes, ThreadTypes, Running, Ordered,
         UNCHANGED <<index, tmp, logFile, indexFile, daemon, ctl, boots, crashes, cut>>,
         daemon.at = "run", \A c \in Ctls : ctl[c].at \notin {"copy", "rename"},
         NEW line \in AnyLine, line.boot = boots, line.kind \in {"message", "kernel"},
         \/ line.kind # "message" /\ UNCHANGED <<unix, logged>>
         \/ /\ line.kind = "message" /\ unix.at = "write" /\ line.id = unix.id
            /\ \E m : /\ logged' = logged \cup {m} /\ SameLine(line, m)
                      /\ m.text = "plain" => line.text = "plain"
            /\ unix'.at # "write",
         log' = Append(log, line)
  PROVE  Logged' /\ DaemonIndex' /\ CtlIndex' /\ Cutting'
<1>0. log \in Seq(AnyLine) /\ Len(log) \in Nat /\ Text = log /\ Renaming = {}
  BY Numbers DEF Text, Renaming
<1>1. Tidy(log) /\ IsOpen(log) /\ Last(log).boot = boots
  BY <1>0 DEF Ordered, Logged
<1>2. boots \notin cut /\ \A c \in Ctls : boots \notin ctl[c].cuts
  <2>1. Unfinished
    BY DEF Unfinished, Finished, ThreadTypes
  <2> QED
    BY <2>1 DEF Running
<1>3. Logged'
  BY <1>0, <1>1, <1>2, LoggedAppend DEF Ordered
<1>4. EntriesOf(log') = EntriesOf(log)
  BY <1>0, AppendEntries DEF Marks
<1>5. /\ DOMAIN log' = 1..(Len(log) + 1) /\ log'[Len(log) + 1] = line /\ Len(log') = Len(log) + 1
      /\ \A n \in DOMAIN log : log'[n] = log[n]
      /\ log' # <<>> /\ log # <<>> /\ DOMAIN log = 1..Len(log)
  BY <1>0, <1>1 DEF IsOpen
<1>6. ~Crashed /\ ~Writing /\ ~Writing'
  BY DEF Crashed, Writing
<1>7. Indexed => Indexed'
  BY <1>4, <1>6 DEF Indexed
<1>8. DaemonIndex'
  BY <1>6, <1>7 DEF Ordered, DaemonIndex, Busy
<1>9. CtlIndex'
  BY <1>4, <1>5, <1>7 DEF Ordered, CtlIndex
<1>10. ASSUME NEW c \in Ctls, ctl[c].at = "lock" PROVE CutOf(ctl[c])'
  <2> DEFINE d == ctl[c]
  <2>1. d \in Runs /\ d.from \in Nat /\ d.to \in Nat /\ ctl'[c] = d
    BY DEF ThreadTypes, Runs
  <2>2. CutOf(d)
    BY <1>5, <1>10 DEF Ordered, Cutting
  <2>3. CASE d.from > d.to
    BY <2>1, <2>2, <2>3 DEF CutOf
  <2>4. CASE ~(d.from > d.to)
    <3>1. /\ d.from + 1 \in DOMAIN log /\ d.to + 1 \in DOMAIN log /\ d.to + 1 # Len(log')
          /\ log[d.from + 1].kind = "start" /\ log[d.to + 1].kind = "finish"
          /\ \A n \in DOMAIN log : log[n].boot \in d.cuts <=> n \in (d.from + 1)..(d.to + 1)
      BY <1>0, <1>5, <2>1, <2>2, <2>4 DEF CutOf
    <3>2. \A n \in DOMAIN log' : log'[n].boot \in d.cuts <=> n \in (d.from + 1)..(d.to + 1)
      <4> TAKE n \in DOMAIN log'
      <4>1. CASE n \in DOMAIN log
        BY <1>5, <3>1, <4>1
      <4>2. CASE n \notin DOMAIN log
        <5>1. n = Len(log) + 1
          BY <1>0, <1>5, <4>2
        <5>2. log'[n].boot \notin d.cuts /\ n \notin (d.from + 1)..(d.to + 1)
          BY <1>0, <1>2, <1>5, <2>1, <3>1, <5>1
        <5> QED
          BY <5>2
      <4> QED
        BY <4>1, <4>2
    <3>3. d.from + 1 \in DOMAIN log' /\ d.to + 1 \in DOMAIN log'
      BY <1>0, <1>5, <3>1
    <3>4. log'[d.from + 1].kind = "start" /\ log'[d.to + 1].kind = "finish"
      BY <1>5, <3>1
    <3> QED
      BY <2>1, <2>4, <3>1, <3>2, <3>3, <3>4 DEF CutOf
  <2> QED
    BY <2>3, <2>4
<1>11. Cutting'
  BY <1>5, <1>10 DEF Ordered, Cutting
<1> QED
  BY <1>3, <1>8, <1>9, <1>11

LEMMA UnixWriteStep ==
  ASSUME Clear, FileTypes, ThreadTypes, Running, Ordered, UnixWrite, ~Unguarded'
  PROVE  Ordered'
<1>1. /\ unix.at = "write" /\ unix' = [unix EXCEPT !.at = "close"]
      /\ logged' = logged \cup {Message(boots, unix.id, unix.text)}
      /\ UNCHANGED <<index, tmp, logFile, indexFile, lock, daemon, kernel, opened, ctl, boots, crashes, cut>>
  BY DEF UnixWrite, counts
<1>2. daemon.at = "run" /\ lock = "daemon" /\ unix.id \in Nat /\ unix'.at = "close"
  <2>1. unix.id \in 0..sent /\ sent \in Nat
    BY Numbers DEF ThreadTypes
  <2> QED
    BY <1>1, <2>1 DEF ThreadTypes
<1>3. log' = Append(log, Rewritten(Message(boots, unix.id, unix.text)))
  BY <1>1 DEF UnixWrite, LogLine, Ordered, Guarded
<1>4. \A c \in Ctls : ctl[c].at \notin {"copy", "rename"}
  BY <1>2, LogAssumption DEF Ordered, Guarded
<1> DEFINE m == Message(boots, unix.id, unix.text)
           line == Rewritten(m)
<1>5. /\ line \in AnyLine /\ line.boot = boots /\ line.kind = "message" /\ line.id = unix.id
      /\ SameLine(line, m) /\ (m.text = "plain" => line.text = "plain")
  <2>1. m \in Bounded /\ m.boot = boots /\ m.kind = "message" /\ m.id = unix.id
    BY <1>1, <1>2 DEF Message, Bounded, ThreadTypes
  <2> HIDE DEF m
  <2> QED
    BY <2>1, RewrittenIs, LinesAre DEF SameLine
<1> HIDE DEF line, m
<1>6. Logged' /\ DaemonIndex' /\ CtlIndex' /\ Cutting'
  <2>1. log' = Append(log, line) /\ logged' = logged \cup {m}
    BY <1>1, <1>3 DEF line, m
  <2> QED
    BY <1>1, <1>2, <1>4, <1>5, <2>1, LineStep
<1>7. Guarded'
  BY <1>1, <1>2 DEF Guarded, Ordered, Appending
<1> QED
  BY <1>6, <1>7 DEF Ordered

LEMMA KernelWritesStep ==
  ASSUME Clear, FileTypes, ThreadTypes, Running, Ordered, KernelWrites, ~Unguarded'
  PROVE  Ordered'
<1>1. /\ kernel = "write" /\ kernel' = "close"
      /\ UNCHANGED <<index, tmp, logFile, indexFile, lock, daemon, unix, opened, ctl, boots, crashes,
                     logged, cut>>
  BY DEF KernelWrites, counts
<1>2. daemon.at = "run" /\ Busy = {} /\ Appending /\ Appending'
  BY <1>1 DEF ThreadTypes, Ordered, Guarded, Unguarded, Appending
<1>3. log' = Append(log, Rewritten(KernelLine(boots)))
  BY <1>1, <1>2 DEF KernelWrites, LogLine, Ordered, Guarded
<1>4. \A c \in Ctls : ctl[c].at \notin {"copy", "rename"}
  BY <1>2, AllIdle
<1> DEFINE line == Rewritten(KernelLine(boots))
<1>5. line \in AnyLine /\ line.boot = boots /\ line.kind = "kernel"
  <2>1. boots \in 1..boots /\ 0 \in 0..sent
    BY <1>2, Numbers DEF ThreadTypes
  <2>2. KernelLine(boots) \in Bounded
    BY <2>1, TextsAre DEF KernelLine, Bounded
  <2> QED
    BY <2>2, RewrittenIs, LinesAre DEF KernelLine
<1> HIDE DEF line
<1>6. Logged' /\ DaemonIndex' /\ CtlIndex' /\ Cutting'
  <2>1. log' = Append(log, line)
    BY <1>3 DEF line
  <2> QED
    BY <1>1, <1>2, <1>4, <1>5, <2>1, LineStep
<1>7. Guarded'
  BY <1>1, <1>2 DEF Guarded, Ordered
<1> QED
  BY <1>6, <1>7 DEF Ordered
-----------------------------------------------------------------------------
(* A run of unitlogctl that takes a step is alone: the others are idle and *)
(* neither the daemon nor its kernel thread writes.                        *)
LEMMA Alone ==
  ASSUME Clear, FileTypes, ThreadTypes, Ordered, NEW c \in Ctls, c \in Busy \/ c \in Busy', ~Unguarded',
         UNCHANGED <<daemon, kernel, unix>>, \A b \in Ctls \ {c} : ctl'[b] = ctl[b]
  PROVE  /\ \A b \in Ctls \ {c} : ctl[b].at = "idle" /\ ctl'[b].at = "idle"
         /\ ~Writing /\ ~Writing' /\ ~Appending /\ ~Appending'
<1>1. ~Unguarded
  BY DEF Ordered, Guarded
<1>2. CASE c \in Busy
  BY <1>1, <1>2 DEF Unguarded, Busy, Writing, Appending
<1>3. CASE c \in Busy'
  BY <1>3 DEF Unguarded, Busy, Writing, Appending
<1> QED
  BY <1>2, <1>3

(* The lines of the boots at the positions from first to last.             *)
LEMMA LinesOfPositions ==
  ASSUME NEW s \in Seq(AnyLine), Tidy(s), NEW e \in Seq(AnyEntry), EntriesRight(e, s, Len(s)),
         NEW first \in Nat, NEW last \in Nat, first <= last,
         2 * first + 1 \in DOMAIN e, 2 * last + 2 \in DOMAIN e, NEW n \in DOMAIN s
  PROVE  (\E i \in first..last : e[2 * i + 1].boot = s[n].boot)
           <=> n \in (e[2 * first + 1].offset + 1)..(e[2 * last + 2].offset + 1)
<1> DEFINE from == e[2 * first + 1].offset
           to == e[2 * last + 2].offset
<1>0. /\ DOMAIN s = 1..Len(s) /\ Len(s) \in Nat /\ DOMAIN e = 1..Len(e) /\ Len(e) \in Nat
      /\ n \in Nat
  OBVIOUS
<1>1. \A i \in DOMAIN e : /\ e[i].offset \in 0..(Len(s) - 1)
                          /\ e[i] = Entry(s[e[i].offset + 1], e[i].offset)
                          /\ e[i].kind = IF i % 2 = 1 THEN "start" ELSE "finish"
                          /\ i % 2 = 0 => e[i].boot = e[i - 1].boot
  BY DEF EntriesRight
<1>k. \A i \in DOMAIN e : e[i].kind = IF i % 2 = 1 THEN "start" ELSE "finish"
  BY <1>1
<1>l. \A i \in DOMAIN e : i % 2 = 0 => e[i].boot = e[i - 1].boot
  BY <1>1
<1>a. \A i \in DOMAIN e : e[i].offset \in Nat /\ e[i].offset + 1 \in DOMAIN s /\ i \in Nat
  <2>1. \A i \in DOMAIN e : e[i].offset \in 0..(Len(s) - 1)
    BY <1>1
  <2> QED
    BY <1>0, <2>1
<1>b. from \in Nat /\ to \in Nat
  BY <1>a
<1>2. \A i, j \in DOMAIN e : i <= j => e[i].offset <= e[j].offset
  <2>1. \A i, j \in DOMAIN e : i < j => e[i].offset < e[j].offset
    BY DEF EntriesRight
  <2> QED
    <3> TAKE i, j \in DOMAIN e
    <3> HAVE i <= j
    <3>1. CASE i = j
      <4>1. e[j].offset \in Nat
        BY <1>a
      <4> HIDE DEF from, to
      <4> QED
        BY <3>1, <4>1
    <3>2. CASE i # j
      <4>1. i < j
        BY <1>a, <3>2
      <4>2. e[i].offset < e[j].offset /\ e[i].offset \in Nat /\ e[j].offset \in Nat
        BY <1>a, <2>1, <4>1
      <4> DEFINE x == e[i].offset
                 y == e[j].offset
      <4> HIDE DEF x, y
      <4>3. x < y /\ x \in Nat /\ y \in Nat
        BY <4>2 DEF x, y
      <4>4. x <= y
        BY <4>3
      <4> QED
        BY <4>4 DEF x, y
    <3> QED
      BY <3>1, <3>2
<1>3. \A i \in DOMAIN e : /\ e[i].offset + 1 \in DOMAIN s
                          /\ s[e[i].offset + 1].kind = e[i].kind
                          /\ s[e[i].offset + 1].boot = e[i].boot
  <2> TAKE i \in DOMAIN e
  <2> DEFINE o == e[i].offset
  <2>1. e[i] = Entry(s[o + 1], o) /\ o + 1 \in DOMAIN s
    BY <1>1, <1>a
  <2> HIDE DEF o
  <2>2. s[o + 1].kind = e[i].kind /\ s[o + 1].boot = e[i].boot
    BY <2>1 DEF Entry
  <2> QED
    BY <2>1, <2>2 DEF o
<1>4. ASSUME NEW i \in first..last, e[2 * i + 1].boot = s[n].boot
      PROVE  n \in (from + 1)..(to + 1)
  <2>i. i \in Nat /\ first <= i /\ i <= last
    OBVIOUS
  <2>1. /\ 2 * i + 1 \in DOMAIN e /\ 2 * i + 2 \in DOMAIN e
        /\ (2 * i + 1) % 2 = 1 /\ (2 * i + 2) % 2 = 0 /\ (2 * i + 2) - 1 = 2 * i + 1
        /\ 2 * first + 1 <= 2 * i + 1 /\ 2 * i + 2 <= 2 * last + 2
    BY <1>0
  <2>2. /\ e[2 * i + 1].kind = "start" /\ e[2 * i + 2].kind = "finish"
        /\ e[2 * i + 2].boot = s[n].boot
    <3>1. e[2 * i + 1].kind = "start"
      BY <1>1, <2>1
    <3>2. e[2 * i + 2].kind = "finish" /\ e[2 * i + 2].boot = e[(2 * i + 2) - 1].boot
      <4> DEFINE j == 2 * i + 2
      <4>1. j \in DOMAIN e /\ j % 2 = 0
        BY <2>1
      <4> HIDE DEF j
      <4>2. e[j].kind = "finish" /\ e[j].boot = e[j - 1].boot
        <5>1. e[j].kind = "finish"
          BY <1>k, <4>1
        <5>2. e[j].boot = e[j - 1].boot
          BY <1>l, <4>1
        <5> QED
          BY <5>1, <5>2
      <4> QED
        BY <4>2 DEF j
    <3> QED
      BY <1>4, <2>1, <3>1, <3>2
  <2>3. PICK p \in DOMAIN s : p = e[2 * i + 1].offset + 1 /\ s[p].kind = "start" /\ s[p].boot = s[n].boot
    BY <1>3, <1>4, <2>1, <2>2
  <2>4. PICK q \in DOMAIN s : q = e[2 * i + 2].offset + 1 /\ s[q].kind = "finish" /\ s[q].boot = s[n].boot
    BY <1>3, <2>1, <2>2
  <2>5. from + 1 <= p /\ q <= to + 1
    <3>1. from <= e[2 * i + 1].offset /\ e[2 * i + 2].offset <= to
      BY <1>2, <2>1
    <3>2. e[2 * i + 1].offset \in Nat /\ e[2 * i + 2].offset \in Nat
      BY <1>a, <2>1
    <3> DEFINE x == e[2 * i + 1].offset
               y == e[2 * i + 2].offset
    <3>3. from <= x /\ y <= to /\ x \in Nat /\ y \in Nat /\ p = x + 1 /\ q = y + 1
      BY <2>3, <2>4, <3>1, <3>2
    <3> HIDE DEF x, y, from, to
    <3> QED
      BY <1>b, <3>3
  <2>6. ~(n < p) /\ ~(q < n)
    BY <2>3, <2>4, Borders, SMTT(20)
  <2> HIDE DEF from, to
  <2> QED
    BY <1>0, <1>b, <2>5, <2>6
<1>5. ASSUME n \in (from + 1)..(to + 1)
      PROVE  \E i \in first..last : e[2 * i + 1].boot = s[n].boot
  <2>1. PICK k \in DOMAIN s : k <= n /\ s[k].kind = "start" /\ s[k].boot = s[n].boot
    BY HasStart
  <2>2. PICK j \in DOMAIN e : e[j].offset = k - 1
    BY <1>0, <2>1 DEF EntriesRight, Marks
  <2>3. e[j].kind = "start" /\ e[j].boot = s[n].boot
    BY <1>0, <1>3, <2>1, <2>2
  <2>4. j % 2 = 1
    BY <1>1, <2>3
  <2>5. PICK i \in Nat : j = 2 * i + 1
    <3>1. j \in Nat /\ j \div 2 \in Nat /\ j = 2 * (j \div 2) + 1
      BY <1>0, <2>4
    <3> QED
      BY <3>1
  <2>6. from + 1 \in DOMAIN s /\ s[from + 1].kind = "start"
    <3>1. (2 * first + 1) % 2 = 1
      OBVIOUS
    <3> QED
      BY <1>1, <1>3, <3>1
  <2>7. from \in Nat /\ to \in Nat /\ k \in Nat
    BY <1>b
  <2>8. from + 1 <= k
    <3>1. SUFFICES ASSUME k < from + 1 PROVE FALSE
      BY <2>7, SMTT(20)
    <3>2. s[k].boot < s[from + 1].boot /\ s[k].boot \in Nat /\ s[from + 1].boot \in Nat /\ s[n].boot \in Nat
      BY <2>6, <3>1, Borders
    <3>3. s[from + 1].boot <= s[n].boot
      BY <1>5, <2>6, <1>0, <2>7 DEF Tidy
    <3> QED
      BY <2>1, <3>2, <3>3
  <2>9. i >= first
    <3>1. SUFFICES ASSUME i < first PROVE FALSE
      BY <2>5
    <3>2. 2 * i + 1 < 2 * first + 1 /\ 2 * i + 1 \in DOMAIN e
      BY <2>5, <3>1
    <3>3. e[2 * i + 1].offset < from
      BY <3>2 DEF EntriesRight
    <3> QED
      BY <2>2, <2>5, <2>7, <2>8, <3>3
  <2>10. i <= last
    <3>1. SUFFICES ASSUME i > last PROVE FALSE
      BY <2>5
    <3>2. 2 * last + 2 < 2 * i + 1 /\ 2 * i + 1 \in DOMAIN e
      BY <2>5, <3>1
    <3>3. to < e[2 * i + 1].offset
      BY <3>2 DEF EntriesRight
    <3> QED
      BY <1>0, <1>5, <2>1, <2>2, <2>5, <2>7, <3>3
  <2> QED
    BY <2>3, <2>5, <2>9, <2>10, SMTT(20)
<1> QED
  BY <1>4, <1>5
-----------------------------------------------------------------------------
(* A vacuum is asked for: the offsets are those of the lines of its boots, *)
(* as the index has the entries of the log, if not one more.               *)
LEMMA VacuumStep ==
  ASSUME Clear, FileTypes, ThreadTypes, Ordered, NEW c \in Ctls, NEW first \in 0..MaxBoots,
         NEW last \in 0..MaxBoots, Vacuum(c, first, last), ~Unguarded'
  PROVE  Ordered'
<1> DEFINE d == [at |-> "lock", from |-> index[2 * first + 1].offset,
                 to |-> index[2 * last + 2].offset, pos |-> 1, entries |-> <<>>, file |-> 0,
                 cuts |-> {index[2 * i + 1].boot : i \in first..last}]
<1>0. /\ log \in Seq(AnyLine) /\ index \in Seq(AnyEntry) /\ Len(log) \in Nat /\ Len(index) \in Nat
      /\ DOMAIN log = 1..Len(log) /\ DOMAIN index = 1..Len(index)
      /\ ctl \in [Ctls -> Runs] /\ first \in Nat /\ last \in Nat
  BY Numbers, LogAssumption
<1>1. /\ ctl[c].at = "idle" /\ ctl' = [ctl EXCEPT ![c] = d]
      /\ UNCHANGED <<log, index, tmp, logFile, indexFile, lock, daemon, unix, kernel, opened, boots,
                     crashes, logged, cut>>
      /\ WellFormed /\ first < MaxIdx /\ last < MaxIdx
  BY DEF Vacuum, Requested, CtlDoes, threads, files
<1>2. ctl'[c] = d /\ \A b \in Ctls \ {c} : ctl'[b] = ctl[b]
  BY <1>0, <1>1
<1>3. c \in Busy'
  BY <1>2 DEF Busy
<1>4. /\ \A b \in Ctls \ {c} : ctl[b].at = "idle" /\ ctl'[b].at = "idle"
      /\ ~Writing /\ ~Writing' /\ ~Appending /\ ~Appending'
  BY <1>1, <1>2, <1>3, Alone
<1>5. Busy = {}
  BY <1>1, <1>4 DEF Busy
<1>6. Indexed /\ Renaming = {} /\ Text = log /\ Removed = cut
  BY <1>4, <1>5, AllIdle DEF Ordered, DaemonIndex
<1>7. Renaming' = {} /\ Text' = log /\ Removed' = cut
  BY <1>1, <1>2, <1>4 DEF Renaming, Text, Removed
<1>8. Tidy(log)
  BY <1>6 DEF Ordered, Logged
<1>9. Logged'
  BY <1>1, <1>6, <1>7 DEF Ordered, Logged
<1>10. Guarded'
  <2>1. tmp = <<>>
    BY <1>1, <1>4 DEF Ordered, Guarded
  <2> QED
    BY <1>1, <1>2, <1>4, <2>1 DEF Ordered, Guarded, Appending
<1>11. Indexed'
  BY <1>1, <1>6, SameIndexed DEF Crashed
<1>12. DaemonIndex'
  BY <1>4, <1>11 DEF DaemonIndex
<1>13. CtlIndex'
  BY <1>2, <1>4, <1>11 DEF CtlIndex
<1>14. /\ 2 * first + 1 \in DOMAIN index /\ 2 * first + 1 < Len(index)
       /\ 2 * last + 2 \in DOMAIN index /\ 2 * last + 2 < Len(index)
  <2>1. 2 * first + 2 < Len(index) /\ 2 * last + 2 < Len(index)
    BY <1>0, <1>1, MaxIdxRange
  <2> QED
    BY <1>0, <2>1
<1>15. CASE log = <<>>
  <2>1. Crashed
    <3>1. index # <<>>
      BY <1>14
    <3> QED
      BY <1>6, <1>15, <3>1, EmptyIsTidy DEF Indexed
  <2>2. Crashed'
    BY <1>1, <2>1 DEF Crashed
  <2>3. Cutting'
    BY <1>1, <1>2, <1>4, <1>15, <2>2 DEF Cutting
  <2> QED
    BY <1>9, <1>10, <1>12, <1>13, <2>3 DEF Ordered
<1>16. CASE log # <<>>
  <2> DEFINE e == EntriesOf(log)
  <2>1. EntriesRight(e, log, Len(log)) /\ e \in Seq(AnyEntry)
    BY <1>0, <1>8, TidyIsRead
  <2>2. index = e \/ (Crashed /\ \E x : index = Append(e, x))
    BY <1>6, <1>16 DEF Indexed, Ahead
  <2> HIDE DEF e
  <2>3. /\ \A i \in DOMAIN index : i < Len(index) => i \in DOMAIN e /\ index[i] = e[i]
        /\ index = e \/ Crashed
    <3>1. CASE index = e
      BY <3>1
    <3>2. CASE \E x : index = Append(e, x)
      <4>1. PICK x : index = Append(e, x)
        BY <3>2
      <4>2. /\ Len(index) = Len(e) + 1 /\ Len(e) \in Nat /\ DOMAIN e = 1..Len(e)
            /\ \A i \in DOMAIN e : index[i] = e[i]
        BY <2>1, <4>1
      <4>3. \A i \in DOMAIN index : i < Len(index) => i \in DOMAIN e
        BY <1>0, <4>2
      <4> QED
        BY <2>2, <4>1, <4>2, <4>3
    <3> QED
      BY <2>2, <3>1, <3>2
  <2>4. /\ 2 * first + 1 \in DOMAIN e /\ index[2 * first + 1] = e[2 * first + 1]
        /\ 2 * last + 2 \in DOMAIN e /\ index[2 * last + 2] = e[2 * last + 2]
    BY <1>14, <2>3
  <2> DEFINE from == e[2 * first + 1].offset
             to == e[2 * last + 2].offset
  <2>5. d.from = from /\ d.to = to /\ d.pos = 1 /\ d.at = "lock"
        /\ d.cuts = {index[2 * i + 1].boot : i \in first..last}
    BY <2>4
  <2>6. /\ \A i \in DOMAIN e : e[i].offset \in Nat /\ e[i].offset + 1 \in DOMAIN log
        /\ \A i, j \in DOMAIN e : i < j => e[i].offset < e[j].offset
    <3>1. \A i \in DOMAIN e : e[i].offset \in 0..(Len(log) - 1)
      BY <2>1 DEF EntriesRight
    <3>2. \A i \in DOMAIN e : e[i].offset \in Nat /\ e[i].offset + 1 \in DOMAIN log
      BY <1>0, <3>1
    <3> QED
      BY <2>1, <3>2 DEF EntriesRight
  <2>7. from \in Nat /\ to \in Nat /\ from + 1 \in DOMAIN log /\ to + 1 \in DOMAIN log
    BY <2>4, <2>6
  <2>8. CASE first > last
    <3>1. 2 * last + 2 < 2 * first + 1
      BY <1>0, <2>8
    <3>2. to < from
      BY <2>4, <2>6, <3>1
    <3>3. d.cuts = {}
      BY <1>0, <2>5, <2>8
    <3>4. d.from > d.to
      BY <2>5, <2>7, <3>2
    <3> HIDE DEF d, from, to
    <3>6. Cutting'
      BY <1>1, <1>2, <1>4, <1>16, <2>5, <3>3, <3>4 DEF Cutting, CutOf
    <3> QED
      BY <1>9, <1>10, <1>12, <1>13, <3>6 DEF Ordered
  <2>9. CASE ~(first > last)
    <3>1. first <= last /\ 2 * first + 1 < 2 * last + 2
      BY <1>0, <2>9
    <3>2. from < to
      BY <2>4, <2>6, <3>1
    <3>3. log[from + 1].kind = "start" /\ log[to + 1].kind = "finish"
      <4>1. \A i \in DOMAIN e : /\ e[i] = Entry(log[e[i].offset + 1], e[i].offset)
                                /\ e[i].kind = IF i % 2 = 1 THEN "start" ELSE "finish"
        BY <2>1 DEF EntriesRight
      <4>2. (2 * first + 1) % 2 = 1 /\ (2 * last + 2) % 2 # 1
        BY <1>0
      <4>3. e[2 * first + 1].kind = "start" /\ e[2 * last + 2].kind = "finish"
        BY <2>4, <4>1, <4>2
      <4>4. e[2 * first + 1] = Entry(log[from + 1], from) /\ e[2 * last + 2] = Entry(log[to + 1], to)
        BY <2>4, <4>1
      <4> HIDE DEF from, to
      <4> QED
        BY <4>3, <4>4 DEF Entry
    <3>4. to + 1 = Len(log) => Crashed
      <4>1. SUFFICES ASSUME index = e PROVE to + 1 # Len(log)
        BY <2>3
      <4>2. 2 * last + 3 \in DOMAIN e /\ 2 * last + 2 < 2 * last + 3
        BY <1>0, <1>14, <4>1
      <4>3. to < e[2 * last + 3].offset /\ e[2 * last + 3].offset + 1 \in DOMAIN log
            /\ e[2 * last + 3].offset \in Nat
        BY <2>4, <2>6, <4>2
      <4> DEFINE x == e[2 * last + 3].offset
      <4>4. to < x /\ x + 1 \in DOMAIN log /\ x \in Nat
        BY <4>3
      <4>5. to \in Nat
        BY <2>7
      <4> HIDE DEF x, to, from, d
      <4>6. x + 1 <= Len(log) /\ Len(log) \in Nat
        BY <1>0, <4>4
      <4> QED
        BY <4>4, <4>5, <4>6
    <3>5. \A n \in DOMAIN log : log[n].boot \in d.cuts <=> n \in (from + 1)..(to + 1)
      <4> TAKE n \in DOMAIN log
      <4>1. (\E i \in first..last : e[2 * i + 1].boot = log[n].boot) <=> n \in (from + 1)..(to + 1)
        BY <1>0, <1>8, <2>1, <2>4, <3>1, LinesOfPositions
      <4>2. \A i \in first..last : index[2 * i + 1] = e[2 * i + 1]
        <5> TAKE i \in first..last
        <5>1. 2 * i + 1 \in DOMAIN index /\ 2 * i + 1 < Len(index)
          BY <1>0, <1>14
        <5> QED
          BY <2>3, <5>1
      <4> QED
        BY <2>5, <4>1, <4>2
    <3> HIDE DEF d, from, to
    <3>6. CutOf(d)
      BY <2>5, <2>7, <3>2, <3>3, <3>4, <3>5 DEF CutOf
    <3>7. CutOf(ctl[c])'
      BY <1>1, <1>2, <3>6 DEF CutOf, Crashed
    <3>8. Cutting'
      BY <1>1, <1>2, <1>4, <1>16, <2>5, <3>7 DEF Cutting
    <3> QED
      BY <1>9, <1>10, <1>12, <1>13, <3>8 DEF Ordered
  <2> QED
    BY <2>8, <2>9
<1> QED
  BY <1>15, <1>16
-----------------------------------------------------------------------------
(* A step of a run that is not idle, from one stage to the next.           *)
LEMMA CtlStep ==
  ASSUME Clear, FileTypes, ThreadTypes, Ordered, ~Unguarded', NEW c \in Ctls, ctl[c].at # "idle",
         UNCHANGED <<daemon, kernel, unix>>, \A b \in Ctls \ {c} : ctl'[b] = ctl[b]
  PROVE  /\ \A b \in Ctls \ {c} : ctl[b].at = "idle" /\ ctl'[b].at = "idle"
         /\ ~Writing /\ ~Writing' /\ ~Appending /\ ~Appending'
         /\ (ctl[c].at # "rename" => Renaming = {} /\ Text = log /\ Removed = cut /\ Tidy(log))
         /\ (ctl'[c].at # "rename" => Renaming' = {} /\ Text' = log' /\ Removed' = cut')
         /\ (ctl[c].at \notin {"copy", "rename"} => tmp = <<>>)
<1>0. c \in Busy
  BY DEF Busy
<1>1. /\ \A b \in Ctls \ {c} : ctl[b].at = "idle" /\ ctl'[b].at = "idle"
      /\ ~Writing /\ ~Writing' /\ ~Appending /\ ~Appending'
  BY <1>0, Alone
<1>2. ctl[c].at # "rename" => Renaming = {} /\ Text = log /\ Removed = cut
  BY <1>1 DEF Renaming, Text, Removed
<1>3. ctl'[c].at # "rename" => Renaming' = {} /\ Text' = log' /\ Removed' = cut'
  BY <1>1 DEF Renaming, Text, Removed
<1>4. ctl[c].at # "rename" => Tidy(log)
  BY <1>2 DEF Ordered, Logged
<1>5. ctl[c].at \notin {"copy", "rename"} => tmp = <<>>
  BY <1>1 DEF Ordered, Guarded
<1> QED
  BY <1>1, <1>2, <1>3, <1>4, <1>5

(* A step that changes neither the log nor what the history says of it.    *)
LEMMA LoggedStays ==
  ASSUME Logged, Text' = Text, Removed' = Removed, UNCHANGED <<daemon, unix, logged, boots>>
  PROVE  Logged'
BY DEF Logged

(* The steps of unitlogctl: a vacuum takes the lock.                       *)
LEMMA CtlLockStep ==
  ASSUME Clear, FileTypes, ThreadTypes, Ordered, NEW c \in Ctls, CtlLock(c), ~Unguarded'
  PROVE  Ordered'
<1>0. ctl \in [Ctls -> Runs] /\ Len(log) \in Nat
  BY Numbers
<1>1. /\ ctl[c].at = "lock" /\ lock = "none" /\ lock' = c
      /\ ctl' = [ctl EXCEPT ![c].at = "copy"]
      /\ UNCHANGED <<log, index, tmp, logFile, indexFile, daemon, unix, kernel, opened, boots, crashes,
                     logged, cut>>
  BY DEF CtlLock, CtlDoes, threads, files
<1>2. /\ ctl'[c] = [ctl[c] EXCEPT !.at = "copy"] /\ \A b \in Ctls \ {c} : ctl'[b] = ctl[b]
  BY <1>0, <1>1
<1>3. /\ ctl'[c].at = "copy" /\ ctl'[c].pos = ctl[c].pos /\ ctl'[c].from = ctl[c].from
      /\ ctl'[c].to = ctl[c].to /\ ctl'[c].cuts = ctl[c].cuts /\ ctl[c].from \in Nat
  BY <1>0, <1>2 DEF Runs
<1>4. /\ \A b \in Ctls \ {c} : ctl[b].at = "idle" /\ ctl'[b].at = "idle"
      /\ ~Writing /\ ~Writing' /\ ~Appending /\ ~Appending'
      /\ Text' = Text /\ Removed' = Removed /\ tmp = <<>>
  BY <1>1, <1>2, <1>3, CtlStep
<1>5. Logged'
  BY <1>1, <1>4, LoggedStays DEF Ordered
<1>6. Guarded'
  BY <1>1, <1>3, <1>4 DEF Ordered, Guarded, Appending
<1>7. Indexed'
  BY <1>1, SameIndexed DEF Crashed, Ordered, CtlIndex
<1>8. DaemonIndex' /\ CtlIndex'
  BY <1>3, <1>4, <1>7 DEF DaemonIndex, CtlIndex
<1>9. Copied(ctl[c])'
  <2>1. ctl'[c].pos = 1
    BY <1>1, <1>3 DEF Ordered, Cutting
  <2>2. tmp' = <<>> /\ Kept(ctl'[c], 0) = 0
    BY <1>1, <1>3, <1>4 DEF Kept
  <2>3. 1 \in 1..(Len(log') + 1) /\ 1 - 1 = 0 /\ 1..0 = {}
    BY <1>0, <1>1
  <2>4. tmp' = [i \in 1..0 |-> Rewritten(log'[Source(ctl'[c], i)])]
    BY <2>2, <2>3
  <2> QED
    BY <2>1, <2>2, <2>3, <2>4 DEF Copied
<1>10. IF log' = <<>> THEN Crashed' ELSE CutOf(ctl[c])'
  BY <1>1, <1>3 DEF Ordered, Cutting, CutOf, Crashed
<1>11. Cutting'
  BY <1>3, <1>4, <1>9, <1>10 DEF Cutting
<1> QED
  BY <1>5, <1>6, <1>8, <1>11 DEF Ordered

(* How many lines are kept of n, and where the next one comes from.        *)
LEMMA KeptStep ==
  ASSUME NEW d, d.from \in Nat, d.to \in Nat, NEW n \in Nat \ {0}
  PROVE  IF n - 1 < d.from \/ n - 1 > d.to
         THEN /\ Kept(d, n) = Kept(d, n - 1) + 1 /\ Kept(d, n - 1) \in Nat
              /\ Source(d, Kept(d, n)) = n
         ELSE Kept(d, n) = Kept(d, n - 1)
<1> DEFINE a == d.from
           b == d.to
<1>1. /\ \A k \in Nat : Kept(d, k) = IF k <= a \/ a > b THEN k ELSE IF k <= b + 1 THEN a ELSE k - Gap(d)
      /\ Gap(d) = (IF a > b THEN 0 ELSE b + 1 - a)
      /\ \A k \in Nat : Source(d, k) = IF k <= a THEN k ELSE k + Gap(d)
      /\ a \in Nat /\ b \in Nat
  BY DEF Kept, Gap, Source
<1> HIDE DEF a, b
<1>2. n - 1 \in Nat
  OBVIOUS
<1>3. CASE a > b
  <2>1. Kept(d, n) = n /\ Kept(d, n - 1) = n - 1 /\ Gap(d) = 0 /\ Source(d, n) = n
    BY <1>1, <1>2, <1>3
  <2>2. n - 1 < a \/ n - 1 > b
    BY <1>1, <1>3
  <2> QED
    BY <1>2, <2>1, <2>2 DEF a, b
<1>4. CASE ~(a > b)
  <2>1. Gap(d) = b + 1 - a /\ a <= b
    BY <1>1, <1>4
  <2>2. CASE n - 1 < a
    <3>1. n <= a /\ n - 1 <= a
      BY <1>1, <2>2
    <3>2. Kept(d, n) = n /\ Kept(d, n - 1) = n - 1 /\ Source(d, n) = n
      BY <1>1, <1>2, <3>1
    <3> QED
      BY <1>2, <2>2, <3>2 DEF a, b
  <2>3. CASE n - 1 > b
    <3>1. ~(n <= a) /\ ~(n <= b + 1) /\ ~(n - 1 <= a) /\ n - Gap(d) \in Nat /\ ~(n - Gap(d) <= a)
          /\ (n - Gap(d)) + Gap(d) = n
      BY <1>1, <2>1, <2>3
    <3>2. Kept(d, n) = n - Gap(d) /\ Source(d, n - Gap(d)) = n
      BY <1>1, <1>4, <3>1
    <3>3. Kept(d, n - 1) = (n - 1) - Gap(d)
      <4>1. CASE n - 1 <= b + 1
        BY <1>1, <1>2, <1>4, <2>1, <2>3, <3>1, <4>1
      <4>2. CASE ~(n - 1 <= b + 1)
        BY <1>1, <1>2, <1>4, <3>1, <4>2
      <4> QED
        BY <4>1, <4>2
    <3>4. (n - 1) - Gap(d) \in Nat /\ n - Gap(d) = (n - 1) - Gap(d) + 1
      BY <1>1, <2>1, <2>3
    <3> QED
      BY <2>3, <3>2, <3>3, <3>4 DEF a, b
  <2>4. CASE ~(n - 1 < a) /\ ~(n - 1 > b)
    <3>1. ~(n <= a) /\ n <= b + 1 /\ n - 1 <= b + 1
      BY <1>1, <2>4
    <3>2. Kept(d, n) = a
      BY <1>1, <1>4, <3>1
    <3>3. Kept(d, n - 1) = a
      <4>1. CASE n - 1 <= a
        BY <1>1, <1>2, <2>4, <4>1
      <4>2. CASE ~(n - 1 <= a)
        BY <1>1, <1>2, <1>4, <3>1, <4>2
      <4> QED
        BY <4>1, <4>2
    <3> QED
      BY <2>4, <3>2, <3>3 DEF a, b
  <2> QED
    BY <2>2, <2>3, <2>4
<1> QED
  BY <1>3, <1>4

(* A sequence is the function of its elements.                             *)
LEMMA SeqIsFunction ==
  ASSUME NEW S, NEW s \in Seq(S)
  PROVE  s = [i \in 1..Len(s) |-> s[i]]
<1>1. PICK n \in Nat : s \in [1..n -> S]
  BY SeqDef
<1>2. Len(s) = n
  BY <1>1
<1> QED
  BY <1>1, <1>2

(* Every line is read as one.                                              *)
LEMMA LineOfIs ==
  ASSUME Clear, FileTypes, ThreadTypes, NEW n \in DOMAIN log
  PROVE  LineOf(n) = n
<1>1. DOMAIN log = 1..Len(log) /\ Len(log) \in Nat /\ n \in 1..n
  BY Numbers
<1>2. \A k \in 1..n : ~Joined(log, k)
  BY <1>1, Numbers, WholeReading
<1>3. \A j \in (n + 1)..n : Joined(log, j)
  BY <1>1
<1>4. ASSUME NEW k \in 1..n, \A j \in (k + 1)..n : Joined(log, j) PROVE k = n
  <2>1. k # n => n \in (k + 1)..n
    BY <1>1
  <2> QED
    BY <1>1, <1>2, <1>4, <2>1
<1> QED
  BY <1>1, <1>2, <1>3, <1>4 DEF LineOf

(* A line is copied or left out.                                           *)
LEMMA CopyLineStep ==
  ASSUME Clear, FileTypes, ThreadTypes, Ordered, NEW c \in Ctls, CopyLine(c), ~Unguarded'
  PROVE  Ordered'
<1> DEFINE d == ctl[c]
           n == ctl[c].pos
<1>0. ctl \in [Ctls -> Runs] /\ Len(log) \in Nat /\ DOMAIN log = 1..Len(log)
  BY Numbers
<1>1. /\ d.at = "copy" /\ n <= Len(log)
      /\ tmp' = IF n - 1 < d.from \/ n - 1 > d.to THEN Append(tmp, Rewritten(log[n])) ELSE tmp
      /\ ctl' = [ctl EXCEPT ![c].pos = n + 1]
      /\ UNCHANGED <<log, index, logFile, indexFile, lock, daemon, unix, kernel, opened, boots, crashes,
                     logged, cut>>
  <2>1. d.at = "copy" /\ n <= Len(log)
    BY DEF CopyLine
  <2>2. n \in DOMAIN log
    <3>1. n \in Nat /\ n # 0
      BY <1>0, <2>1 DEF ThreadTypes, Runs
    <3> QED
      BY <1>0, <2>1, <3>1
  <2>3. LineOf(n) = n
    BY <2>2, LineOfIs
  <2> QED
    BY <2>1, <2>3 DEF CopyLine, CtlDoes, threads
<1>2. /\ ctl'[c] = [d EXCEPT !.pos = n + 1] /\ \A b \in Ctls \ {c} : ctl'[b] = ctl[b]
  BY <1>0, <1>1
<1>3. /\ d.pos \in Nat \ {0} /\ d.from \in Nat /\ d.to \in Nat
      /\ ctl'[c].at = "copy" /\ ctl'[c].pos = n + 1 /\ ctl'[c].from = d.from
      /\ ctl'[c].to = d.to /\ ctl'[c].cuts = d.cuts
  <2>1. ctl[c] \in Runs /\ ctl[c].pos # 0
    BY <1>0, <1>1 DEF ThreadTypes
  <2>2. ctl[c].pos \in Nat
    BY <2>1 DEF Runs
  <2> DEFINE p == n + 1
  <2> HIDE DEF p
  <2>3. ctl'[c] = [ctl[c] EXCEPT !.pos = p]
    BY <1>2 DEF p
  <2>4. /\ ctl[c].from \in Nat /\ ctl[c].to \in Nat
        /\ ctl'[c].at = ctl[c].at /\ ctl'[c].pos = p /\ ctl'[c].from = ctl[c].from
        /\ ctl'[c].to = ctl[c].to /\ ctl'[c].cuts = ctl[c].cuts
    BY <2>1, <2>3 DEF Runs
  <2> QED
    BY <1>1, <2>1, <2>2, <2>4 DEF p
<1>4. /\ \A b \in Ctls \ {c} : ctl[b].at = "idle" /\ ctl'[b].at = "idle"
      /\ ~Writing /\ ~Writing' /\ ~Appending /\ ~Appending'
      /\ Text' = Text /\ Removed' = Removed
  BY <1>1, <1>2, <1>3, CtlStep
<1>5. Logged'
  BY <1>1, <1>4, LoggedStays DEF Ordered
<1>6. Guarded'
  BY <1>1, <1>3, <1>4 DEF Ordered, Guarded, Appending
<1>7. Indexed'
  BY <1>1, SameIndexed DEF Crashed, Ordered, CtlIndex
<1>8. DaemonIndex' /\ CtlIndex'
  BY <1>3, <1>4, <1>7 DEF DaemonIndex, CtlIndex
<1>9. Copied(ctl[c])'
  <2> DEFINE k == Kept(d, n - 1)
             more == n - 1 < d.from \/ n - 1 > d.to
  <2>1. n \in 1..(Len(log) + 1) /\ tmp = [i \in 1..k |-> Rewritten(log[Source(d, i)])]
    BY <1>1 DEF Ordered, Cutting, Copied
  <2>2. /\ more => Kept(d, n) = k + 1 /\ k \in Nat /\ Source(d, k + 1) = n
        /\ ~more => Kept(d, n) = k
    BY <1>3, KeptStep
  <2>3. tmp' = [i \in 1..Kept(d, n) |-> Rewritten(log[Source(d, i)])]
    <3>1. CASE ~more
      BY <1>1, <2>1, <2>2, <3>1
    <3>2. CASE more
      <4>1. tmp' = Append(tmp, Rewritten(log[n]))
        BY <1>1, <3>2
      <4> DEFINE f == [i \in 1..(k + 1) |-> Rewritten(log[Source(d, i)])]
      <4>2. k \in Nat /\ Rewritten(log[Source(d, k + 1)]) = Rewritten(log[n])
        BY <2>2, <3>2
      <4>3. Append(tmp, Rewritten(log[n])) = f
        <5> DEFINE K == k
                   x == Rewritten(log[n])
                   F(i) == Rewritten(log[Source(d, i)])
        <5>1. tmp = [i \in 1..K |-> F(i)] /\ K \in Nat /\ F(K + 1) = x
          BY <2>1, <4>2
        <5> HIDE DEF K, F, x
        <5>2. Len(tmp) = K /\ DOMAIN tmp = 1..K
          BY <5>1
        <5>3. Append(tmp, x) = [i \in 1..(K + 1) |-> IF i <= K THEN tmp[i] ELSE x]
          <6>1. tmp \in Seq(Bounded)
            BY DEF FileTypes
          <6>2. DOMAIN Append(tmp, x) = 1..(K + 1) /\ Append(tmp, x)[K + 1] = x
            BY <5>2, <6>1
          <6>3. \A i \in 1..K : Append(tmp, x)[i] = tmp[i]
            BY <5>2, <6>1
          <6>4. Append(tmp, x) = [i \in 1..(K + 1) |-> Append(tmp, x)[i]]
            <7>1. x \in Bounded
              <8>1. n \in DOMAIN log /\ log \in Seq(Bounded)
                BY <1>0, <1>1, <1>3 DEF FileTypes
              <8>2. log[n] \in Bounded
                BY <8>1
              <8> QED
                BY <8>2, RewrittenIs DEF x
            <7>2. Append(tmp, x) \in Seq(Bounded) /\ Len(Append(tmp, x)) = K + 1
              BY <5>2, <6>1, <7>1
            <7> QED
              BY <7>2, SeqIsFunction
          <6>5. \A i \in 1..(K + 1) : Append(tmp, x)[i] = IF i <= K THEN tmp[i] ELSE x
            BY <5>1, <6>2, <6>3
          <6> QED
            BY <6>4, <6>5
        <5>4. \A i \in 1..(K + 1) : (IF i <= K THEN tmp[i] ELSE x) = F(i)
          BY <5>1
        <5>5. Append(tmp, x) = [i \in 1..(K + 1) |-> F(i)]
          BY <5>3, <5>4
        <5> QED
          BY <5>5 DEF K, F, x
      <4> QED
        BY <2>2, <3>2, <4>1, <4>3
    <3> QED
      BY <3>1, <3>2
  <2>4. \A i : Source(ctl'[c], i) = Source(d, i) /\ Kept(ctl'[c], i) = Kept(d, i)
    BY <1>3 DEF Source, Kept, Gap
  <2>5. ctl'[c].pos \in 1..(Len(log') + 1) /\ ctl'[c].pos - 1 = n
    BY <1>0, <1>1, <1>3
  <2>6. tmp' = [i \in 1..Kept(ctl'[c], ctl'[c].pos - 1) |-> Rewritten(log'[Source(ctl'[c], i)])]
    <3>1. Kept(ctl'[c], ctl'[c].pos - 1) = Kept(d, n)
      BY <2>4, <2>5
    <3>2. \A i \in 1..Kept(d, n) : Rewritten(log[Source(d, i)]) = Rewritten(log'[Source(ctl'[c], i)])
      BY <1>1, <2>4
    <3> QED
      BY <2>3, <3>1, <3>2
  <2> QED
    BY <2>5, <2>6 DEF Copied
<1>10. IF log' = <<>> THEN Crashed' ELSE CutOf(ctl[c])'
  BY <1>1, <1>3 DEF Ordered, Cutting, CutOf, Crashed
<1>11. Cutting'
  BY <1>3, <1>4, <1>9, <1>10 DEF Cutting
<1> QED
  BY <1>5, <1>6, <1>8, <1>11 DEF Ordered
-----------------------------------------------------------------------------
(* What a line that is copied keeps.                                       *)
Kin(line, of) == SameLine(line, of) /\ (of.text = "plain" => line.text = "plain")

(* A log is tidy whatever its texts are.                                   *)
LEMMA TidySame ==
  ASSUME NEW s \in Seq(AnyLine), Tidy(s), NEW t \in Seq(AnyLine), Len(t) = Len(s),
         \A n \in DOMAIN s : SameMark(t[n], s[n])
  PROVE  Tidy(t)
<1>1. DOMAIN t = DOMAIN s /\ DOMAIN s = 1..Len(s) /\ Len(s) \in Nat
  OBVIOUS
<1>2. \A n \in DOMAIN s : t[n].kind = s[n].kind /\ t[n].boot = s[n].boot
  BY DEF SameMark
<1>3. \A n \in DOMAIN s : n > 1 => n - 1 \in DOMAIN s
  BY <1>1
<1>4. \A n \in DOMAIN s : n # 1 => n > 1
  BY <1>1
<1> QED
  BY <1>1, <1>2, <1>3, <1>4 DEF Tidy

(* All the lines are copied: the temporary log is the log without the      *)
(* lines of the boots that are to be cut.                                  *)
LEMMA CopiedAll ==
  ASSUME NEW d, d.from \in Nat, d.to \in Nat, log \in Seq(AnyLine), tmp \in Seq(AnyLine),
         log \in Seq(Bounded), Tidy(log), log # <<>>, CutOf(d), Copied(d), d.pos > Len(log)
  PROVE  /\ Tidy(tmp)
         /\ \A i \in DOMAIN tmp : /\ Source(d, i) \in DOMAIN log /\ Kin(tmp[i], log[Source(d, i)])
                                  /\ tmp[i].boot \notin d.cuts
         /\ \A n \in DOMAIN log : log[n].boot \notin d.cuts => \E i \in DOMAIN tmp : Source(d, i) = n
         /\ \A i, j \in DOMAIN tmp : Source(d, i) = Source(d, j) => i = j
         /\ ~Crashed => tmp # <<>> /\ SameMark(Last(tmp), Last(log))
<1>0. /\ Len(log) \in Nat /\ Len(log) > 0 /\ DOMAIN log = 1..Len(log) /\ d.pos = Len(log) + 1
      /\ d.pos - 1 = Len(log)
  BY DEF Copied
<1>1. tmp = [i \in 1..Kept(d, Len(log)) |-> Rewritten(log[Source(d, i)])]
  BY <1>0 DEF Copied
<1>4. \A n \in DOMAIN log : Kin(Rewritten(log[n]), log[n]) /\ SameMark(Rewritten(log[n]), log[n])
  <2> TAKE n \in DOMAIN log
  <2>1. log[n] \in Bounded
    OBVIOUS
  <2> QED
    BY <2>1, RewrittenIs DEF Kin, SameLine, SameMark
<1>2. CASE d.from > d.to
  <2>1. Kept(d, Len(log)) = Len(log) /\ \A i \in DOMAIN log : Source(d, i) = i
    BY <1>0, <1>2 DEF Kept, Source, Gap
  <2>2. /\ DOMAIN tmp = 1..Len(log) /\ Len(tmp) = Len(log)
        /\ \A i \in DOMAIN log : tmp[i] = Rewritten(log[i])
    <3>1. tmp = [i \in 1..Len(log) |-> Rewritten(log[Source(d, i)])]
      BY <1>1, <2>1
    <3>2. DOMAIN tmp = 1..Len(log) /\ \A i \in DOMAIN log : tmp[i] = Rewritten(log[Source(d, i)])
      BY <1>0, <3>1
    <3> QED
      BY <1>0, <2>1, <3>2
  <2>3. \A i \in DOMAIN log : Kin(tmp[i], log[i]) /\ SameMark(tmp[i], log[i])
    BY <1>4, <2>2
  <2>4. d.cuts = {} /\ Tidy(tmp)
    BY <1>2, <2>2, <2>3, TidySame DEF CutOf
  <2>5. tmp # <<>> /\ SameMark(Last(tmp), Last(log))
    BY <1>0, <2>2, <2>3 DEF Last
  <2> QED
    BY <1>0, <2>1, <2>2, <2>3, <2>4, <2>5
<1>3. CASE ~(d.from > d.to)
  <2> DEFINE a == d.from + 1
             b == d.to + 1
             g == b + 1 - a
             N == Len(log) - g
             src(i) == IF i < a THEN i ELSE i + g
  <2>1. /\ a \in DOMAIN log /\ b \in DOMAIN log /\ log[a].kind = "start" /\ log[b].kind = "finish"
        /\ \A n \in DOMAIN log : log[n].boot \in d.cuts <=> n \in a..b
        /\ b = Len(log) => Crashed
    BY <1>3 DEF CutOf
  <2>2. a \in Nat /\ b \in Nat /\ 1 <= a /\ a <= b /\ b <= Len(log) /\ g \in Nat /\ N \in Nat
    <3> DEFINE f == d.from
               t == d.to
    <3>1. f \in Nat /\ t \in Nat /\ f <= t /\ t + 1 \in 1..Len(log)
      BY <1>0, <1>3, <2>1
    <3>2. a = f + 1 /\ b = t + 1
      OBVIOUS
    <3> HIDE DEF f, t, a, b
    <3>3. a \in Nat /\ b \in Nat /\ 1 <= a /\ a <= b /\ b <= Len(log)
      BY <1>0, <3>1, <3>2
    <3> QED
      BY <1>0, <3>3
  <2>3. Kept(d, Len(log)) = N
    <3>1. Gap(d) = g
      BY <1>3 DEF Gap
    <3>2. ~(Len(log) <= d.from)
      <4>1. d.from + 1 <= Len(log)
        BY <1>0, <2>1
      <4> HIDE DEF a, b, g, N, src
      <4> QED
        BY <1>0, <4>1
    <3>3. CASE Len(log) <= d.to + 1
      <4>1. Kept(d, Len(log)) = d.from /\ Len(log) = b
        BY <1>0, <1>3, <2>2, <3>2, <3>3, SMTT(20) DEF Kept
      <4>2. d.from = a - 1
        OBVIOUS
      <4> HIDE DEF a, b
      <4> QED
        BY <1>0, <2>2, <4>1, <4>2
    <3>4. CASE ~(Len(log) <= d.to + 1)
      BY <1>3, <3>1, <3>2, <3>4 DEF Kept
    <3> QED
      BY <3>3, <3>4
  <2>4. \A i \in Nat : Source(d, i) = src(i)
    BY <1>3 DEF Source, Gap
  <2>5. DOMAIN tmp = 1..N /\ Len(tmp) = N /\ \A i \in 1..N : tmp[i] = Rewritten(log[src(i)])
    <3>1. DOMAIN tmp = 1..N
      BY <1>1, <2>3
    <3>2. \A i \in 1..N : tmp[i] = Rewritten(log[Source(d, i)])
      BY <1>1, <2>3
    <3>3. \A i \in 1..N : i \in Nat
      BY <2>2
    <3>4. \A i \in 1..N : tmp[i] = Rewritten(log[src(i)])
      BY <2>4, <3>2, <3>3
    <3>5. Len(tmp) = N
      <4>1. N \in Nat
        BY <2>2
      <4> HIDE DEF N
      <4> QED
        BY <3>1, <4>1
    <3> QED
      BY <3>1, <3>4, <3>5
  <2>6. Tidy(tmp)
    <3>1. \A i \in DOMAIN tmp : SameMark(tmp[i], log[IF i < a THEN i ELSE i + (b + 1 - a)])
      <4>1. \A i \in 1..N : src(i) \in DOMAIN log
        <5> TAKE i \in 1..N
        <5> DEFINE L == Len(log)
        <5>1. i \in 1..(L - (b + 1 - a)) /\ L \in Nat /\ DOMAIN log = 1..L
          BY <1>0
        <5>2. src(i) = IF i < a THEN i ELSE i + (b + 1 - a)
          OBVIOUS
        <5> HIDE DEF a, b, g, N, src, L
        <5> QED
          BY <2>2, <5>1, <5>2
      <4>2. \A i \in 1..N : SameMark(tmp[i], log[src(i)])
        BY <1>4, <2>5, <4>1
      <4> QED
        BY <2>5, <4>2
    <3>2. Len(tmp) = Len(log) - (b + 1 - a)
      BY <2>5
    <3> HIDE DEF a, b, g, N, src
    <3> QED
      BY <2>1, <2>2, <3>1, <3>2, TidyCut
  <2> HIDE DEF a, b, g, N, src
  <2>7. g = b + 1 - a /\ N = Len(log) - g
    BY DEF g, N
  <2>8. \A i : src(i) = IF i < a THEN i ELSE i + g
    BY DEF src
  <2>9. \A i \in 1..N : src(i) \in DOMAIN log /\ src(i) \notin a..b
    <3> TAKE i \in 1..N
    <3>1. src(i) = IF i < a THEN i ELSE i + g
      BY <2>8
    <3> QED
      BY <1>0, <2>2, <2>7, <3>1
  <2>10. \A n \in DOMAIN log : n \notin a..b => \E i \in 1..N : src(i) = n
    <3> SUFFICES ASSUME NEW n \in DOMAIN log, n \notin a..b
                 PROVE  \E i \in 1..N : src(i) = n
      OBVIOUS
    <3>1. CASE n < a
      <4>1. n \in 1..N /\ src(n) = n
        BY <1>0, <2>2, <2>7, <2>8, <3>1
      <4> QED
        BY <4>1
    <3>2. CASE ~(n < a)
      <4>1. n - g \in 1..N /\ ~(n - g < a) /\ (n - g) + g = n
        BY <1>0, <2>2, <2>7, <3>2, SMTT(20)
      <4>2. src(n - g) = n
        BY <2>8, <4>1
      <4> QED
        BY <4>1, <4>2
    <3> QED
      BY <3>1, <3>2
  <2>11. \A i, j \in 1..N : src(i) = src(j) => i = j
    <3> TAKE i, j \in 1..N
    <3>1. src(i) = (IF i < a THEN i ELSE i + g) /\ src(j) = (IF j < a THEN j ELSE j + g)
      BY <2>8
    <3> QED
      BY <2>2, <3>1
  <2>12. ~Crashed => tmp # <<>> /\ SameMark(Last(tmp), Last(log))
    <3> SUFFICES ASSUME b # Len(log)
                 PROVE  tmp # <<>> /\ SameMark(Last(tmp), Last(log))
      BY <2>1
    <3>0. b < Len(log) /\ Len(log) \in Nat /\ a \in Nat /\ b \in Nat /\ 1 <= a /\ a <= b
      <4> DEFINE L == Len(log)
      <4>1. b <= L /\ b # L /\ L \in Nat /\ b \in Nat
        BY <1>0, <2>2
      <4> HIDE DEF L
      <4>2. b < L
        BY <4>1
      <4> QED
        BY <1>0, <2>2, <4>2 DEF L
    <3>1. N \in 1..N /\ ~(N < a) /\ N + g = Len(log)
      <4>1. N = Len(log) - (b + 1 - a) /\ g = b + 1 - a
        BY <2>7
      <4>2. N >= a /\ N + g = Len(log) /\ N \in Nat
        BY <3>0, <4>1
      <4> QED
        BY <3>0, <4>2
    <3>2. src(N) = Len(log)
      BY <2>8, <3>1
    <3>3. SameMark(tmp[N], log[Len(log)])
      BY <1>0, <1>4, <2>5, <3>1, <3>2
    <3> QED
      BY <2>5, <3>1, <3>3 DEF Last
  <2>13. \A i \in 1..N : Source(d, i) = src(i)
    <3>1. \A i \in 1..N : i \in Nat
      BY <2>2
    <3> QED
      BY <2>4, <3>1
  <2>14. \A i \in DOMAIN tmp : /\ Source(d, i) \in DOMAIN log /\ Kin(tmp[i], log[Source(d, i)])
                               /\ tmp[i].boot \notin d.cuts
    <3> SUFFICES ASSUME NEW i \in 1..N
                 PROVE  /\ src(i) \in DOMAIN log /\ Kin(tmp[i], log[src(i)])
                        /\ tmp[i].boot \notin d.cuts
      BY <2>5, <2>13
    <3>1. src(i) \in DOMAIN log /\ src(i) \notin a..b /\ tmp[i] = Rewritten(log[src(i)])
      BY <2>5, <2>9
    <3>2. Kin(tmp[i], log[src(i)]) /\ tmp[i].boot = log[src(i)].boot
      BY <1>4, <3>1 DEF SameMark
    <3>3. log[src(i)].boot \notin d.cuts
      BY <2>1, <3>1
    <3> QED
      BY <3>1, <3>2, <3>3, Zenon
  <2>15. \A n \in DOMAIN log : log[n].boot \notin d.cuts => \E i \in DOMAIN tmp : Source(d, i) = n
    <3> SUFFICES ASSUME NEW n \in DOMAIN log, log[n].boot \notin d.cuts
                 PROVE  \E i \in DOMAIN tmp : Source(d, i) = n
      OBVIOUS
    <3>1. n \notin a..b
      BY <2>1
    <3>2. PICK i \in 1..N : src(i) = n
      BY <2>10, <3>1
    <3>3. i \in DOMAIN tmp /\ Source(d, i) = n
      BY <2>5, <2>13, <3>2
    <3> QED
      BY <3>3
  <2>16. \A i, j \in DOMAIN tmp : Source(d, i) = Source(d, j) => i = j
    BY <2>5, <2>11, <2>13
  <2> QED
    BY <2>6, <2>12, <2>14, <2>15, <2>16
<1> QED
  BY <1>2, <1>3

(* The log is removed; the text is now the temporary log.                  *)
LEMMA RemoveLogStep ==
  ASSUME Clear, FileTypes, ThreadTypes, Ordered, NEW c \in Ctls, RemoveLog(c), ~Unguarded'
  PROVE  Ordered'
<1> DEFINE d == ctl[c]
<1>0. /\ ctl \in [Ctls -> Runs] /\ Len(log) \in Nat /\ DOMAIN log = 1..Len(log)
      /\ log \in Seq(AnyLine) /\ tmp \in Seq(AnyLine)
  BY Numbers
<1>1. /\ d.at = "copy" /\ d.pos > Len(log) /\ log' = <<>> /\ logFile' = logFile + 1
      /\ ctl' = [ctl EXCEPT ![c].at = "rename"]
      /\ UNCHANGED <<index, tmp, indexFile, lock, daemon, unix, kernel, opened, boots, crashes, logged, cut>>
  BY DEF RemoveLog, CtlDoes, threads
<1>2. /\ ctl'[c] = [d EXCEPT !.at = "rename"] /\ \A b \in Ctls \ {c} : ctl'[b] = ctl[b]
  BY <1>0, <1>1
<1>3. /\ d.from \in Nat /\ d.to \in Nat /\ ctl'[c].at = "rename" /\ ctl'[c].cuts = d.cuts
  BY <1>0, <1>2 DEF Runs
<1>4. /\ \A b \in Ctls \ {c} : ctl[b].at = "idle" /\ ctl'[b].at = "idle"
      /\ ~Writing /\ ~Writing' /\ ~Appending /\ ~Appending'
      /\ Text = log /\ Removed = cut /\ Tidy(log)
  BY <1>1, <1>2, CtlStep
<1>5. Renaming' = {c} /\ Text' = tmp /\ Removed' = cut \cup d.cuts
  BY <1>1, <1>3, <1>4 DEF Renaming, Text, Removed
<1>6. unix.at = "idle" /\ opened = 0
  <2>1. lock = c
    BY <1>1 DEF Ordered, Guarded
  <2>2. unix.at = "idle"
    BY <2>1, LogAssumption DEF ThreadTypes
  <2> QED
    BY <1>4, <2>2 DEF Ordered, Guarded, Appending
<1>7. Guarded'
  BY <1>1, <1>3, <1>4, <1>6 DEF Ordered, Guarded, Appending
<1>8. DaemonIndex' /\ CtlIndex'
  BY <1>3, <1>4 DEF DaemonIndex, CtlIndex, Busy
<1>9. Copied(d) /\ (IF log = <<>> THEN Crashed ELSE CutOf(d))
  BY <1>1 DEF Ordered, Cutting
<1>10. CASE log = <<>>
  <2>1. tmp = <<>>
    <3>1. d.pos = 1 /\ d.pos - 1 = 0 /\ 1..0 = {}
      BY <1>1, <1>9, <1>10 DEF Copied
    <3>2. Kept(d, 0) = 0
      BY <1>3 DEF Kept
    <3> QED
      BY <1>9, <3>1, <3>2 DEF Copied
  <2>2. Crashed'
    BY <1>1, <1>9, <1>10 DEF Crashed
  <2>3. Cutting'
    BY <1>3, <1>4, <2>2 DEF Cutting
  <2>4. Logged'
    <3>1. \A m \in logged : m.kind = "message" /\ m.boot \in cut
      BY <1>4, <1>10 DEF Ordered, Logged, InLog
    <3>2. daemon'.at = "down" /\ unix'.at = "idle"
      BY <1>1, <1>6, <2>2 DEF Crashed
    <3> QED
      BY <1>1, <1>5, <2>1, <3>1, <3>2, EmptyIsTidy DEF Logged
  <2> QED
    BY <1>7, <1>8, <2>3, <2>4 DEF Ordered
<1>11. CASE log # <<>>
  <2>1. /\ Tidy(tmp)
        /\ \A i \in DOMAIN tmp : /\ Source(d, i) \in DOMAIN log /\ Kin(tmp[i], log[Source(d, i)])
                                 /\ tmp[i].boot \notin d.cuts
        /\ \A n \in DOMAIN log : log[n].boot \notin d.cuts => \E i \in DOMAIN tmp : Source(d, i) = n
        /\ \A i, j \in DOMAIN tmp : Source(d, i) = Source(d, j) => i = j
        /\ ~Crashed => tmp # <<>> /\ SameMark(Last(tmp), Last(log))
    <3>1. log \in Seq(Bounded)
      BY DEF FileTypes
    <3> QED
      BY <1>0, <1>1, <1>3, <1>4, <1>9, <1>11, <3>1, CopiedAll
  <2> HIDE DEF d
  <2>2. Cutting'
    BY <1>1, <1>3, <1>4, <2>1 DEF Cutting, Crashed
  <2>3. daemon'.at = "run" => IsOpen(tmp) /\ Last(tmp).boot = boots
    BY <1>1, <1>4, <2>1 DEF Ordered, Logged, IsOpen, Crashed, SameMark
  <2>4. \A n \in DOMAIN tmp :
          /\ tmp[n].boot \notin cut \cup d.cuts
          /\ tmp[n].kind = "message" /\ unix'.at = "write" => tmp[n].id # unix'.id
    BY <1>1, <1>4, <1>6, <2>1 DEF Ordered, Logged, Kin, SameLine
  <2>5. ASSUME NEW m \in logged, m.boot \notin cut \cup d.cuts
        PROVE  InLog(tmp, m)
    <3>1. PICK n \in DOMAIN log : /\ SameLine(log[n], m) /\ (m.text = "plain" => log[n].text = "plain")
                                  /\ \A k \in DOMAIN log : SameLine(log[k], m) => k = n
      BY <1>4, <2>5 DEF Ordered, Logged, InLog
    <3>2. PICK i \in DOMAIN tmp : Source(d, i) = n
      BY <2>1, <2>5, <3>1 DEF SameLine
    <3>3. SameLine(tmp[i], m) /\ (m.text = "plain" => tmp[i].text = "plain")
      BY <2>1, <3>1, <3>2 DEF Kin, SameLine
    <3>4. \A j \in DOMAIN tmp : SameLine(tmp[j], m) => j = i
      BY <2>1, <3>1, <3>2 DEF Kin, SameLine
    <3> QED
      BY <3>3, <3>4 DEF InLog
  <2>6. \A m \in logged : m.kind = "message"
    BY DEF Ordered, Logged
  <2>7. Logged'
    BY <1>1, <1>5, <1>6, <2>1, <2>3, <2>4, <2>5, <2>6 DEF Logged
  <2> QED
    BY <1>7, <1>8, <2>2, <2>7 DEF Ordered
<1> QED
  BY <1>10, <1>11
-----------------------------------------------------------------------------
(* The temporary log takes its place.                                      *)
LEMMA RenameLogStep ==
  ASSUME Clear, FileTypes, ThreadTypes, Ordered, NEW c \in Ctls, RenameLog(c), ~Unguarded'
  PROVE  Ordered'
<1>0. ctl \in [Ctls -> Runs]
  BY Numbers
<1>1. /\ ctl[c].at = "rename" /\ log' = tmp /\ tmp' = <<>> /\ logFile' = logFile + 1
      /\ ctl' = [ctl EXCEPT ![c].at = "parse"] /\ cut' = cut \cup ctl[c].cuts
      /\ UNCHANGED <<index, indexFile, lock, daemon, unix, kernel, opened, boots, crashes, logged>>
  BY DEF RenameLog, CtlDoes, threads
<1>2. /\ ctl'[c].at = "parse" /\ \A b \in Ctls \ {c} : ctl'[b] = ctl[b]
  BY <1>0, <1>1 DEF Runs
<1>3. /\ \A b \in Ctls \ {c} : ctl[b].at = "idle" /\ ctl'[b].at = "idle"
      /\ ~Writing /\ ~Writing' /\ ~Appending /\ ~Appending'
      /\ Text' = log' /\ Removed' = cut'
  BY <1>1, <1>2, CtlStep
<1>4. Renaming = {c} /\ Text = tmp /\ Removed = cut'
  BY <1>1, <1>3 DEF Renaming, Text, Removed
<1>5. Logged'
  BY <1>1, <1>3, <1>4, LoggedStays DEF Ordered
<1>6. unix.at = "idle" /\ opened = 0
  <2>1. lock = c
    BY <1>1 DEF Ordered, Guarded
  <2>2. unix.at = "idle"
    BY <2>1, LogAssumption DEF ThreadTypes
  <2> QED
    BY <1>3, <2>2 DEF Ordered, Guarded, Appending
<1>7. Guarded'
  BY <1>1, <1>2, <1>3, <1>6 DEF Ordered, Guarded, Appending
<1>8. log' = <<>> => Indexed'
  BY <1>1 DEF Indexed, Crashed, Ordered, Cutting
<1>9. DaemonIndex' /\ CtlIndex' /\ Cutting'
  BY <1>2, <1>3, <1>8 DEF DaemonIndex, CtlIndex, Cutting, Busy
<1> QED
  BY <1>5, <1>7, <1>9 DEF Ordered

(* A repair is asked for.                                                  *)
LEMMA RepairStep ==
  ASSUME Clear, FileTypes, ThreadTypes, Ordered, NEW c \in Ctls, Repair(c), ~Unguarded'
  PROVE  Ordered'
<1>0. ctl \in [Ctls -> Runs]
  BY Numbers
<1>1. /\ ctl[c].at = "idle" /\ ctl' = [ctl EXCEPT ![c] = [Idle EXCEPT !.at = "parse"]]
      /\ UNCHANGED <<log, index, tmp, logFile, indexFile, lock, daemon, unix, kernel, opened, boots,
                     crashes, logged, cut>>
  BY DEF Repair, Requested, CtlDoes, threads, files
<1>2. /\ ctl'[c].at = "parse" /\ \A b \in Ctls \ {c} : ctl'[b] = ctl[b]
  BY <1>0, <1>1 DEF Idle
<1>3. c \in Busy'
  BY <1>2 DEF Busy
<1>4. /\ \A b \in Ctls \ {c} : ctl[b].at = "idle" /\ ctl'[b].at = "idle"
      /\ ~Writing /\ ~Writing' /\ ~Appending /\ ~Appending'
  BY <1>1, <1>2, <1>3, Alone
<1>5. Busy = {}
  BY <1>1, <1>4 DEF Busy
<1>6. Indexed /\ Text = log /\ Removed = cut
  BY <1>4, <1>5, AllIdle DEF Ordered, DaemonIndex
<1>7. Text' = log /\ Removed' = cut
  BY <1>1, <1>2, <1>4 DEF Renaming, Text, Removed
<1>8. Logged'
  BY <1>1, <1>6, <1>7, LoggedStays DEF Ordered
<1>9. Guarded'
  <2>1. tmp = <<>>
    BY <1>1, <1>4 DEF Ordered, Guarded
  <2> QED
    BY <1>1, <1>2, <1>4, <2>1 DEF Ordered, Guarded, Appending
<1>10. Indexed'
  BY <1>1, <1>6, SameIndexed DEF Crashed
<1>11. DaemonIndex' /\ CtlIndex' /\ Cutting'
  BY <1>2, <1>4, <1>10 DEF DaemonIndex, CtlIndex, Cutting
<1> QED
  BY <1>8, <1>9, <1>11 DEF Ordered

(* The steps of a repair: they change no log.                              *)
LEMMA RepairStays ==
  ASSUME Clear, FileTypes, ThreadTypes, Ordered, NEW c \in Ctls, ~Unguarded',
         ctl[c].at \in {"parse", "create", "open", "write", "end"},
         ctl'[c].at \in {"create", "open", "write", "end", "idle"},
         \A b \in Ctls \ {c} : ctl'[b] = ctl[b],
         UNCHANGED <<log, tmp, logFile, daemon, unix, kernel, opened, boots, crashes, logged, cut>>
  PROVE  /\ Guarded' /\ Logged' /\ Cutting' /\ ~Writing' /\ Tidy(log)
         /\ \A b \in Ctls \ {c} : ctl'[b].at = "idle"
<1>1. /\ \A b \in Ctls \ {c} : ctl[b].at = "idle" /\ ctl'[b].at = "idle"
      /\ ~Writing /\ ~Writing' /\ ~Appending /\ ~Appending'
      /\ Text' = Text /\ Removed' = Removed /\ tmp = <<>> /\ Tidy(log)
  BY CtlStep
<1>2. Logged'
  BY <1>1, LoggedStays DEF Ordered
<1>3. Guarded'
  BY <1>1 DEF Ordered, Guarded
<1>4. Cutting'
  BY <1>1 DEF Cutting
<1> QED
  BY <1>1, <1>2, <1>3, <1>4

(* The log is parsed: it is readable, so it gives the new index.           *)
LEMMA ParseLogStep ==
  ASSUME Clear, FileTypes, ThreadTypes, Ordered, NEW c \in Ctls, ParseLog(c), ~Unguarded'
  PROVE  Ordered'
<1>0. ctl \in [Ctls -> Runs] /\ log \in Seq(AnyLine) /\ Len(log) \in Nat
  BY Numbers
<1> DEFINE stage == IF Parsed.ok /\ Parsed.entries # <<>> THEN "create" ELSE "end"
<1>1. /\ ctl[c].at = "parse"
      /\ ctl' = [ctl EXCEPT ![c].entries = EntriesOf(log), ![c].at = stage]
      /\ UNCHANGED <<log, index, tmp, logFile, indexFile, lock, daemon, unix, kernel, opened, boots,
                     crashes, logged, cut>>
  BY DEF ParseLog, CtlDoes, threads, files, Parsed, EntriesOf, ReadingOf
<1>2. /\ ctl'[c].at = stage /\ ctl'[c].entries = EntriesOf(log) /\ \A b \in Ctls \ {c} : ctl'[b] = ctl[b]
  BY <1>0, <1>1 DEF Runs
<1>3. /\ Guarded' /\ Logged' /\ Cutting' /\ ~Writing' /\ Tidy(log)
      /\ \A b \in Ctls \ {c} : ctl'[b].at = "idle"
  BY <1>1, <1>2, RepairStays
<1>4. stage = "create" \/ (stage = "end" /\ log = <<>>)
  <2>1. ReadingOf(log).ok /\ EntriesRight(EntriesOf(log), log, Len(log))
    BY <1>0, <1>3, TidyIsRead
  <2>2. Parsed.ok /\ Parsed.entries = EntriesOf(log)
    BY <2>1 DEF Parsed, EntriesOf, ReadingOf
  <2>3. log # <<>> => EntriesOf(log) # <<>>
    BY <1>0, <1>3, LastEntry
  <2> QED
    BY <2>2, <2>3
<1>5. log = <<>> => Indexed'
  BY <1>1, SameIndexed DEF Ordered, CtlIndex, Crashed
<1>6. CtlIndex'
  BY <1>1, <1>2, <1>3, <1>4, <1>5 DEF CtlIndex
<1>7. DaemonIndex'
  BY <1>2, <1>3, <1>4 DEF DaemonIndex, Busy
<1> QED
  BY <1>3, <1>6, <1>7 DEF Ordered

(* The index is removed and touched.                                       *)
LEMMA CreateIndexStep ==
  ASSUME Clear, FileTypes, ThreadTypes, Ordered, NEW c \in Ctls, CreateIndex(c), ~Unguarded'
  PROVE  Ordered'
<1>0. ctl \in [Ctls -> Runs]
  BY Numbers
<1>1. /\ ctl[c].at = "create" /\ index' = <<>> /\ ctl' = [ctl EXCEPT ![c].at = "open"]
      /\ UNCHANGED <<log, tmp, logFile, lock, daemon, unix, kernel, opened, boots, crashes, logged, cut>>
  BY DEF CreateIndex, CtlDoes, threads
<1>2. /\ ctl'[c].at = "open" /\ ctl'[c].entries = ctl[c].entries /\ \A b \in Ctls \ {c} : ctl'[b] = ctl[b]
  BY <1>0, <1>1 DEF Runs
<1>3. /\ Guarded' /\ Logged' /\ Cutting' /\ ~Writing'
      /\ \A b \in Ctls \ {c} : ctl'[b].at = "idle"
  BY <1>1, <1>2, RepairStays
<1>4. CtlIndex'
  BY <1>1, <1>2, <1>3 DEF Ordered, CtlIndex
<1>5. DaemonIndex'
  BY <1>2, <1>3 DEF DaemonIndex, Busy
<1> QED
  BY <1>3, <1>4, <1>5 DEF Ordered

(* It is opened, and the entries are to be written.                        *)
LEMMA OpenIndexStep ==
  ASSUME Clear, FileTypes, ThreadTypes, Ordered, NEW c \in Ctls, OpenIndex(c), ~Unguarded'
  PROVE  Ordered'
<1>0. ctl \in [Ctls -> Runs] /\ ctl[c].entries \in Seq(BoundedEntries)
  BY Numbers DEF Runs
<1>1. /\ ctl[c].at = "open" /\ ctl' = [ctl EXCEPT ![c].at = "write", ![c].file = indexFile]
      /\ UNCHANGED <<log, index, tmp, logFile, indexFile, lock, daemon, unix, kernel, opened, boots,
                     crashes, logged, cut>>
  BY DEF OpenIndex, CtlDoes, threads, files
<1>2. /\ ctl'[c].at = "write" /\ ctl'[c].entries = ctl[c].entries /\ ctl'[c].file = indexFile
      /\ \A b \in Ctls \ {c} : ctl'[b] = ctl[b]
  BY <1>0, <1>1 DEF Runs
<1>3. /\ Guarded' /\ Logged' /\ Cutting' /\ ~Writing'
      /\ \A b \in Ctls \ {c} : ctl'[b].at = "idle"
  BY <1>1, <1>2, RepairStays
<1>4. index \o ctl[c].entries = EntriesOf(log)
  <2>1. index = <<>> /\ ctl[c].entries = EntriesOf(log)
    BY <1>1 DEF Ordered, CtlIndex
  <2> QED
    BY <1>0, <2>1
<1>5. CtlIndex'
  BY <1>1, <1>2, <1>3, <1>4 DEF CtlIndex
<1>6. DaemonIndex'
  BY <1>2, <1>3 DEF DaemonIndex, Busy
<1> QED
  BY <1>3, <1>5, <1>6 DEF Ordered

(* The first of the entries that are left goes over to the index.          *)
LEMMA HeadAppended ==
  ASSUME NEW S, NEW s \in Seq(S), NEW t \in Seq(S), t # <<>>
  PROVE  Append(s, Head(t)) \o Tail(t) = s \o t
<1>1. Head(t) \in S /\ Tail(t) \in Seq(S) /\ Len(Tail(t)) = Len(t) - 1 /\ Len(t) \in Nat \ {0}
  BY EmptySeq
<1> DEFINE u == Append(s, Head(t)) \o Tail(t)
           v == s \o t
<1>2. u \in Seq(S) /\ v \in Seq(S) /\ Len(u) = Len(s) + Len(t) /\ Len(v) = Len(s) + Len(t)
  BY <1>1
<1>3. \A i \in 1..Len(u) : u[i] = v[i]
  BY <1>1, <1>2
<1> HIDE DEF u, v
<1>4. u = v
  BY <1>2, <1>3, SeqEqual
<1> QED
  BY <1>4 DEF u, v

(* An entry of the index is written.                                       *)
LEMMA WriteIndexStep ==
  ASSUME Clear, FileTypes, ThreadTypes, Ordered, NEW c \in Ctls, WriteIndex(c), ~Unguarded'
  PROVE  Ordered'
<1> DEFINE e == ctl[c].entries
<1>0. ctl \in [Ctls -> Runs] /\ e \in Seq(BoundedEntries) /\ index \in Seq(BoundedEntries)
  BY Numbers DEF Runs, FileTypes
<1>1. /\ ctl[c].at = "write" /\ e # <<>> /\ ctl[c].file = indexFile
      /\ index \o e = EntriesOf(log) /\ index' = Append(index, Head(e))
      /\ UNCHANGED <<log, tmp, logFile, indexFile, lock, daemon, unix, kernel, opened, boots, crashes,
                     logged, cut>>
  BY DEF WriteIndex, CtlDoes, threads, Ordered, CtlIndex
<1>2. /\ ctl'[c].at = (IF Len(e) = 1 THEN "end" ELSE "write") /\ ctl'[c].entries = Tail(e)
      /\ ctl'[c].file = ctl[c].file /\ \A b \in Ctls \ {c} : ctl'[b] = ctl[b]
  BY <1>0 DEF WriteIndex, Runs
<1>3. /\ Guarded' /\ Logged' /\ Cutting' /\ ~Writing'
      /\ \A b \in Ctls \ {c} : ctl'[b].at = "idle"
  BY <1>1, <1>2, RepairStays
<1>4. index' \o Tail(e) = EntriesOf(log)
  BY <1>0, <1>1, HeadAppended
<1>5. ctl'[c].at = "end" => Indexed'
  <2> HAVE ctl'[c].at = "end"
  <2>1. Len(e) = 1
    BY <1>2
  <2>2. Tail(e) = <<>> /\ Head(e) \in BoundedEntries
    <3>1. /\ Head(e) \in BoundedEntries /\ Tail(e) \in Seq(BoundedEntries)
          /\ Len(Tail(e)) = Len(e) - 1
      BY <1>0, <1>1, HeadTailProperties
    <3> DEFINE u == Tail(e)
    <3>2. u \in Seq(BoundedEntries) /\ Len(u) = 0
      BY <2>1, <3>1
    <3> HIDE DEF u
    <3>3. u = <<>>
      BY <3>2, EmptySeq
    <3> QED
      BY <3>1, <3>3 DEF u
  <2> DEFINE i == Append(index, Head(e))
  <2>3. i \in Seq(BoundedEntries)
    BY <1>0, <2>2, AppendProperties
  <2> HIDE DEF i
  <2>4. i \o <<>> = i
    BY <2>3, ConcatEmptySeq
  <2>5. index' = EntriesOf(log)
    BY <1>1, <1>4, <2>2, <2>4 DEF i
  <2> QED
    BY <1>1, <2>5 DEF Indexed
<1> HIDE DEF e
<1>6. CtlIndex' /\ DaemonIndex'
  BY <1>1, <1>2, <1>3, <1>4, <1>5 DEF CtlIndex, DaemonIndex, Busy
<1> QED
  BY <1>3, <1>6 DEF Ordered

(* The run ends, with the index that is true.                              *)
LEMMA CtlEndsStep ==
  ASSUME Clear, FileTypes, ThreadTypes, Ordered, NEW c \in Ctls, CtlEnds(c), ~Unguarded'
  PROVE  Ordered'
<1>0. ctl \in [Ctls -> Runs]
  BY Numbers
<1>1. /\ ctl[c].at = "end" /\ ctl' = [ctl EXCEPT ![c] = Idle]
      /\ UNCHANGED <<log, index, tmp, logFile, indexFile, daemon, unix, kernel, opened, boots, crashes,
                     logged, cut>>
  BY DEF CtlEnds, CtlDoes, threads, files
<1>2. /\ ctl'[c].at = "idle" /\ \A b \in Ctls \ {c} : ctl'[b] = ctl[b]
  BY <1>0, <1>1 DEF Idle
<1>3. /\ Guarded' /\ Logged' /\ Cutting' /\ ~Writing'
      /\ \A b \in Ctls \ {c} : ctl'[b].at = "idle"
  BY <1>1, <1>2, RepairStays
<1>4. Indexed'
  BY <1>1, SameIndexed DEF Ordered, CtlIndex, Crashed
<1>5. CtlIndex' /\ DaemonIndex'
  BY <1>2, <1>3, <1>4 DEF CtlIndex, DaemonIndex
<1> QED
  BY <1>3, <1>5 DEF Ordered
-----------------------------------------------------------------------------
(* Every step keeps the files in order while the run is orderly.           *)
LEMMA OrderedStep ==
  ASSUME FileTypes, ThreadTypes, Running, Orderly => Ordered, [Next]_vars, Orderly'
  PROVE  Ordered'
<1>0. Clear
  BY DEF Orderly, Clear
<1>1. Orderly /\ (~UNCHANGED vars => ~Unguarded')
  BY ZenonT(40) DEF Next, vars, Unitlogctl, Note, Orderly, Undisturbed, FileTypes, WriteIndexEntry, WriteLogEntry, DaemonStops,
    DaemonCrashes, UnixLock, UnixWrite, UnixCloses, UnixUnlock, KernelBegins, KernelWrites, KernelCloses,
    KernelEnds, AssertionFails, DaemonStarts, Vacuum, CtlLock, CopyLine, RemoveLog, RenameLog, Repair,
    ParseLog, CreateIndex, OpenIndex, WriteIndex, CtlEnds, CtlCrashes, CtlDoes
<1>2. Ordered
  BY <1>1
<1>3. CASE UNCHANGED vars
  <2>1. UNCHANGED <<log, index, tmp, logFile, indexFile, lock, daemon, unix, kernel, opened, ctl, boots,
                    crashes, logged, cut>>
    BY <1>3 DEF vars
  <2>2. Guarded'
    BY <1>2, <2>1 DEF Ordered, Guarded, Unguarded, Busy, Writing, Appending
  <2>3. Logged'
    BY <1>2, <2>1, SameLogged DEF Ordered
  <2>4. DaemonIndex' /\ CtlIndex' /\ Cutting'
    BY <1>2, <2>1, SameDaemonIndex, SameCtls DEF Ordered, Crashed
  <2> QED
    BY <2>2, <2>3, <2>4 DEF Ordered
<1>4. CASE ~UNCHANGED vars
  <2>0. ~Unguarded'
    BY <1>1, <1>4
  <2>1. CASE DaemonStarts
    BY <1>0, <1>2, <2>0, <2>1, DaemonStartsStep
  <2>2. CASE WriteIndexEntry
    BY <1>0, <1>2, <2>0, <2>2, WriteIndexEntryStep
  <2>3. CASE WriteLogEntry
    BY <1>0, <1>2, <2>0, <2>3, WriteLogEntryStep
  <2>4. CASE DaemonStops
    BY <1>0, <1>2, <2>0, <2>4, DaemonStopsStep
  <2>5. CASE DaemonCrashes
    BY <1>0, <1>2, <2>0, <2>5, DaemonCrashesStep
  <2>6. CASE UnixLock
    BY <1>0, <1>2, <2>0, <2>6, UnixLockStep
  <2>7. CASE UnixWrite
    BY <1>0, <1>2, <2>0, <2>7, UnixWriteStep
  <2>8. CASE UnixUnlock
    BY <1>0, <1>2, <2>0, <2>8, UnixUnlockStep
  <2>9. CASE KernelBegins
    BY <1>0, <1>2, <2>0, <2>9, KernelBeginsStep
  <2>10. CASE KernelWrites
    BY <1>0, <1>2, <2>0, <2>10, KernelWritesStep
  <2>11. CASE KernelCloses
    BY <1>0, <1>2, <2>0, <2>11, KernelClosesStep
  <2>12. CASE AssertionFails
    BY <1>0, <1>2, <2>12, NoAssertionFails DEF Ordered
  <2>14. CASE UnixCloses
    BY <1>0, <1>2, <2>0, <2>14, UnixClosesStep
  <2>15. CASE KernelEnds
    BY <1>0, <1>2, <2>0, <2>15, KernelEndsStep
  <2>13. ASSUME NEW c \in Ctls, Unitlogctl(c) PROVE Ordered'
    <3>1. CASE \E first, last \in 0..MaxBoots : Vacuum(c, first, last)
      BY <1>0, <1>2, <2>0, <3>1, VacuumStep
    <3>2. CASE CtlLock(c)
      BY <1>0, <1>2, <2>0, <3>2, CtlLockStep
    <3>3. CASE CopyLine(c)
      BY <1>0, <1>2, <2>0, <3>3, CopyLineStep
    <3>4. CASE RemoveLog(c)
      BY <1>0, <1>2, <2>0, <3>4, RemoveLogStep
    <3>5. CASE RenameLog(c)
      BY <1>0, <1>2, <2>0, <3>5, RenameLogStep
    <3>6. CASE Repair(c)
      BY <1>0, <1>2, <2>0, <3>6, RepairStep
    <3>7. CASE ParseLog(c)
      BY <1>0, <1>2, <2>0, <3>7, ParseLogStep
    <3>8. CASE CreateIndex(c)
      BY <1>0, <1>2, <2>0, <3>8, CreateIndexStep
    <3>9. CASE WriteIndex(c)
      BY <1>0, <1>2, <2>0, <3>9, WriteIndexStep
    <3>10. CASE CtlEnds(c)
      BY <1>0, <1>2, <2>0, <3>10, CtlEndsStep
    <3>11. CASE CtlCrashes(c)
      BY <3>11 DEF CtlCrashes, Orderly, Undisturbed
    <3>12. CASE OpenIndex(c)
      BY <1>0, <1>2, <2>0, <3>12, OpenIndexStep
    <3> QED
      BY <2>13, <3>1, <3>2, <3>3, <3>4, <3>5, <3>6, <3>7, <3>8, <3>9, <3>10, <3>11, <3>12 DEF Unitlogctl
  <2> QED
    BY <1>4, <2>1, <2>2, <2>3, <2>4, <2>5, <2>6, <2>7, <2>8, <2>9, <2>10, <2>11, <2>12, <2>13, <2>14, <2>15 DEF Next
<1> QED
  BY <1>3, <1>4

(* IInv holds in every state.                                              *)
THEOREM Invariance == Spec => []IInv
<1>1. Init => IInv
  BY Initially
<1>2. IInv /\ [Next]_vars => IInv'
  BY TypeStep, RunningStep, OrderedStep DEF IInv
<1> QED
  BY <1>1, <1>2, PTL DEF Spec

(* Every variable has its type, boots and messages within the bounds.      *)
THEOREM Typing == Spec => []TypeOK
<1>1. IInv => TypeOK
  BY TypesAre DEF IInv
<1> QED
  BY <1>1, Invariance, PTL
-----------------------------------------------------------------------------
(* What the invariant says of the log when nobody is at work on it.        *)
LEMMA WhenQuiet ==
  ASSUME IInv, Orderly, Quiet
  PROVE  /\ Clear /\ Ordered /\ Text = log /\ Removed = cut /\ Tidy(log)
         /\ daemon.at = "run" \/ crashes = 0 => index = EntriesOf(log)
<1>1. Clear /\ Ordered /\ Busy = {} /\ ~Writing
  BY DEF IInv, Quiet, Orderly, Clear
<1>2. Text = log /\ Removed = cut
  BY <1>1, AllIdle
<1>3. Tidy(log)
  BY <1>1, <1>2 DEF Ordered, Logged
<1>4. daemon.at = "run" \/ crashes = 0 => ~Crashed
  BY <1>1, Numbers DEF Crashed, IInv
<1> QED
  BY <1>1, <1>2, <1>3, <1>4 DEF Ordered, DaemonIndex, Indexed

(* In an orderly run a message that has been written stays in the log,     *)
(* once, until a vacuum removes its boot, and as it was sent if it has no  *)
(* conversion, whatever the daemon, its crashes and other vacuums do       *)
(* (processLine under the lock, logline.c:150-176, cutLog,                 *)
(* client.c:381-438).                                                      *)
THEOREM MessagesAreKept == Spec => []LoggedIsKept
<1>1. IInv => LoggedIsKept
  <2> SUFFICES ASSUME IInv, Orderly, Quiet, NEW m \in logged, m.boot \notin cut
               PROVE  \E n \in DOMAIN log : /\ {k \in DOMAIN log : SameLine(log[k], m)} = {n}
                                            /\ m.text = "plain" => log[n] = m
    BY DEF LoggedIsKept
  <2>1. PICK n \in DOMAIN log : /\ SameLine(log[n], m) /\ (m.text = "plain" => log[n].text = "plain")
                                /\ \A k \in DOMAIN log : SameLine(log[k], m) => k = n
    BY WhenQuiet DEF Ordered, Logged, InLog
  <2>2. {k \in DOMAIN log : SameLine(log[k], m)} = {n}
    BY <2>1
  <2>3. m.text = "plain" => log[n] = m
    <3>1. m \in Bounded /\ log[n] \in Bounded
      BY DEF IInv, FileTypes
    <3> QED
      BY <2>1, <3>1 DEF SameLine, Bounded
  <2> QED
    BY <2>2, <2>3
<1> QED
  BY <1>1, Invariance, PTL

(* In an orderly run no line of the boots a vacuum has cut is in the log;  *)
(* in every run the running boot is not cut, even if runs of unitlogctl    *)
(* have been disturbed or interrupted (vacuum, client.c:472-585).          *)
THEOREM BootsAreCut == Spec => []CutIsGone
<1>1. IInv => CutIsGone
  <2> SUFFICES ASSUME IInv PROVE CutIsGone
    OBVIOUS
  <2>1. Orderly /\ Quiet => \A n \in DOMAIN log : log[n].boot \notin cut
    BY WhenQuiet DEF Ordered, Logged
  <2>2. daemon.at = "run" => boots \notin cut
    <3>1. daemon.at = "run" => Unfinished
      BY DEF IInv, ThreadTypes, Unfinished, Finished
    <3> QED
      BY <3>1 DEF IInv, Running
  <2> QED
    BY <2>1, <2>2 DEF CutIsGone
<1> QED
  BY <1>1, Invariance, PTL

(* In an orderly run getIndex reads the log to its end: a repair can       *)
(* rebuild the index after any crash of the daemon (index.c:44-195).       *)
THEOREM LogStaysReadable == Spec => []LogIsReadable
<1>1. IInv => LogIsReadable
  <2> SUFFICES ASSUME IInv, Orderly, \A c \in Ctls : ctl[c].at # "rename"
               PROVE  Parsed.ok
    BY DEF LogIsReadable
  <2>1. Text = log
    BY DEF Text, Renaming
  <2>2. Tidy(log) /\ log \in Seq(AnyLine)
    BY <2>1, Numbers DEF IInv, Ordered, Logged, Orderly, Clear
  <2> QED
    BY <2>2, TidyIsRead DEF Parsed, ReadingOf
<1> QED
  BY <1>1, Invariance, PTL

(* In an orderly run the index is, while the daemon serves, what a repair  *)
(* would build, and passes the integrity check (indexIntegrityCheck,       *)
(* index.c:238-262).                                                       *)
THEOREM IndexStaysTrue == Spec => []IndexIsTrue
<1>1. IInv => IndexIsTrue
  <2> SUFFICES ASSUME IInv, Orderly, Quiet, daemon.at = "run" \/ crashes = 0
               PROVE  index = Parsed.entries /\ IntegrityCheck
    BY DEF IndexIsTrue
  <2>1. index = EntriesOf(log) /\ Tidy(log) /\ log \in Seq(AnyLine) /\ Len(log) \in Nat
    BY WhenQuiet, Numbers DEF IInv
  <2>2. EntriesRight(index, log, Len(log)) /\ index \in Seq(AnyEntry)
    BY <2>1, TidyIsRead
  <2>3. WellFormed
    BY <2>2 DEF WellFormed, EntriesRight
  <2>4. ASSUME NEW i \in DOMAIN index PROVE MatchLogLine(index[i])
    <3> DEFINE o == index[i].offset
    <3>1. o \in 0..(Len(log) - 1) /\ index[i] = Entry(log[o + 1], o)
      BY <2>2 DEF EntriesRight
    <3> HIDE DEF o
    <3>2. o < Len(log) /\ log[o + 1].kind = index[i].kind /\ log[o + 1].boot = index[i].boot
      BY <2>1, <3>1 DEF Entry
    <3> QED
      BY <3>2 DEF MatchLogLine, o
  <2> QED
    BY <2>1, <2>3, <2>4 DEF IntegrityCheck, Parsed, EntriesOf, ReadingOf
<1> QED
  BY <1>1, Invariance, PTL

(* In an orderly run show-boot prints the lines of its boot, all of them   *)
(* and no other (client.c:244-311).                                        *)
THEOREM ShowStaysExact == Spec => []ShowIsExact
<1>1. IInv => ShowIsExact
  <2> SUFFICES ASSUME IInv, Orderly, Quiet, daemon.at = "run", NEW idx \in 0..MaxIdx
               PROVE  LET b == index[2 * idx + 1].boot
                      IN /\ \A n \in ShowBoot(idx) : log[n].boot = b
                         /\ \A m \in logged : m.boot = b => \E n \in ShowBoot(idx) : SameLine(log[n], m)
    BY DEF ShowIsExact
  <2> DEFINE b == index[2 * idx + 1].boot
             p == index[2 * idx + 1].offset + 1
             q == Stop(idx) + 1
  <2>1. /\ index = EntriesOf(log) /\ Tidy(log) /\ log \in Seq(AnyLine) /\ Len(log) \in Nat
        /\ DOMAIN log = 1..Len(log) /\ Text = log /\ Removed = cut /\ Ordered
    BY WhenQuiet, Numbers DEF IInv
  <2>2. EntriesRight(index, log, Len(log)) /\ index \in Seq(AnyEntry)
    BY <2>1, TidyIsRead
  <2>3. Len(index) \in Nat /\ DOMAIN index = 1..Len(index) /\ Len(index) % 2 = 1 /\ log # <<>>
    BY <2>1, <2>2, LastEntry DEF Ordered, Logged, IsOpen
  <2>4. idx \in Nat /\ 2 * idx + 1 \in DOMAIN index /\ (2 * idx + 2 \notin DOMAIN index => 2 * idx + 1 = Len(index))
    <3>1. MaxIdx = (Len(index) - 1) \div 2 /\ Len(index) = 2 * MaxIdx + 1 /\ MaxIdx \in Nat
      <4> DEFINE L == Len(index)
      <4>1. L \in Nat /\ L % 2 = 1 /\ MaxIdx = (L - 1) \div 2
        BY <2>3 DEF MaxIdx
      <4> HIDE DEF L
      <4>2. L = 2 * MaxIdx + 1 /\ MaxIdx \in Nat
        BY <4>1
      <4> QED
        BY <4>1, <4>2 DEF L
    <3> QED
      BY <2>3, <3>1
  <2>5. \A i \in DOMAIN index : /\ index[i].offset \in Nat /\ index[i].offset + 1 \in DOMAIN log
                                /\ log[index[i].offset + 1].kind = index[i].kind
                                /\ log[index[i].offset + 1].boot = index[i].boot
    <3> TAKE i \in DOMAIN index
    <3> DEFINE o == index[i].offset
    <3>1. o \in 0..(Len(log) - 1) /\ index[i] = Entry(log[o + 1], o)
      BY <2>2 DEF EntriesRight
    <3> HIDE DEF o
    <3>2. o \in Nat /\ o + 1 \in DOMAIN log /\ log[o + 1].kind = index[i].kind /\ log[o + 1].boot = index[i].boot
      BY <2>1, <3>1 DEF Entry
    <3> QED
      BY <3>2 DEF o
  <2>6. \A n \in DOMAIN log : log[n].boot = b <=> n \in p..q
    <3> TAKE n \in DOMAIN log
    <3>1. CASE 2 * idx + 2 \in DOMAIN index
      <4>1. (\E i \in idx..idx : index[2 * i + 1].boot = log[n].boot)
              <=> n \in (index[2 * idx + 1].offset + 1)..(index[2 * idx + 2].offset + 1)
        <5>1. idx <= idx
          BY <2>4
        <5> HIDE DEF p, q, b
        <5> QED
          BY <2>1, <2>2, <2>4, <3>1, <5>1, LinesOfPositions, ZenonT(40)
      <4>2. q = index[2 * idx + 2].offset + 1
        BY <3>1 DEF Stop
      <4>3. idx..idx = {idx}
        BY <2>4
      <4> QED
        BY <4>1, <4>2, <4>3
    <3>2. CASE 2 * idx + 2 \notin DOMAIN index
      <4>1. q = Len(log) /\ index[2 * idx + 1] = index[Len(index)]
        BY <2>1, <2>4, <3>2 DEF Stop
      <4>2. b = log[Len(log)].boot /\ Len(log) \in DOMAIN log
        <5>1. Len(log) > 0
          BY <2>1, <2>3
        <5> QED
          BY <2>1, <2>2, <4>1, <5>1 DEF EntriesRight
      <4>3. p \in DOMAIN log /\ log[p].boot = b /\ log[p].kind = "start"
        <5>1. index[2 * idx + 1].kind = "start"
          <6>1. (2 * idx + 1) % 2 = 1
            BY <2>4
          <6> QED
            BY <2>2, <2>4, <6>1 DEF EntriesRight
        <5> QED
          BY <2>4, <2>5, <5>1
      <4> HIDE DEF p, q, b
      <4>4. ASSUME n \in p..q PROVE log[n].boot = b
        <5>1. p <= n /\ n <= Len(log)
          BY <2>1, <4>1, <4>4
        <5>2. log[p].boot <= log[n].boot /\ log[n].boot <= log[Len(log)].boot
          BY <2>1, <4>2, <4>3, <5>1 DEF Tidy
        <5>3. log[n].boot \in Nat /\ log[p].boot \in Nat
          BY <2>1, <4>3, Borders
        <5> QED
          BY <4>2, <4>3, <5>2, <5>3
      <4>5. ASSUME n \notin p..q PROVE log[n].boot # b
        <5>1. n < p
          BY <2>1, <4>1, <4>3, <4>5
        <5>2. log[n].boot < log[p].boot /\ log[n].boot \in Nat /\ log[p].boot \in Nat
          BY <2>1, <4>3, <5>1, Borders
        <5> QED
          BY <4>3, <5>2
      <4> QED
        BY <4>4, <4>5
    <3> QED
      BY <3>1, <3>2
  <2>8. p..q \subseteq DOMAIN log
    <3>1. Stop(idx) + 1 \in Int /\ Stop(idx) + 1 <= Len(log)
      BY <2>1, <2>5 DEF Stop
    <3>2. p \in Nat /\ 1 <= p
      BY <2>1, <2>4, <2>5
    <3> HIDE DEF p
    <3> QED
      BY <2>1, <3>1, <3>2
  <2>7. ShowBoot(idx) = {n \in p..q : log[n].kind \in {"message", "kernel"}}
    <3>1. \A n \in p..q : ~Joined(log, n)
      BY <2>1, <2>8, WholeReading
    <3> QED
      BY <3>1 DEF ShowBoot, Shown
  <2>9. p \in DOMAIN log /\ log[p].boot = b
    BY <2>4, <2>5
  <2> HIDE DEF p, q, b
  <2>10. b \notin cut
    BY <2>1, <2>9 DEF Ordered, Logged
  <2>11. ASSUME NEW m \in logged, m.boot = b PROVE \E n \in ShowBoot(idx) : SameLine(log[n], m)
    <3>1. PICK n \in DOMAIN log : SameLine(log[n], m)
      BY <2>1, <2>10, <2>11 DEF Ordered, Logged, InLog
    <3>2. m.kind = "message"
      BY <2>1 DEF Ordered, Logged
    <3> QED
      BY <2>6, <2>7, <2>11, <3>1, <3>2 DEF SameLine
  <2>12. \A n \in ShowBoot(idx) : log[n].boot = b
    BY <2>6, <2>7, <2>8
  <2> QED
    BY <2>11, <2>12 DEF b
<1> QED
  BY <1>1, Invariance, PTL
================================================================================
