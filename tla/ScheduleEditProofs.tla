--------------------------- MODULE ScheduleEditProofs ---------------------------
(***************************************************************************)
(* Proofs about ScheduleEdit, for any route, depots and limits.            *)
(***************************************************************************)
EXTENDS ScheduleEdit, SequenceTheorems, FiniteSetTheorems, TLAPS

------------------------------------------------------------------------------
(* The inductive invariant *)

(* A schedule of places P with its current stop in it *)
Entries(P) == [pos : P, timed : BOOLEAN]
Valid(s, P) ==
  /\ s \in [entries : Seq(Entries(P)), stop : Nat]
  /\ StopValid(s) /\ Count(s) <= MaxEntries

(* The last of several entries is no depot *)
Ends(s) == Count(s) > 1 => s.entries[Count(s)].pos \notin Depots

(* Depots are in the way of convoys only, and never the last of several entries: each is *)
(* put before the stop the convoy was going to                                          *)
IInv ==
  /\ Valid(window, Stops) /\ Valid(line, Stops) /\ Valid(cnv, Stops \cup Depots)
  /\ Ends(cnv)
  /\ bound \in BOOLEAN /\ pending \in BOOLEAN
  /\ edits \in 0..MaxEdits
  /\ last \in [kind : Kinds, at : Nat]

------------------------------------------------------------------------------
(* Numbers *)

(* Induction: no set of numbers that holds 0 and every successor misses a number, since the        *)
(* numbers up to it that are missed would be mapped into themselves without reaching it.           *)
LEMMA SetInduction ==
  ASSUME NEW P, 0 \in P, \A n \in Nat : n \in P => n + 1 \in P
  PROVE  \A n \in Nat : n \in P
<1> SUFFICES ASSUME NEW n \in Nat, n \notin P PROVE FALSE
  OBVIOUS
<1> DEFINE S == {m \in 0..n : m \notin P}
           f == [m \in S |-> m - 1]
<1>1. IsFiniteSet(S)
  <2>1. IsFiniteSet(0..n)
    BY FS_Interval
  <2> QED BY <2>1, FS_Subset
<1>2. f \in [S -> S]
  <2> SUFFICES ASSUME NEW m \in S PROVE m - 1 \in S
    OBVIOUS
  <2>1. m # 0 /\ m - 1 \in 0..n
    OBVIOUS
  <2>2. m - 1 \in Nat /\ (m - 1) + 1 = m
    BY <2>1
  <2> QED BY <2>1, <2>2
<1>3. f \in Injection(S, S)
  BY <1>2 DEF Injection, IsInjective
<1>4. f \in Surjection(S, S)
  BY <1>1, <1>3, FS_Injection
<1>5. PICK m \in S : f[m] = n
  <2>1. n \in S
    OBVIOUS
  <2> QED BY <1>4, <2>1 DEF Surjection
<1> QED BY <1>5

(* A set of numbers has a least one *)
LEMMA Least ==
  ASSUME NEW S, S \subseteq Nat, S # {}
  PROVE  \E x \in S : \A y \in S : x <= y
<1> DEFINE P == {n \in Nat : \A m \in S : m > n}
<1> SUFFICES ASSUME ~\E x \in S : \A y \in S : x <= y PROVE FALSE
  OBVIOUS
<1>1. \A n \in Nat : n \notin S => \A m \in S : m # n
  OBVIOUS
<1>2. 0 \in P
  OBVIOUS
<1>3. ASSUME NEW n \in Nat, n \in P PROVE n + 1 \in P
  <2>1. n + 1 \notin S
    BY <1>3
  <2> QED BY <1>3, <2>1
<1>4. \A n \in Nat : n \in P
  <2> HIDE DEF P
  <2> QED BY <1>2, <1>3, SetInduction
<1> PICK s \in S : TRUE
  OBVIOUS
<1> QED BY <1>4

(* A recursive function on numbers exists, whatever its steps compute from what they have *)
Iterating(f, start, step) == f = [k \in Nat |-> IF k = 0 THEN start ELSE step[<<k, f[k - 1]>>]]
LEMMA Iterates ==
  ASSUME NEW start, NEW step
  PROVE  \E f : Iterating(f, start, step)
<1> DEFINE Step(k, X) == step[<<k, X>>]
           upto(n, f) == /\ f = [k \in 0..n |-> f[k]]
                         /\ f[0] = start /\ \A k \in 1..n : f[k] = Step(k, f[k - 1])
           Ex == {n \in Nat : \E f : upto(n, f)}
<1> HIDE DEF Step
<1>1. 0 \in Ex
  <2>1. upto(0, [k \in 0..0 |-> start])
    OBVIOUS
  <2> QED BY <2>1
<1>2. ASSUME NEW n \in Nat, n \in Ex PROVE n + 1 \in Ex
  <2> PICK f : upto(n, f)
    BY <1>2
  <2>0. f[0] = start /\ \A k \in 1..n : f[k] = Step(k, f[k - 1])
    OBVIOUS
  <2> DEFINE g == [k \in 0..n + 1 |-> IF k <= n THEN f[k] ELSE Step(n + 1, f[n])]
  <2>1. ASSUME NEW k \in 1..n + 1 PROVE g[k] = Step(k, g[k - 1])
    <3>1. k - 1 \in 0..n /\ g[k - 1] = f[k - 1]
      OBVIOUS
    <3>2. CASE k <= n
      <4>1. k \in 1..n /\ g[k] = f[k]
        BY <3>2
      <4> HIDE DEF g, upto
      <4> QED BY <2>0, <3>1, <4>1
    <3>3. CASE k > n
      <4>1. k = n + 1 /\ k - 1 = n
        BY <3>3
      <4>2. g[k] = Step(n + 1, f[n])
        BY <3>3, <4>1
      <4> HIDE DEF g, upto
      <4> QED BY <3>1, <4>1, <4>2
    <3> QED BY <3>2, <3>3
  <2>2. upto(n + 1, g)
    <3>1. g = [k \in 0..n + 1 |-> g[k]] /\ g[0] = start
      BY <2>0
    <3> HIDE DEF g
    <3> QED BY <2>1, <3>1
  <2> HIDE DEF g, upto
  <2> QED BY <2>2
<1>3. \A n \in Nat : n \in Ex
  <2> HIDE DEF Ex
  <2> QED BY <1>1, <1>2, SetInduction
<1>4. ASSUME NEW n \in Nat, NEW m \in Nat, NEW f, NEW g, upto(n, f), upto(m, g), n <= m
      PROVE  f[n] = g[n]
  <2> DEFINE same == {i \in Nat : i <= n => f[i] = g[i]}
  <2>1. 0 \in same
    BY <1>4
  <2>2. ASSUME NEW i \in Nat, i \in same PROVE i + 1 \in same
    <3> SUFFICES ASSUME i + 1 <= n PROVE f[i + 1] = g[i + 1]
      OBVIOUS
    <3>1. i + 1 \in 1..n /\ i + 1 \in 1..m /\ (i + 1) - 1 = i /\ f[i] = g[i]
      BY <1>4, <2>2
    <3> QED BY <1>4, <3>1
  <2>3. n \in same
    <3> HIDE DEF same
    <3> QED BY <2>1, <2>2, SetInduction
  <2> QED BY <2>3
<1> DEFINE h_(n) == CHOOSE f : upto(n, f)
           F == [n \in Nat |-> h_(n)[n]]
<1>5. \A n \in Nat : upto(n, h_(n))
  <2> HIDE DEF upto
  <2> QED BY <1>3
<1>6. ASSUME NEW n \in Nat PROVE F[n] = IF n = 0 THEN start ELSE Step(n, F[n - 1])
  <2>1. CASE n = 0
    <3>1. F[0] = h_(0)[0]
      OBVIOUS
    <3>2. h_(0)[0] = start
      <4> HIDE DEF h_
      <4> QED BY <1>5
    <3> QED BY <2>1, <3>1, <3>2
  <2>2. CASE n # 0
    <3>1. n - 1 \in Nat
      BY <2>2
    <3>2. upto(n, h_(n)) /\ upto(n - 1, h_(n - 1))
      <4> HIDE DEF upto, h_
      <4> QED BY <1>5, <3>1
    <3>3. h_(n - 1)[n - 1] = h_(n)[n - 1]
      <4>1. upto(n - 1, [k \in 0..n - 1 |-> h_(n)[k]])
        <5>1. h_(n)[0] = start /\ \A k \in 1..n : h_(n)[k] = Step(k, h_(n)[k - 1])
          <6> HIDE DEF h_
          <6> QED BY <3>2
        <5>2. \A k \in 1..n - 1 : k \in 1..n /\ k - 1 \in 0..n - 1
          BY <3>1
        <5> HIDE DEF h_
        <5> QED BY <3>1, <5>1, <5>2
      <4>2. h_(n - 1)[n - 1] = [k \in 0..n - 1 |-> h_(n)[k]][n - 1]
        <5> HIDE DEF upto, h_
        <5> QED BY <3>1, <3>2, <4>1, <1>4
      <4> HIDE DEF h_
      <4> QED BY <3>1, <4>2
    <3>4. h_(n)[n] = Step(n, h_(n)[n - 1])
      <4>1. \A k \in 1..n : h_(n)[k] = Step(k, h_(n)[k - 1])
        <5> HIDE DEF h_
        <5> QED BY <3>2
      <4>2. n \in 1..n
        BY <2>2
      <4> HIDE DEF upto, h_
      <4> QED BY <4>1, <4>2
    <3>5. F[n] = h_(n)[n] /\ F[n - 1] = h_(n - 1)[n - 1]
      <4> HIDE DEF h_
      <4> QED BY <3>1
    <3> HIDE DEF F, h_
    <3> QED BY <2>2, <3>3, <3>4, <3>5
  <2> QED BY <2>1, <2>2
<1>7. F = [n \in Nat |-> F[n]]
  OBVIOUS
<1>8. F = [k \in Nat |-> IF k = 0 THEN start ELSE Step(k, F[k - 1])]
  <2> HIDE DEF F
  <2> QED BY <1>6, <1>7
<1> HIDE DEF F
<1> QED BY <1>8 DEF Step, Iterating

------------------------------------------------------------------------------
(* Sequences *)

(* What is taken out of a sequence and what is put into it *)
LEMMA Removing ==
  ASSUME NEW E, NEW e \in Seq(E), NEW i \in 1..Len(e)
  PROVE  /\ RemoveAt(e, i) \in Seq(E) /\ Len(RemoveAt(e, i)) = Len(e) - 1
         /\ \A k \in 1..Len(e) - 1 : RemoveAt(e, i)[k] = IF k < i THEN e[k] ELSE e[k + 1]
<1> DEFINE a == SubSeq(e, 1, i - 1)
           b == SubSeq(e, i + 1, Len(e))
<1>1. a \in Seq(E) /\ Len(a) = i - 1 /\ \A k \in 1..i - 1 : a[k] = e[k]
  BY SubSeqProperties
<1>2. b \in Seq(E) /\ Len(b) = Len(e) - i /\ \A k \in 1..Len(e) - i : b[k] = e[k + i]
  BY SubSeqProperties
<1> HIDE DEF a, b
<1>3. a \o b \in Seq(E) /\ Len(a \o b) = Len(e) - 1
  <2>1. a \o b \in Seq(E) /\ Len(a \o b) = Len(a) + Len(b)
    BY <1>1, <1>2, ConcatProperties
  <2> QED BY <1>1, <1>2, <2>1
<1>4. ASSUME NEW k \in 1..Len(e) - 1 PROVE (a \o b)[k] = IF k < i THEN e[k] ELSE e[k + 1]
  <2>1. (a \o b)[k] = IF k <= i - 1 THEN a[k] ELSE b[k - (i - 1)]
    BY <1>1, <1>2, ConcatProperties
  <2>2. CASE k < i
    BY <1>1, <2>1, <2>2
  <2>3. CASE k >= i
    <3>1. k - (i - 1) \in 1..Len(e) - i /\ (k - (i - 1)) + i = k + 1
      BY <2>3
    <3>2. b[k - (i - 1)] = e[k + 1]
      BY <1>2, <3>1
    <3> QED BY <2>1, <2>3, <3>2
  <2>4. k < i \/ k >= i
    OBVIOUS
  <2> QED BY <2>2, <2>3, <2>4
<1> QED BY <1>3, <1>4 DEF RemoveAt, a, b

LEMMA Inserting ==
  ASSUME NEW E, NEW e \in Seq(E), NEW i \in 1..Len(e) + 1, NEW x \in E
  PROVE  /\ InsertAt(e, i, x) \in Seq(E) /\ Len(InsertAt(e, i, x)) = Len(e) + 1
         /\ \A k \in 1..i - 1 : InsertAt(e, i, x)[k] = e[k]
         /\ InsertAt(e, i, x)[i] = x
         /\ \A k \in i..Len(e) : InsertAt(e, i, x)[k + 1] = e[k]
<1> DEFINE a == SubSeq(e, 1, i - 1)
           b == SubSeq(e, i, Len(e))
           c == a \o <<x>>
<1>1. a \in Seq(E) /\ Len(a) = i - 1 /\ \A k \in 1..i - 1 : a[k] = e[k]
  BY SubSeqProperties
<1>2. b \in Seq(E) /\ Len(b) = Len(e) - i + 1 /\ \A k \in 1..Len(e) - i + 1 : b[k] = e[k + i - 1]
  BY SubSeqProperties
<1> HIDE DEF a, b
<1>3. c \in Seq(E) /\ Len(c) = i /\ \A k \in 1..i : c[k] = IF k < i THEN e[k] ELSE x
  BY <1>1
<1> HIDE DEF c
<1>4. c \o b \in Seq(E) /\ Len(c \o b) = Len(e) + 1
  <2>1. c \o b \in Seq(E) /\ Len(c \o b) = Len(c) + Len(b)
    BY <1>3, <1>2, ConcatProperties
  <2> QED BY <1>2, <1>3, <2>1
<1>5. ASSUME NEW k \in 1..Len(e) + 1 PROVE (c \o b)[k] = IF k <= i THEN c[k] ELSE b[k - i]
  BY <1>2, <1>3, ConcatProperties
<1>6. \A k \in 1..i - 1 : (c \o b)[k] = e[k]
  BY <1>3, <1>5
<1>7. (c \o b)[i] = x
  BY <1>3, <1>5
<1>8. ASSUME NEW k \in i..Len(e) PROVE (c \o b)[k + 1] = e[k]
  <2>1. (k + 1) - i \in 1..Len(e) - i + 1 /\ ((k + 1) - i) + i - 1 = k /\ k + 1 \in 1..Len(e) + 1 /\ k + 1 > i
    OBVIOUS
  <2>2. b[(k + 1) - i] = e[k]
    BY <1>2, <2>1
  <2>3. (c \o b)[k + 1] = IF k + 1 <= i THEN c[k + 1] ELSE b[(k + 1) - i]
    BY <1>5, <2>1
  <2> QED BY <2>1, <2>2, <2>3
<1> QED BY <1>4, <1>6, <1>7, <1>8 DEF InsertAt, a, b, c

(* The last in front, the first behind, two exchanged, the other way round *)
LEMMA LastInFront ==
  ASSUME NEW E, NEW e \in Seq(E), Len(e) > 0
  PROVE  /\ <<Last(e)>> \o Front(e) \in Seq(E) /\ Len(<<Last(e)>> \o Front(e)) = Len(e)
         /\ (<<Last(e)>> \o Front(e))[1] = e[Len(e)]
         /\ \A k \in 1..Len(e) - 1 : (<<Last(e)>> \o Front(e))[k + 1] = e[k]
<1> DEFINE a == <<Last(e)>>
           b == Front(e)
<1>1. a \in Seq(E) /\ Len(a) = 1 /\ a[1] = e[Len(e)]
  BY DEF Last
<1>2. b \in Seq(E) /\ Len(b) = Len(e) - 1 /\ \A k \in 1..Len(e) - 1 : b[k] = e[k]
  <2>1. PICK n \in Nat : n = Len(e) - 1
    <3>1. Len(e) \in Nat /\ Len(e) > 0
      OBVIOUS
    <3> QED BY <3>1
  <2>2. \A k \in 1..n : e[k] \in E
    BY <2>1
  <2>3. /\ SubSeq(e, 1, n) \in Seq(E)
        /\ Len(SubSeq(e, 1, n)) = IF 1 <= n THEN n - 1 + 1 ELSE 0
        /\ \A k \in 1..n - 1 + 1 : SubSeq(e, 1, n)[k] = e[1 + k - 1]
    BY <2>2, SubSeqProperties
  <2>4. /\ SubSeq(e, 1, n) \in Seq(E) /\ Len(SubSeq(e, 1, n)) = n
        /\ \A k \in 1..n : SubSeq(e, 1, n)[k] = e[k]
    <3>1. n - 1 + 1 = n /\ (~ (1 <= n) => n = 0)
      OBVIOUS
    <3>2. \A k \in 1..n : 1 + k - 1 = k
      OBVIOUS
    <3> QED BY <2>3, <3>1, <3>2
  <2> QED BY <2>1, <2>4 DEF Front
<1> HIDE DEF a, b
<1>3. a \o b \in Seq(E) /\ Len(a \o b) = Len(a) + Len(b)
      /\ \A k \in 1..Len(a) + Len(b) : (a \o b)[k] = IF k <= Len(a) THEN a[k] ELSE b[k - Len(a)]
  BY <1>1, <1>2, ConcatProperties
<1>4. ASSUME NEW k \in 1..Len(e) - 1 PROVE (a \o b)[k + 1] = e[k]
  <2>1. (k + 1) - 1 = k /\ ~ (k + 1 <= 1) /\ k + 1 \in 1..Len(a) + Len(b)
    BY <1>1, <1>2
  <2>2. (a \o b)[k + 1] = b[(k + 1) - 1]
    BY <1>1, <1>3, <2>1
  <2> QED BY <1>2, <2>1, <2>2
<1>5. (a \o b)[1] = e[Len(e)]
  BY <1>1, <1>2, <1>3
<1> QED BY <1>1, <1>2, <1>3, <1>4, <1>5 DEF a, b

LEMMA FirstBehind ==
  ASSUME NEW E, NEW e \in Seq(E), Len(e) > 0
  PROVE  /\ Append(Tail(e), Head(e)) \in Seq(E) /\ Len(Append(Tail(e), Head(e))) = Len(e)
         /\ \A k \in 1..Len(e) - 1 : Append(Tail(e), Head(e))[k] = e[k + 1]
         /\ Append(Tail(e), Head(e))[Len(e)] = e[1]
<1> DEFINE a == Tail(e)
           x == Head(e)
<1>1. a \in Seq(E) /\ Len(a) = Len(e) - 1 /\ \A k \in 1..Len(e) - 1 : a[k] = e[k + 1]
  BY HeadTailProperties
<1>2. x \in E /\ x = e[1]
  OBVIOUS
<1> HIDE DEF a, x
<1>3. /\ Append(a, x) \in Seq(E) /\ Len(Append(a, x)) = Len(a) + 1
      /\ \A k \in 1..Len(a) : Append(a, x)[k] = a[k]
      /\ Append(a, x)[Len(a) + 1] = x
  BY <1>1, <1>2, AppendProperties
<1>4. (Len(e) - 1) + 1 = Len(e)
  OBVIOUS
<1> QED BY <1>1, <1>2, <1>3, <1>4 DEF a, x

LEMMA Swapped ==
  ASSUME NEW E, NEW e \in Seq(E), NEW i \in 0..Len(e) - 1, NEW j \in 0..Len(e) - 1
  PROVE  /\ Swap(e, i, j) \in Seq(E) /\ Len(Swap(e, i, j)) = Len(e)
         /\ \A k \in 1..Len(e) : Swap(e, i, j)[k] = IF k = j + 1 THEN e[i + 1] ELSE IF k = i + 1 THEN e[j + 1] ELSE e[k]
<1>1. i + 1 \in 1..Len(e) /\ j + 1 \in 1..Len(e) /\ e[i + 1] \in E /\ e[j + 1] \in E
  OBVIOUS
<1> DEFINE a == [e EXCEPT ![i + 1] = e[j + 1]]
<1>2. /\ a \in Seq(E) /\ Len(a) = Len(e)
      /\ \A k \in 1..Len(e) : a[k] = IF k = i + 1 THEN e[j + 1] ELSE e[k]
  BY <1>1, ExceptSeq
<1> HIDE DEF a
<1>3. /\ [a EXCEPT ![j + 1] = e[i + 1]] \in Seq(E) /\ Len([a EXCEPT ![j + 1] = e[i + 1]]) = Len(a)
      /\ \A k \in 1..Len(a) : [a EXCEPT ![j + 1] = e[i + 1]][k] = IF k = j + 1 THEN e[i + 1] ELSE a[k]
  BY <1>1, <1>2, ExceptSeq
<1>4. Swap(e, i, j) = [a EXCEPT ![j + 1] = e[i + 1]]
  BY DEF Swap, a
<1> QED BY <1>2, <1>3, <1>4

LEMMA Reversed ==
  ASSUME NEW E, NEW e \in Seq(E)
  PROVE  Reverse(e) \in Seq(E) /\ Len(Reverse(e)) = Len(e)
<1>1. \A k \in 1..Len(e) : e[(Len(e) - k) + 1] \in E
  OBVIOUS
<1> QED BY <1>1, IsASeq DEF Reverse

------------------------------------------------------------------------------
(* Schedules *)

(* The entries of a valid schedule are there and have places *)
LEMMA EntryOf ==
  ASSUME NEW P, NEW s, Valid(s, P), NEW k \in 1..Count(s)
  PROVE  s.entries[k] \in Entries(P) /\ s.entries[k].pos \in P
<1>1. s.entries \in Seq(Entries(P)) /\ k \in 1..Len(s.entries)
  BY DEF Valid, Count
<1>2. s.entries[k] \in Entries(P)
  BY <1>1
<1> QED BY <1>2 DEF Entries

LEMMA Parts ==
  ASSUME NEW P, NEW s, Valid(s, P)
  PROVE  /\ s = Of(s.entries, s.stop) /\ s.entries \in Seq(Entries(P)) /\ s.stop \in Nat
         /\ Count(s) \in Nat /\ Count(s) <= MaxEntries
         /\ DOMAIN s.entries = 1..Count(s)
         /\ Count(s) > 0 => s.stop < Count(s)
         /\ Count(s) = 0 => s = Empty /\ s.stop = 0
<1>1. s \in [entries : Seq(Entries(P)), stop : Nat]
  BY DEF Valid
<1>2. s = Of(s.entries, s.stop) /\ s.entries \in Seq(Entries(P)) /\ s.stop \in Nat
  BY <1>1 DEF Of
<1>3. Count(s) \in Nat /\ DOMAIN s.entries = 1..Count(s)
  BY <1>2 DEF Count
<1>4. ASSUME s = Empty PROVE Count(s) = 0 /\ s.stop = 0
  BY <1>4 DEF Empty, Of, Count
<1>5. s.stop < Count(s) \/ s = Empty
  BY DEF Valid, StopValid
<1> QED BY <1>2, <1>3, <1>4, <1>5 DEF Valid

(* A schedule is made of entries and a current stop *)
LEMMA Made ==
  ASSUME NEW P, NEW e \in Seq(Entries(P)), NEW n \in Nat, Len(e) <= MaxEntries,
         n < Len(e) \/ (Len(e) = 0 /\ n = 0)
  PROVE  Valid(Of(e, n), P) /\ Count(Of(e, n)) = Len(e) /\ Of(e, n).entries = e /\ Of(e, n).stop = n
<1>1. Of(e, n) \in [entries : Seq(Entries(P)), stop : Nat] /\ Of(e, n).entries = e /\ Of(e, n).stop = n
  BY DEF Of
<1>2. Len(e) = 0 => e = <<>>
  OBVIOUS
<1> QED BY <1>1, <1>2 DEF Valid, StopValid, Count, Empty, Of

(* Setting the current stop makes it valid *)
LEMMA StopSet ==
  ASSUME NEW P, NEW e \in Seq(Entries(P)), Len(e) <= MaxEntries, NEW m, NEW n \in Nat
  PROVE  /\ Valid(SetStop(Of(e, m), n), P)
         /\ SetStop(Of(e, m), n) = Of(e, IF Len(e) = 0 THEN 0 ELSE IF n >= Len(e) THEN Len(e) - 1 ELSE n)
<1> DEFINE k == IF Len(e) = 0 THEN 0 ELSE IF n >= Len(e) THEN Len(e) - 1 ELSE n
<1>1. SetStop(Of(e, m), n) = Of(e, k)
  BY DEF SetStop, Of, Count
<1>2. Len(e) \in Nat
  OBVIOUS
<1>3. k \in Nat /\ (k < Len(e) \/ (Len(e) = 0 /\ k = 0))
  BY <1>2
<1> HIDE DEF k
<1>4. Valid(Of(e, k), P)
  BY <1>3, Made
<1> QED BY <1>1, <1>4 DEF k

(* The remainder of a number on the first round and on the second *)
LEMMA Rounds ==
  ASSUME NEW n \in Nat \ {0}, NEW i \in 0..n - 1
  PROVE  i % n = i /\ (i + n) % n = i
  OBVIOUS
LEMMA Within ==
  ASSUME NEW n \in Nat \ {0}, NEW i \in Nat
  PROVE  i % n \in 0..n - 1
  OBVIOUS

LEMMA PlaceAt ==
  ASSUME NEW s, Count(s) \in Nat \ {0}, NEW i \in 0..Count(s) - 1
  PROVE  PosAt(s, i) = s.entries[i + 1].pos /\ PosAt(s, i + Count(s)) = s.entries[i + 1].pos
  BY Rounds DEF PosAt
LEMMA CurrentIs ==
  ASSUME NEW P, NEW s, Valid(s, P)
  PROVE  Current(s) = IF Count(s) = 0 THEN Nowhere ELSE s.entries[s.stop + 1].pos
  BY Parts, PlaceAt DEF Current

------------------------------------------------------------------------------
(* What the operations of a schedule give: a valid schedule, and which *)

(* Another list of entries, and another current stop, in the same record *)
LEMMA Changed ==
  ASSUME NEW s, NEW e, NEW n, s = Of(e, n), NEW x
  PROVE  /\ [s EXCEPT !.entries = x] = Of(x, n) /\ [s EXCEPT !.stop = x] = Of(e, x)
         /\ s.entries = e /\ s.stop = n /\ Count(s) = Len(e)
  BY DEF Of, Count

LEMMA Selected ==
  ASSUME NEW P, NEW s, Valid(s, P), NEW n \in Nat
  PROVE  /\ Valid(SetStop(s, n), P) /\ SetStop(s, n).entries = s.entries
         /\ Count(s) > n => SetStop(s, n) = Of(s.entries, n)
         /\ SetStop(s, n).stop = IF Count(s) = 0 THEN 0 ELSE IF n >= Count(s) THEN Count(s) - 1 ELSE n
<1>1. s = Of(s.entries, s.stop) /\ s.entries \in Seq(Entries(P)) /\ Len(s.entries) <= MaxEntries
      /\ Count(s) = Len(s.entries) /\ Count(s) \in Nat
  BY Parts DEF Count
<1> DEFINE k == IF Count(s) = 0 THEN 0 ELSE IF n >= Count(s) THEN Count(s) - 1 ELSE n
<1>2. Valid(SetStop(s, n), P) /\ SetStop(s, n) = Of(s.entries, k)
  BY <1>1, StopSet
<1> HIDE DEF k
<1>3. SetStop(s, n).entries = s.entries /\ SetStop(s, n).stop = k
  BY <1>2, Changed
<1>4. Count(s) > n => k = n
  BY <1>1 DEF k
<1> QED BY <1>2, <1>3, <1>4 DEF k

LEMMA Removed ==
  ASSUME NEW P, NEW s, Valid(s, P), NEW i \in 0..Count(s) - 1
  PROVE  /\ Valid(RemoveEntry(s, i), P) /\ Count(RemoveEntry(s, i)) = Count(s) - 1
         /\ \A k \in 1..Count(s) - 1 :
              RemoveEntry(s, i).entries[k] = IF k < i + 1 THEN s.entries[k] ELSE s.entries[k + 1]
         /\ RemoveEntry(s, i).stop = IF s.stop > i THEN s.stop - 1
                                     ELSE IF s.stop = Count(s) - 1 /\ s.stop > 0 THEN s.stop - 1 ELSE s.stop
<1> DEFINE a == RemoveAt(s.entries, i + 1)
           m == IF s.stop > i THEN s.stop - 1 ELSE s.stop
<1>1. s = Of(s.entries, s.stop) /\ s.entries \in Seq(Entries(P)) /\ Len(s.entries) <= MaxEntries
      /\ Count(s) = Len(s.entries) /\ Count(s) \in Nat /\ s.stop \in Nat /\ (Count(s) > 0 => s.stop < Count(s))
  BY Parts DEF Count
<1>2. i \in Nat /\ i + 1 \in 1..Len(s.entries) /\ s.stop < Count(s)
  BY <1>1
<1>3. /\ a \in Seq(Entries(P)) /\ Len(a) = Count(s) - 1
      /\ \A k \in 1..Count(s) - 1 : a[k] = IF k < i + 1 THEN s.entries[k] ELSE s.entries[k + 1]
  <2>1. /\ RemoveAt(s.entries, i + 1) \in Seq(Entries(P))
        /\ Len(RemoveAt(s.entries, i + 1)) = Len(s.entries) - 1
        /\ \A k \in 1..Len(s.entries) - 1 :
             RemoveAt(s.entries, i + 1)[k] = IF k < i + 1 THEN s.entries[k] ELSE s.entries[k + 1]
    BY <1>1, <1>2, Removing
  <2> QED BY <1>1, <2>1
<1>4. RemoveEntry(s, i) = SetStop(Of(a, s.stop), m)
  <2>1. [s EXCEPT !.entries = RemoveAt(s.entries, i + 1)] = Of(a, s.stop)
    BY <1>1, Changed
  <2> QED BY <2>1 DEF RemoveEntry
<1> HIDE DEF a
<1>5. m \in Nat /\ Len(a) <= MaxEntries
  BY <1>1, <1>3, <1>2, EntriesAssumption
<1> DEFINE k == IF Len(a) = 0 THEN 0 ELSE IF m >= Len(a) THEN Len(a) - 1 ELSE m
<1>6. Valid(RemoveEntry(s, i), P) /\ RemoveEntry(s, i) = Of(a, k)
  <2> HIDE DEF m
  <2> QED BY <1>3, <1>4, <1>5, StopSet
<1>7. k = IF s.stop > i THEN s.stop - 1 ELSE IF s.stop = Count(s) - 1 /\ s.stop > 0 THEN s.stop - 1 ELSE s.stop
  <2> SUFFICES ASSUME NEW c, c = Count(s), NEW r, r = s.stop, NEW d, d = Len(a)
               PROVE  (IF d = 0 THEN 0 ELSE IF (IF r > i THEN r - 1 ELSE r) >= d THEN d - 1
                       ELSE IF r > i THEN r - 1 ELSE r)
                      = IF r > i THEN r - 1 ELSE IF r = c - 1 /\ r > 0 THEN r - 1 ELSE r
    OBVIOUS
  <2>1. c \in Nat /\ i \in 0..c - 1 /\ r \in Nat /\ r < c /\ d = c - 1
    BY <1>1, <1>2, <1>3
  <2> QED BY <2>1
<1> HIDE DEF k
<1>8. RemoveEntry(s, i).entries = a /\ RemoveEntry(s, i).stop = k /\ Count(RemoveEntry(s, i)) = Len(a)
  BY <1>6, Changed
<1> QED BY <1>3, <1>6, <1>7, <1>8

(* Removing the current entry is the special case *)
LEMMA RemovedCurrent ==
  ASSUME NEW P, NEW s, Valid(s, P), Count(s) > 0
  PROVE  RemoveCurrent(s) = RemoveEntry(s, s.stop) /\ s.stop \in 0..Count(s) - 1
<1>1. s.stop \in Nat /\ Count(s) \in Nat /\ s.stop < Count(s)
  BY Parts
<1> QED BY <1>1 DEF RemoveCurrent, RemoveEntry

LEMMA Inserted ==
  ASSUME NEW P, NEW s, Valid(s, P), NEW e \in Entries(P)
  PROVE  /\ Valid(Insert(s, e), P)
         /\ Count(s) < MaxEntries =>
              /\ Count(Insert(s, e)) = Count(s) + 1
              /\ \A k \in 1..s.stop : Insert(s, e).entries[k] = s.entries[k]
              /\ Insert(s, e).entries[s.stop + 1] = e
              /\ \A k \in s.stop + 1..Count(s) : Insert(s, e).entries[k + 1] = s.entries[k]
              /\ Insert(s, e).stop = IF Count(s) = 0 THEN 0 ELSE s.stop + 1
<1>1. s = Of(s.entries, s.stop) /\ s.entries \in Seq(Entries(P)) /\ Len(s.entries) <= MaxEntries
      /\ Count(s) = Len(s.entries) /\ Count(s) \in Nat /\ s.stop \in Nat /\ (Count(s) > 0 => s.stop < Count(s))
      /\ (Count(s) = 0 => s.stop = 0)
  BY Parts DEF Count
<1>2. CASE Count(s) >= MaxEntries
  BY <1>2, <1>1, EntriesAssumption DEF Insert
<1>3. CASE Count(s) < MaxEntries
  <2> DEFINE a == InsertAt(s.entries, s.stop + 1, e)
  <2>1. s.stop + 1 \in 1..Len(s.entries) + 1
    BY <1>1
  <2>2. /\ a \in Seq(Entries(P)) /\ Len(a) = Count(s) + 1
        /\ \A k \in 1..s.stop : a[k] = s.entries[k]
        /\ a[s.stop + 1] = e
        /\ \A k \in s.stop + 1..Count(s) : a[k + 1] = s.entries[k]
    <3>0. s.entries \in Seq(Entries(P)) /\ e \in Entries(P) /\ s.stop + 1 \in 1..Len(s.entries) + 1
      BY <1>1, <2>1
    <3>1. a \in Seq(Entries(P)) /\ Len(a) = Len(s.entries) + 1
      BY <3>0, Inserting
    <3>2. ASSUME NEW j \in 1..Len(s.entries) + 1, NEW k \in 1..j - 1
          PROVE  InsertAt(s.entries, j, e)[k] = s.entries[k]
      BY <3>0, Inserting, Z3
    <3>3. a[s.stop + 1] = e
      BY <3>0, Inserting
    <3>4. ASSUME NEW j \in 1..Len(s.entries) + 1, NEW k \in j..Len(s.entries)
          PROVE  InsertAt(s.entries, j, e)[k + 1] = s.entries[k]
      BY <3>0, Inserting, Z3
    <3>5. (s.stop + 1) - 1 = s.stop
      BY <1>1
    <3> QED BY <1>1, <3>0, <3>1, <3>2, <3>3, <3>4, <3>5
  <2>3. Insert(s, e) = SetStop(Of(a, s.stop), s.stop + 1)
    <3>1. [s EXCEPT !.entries = InsertAt(s.entries, s.stop + 1, e)] = Of(a, s.stop)
      BY <1>1, Changed
    <3>2. ~ (Count(s) >= MaxEntries)
      BY <1>1, <1>3, EntriesAssumption
    <3> QED BY <3>1, <3>2 DEF Insert
  <2> HIDE DEF a
  <2>4. Len(a) <= MaxEntries /\ s.stop + 1 \in Nat
    BY <1>1, <1>3, <2>2, EntriesAssumption
  <2> DEFINE k == IF Len(a) = 0 THEN 0 ELSE IF s.stop + 1 >= Len(a) THEN Len(a) - 1 ELSE s.stop + 1
  <2>5. Valid(Insert(s, e), P) /\ Insert(s, e) = Of(a, k)
    BY <2>2, <2>3, <2>4, StopSet
  <2>6. k = IF Count(s) = 0 THEN 0 ELSE s.stop + 1
    BY <1>1, <2>2
  <2> HIDE DEF k
  <2>7. Insert(s, e).entries = a /\ Insert(s, e).stop = k /\ Count(Insert(s, e)) = Len(a)
    BY <2>5, Changed
  <2> QED BY <2>2, <2>5, <2>6, <2>7
<1>4. Count(s) < MaxEntries \/ Count(s) >= MaxEntries
  BY <1>1, EntriesAssumption
<1> QED BY <1>2, <1>3, <1>4

LEMMA Appended ==
  ASSUME NEW P, NEW s, Valid(s, P), NEW e \in Entries(P)
  PROVE  Valid(Added(s, e), P)
<1>1. s = Of(s.entries, s.stop) /\ s.entries \in Seq(Entries(P)) /\ Len(s.entries) <= MaxEntries
      /\ Count(s) = Len(s.entries) /\ Count(s) \in Nat /\ s.stop \in Nat /\ (Count(s) > 0 => s.stop < Count(s))
      /\ (Count(s) = 0 => s.stop = 0)
  BY Parts DEF Count
<1>2. CASE Count(s) >= MaxEntries
  BY <1>2 DEF Added
<1>3. CASE Count(s) < MaxEntries
  <2> DEFINE a == Append(s.entries, e)
  <2>1. a \in Seq(Entries(P)) /\ Len(a) = Count(s) + 1
    BY <1>1, AppendProperties
  <2>2. Added(s, e) = Of(a, s.stop)
    <3>1. [s EXCEPT !.entries = a] = Of(a, s.stop)
      <4> HIDE DEF a
      <4> QED BY <1>1, Changed
    <3>2. ~ (Count(s) >= MaxEntries)
      BY <1>1, <1>3, EntriesAssumption
    <3> QED BY <3>1, <3>2 DEF Added
  <2> HIDE DEF a
  <2>3. Len(a) <= MaxEntries /\ s.stop < Len(a)
    BY <1>1, <1>3, <2>1, EntriesAssumption
  <2> QED BY <1>1, <2>1, <2>2, <2>3, Made
<1>4. Count(s) < MaxEntries \/ Count(s) >= MaxEntries
  BY <1>1, EntriesAssumption
<1> QED BY <1>2, <1>3, <1>4

LEMMA CurrentOf ==
  ASSUME NEW P, NEW e \in Seq(Entries(P)), Len(e) <= MaxEntries, NEW n \in Nat, n < Len(e)
  PROVE  Valid(Of(e, n), P) /\ Current(Of(e, n)) = e[n + 1].pos
<1>1. Valid(Of(e, n), P) /\ Count(Of(e, n)) = Len(e) /\ Of(e, n).entries = e /\ Of(e, n).stop = n
  BY Made
<1>2. Len(e) # 0
  OBVIOUS
<1> QED BY <1>1, <1>2, CurrentIs

(* Moving entries leaves the current stop where it was *)
LEMMA Moved ==
  ASSUME NEW P, NEW s, Valid(s, P), NEW i \in 0..Count(s) - 1
  PROVE  /\ Valid(MoveForward(s, i), P) /\ Current(MoveForward(s, i)) = Current(s)
         /\ Valid(MoveBackward(s, i), P) /\ Current(MoveBackward(s, i)) = Current(s)
<1> DEFINE n == Count(s)
           e == s.entries
<1>1. s = Of(e, s.stop) /\ e \in Seq(Entries(P)) /\ Len(e) <= MaxEntries /\ n = Len(e) /\ n \in Nat /\ s.stop \in Nat
      /\ (n > 0 => s.stop < n)
  BY Parts DEF Count
<1>2. i \in Nat /\ i < n /\ s.stop < n /\ n > 0
  BY <1>1
<1>3. Current(s) = e[s.stop + 1].pos
  BY <1>1, <1>2, CurrentOf
<1> HIDE DEF e
<1>4. CASE n <= 1
  BY <1>4 DEF MoveForward, MoveBackward
<1>5. ASSUME n > 1 PROVE Valid(MoveForward(s, i), P) /\ Current(MoveForward(s, i)) = Current(s)
  <2>1. CASE i = n - 1
    <3> DEFINE r == <<Last(e)>> \o Front(e)
               m == (s.stop + 1) % n
    <3>1. MoveForward(s, i) = Of(r, m)
      BY <1>1, <1>5, <2>1 DEF MoveForward, e
    <3>2. r \in Seq(Entries(P)) /\ Len(r) = n /\ r[1] = e[n] /\ \A k \in 1..n - 1 : r[k + 1] = e[k]
      BY <1>1, <1>2, LastInFront
    <3>3. m = IF s.stop = n - 1 THEN 0 ELSE s.stop + 1
      <4>1. CASE s.stop = n - 1
        <5>1. s.stop + 1 = 0 + n /\ n \in Nat \ {0} /\ 0 \in 0..n - 1
          BY <1>1, <1>2, <4>1
        <5> HIDE DEF n
        <5>2. (0 + n) % n = 0
          BY <5>1, Rounds
        <5> QED BY <4>1, <5>1, <5>2
      <4>2. CASE s.stop # n - 1
        <5>1. s.stop + 1 \in 0..n - 1 /\ n \in Nat \ {0}
          BY <1>1, <1>2, <4>2
        <5> HIDE DEF n
        <5> QED BY <4>2, <5>1, Rounds
      <4> QED BY <4>1, <4>2
    <3> HIDE DEF r, m
    <3>4. m \in Nat /\ m < Len(r)
      BY <1>1, <1>2, <3>2, <3>3
    <3>5. r[m + 1] = e[s.stop + 1]
      <4>1. CASE s.stop = n - 1
        BY <1>1, <3>2, <3>3, <4>1
      <4>2. CASE s.stop # n - 1
        <5>1. s.stop + 1 \in 1..n - 1 /\ m = s.stop + 1
          BY <1>1, <1>2, <3>3, <4>2
        <5> QED BY <3>2, <5>1
      <4> QED BY <4>1, <4>2
    <3> QED BY <1>1, <1>3, <3>1, <3>2, <3>4, <3>5, CurrentOf
  <2>2. CASE i # n - 1
    <3> DEFINE r == Swap(e, i, i + 1)
               m == Exchanged(s.stop, i, i + 1)
    <3>1. MoveForward(s, i) = Of(r, m)
      BY <1>1, <1>5, <2>2 DEF MoveForward, e
    <3>2. i + 1 \in 0..Len(e) - 1 /\ i \in 0..Len(e) - 1
      BY <1>1, <1>2, <2>2
    <3>3. /\ r \in Seq(Entries(P)) /\ Len(r) = Len(e)
          /\ \A k \in 1..Len(e) : r[k] = IF k = (i + 1) + 1 THEN e[i + 1] ELSE IF k = i + 1 THEN e[(i + 1) + 1] ELSE e[k]
      BY <1>1, <3>2, Swapped
    <3>4. m = IF s.stop = i THEN i + 1 ELSE IF s.stop = i + 1 THEN i ELSE s.stop
      BY DEF Exchanged
    <3> HIDE DEF r, m
    <3>5. m \in Nat /\ m < Len(r) /\ m + 1 \in 1..Len(e)
      BY <1>1, <1>2, <3>2, <3>3, <3>4
    <3>6. r[m + 1] = e[s.stop + 1]
      <4>1. r[m + 1] = IF m + 1 = (i + 1) + 1 THEN e[i + 1] ELSE IF m + 1 = i + 1 THEN e[(i + 1) + 1] ELSE e[m + 1]
        BY <3>3, <3>5
      <4> QED BY <1>1, <1>2, <3>4, <4>1
    <3> QED BY <1>1, <1>3, <3>1, <3>3, <3>5, <3>6, CurrentOf
  <2> QED BY <2>1, <2>2
<1>6. ASSUME n > 1 PROVE Valid(MoveBackward(s, i), P) /\ Current(MoveBackward(s, i)) = Current(s)
  <2>1. CASE i = 0
    <3> DEFINE r == Append(Tail(e), Head(e))
               m == (s.stop - 1 + n) % n
    <3>1. MoveBackward(s, i) = Of(r, m)
      BY <1>1, <1>6, <2>1 DEF MoveBackward, e
    <3>2. r \in Seq(Entries(P)) /\ Len(r) = n /\ r[n] = e[1] /\ \A k \in 1..n - 1 : r[k] = e[k + 1]
      BY <1>1, <1>2, FirstBehind
    <3>3. m = IF s.stop = 0 THEN n - 1 ELSE s.stop - 1
      <4>1. CASE s.stop = 0
        <5>1. s.stop - 1 + n = n - 1 /\ n - 1 \in 0..n - 1 /\ n \in Nat \ {0}
          BY <1>1, <1>2, <4>1
        <5> HIDE DEF n
        <5> QED BY <4>1, <5>1, Rounds
      <4>2. CASE s.stop # 0
        <5>1. s.stop - 1 \in 0..n - 1 /\ n \in Nat \ {0}
          BY <1>1, <1>2, <4>2
        <5> HIDE DEF n
        <5> QED BY <4>2, <5>1, Rounds
      <4> QED BY <4>1, <4>2
    <3> HIDE DEF r, m
    <3>4. m \in Nat /\ m < Len(r)
      BY <1>1, <1>2, <3>2, <3>3
    <3>5. r[m + 1] = e[s.stop + 1]
      <4>1. CASE s.stop = 0
        BY <1>1, <3>2, <3>3, <4>1
      <4>2. CASE s.stop # 0
        <5>1. s.stop \in 1..n - 1 /\ m + 1 = s.stop
          BY <1>1, <1>2, <3>3, <4>2
        <5> QED BY <3>2, <5>1
      <4> QED BY <4>1, <4>2
    <3> QED BY <1>1, <1>3, <3>1, <3>2, <3>4, <3>5, CurrentOf
  <2>2. CASE i # 0
    <3> DEFINE r == Swap(e, i, i - 1)
               m == Exchanged(s.stop, i, i - 1)
    <3>1. MoveBackward(s, i) = Of(r, m)
      BY <1>1, <1>6, <2>2 DEF MoveBackward, e
    <3>2. i - 1 \in 0..Len(e) - 1 /\ i \in 0..Len(e) - 1
      BY <1>1, <1>2, <2>2
    <3>3. /\ r \in Seq(Entries(P)) /\ Len(r) = Len(e)
          /\ \A k \in 1..Len(e) : r[k] = IF k = (i - 1) + 1 THEN e[i + 1] ELSE IF k = i + 1 THEN e[(i - 1) + 1] ELSE e[k]
      BY <1>1, <3>2, Swapped
    <3>4. m = IF s.stop = i THEN i - 1 ELSE IF s.stop = i - 1 THEN i ELSE s.stop
      BY DEF Exchanged
    <3> HIDE DEF r, m
    <3>5. m \in Nat /\ m < Len(r) /\ m + 1 \in 1..Len(e)
      BY <1>1, <1>2, <3>2, <3>3, <3>4
    <3>6. r[m + 1] = e[s.stop + 1]
      <4>1. r[m + 1] = IF m + 1 = (i - 1) + 1 THEN e[i + 1] ELSE IF m + 1 = i + 1 THEN e[(i - 1) + 1] ELSE e[m + 1]
        BY <3>3, <3>5
      <4> QED BY <1>1, <1>2, <3>4, <4>1
    <3> QED BY <1>1, <1>3, <3>1, <3>3, <3>5, <3>6, CurrentOf
  <2> QED BY <2>1, <2>2
<1>7. n <= 1 \/ n > 1
  BY <1>1
<1> QED BY <1>4, <1>5, <1>6, <1>7

(* Neither does taking out another entry or putting one before the current stop *)
LEMMA RemovedAround ==
  ASSUME NEW P, NEW s, Valid(s, P), NEW i \in 0..Count(s) - 1, i # s.stop
  PROVE  Current(RemoveEntry(s, i)) = Current(s)
<1> DEFINE r == RemoveEntry(s, i)
<1>1. Count(s) \in Nat /\ s.stop \in Nat /\ s.stop < Count(s) /\ i \in Nat /\ i < Count(s)
  BY Parts
<1>2. /\ Valid(r, P) /\ Count(r) = Count(s) - 1
      /\ \A k \in 1..Count(s) - 1 : r.entries[k] = IF k < i + 1 THEN s.entries[k] ELSE s.entries[k + 1]
      /\ r.stop = IF s.stop > i THEN s.stop - 1 ELSE IF s.stop = Count(s) - 1 /\ s.stop > 0 THEN s.stop - 1 ELSE s.stop
  BY Removed
<1> HIDE DEF r
<1>3. r.stop + 1 \in 1..Count(s) - 1 /\ r.stop = IF s.stop > i THEN s.stop - 1 ELSE s.stop
  BY <1>1, <1>2
<1>4. r.entries[r.stop + 1] = s.entries[s.stop + 1]
  BY <1>1, <1>2, <1>3
<1>5. Count(r) # 0 /\ Count(s) # 0
  BY <1>1, <1>2, <1>3
<1> QED BY <1>2, <1>4, <1>5, CurrentIs DEF r

LEMMA InsertedBefore ==
  ASSUME NEW P, NEW s, Valid(s, P), Count(s) # 0, NEW e \in Entries(P)
  PROVE  Current(Insert(s, e)) = Current(s)
<1> DEFINE r == Insert(s, e)
<1>1. Count(s) \in Nat /\ s.stop \in Nat /\ s.stop < Count(s)
  BY Parts
<1>2. CASE Count(s) >= MaxEntries
  BY <1>2 DEF Insert
<1>3. CASE Count(s) < MaxEntries
  <2>1. /\ Valid(r, P) /\ Count(r) = Count(s) + 1 /\ r.stop = s.stop + 1
        /\ \A k \in s.stop + 1..Count(s) : r.entries[k + 1] = s.entries[k]
    BY <1>3, Inserted
  <2> HIDE DEF r
  <2>2. r.entries[r.stop + 1] = s.entries[s.stop + 1]
    BY <1>1, <2>1
  <2>3. Count(r) # 0
    BY <1>1, <2>1
  <2> QED BY <2>1, <2>2, <2>3, CurrentIs DEF r
<1>4. Count(s) < MaxEntries \/ Count(s) >= MaxEntries
  BY <1>1, EntriesAssumption
<1> QED BY <1>2, <1>3, <1>4

LEMMA WayBack ==
  ASSUME NEW P, NEW s, Valid(s, P), NEW mirror \in BOOLEAN
  PROVE  Valid(AddReturnWay(s, mirror), P)
<1> DEFINE n == Count(s)
           e == s.entries
<1>1. s = Of(e, s.stop) /\ e \in Seq(Entries(P)) /\ Len(e) <= MaxEntries /\ n = Len(e) /\ n \in Nat /\ s.stop \in Nat
      /\ (n > 0 => s.stop < n)
  BY Parts DEF Count
<1> HIDE DEF n, e
<1>2. CASE n <= 1
  BY <1>2 DEF AddReturnWay, n
<1>3. CASE n > 1 /\ ~mirror
  <2>1. Reverse(e) \in Seq(Entries(P)) /\ Len(Reverse(e)) = n
    BY <1>1, Reversed
  <2>2. AddReturnWay(s, mirror) = Of(Reverse(e), s.stop)
    <3>1. [s EXCEPT !.entries = Reverse(e)] = Of(Reverse(e), s.stop)
      BY <1>1, Changed
    <3>2. ~ (n <= 1)
      BY <1>1, <1>3
    <3> QED BY <1>3, <3>1, <3>2 DEF AddReturnWay, n, e
  <2> QED BY <1>1, <1>3, <2>1, <2>2, Made
<1>4. CASE n > 1 /\ mirror /\ n < MaxReturn
  <2> DEFINE b == SubSeq(e, 2, n - 1)
             c == Reverse(b)
  <2>1. b \in Seq(Entries(P)) /\ Len(b) = n - 2
    <3>1. \A k \in 2..n - 1 : e[k] \in Entries(P)
      BY <1>1
    <3>2. b \in Seq(Entries(P)) /\ Len(b) = IF 2 <= n - 1 THEN (n - 1) - 2 + 1 ELSE 0
      BY <1>1, <3>1, SubSeqProperties
    <3> QED BY <1>1, <1>4, <3>2
  <2> HIDE DEF b
  <2>2. c \in Seq(Entries(P)) /\ Len(c) = n - 2
    BY <2>1, Reversed
  <2> HIDE DEF c
  <2>3. e \o c \in Seq(Entries(P)) /\ Len(e \o c) = Len(e) + Len(c)
    BY <1>1, <2>2, ConcatProperties
  <2>4. Len(e \o c) = 2 * n - 2 /\ Len(e \o c) <= MaxEntries /\ s.stop < Len(e \o c)
    BY <1>1, <1>4, <2>2, <2>3, EntriesAssumption
  <2>5. AddReturnWay(s, mirror) = Of(e \o c, s.stop)
    <3>1. [s EXCEPT !.entries = e \o c] = Of(e \o c, s.stop)
      <4> DEFINE d == e \o c
      <4> HIDE DEF d
      <4>1. [s EXCEPT !.entries = d] = Of(d, s.stop)
        BY <1>1, Changed
      <4> QED BY <4>1 DEF d
    <3>2. ~ (n <= 1) /\ n < MaxReturn /\ mirror
      BY <1>1, <1>4
    <3> QED BY <3>1, <3>2 DEF AddReturnWay, n, e, b, c
  <2> QED BY <1>1, <2>3, <2>4, <2>5, Made
<1>5. CASE n > 1 /\ mirror /\ ~ (n < MaxReturn)
  BY <1>5 DEF AddReturnWay, n
<1>6. n <= 1 \/ n > 1
  BY <1>1
<1> QED BY <1>2, <1>3, <1>4, <1>5, <1>6

(* A convoy that goes on, and an entry put under the clock: the same entries otherwise *)
LEMMA Advanced ==
  ASSUME NEW P, NEW s, Valid(s, P)
  PROVE  Valid(Advance(s), P) /\ Advance(s).entries = s.entries
<1> DEFINE n == Count(s)
           e == s.entries
           other == {k \in 1..(n - 1) : PosAt(s, s.stop + k) # Current(s)}
           first == CHOOSE k \in other : \A j \in other : k <= j
<1>1. s = Of(e, s.stop) /\ e \in Seq(Entries(P)) /\ Len(e) <= MaxEntries /\ n = Len(e) /\ n \in Nat /\ s.stop \in Nat
      /\ (n > 0 => s.stop < n)
  BY Parts DEF Count
<1>2. Advance(s) = IF n = 0 THEN s
                   ELSE IF ~s.entries[s.stop + 1].timed THEN [s EXCEPT !.stop = (s.stop + 1) % n]
                   ELSE IF other = {} THEN s
                   ELSE [s EXCEPT !.stop = (s.stop + first) % n]
  BY DEF Advance
<1>3. ASSUME NEW m \in Nat, n # 0 PROVE Valid([s EXCEPT !.stop = m % n], P) /\ [s EXCEPT !.stop = m % n].entries = e
  <2> HIDE DEF n, e
  <2>1. m % n \in Nat /\ m % n < n
    <3>1. n \in Nat \ {0}
      BY <1>1, <1>3
    <3>2. m % n \in 0..n - 1
      BY <3>1, Within
    <3> QED BY <3>1, <3>2
  <2>2. [s EXCEPT !.stop = m % n] = Of(e, m % n)
    BY <1>1, Changed
  <2> QED BY <1>1, <2>1, <2>2, Made
<1>4. ASSUME other # {} PROVE first \in Nat
  <2>1. other \subseteq Nat
    OBVIOUS
  <2> HIDE DEF other
  <2>2. \E k \in other : \A j \in other : k <= j
    BY <1>4, <2>1, Least
  <2>3. first \in other
    BY <2>2
  <2> QED BY <2>1, <2>3
<1> HIDE DEF other, first
<1>5. s.stop + 1 \in Nat /\ (other # {} => s.stop + first \in Nat)
  BY <1>1, <1>4
<1> QED BY <1>2, <1>3, <1>5

------------------------------------------------------------------------------
(* The entries that are left of a schedule without its doubles *)

(* X is left of the first k entries: the last of them is the place before the next; what was *)
(* taken out is there still, but for the place of the last entry of all, which comes at the end *)
Tidied(s, k, X) ==
  IF ~ (s.entries[k].pos = s.entries[IF k = 1 THEN Count(s) ELSE k - 1].pos)
  THEN [X EXCEPT !.entries = Append(@, s.entries[k])]
  ELSE [X EXCEPT !.stop = IF Count(X) < @ THEN @ - 1 ELSE @]
Cleaning(s, P, k, X) ==
  LET e == s.entries
      n == Count(s)
      a == X.entries
      m == Len(a)
  IN  /\ X = Of(a, X.stop) /\ a \in Seq(Entries(P)) /\ X.stop \in Nat /\ m <= k
      /\ m = 0 => \A i \in 1..k : e[i].pos = e[n].pos
      /\ m > 0 => a[m].pos = e[k].pos /\ a[1].pos # e[n].pos
      /\ \A i \in 1..m - 1 : a[i].pos # a[i + 1].pos
      /\ \A i \in 1..k : e[i].pos = e[n].pos \/ \E j \in 1..m : a[j].pos = e[i].pos
      /\ \A j \in 1..m : \E i \in 1..k : a[j].pos = e[i].pos

LEMMA CleaningStarts ==
  ASSUME NEW P, NEW s, Valid(s, P)
  PROVE  Cleaning(s, P, 0, Of(<<>>, s.stop))
<1>1. s.stop \in Nat
  BY Parts
<1>2. Of(<<>>, s.stop).entries = <<>> /\ Of(<<>>, s.stop).stop = s.stop
  BY DEF Of
<1>3. <<>> \in Seq(Entries(P)) /\ Len(<<>>) = 0
  OBVIOUS
<1> DEFINE X == Of(<<>>, s.stop)
<1> HIDE DEF X
<1>4. X.entries = <<>> /\ X.stop = s.stop /\ X = Of(<<>>, s.stop)
  BY <1>2 DEF X
<1>5. X = Of(X.entries, X.stop) /\ X.entries \in Seq(Entries(P)) /\ X.stop \in Nat /\ Len(X.entries) = 0
  BY <1>1, <1>3, <1>4
<1>6. Cleaning(s, P, 0, X)
  BY <1>5 DEF Cleaning
<1> QED BY <1>6 DEF X

LEMMA CleaningGoesOn ==
  ASSUME NEW P, NEW s, Valid(s, P), NEW k \in Nat, k < Count(s), NEW X, Cleaning(s, P, k, X)
  PROVE  Cleaning(s, P, k + 1, Tidied(s, k + 1, X))
<1> DEFINE e == s.entries
           n == Count(s)
           a == X.entries
           m == Len(a)
           b == IF k + 1 = 1 THEN n ELSE (k + 1) - 1
           Y == Tidied(s, k + 1, X)
<1>1. e \in Seq(Entries(P)) /\ n = Len(e) /\ n \in Nat /\ k + 1 \in 1..n
  BY Parts DEF Count
<1>2. X = Of(a, X.stop) /\ a \in Seq(Entries(P)) /\ X.stop \in Nat /\ m \in Nat /\ m <= k
  BY DEF Cleaning
<1>3. m = 0 => \A i \in 1..k : e[i].pos = e[n].pos
  BY DEF Cleaning
<1>4. m > 0 => a[m].pos = e[k].pos /\ a[1].pos # e[n].pos
  BY DEF Cleaning
<1>5. \A i \in 1..m - 1 : a[i].pos # a[i + 1].pos
  BY DEF Cleaning
<1>6. \A i \in 1..k : e[i].pos = e[n].pos \/ \E j \in 1..m : a[j].pos = e[i].pos
  BY DEF Cleaning
<1>7. \A j \in 1..m : \E i \in 1..k : a[j].pos = e[i].pos
  BY DEF Cleaning
<1>8. b = IF k = 0 THEN n ELSE k
  OBVIOUS
<1>9. Y = IF ~ (e[k + 1].pos = e[b].pos) THEN [X EXCEPT !.entries = Append(X.entries, e[k + 1])]
          ELSE [X EXCEPT !.stop = IF Count(X) < X.stop THEN X.stop - 1 ELSE X.stop]
  BY DEF Tidied
<1>10. e[k + 1] \in Entries(P)
  BY <1>1
<1> HIDE DEF e, n, b, Y
<1>11. CASE e[k + 1].pos = e[b].pos
  <2> DEFINE t == IF Count(X) < X.stop THEN X.stop - 1 ELSE X.stop
  <2>1. t \in Nat
    <3>1. Count(X) = m
      BY DEF Count
    <3> QED BY <1>2, <3>1
  <2> HIDE DEF t
  <2>2. Y = Of(a, t)
    <3>1. [X EXCEPT !.stop = t] = Of(a, t)
      <4> HIDE DEF a
      <4> QED BY <1>2, Changed
    <3> QED BY <1>9, <1>11, <3>1 DEF t
  <2>3. Y.entries = a /\ Y.stop = t
    BY <2>2 DEF Of
  <2> HIDE DEF a
  <2>4. m = 0 => \A i \in 1..k + 1 : e[i].pos = e[n].pos
    <3> SUFFICES ASSUME m = 0, NEW i \in 1..k + 1 PROVE e[i].pos = e[n].pos
      OBVIOUS
    <3>1. e[b].pos = e[n].pos
      BY <1>3, <1>8
    <3>2. i \in 1..k \/ i = k + 1
      OBVIOUS
    <3> QED BY <1>3, <1>11, <3>1, <3>2
  <2>5. m > 0 => a[m].pos = e[k + 1].pos /\ a[1].pos # e[n].pos
    <3> HAVE m > 0
    <3>1. b = k
      BY <1>2, <1>8
    <3> QED BY <1>4, <1>11, <3>1
  <2>6. \A i \in 1..k + 1 : e[i].pos = e[n].pos \/ \E j \in 1..m : a[j].pos = e[i].pos
    <3> TAKE i \in 1..k + 1
    <3>1. CASE i \in 1..k
      BY <1>6, <3>1
    <3>2. CASE i = k + 1 /\ m = 0
      BY <2>4, <3>2
    <3>3. CASE i = k + 1 /\ m > 0
      <4>1. m \in 1..m
        BY <1>2, <3>3
      <4> QED BY <2>5, <3>3, <4>1
    <3> QED BY <1>2, <3>1, <3>2, <3>3
  <2>7. \A j \in 1..m : \E i \in 1..k + 1 : a[j].pos = e[i].pos
    <3> TAKE j \in 1..m
    <3>1. PICK i \in 1..k : a[j].pos = e[i].pos
      BY <1>7
    <3>2. i \in 1..k + 1
      OBVIOUS
    <3> QED BY <3>1, <3>2
  <2>8. m <= k + 1
    BY <1>2
  <2> QED BY <1>2, <1>5, <2>1, <2>2, <2>3, <2>4, <2>5, <2>6, <2>7, <2>8 DEF Cleaning, e, n, Y
<1>12. CASE e[k + 1].pos # e[b].pos
  <2> DEFINE c == Append(a, e[k + 1])
  <2>1. c \in Seq(Entries(P)) /\ Len(c) = m + 1 /\ (\A i \in 1..m : c[i] = a[i]) /\ c[m + 1] = e[k + 1]
    <3> HIDE DEF a
    <3> QED BY <1>2, <1>10, AppendProperties
  <2> HIDE DEF c
  <2>2. Y = Of(c, X.stop)
    <3>1. [X EXCEPT !.entries = c] = Of(c, X.stop)
      <4> HIDE DEF a
      <4> QED BY <1>2, Changed
    <3> QED BY <1>9, <1>12, <3>1 DEF c
  <2>3. Y.entries = c /\ Y.stop = X.stop
    BY <2>2 DEF Of
  <2> HIDE DEF a
  <2>4. Len(c) # 0 /\ Len(c) \in Nat /\ Len(c) <= k + 1
    BY <1>2, <2>1
  <2>5. c[Len(c)].pos = e[k + 1].pos
    BY <2>1
  <2>6. c[1].pos # e[n].pos
    <3>1. CASE m = 0
      <4>1. e[b].pos = e[n].pos
        BY <1>3, <1>8, <3>1
      <4> QED BY <1>12, <2>1, <3>1, <4>1
    <3>2. CASE m > 0
      <4>1. 1 \in 1..m
        BY <1>2, <3>2
      <4> QED BY <1>4, <2>1, <3>2, <4>1
    <3> QED BY <1>2, <3>1, <3>2
  <2>7. \A i \in 1..Len(c) - 1 : c[i].pos # c[i + 1].pos
    <3> TAKE i \in 1..Len(c) - 1
    <3>1. CASE i \in 1..m - 1
      <4>1. i \in 1..m /\ i + 1 \in 1..m
        BY <1>2, <3>1
      <4> QED BY <1>5, <2>1, <3>1, <4>1
    <3>2. CASE i = m
      <4>1. m > 0 /\ m \in 1..m
        BY <1>2, <3>2
      <4>2. b = k
        BY <1>2, <1>8, <4>1
      <4> QED BY <1>4, <1>12, <2>1, <3>2, <4>1, <4>2
    <3> QED BY <1>2, <2>1, <3>1, <3>2
  <2>8. \A i \in 1..k + 1 : e[i].pos = e[n].pos \/ \E j \in 1..Len(c) : c[j].pos = e[i].pos
    <3> TAKE i \in 1..k + 1
    <3>1. CASE i \in 1..k
      <4> SUFFICES ASSUME e[i].pos # e[n].pos PROVE \E j \in 1..Len(c) : c[j].pos = e[i].pos
        OBVIOUS
      <4>1. PICK j \in 1..m : a[j].pos = e[i].pos
        BY <1>6, <3>1
      <4>2. j \in 1..Len(c) /\ c[j] = a[j]
        BY <1>2, <2>1
      <4> QED BY <4>1, <4>2
    <3>2. CASE i = k + 1
      <4>1. m + 1 \in 1..Len(c)
        BY <1>2, <2>1
      <4> QED BY <2>1, <3>2, <4>1
    <3> QED BY <3>1, <3>2
  <2>9. \A j \in 1..Len(c) : \E i \in 1..k + 1 : c[j].pos = e[i].pos
    <3> TAKE j \in 1..Len(c)
    <3>1. CASE j \in 1..m
      <4>1. PICK i \in 1..k : a[j].pos = e[i].pos
        BY <1>7, <3>1
      <4>2. i \in 1..k + 1
        OBVIOUS
      <4> QED BY <2>1, <3>1, <4>1, <4>2
    <3>2. CASE j = m + 1
      <4>1. k + 1 \in 1..k + 1
        OBVIOUS
      <4> QED BY <2>1, <3>2, <4>1
    <3> QED BY <1>2, <2>1, <3>1, <3>2
  <2> QED BY <1>2, <2>1, <2>2, <2>3, <2>4, <2>5, <2>6, <2>7, <2>8, <2>9 DEF Cleaning, e, n, Y
<1> QED BY <1>11, <1>12

(* Without its doubles a schedule of several entries is empty, if all are at one place, or serves *)
(* the same places and none twice in a row                                                     *)
LEMMA DoublesGo ==
  ASSUME NEW P, NEW s, Valid(s, P), Count(s) >= 2
  PROVE  Cleaning(s, P, Count(s), RemoveDouble(s))
<1> DEFINE n == Count(s)
           start == Of(<<>>, s.stop)
           Rec == [entries : Seq(Entries(P)), stop : Nat]
           step == [q \in Nat \X Rec |-> Tidied(s, q[1], q[2])]
           is(f) == f = [k \in 0..n |-> IF k = 0 THEN start ELSE Tidied(s, k, f[k - 1])]
           left == CHOOSE f : is(f)
           good(k, X) == Cleaning(s, P, k, X)
<1>1. n \in Nat
  BY Parts
<1>2. RemoveDouble(s) = left[n]
  <2>1. ~ (Count(s) < 2)
    BY <1>1
  <2> QED BY <2>1 DEF RemoveDouble, Tidied
<1>3. good(0, start)
  BY CleaningStarts
<1>4. ASSUME NEW k \in Nat, k < n, NEW X, good(k, X) PROVE good(k + 1, Tidied(s, k + 1, X)) /\ X \in Rec
  <2>1. X \in Rec
    BY <1>4 DEF Cleaning, Of
  <2> QED BY <1>4, <2>1, CleaningGoesOn
<1> HIDE DEF n, good, start, Rec
<1>5. \E f : is(f)
  <2> PICK f : Iterating(f, start, step)
    <3> HIDE DEF step
    <3> QED BY Iterates
  <2>0. \A k \in Nat : f[k] = IF k = 0 THEN start ELSE step[<<k, f[k - 1]>>]
    <3> HIDE DEF step
    <3> QED BY DEF Iterating
  <2> DEFINE Q == {k \in Nat : k <= n => good(k, f[k])}
             g == [k \in 0..n |-> f[k]]
  <2>1. f[0] = start
    <3> HIDE DEF step
    <3> QED BY <2>0
  <2>2. ASSUME NEW k \in Nat, k < n, good(k, f[k]) PROVE f[k + 1] = Tidied(s, k + 1, f[k])
    <3>1. k + 1 \in Nat /\ k + 1 # 0 /\ (k + 1) - 1 = k
      OBVIOUS
    <3>2. f[k + 1] = step[<<k + 1, f[k]>>]
      <4> HIDE DEF step
      <4> QED BY <2>0, <3>1
    <3>3. f[k] \in Rec
      BY <1>4, <2>2
    <3> QED BY <3>1, <3>2, <3>3
  <2> HIDE DEF step
  <2>3. 0 \in Q
    BY <1>3, <2>1
  <2>4. ASSUME NEW k \in Nat, k \in Q PROVE k + 1 \in Q
    <3> SUFFICES ASSUME k + 1 <= n PROVE good(k + 1, f[k + 1])
      OBVIOUS
    <3>1. k < n /\ good(k, f[k])
      BY <1>1, <2>4
    <3> QED BY <1>4, <2>2, <3>1
  <2>5. \A k \in Nat : k \in Q
    <3> HIDE DEF Q
    <3> QED BY <2>3, <2>4, SetInduction
  <2>6. \A k \in 0..n : g[k] = IF k = 0 THEN start ELSE Tidied(s, k, g[k - 1])
    <3> TAKE k \in 0..n
    <3>1. CASE k = 0
      BY <1>1, <2>1, <3>1
    <3>2. CASE k # 0
      <4>1. k - 1 \in Nat /\ k - 1 < n /\ (k - 1) + 1 = k /\ k - 1 \in 0..n
        BY <1>1, <3>2
      <4>2. good(k - 1, f[k - 1])
        BY <2>5, <4>1
      <4>3. f[k] = Tidied(s, k, f[k - 1])
        BY <2>2, <4>1, <4>2
      <4> QED BY <3>2, <4>1, <4>3
    <3> QED BY <3>1, <3>2
  <2>7. g = [k \in 0..n |-> g[k]]
    OBVIOUS
  <2> HIDE DEF g
  <2>8. is(g)
    BY <2>6, <2>7
  <2> QED BY <2>8
<1>6. is(left)
  <2> HIDE DEF is
  <2> QED BY <1>5
<1> HIDE DEF left
<1>7. \A k \in 0..n : left[k] = IF k = 0 THEN start ELSE Tidied(s, k, left[k - 1])
  BY <1>6
<1> HIDE DEF is
<1> DEFINE R == {k \in Nat : k <= n => good(k, left[k])}
<1>8. 0 \in R
  BY <1>1, <1>3, <1>7
<1>9. ASSUME NEW k \in Nat, k \in R PROVE k + 1 \in R
  <2> SUFFICES ASSUME k + 1 <= n PROVE good(k + 1, left[k + 1])
    OBVIOUS
  <2>1. k < n /\ good(k, left[k]) /\ k + 1 \in 0..n /\ k + 1 # 0 /\ (k + 1) - 1 = k
    BY <1>1, <1>9
  <2>2. left[k + 1] = Tidied(s, k + 1, left[k])
    BY <1>7, <2>1
  <2> QED BY <1>4, <2>1, <2>2
<1>10. n \in R
  <2> HIDE DEF R
  <2> QED BY <1>1, <1>8, <1>9, SetInduction
<1> QED BY <1>1, <1>2, <1>10 DEF good, n

LEMMA DoublesGone ==
  ASSUME NEW P, NEW s, Valid(s, P)
  PROVE  /\ RemoveDouble(s) = Of(RemoveDouble(s).entries, RemoveDouble(s).stop)
         /\ RemoveDouble(s).entries \in Seq(Entries(P)) /\ RemoveDouble(s).stop \in Nat
         /\ Count(RemoveDouble(s)) = Len(RemoveDouble(s).entries) /\ Count(RemoveDouble(s)) <= MaxEntries
<1>1. CASE Count(s) < 2
  <2>1. RemoveDouble(s) = s
    BY <1>1 DEF RemoveDouble
  <2> QED BY <2>1, Parts DEF Count
<1>2. CASE Count(s) >= 2
  <2> DEFINE d == RemoveDouble(s)
  <2>1. Cleaning(s, P, Count(s), d)
    BY <1>2, DoublesGo
  <2> HIDE DEF d
  <2>2. d = Of(d.entries, d.stop) /\ d.entries \in Seq(Entries(P)) /\ d.stop \in Nat /\ Len(d.entries) <= Count(s)
    BY <2>1 DEF Cleaning
  <2>3. Len(d.entries) <= MaxEntries
    BY <2>2, Parts, EntriesAssumption
  <2> QED BY <2>2, <2>3 DEF Count, d
<1>3. Count(s) < 2 \/ Count(s) >= 2
  BY Parts
<1> QED BY <1>1, <1>2, <1>3

LEMMA Cleaned ==
  ASSUME NEW P, NEW s, Valid(s, P)
  PROVE  Valid(SetStop(RemoveDouble(s), RemoveDouble(s).stop), P)
<1> DEFINE d == RemoveDouble(s)
<1>1. d = Of(d.entries, d.stop) /\ d.entries \in Seq(Entries(P)) /\ d.stop \in Nat /\ Len(d.entries) <= MaxEntries
  BY DoublesGone
<1> HIDE DEF d
<1>2. Valid(SetStop(Of(d.entries, d.stop), d.stop), P)
  BY <1>1, StopSet
<1> QED BY <1>1, <1>2 DEF d

LEMMA MadeValid ==
  ASSUME NEW P, NEW s, Valid(s, P)
  PROVE  LET r == MakeValid(s)
         IN  /\ Valid(r, P)
             /\ \A i \in 0..(Count(r) - 1) : PosAt(r, i) # PosAt(r, i + 1)
             /\ Count(r) > 0 => Places(r) = Places(s)
             /\ Count(r) = 0 => Cardinality(Places(s)) <= 1
<1> DEFINE r == MakeValid(s)
           n == Count(s)
           e == s.entries
           d == RemoveDouble(s)
           a == d.entries
           m == Len(a)
<1>1. e \in Seq(Entries(P)) /\ n = Len(e) /\ n \in Nat /\ s = Of(e, s.stop) /\ s.stop \in Nat /\ n <= MaxEntries
  BY Parts DEF Count
<1>2. d = Of(a, d.stop) /\ a \in Seq(Entries(P)) /\ d.stop \in Nat /\ Count(d) = m /\ m \in Nat /\ m <= MaxEntries
  BY DoublesGone
<1>3. r = SetStop(IF Count(d) = 1 THEN [d EXCEPT !.entries = <<>>] ELSE d, d.stop)
  BY DEF MakeValid
<1> HIDE DEF r, n, d
<1>4. ASSUME \E p : \A i \in 1..n : e[i].pos = p PROVE Cardinality(Places(s)) <= 1
  <2> PICK p : \A i \in 1..n : e[i].pos = p
    BY <1>4
  <2>1. Places(s) \subseteq {p}
    BY <1>1 DEF Places
  <2>2. IsFiniteSet({p}) /\ Cardinality({p}) = 1
    BY FS_Singleton
  <2> QED BY <2>1, <2>2, FS_Subset
<1>5. CASE m = 1
  <2>1. n = 1
    <3> SUFFICES ASSUME n # 1 PROVE FALSE
      OBVIOUS
    <3>1. CASE n < 2
      <4>1. d = s
        BY <3>1 DEF RemoveDouble, n, d
      <4>2. m = n
        BY <1>1, <4>1
      <4> QED BY <1>5, <4>2
    <3>2. CASE n >= 2
      <4>1. Cleaning(s, P, n, d)
        BY <3>2, DoublesGo DEF n, d
      <4>2. a[m].pos = e[n].pos /\ a[1].pos # e[n].pos
        BY <1>5, <4>1 DEF Cleaning, n
      <4> QED BY <1>5, <4>2
    <3> QED BY <1>1, <3>1, <3>2
  <2>2. Cardinality(Places(s)) <= 1
    <3>1. \A i \in 1..n : e[i].pos = e[1].pos
      BY <2>1
    <3> QED BY <1>4, <3>1
  <2>3. r = SetStop(Of(<<>>, d.stop), d.stop)
    <3>1. [d EXCEPT !.entries = <<>>] = Of(<<>>, d.stop)
      <4> HIDE DEF a
      <4> QED BY <1>2, Changed
    <3> QED BY <1>2, <1>3, <1>5, <3>1
  <2>4. <<>> \in Seq(Entries(P)) /\ Len(<<>>) = 0 /\ Len(<<>>) <= MaxEntries
    BY EntriesAssumption
  <2>5. Valid(r, P) /\ r = Of(<<>>, 0)
    BY <1>2, <2>3, <2>4, StopSet
  <2>6. Count(r) = 0
    BY <2>5 DEF Of, Count
  <2> QED BY <2>2, <2>5, <2>6 DEF r
<1>6. CASE m # 1
  <2>1. r = SetStop(Of(a, d.stop), d.stop)
    BY <1>2, <1>3, <1>6
  <2> DEFINE k == IF m = 0 THEN 0 ELSE IF d.stop >= m THEN m - 1 ELSE d.stop
  <2>2. Valid(r, P) /\ r = Of(a, k)
    <3> HIDE DEF a
    <3> QED BY <1>2, <2>1, StopSet
  <2> HIDE DEF k
  <2>3. r.entries = a /\ Count(r) = m
    BY <2>2 DEF Of, Count
  <2>4. CASE n < 2
    <3>1. d = s
      BY <2>4 DEF RemoveDouble, n, d
    <3>2. m = n /\ n = 0
      <4>1. m = n
        BY <1>1, <3>1
      <4>2. n # 1
        BY <1>6, <4>1
      <4>3. n \in Nat /\ n < 2
        BY <1>1, <2>4
      <4> QED BY <4>1, <4>2, <4>3
    <3>3. \A i \in 1..n : e[i].pos = 0
      BY <3>2
    <3>4. Count(r) = 0 /\ Cardinality(Places(s)) <= 1
      BY <1>4, <2>3, <3>2, <3>3
    <3> QED BY <2>2, <3>4 DEF r
  <2>5. CASE n >= 2
    <3>1. Cleaning(s, P, n, d)
      BY <2>5, DoublesGo DEF n, d
    <3>2. m = 0 => \A i \in 1..n : e[i].pos = e[n].pos
      BY <3>1 DEF Cleaning, n
    <3>3. m > 0 => a[m].pos = e[n].pos /\ a[1].pos # e[n].pos
      BY <3>1 DEF Cleaning, n
    <3>4. \A i \in 1..m - 1 : a[i].pos # a[i + 1].pos
      BY <3>1 DEF Cleaning
    <3>5. \A i \in 1..n : e[i].pos = e[n].pos \/ \E j \in 1..m : a[j].pos = e[i].pos
      BY <3>1 DEF Cleaning, n
    <3>6. \A j \in 1..m : \E i \in 1..n : a[j].pos = e[i].pos
      BY <3>1 DEF Cleaning
    <3> HIDE DEF a, m
    <3>7. ASSUME NEW i \in 0..Count(r) - 1 PROVE PosAt(r, i) # PosAt(r, i + 1)
      <4>1. Count(r) \in Nat \ {0} /\ i \in Nat /\ i < m
        BY <1>2, <2>3, <3>7
      <4>2. PosAt(r, i) = a[i + 1].pos
        BY <2>3, <3>7, <4>1, PlaceAt
      <4>3. CASE i = m - 1
        <5>1. 0 \in 0..Count(r) - 1 /\ 0 + Count(r) = i + 1 /\ i + 1 = m
          BY <1>2, <2>3, <4>1, <4>3
        <5>2. PosAt(r, i + 1) = a[0 + 1].pos
          BY <2>3, <4>1, <5>1, PlaceAt
        <5> QED BY <1>2, <3>3, <4>1, <4>2, <5>1, <5>2
      <4>4. CASE i # m - 1
        <5>1. i + 1 \in 0..Count(r) - 1 /\ i + 1 \in 1..m - 1
          BY <1>2, <2>3, <4>1, <4>4
        <5>2. PosAt(r, i + 1) = a[(i + 1) + 1].pos
          BY <2>3, <4>1, <5>1, PlaceAt
        <5> QED BY <3>4, <4>2, <5>1, <5>2
      <4> QED BY <4>3, <4>4
    <3>8. ASSUME m > 0 PROVE Places(r) = Places(s)
      <4>1. Places(r) = {a[j].pos : j \in 1..m} /\ Places(s) = {e[i].pos : i \in 1..n}
        BY <1>1, <1>2, <2>3 DEF Places, a, m
      <4>2. m \in 1..m
        BY <1>2, <3>8
      <4>3. \A i \in 1..n : \E j \in 1..m : a[j].pos = e[i].pos
        BY <3>3, <3>5, <3>8, <4>2
      <4> HIDE DEF e
      <4> QED BY <3>6, <4>1, <4>3
    <3>9. m = 0 => Cardinality(Places(s)) <= 1
      BY <1>4, <3>2
    <3> QED BY <1>2, <2>2, <2>3, <3>7, <3>8, <3>9 DEF r
  <2> QED BY <1>1, <2>4, <2>5
<1> QED BY <1>5, <1>6

------------------------------------------------------------------------------
(* What a convoy does with its schedule *)

LEMMA Disjoint ==
  Stops \cap Depots = {} /\ Nowhere \notin Depots /\ Nowhere \notin Stops
  BY RouteAssumption DEF Stops

LEMMA Wider ==
  ASSUME NEW P, NEW Q, P \subseteq Q, NEW s, Valid(s, P)
  PROVE  Valid(s, Q)
<1>1. s = Of(s.entries, s.stop) /\ s.entries \in Seq(Entries(P)) /\ s.stop \in Nat
  BY Parts
<1>2. Entries(P) \subseteq Entries(Q)
  BY DEF Entries
<1>3. s.entries \in Seq(Entries(Q))
  BY <1>1, <1>2, SeqMonotonic
<1>4. s \in [entries : Seq(Entries(Q)), stop : Nat]
  BY <1>1, <1>3 DEF Of
<1> QED BY <1>4 DEF Valid

(* A list of stops ends at none of the depots *)
LEMMA StopsEnd ==
  ASSUME NEW s, Valid(s, Stops), NEW k \in 1..Count(s)
  PROVE  s.entries[k].pos \notin Depots
  BY EntryOf, Disjoint

(* A depot is put before an entry: the last entry stays the last *)
LEMMA InsertEnds ==
  ASSUME NEW P, NEW s, Valid(s, P), NEW e \in Entries(P),
         Count(s) > 0 => s.entries[Count(s)].pos \notin Depots
  PROVE  Ends(Insert(s, e))
<1>1. Count(s) \in Nat /\ s.stop \in Nat /\ (Count(s) > 0 => s.stop < Count(s))
  BY Parts
<1>2. CASE Count(s) >= MaxEntries
  BY <1>1, <1>2 DEF Insert, Ends
<1>3. CASE Count(s) < MaxEntries /\ Count(s) > 0
  <2>1. /\ Count(Insert(s, e)) = Count(s) + 1
        /\ \A k \in s.stop + 1..Count(s) : Insert(s, e).entries[k + 1] = s.entries[k]
    BY <1>3, Inserted
  <2>2. Count(s) \in s.stop + 1..Count(s)
    BY <1>1, <1>3
  <2> QED BY <1>3, <2>1, <2>2 DEF Ends
<1>4. CASE Count(s) < MaxEntries /\ Count(s) = 0
  <2>1. Count(Insert(s, e)) = 1
    BY <1>4, Inserted
  <2> QED BY <2>1 DEF Ends
<1>5. Count(s) < MaxEntries \/ Count(s) >= MaxEntries
  BY <1>1, EntriesAssumption
<1> QED BY <1>1, <1>2, <1>3, <1>4, <1>5

(* The entry before the current one becomes the current one *)
LEMMA SteppedBack ==
  ASSUME NEW P, NEW s, Valid(s, P), Count(s) > 0
  PROVE  /\ (s.stop + Count(s) - 1) % Count(s) \in 0..Count(s) - 1
         /\ s.stop > 0 => (s.stop + Count(s) - 1) % Count(s) = s.stop - 1
<1> DEFINE n == Count(s)
           m == s.stop
<1>1. n \in Nat \ {0} /\ m \in Nat /\ m < n
  BY Parts
<1> HIDE DEF n, m
<1>2. (m + n - 1) % n \in 0..n - 1
  <2>1. m + n - 1 \in Nat
    BY <1>1
  <2> QED BY <1>1, <2>1, Within
<1>3. ASSUME m > 0 PROVE (m + n - 1) % n = m - 1
  <2>1. m - 1 \in 0..n - 1 /\ m + n - 1 = (m - 1) + n
    BY <1>1, <1>3
  <2>2. ((m - 1) + n) % n = m - 1
    BY <1>1, <2>1, Rounds
  <2> QED BY <2>1, <2>2
<1> QED BY <1>2, <1>3 DEF n, m

LEMMA Sent ==
  ASSUME NEW P, NEW s, Valid(s, P), NEW d \in P, Ends(s), Current(s) \notin Depots
  PROVE  Valid(SentTo(s, d), P) /\ Ends(SentTo(s, d))
<1> DEFINE t == Insert(s, Entry(d))
<1>1. Entry(d) \in Entries(P)
  BY DEF Entry, Entries
<1>2. Valid(t, P)
  BY <1>1, Inserted
<1>3. Count(t) > 0
  <2>1. Count(s) \in Nat
    BY Parts
  <2>2. CASE Count(s) < MaxEntries
    BY <1>1, <2>1, <2>2, Inserted
  <2>3. CASE ~ (Count(s) < MaxEntries)
    <3>1. t = s /\ Count(s) > 0
      BY <2>1, <2>3, EntriesAssumption DEF Insert
    <3> QED BY <3>1
  <2> QED BY <2>2, <2>3
<1>4. Ends(t)
  <2>1. Count(s) > 0 => s.entries[Count(s)].pos \notin Depots
    <3>1. Count(s) \in Nat /\ s.stop \in Nat /\ (Count(s) > 0 => s.stop < Count(s))
      BY Parts
    <3>2. CASE Count(s) = 1
      <4>1. s.stop + 1 = 1
        BY <3>1, <3>2
      <4> QED BY <3>2, <4>1, CurrentIs
    <3> QED BY <3>1, <3>2 DEF Ends
  <2> QED BY <1>1, <2>1, InsertEnds
<1> HIDE DEF t
<1>5. (t.stop + Count(t) - 1) % Count(t) \in Nat
  BY <1>2, <1>3, SteppedBack
<1>6. /\ Valid(SetStop(t, (t.stop + Count(t) - 1) % Count(t)), P)
      /\ SetStop(t, (t.stop + Count(t) - 1) % Count(t)).entries = t.entries
  BY <1>2, <1>5, Selected
<1>7. SentTo(s, d) = SetStop(t, (t.stop + Count(t) - 1) % Count(t))
  BY DEF SentTo, t
<1> QED BY <1>4, <1>6, <1>7 DEF Ends, Count

LEMMA WithoutFirst ==
  ASSUME NEW P, NEW s, Valid(s, P), Ends(s), Current(s) \in Depots
  PROVE  Valid(Left(s, Current(s)), P) /\ Ends(Left(s, Current(s)))
<1> DEFINE d == Current(s)
           n == Count(s)
           i == CHOOSE k \in 0..(n - 1) : PosAt(s, k) = d /\ \A j \in 0..(k - 1) : PosAt(s, j) # d
           t == SetStop(s, i)
           r == RemoveEntry(t, i)
<1>1. n \in Nat \ {0} /\ s.stop \in 0..n - 1 /\ d = s.entries[s.stop + 1].pos
  <2>1. n # 0
    BY CurrentIs, Disjoint
  <2> QED BY <2>1, Parts, CurrentIs
<1>2. \A k \in 0..n - 1 : PosAt(s, k) = s.entries[k + 1].pos
  BY <1>1, PlaceAt
<1>3. i \in 0..n - 1 /\ PosAt(s, i) = d
  <2> DEFINE S == {k \in 0..n - 1 : PosAt(s, k) = d}
  <2>1. S \subseteq Nat /\ S # {}
    BY <1>1, <1>2
  <2>2. PICK x \in S : \A y \in S : x <= y
    <3> HIDE DEF S
    <3> QED BY <2>1, Least
  <2>3. \A j \in 0..x - 1 : PosAt(s, j) # d
    <3> TAKE j \in 0..x - 1
    <3> SUFFICES ASSUME PosAt(s, j) = d PROVE FALSE
      OBVIOUS
    <3>1. j \in S /\ j < x
      BY <1>1, <2>2
    <3>2. x <= j
      BY <2>2, <3>1
    <3> QED BY <1>1, <2>2, <3>1, <3>2
  <2>4. x \in 0..n - 1 /\ PosAt(s, x) = d
    BY <2>2
  <2> HIDE DEF n, d, S
  <2> QED BY <2>3, <2>4
<1> HIDE DEF i, d
<1>4. i \in Nat /\ Count(s) > i
  BY <1>1, <1>3
<1>5. Valid(t, P) /\ t.entries = s.entries /\ t = Of(s.entries, i)
  BY <1>4, Selected
<1>6. Count(t) = n /\ t.stop = i
  BY <1>5 DEF Of, Count
<1>7. Left(s, d) = r
  <2>1. RemoveCurrent(t) = RemoveEntry(t, t.stop)
    BY <1>1, <1>5, <1>6, RemovedCurrent
  <2> QED BY <1>6, <2>1 DEF Left, i
<1> HIDE DEF t
<1>8. /\ Valid(r, P) /\ Count(r) = n - 1
      /\ \A k \in 1..n - 1 : r.entries[k] = IF k < i + 1 THEN s.entries[k] ELSE s.entries[k + 1]
  BY <1>3, <1>5, <1>6, Removed
<1>9. Ends(r)
  <2> SUFFICES ASSUME n - 1 > 1 PROVE r.entries[n - 1].pos \notin Depots
    BY <1>8 DEF Ends
  <2>1. s.entries[n].pos \notin Depots
    BY <1>1 DEF Ends
  <2>2. i + 1 # n
    BY <1>1, <1>2, <1>3, <2>1 DEF d
  <2>3. n - 1 \in 1..n - 1 /\ ~ (n - 1 < i + 1) /\ (n - 1) + 1 = n
    BY <1>1, <1>3, <2>2
  <2> HIDE DEF r, n
  <2> QED BY <1>8, <2>1, <2>3
<1> QED BY <1>7, <1>8, <1>9 DEF d

------------------------------------------------------------------------------
(* Where a convoy goes on *)

LEMMA QualityIs ==
  ASSUME NEW ahead, NEW new, NEW i
  PROVE  /\ Quality(ahead, new, i) \in 0..10
         /\ Quality(ahead, new, i) # 0 => Agree(ahead, new, i) # {}
         /\ 1 \in Agree(ahead, new, i) /\ 2 \in Agree(ahead, new, i) => Quality(ahead, new, i) >= 7
         /\ 1 \notin Agree(ahead, new, i) /\ 2 \notin Agree(ahead, new, i) => Quality(ahead, new, i) <= 3
<1> DEFINE A == Agree(ahead, new, i)
<1>1. Weight[1] = 3 /\ Weight[2] = 4 /\ Weight[3] = 2 /\ Weight[4] = 1
  BY DEF Weight
<1> HIDE DEF A
<1>2. Quality(ahead, new, i) = (IF 1 \in A THEN 3 ELSE 0) + (IF 2 \in A THEN 4 ELSE 0)
                               + (IF 3 \in A THEN 2 ELSE 0) + (IF 4 \in A THEN 1 ELSE 0)
  BY <1>1 DEF Quality, A
<1> QED BY <1>2 DEF A

(* The first of the best entries *)
LEMMA BestExists ==
  ASSUME NEW n \in Nat \ {0}, NEW q \in [0..n - 1 -> 0..10]
  PROVE  \E i \in 0..n - 1 : /\ \A j \in 0..n - 1 : q[j] <= q[i]
                             /\ \A j \in 0..i - 1 : q[j] < q[i]
<1> DEFINE V == {10 - q[i] : i \in 0..n - 1}
<1>1. V \subseteq Nat /\ V # {}
  <2>1. 0 \in 0..n - 1 /\ \A i \in 0..n - 1 : 10 - q[i] \in Nat
    OBVIOUS
  <2> QED BY <2>1
<1>2. PICK v \in V : \A w \in V : v <= w
  <2> HIDE DEF V
  <2> QED BY <1>1, Least
<1>3. PICK m \in 0..n - 1 : v = 10 - q[m]
  BY <1>2
<1>4. ASSUME NEW j \in 0..n - 1 PROVE q[j] <= q[m]
  <2>1. 10 - q[m] <= 10 - q[j]
    BY <1>2, <1>3
  <2>2. q[j] \in 0..10 /\ q[m] \in 0..10
    OBVIOUS
  <2> HIDE DEF V
  <2> QED BY <2>1, <2>2
<1> DEFINE S == {i \in 0..n - 1 : q[i] = q[m]}
<1>5. S \subseteq Nat /\ S # {}
  OBVIOUS
<1>6. PICK x \in S : \A y \in S : x <= y
  <2> HIDE DEF S
  <2> QED BY <1>5, Least
<1>7. x \in 0..n - 1 /\ q[x] = q[m]
  BY <1>6
<1>8. \A j \in 0..n - 1 : q[j] <= q[x]
  BY <1>4, <1>7
<1>9. ASSUME NEW j \in 0..x - 1 PROVE q[j] < q[x]
  <2>1. j \in 0..n - 1 /\ j < x
    BY <1>7
  <2>2. q[j] # q[x]
    <3> SUFFICES ASSUME q[j] = q[x] PROVE FALSE
      OBVIOUS
    <3>1. j \in S
      BY <1>7, <2>1
    <3>2. x <= j
      BY <1>6, <3>1
    <3> QED BY <1>7, <2>1, <3>2
  <2>3. q[j] \in 0..10 /\ q[x] \in 0..10 /\ q[j] <= q[x]
    BY <1>7, <1>8, <2>1
  <2> QED BY <2>2, <2>3
<1> QED BY <1>7, <1>8, <1>9

LEMMA BestStopIs ==
  ASSUME NEW ahead, NEW new, NEW n \in Nat \ {0}, n = Count(new), new.stop \in Nat
  PROVE  /\ BestStop(ahead, new) \in Nat
         /\ \A i \in 0..n - 1 :
              /\ 1 \in Agree(ahead, new, i)
              /\ \A j \in 0..n - 1 : j # i => Quality(ahead, new, j) < Quality(ahead, new, i)
              => BestStop(ahead, new) = i
<1> DEFINE I == 0..n - 1
           q == [i \in I |-> Quality(ahead, new, i)]
           best == CHOOSE i \in I : (\A j \in I : q[j] <= q[i]) /\ \A j \in 0..(i - 1) : q[j] < q[i]
           A == Agree(ahead, new, best)
<1>1. BestStop(ahead, new) = IF q[best] = 0 THEN new.stop ELSE (best + Min(A) - 1) % n
  BY DEF BestStop
<1>2. q \in [0..n - 1 -> 0..10]
  BY QualityIs
<1>3. best \in I /\ (\A j \in I : q[j] <= q[best]) /\ \A j \in 0..(best - 1) : q[j] < q[best]
  <2> HIDE DEF q
  <2>1. \E i \in 0..n - 1 : (\A j \in 0..n - 1 : q[j] <= q[i]) /\ \A j \in 0..i - 1 : q[j] < q[i]
    BY <1>2, BestExists
  <2> QED BY <2>1
<1> HIDE DEF best
<1>4. q[best] = Quality(ahead, new, best) /\ \A i \in I : q[i] = Quality(ahead, new, i)
  BY <1>3
<1> HIDE DEF q
<1>5. A \subseteq 1..4
  BY DEF Agree
<1> HIDE DEF A
<1>6. ASSUME A # {} PROVE Min(A) \in A /\ \A y \in A : Min(A) <= y
  <2>1. A \subseteq Nat
    BY <1>5
  <2>2. \E x \in A : \A y \in A : x <= y
    BY <1>6, <2>1, Least
  <2> QED BY <2>2 DEF Min
<1>7. BestStop(ahead, new) \in Nat
  <2>1. CASE q[best] = 0
    BY <1>1, <2>1
  <2>2. CASE q[best] # 0
    <3>1. A # {}
      BY <1>4, <2>2, QualityIs DEF A
    <3>2. best + Min(A) - 1 \in Nat
      <4> DEFINE w == Min(A)
      <4>1. w \in A
        BY <1>6, <3>1
      <4> HIDE DEF w
      <4>2. w \in 1..4
        BY <1>5, <4>1
      <4>3. best \in Nat
        BY <1>3
      <4>4. best + w - 1 \in Nat
        BY <4>2, <4>3
      <4> QED BY <4>4 DEF w
    <3>3. (best + Min(A) - 1) % n \in 0..n - 1
      BY <3>2, Within
    <3> QED BY <1>1, <2>2, <3>3
  <2> QED BY <2>1, <2>2
<1>8. ASSUME NEW i \in I, 1 \in Agree(ahead, new, i),
             \A j \in I : j # i => Quality(ahead, new, j) < Quality(ahead, new, i)
      PROVE  BestStop(ahead, new) = i
  <2>1. best = i
    <3> SUFFICES ASSUME best # i PROVE FALSE
      OBVIOUS
    <3>1. q[best] < q[i] /\ q[i] <= q[best]
      BY <1>3, <1>4, <1>8
    <3>2. q[best] \in 0..10 /\ q[i] \in 0..10
      BY <1>2, <1>3
    <3> HIDE DEF I
    <3> QED BY <3>1, <3>2
  <2>2. 1 \in A
    BY <1>8, <2>1 DEF A
  <2>3. Min(A) = 1
    <3>1. Min(A) \in 1..4 /\ Min(A) <= 1
      BY <1>5, <1>6, <2>2
    <3> QED BY <3>1
  <2>4. q[best] # 0
    <3>1. Weight[1] = 3 /\ Weight[2] = 4 /\ Weight[3] = 2 /\ Weight[4] = 1
      BY DEF Weight
    <3>2. Quality(ahead, new, best) # 0
      BY <2>2, <3>1 DEF Quality, A
    <3> QED BY <1>4, <3>2
  <2>5. best + Min(A) - 1 = i /\ i \in 0..n - 1
    BY <2>1, <2>3
  <2>6. i % n = i
    BY <2>5, Rounds
  <2> QED BY <1>1, <2>4, <2>5, <2>6
<1> QED BY <1>7, <1>8

LEMMA SameEntries ==
  ASSUME NEW s, Valid(s, Stops), NEW r, r.entries = s.entries
  PROVE  Ends(r) /\ Count(r) = Count(s)
<1>1. Count(r) = Count(s) /\ Count(s) \in Nat
  BY Parts DEF Count
<1>2. Count(s) > 1 => s.entries[Count(s)].pos \notin Depots
  BY <1>1, StopsEnd
<1> QED BY <1>1, <1>2 DEF Ends

(* The parts of the update *)
FreshOf(old, new) ==
  SetStop(new, BestStop(Ahead(IF Current(old) \in Depots THEN RemoveCurrent(old) ELSE old, old.stop), new))
BackOf(old, new) == Insert(FreshOf(old, new), Entry(Current(old)))

LEMMA FreshIs ==
  ASSUME NEW old, NEW new, Valid(new, Stops), Count(new) > 0
  PROVE  Valid(FreshOf(old, new), Stops) /\ FreshOf(old, new).entries = new.entries /\ Count(FreshOf(old, new)) = Count(new)
<1>1. Count(new) \in Nat \ {0} /\ new.stop \in Nat
  BY Parts
<1>2. BestStop(Ahead(IF Current(old) \in Depots THEN RemoveCurrent(old) ELSE old, old.stop), new) \in Nat
  BY <1>1, BestStopIs
<1>3. Valid(FreshOf(old, new), Stops) /\ FreshOf(old, new).entries = new.entries
  BY <1>2, Selected DEF FreshOf
<1> QED BY <1>3 DEF Count

LEMMA BackIs ==
  ASSUME NEW old, Valid(old, Stops \cup Depots), Current(old) \in Depots, NEW new, Valid(new, Stops), Count(new) > 0
  PROVE  LET b == BackOf(old, new)
         IN  /\ Valid(b, Stops \cup Depots) /\ Ends(b) /\ Count(b) > 0
             /\ (b.stop + Count(b) - 1) % Count(b) \in Nat
<1> DEFINE f == FreshOf(old, new)
           e == Entry(Current(old))
           b == BackOf(old, new)
<1>1. Valid(f, Stops) /\ f.entries = new.entries /\ Count(f) = Count(new) /\ Count(new) \in Nat
  BY FreshIs, Parts
<1>2. e \in Entries(Stops \cup Depots)
  BY DEF Entry, Entries
<1> HIDE DEF f, e
<1>3. Valid(f, Stops \cup Depots)
  BY <1>1, Wider
<1>4. b = Insert(f, e)
  BY DEF BackOf, f, e
<1> HIDE DEF b
<1>5. Valid(b, Stops \cup Depots)
  BY <1>2, <1>3, <1>4, Inserted
<1>6. Count(b) > 0
  <2>1. CASE Count(f) < MaxEntries
    BY <1>1, <1>2, <1>3, <1>4, <2>1, Inserted
  <2>2. CASE ~ (Count(f) < MaxEntries)
    <3>1. b = f
      BY <1>1, <1>4, <2>2, EntriesAssumption DEF Insert
    <3> QED BY <1>1, <3>1
  <2> QED BY <2>1, <2>2
<1>7. Ends(b)
  <2>1. Count(f) > 0 => f.entries[Count(f)].pos \notin Depots
    BY <1>1, StopsEnd
  <2> QED BY <1>2, <1>3, <1>4, <2>1, InsertEnds
<1>8. (b.stop + Count(b) - 1) % Count(b) \in Nat
  BY <1>5, <1>6, SteppedBack
<1> QED BY <1>5, <1>6, <1>7, <1>8 DEF b

LEMMA UpdatedIs ==
  ASSUME NEW old, NEW new
  PROVE  /\ Count(old) = 0 \/ Count(new) = 0 => Updated(old, new).sched = SetStop(new, 0)
         /\ Count(old) # 0 /\ Count(new) # 0 =>
              /\ old.stop < Count(new) /\ PosAt(new, old.stop) = Current(old)
                   => Updated(old, new).sched = SetStop(new, old.stop)
              /\ ~ (old.stop < Count(new) /\ PosAt(new, old.stop) = Current(old)) =>
                   /\ Current(old) \in Depots =>
                        Updated(old, new).sched =
                          SetStop(BackOf(old, new), (BackOf(old, new).stop + Count(BackOf(old, new)) - 1) % Count(BackOf(old, new)))
                   /\ Current(old) \notin Depots => Updated(old, new).sched = FreshOf(old, new)
  BY DEF Updated, BackOf, FreshOf

LEMMA UpdateValid ==
  ASSUME NEW old, Valid(old, Stops \cup Depots), NEW new, Valid(new, Stops)
  PROVE  Valid(Updated(old, new).sched, Stops \cup Depots) /\ Ends(Updated(old, new).sched)
<1>0. Count(new) \in Nat /\ old.stop \in Nat
  BY Parts
<1>1. ASSUME NEW n \in Nat PROVE Valid(SetStop(new, n), Stops \cup Depots) /\ Ends(SetStop(new, n))
  <2>1. Valid(SetStop(new, n), Stops) /\ SetStop(new, n).entries = new.entries
    BY Selected
  <2> QED BY <2>1, Wider, SameEntries
<1>2. CASE Count(old) = 0 \/ Count(new) = 0
  BY <1>1, <1>2, UpdatedIs
<1>3. CASE Count(old) # 0 /\ Count(new) # 0
  <2>1. CASE old.stop < Count(new) /\ PosAt(new, old.stop) = Current(old)
    BY <1>0, <1>1, <1>3, <2>1, UpdatedIs
  <2>2. CASE ~ (old.stop < Count(new) /\ PosAt(new, old.stop) = Current(old)) /\ Current(old) \in Depots
    <3> DEFINE b == BackOf(old, new)
               m == (b.stop + Count(b) - 1) % Count(b)
    <3>1. Valid(b, Stops \cup Depots) /\ Ends(b) /\ m \in Nat
      <4>1. Count(new) > 0
        BY <1>0, <1>3
      <4> QED BY <2>2, <4>1, BackIs
    <3>2. Updated(old, new).sched = SetStop(b, m)
      BY <1>3, <2>2, UpdatedIs
    <3> HIDE DEF b, m
    <3>3. Valid(SetStop(b, m), Stops \cup Depots) /\ SetStop(b, m).entries = b.entries
      BY <3>1, Selected
    <3> QED BY <3>1, <3>2, <3>3 DEF Ends, Count
  <2>3. CASE ~ (old.stop < Count(new) /\ PosAt(new, old.stop) = Current(old)) /\ Current(old) \notin Depots
    <3>1. Updated(old, new).sched = FreshOf(old, new)
      BY <1>3, <2>3, UpdatedIs
    <3>2. Valid(FreshOf(old, new), Stops) /\ FreshOf(old, new).entries = new.entries
      BY <1>0, <1>3, FreshIs
    <3> QED BY <3>1, <3>2, Wider, SameEntries
  <2> QED BY <2>1, <2>2, <2>3
<1> QED BY <1>2, <1>3

(* The schedule but for the depot the convoy is sent to: what comes next is what came next *)
LEMMA WithoutIs ==
  ASSUME NEW P, NEW old, Valid(old, P), Ends(old), Current(old) \in Depots, Count(Without(old)) > 0
  PROVE  LET s == Without(old)
         IN  /\ s = RemoveCurrent(old) /\ Valid(s, P) /\ s.stop = old.stop
             /\ Count(old) = Count(s) + 1 /\ old.stop + 1 < Count(old)
             /\ Current(s) = old.entries[old.stop + 2].pos
<1> DEFINE s == Without(old)
           n == Count(old)
           m == old.stop
<1>1. s = RemoveCurrent(old)
  BY DEF Without
<1>2. n \in Nat /\ n > 0 /\ m \in Nat /\ m < n /\ Current(old) = old.entries[m + 1].pos
  <2>1. n # 0
    BY CurrentIs, Disjoint
  <2> QED BY <2>1, Parts, CurrentIs
<1>3. s = RemoveEntry(old, m) /\ m \in 0..n - 1
  BY <1>1, <1>2, RemovedCurrent
<1> HIDE DEF s
<1>4. /\ Valid(s, P) /\ Count(s) = n - 1
      /\ \A k \in 1..n - 1 : s.entries[k] = IF k < m + 1 THEN old.entries[k] ELSE old.entries[k + 1]
      /\ s.stop = IF m > m THEN m - 1 ELSE IF m = n - 1 /\ m > 0 THEN m - 1 ELSE m
  BY <1>3, Removed
<1>5. n > 1
  BY <1>2, <1>4 DEF s
<1>6. m # n - 1
  <2> SUFFICES ASSUME m = n - 1 PROVE FALSE
    OBVIOUS
  <2>1. m + 1 = n
    BY <1>2
  <2> QED BY <1>2, <1>5, <2>1 DEF Ends
<1>7. m + 1 < n /\ s.stop = m /\ n = Count(s) + 1 /\ m + 1 \in 1..n - 1
  BY <1>2, <1>4, <1>6
<1>8. s.entries[m + 1] = old.entries[m + 2]
  <2>1. ~ (m + 1 < m + 1) /\ (m + 1) + 1 = m + 2
    BY <1>2
  <2> HIDE DEF n, m
  <2> QED BY <1>4, <1>7, <2>1
<1>9. Current(s) = old.entries[m + 2].pos
  <2>1. Count(s) # 0
    BY <1>2, <1>7
  <2> QED BY <1>4, <1>7, <1>8, <2>1, CurrentIs
<1> QED BY <1>1, <1>4, <1>7, <1>9 DEF s

(* If the place a convoy goes to and the one after it follow each other in the new schedule, *)
(* which serves no place twice, the convoy goes on where they do                            *)
LEMMA BestIsGoal ==
  ASSUME NEW new, Valid(new, Stops), Distinct(new), NEW a, NEW b, NEW x, NEW y,
         NEW i \in 0..Count(new) - 1, a = PosAt(new, i), b = PosAt(new, i + 1)
  PROVE  BestStop(<<a, b, x, y>>, new) = i
<1> DEFINE n == Count(new)
           ahead == <<a, b, x, y>>
           e == new.entries
<1>1. n \in Nat \ {0} /\ new.stop \in Nat /\ DOMAIN e = 1..n
  BY Parts
<1> HIDE DEF n
<1>2. i \in 0..n - 1
  BY DEF n
<1>3. ahead[1] = a /\ ahead[2] = b
  OBVIOUS
<1> HIDE DEF ahead
<1>4. \A j, k \in 1..n : j # k => e[j].pos # e[k].pos
  BY <1>1 DEF Distinct
<1>5. \A j \in 0..n - 1 : PosAt(new, j) = e[j + 1].pos
  BY <1>1, PlaceAt DEF n
<1>6. ASSUME NEW j \in 0..n - 1 PROVE PosAt(new, j + 1) = e[(IF j = n - 1 THEN 0 ELSE j + 1) + 1].pos
  <2>1. CASE j = n - 1
    <3>1. 0 \in 0..n - 1 /\ 0 + n = j + 1
      BY <1>1, <2>1
    <3>2. PosAt(new, 0 + n) = e[0 + 1].pos
      BY <1>1, <3>1, PlaceAt DEF n
    <3> QED BY <2>1, <3>1, <3>2
  <2>2. CASE j # n - 1
    <3>1. j + 1 \in 0..n - 1
      BY <1>1, <2>2
    <3> QED BY <1>5, <2>2, <3>1
  <2> QED BY <2>1, <2>2
<1>7. 1 \in Agree(ahead, new, i) /\ 2 \in Agree(ahead, new, i)
  <2>1. i + 1 - 1 = i /\ i + 2 - 1 = i + 1 /\ 1 \in 1..4 /\ 2 \in 1..4
    BY <1>2
  <2> QED BY <1>3, <2>1 DEF Agree
<1>8. ASSUME NEW j \in 0..n - 1, j # i PROVE Quality(ahead, new, j) < Quality(ahead, new, i)
  <2>1. j + 1 - 1 = j /\ j + 2 - 1 = j + 1
    OBVIOUS
  <2>2. 1 \notin Agree(ahead, new, j)
    <3>1. j + 1 \in 1..n /\ i + 1 \in 1..n /\ j + 1 # i + 1
      BY <1>1, <1>2, <1>8
    <3>2. PosAt(new, j) # a
      BY <1>2, <1>4, <1>5, <3>1
    <3> QED BY <1>3, <2>1, <3>2 DEF Agree
  <2>3. 2 \notin Agree(ahead, new, j)
    <3> DEFINE u == (IF j = n - 1 THEN 0 ELSE j + 1) + 1
               v == (IF i = n - 1 THEN 0 ELSE i + 1) + 1
    <3>1. u \in 1..n /\ v \in 1..n /\ u # v
      BY <1>1, <1>2, <1>8
    <3>2. PosAt(new, j + 1) = e[u].pos /\ b = e[v].pos
      BY <1>2, <1>6
    <3> HIDE DEF u, v
    <3>3. PosAt(new, j + 1) # b
      BY <1>4, <3>1, <3>2
    <3> QED BY <1>3, <2>1, <3>3 DEF Agree
  <2>4. Quality(ahead, new, j) <= 3 /\ Quality(ahead, new, i) >= 7
    BY <1>7, <2>2, <2>3, QualityIs
  <2>5. Quality(ahead, new, j) \in 0..10 /\ Quality(ahead, new, i) \in 0..10
    BY QualityIs
  <2> QED BY <2>4, <2>5
<1>9. BestStop(ahead, new) = i
  <2>1. n = Count(new)
    BY DEF n
  <2> QED BY <1>1, <1>2, <1>7, <1>8, <2>1, BestStopIs
<1> QED BY <1>9 DEF ahead

LEMMA GoesOn ==
  ASSUME NEW old, Valid(old, Stops \cup Depots), Ends(old), NEW new, Valid(new, Stops), Distinct(new),
         Count(new) < MaxEntries, Count(Without(old)) > 2,
         <<Current(Without(old)), PosAt(Without(old), Without(old).stop + 1)>> \in Follow(new)
  PROVE  LET r == Updated(old, new).sched
         IN  /\ Current(old) \in Depots => Current(r) = Current(old)
             /\ Goal(r) = Goal(old)
<1> DEFINE s == Without(old)
           n == Count(new)
           f == FreshOf(old, new)
           r == Updated(old, new).sched
           P == Stops \cup Depots
<1>1. n \in Nat /\ Count(old) \in Nat /\ old.stop \in Nat /\ (Count(old) > 0 => old.stop < Count(old))
  BY Parts
<1>2. PICK i \in 0..n - 1 : <<Current(s), PosAt(s, s.stop + 1)>> = <<PosAt(new, i), PosAt(new, i + 1)>>
  BY DEF Follow
<1>3. Current(s) = PosAt(new, i) /\ PosAt(s, s.stop + 1) = PosAt(new, i + 1)
  BY <1>2
<1>4. s.stop = old.stop
  <2>1. CASE Current(old) \in Depots
    <3>1. Count(Without(old)) > 0
      <4>1. Count(Without(old)) \in Nat
        <5>1. Count(old) # 0
          BY CurrentIs, Disjoint, <2>1
        <5>2. Without(old) = RemoveEntry(old, old.stop) /\ old.stop \in 0..Count(old) - 1
          BY <1>1, <2>1, <5>1, RemovedCurrent DEF Without
        <5>3. Valid(Without(old), P)
          BY <5>2, Removed
        <5> QED BY <5>3, Parts
      <4> QED BY <4>1
    <3> QED BY <2>1, <3>1, WithoutIs
  <2>2. CASE Current(old) \notin Depots
    BY <2>2 DEF Without
  <2> QED BY <2>1, <2>2
<1>5. n > 0 /\ i \in Nat /\ i < n
  BY <1>1, <1>2
<1>6. f = SetStop(new, i)
  <2>1. Ahead(s, old.stop) = <<Current(s), PosAt(s, s.stop + 1), PosAt(s, s.stop + 2), PosAt(s, s.stop + 3)>>
    BY <1>4 DEF Ahead
  <2>2. BestStop(Ahead(s, old.stop), new) = i
    <3> HIDE DEF s
    <3> QED BY <1>2, <1>3, <2>1, BestIsGoal
  <2> QED BY <2>2 DEF FreshOf, Without
<1>7. /\ f = Of(new.entries, i) /\ Valid(f, Stops) /\ f.entries = new.entries /\ f.stop = i /\ Count(f) = n
      /\ Current(f) = Current(s)
  <2>1. f = Of(new.entries, i) /\ Valid(f, Stops) /\ f.entries = new.entries
    <3>1. i \in Nat /\ Count(new) > i
      BY <1>1, <1>5
    <3>2. SetStop(new, i) = Of(new.entries, i) /\ Valid(SetStop(new, i), Stops) /\ SetStop(new, i).entries = new.entries
      BY <3>1, Selected
    <3> HIDE DEF f
    <3> QED BY <1>6, <3>2
  <2>2. f.stop = i /\ Count(f) = n
    BY <2>1 DEF Of, Count
  <2>3. Current(f) = new.entries[i + 1].pos
    <3> HIDE DEF f
    <3> QED BY <1>5, <2>1, <2>2, CurrentIs
  <2>4. PosAt(new, i) = new.entries[i + 1].pos
    BY <1>1, <1>2, <1>5, PlaceAt
  <2> QED BY <1>3, <2>1, <2>2, <2>3, <2>4
<1>8. \A k \in 0..n - 1 : PosAt(new, k) \in Stops
  <2> TAKE k \in 0..n - 1
  <2>1. k + 1 \in 1..n
    BY <1>1
  <2>2. new.entries[k + 1].pos \in Stops
    BY <2>1, EntryOf
  <2> QED BY <1>1, <1>5, <2>2, PlaceAt
<1>9. Current(s) \in Stops
  BY <1>2, <1>3, <1>8
<1>10. n # 0 /\ Count(old) # 0
  <2>1. CASE Count(old) = 0
    <3>1. Current(old) \notin Depots
      BY <2>1, CurrentIs, Disjoint
    <3>2. s = old
      BY <3>1 DEF Without
    <3> QED BY <2>1, <3>2
  <2> QED BY <1>5, <2>1
<1>11. CASE Current(old) \notin Depots
  <2>1. s = old /\ Goal(old) = Current(old)
    BY <1>11 DEF Without, Goal
  <2>2. CASE old.stop < n /\ PosAt(new, old.stop) = Current(old)
    <3>1. r = SetStop(new, old.stop)
      BY <1>10, <2>2, UpdatedIs
    <3>2. r = Of(new.entries, old.stop) /\ Valid(r, Stops)
      BY <1>1, <2>2, <3>1, Selected
    <3> HIDE DEF r
    <3>3. r.entries = new.entries /\ r.stop = old.stop /\ Count(r) = n
      BY <3>2 DEF Of, Count
    <3>4. Current(r) = new.entries[old.stop + 1].pos
      BY <1>5, <3>2, <3>3, CurrentIs
    <3>5. PosAt(new, old.stop) = new.entries[old.stop + 1].pos
      <4>1. old.stop \in 0..n - 1 /\ n \in Nat \ {0}
        BY <1>1, <1>5, <2>2
      <4> QED BY <4>1, PlaceAt
    <3>6. Goal(r) = Current(r)
      BY <1>11, <2>2, <3>4, <3>5 DEF Goal
    <3> QED BY <1>11, <2>1, <2>2, <3>4, <3>5, <3>6 DEF r
  <2>3. CASE ~ (old.stop < n /\ PosAt(new, old.stop) = Current(old))
    <3>1. r = f
      BY <1>10, <1>11, <2>3, UpdatedIs
    <3>2. Current(r) = Current(old)
      BY <1>7, <2>1, <3>1
    <3>3. Goal(r) = Current(r)
      BY <1>11, <3>2 DEF Goal
    <3> QED BY <1>11, <2>1, <3>2, <3>3
  <2> QED BY <2>2, <2>3
<1>12. CASE Current(old) \in Depots
  <2> DEFINE b == BackOf(old, new)
             e == Entry(Current(old))
             g == SetStop(b, i)
  <2>1. ~ (old.stop < n /\ PosAt(new, old.stop) = Current(old))
    <3> SUFFICES ASSUME old.stop < n, PosAt(new, old.stop) = Current(old) PROVE FALSE
      OBVIOUS
    <3>1. old.stop \in 0..n - 1
      BY <1>1
    <3> QED BY <1>8, <1>12, <3>1, Disjoint
  <2>2. r = SetStop(b, (b.stop + Count(b) - 1) % Count(b))
    BY <1>10, <1>12, <2>1, UpdatedIs
  <2>3. e \in Entries(P) /\ e.pos = Current(old)
    BY <1>12 DEF Entry, Entries
  <2>4. Valid(f, P)
    BY <1>7, Wider
  <2> HIDE DEF f, e
  <2>5. b = Insert(f, e)
    BY DEF BackOf, f, e
  <2> HIDE DEF b
  <2>6. /\ Valid(b, P) /\ Count(b) = n + 1 /\ b.entries[i + 1] = e /\ b.stop = i + 1
        /\ \A k \in i + 1..n : b.entries[k + 1] = new.entries[k]
    <3>1. Count(f) < MaxEntries /\ Count(f) # 0
      BY <1>5, <1>7
    <3> HIDE DEF P, n
    <3>2. Valid(Insert(f, e), P)
      BY <2>3, <2>4, Inserted
    <3>3. /\ Count(Insert(f, e)) = Count(f) + 1
          /\ Insert(f, e).entries[f.stop + 1] = e
          /\ \A k \in f.stop + 1..Count(f) : Insert(f, e).entries[k + 1] = f.entries[k]
          /\ Insert(f, e).stop = IF Count(f) = 0 THEN 0 ELSE f.stop + 1
      BY <2>3, <2>4, <3>1, Inserted
    <3> QED BY <1>7, <2>5, <3>1, <3>2, <3>3
  <2>7. r = g
    <3>1. Count(b) > 0 /\ b.stop > 0
      BY <1>1, <1>5, <2>6
    <3>2. (b.stop + Count(b) - 1) % Count(b) = b.stop - 1
      BY <2>6, <3>1, SteppedBack
    <3>3. b.stop - 1 = i
      BY <1>5, <2>6
    <3> HIDE DEF r
    <3> QED BY <2>2, <3>2, <3>3
  <2>8. g = Of(b.entries, i) /\ Valid(g, P) /\ g.entries = b.entries
    <3>1. Count(b) > i
      BY <1>1, <1>5, <2>6
    <3> QED BY <1>5, <2>6, <3>1, Selected
  <2> HIDE DEF g
  <2>9. g.stop = i /\ Count(g) = n + 1
    BY <2>6, <2>8 DEF Of, Count
  <2>10. Current(g) = Current(old)
    <3>1. Count(g) # 0
      BY <1>1, <2>9
    <3>2. Current(g) = g.entries[g.stop + 1].pos
      BY <2>8, <3>1, CurrentIs
    <3> QED BY <2>3, <2>6, <2>8, <2>9, <3>2
  <2>11. Goal(g) = Current(s)
    <3> DEFINE h == SetStop(g, i + 1)
    <3>1. (g.stop + 1) % Count(g) = i + 1
      <4>1. n + 1 \in Nat \ {0} /\ i + 1 \in 0..(n + 1) - 1
        BY <1>1, <1>5
      <4> HIDE DEF n
      <4> QED BY <2>9, <4>1, Rounds
    <3>2. Goal(g) = Current(h)
      BY <1>12, <2>10, <3>1 DEF Goal
    <3>3. h = Of(g.entries, i + 1) /\ Valid(h, P) /\ h.entries = g.entries
      <4>1. i + 1 \in Nat /\ Count(g) > i + 1
        BY <1>1, <1>5, <2>9
      <4> QED BY <2>8, <4>1, Selected
    <3> HIDE DEF h
    <3>4. h.stop = i + 1 /\ Count(h) = n + 1
      BY <2>9, <3>3 DEF Of, Count
    <3>5. Count(h) # 0
      BY <1>1, <3>4
    <3>6. Current(h) = b.entries[(i + 1) + 1].pos
      BY <2>8, <3>3, <3>4, <3>5, CurrentIs
    <3>7. i + 1 \in i + 1..n
      BY <1>1, <1>5
    <3>8. Current(h) = new.entries[i + 1].pos
      BY <2>6, <3>6, <3>7
    <3>9. PosAt(new, i) = new.entries[i + 1].pos
      BY <1>1, <1>2, <1>5, PlaceAt
    <3> QED BY <1>3, <3>2, <3>8, <3>9
  <2>12. Goal(old) = Current(s)
    <3> DEFINE h == SetStop(old, old.stop + 1)
    <3>0. Count(s) > 0
      <4>1. Count(s) \in Nat
        <5>1. Without(old) = RemoveEntry(old, old.stop) /\ old.stop \in 0..Count(old) - 1
          BY <1>1, <1>10, <1>12, RemovedCurrent DEF Without
        <5>2. Valid(Without(old), P)
          BY <5>1, Removed
        <5> QED BY <5>2, Parts
      <4> QED BY <4>1
    <3>1. old.stop + 1 < Count(old) /\ Current(s) = old.entries[old.stop + 2].pos
      BY <1>12, <3>0, WithoutIs
    <3>2. (old.stop + 1) % Count(old) = old.stop + 1
      <4>1. Count(old) \in Nat \ {0} /\ old.stop + 1 \in 0..Count(old) - 1
        BY <1>1, <1>10, <3>1
      <4> QED BY <4>1, Rounds
    <3>3. Goal(old) = Current(h)
      BY <1>12, <3>2 DEF Goal
    <3>4. h = Of(old.entries, old.stop + 1) /\ Valid(h, P) /\ h.entries = old.entries
      <4>1. old.stop + 1 \in Nat /\ Count(old) > old.stop + 1
        BY <1>1, <3>1
      <4> QED BY <4>1, Selected
    <3> HIDE DEF h
    <3>5. h.stop = old.stop + 1 /\ Count(h) = Count(old)
      BY <3>4 DEF Of, Count
    <3>6. Current(h) = old.entries[(old.stop + 1) + 1].pos
      BY <1>10, <3>4, <3>5, CurrentIs
    <3>7. (old.stop + 1) + 1 = old.stop + 2
      BY <1>1
    <3> QED BY <3>1, <3>3, <3>6, <3>7
  <2> QED BY <2>7, <2>10, <2>11, <2>12
<1> QED BY <1>11, <1>12

------------------------------------------------------------------------------
(* Every step keeps the invariant *)

LEMMA InitInv == Init => IInv
<1> SUFFICES ASSUME Init PROVE IInv
  OBVIOUS
<1>1. PICK n \in 2..Len(Route) : \E i, j \in 0..(n - 1) :
        LET first == [k \in 1..n |-> Entry(Route[k])]
        IN  line = Of(first, i) /\ cnv = Of(first, j)
  BY DEF Init
<1> DEFINE first == [k \in 1..n |-> Entry(Route[k])]
<1>2. PICK i \in 0..n - 1 : \E j \in 0..n - 1 : line = Of(first, i) /\ cnv = Of(first, j)
  BY <1>1
<1>3. PICK j \in 0..n - 1 : line = Of(first, i) /\ cnv = Of(first, j)
  BY <1>2
<1>4. Len(Route) \in Nat /\ Len(Route) <= MaxEntries /\ DOMAIN Route = 1..Len(Route) /\ n \in Nat
  BY RouteAssumption
<1>5. first \in Seq(Entries(Stops)) /\ Len(first) = n
  <2>1. \A k \in 1..n : Entry(Route[k]) \in Entries(Stops)
    BY <1>4 DEF Entry, Entries, Stops
  <2> QED BY <1>4, <2>1, IsASeq
<1> HIDE DEF first
<1>6. Valid(line, Stops) /\ Valid(cnv, Stops)
  <2>1. Len(first) <= MaxEntries /\ i \in Nat /\ j \in Nat /\ i < Len(first) /\ j < Len(first)
    BY <1>4, <1>5, EntriesAssumption
  <2> QED BY <1>3, <1>5, <2>1, Made
<1>7. Valid(cnv, Stops \cup Depots) /\ Ends(cnv)
  BY <1>6, Wider, SameEntries
<1>8. window = line /\ bound = TRUE /\ pending = FALSE /\ edits = 0 /\ last = [kind |-> "start", at |-> 0]
  BY DEF Init
<1>9. last \in [kind : Kinds, at : Nat] /\ edits \in 0..MaxEdits
  BY <1>8, RouteAssumption DEF Kinds
<1> QED BY <1>6, <1>7, <1>8, <1>9 DEF IInv

(* An edit changes the window only *)
LEMMA EditInv ==
  ASSUME IInv, NEW kind \in Kinds, NEW i \in Nat, NEW s, Edit(kind, i, s), Valid(s, Stops)
  PROVE  IInv'
<1>1. window' = s /\ edits' = edits + 1 /\ edits < MaxEdits /\ last' = [kind |-> kind, at |-> i]
      /\ UNCHANGED <<line, cnv, bound, pending>>
  BY DEF Edit
<1>2. edits' \in 0..MaxEdits
  BY <1>1, RouteAssumption DEF IInv
<1>3. last' \in [kind : Kinds, at : Nat]
  BY <1>1
<1> QED BY <1>1, <1>2, <1>3 DEF IInv, Valid, StopValid, Ends, Count

LEMMA TravelInv ==
  ASSUME IInv, NEW kind \in Kinds, NEW s, Travel(kind, s), Valid(s, Stops \cup Depots), Ends(s),
         bound' \in BOOLEAN, pending' \in BOOLEAN
  PROVE  IInv'
<1>1. cnv' = s /\ last' = [kind |-> kind, at |-> cnv.stop] /\ UNCHANGED <<window, line, edits>>
  BY DEF Travel
<1>2. last' \in [kind : Kinds, at : Nat]
  <2>1. cnv.stop \in Nat
    BY Parts DEF IInv
  <2> QED BY <1>1, <2>1
<1> QED BY <1>1, <1>2 DEF IInv, Valid, StopValid, Ends, Count

LEMMA StepInv == IInv /\ [Next]_vars => IInv'
<1> SUFFICES ASSUME IInv, [Next]_vars PROVE IInv'
  OBVIOUS
<1>0. /\ Valid(window, Stops) /\ Valid(line, Stops) /\ Valid(cnv, Stops \cup Depots) /\ Ends(cnv)
      /\ bound \in BOOLEAN /\ pending \in BOOLEAN
  BY DEF IInv
<1>a. Count(window) \in Nat /\ window.stop \in Nat /\ Indices \subseteq Nat
  BY <1>0, Parts DEF Indices
<1>b. \A p \in Stops : Entry(p) \in Entries(Stops)
  BY DEF Entry, Entries
<1>1. ASSUME DeleteEntry PROVE IInv'
  <2>1. PICK i \in Indices : Edit("delete", i, RemoveEntry(window, i))
    BY <1>1 DEF DeleteEntry
  <2>2. Valid(RemoveEntry(window, i), Stops)
    BY <1>0, Removed DEF Indices
  <2> QED BY <1>a, <2>1, <2>2, EditInv DEF Kinds
<1>2. ASSUME Up PROVE IInv'
  <2>1. PICK i \in Indices : Edit("up", i, MoveBackward(window, i))
    BY <1>2 DEF Up
  <2>2. Valid(MoveBackward(window, i), Stops)
    BY <1>0, Moved DEF Indices
  <2> QED BY <1>a, <2>1, <2>2, EditInv DEF Kinds
<1>3. ASSUME Down PROVE IInv'
  <2>1. PICK i \in Indices : Edit("down", i, MoveForward(window, i))
    BY <1>3 DEF Down
  <2>2. Valid(MoveForward(window, i), Stops)
    BY <1>0, Moved DEF Indices
  <2> QED BY <1>a, <2>1, <2>2, EditInv DEF Kinds
<1>4. ASSUME Select PROVE IInv'
  <2>1. PICK i \in Indices : Edit("select", i, SetStop(window, i))
    BY <1>4 DEF Select
  <2>2. Valid(SetStop(window, i), Stops)
    BY <1>0, <1>a, Selected
  <2> QED BY <1>a, <2>1, <2>2, EditInv DEF Kinds
<1>5. ASSUME AppendStop PROVE IInv'
  <2>1. PICK p \in Stops : Edit("append", Count(window), Added(window, Entry(p)))
    BY <1>5 DEF AppendStop
  <2>2. Valid(Added(window, Entry(p)), Stops)
    BY <1>0, <1>b, Appended
  <2> QED BY <1>a, <2>1, <2>2, EditInv DEF Kinds
<1>6. ASSUME InsertStop PROVE IInv'
  <2>1. PICK p \in Stops : Edit("insert", window.stop, Insert(window, Entry(p)))
    BY <1>6 DEF InsertStop
  <2>2. Valid(Insert(window, Entry(p)), Stops)
    BY <1>0, <1>b, Inserted
  <2> QED BY <1>a, <2>1, <2>2, EditInv DEF Kinds
<1>7. ASSUME ByTheClock PROVE IInv'
  <2> DEFINE k == window.stop + 1
             e == window.entries
             x == [e[k] EXCEPT !.timed = ~@]
             s == [window EXCEPT !.entries[window.stop + 1].timed = ~@]
  <2>1. Count(window) > 0 /\ Edit("clock", window.stop, s)
    BY <1>7 DEF ByTheClock
  <2>2. /\ window = Of(e, window.stop) /\ e \in Seq(Entries(Stops)) /\ Len(e) <= MaxEntries
        /\ k \in 1..Len(e) /\ window.stop < Len(e)
    BY <1>0, <2>1, Parts DEF Count
  <2>3. x \in Entries(Stops)
    <3>1. e[k] \in Entries(Stops)
      BY <2>2
    <3> HIDE DEF e, k
    <3> QED BY <3>1 DEF Entries
  <2>4. s = Of([e EXCEPT ![k] = x], window.stop)
    <3>1. s = [window EXCEPT !.entries = [e EXCEPT ![k] = x]]
      OBVIOUS
    <3> DEFINE r == [e EXCEPT ![k] = x]
    <3> HIDE DEF s, r, e
    <3>2. s = [window EXCEPT !.entries = r]
      BY <3>1 DEF r
    <3>3. s = Of(r, window.stop)
      BY <2>2, <3>2, Changed
    <3> QED BY <3>3 DEF r
  <2> HIDE DEF s, x, k, e
  <2>5. [e EXCEPT ![k] = x] \in Seq(Entries(Stops)) /\ Len([e EXCEPT ![k] = x]) = Len(e)
    BY <2>2, <2>3, ExceptSeq
  <2>6. Valid(s, Stops)
    BY <1>a, <2>2, <2>4, <2>5, Made
  <2> QED BY <1>a, <2>1, <2>6, EditInv DEF Kinds
<1>8. ASSUME Cleanup PROVE IInv'
  <2>1. Edit("cleanup", 0, SetStop(RemoveDouble(window), RemoveDouble(window).stop))
    BY <1>8 DEF Cleanup
  <2>2. Valid(SetStop(RemoveDouble(window), RemoveDouble(window).stop), Stops)
    BY <1>0, Cleaned
  <2> QED BY <2>1, <2>2, EditInv DEF Kinds
<1>9. ASSUME ReturnWay PROVE IInv'
  <2>1. PICK mirror \in BOOLEAN : Edit("return", 0, AddReturnWay(window, mirror))
    BY <1>9 DEF ReturnWay
  <2>2. Valid(AddReturnWay(window, mirror), Stops)
    BY <1>0, WayBack
  <2> QED BY <2>1, <2>2, EditInv DEF Kinds
<1>10. ASSUME CloseWindow PROVE IInv'
  <2>1. line' = MakeValid(window) /\ window' = line' /\ pending' = bound /\ last' = [kind |-> "close", at |-> 0]
        /\ UNCHANGED <<cnv, bound, edits>>
    BY <1>10 DEF CloseWindow
  <2>2. Valid(MakeValid(window), Stops)
    BY <1>0, MadeValid
  <2>3. last' \in [kind : Kinds, at : Nat]
    BY <2>1 DEF Kinds
  <2> DEFINE r == MakeValid(window)
  <2> HIDE DEF r
  <2>4. line' = r /\ window' = r /\ Valid(r, Stops)
    BY <2>1, <2>2 DEF r
  <2> QED BY <2>1, <2>3, <2>4 DEF IInv, Valid, StopValid, Ends, Count
<1>11. ASSUME Drive PROVE IInv'
  <2>1. Travel("drive", Advance(cnv)) /\ UNCHANGED <<bound, pending>>
    BY <1>11 DEF Drive
  <2>2. Valid(Advance(cnv), Stops \cup Depots) /\ Advance(cnv).entries = cnv.entries
    BY <1>0, Advanced
  <2>3. Ends(Advance(cnv))
    BY <1>0, <2>2 DEF Ends, Count
  <2> QED BY <1>0, <2>1, <2>2, <2>3, TravelInv DEF Kinds
<1>12. ASSUME ToDepot PROVE IInv'
  <2>1. PICK d \in Depots : /\ Current(cnv) \notin Depots /\ Travel("depot", SentTo(cnv, d))
                            /\ bound' = (bound /\ Matches(SentTo(cnv, d), line))
                            /\ pending' = (pending /\ bound')
    BY <1>12 DEF ToDepot
  <2>2. Valid(SentTo(cnv, d), Stops \cup Depots) /\ Ends(SentTo(cnv, d))
    BY <1>0, <2>1, Sent
  <2>3. bound' \in BOOLEAN /\ pending' \in BOOLEAN
    BY <2>1
  <2> QED BY <2>1, <2>2, <2>3, TravelInv DEF Kinds
<1>13. ASSUME ArriveInDepot PROVE IInv'
  <2>1. Current(cnv) \in Depots /\ Travel("arrive", Left(cnv, Current(cnv))) /\ UNCHANGED <<bound, pending>>
    BY <1>13 DEF ArriveInDepot
  <2>2. Valid(Left(cnv, Current(cnv)), Stops \cup Depots) /\ Ends(Left(cnv, Current(cnv)))
    BY <1>0, <2>1, WithoutFirst
  <2> QED BY <1>0, <2>1, <2>2, TravelInv DEF Kinds
<1>14. ASSUME Update PROVE IInv'
  <2>1. Travel("update", Updated(cnv, line).sched) /\ pending' = FALSE /\ UNCHANGED bound
    BY <1>14 DEF Update
  <2>2. Valid(Updated(cnv, line).sched, Stops \cup Depots) /\ Ends(Updated(cnv, line).sched)
    BY <1>0, UpdateValid
  <2> QED BY <1>0, <2>1, <2>2, TravelInv DEF Kinds
<1>15. ASSUME JoinLine PROVE IInv'
  <2> DEFINE r == Updated(cnv, line).sched
  <2>1. Travel("join", SetStop(r, line.stop)) /\ bound' = TRUE /\ pending' = FALSE
    BY <1>15 DEF JoinLine
  <2>2. Valid(r, Stops \cup Depots) /\ Ends(r)
    BY <1>0, UpdateValid
  <2> HIDE DEF r
  <2>3. line.stop \in Nat
    BY <1>0, Parts
  <2>4. Valid(SetStop(r, line.stop), Stops \cup Depots) /\ SetStop(r, line.stop).entries = r.entries
    BY <2>2, <2>3, Selected
  <2>5. Ends(SetStop(r, line.stop))
    BY <2>2, <2>4 DEF Ends, Count
  <2> QED BY <2>1, <2>4, <2>5, TravelInv DEF Kinds
<1>16. CASE UNCHANGED vars
  BY <1>16 DEF vars, IInv, Valid, StopValid, Ends, Count
<1> QED BY <1>1, <1>2, <1>3, <1>4, <1>5, <1>6, <1>7, <1>8, <1>9, <1>10, <1>11, <1>12, <1>13, <1>14, <1>15, <1>16
        DEF Next

LEMMA Invariant == Spec => []IInv
  BY InitInv, StepInv, PTL DEF Spec

------------------------------------------------------------------------------
(* The theorems *)

(* Every schedule, of the window, of the line and of the convoy, keeps its current stop in its *)
(* entries and never has more of them than fit, whatever edits, moves and updates come in turn *)
THEOREM TypesHold == Spec => []TypeOK
<1>1. IInv => TypeOK
  BY DEF IInv, TypeOK, Valid
<1> QED BY <1>1, Invariant, PTL

(* Whatever the window has become by edits, the line is given a schedule that serves no place *)
(* twice in a row, also from its end to its start, and loses no place that has another beside it *)
THEOREM LinesAreClean == Spec => []CleanIsClean
<1>1. ASSUME IInv PROVE CleanIsClean
  <2> DEFINE r == MakeValid(window)
  <2>1. Valid(window, Stops)
    BY <1>1 DEF IInv
  <2>2. /\ Valid(r, Stops)
        /\ \A i \in 0..(Count(r) - 1) : PosAt(r, i) # PosAt(r, i + 1)
        /\ Count(r) > 0 => Places(r) = Places(window)
        /\ Count(r) = 0 => Cardinality(Places(window)) <= 1
    BY <2>1, MadeValid
  <2>3. StopValid(r)
    BY <2>2 DEF Valid
  <2> HIDE DEF r
  <2> QED BY <2>2, <2>3 DEF CleanIsClean, r
<1> QED BY <1>1, Invariant, PTL

(* The current stop of the window stays on its entry when others are moved, taken out or put in *)
THEOREM SelectionStays == Spec => SelectionFollows
<1> DEFINE A == /\ last'.kind \in {"up", "down"} => Current(window') = Current(window)
                /\ last'.kind = "delete" /\ last'.at # window.stop => Current(window') = Current(window)
                /\ last'.kind = "insert" => Current(window') = Current(window) \/ Count(window) = 0
<1>1. ASSUME IInv, Next PROVE A
  <2>0. Valid(window, Stops) /\ \A p \in Stops : Entry(p) \in Entries(Stops)
    BY <1>1 DEF IInv, Entry, Entries
  <2>1. CASE DeleteEntry
    <3>1. PICK i \in Indices : Edit("delete", i, RemoveEntry(window, i))
      BY <2>1 DEF DeleteEntry
    <3>2. last'.kind = "delete" /\ last'.at = i /\ window' = RemoveEntry(window, i)
      BY <3>1 DEF Edit
    <3>3. i # window.stop => Current(RemoveEntry(window, i)) = Current(window)
      BY <2>0, RemovedAround DEF Indices
    <3> QED BY <3>2, <3>3
  <2>2. CASE Up
    <3>1. PICK i \in Indices : Edit("up", i, MoveBackward(window, i))
      BY <2>2 DEF Up
    <3>2. last'.kind = "up" /\ window' = MoveBackward(window, i)
      BY <3>1 DEF Edit
    <3>3. Current(MoveBackward(window, i)) = Current(window)
      BY <2>0, Moved DEF Indices
    <3> QED BY <3>2, <3>3
  <2>3. CASE Down
    <3>1. PICK i \in Indices : Edit("down", i, MoveForward(window, i))
      BY <2>3 DEF Down
    <3>2. last'.kind = "down" /\ window' = MoveForward(window, i)
      BY <3>1 DEF Edit
    <3>3. Current(MoveForward(window, i)) = Current(window)
      BY <2>0, Moved DEF Indices
    <3> QED BY <3>2, <3>3
  <2>4. CASE InsertStop
    <3>1. PICK p \in Stops : Edit("insert", window.stop, Insert(window, Entry(p)))
      BY <2>4 DEF InsertStop
    <3>2. last'.kind = "insert" /\ window' = Insert(window, Entry(p))
      BY <3>1 DEF Edit
    <3>3. Count(window) # 0 => Current(Insert(window, Entry(p))) = Current(window)
      BY <2>0, InsertedBefore
    <3> QED BY <3>2, <3>3
  <2>5. CASE Select \/ AppendStop \/ ByTheClock \/ Cleanup \/ ReturnWay
    <3>1. last'.kind \in {"select", "append", "clock", "cleanup", "return"}
      BY <2>5 DEF Select, AppendStop, ByTheClock, Cleanup, ReturnWay, Edit
    <3> QED BY <3>1
  <2>6. CASE CloseWindow \/ Drive \/ ToDepot \/ ArriveInDepot \/ Update \/ JoinLine
    <3>1. last'.kind \in {"close", "drive", "depot", "arrive", "update", "join"}
      BY <2>6 DEF CloseWindow, Drive, ToDepot, ArriveInDepot, Update, JoinLine, Travel
    <3> QED BY <3>1
  <2> QED BY <1>1, <2>1, <2>2, <2>3, <2>4, <2>5, <2>6 DEF Next
<1>2. IInv /\ [Next]_vars => [A]_vars
  BY <1>1
<1> QED BY <1>2, Invariant, PTL DEF Spec, SelectionFollows

(* A convoy that takes over the edited schedule of its line goes on to where it went, by way of the *)
(* depot it was sent to, if that stop and the next still follow each other and no place is served  *)
(* twice, whatever has been put in, taken out or moved around them                                  *)
THEOREM GoalStays == Spec => GoalIsKept
<1> DEFINE A == last'.kind = "update" =>
                LET old == Without(cnv)
                IN  /\ Distinct(old) /\ Distinct(line) /\ Count(line) < MaxEntries
                    /\ Count(old) > 2 /\ <<Current(old), PosAt(old, old.stop + 1)>> \in Follow(line)
                    => /\ Current(cnv) \in Depots => Current(cnv') = Current(cnv)
                       /\ Goal(cnv') = Goal(cnv)
<1>1. ASSUME IInv, Next PROVE A
  <2>1. CASE Update
    <3>1. cnv' = Updated(cnv, line).sched
      BY <2>1 DEF Update, Travel
    <3>2. Valid(line, Stops) /\ Valid(cnv, Stops \cup Depots) /\ Ends(cnv)
      BY <1>1 DEF IInv
    <3> DEFINE old == Without(cnv)
    <3> SUFFICES ASSUME Distinct(line), Count(line) < MaxEntries, Count(old) > 2,
                        <<Current(old), PosAt(old, old.stop + 1)>> \in Follow(line)
                 PROVE  /\ Current(cnv) \in Depots => Current(cnv') = Current(cnv)
                        /\ Goal(cnv') = Goal(cnv)
      OBVIOUS
    <3> DEFINE r == Updated(cnv, line).sched
    <3>3. /\ Current(cnv) \in Depots => Current(r) = Current(cnv)
          /\ Goal(r) = Goal(cnv)
      BY <3>2, GoesOn
    <3>4. cnv' = r
      BY <3>1
    <3> HIDE DEF r
    <3> QED BY <3>3, <3>4
  <2>2. CASE DeleteEntry \/ Up \/ Down \/ Select \/ AppendStop \/ InsertStop \/ ByTheClock \/ Cleanup \/ ReturnWay
    <3>1. last'.kind \in {"delete", "up", "down", "select", "append", "insert", "clock", "cleanup", "return"}
      BY <2>2 DEF DeleteEntry, Up, Down, Select, AppendStop, InsertStop, ByTheClock, Cleanup, ReturnWay, Edit
    <3> QED BY <3>1
  <2>3. CASE CloseWindow \/ Drive \/ ToDepot \/ ArriveInDepot \/ JoinLine
    <3>1. last'.kind \in {"close", "drive", "depot", "arrive", "join"}
      BY <2>3 DEF CloseWindow, Drive, ToDepot, ArriveInDepot, JoinLine, Travel
    <3> QED BY <3>1
  <2> QED BY <1>1, <2>1, <2>2, <2>3 DEF Next
<1>2. IInv /\ [Next]_vars => [A]_vars
  BY <1>1
<1> QED BY <1>2, Invariant, PTL DEF Spec, GoalIsKept

=============================================================================
