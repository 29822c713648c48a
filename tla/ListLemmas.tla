----------------------------- MODULE ListLemmas -----------------------------
(***************************************************************************)
(* Induction over the natural numbers, and what the functions on lists     *)
(* that recur over them compute.                                           *)
(*                                                                         *)
(* The induction theorems of the standard library take a predicate as a    *)
(* parameter.  Here it is a set of numbers: a caller defines the set of    *)
(* the numbers that satisfy the predicate.  The principle follows from the *)
(* strict subset ordering of finite sets being well founded.               *)
(***************************************************************************)
EXTENDS Sums, SequencesExt, FiniteSetTheorems, WellFoundedInduction, TLAPS

\* A set of natural numbers that is not empty has a least element.
LEMMA LeastElement ==
  ASSUME NEW T, T \subseteq Nat, T # {}
  PROVE  \E x \in T : \A y \in T : x <= y
<1> DEFINE Below(x) == 0..(x - 1)
           R == StrictSubsetOrdering(Nat)
           U == {Below(x) : x \in T}
<1>1. IsWellFoundedOn(R, FiniteSubsetsOf(Nat))
  BY FS_StrictSubsetOrderingWellFounded
<1>2. U \subseteq FiniteSubsetsOf(Nat)
  <2>1. ASSUME NEW x \in T
        PROVE  Below(x) \in FiniteSubsetsOf(Nat)
    BY FS_Interval DEF FiniteSubsetsOf
  <2> QED BY <2>1
<1>3. U # {}
  OBVIOUS
<1>4. \E X \in U : \A Y \in U : <<Y, X>> \notin R
  <2> HIDE DEF R, U
  <2> QED BY <1>1, <1>2, <1>3, WFMin
<1>5. PICK x \in T : \A y \in T : <<Below(y), Below(x)>> \notin R
  <2> HIDE DEF R, Below
  <2> QED BY <1>4
<1>6. ASSUME NEW y \in T, y < x
      PROVE  FALSE
  <2>1. y \in Below(x) /\ y \notin Below(y)
    BY <1>6
  <2>2. Below(y) \subseteq Below(x) /\ Below(y) # Below(x)
    BY <1>6, <2>1
  <2>3. <<Below(y), Below(x)>> \in R
    BY <2>2 DEF StrictSubsetOrdering
  <2> QED BY <1>5, <2>3
<1> QED BY <1>6

\* A set that has 0, and with each number the next one, has every number.
LEMMA Induction ==
  ASSUME NEW S, 0 \in S, \A n \in Nat : n \in S => n + 1 \in S
  PROVE  \A n \in Nat : n \in S
<1> DEFINE T == Nat \ S
<1>1. SUFFICES ASSUME T # {} PROVE FALSE
  OBVIOUS
<1>2. PICK x \in T : \A y \in T : x <= y
  BY <1>1, LeastElement
<1>3. x # 0
  OBVIOUS
<1>4. x - 1 \in Nat /\ x - 1 \notin T
  BY <1>2, <1>3
<1> QED BY <1>4

\* What appending an element does to a list.
LEMMA AppendIs ==
  ASSUME NEW S, NEW q \in Seq(S), NEW x
  PROVE  /\ Len(q) \in Nat /\ DOMAIN q = 1..Len(q)
         /\ Len(Append(q, x)) = Len(q) + 1
         /\ DOMAIN Append(q, x) = 1..(Len(q) + 1)
         /\ Append(q, x)[Len(q) + 1] = x
         /\ \A t \in DOMAIN q : Append(q, x)[t] = q[t]
         /\ x \in S => Append(q, x) \in Seq(S)
OBVIOUS

\* What putting two lists together does.
LEMMA ConcatIs ==
  ASSUME NEW S, NEW q \in Seq(S), NEW r \in Seq(S)
  PROVE  /\ q \o r \in Seq(S) /\ Len(q \o r) = Len(q) + Len(r)
         /\ \A t \in 1..Len(q) : (q \o r)[t] = q[t]
         /\ \A t \in 1..Len(r) : (q \o r)[Len(q) + t] = r[t]
OBVIOUS

\* Each value of g but the first follows from the one before by the step of next.
Recurs(g, a, lo, hi, next) ==
  g[lo] = a /\ \A i \in lo..hi : i # lo => g[i] = next[i][g[i - 1]]

\* A function that recurs over an interval exists and has the type of its steps.
LEMMA Recursion ==
  ASSUME NEW V, NEW a \in V, NEW lo \in Nat, NEW hi \in Nat, lo <= hi,
         NEW next \in [lo..hi -> [V -> V]]
  PROVE  \E g \in [lo..hi -> V] : Recurs(g, a, lo, hi, next)
<1> DEFINE Fits(g, n) == Recurs(g, a, lo, n, next)
           S == {n \in Nat : lo + n <= hi => \E g \in [lo..(lo + n) -> V] : Fits(g, lo + n)}
<1>1. 0 \in S
  <2> DEFINE g == [i \in lo..(lo + 0) |-> a]
  <2>1. g \in [lo..(lo + 0) -> V] /\ Fits(g, lo + 0)
    BY DEF Recurs
  <2> QED BY <2>1
<1>2. ASSUME NEW n \in Nat, n \in S
      PROVE  n + 1 \in S
  <2>1. SUFFICES ASSUME lo + (n + 1) <= hi
                 PROVE  \E g \in [lo..(lo + (n + 1)) -> V] : Fits(g, lo + (n + 1))
    OBVIOUS
  <2>2. PICK g \in [lo..(lo + n) -> V] : Fits(g, lo + n)
    BY <1>2, <2>1
  <2> DEFINE m == lo + (n + 1)
             h == [i \in lo..m |-> IF i = m THEN next[m][g[lo + n]] ELSE g[i]]
  <2>3. m \in lo..hi /\ m # lo /\ lo + n = m - 1
    BY <2>1
  <2>4. next[m] \in [V -> V] /\ g[lo + n] \in V
    BY <2>3
  <2>5. h \in [lo..m -> V]
    BY <2>4
  <2>6. h[lo] = a
    BY <2>2, <2>3 DEF Recurs
  <2>7. ASSUME NEW i \in lo..m, i # lo
        PROVE  h[i] = next[i][h[i - 1]]
    <3>1. CASE i = m
      BY <2>3, <3>1
    <3>2. CASE i # m
      <4>1. i \in lo..(lo + n) /\ h[i] = g[i]
        BY <3>2
      <4>2. i - 1 \in lo..m /\ i - 1 # m
        BY <2>7, <3>2
      <4>3. h[i - 1] = g[i - 1]
        BY <4>2
      <4> HIDE DEF h
      <4> QED BY <2>2, <2>7, <4>1, <4>3 DEF Recurs
    <3> QED BY <3>1, <3>2
  <2> HIDE DEF h
  <2> QED BY <2>5, <2>6, <2>7 DEF Recurs
<1>3. \A n \in Nat : n \in S
  <2> HIDE DEF S
  <2> QED BY <1>1, <1>2, Induction
<1> DEFINE n == hi - lo
<1>4. n \in Nat /\ lo + n = hi
  OBVIOUS
<1>5. n \in S
  BY <1>3, <1>4
<1>6. \E g \in [lo..(lo + n) -> V] : Fits(g, lo + n)
  BY <1>4, <1>5
<1> QED BY <1>4, <1>6

-----------------------------------------------------------------------------
\* The sum of a list is the last value of its running total.
LEMMA SumRuns ==
  ASSUME NEW list \in Seq(Nat)
  PROVE  \E g \in [0..Len(list) -> Nat] :
            /\ g[0] = 0 /\ \A i \in 1..Len(list) : g[i] = g[i - 1] + list[i]
            /\ SumOf(list) = g[Len(list)]
<1> DEFINE len == Len(list)
           Sums(f) == f = [n \in 0..len |-> IF n = 0 THEN 0 ELSE f[n - 1] + list[n]]
           next == [i \in 0..len |-> [v \in Nat |-> IF i = 0 THEN v ELSE v + list[i]]]
           upTo == CHOOSE f : Sums(f)
<1>1. len \in Nat /\ \A i \in 1..len : list[i] \in Nat
  OBVIOUS
<1>2. next \in [0..len -> [Nat -> Nat]]
  BY <1>1
<1>3. PICK g \in [0..len -> Nat] : Recurs(g, 0, 0, len, next)
  <2> DEFINE V == Nat
             lo == 0
             a == 0
  <2> HIDE DEF next, len
  <2>1. a \in V /\ lo \in Nat /\ lo <= len /\ len \in Nat
    BY <1>1
  <2>2. next \in [lo..len -> [V -> V]]
    BY <1>2
  <2> HIDE DEF V, lo, a
  <2>3. \E g \in [lo..len -> V] : Recurs(g, a, lo, len, next)
    BY <2>1, <2>2, Recursion
  <2> QED BY <2>3 DEF V, lo, a
<1>4. g[0] = 0 /\ \A i \in 1..len : g[i] = g[i - 1] + list[i]
  <2>1. \A i \in 1..len : i \in 0..len /\ i # 0 /\ i - 1 \in 0..len
    BY <1>1
  <2>2. \A i \in 1..len : \A v \in Nat : next[i][v] = v + list[i]
    BY <2>1
  <2> HIDE DEF next
  <2> QED BY <1>1, <1>3, <2>1, <2>2 DEF Recurs
<1>5. Sums(g)
  BY <1>1, <1>4
<1>6. Sums(upTo)
  <2> HIDE DEF Sums
  <2> QED BY <1>5
<1>7. SumOf(list) = upTo[len]
  BY DEF SumOf
<1> DEFINE Agrees == {n \in Nat : n <= len => upTo[n] = g[n]}
<1> HIDE DEF upTo, next
<1>8. 0 \in Agrees
  BY <1>1, <1>4, <1>6
<1>9. ASSUME NEW n \in Nat, n \in Agrees
      PROVE  n + 1 \in Agrees
  <2>1. SUFFICES ASSUME n + 1 <= len PROVE upTo[n + 1] = g[n + 1]
    OBVIOUS
  <2>2. upTo[n] = g[n] /\ n + 1 \in 1..len /\ n + 1 \in 0..len /\ (n + 1) - 1 = n
    BY <1>1, <1>9, <2>1
  <2>3. upTo[n + 1] = upTo[n] + list[n + 1]
    BY <1>6, <2>2
  <2> QED BY <1>4, <2>2, <2>3
<1>10. upTo[len] = g[len]
  <2>1. \A n \in Nat : n \in Agrees
    <3> HIDE DEF Agrees
    <3> QED BY <1>8, <1>9, Induction
  <2> QED BY <1>1, <2>1
<1> QED BY <1>3, <1>4, <1>7, <1>10

LEMMA SumOfNone == SumOf(<< >>) = 0
<1>1. << >> \in Seq(Nat) /\ Len(<< >>) = 0
  OBVIOUS
<1> QED BY <1>1, SumRuns

\* The sum of a longer list, and with it the type of a sum.
LEMMA SumOfAppend ==
  ASSUME NEW list \in Seq(Nat), NEW x \in Nat
  PROVE  /\ SumOf(list) \in Nat
         /\ SumOf(Append(list, x)) = SumOf(list) + x
<1> DEFINE len == Len(list)
           more == Append(list, x)
<1>1. /\ len \in Nat /\ more \in Seq(Nat) /\ Len(more) = len + 1
      /\ more[len + 1] = x /\ \A i \in 1..len : more[i] = list[i]
  OBVIOUS
<1>2. PICK g \in [0..len -> Nat] :
        /\ g[0] = 0 /\ \A i \in 1..len : g[i] = g[i - 1] + list[i]
        /\ SumOf(list) = g[len]
  BY SumRuns
<1>3. PICK h \in [0..(len + 1) -> Nat] :
        /\ h[0] = 0 /\ \A i \in 1..(len + 1) : h[i] = h[i - 1] + more[i]
        /\ SumOf(more) = h[len + 1]
  <2> HIDE DEF more
  <2> QED BY <1>1, SumRuns
<1> DEFINE Agrees == {n \in Nat : n <= len => h[n] = g[n]}
<1>4. 0 \in Agrees
  BY <1>2, <1>3
<1>5. ASSUME NEW n \in Nat, n \in Agrees
      PROVE  n + 1 \in Agrees
  <2>1. SUFFICES ASSUME n + 1 <= len PROVE h[n + 1] = g[n + 1]
    OBVIOUS
  <2>2. h[n] = g[n] /\ n + 1 \in 1..len /\ n + 1 \in 1..(len + 1) /\ (n + 1) - 1 = n
    BY <1>1, <1>5, <2>1
  <2>3. more[n + 1] = list[n + 1]
    BY <1>1, <2>2
  <2> HIDE DEF more
  <2>4. h[n + 1] = h[n] + more[n + 1] /\ g[n + 1] = g[n] + list[n + 1]
    BY <1>2, <1>3, <2>2
  <2> QED BY <2>2, <2>3, <2>4
<1>6. h[len] = g[len]
  <2>1. \A n \in Nat : n \in Agrees
    <3> HIDE DEF Agrees
    <3> QED BY <1>4, <1>5, Induction
  <2> QED BY <1>1, <2>1
<1>7. h[len + 1] = h[len] + x
  <2> HIDE DEF more
  <2>1. len + 1 \in 1..(len + 1) /\ (len + 1) - 1 = len
    BY <1>1
  <2> QED BY <1>1, <1>3, <2>1
<1>8. g[len] \in Nat
  BY <1>1, <1>2
<1> QED BY <1>2, <1>3, <1>6, <1>7, <1>8

-----------------------------------------------------------------------------
\* The lists of a list, one after the other, are the last value of a running
\* concatenation.
LEMMA FlattenRuns ==
  ASSUME NEW S, NEW ss \in Seq(Seq(S)), ss # << >>
  PROVE  \E g \in [1..Len(ss) -> Seq(S)] :
            /\ g[1] = ss[1]
            /\ \A i \in 1..Len(ss) : i # 1 => g[i] = g[i - 1] \o ss[i]
            /\ FlattenSeq(ss) = g[Len(ss)]
<1> DEFINE len == Len(ss)
           V == Seq(S)
           Joins(f) == f = [i \in 1..len |-> IF i = 1 THEN ss[i] ELSE f[i - 1] \o ss[i]]
           next == [i \in 1..len |-> [v \in V |-> v \o ss[i]]]
           flatten == CHOOSE f : Joins(f)
<1>1. len \in Nat /\ len >= 1 /\ (\A i \in 1..len : ss[i] \in V) /\ ss[1] \in V
  OBVIOUS
<1>2. next \in [1..len -> [V -> V]]
  <2>1. ASSUME NEW i \in 1..len, NEW v \in V
        PROVE  v \o ss[i] \in V
    BY <1>1
  <2> HIDE DEF V
  <2> QED BY <2>1
<1>3. PICK g \in [1..len -> V] : Recurs(g, ss[1], 1, len, next)
  <2> DEFINE first == ss[1]
  <2>1. first \in V /\ 1 \in Nat /\ 1 <= len
    BY <1>1
  <2> HIDE DEF next, len, V, first
  <2>2. \E g \in [1..len -> V] : Recurs(g, first, 1, len, next)
    BY <1>1, <1>2, <2>1, Recursion
  <2> QED BY <2>2 DEF first
<1>4. \A i \in 1..len : i # 1 => g[i] = g[i - 1] \o ss[i]
  <2>1. \A i \in 1..len : i # 1 => i - 1 \in 1..len
    BY <1>1
  <2>2. \A i \in 1..len : \A v \in V : next[i][v] = v \o ss[i]
    OBVIOUS
  <2> HIDE DEF next, V
  <2> QED BY <1>1, <1>3, <2>1, <2>2 DEF Recurs
<1>5. g[1] = ss[1]
  BY <1>3 DEF Recurs
<1>6. Joins(g)
  <2>1. \A i \in 1..len : g[i] = IF i = 1 THEN ss[i] ELSE g[i - 1] \o ss[i]
    BY <1>4, <1>5
  <2> QED BY <1>3, <2>1
<1>7. Joins(flatten)
  <2> HIDE DEF Joins
  <2> QED BY <1>6
<1>8. FlattenSeq(ss) = flatten[len]
  BY <1>1 DEF FlattenSeq
<1> DEFINE Agrees == {n \in Nat : n + 1 <= len => flatten[n + 1] = g[n + 1]}
<1> HIDE DEF flatten, next
<1>9. 0 \in Agrees
  <2>1. flatten[1] = ss[1]
    BY <1>1, <1>7
  <2> QED BY <1>5, <2>1
<1>10. ASSUME NEW n \in Nat, n \in Agrees
       PROVE  n + 1 \in Agrees
  <2> DEFINE m == (n + 1) + 1
  <2>1. SUFFICES ASSUME m <= len PROVE flatten[m] = g[m]
    OBVIOUS
  <2>2. flatten[n + 1] = g[n + 1] /\ m \in 1..len /\ m # 1 /\ m - 1 = n + 1
    BY <1>1, <1>10, <2>1
  <2>3. flatten[m] = flatten[m - 1] \o ss[m]
    BY <1>7, <2>2
  <2>4. g[m] = g[m - 1] \o ss[m]
    BY <1>4, <2>2
  <2> QED BY <2>2, <2>3, <2>4
<1>11. flatten[len] = g[len]
  <2>1. \A n \in Nat : n \in Agrees
    <3> HIDE DEF Agrees
    <3> QED BY <1>9, <1>10, Induction
  <2> DEFINE n == len - 1
  <2>2. n \in Nat /\ n + 1 = len
    BY <1>1
  <2>3. n \in Agrees
    BY <2>1, <2>2
  <2> QED BY <2>2, <2>3
<1> QED BY <1>3, <1>4, <1>5, <1>8, <1>11

LEMMA FlattenNone == FlattenSeq(<< >>) = << >>
BY DEF FlattenSeq

\* One list more at the end.
LEMMA FlattenAppend ==
  ASSUME NEW S, NEW ss \in Seq(Seq(S)), NEW s \in Seq(S)
  PROVE  /\ FlattenSeq(ss) \in Seq(S)
         /\ FlattenSeq(Append(ss, s)) = FlattenSeq(ss) \o s
<1> DEFINE len == Len(ss)
           more == Append(ss, s)
           V == Seq(S)
<1>1. /\ len \in Nat /\ more \in Seq(V) /\ Len(more) = len + 1
      /\ more[len + 1] = s /\ \A i \in 1..len : more[i] = ss[i]
  <2>1. s \in V /\ ss \in Seq(V)
    OBVIOUS
  <2> HIDE DEF V
  <2> QED BY <2>1, AppendIs
<1> HIDE DEF more
<1>2. more # << >>
  BY <1>1
<1>3. PICK h \in [1..Len(more) -> V] :
        /\ h[1] = more[1]
        /\ \A i \in 1..Len(more) : i # 1 => h[i] = h[i - 1] \o more[i]
        /\ FlattenSeq(more) = h[Len(more)]
  BY <1>1, <1>2, FlattenRuns
<1>4. /\ \A i \in 1..(len + 1) : i # 1 => h[i] = h[i - 1] \o more[i]
      /\ h[1] = more[1] /\ FlattenSeq(more) = h[len + 1]
  BY <1>1, <1>3
<1>5. CASE ss = << >>
  <2>1. len = 0 /\ more[1] = s
    BY <1>1, <1>5
  <2>2. FlattenSeq(more) = s
    BY <1>4, <2>1
  <2>3. FlattenSeq(ss) = << >>
    BY <1>5, FlattenNone
  <2>4. << >> \in Seq(S) /\ << >> \o s = s
    OBVIOUS
  <2> QED BY <2>2, <2>3, <2>4 DEF more
<1>6. CASE ss # << >>
  <2>1. PICK g \in [1..len -> V] :
          /\ g[1] = ss[1]
          /\ \A i \in 1..len : i # 1 => g[i] = g[i - 1] \o ss[i]
          /\ FlattenSeq(ss) = g[len]
    BY <1>6, FlattenRuns
  <2>2. len >= 1
    BY <1>6
  <2> DEFINE Agrees == {n \in Nat : n + 1 <= len => h[n + 1] = g[n + 1]}
  <2>3. 0 \in Agrees
    BY <1>1, <1>4, <2>1, <2>2
  <2>4. ASSUME NEW n \in Nat, n \in Agrees
        PROVE  n + 1 \in Agrees
    <3> DEFINE m == (n + 1) + 1
    <3>1. SUFFICES ASSUME m <= len PROVE h[m] = g[m]
      OBVIOUS
    <3>2. /\ h[n + 1] = g[n + 1] /\ m \in 1..len /\ m \in 1..(len + 1)
          /\ m # 1 /\ m - 1 = n + 1
      BY <1>1, <2>4, <3>1
    <3>3. h[m] = h[m - 1] \o more[m] /\ g[m] = g[m - 1] \o ss[m]
      BY <1>4, <2>1, <3>2
    <3>4. more[m] = ss[m]
      BY <1>1, <3>2
    <3> QED BY <3>2, <3>3, <3>4
  <2>5. h[len] = g[len]
    <3>1. \A n \in Nat : n \in Agrees
      <4> HIDE DEF Agrees
      <4> QED BY <2>3, <2>4, Induction
    <3> DEFINE n == len - 1
    <3>2. n \in Nat /\ n + 1 = len
      BY <1>1, <2>2
    <3>3. n \in Agrees
      BY <3>1, <3>2
    <3> QED BY <3>2, <3>3
  <2>6. h[len + 1] = h[len] \o s
    <3>1. len + 1 \in 1..(len + 1) /\ len + 1 # 1 /\ (len + 1) - 1 = len
      BY <1>1, <2>2
    <3> QED BY <1>1, <1>4, <3>1
  <2>7. g[len] \in V
    <3>1. len \in 1..len
      BY <1>1, <2>2
    <3> HIDE DEF V, len
    <3> QED BY <3>1
  <2> QED BY <1>4, <2>1, <2>5, <2>6, <2>7 DEF more
<1> QED BY <1>5, <1>6
=============================================================================
