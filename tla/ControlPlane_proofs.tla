------------------------ MODULE ControlPlane_proofs ------------------------
(***************************************************************************)
(* What replay tells, for any threads, handlers, faults, crashes and trims.*)
(*                                                                         *)
(* Replay is two loops, each a recursive function.  Where the lines of the *)
(* log end up is one insertion more for the last line (LoadAppend), and    *)
(* one event more, wherever it stands, changes the fields it covers and no *)
(* other (InsertedApplies).  OwnerInv ties each field to the event that is *)
(* on its way to the log; OrderInv says that within one run numbers and    *)
(* cycles grow together.                                                   *)
(***************************************************************************)
EXTENDS ControlPlane, ListLemmas

\* The value an event gives to a field it covers.
Gives(kind, val, f) ==
    CASE kind = "mode" /\ f = "auth" -> "user"
      [] kind = "engaged" /\ f = "kill" -> TRUE
      [] kind = "engaged" /\ f = "exec" -> "plan"
      [] kind = "released" -> FALSE
      [] OTHER -> val

LEMMA ApplyIs ==
    ASSUME NEW X, NEW s \in [Fields -> X], NEW e
    PROVE  /\ DOMAIN ApplyEvent(s, e) = Fields
           /\ \A f \in Fields : ApplyEvent(s, e)[f] =
                IF f \in Covers(e.kind, e.val) THEN Gives(e.kind, e.val, f) ELSE s[f]
<1>1. CASE e.kind = "mode"
  BY <1>1 DEF ApplyEvent, Covers, Gives, Fields, ForMode
<1>2. CASE e.kind = "authority"
  BY <1>2 DEF ApplyEvent, Covers, Gives, Fields
<1>3. CASE e.kind = "execution"
  BY <1>3 DEF ApplyEvent, Covers, Gives, Fields
<1>4. CASE e.kind = "engaged"
  BY <1>4 DEF ApplyEvent, Covers, Gives, Fields
<1>5. CASE e.kind = "released"
  BY <1>5 DEF ApplyEvent, Covers, Gives, Fields
<1>6. CASE e.kind = "pulse"
  BY <1>6 DEF ApplyEvent, Covers, Gives, Fields
<1>7. CASE e.kind \notin {"mode", "authority", "execution", "engaged", "released", "pulse"}
  BY <1>7 DEF ApplyEvent, Covers, Gives, Fields
<1> QED BY <1>1, <1>2, <1>3, <1>4, <1>5, <1>6, <1>7

-----------------------------------------------------------------------------
\* The values replay may give to a field.
Told(events) ==
    {Default[f] : f \in Fields} \cup {"plan", "user", TRUE, FALSE}
        \cup {events[i].val : i \in DOMAIN events}

\* The states on the way through the events.
LEMMA ApplyRuns ==
    ASSUME NEW S, NEW events \in Seq(S)
    PROVE  \E g \in [0..Len(events) -> [Fields -> Told(events)]] :
              /\ g[0] = Default
              /\ \A i \in 1..Len(events) : g[i] = ApplyEvent(g[i - 1], events[i])
              /\ ApplyEvents(events) = g[Len(events)]
<1> DEFINE len == Len(events)
           X == Told(events)
           V == [Fields -> X]
           Runs(g) == g = [n \in 0..len |-> IF n = 0 THEN Default
                                            ELSE ApplyEvent(g[n - 1], events[n])]
           state == CHOOSE g : Runs(g)
           next == [i \in 0..len |-> [v \in V |-> IF i = 0 THEN v
                                                  ELSE ApplyEvent(v, events[i])]]
<1>1. len \in Nat /\ DOMAIN events = 1..len
  OBVIOUS
<1>2. Default \in V
  BY DEF Default, Fields, Told
<1>3. ASSUME NEW i \in 1..len, NEW v \in V
      PROVE  ApplyEvent(v, events[i]) \in V
  <2> DEFINE e == events[i]
             w == ApplyEvent(v, e)
  <2>1. /\ DOMAIN w = Fields
        /\ \A f \in Fields : w[f] = IF f \in Covers(e.kind, e.val)
                                    THEN Gives(e.kind, e.val, f) ELSE v[f]
    <3> HIDE DEF X
    <3> QED BY ApplyIs
  <2>2. \A f \in Fields : Gives(e.kind, e.val, f) \in X
    BY <1>1 DEF Gives, Told
  <2>3. \A f \in Fields : w[f] \in X
    <3> HIDE DEF X, w, e
    <3> QED BY <2>1, <2>2
  <2>4. w = [f \in Fields |-> w[f]]
    BY <2>1 DEF ApplyEvent
  <2> HIDE DEF X, w
  <2> QED BY <2>3, <2>4 DEF w
<1>4. next \in [0..len -> [V -> V]]
  <2>1. \A i \in 0..len : i # 0 => i \in 1..len
    BY <1>1
  <2> HIDE DEF V
  <2> QED BY <1>3, <2>1
<1>5. PICK g \in [0..len -> V] : Recurs(g, Default, 0, len, next)
  <2> DEFINE a == Default
             lo == 0
  <2>1. a \in V /\ lo \in Nat /\ lo <= len
    BY <1>1, <1>2
  <2>2. next \in [lo..len -> [V -> V]]
    BY <1>4
  <2> HIDE DEF next, len, V, a, lo
  <2>3. \E g \in [lo..len -> V] : Recurs(g, a, lo, len, next)
    BY <1>1, <2>1, <2>2, Recursion
  <2> QED BY <2>3 DEF a, lo
<1>6. g[0] = Default /\ \A i \in 1..len : g[i] = ApplyEvent(g[i - 1], events[i])
  <2>1. \A i \in 1..len : i \in 0..len /\ i # 0 /\ i - 1 \in 0..len
    BY <1>1
  <2>2. \A i \in 1..len : \A v \in V : next[i][v] = ApplyEvent(v, events[i])
    BY <2>1
  <2> HIDE DEF next, V
  <2> QED BY <1>5, <2>1, <2>2 DEF Recurs
<1>7. Runs(g)
  <2>1. \A n \in 0..len : g[n] = IF n = 0 THEN Default ELSE ApplyEvent(g[n - 1], events[n])
    BY <1>1, <1>6
  <2> HIDE DEF V
  <2> QED BY <1>5, <2>1
<1>8. Runs(state)
  <2> HIDE DEF Runs
  <2> QED BY <1>7
<1>9. ApplyEvents(events) = state[len]
  BY DEF ApplyEvents
<1> HIDE DEF state, next
<1>10. \A i \in 0..len : state[i] = IF i = 0 THEN Default
                                    ELSE ApplyEvent(state[i - 1], events[i])
  BY <1>8
<1> HIDE DEF Runs
<1> DEFINE Agrees == {n \in Nat : n <= len => state[n] = g[n]}
<1>11. 0 \in Agrees
  BY <1>1, <1>6, <1>10
<1>12. ASSUME NEW n \in Nat, n \in Agrees
       PROVE  n + 1 \in Agrees
  <2>1. SUFFICES ASSUME n + 1 <= len PROVE state[n + 1] = g[n + 1]
    OBVIOUS
  <2>2. state[n] = g[n] /\ n + 1 \in 1..len /\ n + 1 \in 0..len /\ (n + 1) - 1 = n
    BY <1>1, <1>12, <2>1
  <2>3. state[n + 1] = ApplyEvent(state[n], events[n + 1])
    BY <1>10, <2>2
  <2>4. g[n + 1] = ApplyEvent(g[n], events[n + 1])
    BY <1>6, <2>2
  <2> QED BY <2>2, <2>3, <2>4
<1>13. state[len] = g[len]
  <2>1. \A n \in Nat : n \in Agrees
    <3> HIDE DEF Agrees
    <3> QED BY <1>11, <1>12, Induction
  <2> QED BY <1>1, <2>1
<1> HIDE DEF V
<1> QED BY <1>5, <1>6, <1>9, <1>13 DEF V

\* An event at position k of a list, the events from k on behind it.
Inserted(events, longer, k, e) ==
    /\ k \in 1..(Len(events) + 1)
    /\ Len(longer) = Len(events) + 1
    /\ longer[k] = e
    /\ \A i \in 1..(k - 1) : longer[i] = events[i]
    /\ \A i \in k..Len(events) : longer[i + 1] = events[i]

\* An event changes the fields it covers and no other, wherever it stands; at the
\* end it decides the ones it covers.
LEMMA InsertedApplies ==
    ASSUME NEW S, NEW events \in Seq(S), NEW longer \in Seq(S), NEW k, NEW e,
           Inserted(events, longer, k, e), NEW f \in Fields
    PROVE  /\ f \notin Covers(e.kind, e.val) => ApplyEvents(longer)[f] = ApplyEvents(events)[f]
           /\ f \in Covers(e.kind, e.val) /\ k = Len(events) + 1
                => ApplyEvents(longer)[f] = Gives(e.kind, e.val, f)
<1> DEFINE len == Len(events)
           X == Told(events)
           Y == Told(longer)
<1>1. len \in Nat /\ Len(longer) = len + 1 /\ k \in 1..(len + 1)
  BY DEF Inserted
<1>2. PICK g \in [0..len -> [Fields -> X]] :
        /\ g[0] = Default
        /\ \A i \in 1..len : g[i] = ApplyEvent(g[i - 1], events[i])
        /\ ApplyEvents(events) = g[len]
  <2> HIDE DEF X, len
  <2> QED BY ApplyRuns DEF X, len
<1>3. PICK h \in [0..(len + 1) -> [Fields -> Y]] :
        /\ h[0] = Default
        /\ \A i \in 1..(len + 1) : h[i] = ApplyEvent(h[i - 1], longer[i])
        /\ ApplyEvents(longer) = h[len + 1]
  <2> HIDE DEF Y
  <2> QED BY <1>1, ApplyRuns DEF Y
<1> HIDE DEF X, Y
<1> DEFINE After(e1, v) == IF f \in Covers(e1.kind, e1.val)
                           THEN Gives(e1.kind, e1.val, f) ELSE v
<1>4. \A i \in 1..len : g[i][f] = After(events[i], g[i - 1][f])
  <2>1. SUFFICES ASSUME NEW i \in 1..len PROVE g[i][f] = After(events[i], g[i - 1][f])
    OBVIOUS
  <2> DEFINE v == g[i - 1]
  <2>2. v \in [Fields -> X] /\ g[i] = ApplyEvent(v, events[i])
    <3>1. i - 1 \in 0..len
      BY <1>1
    <3> DEFINE V == [Fields -> X]
    <3> HIDE DEF V
    <3>2. g[i - 1] \in V
      BY <3>1 DEF V
    <3> QED BY <1>2, <3>2 DEF V
  <2> HIDE DEF v
  <2>3. ApplyEvent(v, events[i])[f] = After(events[i], v[f])
    BY <2>2, ApplyIs
  <2> QED BY <2>2, <2>3 DEF v
<1>5. \A i \in 1..(len + 1) : h[i][f] = After(longer[i], h[i - 1][f])
  <2>1. SUFFICES ASSUME NEW i \in 1..(len + 1) PROVE h[i][f] = After(longer[i], h[i - 1][f])
    OBVIOUS
  <2> DEFINE v == h[i - 1]
  <2>2. v \in [Fields -> Y] /\ h[i] = ApplyEvent(v, longer[i])
    <3>1. i - 1 \in 0..(len + 1)
      BY <1>1
    <3> DEFINE V == [Fields -> Y]
    <3> HIDE DEF V
    <3>2. h[i - 1] \in V
      BY <3>1 DEF V
    <3> QED BY <1>3, <3>2 DEF V
  <2> HIDE DEF v
  <2>3. ApplyEvent(v, longer[i])[f] = After(longer[i], v[f])
    BY <2>2, ApplyIs
  <2> QED BY <2>2, <2>3 DEF v
<1> DEFINE Before == {n \in Nat : n <= k - 1 => h[n][f] = g[n][f]}
           Behind == {n \in Nat : k + n <= len + 1 => h[k + n][f] = g[k + n - 1][f]}
<1>6. f \in Covers(e.kind, e.val) /\ k = len + 1
        => ApplyEvents(longer)[f] = Gives(e.kind, e.val, f)
  BY <1>1, <1>3, <1>5 DEF Inserted
<1>7. \A n \in Nat : n \in Before
  <2>1. 0 \in Before
    BY <1>1, <1>2, <1>3
  <2>2. ASSUME NEW n \in Nat, n \in Before
        PROVE  n + 1 \in Before
    <3>1. SUFFICES ASSUME n + 1 <= k - 1 PROVE h[n + 1][f] = g[n + 1][f]
      OBVIOUS
    <3>2. /\ h[n][f] = g[n][f] /\ n + 1 \in 1..len /\ n + 1 \in 1..(len + 1)
          /\ (n + 1) - 1 = n /\ n + 1 \in 1..(k - 1)
      BY <1>1, <2>2, <3>1
    <3>3. longer[n + 1] = events[n + 1]
      BY <3>2 DEF Inserted
    <3>4. h[n + 1][f] = After(longer[n + 1], h[n][f])
      BY <1>5, <3>2
    <3>5. g[n + 1][f] = After(events[n + 1], g[n][f])
      BY <1>4, <3>2
    <3> QED BY <3>2, <3>3, <3>4, <3>5
  <2> HIDE DEF Before
  <2> QED BY <2>1, <2>2, Induction
<1>8. ASSUME f \notin Covers(e.kind, e.val)
      PROVE  \A n \in Nat : n \in Behind
  <2>1. 0 \in Behind
    <3>1. k - 1 \in Before
      BY <1>1, <1>7
    <3>2. h[k - 1][f] = g[k - 1][f]
      BY <1>1, <3>1
    <3>3. h[k][f] = After(longer[k], h[k - 1][f]) /\ longer[k] = e
      BY <1>1, <1>5 DEF Inserted
    <3>4. k + 0 = k /\ k + 0 - 1 = k - 1
      BY <1>1
    <3>5. h[k][f] = h[k - 1][f]
      BY <1>8, <3>3
    <3> QED BY <3>2, <3>4, <3>5
  <2>2. ASSUME NEW n \in Nat, n \in Behind
        PROVE  n + 1 \in Behind
    <3> DEFINE m == k + n
    <3>1. SUFFICES ASSUME m + 1 <= len + 1 PROVE h[m + 1][f] = g[m][f]
      BY <1>1
    <3>2. /\ h[m][f] = g[m - 1][f] /\ m \in 1..len /\ m + 1 \in 1..(len + 1)
          /\ (m + 1) - 1 = m /\ m \in k..len
      BY <1>1, <2>2, <3>1
    <3>3. longer[m + 1] = events[m]
      BY <3>2 DEF Inserted
    <3> HIDE DEF m
    <3>4. h[m + 1][f] = After(longer[m + 1], h[m][f])
      BY <1>5, <3>2
    <3>5. g[m][f] = After(events[m], g[m - 1][f])
      BY <1>4, <3>2
    <3> QED BY <3>2, <3>3, <3>4, <3>5
  <2> HIDE DEF Behind
  <2> QED BY <2>1, <2>2, Induction
<1>9. ASSUME f \notin Covers(e.kind, e.val)
      PROVE  ApplyEvents(longer)[f] = ApplyEvents(events)[f]
  <2> DEFINE n == (len + 1) - k
  <2>1. n \in Nat /\ k + n = len + 1 /\ k + n - 1 = len
    BY <1>1
  <2>2. n \in Behind
    BY <1>8, <1>9, <2>1
  <2>3. h[k + n][f] = g[k + n - 1][f]
    BY <1>1, <2>1, <2>2
  <2> QED BY <1>2, <1>3, <2>1, <2>3
<1> QED BY <1>6, <1>9

-----------------------------------------------------------------------------
\* A list of S whose elements have numbers.
Numbered(S) == \A x \in S : x.seq \in Int

\* Where an event comes to stand: behind the ones of its number, before the rest.
Placed(events, longer, e, k) ==
    /\ Inserted(events, longer, k, e)
    /\ \A i \in 1..(k - 1) : events[i].seq <= e.seq
    /\ k <= Len(events) => events[k].seq > e.seq

LEMMA PlaceIs ==
    ASSUME NEW S, Numbered(S), NEW events \in Seq(S), NEW e \in S
    PROVE  /\ Place(events, e) \in Seq(S)
           /\ \E k \in 1..(Len(events) + 1) : Placed(events, Place(events, e), e, k)
<1> DEFINE len == Len(events)
           later == {i \in DOMAIN events : events[i].seq > e.seq}
           longer == Place(events, e)
<1>1. /\ len \in Nat /\ DOMAIN events = 1..len /\ e.seq \in Int
      /\ \A i \in 1..len : events[i] \in S /\ events[i].seq \in Int
  BY DEF Numbered
<1>2. CASE later = {}
  <2>1. longer = Append(events, e)
    BY <1>2 DEF Place
  <2>2. \A i \in 1..len : events[i].seq <= e.seq
    BY <1>1, <1>2
  <2>3. longer \in Seq(S) /\ Len(longer) = len + 1 /\ longer[len + 1] = e
        /\ \A i \in 1..len : longer[i] = events[i]
    BY <2>1
  <2> DEFINE k == len + 1
  <2>4. k \in 1..(len + 1) /\ ~ (k <= len) /\ k - 1 = len
    BY <1>1
  <2> HIDE DEF longer
  <2>5. Placed(events, longer, e, k)
    BY <1>1, <2>2, <2>3, <2>4 DEF Placed, Inserted
  <2> QED BY <2>3, <2>4, <2>5 DEF longer
<1>3. CASE later # {}
  <2> DEFINE k == Min(later)
  <2>1. later \subseteq Nat
    BY <1>1
  <2>2. k \in later /\ \A i \in later : k <= i
    <3>1. \E x \in later : \A y \in later : x <= y
      <4> HIDE DEF later
      <4> QED BY <1>3, <2>1, LeastElement
    <3> HIDE DEF later
    <3> QED BY <3>1 DEF Min
  <2>3. longer = InsertAt(events, k, e)
    BY <1>3 DEF Place
  <2> HIDE DEF k, longer
  <2>4. k \in 1..len /\ events[k].seq > e.seq
    BY <1>1, <2>2
  <2>5. \A i \in 1..(k - 1) : events[i].seq <= e.seq
    <3>1. ASSUME NEW i \in 1..(k - 1) PROVE events[i].seq <= e.seq
      <4>1. i \notin later
        <5> HIDE DEF later
        <5> QED BY <1>1, <2>2, <2>4
      <4>2. i \in 1..len
        BY <1>1, <2>4
      <4> QED BY <1>1, <4>1, <4>2
    <3> QED BY <3>1
  <2> DEFINE front == SubSeq(events, 1, k - 1)
             back == SubSeq(events, k, len)
  <2>6. /\ front \in Seq(S) /\ Len(front) = k - 1
        /\ \A i \in 1..(k - 1) : front[i] = events[i]
    BY <1>1, <2>4
  <2>7. /\ back \in Seq(S) /\ Len(back) = len - k + 1
        /\ \A i \in 1..(len - k + 1) : back[i] = events[k + i - 1]
    BY <1>1, <2>4
  <2>8. longer = (front \o <<e>>) \o back
    BY <2>3 DEF InsertAt
  <2> HIDE DEF front, back
  <2> DEFINE mid == front \o <<e>>
  <2>9. /\ mid \in Seq(S) /\ Len(mid) = k /\ mid[k] = e
        /\ \A i \in 1..(k - 1) : mid[i] = events[i]
    <3> DEFINE one == <<e>>
    <3>1. one \in Seq(S) /\ Len(one) = 1 /\ one[1] = e
      OBVIOUS
    <3> HIDE DEF one
    <3>2. /\ front \o one \in Seq(S) /\ Len(front \o one) = Len(front) + Len(one)
          /\ \A i \in 1..Len(front) : (front \o one)[i] = front[i]
          /\ \A i \in 1..Len(one) : (front \o one)[Len(front) + i] = one[i]
      <4>1. front \in Seq(S) /\ one \in Seq(S)
        BY <2>6, <3>1
      <4> QED BY <4>1, ConcatIs
    <3>3. mid = front \o one
      BY DEF one
    <3> HIDE DEF mid
    <3>4. Len(front) + 1 = k /\ 1 \in 1..Len(one)
      BY <1>1, <2>4, <2>6, <3>1
    <3>5. mid[Len(front) + 1] = one[1]
      BY <3>2, <3>3, <3>4
    <3> QED BY <2>6, <3>1, <3>2, <3>3, <3>4, <3>5
  <2> HIDE DEF mid
  <2>10. /\ longer \in Seq(S) /\ Len(longer) = len + 1
         /\ \A i \in 1..k : longer[i] = mid[i]
         /\ \A i \in 1..(len - k + 1) : longer[k + i] = back[i]
    <3>1. longer = mid \o back
      BY <2>8 DEF mid
    <3>a. /\ mid \o back \in Seq(S) /\ Len(mid \o back) = Len(mid) + Len(back)
          /\ \A i \in 1..Len(mid) : (mid \o back)[i] = mid[i]
          /\ \A i \in 1..Len(back) : (mid \o back)[Len(mid) + i] = back[i]
      <4>1. mid \in Seq(S) /\ back \in Seq(S)
        BY <2>7, <2>9
      <4> QED BY <4>1, ConcatIs
    <3>2. /\ longer \in Seq(S) /\ Len(longer) = Len(mid) + Len(back)
          /\ \A i \in 1..Len(mid) : longer[i] = mid[i]
          /\ \A i \in 1..Len(back) : longer[Len(mid) + i] = back[i]
      BY <3>1, <3>a
    <3>3. k + (len - k + 1) = len + 1
      BY <1>1, <2>4
    <3> QED BY <2>7, <2>9, <3>2, <3>3
  <2>11. \A i \in k..len : longer[i + 1] = events[i]
    <3>1. ASSUME NEW i \in k..len PROVE longer[i + 1] = events[i]
      <4> DEFINE j == i - k + 1
      <4>k. k \in 1..len
        BY <2>4
      <4>1. j \in 1..(len - k + 1) /\ k + j = i + 1 /\ k + j - 1 = i
        BY <1>1, <4>k
      <4> HIDE DEF j
      <4>2. longer[k + j] = back[j]
        BY <2>10, <4>1
      <4>3. back[j] = events[k + j - 1]
        BY <2>7, <4>1
      <4> QED BY <4>1, <4>2, <4>3
    <3> QED BY <3>1
  <2>12. Inserted(events, longer, k, e)
    <3>1. k \in 1..(len + 1) /\ k \in 1..k /\ \A i \in 1..(k - 1) : i \in 1..k
      BY <1>1, <2>4
    <3>2. longer[k] = e /\ \A i \in 1..(k - 1) : longer[i] = events[i]
      BY <2>9, <2>10, <3>1
    <3> QED BY <2>10, <2>11, <3>1, <3>2 DEF Inserted
  <2>13. Placed(events, longer, e, k)
    BY <2>4, <2>5, <2>12 DEF Placed
  <2>14. k \in 1..(len + 1)
    BY <1>1, <2>4
  <2> QED BY <2>10, <2>13, <2>14 DEF longer
<1> QED BY <1>2, <1>3

\* What a line adds to the events before it.
Read(events, e) == IF e.kind = "malformed" THEN events ELSE Place(events, e)

\* The events on the way through the lines.
LEMMA LoadRuns ==
    ASSUME NEW S, Numbered(S), NEW lines \in Seq(S)
    PROVE  \E g \in [0..Len(lines) -> Seq(S)] :
              /\ g[0] = << >>
              /\ \A i \in 1..Len(lines) : g[i] = Read(g[i - 1], lines[i])
              /\ LoadEvents(lines) = g[Len(lines)]
<1> DEFINE len == Len(lines)
           V == Seq(S)
           Runs(g) == g = [n \in 0..len |->
                             IF n = 0 THEN << >>
                             ELSE IF lines[n].kind = "malformed" THEN g[n - 1]
                             ELSE Place(g[n - 1], lines[n])]
           loaded == CHOOSE g : Runs(g)
           next == [i \in 0..len |-> [v \in V |-> IF i = 0 THEN v ELSE Read(v, lines[i])]]
<1>1. len \in Nat /\ DOMAIN lines = 1..len
  OBVIOUS
<1>2. << >> \in V
  OBVIOUS
<1>3. ASSUME NEW i \in 1..len, NEW v \in V
      PROVE  Read(v, lines[i]) \in V
  <2>1. lines[i] \in S
    BY <1>1
  <2> DEFINE e == lines[i]
  <2> HIDE DEF e
  <2>2. Place(v, e) \in Seq(S)
    BY <2>1, PlaceIs DEF e
  <2> QED BY <2>2 DEF Read, e
<1>4. next \in [0..len -> [V -> V]]
  <2>1. \A i \in 0..len : i # 0 => i \in 1..len
    BY <1>1
  <2> HIDE DEF V
  <2> QED BY <1>3, <2>1
<1>5. PICK g \in [0..len -> V] : Recurs(g, << >>, 0, len, next)
  <2> DEFINE a == << >>
             lo == 0
  <2>1. a \in V /\ lo \in Nat /\ lo <= len
    BY <1>1, <1>2
  <2>2. next \in [lo..len -> [V -> V]]
    BY <1>4
  <2> HIDE DEF next, len, V, a, lo
  <2>3. \E g \in [lo..len -> V] : Recurs(g, a, lo, len, next)
    BY <1>1, <2>1, <2>2, Recursion
  <2> QED BY <2>3 DEF a, lo
<1>6. g[0] = << >> /\ \A i \in 1..len : g[i] = Read(g[i - 1], lines[i])
  <2>1. \A i \in 1..len : i \in 0..len /\ i # 0 /\ i - 1 \in 0..len
    BY <1>1
  <2>2. \A i \in 1..len : \A v \in V : next[i][v] = Read(v, lines[i])
    BY <2>1
  <2> HIDE DEF next, V
  <2> QED BY <1>5, <2>1, <2>2 DEF Recurs
<1>r. \A f : Runs(f) <=> f = [n \in 0..len |-> IF n = 0 THEN << >> ELSE Read(f[n - 1], lines[n])]
  BY DEF Read
<1>9. LoadEvents(lines) = loaded[len]
  BY DEF LoadEvents
<1> HIDE DEF loaded, next, Runs
<1>7. Runs(g)
  <2>1. \A n \in 0..len : g[n] = IF n = 0 THEN << >> ELSE Read(g[n - 1], lines[n])
    BY <1>1, <1>6
  <2> HIDE DEF V
  <2> QED BY <1>5, <1>r, <2>1
<1>8. Runs(loaded)
  BY <1>7 DEF loaded
<1>10. \A i \in 0..len : loaded[i] = IF i = 0 THEN << >> ELSE Read(loaded[i - 1], lines[i])
  BY <1>8, <1>r
<1> DEFINE Agrees == {n \in Nat : n <= len => loaded[n] = g[n]}
<1>11. 0 \in Agrees
  BY <1>1, <1>6, <1>10
<1>12. ASSUME NEW n \in Nat, n \in Agrees
       PROVE  n + 1 \in Agrees
  <2>1. SUFFICES ASSUME n + 1 <= len PROVE loaded[n + 1] = g[n + 1]
    OBVIOUS
  <2>2. loaded[n] = g[n] /\ n + 1 \in 1..len /\ n + 1 \in 0..len /\ (n + 1) - 1 = n
    BY <1>1, <1>12, <2>1
  <2>3. loaded[n + 1] = Read(loaded[n], lines[n + 1])
    BY <1>10, <2>2
  <2>4. g[n + 1] = Read(g[n], lines[n + 1])
    BY <1>6, <2>2
  <2> QED BY <2>2, <2>3, <2>4
<1>13. loaded[len] = g[len]
  <2>1. \A n \in Nat : n \in Agrees
    <3> HIDE DEF Agrees
    <3> QED BY <1>11, <1>12, Induction
  <2> QED BY <1>1, <2>1
<1> HIDE DEF V
<1> QED BY <1>5, <1>6, <1>9, <1>13 DEF V

\* One line more.
LEMMA LoadAppend ==
    ASSUME NEW S, Numbered(S), NEW lines \in Seq(S), NEW e \in S
    PROVE  /\ LoadEvents(lines) \in Seq(S)
           /\ LoadEvents(Append(lines, e)) = Read(LoadEvents(lines), e)
<1> DEFINE len == Len(lines)
           more == Append(lines, e)
           V == Seq(S)
<1>1. /\ len \in Nat /\ more \in Seq(S) /\ Len(more) = len + 1
      /\ more[len + 1] = e /\ \A i \in 1..len : more[i] = lines[i]
  OBVIOUS
<1> HIDE DEF more
<1>2. PICK g \in [0..len -> V] :
        /\ g[0] = << >>
        /\ \A i \in 1..len : g[i] = Read(g[i - 1], lines[i])
        /\ LoadEvents(lines) = g[len]
  BY LoadRuns
<1>3. PICK h \in [0..(len + 1) -> V] :
        /\ h[0] = << >>
        /\ \A i \in 1..(len + 1) : h[i] = Read(h[i - 1], more[i])
        /\ LoadEvents(more) = h[len + 1]
  BY <1>1, LoadRuns
<1> HIDE DEF V
<1> DEFINE Agrees == {n \in Nat : n <= len => h[n] = g[n]}
<1>4. 0 \in Agrees
  BY <1>2, <1>3
<1>5. ASSUME NEW n \in Nat, n \in Agrees
      PROVE  n + 1 \in Agrees
  <2>1. SUFFICES ASSUME n + 1 <= len PROVE h[n + 1] = g[n + 1]
    OBVIOUS
  <2>2. h[n] = g[n] /\ n + 1 \in 1..len /\ n + 1 \in 1..(len + 1) /\ (n + 1) - 1 = n
    BY <1>1, <1>5, <2>1
  <2>3. more[n + 1] = lines[n + 1]
    BY <1>1, <2>2
  <2>4. h[n + 1] = Read(h[n], more[n + 1]) /\ g[n + 1] = Read(g[n], lines[n + 1])
    BY <1>2, <1>3, <2>2
  <2> QED BY <2>2, <2>3, <2>4
<1>6. h[len] = g[len]
  <2>1. \A n \in Nat : n \in Agrees
    <3> HIDE DEF Agrees
    <3> QED BY <1>4, <1>5, Induction
  <2> QED BY <1>1, <2>1
<1>7. h[len + 1] = Read(h[len], e)
  <2>1. len + 1 \in 1..(len + 1) /\ (len + 1) - 1 = len
    BY <1>1
  <2> QED BY <1>1, <1>3, <2>1
<1>8. g[len] \in V
  <2>1. len \in 0..len
    BY <1>1
  <2> QED BY <1>2, <2>1
<1> QED BY <1>2, <1>3, <1>6, <1>7, <1>8 DEF V, more

-----------------------------------------------------------------------------
(* The inductive invariants *)

Entries(list) == {list[i] : i \in DOMAIN list}

\* What the operations of the handlers are named.
Names == {"execution", "permission", "governance", "authority", "engage", "release",
          "posture", "cycle", "fault", "note"}

Ops == UNION {Entries(h) : h \in Handlers \cup Faults}

\* What an operation assigns is what its event will say of the fields it covers.
Consistent(effect) ==
    /\ \A f \in Covers(effect.kind, effect.val) :
          f \in DOMAIN effect.set /\ effect.set[f] = Gives(effect.kind, effect.val, f)
    /\ effect.guarded => effect.kind = "engaged"

Labels == {"idle", "test", "assign", "stamp", "append"}

TypeInv ==
    /\ DOMAIN live = Fields /\ live.ticks \in Nat
    /\ DOMAIN saved = Fields /\ saved.ticks \in Nat
    /\ seq \in Nat
    /\ log \in Seq(Entries(log))
    /\ \A x \in Entries(log) : x.seq \in Nat /\ x.cycle \in Nat
    /\ ops \in [Threads -> Seq(Ops)]
    /\ pc \in [Threads -> Labels]
    /\ DOMAIN job = Threads
    /\ \A t \in Threads :
          /\ pc[t] # "idle" => ops[t] # << >>
          /\ pc[t] = "assign" => Consistent(job[t]) /\ "ticks" \notin DOMAIN job[t].set
          /\ pc[t] = "append" => job[t].seq \in Nat /\ job[t].cycle \in Nat
    /\ restarted \in BOOLEAN
    /\ DOMAIN owner = Fields

\* A field whose last change a thread is to log has the value that the thread's
\* event will give it.
OwnerOf(f) ==
    /\ owner[f] \in Threads \cup {"logged", "unlogged"}
    /\ owner[f] = "logged" => Replay(log)[f] = live[f]
    /\ \A t \in Threads : owner[f] = t =>
          /\ pc[t] \in {"stamp", "append"}
          /\ pc[t] = "stamp" => f \in Covers(job[t].kind, job[t].val)
          /\ f \in Covers(job[t].kind, job[t].val)
               => live[f] = Gives(job[t].kind, job[t].val, f)

OwnerInv == \A f \in Fields : OwnerOf(f)

\* The events that have a number: in the log, or on the way to it.
Stamped == Entries(log) \cup {job[t] : t \in {u \in Threads : pc[u] = "append"}}

\* Within one run numbers and cycles grow together.
OrderInv ==
    ~ restarted =>
        \A x \in Stamped :
            /\ x.seq <= seq /\ x.cycle <= live.ticks
            /\ \A y \in Stamped : x.seq < y.seq => x.cycle <= y.cycle

-----------------------------------------------------------------------------
(* The operations *)

\* A list is a list of its own entries.
LEMMA EntriesAre ==
    ASSUME NEW S, NEW q \in Seq(S)
    PROVE  q \in Seq(Entries(q)) /\ Entries(q) \subseteq S
<1>1. q \in [1..Len(q) -> Entries(q)] /\ Len(q) \in Nat
  BY DEF Entries
<1>2. q \in Seq(Entries(q))
  BY <1>1
<1>3. Entries(q) \subseteq S
  BY DEF Entries
<1> QED BY <1>2, <1>3

LEMMA EntriesAppend ==
    ASSUME NEW S, NEW q \in Seq(S), NEW x
    PROVE  /\ Entries(Append(q, x)) = Entries(q) \cup {x}
           /\ Append(q, x) \in Seq(Entries(Append(q, x)))
<1> DEFINE more == Append(q, x)
           T == S \cup {x}
<1>1. q \in Seq(T) /\ x \in T
  OBVIOUS
<1> HIDE DEF T
<1>2. /\ Len(q) \in Nat /\ DOMAIN q = 1..Len(q)
      /\ DOMAIN more = 1..(Len(q) + 1)
      /\ more[Len(q) + 1] = x
      /\ \A t \in DOMAIN q : more[t] = q[t]
      /\ more \in Seq(T)
  BY <1>1, AppendIs
<1> HIDE DEF more
<1>3. Entries(more) = Entries(q) \cup {x}
  BY <1>2 DEF Entries
<1>4. more \in Seq(Entries(more))
  BY <1>2, EntriesAre
<1> QED BY <1>3, <1>4 DEF more

Known(op) ==
    op.name \in Names /\ (op.name = "fault" => op.arg \in {"repair", "halt", "gate"})

\* The handlers are lists of operations that Effect knows.
LEMMA HandlersAre ==
    ASSUME NEW h \in Handlers \cup Faults
    PROVE  h # << >> /\ h \in Seq(Entries(h)) /\ \A op \in Entries(h) : Known(op)
<1>1. ASSUME NEW a, Known(a), h = <<a>>
      PROVE  h # << >> /\ h \in Seq(Entries(h)) /\ \A op \in Entries(h) : Known(op)
  <2>1. h \in Seq({a}) /\ h # << >>
    BY <1>1
  <2>2. h \in Seq(Entries(h)) /\ Entries(h) \subseteq {a}
    BY <2>1, EntriesAre
  <2> QED BY <1>1, <2>1, <2>2
<1>2. ASSUME NEW a, NEW b, Known(a), Known(b), h = <<a, b>>
      PROVE  h # << >> /\ h \in Seq(Entries(h)) /\ \A op \in Entries(h) : Known(op)
  <2>1. h \in Seq({a, b}) /\ h # << >>
    BY <1>2
  <2>2. h \in Seq(Entries(h)) /\ Entries(h) \subseteq {a, b}
    BY <2>1, EntriesAre
  <2> QED BY <1>2, <2>1, <2>2
<1>3. ASSUME NEW a, NEW b, NEW c, NEW d, Known(a), Known(b),
             Known(c), Known(d), h = <<a, b, c, d>>
      PROVE  h # << >> /\ h \in Seq(Entries(h)) /\ \A op \in Entries(h) : Known(op)
  <2>1. h \in Seq({a, b, c, d}) /\ h # << >>
    BY <1>3
  <2>2. h \in Seq(Entries(h)) /\ Entries(h) \subseteq {a, b, c, d}
    BY <2>1, EntriesAre
  <2> QED BY <1>3, <2>1, <2>2
<1>4. \A n, x : n \in Names /\ (n = "fault" => x \in {"repair", "halt", "gate"})
                => Known(Op(n, x))
  BY DEF Op, Known
<1>5. \/ \E n \in Names \ {"fault"} : \E x : h = <<Op(n, x)>>
      \/ \E x \in {"repair", "halt", "gate"} : h = <<Op("fault", x)>>
      \/ \E n, m \in Names \ {"fault"} : \E x, y : h = <<Op(n, x), Op(m, y)>>
      \/ \E x, y, z, w : h = <<Op("posture", x), Op("authority", y),
                               Op("governance", z), Op("note", w)>>
  <2>1. CASE \E x : \/ h = <<Op("execution", x)>>
                    \/ h = <<Op("permission", x)>>
                    \/ h = <<Op("governance", x)>>
                    \/ h = <<Op("authority", x)>>
                    \/ h = <<Op("engage", x)>>
                    \/ h = <<Op("release", x)>>
                    \/ h = <<Op("cycle", x)>>
    BY <2>1 DEF Names
  <2>3. CASE \E x \in {"repair", "halt", "gate"} : h = <<Op("fault", x)>>
    BY <2>3
  <2>2. CASE \E x, y : \/ h = <<Op("engage", x), Op("note", y)>>
                       \/ h = <<Op("release", x), Op("note", y)>>
    BY <2>2 DEF Names
  <2> QED BY <2>1, <2>2, <2>3 DEF Handlers, Faults
<1>6. {"posture", "authority", "governance", "note"} \subseteq Names \ {"fault"}
  BY DEF Names
<1>f. CASE \E x \in {"repair", "halt", "gate"} : h = <<Op("fault", x)>>
  <2>1. "fault" \in Names
    BY DEF Names
  <2> QED BY <1>1, <1>4, <1>f, <2>1
<1>7. CASE \E n \in Names \ {"fault"} : \E x : h = <<Op(n, x)>>
  BY <1>1, <1>4, <1>7
<1>8. CASE \E n, m \in Names \ {"fault"} : \E x, y : h = <<Op(n, x), Op(m, y)>>
  BY <1>2, <1>4, <1>8
<1>9. CASE \E x, y, z, w : h = <<Op("posture", x), Op("authority", y),
                                 Op("governance", z), Op("note", w)>>
  BY <1>3, <1>4, <1>6, <1>9
<1> QED BY <1>5, <1>f, <1>7, <1>8, <1>9

\* A handler that runs is one of the handlers, or a fault.
LEMMA OpsAre ==
    /\ \A h \in Requests \cup Faults : h # << >> /\ h \in Seq(Ops)
    /\ \A op \in Ops : Known(op)
<1>1. ASSUME NEW h \in Handlers \cup Faults
      PROVE  h # << >> /\ h \in Seq(Ops)
  <2>1. h # << >> /\ h \in Seq(Entries(h))
    BY HandlersAre
  <2>2. Entries(h) \subseteq Ops
    BY DEF Ops
  <2> QED BY <2>1, <2>2
<1>2. ASSUME NEW op \in Ops
      PROVE  Known(op)
  <2>1. PICK h \in Handlers \cup Faults : op \in Entries(h)
    BY DEF Ops
  <2> QED BY <2>1, HandlersAre
<1>3. Requests \subseteq Handlers
  BY RequestsAssumption
<1> QED BY <1>1, <1>2, <1>3

\* What each kind of event covers and gives.
LEMMA CoversAre ==
    ASSUME NEW v
    PROVE  /\ \A f \in Covers("mode", v) : \/ f = "gov" /\ Gives("mode", v, f) = v
                                           \/ /\ f = "auth" /\ v = "degraded_repair"
                                              /\ Gives("mode", v, f) = "user"
           /\ \A f \in Covers("authority", v) : f = "auth" /\ Gives("authority", v, f) = v
           /\ \A f \in Covers("execution", v) : f = "exec" /\ Gives("execution", v, f) = v
           /\ \A f \in Covers("engaged", v) : \/ f = "kill" /\ Gives("engaged", v, f) = TRUE
                                              \/ f = "exec" /\ Gives("engaged", v, f) = "plan"
           /\ \A f \in Covers("released", v) : f = "kill" /\ Gives("released", v, f) = FALSE
           /\ \A f \in Covers("pulse", v) : f = "ticks" /\ Gives("pulse", v, f) = v
           /\ Covers("other", v) = {} /\ Covers("none", v) = {}
<1>1. \A f \in Covers("mode", v) : \/ f = "gov" /\ Gives("mode", v, f) = v
                                   \/ /\ f = "auth" /\ v = "degraded_repair"
                                      /\ Gives("mode", v, f) = "user"
  BY DEF Covers, Gives
<1>2. \A f \in Covers("authority", v) : f = "auth" /\ Gives("authority", v, f) = v
  BY DEF Covers, Gives
<1>3. \A f \in Covers("execution", v) : f = "exec" /\ Gives("execution", v, f) = v
  BY DEF Covers, Gives
<1>4. \A f \in Covers("engaged", v) : \/ f = "kill" /\ Gives("engaged", v, f) = TRUE
                                      \/ f = "exec" /\ Gives("engaged", v, f) = "plan"
  BY DEF Covers, Gives
<1>5. \A f \in Covers("released", v) : f = "kill" /\ Gives("released", v, f) = FALSE
  BY DEF Covers, Gives
<1>6. \A f \in Covers("pulse", v) : f = "ticks" /\ Gives("pulse", v, f) = v
  BY DEF Covers, Gives
<1>7. Covers("other", v) = {} /\ Covers("none", v) = {}
  BY DEF Covers
<1> QED BY <1>1, <1>2, <1>3, <1>4, <1>5, <1>6, <1>7

\* What an operation does is what its event says, and only a cycle changes the ticks.
LEMMA EffectIs ==
    ASSUME NEW op \in Ops
    PROVE  /\ Consistent(Effect(op))
           /\ "ticks" \in DOMAIN Effect(op).set =>
                op.name = "cycle" /\ Effect(op).set["ticks"] = live.ticks + 1
<1>1. Known(op)
  BY OpsAre
<1> DEFINE e == Effect(op)
<1>2. CASE op.name = "execution"
  <2>0. e = SetExecutionMode(op.arg)
    BY <1>2 DEF Effect
  <2>1. /\ DOMAIN e.set = {"exec"} /\ ~ e.guarded
        /\ (e.kind = "execution" /\ e.val = e.set["exec"]) \/ e.kind = "other"
    BY <2>0 DEF SetExecutionMode, Does
  <2>2. CASE e.kind = "execution"
    <3>1. \A f \in Covers("execution", e.val) :
            f = "exec" /\ Gives("execution", e.val, f) = e.val
      BY CoversAre
    <3> QED BY <2>1, <2>2, <3>1 DEF Consistent
  <2>3. CASE e.kind = "other"
    <3>1. Covers("other", e.val) = {}
      BY CoversAre
    <3> QED BY <2>1, <2>3, <3>1 DEF Consistent
  <2> QED BY <2>1, <2>2, <2>3
<1>3. CASE op.name = "permission"
  <2>0. e = SetPermissionMode(op.arg)
    BY <1>3 DEF Effect
  <2>1. DOMAIN e.set = {"perm", "exec"} /\ ~ e.guarded /\ e.kind = "other"
    BY <2>0 DEF SetPermissionMode, Does
  <2>2. Covers("other", e.val) = {}
    BY CoversAre
  <2> QED BY <2>1, <2>2 DEF Consistent
<1>4. CASE op.name = "governance"
  <2>0. e = SetGovernanceMode(op.arg)
    BY <1>4 DEF Effect
  <2>1. /\ DOMAIN e.set = {"gov", "auth"} /\ ~ e.guarded /\ e.kind = "mode"
        /\ e.val = e.set["gov"]
        /\ e.val = "degraded_repair" => e.set["auth"] = "user"
    BY <2>0 DEF SetGovernanceMode, ForMode, Does
  <2>2. \A f \in Covers("mode", e.val) :
          \/ f = "gov" /\ Gives("mode", e.val, f) = e.val
          \/ f = "auth" /\ e.val = "degraded_repair" /\ Gives("mode", e.val, f) = "user"
    BY CoversAre
  <2> QED BY <2>1, <2>2 DEF Consistent
<1>5. CASE op.name = "authority"
  <2>0. e = SetOperatorAuthority(op.arg)
    BY <1>5 DEF Effect
  <2>1. /\ DOMAIN e.set = {"auth"} /\ ~ e.guarded /\ e.kind = "authority"
        /\ e.val = e.set["auth"]
    BY <2>0 DEF SetOperatorAuthority, Does
  <2>2. \A f \in Covers("authority", e.val) :
          f = "auth" /\ Gives("authority", e.val, f) = e.val
    BY CoversAre
  <2> QED BY <2>1, <2>2 DEF Consistent
<1>6. CASE op.name = "engage"
  <2>0. e = EngageKillswitch
    BY <1>6 DEF Effect
  <2>1. DOMAIN e.set = {"kill", "exec"} /\ e.kind = "engaged"
    BY <2>0 DEF EngageKillswitch, Does
  <2>2. e.set["kill"] = TRUE
    BY <2>0 DEF EngageKillswitch, Does
  <2>3. e.set["exec"] = "plan"
    BY <2>0 DEF EngageKillswitch, Does
  <2>4. \A f \in Covers("engaged", e.val) :
          \/ f = "kill" /\ Gives("engaged", e.val, f) = TRUE
          \/ f = "exec" /\ Gives("engaged", e.val, f) = "plan"
    BY CoversAre
  <2> QED BY <2>1, <2>2, <2>3, <2>4 DEF Consistent
<1>7. CASE op.name = "release"
  <2>0. e = ReleaseKillswitch
    BY <1>7 DEF Effect
  <2>1. DOMAIN e.set = {"kill"} /\ ~ e.guarded /\ e.kind = "released"
    BY <2>0 DEF ReleaseKillswitch, Does
  <2>2. e.set["kill"] = FALSE
    BY <2>0 DEF ReleaseKillswitch, Does
  <2>3. \A f \in Covers("released", e.val) :
          f = "kill" /\ Gives("released", e.val, f) = FALSE
    BY CoversAre
  <2> QED BY <2>1, <2>2, <2>3 DEF Consistent
<1>8. CASE op.name = "posture"
  <2>0. e = SetPosture(op.arg)
    BY <1>8 DEF Effect
  <2>1. DOMAIN e.set = {"perm", "exec"} /\ ~ e.guarded /\ e.kind = "other"
    BY <2>0 DEF SetPosture, Does
  <2>2. Covers("other", e.val) = {}
    BY CoversAre
  <2> QED BY <2>1, <2>2 DEF Consistent
<1>9. CASE op.name = "cycle"
  <2>0. e = BeginCycle
    BY <1>9 DEF Effect
  <2>1. /\ DOMAIN e.set = {"ticks"} /\ ~ e.guarded /\ e.kind = "pulse"
        /\ e.val = live.ticks + 1 /\ e.set["ticks"] = live.ticks + 1
    BY <2>0 DEF BeginCycle, Does
  <2>2. \A f \in Covers("pulse", e.val) : f = "ticks" /\ Gives("pulse", e.val, f) = e.val
    BY CoversAre
  <2> QED BY <1>9, <2>1, <2>2 DEF Consistent
<1>10. CASE op.name = "fault"
  <2>0. e = Fault(op.arg)
    BY <1>10 DEF Effect
  <2>1. /\ e.kind = "none" /\ ~ e.guarded /\ "ticks" \notin DOMAIN e.set
    <3>1. op.arg \in {"repair", "halt", "gate"}
      BY <1>1, <1>10 DEF Known
    <3> QED BY <2>0, <3>1 DEF Fault
  <2>2. Covers("none", e.val) = {}
    BY CoversAre
  <2> QED BY <2>1, <2>2 DEF Consistent
<1>11. CASE op.name = "note"
  <2>0. e = [Does(<< >>, "other", 0) EXCEPT !.saves = op.arg]
    BY <1>11 DEF Effect
  <2>1. e.kind = "other" /\ ~ e.guarded /\ "ticks" \notin DOMAIN e.set
    BY <2>0 DEF Does
  <2>2. Covers("other", e.val) = {}
    BY CoversAre
  <2> QED BY <2>1, <2>2 DEF Consistent
<1> QED BY <1>1, <1>2, <1>3, <1>4, <1>5, <1>6, <1>7, <1>8, <1>9, <1>10, <1>11 DEF Names, Known

-----------------------------------------------------------------------------
(* The steps *)

IInv == TypeInv /\ OwnerInv /\ OrderInv

\* The other threads are where they were.
OthersStay(t) ==
    \A u \in Threads \ {t} : pc'[u] = pc[u] /\ job'[u] = job[u] /\ ops'[u] = ops[u]

\* A field that a step leaves alone, with its owner.
LEMMA OwnerKeeps ==
    ASSUME TypeInv, OwnerInv, NEW t \in Threads, pc[t] \notin {"stamp", "append"},
           OthersStay(t), log' = log, NEW f \in Fields,
           owner'[f] = owner[f], live'[f] = live[f]
    PROVE  OwnerOf(f)'
<1>1. OwnerOf(f)
  BY DEF OwnerInv
<1>2. Replay(log')[f] = Replay(log)[f]
  OBVIOUS
<1>3. ASSUME NEW u \in Threads, owner[f] = u
      PROVE  u # t /\ pc'[u] = pc[u] /\ job'[u] = job[u]
  BY <1>1, <1>3 DEF OwnerOf, OthersStay
<1>4. owner'[f] = "logged" => Replay(log')[f] = live'[f]
  BY <1>1, <1>2 DEF OwnerOf
<1>5. ASSUME NEW u \in Threads, owner'[f] = u
      PROVE  /\ pc'[u] \in {"stamp", "append"}
             /\ pc'[u] = "stamp" => f \in Covers(job'[u].kind, job'[u].val)
             /\ f \in Covers(job'[u].kind, job'[u].val)
                  => live'[f] = Gives(job'[u].kind, job'[u].val, f)
  BY <1>1, <1>3, <1>5 DEF OwnerOf
<1>6. owner'[f] \in Threads \cup {"logged", "unlogged"}
  BY <1>1 DEF OwnerOf
<1> QED BY <1>4, <1>5, <1>6 DEF OwnerOf

\* A step that numbers no event.
LEMMA OrderKeeps ==
    ASSUME TypeInv, OrderInv, Stamped' \subseteq Stamped, seq' = seq,
           live'.ticks \in Nat, live.ticks <= live'.ticks, restarted' = restarted
    PROVE  OrderInv'
<1>1. \A x \in Stamped : x.seq \in Nat /\ x.cycle \in Nat
  BY DEF TypeInv, Stamped
<1>2. live.ticks \in Nat
  BY DEF TypeInv
<1>3. SUFFICES ASSUME ~ restarted
               PROVE  \A x \in Stamped' :
                        /\ x.seq <= seq /\ x.cycle <= live'.ticks
                        /\ \A y \in Stamped' : x.seq < y.seq => x.cycle <= y.cycle
  BY DEF OrderInv
<1>4. \A x \in Stamped : /\ x.seq <= seq /\ x.cycle <= live.ticks
                         /\ \A y \in Stamped : x.seq < y.seq => x.cycle <= y.cycle
  BY <1>3 DEF OrderInv
<1> QED BY <1>1, <1>2, <1>4

LEMMA StampedStays ==
    ASSUME NEW t \in Threads, OthersStay(t), log' = log, pc'[t] # "append"
    PROVE  Stamped' \subseteq Stamped
<1>1. {job'[u] : u \in {v \in Threads : pc'[v] = "append"}}
        \subseteq {job[u] : u \in {v \in Threads : pc[v] = "append"}}
  BY DEF OthersStay
<1> QED BY <1>1 DEF Stamped

\* A thread that ends an operation, or its handler.
LEMMA EndOpIs ==
    ASSUME TypeInv, NEW t \in Threads, pc[t] # "idle", EndOp(t)
    PROVE  /\ ops' \in [Threads -> Seq(Ops)] /\ pc' \in [Threads -> Labels]
           /\ DOMAIN job' = Threads /\ OthersStay(t)
           /\ pc'[t] \in {"idle", "test"}
           /\ pc'[t] # "idle" => ops'[t] # << >>
<1>1. /\ ops \in [Threads -> Seq(Ops)] /\ pc \in [Threads -> Labels]
      /\ DOMAIN job = Threads /\ ops[t] \in Seq(Ops) /\ ops[t] # << >>
  BY DEF TypeInv
<1>2. /\ ops' = [ops EXCEPT ![t] = Tail(ops[t])]
      /\ pc' = [pc EXCEPT ![t] = IF Len(ops[t]) = 1 THEN "idle" ELSE "test"]
      /\ job' = [job EXCEPT ![t] = Nothing]
  BY DEF EndOp, Goto
<1>3. Tail(ops[t]) \in Seq(Ops) /\ (Len(ops[t]) # 1 => Tail(ops[t]) # << >>)
  <2> DEFINE q == ops[t]
  <2>1. q \in Seq(Ops) /\ q # << >>
    BY <1>1
  <2> HIDE DEF q
  <2> DEFINE r == Tail(q)
  <2>2. r \in Seq(Ops) /\ Len(r) = Len(q) - 1 /\ Len(q) \in Nat
    BY <2>1
  <2> HIDE DEF r
  <2>3. Len(q) # 1 => r # << >>
    BY <2>2
  <2> QED BY <2>2, <2>3 DEF q, r
<1> DEFINE QQ == Seq(Ops)
<1> HIDE DEF QQ
<1>4. ops' \in [Threads -> QQ] /\ ops'[t] = Tail(ops[t])
  BY <1>1, <1>2, <1>3 DEF QQ
<1>5. /\ pc' \in [Threads -> Labels] /\ pc'[t] \in {"idle", "test"}
      /\ pc'[t] # "idle" => Len(ops[t]) # 1
  BY <1>1, <1>2 DEF Labels
<1>6. DOMAIN job' = Threads
  BY <1>1, <1>2
<1>7. OthersStay(t)
  BY <1>1, <1>2 DEF OthersStay
<1> QED BY <1>3, <1>4, <1>5, <1>6, <1>7 DEF QQ

\* The parts of TypeInv that speak of the threads.
ThreadInv(t) ==
    /\ pc[t] # "idle" => ops[t] # << >>
    /\ pc[t] = "assign" => Consistent(job[t]) /\ "ticks" \notin DOMAIN job[t].set
    /\ pc[t] = "append" => job[t].seq \in Nat /\ job[t].cycle \in Nat

\* A step of one thread, as far as the types go.
LEMMA TypeKeeps ==
    ASSUME TypeInv, NEW t \in Threads, OthersStay(t), ThreadInv(t)',
           ops' \in [Threads -> Seq(Ops)], pc' \in [Threads -> Labels],
           DOMAIN job' = Threads, DOMAIN live' = Fields, live'.ticks \in Nat,
           DOMAIN saved' = Fields, saved'.ticks \in Nat, seq' \in Nat,
           restarted' \in BOOLEAN, DOMAIN owner' = Fields,
           log' \in Seq(Entries(log')),
           \A x \in Entries(log') : x.seq \in Nat /\ x.cycle \in Nat
    PROVE  TypeInv'
<1>1. ASSUME NEW u \in Threads
      PROVE  ThreadInv(u)'
  <2>1. CASE u = t
    BY <2>1
  <2>2. CASE u # t
    <3>1. pc'[u] = pc[u] /\ job'[u] = job[u] /\ ops'[u] = ops[u]
      BY <2>2 DEF OthersStay
    <3>2. ThreadInv(u)
      BY DEF TypeInv, ThreadInv
    <3> QED BY <3>1, <3>2 DEF ThreadInv
  <2> QED BY <2>1, <2>2
<1> QED BY <1>1 DEF TypeInv, ThreadInv

\* The assignments of an operation, the save, and whose event will tell of them.
LEMMA WriteKeeps ==
    ASSUME IInv, NEW t \in Threads, pc[t] \in {"test", "assign"},
           NEW effect, Consistent(effect),
           "ticks" \in DOMAIN effect.set => effect.set["ticks"] = live.ticks + 1,
           Write(t, effect), UNCHANGED <<seq, log, torn, calls, restarted>>
    PROVE  IInv'
<1> DEFINE covered == Covers(effect.kind, effect.val)
           Kept == /\ job' = [job EXCEPT ![t] = effect]
                   /\ Goto(t, "stamp")
                   /\ UNCHANGED ops
                   /\ owner' = OwnerAfter(t, covered)
           Ended == /\ ops' \in [Threads -> Seq(Ops)] /\ pc' \in [Threads -> Labels]
                    /\ DOMAIN job' = Threads /\ OthersStay(t)
                    /\ pc'[t] \in {"idle", "test"}
                    /\ pc'[t] # "idle" => ops'[t] # << >>
                    /\ owner' = OwnerAfter(t, {})
           Assigns == \A f \in covered \cap Fields :
                         live'[f] = Gives(effect.kind, effect.val, f)
<1>0. TypeInv /\ OwnerInv /\ OrderInv
  BY DEF IInv
<1>1. /\ DOMAIN live = Fields /\ live.ticks \in Nat /\ DOMAIN saved = Fields
      /\ saved.ticks \in Nat /\ ops[t] # << >>
      /\ ops \in [Threads -> Seq(Ops)] /\ pc \in [Threads -> Labels]
      /\ DOMAIN job = Threads
  BY <1>0 DEF TypeInv
<1>2. /\ DOMAIN Assigned(effect.set) = Fields
      /\ Assigned(effect.set).ticks \in {live.ticks, live.ticks + 1}
      /\ \A f \in covered \cap Fields :
            Assigned(effect.set)[f] = Gives(effect.kind, effect.val, f)
  BY DEF Assigned, Consistent, Fields
<1>3. /\ DOMAIN live' = Fields /\ live'.ticks \in Nat /\ live.ticks <= live'.ticks
      /\ DOMAIN saved' = Fields /\ saved'.ticks \in Nat
      /\ (Kept /\ Assigns) \/ Ended
  <2>1. CASE /\ live' = Assigned(effect.set)
             /\ saved' = IF effect.saves THEN live' ELSE saved
             /\ owner' = OwnerAfter(t, covered)
             /\ IF effect.kind = "none"
                  THEN EndOp(t)
                  ELSE /\ job' = [job EXCEPT ![t] = effect]
                       /\ Goto(t, "stamp")
                       /\ UNCHANGED ops
    <3>1. Assigns
      BY <1>2, <2>1
    <3>2. CASE effect.kind = "none"
      <4>1. covered = {}
        BY <3>2, CoversAre
      <4>2. EndOp(t)
        BY <2>1, <3>2
      <4> HIDE DEF covered
      <4>3. Ended
        BY <1>0, <2>1, <4>1, <4>2, EndOpIs
      <4> QED BY <1>1, <1>2, <2>1, <4>3
    <3>3. CASE effect.kind # "none"
      BY <1>1, <1>2, <2>1, <3>1, <3>3
    <3> QED BY <3>2, <3>3
  <2>2. CASE /\ live' = [Assigned(effect.set) EXCEPT !["kill"] = TRUE, !["exec"] = "plan"]
             /\ UNCHANGED saved
             /\ IF effect.guarded
                  THEN /\ owner' = OwnerAfter(t, covered)
                       /\ job' = [job EXCEPT ![t] = effect]
                       /\ Goto(t, "stamp")
                       /\ UNCHANGED ops
                  ELSE /\ owner' = OwnerAfter(t, {})
                       /\ job' = [job EXCEPT ![t] = Nothing]
                       /\ ops' = [ops EXCEPT ![t] = << >>]
                       /\ Goto(t, "idle")
    <3>1. /\ DOMAIN live' = Fields /\ live'.ticks \in Nat /\ live.ticks <= live'.ticks
          /\ live'["kill"] = TRUE /\ live'["exec"] = "plan"
      BY <1>1, <1>2, <2>2 DEF Fields
    <3>2. CASE effect.guarded
      <4>1. effect.kind = "engaged"
        BY <3>2 DEF Consistent
      <4>2. \A f \in Covers("engaged", effect.val) :
              \/ f = "kill" /\ Gives("engaged", effect.val, f) = TRUE
              \/ f = "exec" /\ Gives("engaged", effect.val, f) = "plan"
        BY CoversAre
      <4>3. Assigns
        BY <3>1, <4>1, <4>2
      <4>4. Kept
        BY <2>2, <3>2
      <4> QED BY <1>1, <2>2, <3>1, <4>3, <4>4
    <3>3. CASE ~ effect.guarded
      <4> DEFINE QQ == Seq(Ops)
      <4>1. << >> \in QQ
        OBVIOUS
      <4> HIDE DEF QQ
      <4>2. ops' \in [Threads -> QQ]
        BY <1>1, <2>2, <3>3, <4>1 DEF QQ
      <4>3. Ended
        BY <1>1, <2>2, <3>3, <4>2 DEF QQ, Goto, OthersStay, Labels
      <4> QED BY <1>1, <2>2, <3>1, <4>3
    <3> QED BY <3>2, <3>3
  <2> QED BY <2>1, <2>2 DEF Write
<1>4. /\ OthersStay(t) /\ pc' \in [Threads -> Labels] /\ DOMAIN job' = Threads
      /\ ops' \in [Threads -> Seq(Ops)] /\ pc'[t] \in {"idle", "test", "stamp"}
      /\ pc'[t] # "idle" => ops'[t] # << >>
      /\ DOMAIN owner' = Fields
  <2>1. CASE Kept
    <3>1. pc' = [pc EXCEPT ![t] = "stamp"]
      BY <2>1 DEF Goto
    <3>2. pc' \in [Threads -> Labels] /\ pc'[t] = "stamp"
      BY <1>1, <3>1 DEF Labels
    <3>3. OthersStay(t) /\ DOMAIN job' = Threads
      BY <1>1, <2>1, <3>1 DEF OthersStay
    <3>4. DOMAIN owner' = Fields
      BY <2>1 DEF OwnerAfter
    <3> QED BY <1>1, <2>1, <3>2, <3>3, <3>4
  <2>2. CASE Ended
    BY <2>2 DEF OwnerAfter
  <2> QED BY <1>3, <2>1, <2>2
<1>5. log' = log /\ seq' = seq /\ restarted' = restarted
  OBVIOUS
<1>6. TypeInv'
  <2>1. /\ seq \in Nat /\ restarted \in BOOLEAN /\ log \in Seq(Entries(log))
        /\ \A x \in Entries(log) : x.seq \in Nat /\ x.cycle \in Nat
    BY <1>0 DEF TypeInv
  <2>2. ThreadInv(t)'
    BY <1>4 DEF ThreadInv
  <2> HIDE DEF Kept, Ended
  <2> QED BY <1>0, <1>3, <1>4, <1>5, <2>1, <2>2, TypeKeeps
<1>7. OrderInv'
  <2>1. Stamped' \subseteq Stamped
    BY <1>4, <1>5, StampedStays
  <2> HIDE DEF Kept, Ended
  <2> QED BY <1>0, <1>3, <1>5, <2>1, OrderKeeps
<1>8. ASSUME NEW f \in Fields
      PROVE  OwnerOf(f)'
  <2>1. CASE owner'[f] = owner[f] /\ live'[f] = live[f]
    BY <1>0, <1>4, <1>5, <2>1, OwnerKeeps
  <2>2. CASE owner'[f] = "unlogged"
    <3>1. "unlogged" \notin Threads
      BY ThreadsAssumption
    <3> QED BY <2>2, <3>1 DEF OwnerOf
  <2>3. CASE Kept /\ Assigns /\ f \in covered /\ owner'[f] = t
    <3>1. /\ pc'[t] = "stamp" /\ job'[t] = effect
          /\ live'[f] = Gives(effect.kind, effect.val, f)
      BY <1>1, <2>3 DEF Goto
    <3>2. t # "logged"
      BY ThreadsAssumption
    <3> QED BY <2>3, <3>1, <3>2 DEF OwnerOf
  <2>4. \/ owner'[f] = owner[f] /\ live'[f] = live[f]
        \/ owner'[f] = "unlogged"
        \/ Kept /\ Assigns /\ f \in covered /\ owner'[f] = t
    <3>1. CASE Kept /\ Assigns
      BY <3>1 DEF OwnerAfter
    <3>2. CASE Ended
      BY <3>2 DEF OwnerAfter
    <3> QED BY <1>3, <3>1, <3>2
  <2> QED BY <2>1, <2>2, <2>3, <2>4
<1>9. OwnerInv'
  BY <1>8 DEF OwnerInv
<1> QED BY <1>6, <1>7, <1>9 DEF IInv

-----------------------------------------------------------------------------
(* An event reaches the log *)

\* The events of a log, and where a new line puts its event among them.
LEMMA LogGrows ==
    ASSUME NEW S, NEW lines \in Seq(S), Numbered(Entries(lines)), NEW e, e.seq \in Int
    PROVE  /\ LoadEvents(lines) \in Seq(Entries(lines))
           /\ e.kind = "malformed" => LoadEvents(Append(lines, e)) = LoadEvents(lines)
           /\ e.kind # "malformed" =>
                /\ LoadEvents(Append(lines, e)) \in Seq(Entries(lines) \cup {e})
                /\ \E k \in 1..(Len(LoadEvents(lines)) + 1) :
                      Placed(LoadEvents(lines), LoadEvents(Append(lines, e)), e, k)
<1> DEFINE T == Entries(lines)
           U == T \cup {e}
           events == LoadEvents(lines)
<1>1. lines \in Seq(T)
  BY EntriesAre
<1>2. Numbered(T) /\ Numbered(U)
  BY DEF Numbered
<1> HIDE DEF T
<1>3. lines \in Seq(U) /\ e \in U
  <2>1. T \subseteq U
    OBVIOUS
  <2> HIDE DEF U
  <2>2. lines \in Seq(U)
    BY <1>1, <2>1
  <2> QED BY <2>2 DEF U
<1>4. events \in Seq(T)
  <2>1. PICK g \in [0..Len(lines) -> Seq(T)] : events = g[Len(lines)]
    BY <1>1, <1>2, LoadRuns
  <2>2. Len(lines) \in 0..Len(lines)
    BY <1>1
  <2> DEFINE V == Seq(T)
             len == Len(lines)
  <2> HIDE DEF V, events, len
  <2> QED BY <2>1, <2>2 DEF V, len
<1> HIDE DEF U
<1>5. /\ events \in Seq(U)
      /\ LoadEvents(Append(lines, e)) = Read(events, e)
  BY <1>2, <1>3, LoadAppend
<1>6. /\ Place(events, e) \in Seq(U)
      /\ \E k \in 1..(Len(events) + 1) : Placed(events, Place(events, e), e, k)
  <2> HIDE DEF events
  <2> QED BY <1>2, <1>3, <1>5, PlaceIs
<1> HIDE DEF events
<1> QED BY <1>4, <1>5, <1>6 DEF Read, T, U, events

\* An event changes no field it does not cover, and decides the ones it covers if
\* no event before it has a higher number.
LEMMA ReplayGrows ==
    ASSUME NEW S, NEW lines \in Seq(S), Numbered(Entries(lines)), NEW e, e.seq \in Int,
           NEW f \in Fields
    PROVE  /\ f \notin Covers(e.kind, e.val) => Replay(Append(lines, e))[f] = Replay(lines)[f]
           /\ (f \in Covers(e.kind, e.val) /\ \A x \in Entries(lines) : x.seq <= e.seq)
                => Replay(Append(lines, e))[f] = Gives(e.kind, e.val, f)
<1> DEFINE T == Entries(lines)
           U == T \cup {e}
           events == LoadEvents(lines)
           longer == LoadEvents(Append(lines, e))
<1>1. /\ events \in Seq(T)
      /\ e.kind = "malformed" => longer = events
      /\ e.kind # "malformed" =>
           /\ longer \in Seq(U)
           /\ \E k \in 1..(Len(events) + 1) : Placed(events, longer, e, k)
  BY LogGrows
<1>2. Replay(lines) = ApplyEvents(events) /\ Replay(Append(lines, e)) = ApplyEvents(longer)
  BY DEF Replay
<1> HIDE DEF events, longer, T
<1>3. CASE e.kind = "malformed"
  <2>1. f \notin Covers(e.kind, e.val)
    BY <1>3 DEF Covers
  <2> QED BY <1>1, <1>2, <1>3, <2>1
<1>4. CASE e.kind # "malformed"
  <2>1. PICK k \in 1..(Len(events) + 1) : Placed(events, longer, e, k)
    BY <1>1, <1>4
  <2>2. events \in Seq(U) /\ longer \in Seq(U)
    <3>1. T \subseteq U
      OBVIOUS
    <3>2. longer \in Seq(U)
      BY <1>1, <1>4
    <3> HIDE DEF U
    <3> QED BY <1>1, <3>1, <3>2
  <2>3. Inserted(events, longer, k, e)
    BY <2>1 DEF Placed
  <2> HIDE DEF U
  <2>4. /\ f \notin Covers(e.kind, e.val) => ApplyEvents(longer)[f] = ApplyEvents(events)[f]
        /\ f \in Covers(e.kind, e.val) /\ k = Len(events) + 1
             => ApplyEvents(longer)[f] = Gives(e.kind, e.val, f)
    BY <2>2, <2>3, InsertedApplies
  <2>5. ASSUME \A x \in T : x.seq <= e.seq
        PROVE  k = Len(events) + 1
    <3>1. SUFFICES ASSUME k <= Len(events) PROVE FALSE
      BY <1>1
    <3>2. events[k] \in T /\ events[k].seq > e.seq
      BY <1>1, <2>1, <3>1 DEF Placed
    <3>3. events[k].seq \in Int /\ events[k].seq <= e.seq
      BY <2>5, <3>2 DEF Numbered, T
    <3> QED BY <3>2, <3>3
  <2> QED BY <1>2, <2>4, <2>5 DEF T
<1> QED BY <1>3, <1>4

\* The event of a thread reaches the log, or is lost in a torn line.
LEMMA AppendKeeps ==
    ASSUME IInv, NEW t \in Threads, Append_(t)
    PROVE  IInv'
<1> DEFINE e == job[t]
<1>0. TypeInv /\ OwnerInv /\ OrderInv
  BY DEF IInv
<1>1. /\ pc[t] = "append" /\ EndOp(t)
      /\ log' = IF torn THEN log ELSE Append(log, e)
      /\ live' = live /\ saved' = saved /\ seq' = seq /\ restarted' = restarted
      /\ DOMAIN owner' = Fields
  BY DEF Append_, bounds
<1>2. /\ e.seq \in Nat /\ e.cycle \in Nat
      /\ log \in Seq(Entries(log))
      /\ \A x \in Entries(log) : x.seq \in Nat /\ x.cycle \in Nat
  BY <1>0, <1>1 DEF TypeInv
<1>3. /\ ops' \in [Threads -> Seq(Ops)] /\ pc' \in [Threads -> Labels]
      /\ DOMAIN job' = Threads /\ OthersStay(t)
      /\ pc'[t] \in {"idle", "test"}
      /\ pc'[t] # "idle" => ops'[t] # << >>
  BY <1>0, <1>1, EndOpIs
<1>4. log' \in Seq(Entries(log')) /\ Entries(log') \subseteq Entries(log) \cup {e}
  <2> DEFINE S == Entries(log)
  <2> HIDE DEF S, e
  <2>1. log \in Seq(S)
    BY <1>2 DEF S
  <2>2. /\ Entries(Append(log, e)) = Entries(log) \cup {e}
        /\ Append(log, e) \in Seq(Entries(Append(log, e)))
    BY <2>1, EntriesAppend
  <2> QED BY <1>1, <1>2, <2>2
<1>5. TypeInv'
  <2>1. ThreadInv(t)'
    BY <1>3 DEF ThreadInv
  <2>2. \A x \in Entries(log') : x.seq \in Nat /\ x.cycle \in Nat
    BY <1>2, <1>4
  <2>3. /\ DOMAIN live = Fields /\ live.ticks \in Nat /\ DOMAIN saved = Fields
        /\ saved.ticks \in Nat /\ seq \in Nat /\ restarted \in BOOLEAN
    BY <1>0 DEF TypeInv
  <2> HIDE DEF e
  <2> QED BY <1>0, <1>1, <1>3, <1>4, <2>1, <2>2, <2>3, TypeKeeps
<1>6. OrderInv'
  <2>1. Stamped' \subseteq Stamped
    <3>1. {job'[u] : u \in {v \in Threads : pc'[v] = "append"}}
            \subseteq {job[u] : u \in {v \in Threads : pc[v] = "append"}}
      BY <1>3 DEF OthersStay
    <3>2. e \in {job[u] : u \in {v \in Threads : pc[v] = "append"}}
      BY <1>1
    <3> QED BY <1>4, <3>1, <3>2 DEF Stamped
  <2>2. live.ticks \in Nat
    BY <1>0 DEF TypeInv
  <2> QED BY <1>0, <1>1, <2>1, <2>2, OrderKeeps
<1>7. ASSUME NEW f \in Fields
      PROVE  /\ f \notin Covers(e.kind, e.val) => Replay(log')[f] = Replay(log)[f]
             /\ (~ torn /\ f \in Covers(e.kind, e.val)
                        /\ \A x \in Entries(log) : x.seq <= e.seq)
                  => Replay(log')[f] = Gives(e.kind, e.val, f)
  <2> DEFINE S == Entries(log)
  <2>1. log \in Seq(S) /\ Numbered(Entries(log)) /\ e.seq \in Int
    BY <1>2 DEF Numbered
  <2> HIDE DEF S, e
  <2>2. /\ f \notin Covers(e.kind, e.val) => Replay(Append(log, e))[f] = Replay(log)[f]
        /\ (f \in Covers(e.kind, e.val) /\ \A x \in Entries(log) : x.seq <= e.seq)
             => Replay(Append(log, e))[f] = Gives(e.kind, e.val, f)
    BY <2>1, ReplayGrows
  <2> QED BY <1>1, <2>2
<1>8. ASSUME NEW f \in Fields
      PROVE  OwnerOf(f)'
  <2> DEFINE told == IF torn THEN {} ELSE Covers(e.kind, e.val)
             last == \A i \in DOMAIN log : log[i].seq <= e.seq
  <2>1. owner'[f] = CASE owner[f] = t -> IF f \in told /\ last THEN "logged" ELSE "unlogged"
                      [] owner[f] # t /\ f \in told -> "unlogged"
                      [] OTHER -> owner[f]
    BY DEF Append_
  <2>2. OwnerOf(f)
    BY <1>0 DEF OwnerInv
  <2>3. last => \A x \in Entries(log) : x.seq <= e.seq
    BY DEF Entries
  <2>4. "logged" \notin Threads /\ "unlogged" \notin Threads
    BY ThreadsAssumption
  <2>5. CASE owner'[f] = "unlogged"
    BY <2>4, <2>5 DEF OwnerOf
  <2>6. CASE owner[f] = t /\ f \in told /\ last
    <3>1. owner'[f] = "logged"
      BY <2>1, <2>6
    <3>2. live[f] = Gives(e.kind, e.val, f)
      BY <2>2, <2>6 DEF OwnerOf
    <3>3. Replay(log')[f] = Gives(e.kind, e.val, f)
      BY <1>7, <2>3, <2>6
    <3> QED BY <1>1, <2>4, <3>1, <3>2, <3>3 DEF OwnerOf
  <2>7. CASE owner[f] # t /\ f \notin told
    <3>1. owner'[f] = owner[f]
      BY <2>1, <2>7
    <3>2. Replay(log')[f] = Replay(log)[f]
      BY <1>1, <1>7, <2>7
    <3>3. ASSUME NEW u \in Threads, owner[f] = u
          PROVE  pc'[u] = pc[u] /\ job'[u] = job[u]
      BY <1>3, <2>7, <3>3 DEF OthersStay
    <3>4. owner'[f] = "logged" => Replay(log')[f] = live'[f]
      BY <1>1, <2>2, <3>1, <3>2 DEF OwnerOf
    <3>5. ASSUME NEW u \in Threads, owner'[f] = u
          PROVE  /\ pc'[u] \in {"stamp", "append"}
                 /\ pc'[u] = "stamp" => f \in Covers(job'[u].kind, job'[u].val)
                 /\ f \in Covers(job'[u].kind, job'[u].val)
                      => live'[f] = Gives(job'[u].kind, job'[u].val, f)
      BY <1>1, <2>2, <3>1, <3>3, <3>5 DEF OwnerOf
    <3>6. owner'[f] \in Threads \cup {"logged", "unlogged"}
      BY <2>2, <3>1 DEF OwnerOf
    <3> QED BY <3>4, <3>5, <3>6 DEF OwnerOf
  <2>8. \/ owner'[f] = "unlogged"
        \/ owner[f] = t /\ f \in told /\ last
        \/ owner[f] # t /\ f \notin told
    BY <2>1
  <2> QED BY <2>5, <2>6, <2>7, <2>8
<1>9. OwnerInv'
  BY <1>8 DEF OwnerInv
<1> QED BY <1>5, <1>6, <1>9 DEF IInv

\* What the event says of a field its thread changed last is what it would have said.
LEMMA DetailsTell ==
    ASSUME NEW t \in Threads, NEW f \in Fields,
           f \in Covers(job[t].kind, job[t].val), f \in Covers(job[t].kind, Details(t)),
           live[f] = Gives(job[t].kind, job[t].val, f)
    PROVE  live[f] = Gives(job[t].kind, Details(t), f)
<1> DEFINE k == job[t].kind
           v == job[t].val
           d == Details(t)
<1>1. CASE k = "execution"
  <2>0. d = live.exec
    BY <1>1 DEF Details
  <2> HIDE DEF d
  <2>1. f = "exec" /\ d = live.exec /\ Gives("execution", d, f) = d
    <3>1. f \in Covers("execution", d)
      BY <1>1 DEF d
    <3>2. \A g \in Covers("execution", d) : g = "exec" /\ Gives("execution", d, g) = d
      BY CoversAre
    <3> QED BY <2>0, <3>1, <3>2
  <2> QED BY <1>1, <2>1 DEF d
<1>2. CASE k = "mode"
  <2>0. d = live.gov
    BY <1>2 DEF Details
  <2> HIDE DEF d
  <2>1. /\ d = live.gov
        /\ \/ f = "gov" /\ Gives("mode", d, f) = d
           \/ f = "auth" /\ Gives("mode", d, f) = "user"
    <3>1. f \in Covers("mode", d)
      BY <1>2 DEF d
    <3>2. \A g \in Covers("mode", d) :
            \/ g = "gov" /\ Gives("mode", d, g) = d
            \/ g = "auth" /\ d = "degraded_repair" /\ Gives("mode", d, g) = "user"
      BY CoversAre
    <3> QED BY <2>0, <3>1, <3>2
  <2>2. f = "auth" => Gives("mode", v, f) = "user"
    BY DEF Gives
  <2> QED BY <1>2, <2>1, <2>2 DEF d
<1>3. CASE k = "pulse"
  <2>0. d = live.ticks
    BY <1>3 DEF Details
  <2> HIDE DEF d
  <2>1. f = "ticks" /\ d = live.ticks /\ Gives("pulse", d, f) = d
    <3>1. f \in Covers("pulse", d)
      BY <1>3 DEF d
    <3>2. \A g \in Covers("pulse", d) : g = "ticks" /\ Gives("pulse", d, g) = d
      BY CoversAre
    <3> QED BY <2>0, <3>1, <3>2
  <2> QED BY <1>3, <2>1 DEF d
<1>4. CASE k \notin {"execution", "mode", "pulse"}
  <2>1. d = v
    BY <1>4 DEF Details
  <2> QED BY <2>1
<1> QED BY <1>1, <1>2, <1>3, <1>4

\* An event gets its number and its cycle.
LEMMA StampKeeps ==
    ASSUME IInv, NEW t \in Threads, Stamp(t)
    PROVE  IInv'
<1> DEFINE e == [kind |-> job[t].kind, val |-> Details(t), cycle |-> live.ticks, seq |-> seq + 1]
<1>0. TypeInv /\ OwnerInv /\ OrderInv
  BY DEF IInv
<1>1. /\ pc[t] = "stamp" /\ seq' = seq + 1 /\ job' = [job EXCEPT ![t] = e]
      /\ pc' = [pc EXCEPT ![t] = "append"]
      /\ live' = live /\ saved' = saved /\ log' = log /\ ops' = ops /\ owner' = owner
      /\ restarted' = restarted
  BY DEF Stamp, Goto, bounds
<1>2. /\ DOMAIN live = Fields /\ live.ticks \in Nat /\ DOMAIN saved = Fields
      /\ saved.ticks \in Nat /\ seq \in Nat /\ restarted \in BOOLEAN
      /\ log \in Seq(Entries(log)) /\ DOMAIN owner = Fields
      /\ \A x \in Entries(log) : x.seq \in Nat /\ x.cycle \in Nat
      /\ ops \in [Threads -> Seq(Ops)] /\ pc \in [Threads -> Labels]
      /\ DOMAIN job = Threads /\ ops[t] # << >>
  BY <1>0, <1>1 DEF TypeInv
<1>3. /\ e.kind = job[t].kind /\ e.val = Details(t) /\ e.cycle = live.ticks /\ e.seq = seq + 1
  OBVIOUS
<1> HIDE DEF e
<1>4. /\ pc'[t] = "append" /\ job'[t] = e /\ OthersStay(t)
      /\ pc' \in [Threads -> Labels] /\ DOMAIN job' = Threads
  BY <1>1, <1>2 DEF OthersStay, Labels
<1>5. TypeInv'
  <2>1. ThreadInv(t)'
    BY <1>1, <1>2, <1>3, <1>4 DEF ThreadInv
  <2>2. /\ ops' \in [Threads -> Seq(Ops)] /\ DOMAIN live' = Fields /\ live'.ticks \in Nat
        /\ DOMAIN saved' = Fields /\ saved'.ticks \in Nat /\ seq' \in Nat
        /\ restarted' \in BOOLEAN /\ DOMAIN owner' = Fields
        /\ log' \in Seq(Entries(log'))
        /\ \A x \in Entries(log') : x.seq \in Nat /\ x.cycle \in Nat
    BY <1>1, <1>2
  <2> QED BY <1>0, <1>4, <2>1, <2>2, TypeKeeps
<1>6. OrderInv'
  <2>1. Stamped' \subseteq Stamped \cup {e}
    <3>1. {job'[u] : u \in {v \in Threads : pc'[v] = "append"}}
            \subseteq {job[u] : u \in {v \in Threads : pc[v] = "append"}} \cup {e}
      BY <1>4 DEF OthersStay
    <3> QED BY <1>1, <3>1 DEF Stamped
  <2>2. \A x \in Stamped : x.seq \in Nat /\ x.cycle \in Nat
    BY <1>0 DEF TypeInv, Stamped
  <2>3. SUFFICES ASSUME ~ restarted
                 PROVE  \A x \in Stamped' :
                          /\ x.seq <= seq + 1 /\ x.cycle <= live.ticks
                          /\ \A y \in Stamped' : x.seq < y.seq => x.cycle <= y.cycle
    BY <1>1 DEF OrderInv
  <2>4. \A x \in Stamped : /\ x.seq <= seq /\ x.cycle <= live.ticks
                           /\ \A y \in Stamped : x.seq < y.seq => x.cycle <= y.cycle
    BY <1>0, <2>3 DEF OrderInv
  <2>5. ASSUME NEW x \in Stamped \cup {e}
        PROVE  x.seq <= seq + 1 /\ x.cycle <= live.ticks
    BY <1>2, <1>3, <2>2, <2>4
  <2>6. ASSUME NEW x \in Stamped \cup {e}, NEW y \in Stamped \cup {e}, x.seq < y.seq
        PROVE  x.cycle <= y.cycle
    <3>1. CASE x \in Stamped /\ y \in Stamped
      BY <2>4, <2>6, <3>1
    <3>2. CASE y = e
      BY <1>3, <2>5, <3>2
    <3>3. CASE x = e /\ y \in Stamped
      BY <1>2, <1>3, <2>2, <2>4, <2>6, <3>3
    <3> QED BY <3>1, <3>2, <3>3
  <2> QED BY <2>1, <2>5, <2>6
<1>7. ASSUME NEW f \in Fields
      PROVE  OwnerOf(f)'
  <2>1. OwnerOf(f)
    BY <1>0 DEF OwnerInv
  <2>2. owner'[f] = "logged" => Replay(log')[f] = live'[f]
    BY <1>1, <2>1 DEF OwnerOf
  <2>3. ASSUME NEW u \in Threads, owner'[f] = u
        PROVE  /\ pc'[u] \in {"stamp", "append"}
               /\ pc'[u] = "stamp" => f \in Covers(job'[u].kind, job'[u].val)
               /\ f \in Covers(job'[u].kind, job'[u].val)
                    => live'[f] = Gives(job'[u].kind, job'[u].val, f)
    <3>1. CASE u = t
      <4>1. /\ f \in Covers(job[t].kind, job[t].val)
            /\ live[f] = Gives(job[t].kind, job[t].val, f)
        BY <1>1, <2>1, <2>3, <3>1 DEF OwnerOf
      <4>2. f \in Covers(job[t].kind, Details(t)) => live[f] = Gives(job[t].kind, Details(t), f)
        BY <4>1, DetailsTell
      <4> QED BY <1>1, <1>3, <1>4, <3>1, <4>2
    <3>2. CASE u # t
      <4>1. pc'[u] = pc[u] /\ job'[u] = job[u]
        BY <1>4, <3>2 DEF OthersStay
      <4> QED BY <1>1, <2>1, <2>3, <4>1 DEF OwnerOf
    <3> QED BY <3>1, <3>2
  <2>4. owner'[f] \in Threads \cup {"logged", "unlogged"}
    BY <1>1, <2>1 DEF OwnerOf
  <2> QED BY <2>2, <2>3, <2>4 DEF OwnerOf
<1>8. OwnerInv'
  BY <1>7 DEF OwnerInv
<1> QED BY <1>5, <1>6, <1>8 DEF IInv

\* A step of a thread that changes neither the state nor the log.
LEMMA ThreadKeeps ==
    ASSUME IInv, NEW t \in Threads, pc[t] \notin {"stamp", "append"}, OthersStay(t),
           UNCHANGED <<live, saved, seq, log, restarted, owner>>,
           ops' \in [Threads -> Seq(Ops)], pc' \in [Threads -> Labels],
           DOMAIN job' = Threads, ThreadInv(t)', pc'[t] # "append"
    PROVE  IInv'
<1>0. TypeInv /\ OwnerInv /\ OrderInv
  BY DEF IInv
<1>1. /\ live' = live /\ saved' = saved /\ seq' = seq /\ log' = log
      /\ restarted' = restarted /\ owner' = owner
  OBVIOUS
<1>2. /\ DOMAIN live' = Fields /\ live'.ticks \in Nat /\ DOMAIN saved' = Fields
      /\ saved'.ticks \in Nat /\ seq' \in Nat /\ restarted' \in BOOLEAN
      /\ log' \in Seq(Entries(log')) /\ DOMAIN owner' = Fields
      /\ \A x \in Entries(log') : x.seq \in Nat /\ x.cycle \in Nat
  BY <1>0, <1>1 DEF TypeInv
<1>3. TypeInv'
  BY <1>0, <1>2, TypeKeeps
<1>4. OrderInv'
  <2>1. Stamped' \subseteq Stamped
    BY <1>1, StampedStays
  <2>2. live.ticks \in Nat /\ live.ticks <= live'.ticks
    BY <1>0, <1>1 DEF TypeInv
  <2> QED BY <1>0, <1>1, <1>2, <2>1, <2>2, OrderKeeps
<1>5. \A f \in Fields : OwnerOf(f)'
  BY <1>0, <1>1, OwnerKeeps
<1>6. OwnerInv'
  BY <1>5 DEF OwnerInv
<1> QED BY <1>3, <1>4, <1>6 DEF IInv

LEMMA CallKeeps ==
    ASSUME IInv, NEW t \in Threads, Call(t)
    PROVE  IInv'
<1>0. TypeInv
  BY DEF IInv
<1>1. PICK h \in Requests \cup Faults : ops' = [ops EXCEPT ![t] = h]
  BY DEF Call
<1>2. /\ pc[t] = "idle" /\ pc' = [pc EXCEPT ![t] = "test"] /\ job' = job
      /\ UNCHANGED <<live, saved, seq, log, restarted, owner>>
  BY DEF Call, Goto
<1>3. h # << >> /\ h \in Seq(Ops)
  BY OpsAre
<1>4. /\ ops \in [Threads -> Seq(Ops)] /\ pc \in [Threads -> Labels] /\ DOMAIN job = Threads
  BY <1>0 DEF TypeInv
<1> DEFINE S == Seq(Ops)
<1> HIDE DEF S
<1>5. /\ ops' \in [Threads -> S] /\ ops'[t] = h
      /\ \A u \in Threads \ {t} : ops'[u] = ops[u]
  BY <1>1, <1>3, <1>4 DEF S
<1>6. /\ pc' \in [Threads -> Labels] /\ pc'[t] = "test"
      /\ \A u \in Threads \ {t} : pc'[u] = pc[u]
  BY <1>2, <1>4 DEF Labels
<1>7. OthersStay(t)
  BY <1>2, <1>5, <1>6 DEF OthersStay
<1>8. ThreadInv(t)'
  BY <1>3, <1>5, <1>6 DEF ThreadInv
<1>9. ops' \in [Threads -> Seq(Ops)] /\ DOMAIN job' = Threads
  BY <1>2, <1>4, <1>5 DEF S
<1> QED BY <1>2, <1>6, <1>7, <1>8, <1>9, ThreadKeeps

LEMMA RefuseKeeps ==
    ASSUME IInv, NEW t \in Threads, Refuse(t)
    PROVE  IInv'
<1>0. TypeInv
  BY DEF IInv
<1>1. /\ pc[t] = "test" /\ pc' = [pc EXCEPT ![t] = "idle"] /\ job' = job
      /\ ops' = [ops EXCEPT ![t] = << >>]
      /\ UNCHANGED <<live, saved, seq, log, restarted, owner>>
  BY DEF Refuse, Goto, bounds
<1>2. /\ ops \in [Threads -> Seq(Ops)] /\ pc \in [Threads -> Labels] /\ DOMAIN job = Threads
  BY <1>0 DEF TypeInv
<1> DEFINE S == Seq(Ops)
<1>3. << >> \in S
  OBVIOUS
<1> HIDE DEF S
<1>4. ops' \in [Threads -> S] /\ \A u \in Threads \ {t} : ops'[u] = ops[u]
  BY <1>1, <1>2, <1>3 DEF S
<1>5. /\ pc' \in [Threads -> Labels] /\ pc'[t] = "idle"
      /\ \A u \in Threads \ {t} : pc'[u] = pc[u]
  BY <1>1, <1>2 DEF Labels
<1>6. OthersStay(t) /\ ThreadInv(t)'
  BY <1>1, <1>4, <1>5 DEF OthersStay, ThreadInv
<1>7. ops' \in [Threads -> Seq(Ops)] /\ DOMAIN job' = Threads
  BY <1>1, <1>2, <1>4 DEF S
<1> QED BY <1>1, <1>5, <1>6, <1>7, ThreadKeeps

\* The operation that a thread is about to do.
LEMMA HeadIs ==
    ASSUME TypeInv, NEW t \in Threads, pc[t] = "test"
    PROVE  Head(ops[t]) \in Ops /\ ops[t] # << >>
<1> DEFINE q == ops[t]
<1>1. q \in Seq(Ops) /\ q # << >>
  BY DEF TypeInv
<1> HIDE DEF q
<1>2. Head(q) \in Ops
  BY <1>1
<1> QED BY <1>1, <1>2 DEF q

LEMMA TestKeeps ==
    ASSUME IInv, NEW t \in Threads, Test(t)
    PROVE  IInv'
<1> DEFINE op == Head(ops[t])
           e == Effect(op)
<1>0. TypeInv
  BY DEF IInv
<1>1. /\ pc[t] = "test" /\ pc' = [pc EXCEPT ![t] = "assign"] /\ ops' = ops
      /\ op.name \in TestsFirst
      /\ job' = [job EXCEPT ![t] = e]
      /\ UNCHANGED <<live, saved, seq, log, restarted, owner>>
  BY DEF Test, Goto, bounds
<1>2. op \in Ops /\ ops[t] # << >>
  BY <1>0, <1>1, HeadIs
<1> HIDE DEF op
<1>3. Consistent(e) /\ "ticks" \notin DOMAIN e.set
  <2>1. /\ Consistent(Effect(op))
        /\ "ticks" \in DOMAIN Effect(op).set => op.name = "cycle"
    BY <1>2, EffectIs
  <2> QED BY <2>1, <1>1 DEF TestsFirst
<1> HIDE DEF e
<1>4. /\ ops \in [Threads -> Seq(Ops)] /\ pc \in [Threads -> Labels] /\ DOMAIN job = Threads
  BY <1>0 DEF TypeInv
<1>5. /\ pc' \in [Threads -> Labels] /\ pc'[t] = "assign"
      /\ \A u \in Threads \ {t} : pc'[u] = pc[u]
  BY <1>1, <1>4 DEF Labels
<1>6. /\ DOMAIN job' = Threads /\ job'[t] = e
      /\ \A u \in Threads \ {t} : job'[u] = job[u]
  BY <1>1, <1>4
<1>7. OthersStay(t)
  BY <1>1, <1>5, <1>6 DEF OthersStay
<1>8. ThreadInv(t)'
  <2>1. ops'[t] # << >> /\ Consistent(job'[t]) /\ "ticks" \notin DOMAIN job'[t].set
    BY <1>1, <1>2, <1>3, <1>6
  <2> QED BY <2>1, <1>5 DEF ThreadInv, Consistent
<1>9. ops' \in [Threads -> Seq(Ops)]
  BY <1>1, <1>4
<1> QED BY <1>1, <1>5, <1>6, <1>7, <1>8, <1>9, ThreadKeeps

LEMMA AssignKeeps ==
    ASSUME IInv, NEW t \in Threads, Assign(t)
    PROVE  IInv'
<1>0. TypeInv
  BY DEF IInv
<1>1. UNCHANGED <<seq, log, torn, calls, restarted>>
  BY DEF Assign
<1>2. CASE pc[t] = "assign" /\ Write(t, job[t])
  <2>1. Consistent(job[t]) /\ "ticks" \notin DOMAIN job[t].set
    BY <1>0, <1>2 DEF TypeInv
  <2> QED BY <1>1, <1>2, <2>1, WriteKeeps
<1>3. CASE pc[t] = "test" /\ Write(t, Effect(Head(ops[t])))
  <2> DEFINE e == Effect(Head(ops[t]))
  <2>1. Head(ops[t]) \in Ops
    BY <1>0, <1>3, HeadIs
  <2>2. /\ Consistent(e)
        /\ "ticks" \in DOMAIN e.set => e.set["ticks"] = live.ticks + 1
    BY <2>1, EffectIs
  <2>3. Write(t, e)
    BY <1>3
  <2> HIDE DEF e
  <2> QED BY <1>1, <1>3, <2>2, <2>3, WriteKeeps
<1> QED BY <1>2, <1>3 DEF Assign

\* What is left of the log after the crash.
LEMMA TrimIs ==
    ASSUME NEW S, NEW q \in Seq(S)
    PROVE  Trim(q) \in Seq(S)
<1> DEFINE from == Len(q) - MaxLines + 1
<1>1. Len(q) \in Nat /\ MaxLines \in Nat
  BY ControlAssumption
<1>2. CASE Len(q) <= MaxLines
  BY <1>2 DEF Trim
<1>3. CASE ~ (Len(q) <= MaxLines)
  <2>1. from \in 1..(Len(q) + 1) /\ Trim(q) = SubSeq(q, from, Len(q))
    BY <1>1, <1>3 DEF Trim
  <2> HIDE DEF from
  <2>2. SubSeq(q, from, Len(q)) \in Seq(S)
    BY <1>1, <2>1
  <2> QED BY <2>1, <2>2
<1> QED BY <1>2, <1>3

LEMMA CrashKeeps ==
    ASSUME IInv, Crash
    PROVE  IInv'
<1> DEFINE T == Entries(log) \cup {Malformed}
<1>0. TypeInv
  BY DEF IInv
<1>1. /\ restarted' = TRUE /\ live' = saved /\ seq' = 0 /\ saved' = saved
      /\ log' \in {log, Trim(log), Append(log, Malformed), Trim(Append(log, Malformed))}
      /\ ops' = [t \in Threads |-> << >>]
      /\ pc' = [t \in Threads |-> "idle"]
      /\ job' = [t \in Threads |-> Nothing]
      /\ owner' = [f \in Fields |-> "unlogged"]
  BY DEF Crash
<1>2. /\ log \in Seq(Entries(log)) /\ DOMAIN saved = Fields /\ saved.ticks \in Nat
      /\ \A x \in Entries(log) : x.seq \in Nat /\ x.cycle \in Nat
  BY <1>0 DEF TypeInv
<1>3. \A x \in T : x.seq \in Nat /\ x.cycle \in Nat
  BY <1>2 DEF Malformed
<1>4. log \in Seq(T) /\ Malformed \in T
  BY <1>2
<1> HIDE DEF T
<1>5. Append(log, Malformed) \in Seq(T)
  BY <1>4
<1>6. log' \in Seq(T)
  BY <1>1, <1>4, <1>5, TrimIs
<1>7. log' \in Seq(Entries(log')) /\ Entries(log') \subseteq T
  BY <1>6, EntriesAre
<1>8. TypeInv'
  <2>1. /\ DOMAIN live' = Fields /\ live'.ticks \in Nat
        /\ DOMAIN saved' = Fields /\ saved'.ticks \in Nat
        /\ seq' \in Nat /\ restarted' \in BOOLEAN
        /\ DOMAIN job' = Threads /\ DOMAIN owner' = Fields
    BY <1>1, <1>2
  <2>2. log' \in Seq(Entries(log')) /\ \A x \in Entries(log') : x.seq \in Nat /\ x.cycle \in Nat
    BY <1>3, <1>7
  <2>3. pc' \in [Threads -> Labels] /\ \A t \in Threads : pc'[t] = "idle"
    BY <1>1 DEF Labels
  <2>4. ops' \in [Threads -> Seq(Ops)]
    BY <1>1
  <2> QED BY <2>1, <2>2, <2>3, <2>4 DEF TypeInv
<1>9. OwnerInv'
  <2>1. ASSUME NEW f \in Fields
        PROVE  OwnerOf(f)'
    <3>1. owner'[f] = "unlogged" /\ \A t \in Threads : t # "unlogged"
      BY <1>1, ThreadsAssumption
    <3> QED BY <3>1 DEF OwnerOf
  <2> QED BY <2>1 DEF OwnerInv
<1>10. OrderInv'
  BY <1>1 DEF OrderInv
<1> QED BY <1>8, <1>9, <1>10 DEF IInv

\* A log without lines.
LEMMA NothingLogged ==
    LoadEvents(<< >>) = << >> /\ Replay(<< >>) = Default
<1>1. << >> \in Seq({}) /\ Numbered({}) /\ Len(<< >>) = 0
  BY DEF Numbered
<1>2. LoadEvents(<< >>) = << >>
  BY <1>1, LoadRuns
<1>3. ApplyEvents(<< >>) = Default
  BY <1>1, ApplyRuns
<1> QED BY <1>2, <1>3 DEF Replay

LEMMA Initially ==
    ASSUME Init
    PROVE  IInv
<1>1. /\ live = Default /\ saved = Default /\ seq = 0 /\ log = << >> /\ restarted = FALSE
      /\ ops = [t \in Threads |-> << >>]
      /\ pc = [t \in Threads |-> "idle"]
      /\ job = [t \in Threads |-> Nothing]
      /\ owner = [f \in Fields |-> "logged"]
  BY DEF Init
<1>2. Entries(log) = {} /\ log \in Seq(Entries(log))
  <2>1. << >> \in Seq({})
    OBVIOUS
  <2>2. Entries(<< >>) = {}
    BY <2>1 DEF Entries
  <2> QED BY <1>1, <2>1, <2>2
<1>3. TypeInv
  <2>1. DOMAIN Default = Fields /\ Default.ticks \in Nat
    BY DEF Default, Fields
  <2>2. ops \in [Threads -> Seq(Ops)] /\ pc \in [Threads -> Labels]
    BY <1>1 DEF Labels
  <2>3. /\ DOMAIN job = Threads /\ DOMAIN owner = Fields
        /\ \A t \in Threads : pc[t] = "idle"
    BY <1>1
  <2> QED BY <1>1, <1>2, <2>1, <2>2, <2>3 DEF TypeInv
<1>4. OwnerInv
  <2>1. ASSUME NEW f \in Fields
        PROVE  OwnerOf(f)
    <3>1. owner[f] = "logged" /\ \A t \in Threads : t # "logged"
      BY <1>1, ThreadsAssumption
    <3>2. Replay(log)[f] = live[f]
      BY <1>1, NothingLogged
    <3> QED BY <3>1, <3>2 DEF OwnerOf
  <2> QED BY <2>1 DEF OwnerInv
<1>5. OrderInv
  <2>1. Stamped = {}
    BY <1>1, <1>2 DEF Stamped
  <2> QED BY <2>1 DEF OrderInv
<1> QED BY <1>3, <1>4, <1>5 DEF IInv

LEMMA Unchanged ==
    ASSUME IInv, UNCHANGED vars
    PROVE  IInv'
<1>1. /\ live' = live /\ saved' = saved /\ seq' = seq /\ log' = log /\ ops' = ops
      /\ pc' = pc /\ job' = job /\ restarted' = restarted /\ owner' = owner
  BY DEF vars, bounds
<1>2. TypeInv'
  BY <1>1 DEF IInv, TypeInv
<1>3. OwnerInv'
  BY <1>1 DEF IInv, OwnerInv, OwnerOf
<1>4. OrderInv'
  BY <1>1 DEF IInv, OrderInv, Stamped
<1> QED BY <1>2, <1>3, <1>4 DEF IInv

-----------------------------------------------------------------------------
(* The theorems *)

\* The events in the log, the changes on their way to it and the numbers given out
\* fit together in every state: what the two results below rest on.
THEOREM ControlInv == Spec => []IInv
<1>1. Init => IInv
  BY Initially
<1>2. IInv /\ [Next]_vars => IInv'
  <2>1. SUFFICES ASSUME IInv, Next
                 PROVE  IInv'
    BY Unchanged
  <2>2. ASSUME NEW t \in Threads, Call(t) PROVE IInv'
    BY <2>1, <2>2, CallKeeps
  <2>3. ASSUME NEW t \in Threads, Refuse(t) PROVE IInv'
    BY <2>1, <2>3, RefuseKeeps
  <2>4. ASSUME NEW t \in Threads, Test(t) PROVE IInv'
    BY <2>1, <2>4, TestKeeps
  <2>5. ASSUME NEW t \in Threads, Assign(t) PROVE IInv'
    BY <2>1, <2>5, AssignKeeps
  <2>6. ASSUME NEW t \in Threads, Stamp(t) PROVE IInv'
    BY <2>1, <2>6, StampKeeps
  <2>7. ASSUME NEW t \in Threads, Append_(t) PROVE IInv'
    BY <2>1, <2>7, AppendKeeps
  <2>8. ASSUME Crash PROVE IInv'
    BY <2>1, <2>8, CrashKeeps
  <2> QED BY <2>1, <2>2, <2>3, <2>4, <2>5, <2>6, <2>7, <2>8 DEF Next
<1> QED BY <1>1, <1>2, PTL DEF Spec

\* What TruthAPI serves, the state replayed from the log, has the live value of
\* every field whose last change is logged, whatever operations of other threads,
\* rejected saves, torn lines, trims and restarts came between (replay.py).
THEOREM ReplayTellsTheState == Spec => []ReplayIsCurrent
<1>1. IInv => ReplayIsCurrent
  BY DEF IInv, OwnerInv, OwnerOf, ReplayIsCurrent
<1> QED BY <1>1, ControlInv, PTL

-----------------------------------------------------------------------------
(* What is replayed up to a boundary *)

\* How many events stand before the first one past the boundary.
Stop(events, cycle) ==
    LET past == {i \in DOMAIN events : events[i].cycle > cycle}
    IN  IF past = {} THEN Len(events) ELSE Min(past) - 1

LEMMA StopIs ==
    ASSUME NEW S, NEW events \in Seq(S), NEW cycle \in Int, \A x \in S : x.cycle \in Int
    PROVE  /\ Stop(events, cycle) \in 0..Len(events)
           /\ \A i \in 1..Stop(events, cycle) : events[i].cycle <= cycle
           /\ Stop(events, cycle) < Len(events) =>
                events[Stop(events, cycle) + 1].cycle > cycle
<1> DEFINE past == {i \in DOMAIN events : events[i].cycle > cycle}
           m == Min(past)
<1>1. Len(events) \in Nat /\ DOMAIN events = 1..Len(events)
  OBVIOUS
<1>2. \A i \in 1..Len(events) : events[i].cycle \in Int
  BY <1>1
<1>3. CASE past = {}
  <2>1. Stop(events, cycle) = Len(events)
    BY <1>3 DEF Stop
  <2> QED BY <1>1, <1>2, <1>3, <2>1
<1>4. CASE past # {}
  <2>1. past \subseteq Nat
    BY <1>1
  <2> HIDE DEF past
  <2>2. PICK x \in past : \A y \in past : x <= y
    BY <1>4, <2>1, LeastElement
  <2>3. m \in past /\ \A y \in past : m <= y
    BY <2>2 DEF Min
  <2>4. Stop(events, cycle) = m - 1
    BY <1>4 DEF Stop, past
  <2> HIDE DEF m
  <2>5. m \in 1..Len(events) /\ events[m].cycle > cycle
    BY <1>1, <2>3 DEF past
  <2>6. ASSUME NEW i \in 1..(m - 1)
        PROVE  events[i].cycle <= cycle
    <3>1. i \notin past
      BY <2>1, <2>3, <2>5
    <3>2. i \in 1..Len(events)
      BY <1>1, <2>5
    <3> QED BY <1>1, <1>2, <3>1, <3>2 DEF past
  <2> QED BY <1>1, <2>4, <2>5, <2>6
<1> QED BY <1>3, <1>4

\* An event past the boundary that goes behind all the events up to it leaves what
\* stands before the boundary alone.
LEMMA CutStays ==
    ASSUME NEW S, NEW events \in Seq(S), NEW longer \in Seq(S),
           NEW cycle \in Int, \A x \in S : x.cycle \in Int,
           NEW k, NEW e, Inserted(events, longer, k, e), e.cycle > cycle,
           k <= Len(events) => events[k].cycle > cycle
    PROVE  SubSeq(longer, 1, Stop(longer, cycle)) = SubSeq(events, 1, Stop(events, cycle))
<1> DEFINE a == Stop(events, cycle)
           b == Stop(longer, cycle)
<1>1. /\ Len(events) \in Nat /\ Len(longer) = Len(events) + 1
      /\ k \in 1..(Len(events) + 1) /\ longer[k] = e
      /\ \A i \in 1..(k - 1) : longer[i] = events[i]
  BY DEF Inserted
<1>2. /\ a \in 0..Len(events)
      /\ \A i \in 1..a : events[i].cycle <= cycle
      /\ a < Len(events) => events[a + 1].cycle > cycle
  BY StopIs
<1>3. /\ b \in 0..Len(longer)
      /\ \A i \in 1..b : longer[i].cycle <= cycle
      /\ b < Len(longer) => longer[b + 1].cycle > cycle
  BY StopIs
<1>4. /\ \A i \in 1..Len(events) : events[i].cycle \in Int
      /\ \A i \in 1..Len(longer) : longer[i].cycle \in Int
  OBVIOUS
<1> HIDE DEF a, b
<1>5. a < k
  <2>1. SUFFICES ASSUME k <= a PROVE FALSE
    BY <1>1, <1>2
  <2>2. k \in 1..a /\ k <= Len(events)
    BY <1>1, <1>2, <2>1
  <2> QED BY <1>1, <1>2, <1>4, <2>2
<1>6. b < k
  <2>1. SUFFICES ASSUME k <= b PROVE FALSE
    BY <1>1, <1>3
  <2>2. k \in 1..b
    BY <1>1, <1>3, <2>1
  <2> QED BY <1>1, <1>3, <1>4, <2>2
<1>7. ~ (a < b)
  <2>1. SUFFICES ASSUME a < b PROVE FALSE
    OBVIOUS
  <2>2. /\ a + 1 \in 1..b /\ a + 1 \in 1..(k - 1) /\ a < Len(events)
        /\ a + 1 \in 1..Len(events)
    BY <1>1, <1>2, <1>3, <1>6, <2>1
  <2> QED BY <1>1, <1>2, <1>3, <1>4, <2>2
<1>8. ~ (b < a)
  <2>1. SUFFICES ASSUME b < a PROVE FALSE
    OBVIOUS
  <2>2. /\ b + 1 \in 1..a /\ b + 1 \in 1..(k - 1) /\ b < Len(longer)
        /\ b + 1 \in 1..Len(events)
    BY <1>1, <1>2, <1>3, <1>5, <2>1
  <2> QED BY <1>1, <1>2, <1>3, <1>4, <2>2
<1>9. a = b
  BY <1>2, <1>3, <1>7, <1>8, <1>1
<1>10. \A i \in 1..a : longer[i] = events[i]
  BY <1>1, <1>2, <1>5
<1>11. SubSeq(longer, 1, a) = SubSeq(events, 1, a)
  <2>1. /\ SubSeq(longer, 1, a) \in Seq(S) /\ Len(SubSeq(longer, 1, a)) = a
        /\ \A i \in 1..a : SubSeq(longer, 1, a)[i] = longer[i]
    BY <1>1, <1>2
  <2>2. /\ SubSeq(events, 1, a) \in Seq(S) /\ Len(SubSeq(events, 1, a)) = a
        /\ \A i \in 1..a : SubSeq(events, 1, a)[i] = events[i]
    BY <1>1, <1>2
  <2> DEFINE p == SubSeq(longer, 1, a)
             q == SubSeq(events, 1, a)
  <2>3. /\ p \in Seq(S) /\ q \in Seq(S) /\ Len(p) = Len(q)
        /\ \A i \in 1..Len(p) : p[i] = q[i]
    BY <1>10, <2>1, <2>2
  <2> HIDE DEF p, q
  <2>4. p \in [1..Len(p) -> S] /\ q \in [1..Len(p) -> S]
    BY <2>3
  <2>5. p = q
    BY <2>3, <2>4
  <2> QED BY <2>5 DEF p, q
<1> QED BY <1>9, <1>11 DEF a, b

LEMMA BoundaryStays ==
    ASSUME IInv, ~ restarted, NEW t \in Threads, Append_(t),
           NEW cycle \in 0..(live.ticks - 1), ~ (log'[Len(log')].cycle <= cycle)
    PROVE  ReplayUntil(log', cycle) = ReplayUntil(log, cycle)
<1> DEFINE e == job[t]
           T == Entries(log)
           events == LoadEvents(log)
           longer == LoadEvents(log')
<1>1. CASE torn
  BY <1>1 DEF Append_
<1>2. CASE ~ torn
  <2>1. pc[t] = "append" /\ log' = Append(log, e)
    BY <1>2 DEF Append_
  <2>2. /\ live.ticks \in Nat /\ log \in Seq(T) /\ e.seq \in Nat /\ e.cycle \in Nat
        /\ \A x \in T : x.seq \in Nat /\ x.cycle \in Nat
    BY <2>1 DEF IInv, TypeInv
  <2>3. cycle \in Int
    BY <2>2
  <2>4. log'[Len(log')] = e
    BY <2>1, <2>2
  <2>5. e.cycle > cycle
    BY <2>2, <2>3, <2>4
  <2>6. e \in Stamped /\ T \subseteq Stamped
    BY <2>1 DEF Stamped
  <2>7. \A x \in T : e.seq < x.seq => e.cycle <= x.cycle
    BY <2>6 DEF IInv, OrderInv
  <2> HIDE DEF e, T
  <2>8. Numbered(T) /\ e.seq \in Int
    BY <2>2 DEF Numbered
  <2>9. /\ events \in Seq(T)
        /\ e.kind = "malformed" => longer = events
        /\ e.kind # "malformed" =>
             /\ longer \in Seq(T \cup {e})
             /\ \E k \in 1..(Len(events) + 1) : Placed(events, longer, e, k)
    <3>1. Numbered(Entries(log))
      BY <2>8 DEF T
    <3> QED BY <2>1, <2>2, <2>8, <3>1, LogGrows DEF T
  <2>10. /\ ReplayUntil(log, cycle) = ApplyEvents(SubSeq(events, 1, Stop(events, cycle)))
         /\ ReplayUntil(log', cycle) = ApplyEvents(SubSeq(longer, 1, Stop(longer, cycle)))
    BY DEF ReplayUntil, Stop
  <2> HIDE DEF events, longer
  <2>11. CASE e.kind = "malformed"
    BY <2>9, <2>10, <2>11
  <2>12. CASE e.kind # "malformed"
    <3> DEFINE U == T \cup {e}
    <3>1. PICK k \in 1..(Len(events) + 1) : Placed(events, longer, e, k)
      BY <2>9, <2>12
    <3>2. k <= Len(events) => events[k].cycle > cycle
      <4>1. SUFFICES ASSUME k <= Len(events) PROVE events[k].cycle > cycle
        OBVIOUS
      <4>2. events[k] \in T /\ events[k].seq > e.seq
        BY <2>9, <3>1, <4>1 DEF Placed
      <4>3. /\ events[k].seq \in Nat /\ events[k].cycle \in Nat
            /\ e.cycle <= events[k].cycle
        BY <2>2, <2>7, <4>2
      <4> QED BY <2>2, <2>3, <2>5, <4>3
    <3>3. \A x \in U : x.cycle \in Int
      BY <2>2
    <3>4. longer \in Seq(U) /\ T \subseteq U
      BY <2>9, <2>12
    <3> HIDE DEF U
    <3>5. events \in Seq(U)
      BY <2>9, <3>4
    <3>6. Inserted(events, longer, k, e)
      BY <3>1 DEF Placed
    <3>7. SubSeq(longer, 1, Stop(longer, cycle)) = SubSeq(events, 1, Stop(events, cycle))
      BY <2>3, <2>5, <3>2, <3>3, <3>4, <3>5, <3>6, CutStays
    <3> QED BY <2>10, <3>7
  <2> QED BY <2>11, <2>12
<1> QED BY <1>1, <1>2

\* What fork_from branches from: within one run of the process the state replayed
\* up to a boundary that has passed changes only with an event stamped before it,
\* for numbers and cycles grow together, so that an event stamped later is sorted
\* behind all those before the boundary (replay.py, _emit).
THEOREM PastIsStable == Spec => BoundaryIsStable
<1> DEFINE Stable == ~ restarted' =>
                        \A cycle \in 0..(live.ticks - 1) :
                          \/ ReplayUntil(log', cycle) = ReplayUntil(log, cycle)
                          \/ log'[Len(log')].cycle <= cycle
<1>1. IInv /\ [Next]_vars => [Stable]_vars
  <2>1. SUFFICES ASSUME IInv, Next PROVE Stable
    OBVIOUS
  <2>2. CASE log' = log
    BY <2>2
  <2>3. CASE restarted'
    BY <2>3
  <2>4. CASE \E t \in Threads : Append_(t)
    <3>1. PICK t \in Threads : Append_(t)
      BY <2>4
    <3>2. restarted' = restarted
      BY <3>1 DEF Append_, bounds
    <3> QED BY <2>1, <3>1, <3>2, BoundaryStays
  <2>5. log' = log \/ restarted' \/ \E t \in Threads : Append_(t)
    BY <2>1 DEF Next, Call, Refuse, Test, Assign, Stamp, Crash
  <2> QED BY <2>2, <2>3, <2>4, <2>5
<1> QED BY <1>1, ControlInv, PTL DEF BoundaryIsStable, Spec

=============================================================================
