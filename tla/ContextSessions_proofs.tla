----------------------- MODULE ContextSessions_proofs -----------------------
(***************************************************************************)
(* What the adapter keeps, for any number of sessions and for any bounds: an *)
(* accepted mutation is lost only where a commit or a reload went wrong, or  *)
(* when it was made while some dispose was in progress.                      *)
(***************************************************************************)
EXTENDS ContextSessions, TLAPS

Object == [of : Sessions, data : SUBSET accepted, rev : 0..MaxRevision,
           dirty : BOOLEAN]
Run == [pc : {"idle", "loading", "running", "storing", "committing", "syncing",
              "disposing"}, h : Nat, left : Nat]
Call == [by : Sessions, on : Nat, expected : 0..MaxRevision,
         st : {"check", "written"}]

\* The types, with what a handle in a variable refers to.
TypeInv ==
  /\ sessions \in [Sessions -> Nat]
  /\ heap \in Seq(Object)
  /\ host \in [Sessions -> Run]
  /\ commits \subseteq Call
  /\ disk \in [Sessions -> [rev : 0..MaxRevision, data : SUBSET accepted]]

InTurn(s) == host[s].pc \in {"storing", "committing", "syncing"}

\* The map and a turn in progress hold objects of their own session, and a
\* commit belongs to a turn of its object's session, which has no other, or to
\* a dispose.
HandleInv ==
  /\ \A s \in Sessions :
       /\ Live(s) => sessions[s] \in DOMAIN heap /\ heap[sessions[s]].of = s
       /\ InTurn(s) => host[s].h \in DOMAIN heap /\ heap[host[s].h].of = s
       /\ host[s].h \in 0..Len(heap)
       /\ At(s, "loading") => ~ Live(s)
  /\ \A c \in commits :
       /\ c.on \in DOMAIN heap
       /\ \/ At(c.by, "disposing")
          \/ At(c.by, "committing") /\ host[c.by].h = c.on
  /\ \A c, d \in commits : At(c.by, "committing") /\ d.by = c.by => d = c

\* The file of s is at revision r or later, and at r it has nothing that d
\* does not have.
Extends(d, r, s) ==
  r <= disk[s].rev /\ (r = disk[s].rev => disk[s].data \subseteq d)

\* An object, a commit that was not written and one that was, each with the
\* revision it believes the file to have: the reason why no write removes
\* anything from the file.
RevisionInv ==
  /\ \A h \in DOMAIN heap : Extends(heap[h].data, heap[h].rev, heap[h].of)
  /\ \A c \in commits :
       Extends(heap[c.on].data, IF c.st = "check" THEN c.expected ELSE c.expected + 1,
               heap[c.on].of)

\* The mutations that are in a file or are excused, and the objects that have
\* no other.
Recorded == (UNION {disk[s].data : s \in Sessions}) \cup failed \cup raced
Safe(h) == heap[h].data \subseteq Recorded

\* Nothing is lost with an object that is clean, that was just written, or that
\* a dispose in progress is about to drop and commits no more.
SafeInv ==
  /\ \A h \in DOMAIN heap : heap[h].dirty \/ Safe(h)
  /\ \A c \in commits : c.st = "written" => Safe(c.on)
  /\ \A s, t \in Sessions :
       At(s, "disposing") /\ Live(t)
         => Safe(sessions[t]) \/ \E c \in commits : c.by = s /\ c.on = sessions[t]

IInv == TypeInv /\ HandleInv /\ RevisionInv /\ SafeInv /\ LostOnlyWhileDisposing

-----------------------------------------------------------------------------
\* What the provers need to know of the heap as a sequence.
LEMMA HeapFacts ==
  ASSUME NEW S, NEW q \in Seq(S)
  PROVE  /\ Len(q) \in Nat /\ DOMAIN q = 1..Len(q)
         /\ \A h \in DOMAIN q : q[h] \in S
OBVIOUS

\* An assignment to the object h of the heap q.
LEMMA HeapUpdate ==
  ASSUME NEW S, NEW T, S \subseteq T, NEW q \in Seq(S), NEW h \in DOMAIN q, NEW r \in T
  PROVE  /\ [q EXCEPT ![h] = r] \in Seq(T)
         /\ Len([q EXCEPT ![h] = r]) = Len(q)
         /\ DOMAIN [q EXCEPT ![h] = r] = DOMAIN q
         /\ \A g \in DOMAIN q : [q EXCEPT ![h] = r][g] = IF g = h THEN r ELSE q[g]
<1> DEFINE p == [q EXCEPT ![h] = r]
<1>1. Len(q) \in Nat /\ DOMAIN q = 1..Len(q) /\ \A g \in DOMAIN q : q[g] \in S
  BY HeapFacts
<1>2. p \in [1..Len(q) -> T]
  BY <1>1
<1>3. p \in Seq(T)
  BY <1>1, <1>2
<1>4. Len(p) = Len(q)
  BY <1>1, <1>2, <1>3
<1> QED BY <1>1, <1>3, <1>4

\* A new object at the end of the heap q.
LEMMA HeapAppend ==
  ASSUME NEW S, NEW q \in Seq(S), NEW r \in S
  PROVE  /\ Append(q, r) \in Seq(S)
         /\ Len(Append(q, r)) = Len(q) + 1
         /\ DOMAIN Append(q, r) = DOMAIN q \cup {Len(q) + 1}
         /\ \A g \in DOMAIN q : Append(q, r)[g] = q[g]
         /\ Append(q, r)[Len(q) + 1] = r
<1>1. Len(q) \in Nat /\ DOMAIN q = 1..Len(q)
  BY HeapFacts
<1> QED BY <1>1

\* TypeInv as the provers use it.
LEMMA TypeFacts ==
  ASSUME TypeInv
  PROVE  /\ Len(heap) \in Nat /\ DOMAIN heap = 1..Len(heap)
         /\ \A h \in DOMAIN heap : heap[h] \in Object
BY HeapFacts DEF TypeInv

LEMMA InitIInv == Init => IInv
<1> SUFFICES ASSUME Init PROVE IInv
  OBVIOUS
<1>1. Len(heap) = 0 /\ DOMAIN heap = {}
  BY DEF Init
<1>2. TypeInv
  <2>1. 0 \in 0..MaxRevision
    BY BoundAssumption
  <2> QED BY <2>1 DEF Init, TypeInv, Idle, Run
<1>3. HandleInv
  BY <1>1 DEF Init, HandleInv, Live, InTurn, Idle
<1>4. RevisionInv /\ SafeInv
  BY <1>1 DEF Init, RevisionInv, SafeInv, At, Idle
<1>5. LostOnlyWhileDisposing
  BY DEF Init, LostOnlyWhileDisposing
<1> QED BY <1>2, <1>3, <1>4, <1>5 DEF IInv

-----------------------------------------------------------------------------
(* The calls that leave the objects and the files alone. *)

\* What was accepted is kept when no object is dropped, cleaned or cut down
\* that is dirty and not safe.
LEMMA Keeps ==
  ASSUME IInv, Recorded \subseteq Recorded', DOMAIN heap \subseteq DOMAIN heap',
         \A h \in DOMAIN heap :
           Held(h) /\ heap[h].dirty =>
             \/ Held(h)' /\ heap'[h].dirty /\ heap[h].data \subseteq heap'[h].data
             \/ heap[h].data \subseteq Recorded'
  PROVE  accepted \subseteq Kept' \cup failed' \cup raced'
<1> SUFFICES ASSUME NEW x \in accepted
             PROVE  x \in Kept' \cup failed' \cup raced'
  OBVIOUS
<1>1. Recorded' \subseteq Kept' \cup failed' \cup raced'
  BY DEF Recorded, Kept
<1>2. x \in Kept \cup failed \cup raced
  BY DEF IInv, LostOnlyWhileDisposing
<1>3. CASE x \in Recorded
  BY <1>1, <1>3
<1>4. CASE \E h \in DOMAIN heap : Held(h) /\ heap[h].dirty /\ x \in heap[h].data
  <2>1. PICK h \in DOMAIN heap : Held(h) /\ heap[h].dirty /\ x \in heap[h].data
    BY <1>4
  <2>2. CASE Held(h)' /\ heap'[h].dirty /\ heap[h].data \subseteq heap'[h].data
    <3>1. h \in {g \in DOMAIN heap' : Held(g)' /\ heap'[g].dirty}
      BY <2>1, <2>2
    <3>2. x \in heap'[h].data
      BY <2>1, <2>2
    <3> QED BY <3>1, <3>2, Zenon DEF Kept
  <2>3. CASE heap[h].data \subseteq Recorded'
    BY <1>1, <2>1, <2>3
  <2> QED BY <2>1, <2>2, <2>3
<1>5. \/ x \in Recorded
      \/ x \in UNION {heap[h].data : h \in {g \in DOMAIN heap : Held(g) /\ heap[g].dirty}}
  BY <1>2 DEF Kept, Recorded
<1> QED BY <1>5, <1>3, <1>4

LEMMA KeptStays ==
  ASSUME IInv, UNCHANGED <<heap, disk, accepted>>,
         failed \subseteq failed', raced \subseteq raced',
         \A h \in DOMAIN heap :
           Held(h) /\ heap[h].dirty => Held(h)' \/ heap[h].data \subseteq Recorded'
  PROVE  LostOnlyWhileDisposing'
<1>1. Recorded \subseteq Recorded'
  BY DEF Recorded
<1> QED BY <1>1, Keeps DEF LostOnlyWhileDisposing

LEMMA StartAttemptIInv ==
  ASSUME IInv, NEW s \in Sessions, StartAttempt(s)
  PROVE  IInv'
<1> USE DEF IInv, StartAttempt, Goto, manifestVars
<1>1. TypeInv'
  BY DEF TypeInv, Run, Object
<1>2. /\ UNCHANGED <<sessions, heap, commits, disk, accepted, failed, raced>>
      /\ \A t \in Sessions \ {s} : host'[t] = host[t]
      /\ host'[s].h = host[s].h /\ host'[s].pc \in {"running", "loading"}
      /\ host[s].pc \in {"running", "idle"}
  BY DEF TypeInv, Run, At
<1>3. HandleInv'
  BY <1>2 DEF TypeInv, HandleInv, InTurn, At, Live, Call
<1>4. RevisionInv'
  BY <1>2 DEF RevisionInv, Extends
<1>5. SafeInv'
  BY <1>2 DEF SafeInv, Safe, Recorded, At, Live
<1>6. LostOnlyWhileDisposing'
  <2>1. \A h : Held(h) => Held(h)'
    BY <1>2 DEF Held
  <2> QED BY <1>2, <2>1, KeptStays
<1> QED BY <1>1, <1>3, <1>4, <1>5, <1>6

LEMMA BootstrapFailsIInv ==
  ASSUME IInv, NEW s \in Sessions, BootstrapFails(s)
  PROVE  IInv'
<1> USE DEF IInv, BootstrapFails, Return, Running, Idle, manifestVars
<1>1. TypeInv'
  BY DEF TypeInv, Run, Object
<1>2. /\ UNCHANGED <<sessions, heap, commits, disk, accepted, failed, raced>>
      /\ \A t \in Sessions \ {s} : host'[t] = host[t]
      /\ host'[s].h = 0 /\ host'[s].pc = "running" /\ host[s].pc = "loading"
  BY DEF TypeInv, Run, At
<1>3. HandleInv'
  BY <1>2, TypeFacts DEF TypeInv, HandleInv, InTurn, At, Live, Call
<1>4. RevisionInv'
  BY <1>2 DEF RevisionInv, Extends
<1>5. SafeInv'
  BY <1>2 DEF SafeInv, Safe, Recorded, At, Live
<1>6. LostOnlyWhileDisposing'
  <2>1. \A h : Held(h) => Held(h)'
    BY <1>2 DEF Held
  <2> QED BY <1>2, <2>1, KeptStays
<1> QED BY <1>1, <1>3, <1>4, <1>5, <1>6

LEMMA AfterTurnIInv ==
  ASSUME IInv, NEW s \in Sessions, NEW n \in 0..MaxOffloads, AfterTurn(s, n)
  PROVE  IInv'
<1> USE DEF IInv, AfterTurn, manifestVars
<1>1. TypeInv'
  BY BoundAssumption DEF TypeInv, Run, Object
<1>2. /\ UNCHANGED <<sessions, heap, commits, disk, accepted, failed, raced>>
      /\ \A t \in Sessions \ {s} : host'[t] = host[t]
      /\ host'[s].h = sessions[s] /\ host'[s].pc = "storing"
      /\ host[s].pc = "running" /\ Live(s)
  BY DEF TypeInv, Run, At
<1>3. HandleInv'
  BY <1>2, TypeFacts DEF TypeInv, HandleInv, InTurn, At, Live, Call
<1>4. RevisionInv'
  BY <1>2 DEF RevisionInv, Extends
<1>5. SafeInv'
  BY <1>2 DEF SafeInv, Safe, Recorded, At, Live
<1>6. LostOnlyWhileDisposing'
  <2>1. \A h : Held(h) => Held(h)'
    BY <1>2 DEF Held
  <2> QED BY <1>2, <2>1, KeptStays
<1> QED BY <1>1, <1>3, <1>4, <1>5, <1>6

\* A clean object whose turn ends is safe; a dirty one is held by its commit.
LEMMA CompleteTurnIInv ==
  ASSUME IInv, NEW s \in Sessions, CompleteTurn(s)
  PROVE  IInv'
<1> USE DEF IInv, CompleteTurn, manifestVars
<1> DEFINE h == host[s].h
           c == CommitOf(s, h)
<1>1. /\ UNCHANGED <<sessions, heap, disk, accepted, failed, raced>>
      /\ At(s, "storing") /\ h \in DOMAIN heap /\ heap[h].of = s /\ heap[h] \in Object
  BY TypeFacts DEF HandleInv, InTurn, At
<1>2. CASE heap[h].dirty
  <2>1. /\ commits' = commits \cup {c}
        /\ host' = [host EXCEPT ![s].pc = "committing"]
    BY <1>2 DEF Goto
  <2>2. /\ \A t \in Sessions \ {s} : host'[t] = host[t]
        /\ host'[s].h = h /\ host'[s].pc = "committing"
    BY <2>1 DEF TypeInv, Run
  <2>3. c \in Call /\ c.by = s /\ c.on = h /\ c.expected = heap[h].rev /\ c.st = "check"
    BY <1>1, TypeFacts DEF CommitOf, Call, Object
  <2>4. TypeInv'
    BY <1>1, <2>1, <2>3 DEF TypeInv, Run, Object, Call
  <2> HIDE DEF c
  <2>5. HandleInv'
    BY <1>1, <2>1, <2>2, <2>3, TypeFacts DEF TypeInv, HandleInv, InTurn, At, Live, Call
  <2>6. RevisionInv'
    BY <1>1, <2>1, <2>3 DEF RevisionInv, Extends
  <2>7. SafeInv'
    BY <1>1, <2>1, <2>2, <2>3 DEF SafeInv, Safe, Recorded, At, Live
  <2>8. LostOnlyWhileDisposing'
    <3>1. \A g : Held(g) => Held(g)'
      BY <1>1, <2>1, <2>2 DEF Held, At
    <3> QED BY <1>1, <3>1, KeptStays
  <2> QED BY <2>4, <2>5, <2>6, <2>7, <2>8
<1>3. CASE ~ heap[h].dirty
  <2>1. UNCHANGED commits /\ host' = [host EXCEPT ![s] = Running]
    BY <1>3 DEF Return
  <2>2. /\ \A t \in Sessions \ {s} : host'[t] = host[t]
        /\ host'[s].h = 0 /\ host'[s].pc = "running"
    BY <2>1 DEF TypeInv, Run, Running, Idle
  <2>3. TypeInv'
    BY <1>1, <2>1 DEF TypeInv, Run, Object, Call, Running, Idle
  <2>4. HandleInv'
    BY <1>1, <2>1, <2>2, TypeFacts DEF TypeInv, HandleInv, InTurn, At, Live, Call
  <2>5. RevisionInv'
    BY <1>1, <2>1 DEF RevisionInv, Extends
  <2>6. SafeInv'
    BY <1>1, <2>1, <2>2 DEF SafeInv, Safe, Recorded, At, Live
  <2>7. LostOnlyWhileDisposing'
    <3>1. \A g : Held(g) /\ g # h => Held(g)'
      BY <1>1, <2>1, <2>2 DEF Held, At
    <3> QED BY <1>1, <1>3, <3>1, KeptStays
  <2> QED BY <2>3, <2>4, <2>5, <2>6, <2>7
<1> QED BY <1>2, <1>3

\* Every dirty object of the map has a commit of the dispose; a clean one is safe.
LEMMA DisposeIInv ==
  ASSUME IInv, NEW s \in Sessions, Dispose(s)
  PROVE  IInv'
<1> USE DEF IInv, Dispose, manifestVars
<1> DEFINE D == {h \in {sessions[t] : t \in Sessions} \ {0} : heap[h].dirty}
<1>1. /\ UNCHANGED <<sessions, heap, disk, accepted, failed, raced>>
      /\ At(s, "running")
      /\ commits' = commits \cup {CommitOf(s, h) : h \in D}
      /\ \A t \in Sessions \ {s} : host'[t] = host[t]
      /\ host'[s].h = host[s].h /\ host'[s].pc = "disposing"
  BY DEF TypeInv, Run, Goto
<1>2. \A h \in D : h \in DOMAIN heap /\ heap[h] \in Object
  BY TypeFacts DEF HandleInv, Live
<1>3. \A t \in Sessions : Live(t) => sessions[t] \in D \/ Safe(sessions[t])
  BY DEF HandleInv, Live, SafeInv
<1> HIDE DEF D
<1>4. \A c \in commits' \ commits : /\ c \in Call /\ c.by = s /\ c.on \in DOMAIN heap
                                   /\ c.expected = heap[c.on].rev /\ c.st = "check"
  <2> SUFFICES ASSUME NEW c \in commits' \ commits
               PROVE  /\ c \in Call /\ c.by = s /\ c.on \in DOMAIN heap
                      /\ c.expected = heap[c.on].rev /\ c.st = "check"
    OBVIOUS
  <2>1. PICK h \in D : c = CommitOf(s, h)
    BY <1>1
  <2> QED BY <1>2, <2>1, TypeFacts DEF CommitOf, Call, Object
<1>5. \A h \in D : \E c \in commits' : c.by = s /\ c.on = h
  <2> TAKE h \in D
  <2>1. CommitOf(s, h).by = s /\ CommitOf(s, h).on = h
    BY DEF CommitOf
  <2>2. CommitOf(s, h) \in commits'
    BY <1>1
  <2> QED BY <2>1, <2>2
<1>6. TypeInv'
  <2>1. host' \in [Sessions -> Run]
    BY DEF TypeInv, Run, Goto
  <2> QED BY <1>1, <1>4, <2>1 DEF TypeInv, Object, Call
<1>7. HandleInv'
  <2>1. \A t \in Sessions : /\ Live(t)' = Live(t)
                            /\ InTurn(t)' => InTurn(t) /\ host'[t].h = host[t].h
                            /\ host'[t].h = host[t].h
                            /\ At(t, "loading")' => At(t, "loading")
    BY <1>1 DEF Live, InTurn, At
  <2>2. ASSUME NEW c \in commits'
        PROVE  /\ c.on \in DOMAIN heap
               /\ \/ At(c.by, "disposing")'
                  \/ At(c.by, "committing")' /\ host'[c.by].h = c.on
    <3>1. CASE c \in commits
      <4>1. /\ c.by \in Sessions /\ c.on \in DOMAIN heap
            /\ \/ host[c.by].pc = "disposing"
               \/ host[c.by].pc = "committing" /\ host[c.by].h = c.on
        BY <3>1 DEF HandleInv, At, TypeInv, Call
      <4> QED BY <1>1, <4>1 DEF At
    <3>2. CASE c \notin commits
      BY <1>1, <1>4, <3>2 DEF At
    <3> QED BY <3>1, <3>2
  <2>3. \A c, d \in commits' : At(c.by, "committing")' /\ d.by = c.by => d = c
    <3>1. \A c \in commits' : c.by # s => c \in commits /\ c.by \in Sessions
      BY <1>4 DEF TypeInv, Call
    <3> QED BY <1>1, <3>1 DEF HandleInv, At
  <2> QED BY <1>1, <2>1, <2>2, <2>3 DEF HandleInv
<1>8. RevisionInv'
  BY <1>1, <1>4 DEF RevisionInv, Extends
<1>9. SafeInv'
  <2>1. \A h : Safe(h)' = Safe(h)
    BY <1>1 DEF Safe, Recorded
  <2>2. \A c \in commits' : c.st = "written" => c \in commits
    BY <1>4
  <2>3. commits \subseteq commits'
    BY <1>1
  <2> QED BY <1>1, <1>3, <1>5, <2>1, <2>2, <2>3 DEF SafeInv, At, Live
<1>10. LostOnlyWhileDisposing'
  <2>1. \A g : Held(g) => Held(g)'
    BY <1>1 DEF Held, At
  <2> QED BY <1>1, <2>1, KeptStays
<1> QED BY <1>6, <1>7, <1>8, <1>9, <1>10

\* The objects the map drops are safe, because the dispose commits no more.
LEMMA ClearIInv ==
  ASSUME IInv, NEW s \in Sessions, Clear(s)
  PROVE  IInv'
<1> USE DEF IInv, Clear, manifestVars
<1>1. /\ UNCHANGED <<heap, commits, disk, accepted, failed, raced>>
      /\ \A t \in Sessions : sessions'[t] = 0
      /\ \A t \in Sessions \ {s} : host'[t] = host[t]
      /\ host'[s].h = 0 /\ host'[s].pc = "idle" /\ host[s].pc = "disposing"
      /\ \A c \in commits : c.by # s
  BY DEF TypeInv, Run, At, Idle
<1>2. TypeInv'
  BY DEF TypeInv, Run, Object, Idle
<1>3. HandleInv'
  BY <1>1, TypeFacts DEF TypeInv, HandleInv, InTurn, At, Live, Call
<1>4. RevisionInv'
  BY <1>1 DEF RevisionInv, Extends
<1>5. SafeInv'
  BY <1>1 DEF SafeInv, Safe, Recorded, At, Live
<1>6. LostOnlyWhileDisposing'
  <2>1. \A t \in Sessions : Live(t) => Safe(sessions[t])
    BY <1>1 DEF SafeInv, At
  <2>2. \A h : Safe(h) => heap[h].data \subseteq Recorded'
    BY <1>1 DEF Safe, Recorded
  <2>3. \A h \in DOMAIN heap : Held(h) => Held(h)' \/ Safe(h)
    BY <1>1, <2>1, TypeFacts DEF Held, Live
  <2> QED BY <1>1, <2>2, <2>3, KeptStays
<1> QED BY <1>2, <1>3, <1>4, <1>5, <1>6

-----------------------------------------------------------------------------
(* The calls that add an object, and the writes of another process. *)

LEMMA FinishBootstrapIInv ==
  ASSUME IInv, NEW s \in Sessions, FinishBootstrap(s)
  PROVE  IInv'
<1> USE DEF IInv
<1> PICK n : n = Len(heap) + 1
  OBVIOUS
<1> PICK o : o = [of |-> s, data |-> disk[s].data, rev |-> disk[s].rev, dirty |-> FALSE]
  OBVIOUS
<1>1. /\ UNCHANGED <<commits, disk, accepted, failed, raced>>
      /\ host[s].pc = "loading" /\ heap' = Append(heap, o)
      /\ sessions' = [sessions EXCEPT ![s] = Len(heap')]
      /\ host' = [host EXCEPT ![s] = Running]
  BY DEF FinishBootstrap, manifestVars, Return, At
<1>2. o \in Object
  BY DEF TypeInv, Object
<1>3. /\ heap' \in Seq(Object) /\ Len(heap') = n /\ DOMAIN heap' = DOMAIN heap \cup {n}
      /\ \A h \in DOMAIN heap : heap'[h] = heap[h]
      /\ heap'[n] = o /\ n \notin DOMAIN heap /\ n \in Nat \ {0}
  BY <1>1, <1>2, HeapAppend, TypeFacts DEF TypeInv
<1>4. /\ \A t \in Sessions \ {s} : host'[t] = host[t] /\ sessions'[t] = sessions[t]
      /\ host'[s].h = 0 /\ host'[s].pc = "running" /\ sessions'[s] = n
  BY <1>1, <1>3 DEF TypeInv, Running, Idle
<1>5. TypeInv'
  BY <1>1, <1>3 DEF TypeInv, Run, Object, Running, Idle
<1>6. o.of = s /\ o.data = disk[s].data /\ o.rev = disk[s].rev /\ ~ o.dirty
  OBVIOUS
<1>7. HandleInv'
  <2>1. \A t \in Sessions :
          /\ Live(t)' => sessions'[t] \in DOMAIN heap' /\ heap'[sessions'[t]].of = t
          /\ InTurn(t)' => host'[t].h \in DOMAIN heap' /\ heap'[host'[t].h].of = t
    BY <1>3, <1>4, <1>6 DEF HandleInv, Live, InTurn
  <2>2. \A t \in Sessions : /\ host'[t].h \in 0..Len(heap')
                            /\ At(t, "loading")' => ~ Live(t)'
    BY <1>3, <1>4, TypeFacts DEF HandleInv, At, Live
  <2>3. ASSUME NEW c \in commits
        PROVE  /\ c.on \in DOMAIN heap'
               /\ \/ At(c.by, "disposing")'
                  \/ At(c.by, "committing")' /\ host'[c.by].h = c.on
    <3>1. c.by # s /\ c.by \in Sessions
      BY <1>1 DEF HandleInv, At, TypeInv, Call
    <3> QED BY <1>3, <1>4, <3>1 DEF HandleInv, At
  <2>4. \A c, d \in commits : At(c.by, "committing")' /\ d.by = c.by => d = c
    BY <1>1, <1>4 DEF HandleInv, At, TypeInv, Call
  <2> QED BY <1>1, <2>1, <2>2, <2>3, <2>4 DEF HandleInv
<1>8. \A c \in commits : c.on \in DOMAIN heap
  BY DEF HandleInv
<1>9. RevisionInv'
  BY <1>1, <1>3, <1>6, <1>8, TypeFacts DEF RevisionInv, Extends, TypeInv
<1>10. Recorded' = Recorded /\ \A h \in DOMAIN heap : Safe(h)' = Safe(h)
  BY <1>1, <1>3 DEF Safe, Recorded
<1>11. SafeInv'
  <2>1. Safe(n)'
    BY <1>1, <1>3, <1>6 DEF Safe, Recorded
  <2>2. \A h \in DOMAIN heap' : heap'[h].dirty \/ Safe(h)'
    BY <1>3, <1>10, <2>1 DEF SafeInv
  <2>3. \A c \in commits' : c.st = "written" => Safe(c.on)'
    BY <1>1, <1>8, <1>10 DEF SafeInv
  <2>4. ASSUME NEW r \in Sessions, NEW t \in Sessions, At(r, "disposing")', Live(t)'
        PROVE  (Safe(sessions[t]) \/ \E c \in commits : c.by = r /\ c.on = sessions[t])'
    <3>1. r # s /\ At(r, "disposing")
      BY <1>4, <2>4 DEF At
    <3>2. CASE t = s
      BY <1>4, <2>1, <3>2
    <3>3. CASE t # s
      BY <1>1, <1>4, <1>10, <2>4, <3>1, <3>3 DEF SafeInv, Live, HandleInv
    <3> QED BY <3>2, <3>3
  <2> QED BY <2>2, <2>3, <2>4 DEF SafeInv
<1>12. LostOnlyWhileDisposing'
  <2>1. ASSUME NEW h \in DOMAIN heap, Held(h), heap[h].dirty
        PROVE  Held(h)' \/ Safe(h)
    <3>1. sessions[s] # h
      BY <1>1, TypeFacts DEF HandleInv, At, Live
    <3> QED BY <1>1, <1>4, <2>1, <3>1 DEF Held
  <2> QED BY <1>1, <1>3, <1>10, <2>1, Keeps DEF LostOnlyWhileDisposing, Safe
<1> QED BY <1>5, <1>7, <1>9, <1>11, <1>12

LEMMA OtherProcessIInv ==
  ASSUME IInv, NEW s \in Sessions, OtherProcess(s)
  PROVE  IInv'
<1> USE DEF IInv
<1>1. /\ UNCHANGED <<sessions, heap, host, commits, accepted, failed, raced>>
      /\ \A t \in Sessions : /\ disk'[t].data = disk[t].data
                             /\ disk'[t].rev \in Nat /\ disk[t].rev \in Nat
                             /\ disk'[t].rev = IF t = s THEN disk[t].rev + 1 ELSE disk[t].rev
      /\ TypeInv'
  <2>1. MaxRevision \in Nat
    BY BoundAssumption
  <2>2. disk[s].rev + 1 \in 0..MaxRevision
    BY <2>1 DEF OtherProcess, TypeInv
  <2>3. UNCHANGED <<sessions, heap, host, commits, accepted, failed, raced>>
    BY DEF OtherProcess
  <2>4. /\ disk' = [disk EXCEPT ![s].rev = @ + 1]
        /\ disk \in [Sessions -> [rev : 0..MaxRevision, data : SUBSET accepted]]
    BY DEF OtherProcess, TypeInv
  <2>5. disk' \in [Sessions -> [rev : 0..MaxRevision, data : SUBSET accepted]]
    BY <2>2, <2>4
  <2>6. TypeInv'
    BY <2>3, <2>5 DEF TypeInv, Object
  <2> QED BY <2>1, <2>3, <2>4, <2>6
<1>2. HandleInv'
  BY <1>1 DEF HandleInv, InTurn, At, Live
<1>3. RevisionInv'
  <2>1. /\ \A h \in DOMAIN heap : heap[h].of \in Sessions /\ heap[h].rev \in Nat
        /\ \A c \in commits : c.on \in DOMAIN heap /\ c.expected \in Nat
    <3>1. MaxRevision \in Nat
      BY BoundAssumption
    <3> QED BY TypeFacts, <3>1 DEF Object, TypeInv, Call, HandleInv
  <2>2. ASSUME NEW d, NEW r \in Nat, NEW t \in Sessions, Extends(d, r, t)
        PROVE  Extends(d, r, t)'
    BY <1>1, <2>2 DEF Extends
  <2>3. \A h \in DOMAIN heap : Extends(heap[h].data, heap[h].rev, heap[h].of)'
    BY <1>1, <2>1, <2>2 DEF RevisionInv, Extends
  <2>4. \A c \in commits :
          Extends(heap[c.on].data, IF c.st = "check" THEN c.expected ELSE c.expected + 1,
                  heap[c.on].of)'
    BY <1>1, <2>1, <2>2 DEF RevisionInv, Extends
  <2> QED BY <1>1, <2>3, <2>4 DEF RevisionInv
<1>4. Recorded' = Recorded
  BY <1>1 DEF Recorded
<1>5. SafeInv'
  BY <1>1, <1>4 DEF SafeInv, Safe, At, Live
<1>6. LostOnlyWhileDisposing'
  <2>1. \A h \in DOMAIN heap : Held(h) => Held(h)'
    BY <1>1 DEF Held
  <2> QED BY <1>1, <1>4, <2>1, Keeps DEF LostOnlyWhileDisposing
<1> QED BY <1>1, <1>2, <1>3, <1>5, <1>6

-----------------------------------------------------------------------------
(* Mutations. *)

\* A mutation of an object whose session neither commits it nor disposes: a
\* commit of it that is in progress belongs to the dispose of another session.
LEMMA MutateIInv ==
  ASSUME IInv, NEW s \in Sessions, NEW h \in DOMAIN heap, Mutate(h),
         heap[h].of = s, Held(h), host[s].pc \in {"running", "storing"},
         UNCHANGED <<sessions, commits>>, host' \in [Sessions -> Run],
         \A t \in Sessions : host'[t].pc = host[t].pc /\ host'[t].h = host[t].h
  PROVE  IInv'
<1> USE DEF IInv
<1> PICK x : x = Cardinality(accepted) + 1
  OBVIOUS
<1> PICK o : o = [heap[h] EXCEPT !.data = @ \cup {x}, !.dirty = TRUE]
  OBVIOUS
<1>1. heap[h] \in Object
  BY TypeFacts
<1>2. /\ heap' = [heap EXCEPT ![h] = o]
      /\ accepted' = accepted \cup {x}
      /\ raced' = IF Disposing THEN raced \cup {x} ELSE raced
      /\ UNCHANGED <<disk, failed>>
  BY <1>1 DEF Mutate, Object
<1>3. /\ o \in Object' /\ o.data = heap[h].data \cup {x} /\ o.dirty = TRUE
      /\ o.of = s /\ o.rev = heap[h].rev
  BY <1>1, <1>2 DEF Object
<1>4. Object \subseteq Object'
  BY <1>2 DEF Object
<1>5. /\ heap' \in Seq(Object') /\ Len(heap') = Len(heap) /\ DOMAIN heap' = DOMAIN heap
      /\ \A g \in DOMAIN heap : heap'[g] = IF g = h THEN o ELSE heap[g]
  BY <1>2, <1>3, <1>4, HeapUpdate DEF TypeInv
<1>6. \A g \in DOMAIN heap : /\ heap[g].data \subseteq heap'[g].data
                             /\ heap'[g].of = heap[g].of /\ heap'[g].rev = heap[g].rev
                             /\ heap[g].dirty => heap'[g].dirty
                             /\ g # h => heap'[g] = heap[g]
  BY <1>1, <1>3, <1>5
<1>7. TypeInv'
  BY <1>2, <1>5 DEF TypeInv, Object
<1>8. HandleInv'
  <2>1. \A t \in Sessions :
          /\ Live(t)' => sessions'[t] \in DOMAIN heap' /\ heap'[sessions'[t]].of = t
          /\ InTurn(t)' => host'[t].h \in DOMAIN heap' /\ heap'[host'[t].h].of = t
          /\ host'[t].h \in 0..Len(heap')
          /\ At(t, "loading")' => ~ Live(t)'
    BY <1>5, <1>6 DEF HandleInv, InTurn, Live, At
  <2>2. \A c \in commits : /\ c.on \in DOMAIN heap'
                           /\ \/ At(c.by, "disposing")'
                              \/ At(c.by, "committing")' /\ host'[c.by].h = c.on
    BY <1>5 DEF HandleInv, At, Call, TypeInv
  <2>3. \A c, d \in commits : At(c.by, "committing")' /\ d.by = c.by => d = c
    BY DEF HandleInv, At, TypeInv, Call
  <2> QED BY <2>1, <2>2, <2>3 DEF HandleInv
<1>9. RevisionInv'
  BY <1>2, <1>5, <1>6 DEF RevisionInv, Extends, HandleInv
<1>10. /\ Recorded \subseteq Recorded'
       /\ Disposing => x \in Recorded'
       /\ \A g \in DOMAIN heap : g # h \/ Disposing => (Safe(g) => Safe(g)')
  <2>1. Recorded \subseteq Recorded' /\ (Disposing => x \in Recorded')
    BY <1>2 DEF Recorded
  <2> QED BY <1>3, <1>5, <2>1 DEF Safe
<1>11. \A t \in Sessions : At(t, "disposing")' => Disposing
  BY DEF At, Disposing
<1>12. SafeInv'
  <2>1. \A g \in DOMAIN heap' : heap'[g].dirty \/ Safe(g)'
    BY <1>3, <1>5, <1>6, <1>10 DEF SafeInv
  <2>2. ASSUME NEW c \in commits, c.st = "written"
        PROVE  Safe(c.on)'
    <3>1. c.on = h => Disposing
      <4>1. c.by \in Sessions /\ (At(c.by, "committing") => heap[host[c.by].h].of = c.by)
        BY DEF TypeInv, Call, HandleInv, InTurn, At
      <4> QED BY <4>1 DEF HandleInv, Disposing, At
    <3> QED BY <1>10, <2>2, <3>1 DEF SafeInv, HandleInv
  <2>3. \A r, t \in Sessions :
          At(r, "disposing")' /\ Live(t)'
            => Safe(sessions[t])' \/ \E c \in commits : c.by = r /\ c.on = sessions[t]
    BY <1>10, <1>11 DEF SafeInv, At, Live, HandleInv
  <2> QED BY <2>1, <2>2, <2>3 DEF SafeInv
<1>13. LostOnlyWhileDisposing'
  <2>1. \A g \in DOMAIN heap : Held(g) => Held(g)'
    BY DEF Held, At
  <2>2. accepted \subseteq Kept' \cup failed' \cup raced'
    <3>1. \A g \in DOMAIN heap :
            Held(g) /\ heap[g].dirty
              => Held(g)' /\ heap'[g].dirty /\ heap[g].data \subseteq heap'[g].data
      BY <1>6, <2>1
    <3>2. DOMAIN heap \subseteq DOMAIN heap' /\ Recorded \subseteq Recorded'
      BY <1>5, <1>10
    <3> QED BY <3>1, <3>2, Keeps
  <2>3. x \in Kept'
    <3>1. h \in {g \in DOMAIN heap' : Held(g)' /\ heap'[g].dirty}
      BY <1>3, <1>5, <2>1
    <3>2. x \in heap'[h].data
      BY <1>3, <1>5
    <3> QED BY <3>1, <3>2, Zenon DEF Kept
  <2> QED BY <1>2, <2>2, <2>3 DEF LostOnlyWhileDisposing
<1> QED BY <1>7, <1>8, <1>9, <1>12, <1>13

LEMMA AddFactIInv ==
  ASSUME IInv, NEW s \in Sessions, AddFact(s)
  PROVE  IInv'
<1>1. /\ sessions[s] \in DOMAIN heap /\ heap[sessions[s]].of = s
      /\ Held(sessions[s]) /\ host[s].pc = "running"
  BY DEF IInv, HandleInv, AddFact, Held, At
<1>2. host' \in [Sessions -> Run] /\ UNCHANGED <<sessions, host, commits>>
  BY DEF IInv, TypeInv, AddFact
<1> QED BY <1>1, <1>2, MutateIInv DEF AddFact

LEMMA StoreReferenceIInv ==
  ASSUME IInv, NEW s \in Sessions, StoreReference(s)
  PROVE  IInv'
<1>1. /\ host[s].h \in DOMAIN heap /\ heap[host[s].h].of = s
      /\ Held(host[s].h) /\ host[s].pc = "storing"
  BY DEF IInv, HandleInv, InTurn, StoreReference, Held, At
<1>2. /\ host' \in [Sessions -> Run] /\ UNCHANGED <<sessions, commits>>
      /\ \A t \in Sessions : host'[t].pc = host[t].pc /\ host'[t].h = host[t].h
  <2>1. host' = [host EXCEPT ![s].left = @ - 1] /\ host \in [Sessions -> Run]
    BY DEF IInv, TypeInv, StoreReference
  <2>2. host[s].left - 1 \in Nat
    BY DEF IInv, TypeInv, Run, StoreReference
  <2> QED BY <2>1, <2>2 DEF Run, StoreReference
<1>3. CASE Mutate(host[s].h)
  BY <1>1, <1>2, <1>3, MutateIInv
<1>4. CASE UNCHANGED <<heap, manifestVars>>
  <2> USE DEF IInv, manifestVars
  <2>1. TypeInv' /\ RevisionInv'
    BY <1>2, <1>4 DEF TypeInv, Object, RevisionInv, Extends
  <2>2. HandleInv'
    <3>1. \A c \in commits : c.by \in Sessions
      BY DEF TypeInv, Call
    <3>2. /\ UNCHANGED <<sessions, heap, commits>>
          /\ \A t \in Sessions : host'[t].pc = host[t].pc /\ host'[t].h = host[t].h
      BY <1>2, <1>4
    <3> QED BY <3>1, <3>2 DEF HandleInv, InTurn, At, Live
  <2>3. SafeInv'
    BY <1>2, <1>4 DEF SafeInv, Safe, Recorded, At, Live
  <2>4. LostOnlyWhileDisposing'
    <3>1. \A h : Held(h) => Held(h)'
      BY <1>2 DEF Held
    <3> QED BY <1>4, <3>1, KeptStays
  <2> QED BY <2>1, <2>2, <2>3, <2>4
<1> QED BY <1>3, <1>4 DEF StoreReference

-----------------------------------------------------------------------------
(* The steps of a commit. *)

\* The write of the file removes nothing from it: the file at the expected
\* revision has only what the object has.
LEMMA PublishIInv ==
  ASSUME IInv, NEW c \in commits, Publish(c)
  PROVE  IInv'
<1> USE DEF IInv
<1> PICK s : s = heap[c.on].of
  OBVIOUS
<1> PICK d : d = [c EXCEPT !.st = "written"]
  OBVIOUS
<1>1. /\ UNCHANGED <<sessions, heap, host, accepted, failed, raced>>
      /\ c.st = "check" /\ disk[s].rev = c.expected /\ disk[s].rev < MaxRevision
      /\ disk' = [disk EXCEPT ![s] = [rev |-> c.expected + 1, data |-> heap[c.on].data]]
      /\ commits' = (commits \ {c}) \cup {d}
  BY DEF Publish
<1>2. /\ c.on \in DOMAIN heap /\ heap[c.on] \in Object /\ s \in Sessions
      /\ c \in Call /\ c.expected \in Nat /\ MaxRevision \in Nat
  <2>1. MaxRevision \in Nat
    BY BoundAssumption
  <2>2. c.on \in DOMAIN heap
    BY DEF HandleInv
  <2>3. heap[c.on] \in Object
    BY <2>2, TypeFacts
  <2>4. c \in Call
    BY DEF TypeInv
  <2> QED BY <2>1, <2>2, <2>3, <2>4 DEF Object, Call
<1>3. /\ d \in Call /\ d.by = c.by /\ d.on = c.on /\ d.expected = c.expected
      /\ d.st = "written"
  BY <1>2 DEF Call
<1>4. /\ \A t \in Sessions \ {s} : disk'[t] = disk[t]
      /\ disk'[s].rev = c.expected + 1 /\ disk'[s].data = heap[c.on].data
      /\ disk[s].data \subseteq disk'[s].data
  BY <1>1, <1>2 DEF TypeInv, RevisionInv, Extends
<1>5. TypeInv'
  <2>1. c.expected + 1 \in 0..MaxRevision
    BY <1>1, <1>2
  <2>2. disk' \in [Sessions -> [rev : 0..MaxRevision, data : SUBSET accepted]]
    BY <1>1, <1>2, <2>1 DEF TypeInv, Object
  <2> QED BY <1>1, <1>3, <2>2 DEF TypeInv, Object
<1>6. HandleInv'
  <2>1. \A e \in commits' : e.by \in Sessions
    BY <1>1, <1>3 DEF TypeInv, Call
  <2>2. \A t \in Sessions :
          /\ Live(t)' = Live(t) /\ InTurn(t)' = InTurn(t)
          /\ At(t, "loading")' = At(t, "loading")
    BY <1>1 DEF Live, InTurn, At
  <2>3. \A e \in commits' : \E f \in commits : e.on = f.on /\ e.by = f.by
    BY <1>1, <1>3
  <2>4. ASSUME NEW e \in commits'
        PROVE  /\ e.on \in DOMAIN heap
               /\ \/ At(e.by, "disposing")'
                  \/ At(e.by, "committing")' /\ host[e.by].h = e.on
    <3>1. PICK f \in commits : e.on = f.on /\ e.by = f.by
      BY <2>3
    <3>2. /\ f.on \in DOMAIN heap
          /\ \/ At(f.by, "disposing")
             \/ At(f.by, "committing") /\ host[f.by].h = f.on
      BY DEF HandleInv
    <3> QED BY <1>1, <3>1, <3>2 DEF At
  <2>5. ASSUME NEW e \in commits', NEW f \in commits', At(e.by, "committing")', f.by = e.by
        PROVE  f = e
    <3>1. \A g, h \in commits : host[g.by].pc = "committing" /\ h.by = g.by => h = g
      BY DEF HandleInv, At
    <3>2. host[e.by].pc = "committing"
      BY <1>1, <2>5 DEF At
    <3> QED BY <1>1, <1>3, <2>5, <3>1, <3>2
  <2> QED BY <1>1, <2>2, <2>4, <2>5 DEF HandleInv
<1>7. RevisionInv'
  <2>1. ASSUME NEW t \in Sessions, NEW x, NEW r \in Nat, Extends(x, r, t)
        PROVE  Extends(x, r, t)'
    <3>1. CASE t = s
      BY <1>1, <1>2, <1>4, <2>1, <3>1 DEF Extends
    <3>2. CASE t # s
      BY <1>4, <2>1, <3>2 DEF Extends
    <3> QED BY <3>1, <3>2
  <2>2. /\ \A h \in DOMAIN heap : heap[h].of \in Sessions /\ heap[h].rev \in Nat
        /\ \A e \in commits : e.on \in DOMAIN heap /\ e.expected \in Nat
    <3>1. /\ \A h \in DOMAIN heap : heap[h] \in Object
          /\ commits \subseteq Call /\ \A e \in commits : e.on \in DOMAIN heap
      BY TypeFacts DEF TypeInv, HandleInv
    <3> QED BY <1>2, <3>1 DEF Object, Call
  <2>3. \A h \in DOMAIN heap : Extends(heap[h].data, heap[h].rev, heap[h].of)'
    BY <1>1, <2>1, <2>2 DEF RevisionInv, Extends
  <2>4. \A e \in commits :
          Extends(heap[e.on].data, IF e.st = "check" THEN e.expected ELSE e.expected + 1,
                  heap[e.on].of)'
    BY <1>1, <2>1, <2>2 DEF RevisionInv, Extends
  <2>5. Extends(heap[d.on].data, d.expected + 1, heap[d.on].of)'
    BY <1>1, <1>2, <1>3, <1>4 DEF Extends
  <2>6. \A e \in commits' :
          Extends(heap[e.on].data, IF e.st = "check" THEN e.expected ELSE e.expected + 1,
                  heap[e.on].of)'
    <3> TAKE e \in commits'
    <3>1. CASE e = d
      BY <1>3, <2>5, <3>1
    <3>2. CASE e \in commits
      BY <2>4, <3>2
    <3> QED BY <1>1, <3>1, <3>2
  <2> QED BY <1>1, <2>3, <2>6 DEF RevisionInv
<1>8. /\ Recorded \subseteq Recorded' /\ heap[c.on].data \subseteq Recorded'
  <2>1. \A t \in Sessions : disk[t].data \subseteq disk'[t].data
    BY <1>4
  <2> QED BY <1>1, <1>2, <1>4, <2>1 DEF Recorded
<1>9. SafeInv'
  <2>1. \A h : Safe(h) => Safe(h)'
    BY <1>1, <1>8 DEF Safe
  <2>2. Safe(c.on)'
    BY <1>1, <1>8 DEF Safe
  <2>3. ASSUME NEW r \in Sessions, NEW t \in Sessions, At(r, "disposing")', Live(t)'
        PROVE  (Safe(sessions[t]) \/ \E e \in commits : e.by = r /\ e.on = sessions[t])'
    <3>1. Safe(sessions[t]) \/ \E e \in commits : e.by = r /\ e.on = sessions[t]
      BY <1>1, <2>3 DEF SafeInv, At, Live
    <3>2. CASE Safe(sessions[t])
      BY <1>1, <2>1, <3>2
    <3>3. CASE \E e \in commits : e.by = r /\ e.on = sessions[t]
      BY <1>1, <1>3, <3>3
    <3> QED BY <3>1, <3>2, <3>3
  <2> QED BY <1>1, <1>3, <2>1, <2>2, <2>3 DEF SafeInv
<1>10. LostOnlyWhileDisposing'
  <2>1. \A h \in DOMAIN heap : Held(h) => Held(h)'
    BY <1>1, <1>3 DEF Held
  <2> QED BY <1>1, <1>8, <2>1, Keeps DEF LostOnlyWhileDisposing
<1> QED BY <1>5, <1>6, <1>7, <1>9, <1>10

\* What the end of a commit changes of the runs.
LEMMA EndsFacts ==
  ASSUME IInv, NEW c \in commits, NEW next \in {"running", "syncing"}, Ends(c, next)
  PROVE  /\ commits' = commits \ {c} /\ host' \in [Sessions -> Run]
         /\ c.by \in Sessions /\ c.on \in DOMAIN heap /\ heap[c.on] \in Object
         /\ \A t \in Sessions : t # c.by \/ At(t, "disposing") => host'[t] = host[t]
         /\ \/ At(c.by, "disposing")
            \/ /\ At(c.by, "committing") /\ host[c.by].h = c.on /\ heap[c.on].of = c.by
               /\ host'[c.by].pc = next
               /\ host'[c.by].h = IF next = "running" THEN 0 ELSE c.on
<1> USE DEF IInv
<1>1. c.by \in Sessions /\ c.on \in DOMAIN heap /\ heap[c.on] \in Object
  BY TypeFacts DEF TypeInv, Call, HandleInv
<1>2. CASE At(c.by, "disposing")
  BY <1>1, <1>2 DEF Ends, At, TypeInv
<1>3. CASE At(c.by, "committing") /\ host[c.by].h = c.on
  <2>1. heap[c.on].of = c.by
    BY <1>1, <1>3 DEF HandleInv, InTurn, At
  <2>2. CASE next = "running"
    BY <1>1, <1>3, <2>1, <2>2 DEF Ends, At, TypeInv, Run, Running, Idle
  <2>3. CASE next = "syncing"
    BY <1>1, <1>3, <2>1, <2>3 DEF Ends, At, TypeInv, Run, Running, Idle
  <2> QED BY <2>2, <2>3
<1> QED BY <1>1, <1>2, <1>3 DEF HandleInv

\* The runs refer to objects as before, and only the object of the commit may
\* have no run left that holds it.
LEMMA EndsHandles ==
  ASSUME IInv, NEW c \in commits, NEW next \in {"running", "syncing"}, Ends(c, next),
         UNCHANGED sessions, DOMAIN heap' = DOMAIN heap, Len(heap') = Len(heap),
         \A h \in DOMAIN heap : heap'[h].of = heap[h].of
  PROVE  /\ HandleInv'
         /\ \A h \in DOMAIN heap : Held(h) /\ h # c.on => Held(h)'
         /\ \A t \in Sessions : At(t, "disposing")' => At(t, "disposing")
<1> PICK r : r = c.by
  OBVIOUS
<1>1. /\ commits' = commits \ {c} /\ r \in Sessions /\ c.on \in DOMAIN heap
      /\ \A t \in Sessions \ {r} : host'[t] = host[t]
      /\ \/ host'[r] = host[r] /\ host[r].pc = "disposing"
         \/ /\ host[r].pc = "committing" /\ host[r].h = c.on /\ heap[c.on].of = r
            /\ \/ host'[r].pc = "running" /\ host'[r].h = 0
               \/ host'[r].pc = "syncing" /\ host'[r].h = c.on
  BY EndsFacts DEF At
<1>2. HandleInv'
  <2> USE DEF IInv
  <2>1. ASSUME NEW t \in Sessions
        PROVE  /\ Live(t)' => sessions'[t] \in DOMAIN heap' /\ heap'[sessions'[t]].of = t
               /\ InTurn(t)' => host'[t].h \in DOMAIN heap' /\ heap'[host'[t].h].of = t
               /\ host'[t].h \in 0..Len(heap')
               /\ At(t, "loading")' => ~ Live(t)'
    <3>1. /\ sessions[t] # 0 => sessions[t] \in DOMAIN heap /\ heap[sessions[t]].of = t
          /\ InTurn(t) => host[t].h \in DOMAIN heap /\ heap[host[t].h].of = t
          /\ host[t].h \in 0..Len(heap)
          /\ host[t].pc = "loading" => sessions[t] = 0
      BY DEF HandleInv, Live, At
    <3>2. 0 \in 0..Len(heap) /\ (c.on \in 0..Len(heap))
      BY <1>1, TypeFacts
    <3>3. CASE host'[t] = host[t]
      BY <3>1, <3>3 DEF Live, InTurn, At
    <3>4. CASE t = r /\ host'[r].pc = "running" /\ host'[r].h = 0
      BY <3>1, <3>2, <3>4 DEF Live, InTurn, At
    <3>5. CASE t = r /\ host'[r].pc = "syncing" /\ host'[r].h = c.on /\ heap[c.on].of = r
      BY <1>1, <3>1, <3>2, <3>5 DEF Live, InTurn, At
    <3> QED BY <1>1, <3>3, <3>4, <3>5
  <2>2. \A e \in commits' : host'[e.by] = host[e.by]
    <3>1. \A e, f \in commits : host[e.by].pc = "committing" /\ f.by = e.by => f = e
      BY DEF HandleInv, At
    <3>2. \A e \in commits : e.by \in Sessions
      BY DEF TypeInv, Call
    <3> QED BY <1>1, <3>1, <3>2
  <2>3. \A e \in commits : /\ e.on \in DOMAIN heap
                           /\ \/ host[e.by].pc = "disposing"
                              \/ host[e.by].pc = "committing" /\ host[e.by].h = e.on
    BY DEF HandleInv, At
  <2>4. \A e \in commits' : /\ e.on \in DOMAIN heap'
                            /\ \/ At(e.by, "disposing")'
                               \/ At(e.by, "committing")' /\ host'[e.by].h = e.on
    BY <1>1, <2>2, <2>3 DEF At
  <2>5. \A e, f \in commits' : At(e.by, "committing")' /\ f.by = e.by => f = e
    <3>1. \A e, f \in commits : host[e.by].pc = "committing" /\ f.by = e.by => f = e
      BY DEF HandleInv, At
    <3> QED BY <1>1, <2>2, <3>1 DEF At
  <2> QED BY <2>1, <2>4, <2>5 DEF HandleInv
<1>3. \A h \in DOMAIN heap : Held(h) /\ h # c.on => Held(h)'
  BY <1>1 DEF Held
<1>4. \A t \in Sessions : At(t, "disposing")' => At(t, "disposing")
  BY <1>1 DEF At
<1> QED BY <1>2, <1>3, <1>4

\* A commit that wrote nothing: its object stays, or its mutations are recorded
\* as failed.
LEMMA GivesUpIInv ==
  ASSUME IInv, NEW c \in commits, NEW next \in {"running", "syncing"},
         c.st = "check", Ends(c, next),
         failed' = IF NoRetry(c) THEN failed \cup heap[c.on].data ELSE failed,
         UNCHANGED <<sessions, heap, disk, accepted, raced>>
  PROVE  IInv'
<1>1. /\ commits' = commits \ {c} /\ host' \in [Sessions -> Run]
      /\ c.by \in Sessions /\ c.on \in DOMAIN heap /\ heap[c.on] \in Object
  BY EndsFacts
<1>2. /\ HandleInv'
      /\ \A h \in DOMAIN heap : Held(h) /\ h # c.on => Held(h)'
      /\ \A t \in Sessions : At(t, "disposing")' => At(t, "disposing")
  BY EndsHandles
<1> USE DEF IInv
<1>3. TypeInv'
  BY <1>1 DEF TypeInv, Object
<1>4. RevisionInv'
  BY <1>1 DEF RevisionInv, Extends
<1>5. /\ Recorded \subseteq Recorded'
      /\ NoRetry(c) => heap[c.on].data \subseteq Recorded'
      /\ \A h : Safe(h) => Safe(h)'
  BY DEF Recorded, Safe
<1>6. NoRetry(c) => Safe(c.on)'
  BY <1>5 DEF Safe
<1>7. SafeInv'
  <2>1. ASSUME NEW r \in Sessions, NEW t \in Sessions, At(r, "disposing")', Live(t)'
        PROVE  (Safe(sessions[t]) \/ \E e \in commits : e.by = r /\ e.on = sessions[t])'
    <3>1. At(r, "disposing")
      BY <1>2, <2>1
    <3>2. Safe(sessions[t]) \/ \E e \in commits : e.by = r /\ e.on = sessions[t]
      BY <2>1, <3>1 DEF SafeInv, Live
    <3>3. CASE Safe(sessions[t])
      BY <1>5, <3>3
    <3>4. CASE \E e \in commits : e.by = r /\ e.on = sessions[t]
      <4>1. PICK e \in commits : e.by = r /\ e.on = sessions[t]
        BY <3>4
      <4>2. CASE e = c
        BY <1>6, <3>1, <4>1, <4>2 DEF NoRetry
      <4> QED BY <1>1, <4>1, <4>2
    <3> QED BY <3>2, <3>3, <3>4
  <2> QED BY <1>1, <1>5, <2>1 DEF SafeInv
<1>8. LostOnlyWhileDisposing'
  <2>1. ~ NoRetry(c) => Held(c.on)'
    <3> SUFFICES ASSUME ~ NoRetry(c) PROVE Held(c.on)'
      OBVIOUS
    <3>1. sessions[heap[c.on].of] = c.on /\ heap[c.on].of \in Sessions
      BY <1>1 DEF NoRetry, Object
    <3> QED BY <3>1 DEF Held
  <2>2. \A h \in DOMAIN heap : Held(h) => Held(h)' \/ heap[h].data \subseteq Recorded'
    BY <1>2, <1>5, <2>1
  <2> QED BY <1>5, <2>2, KeptStays
<1> QED BY <1>2, <1>3, <1>4, <1>7, <1>8

LEMMA ConflictIInv ==
  ASSUME IInv, NEW c \in commits, Conflict(c)
  PROVE  IInv'
BY GivesUpIInv DEF Conflict

LEMMA CommitFailsIInv ==
  ASSUME IInv, NEW c \in commits, CommitFails(c)
  PROVE  IInv'
BY GivesUpIInv DEF CommitFails

\* The object is clean after its commit was written, and safe before.
LEMMA AdoptIInv ==
  ASSUME IInv, NEW c \in commits, Adopt(c)
  PROVE  IInv'
<1> PICK o : o = [heap[c.on] EXCEPT !.rev = c.expected + 1, !.dirty = FALSE]
  OBVIOUS
<1>1. /\ commits' = commits \ {c} /\ host' \in [Sessions -> Run]
      /\ c.by \in Sessions /\ c.on \in DOMAIN heap /\ heap[c.on] \in Object
  BY EndsFacts DEF Adopt
<1>2. /\ c.st = "written" /\ Ends(c, "running")
      /\ UNCHANGED <<sessions, disk, accepted, failed, raced>>
      /\ heap' = [heap EXCEPT ![c.on] = o]
  BY <1>1 DEF Adopt, manifestVars, Object
<1>3. Extends(heap[c.on].data, c.expected + 1, heap[c.on].of) /\ Safe(c.on)
  BY <1>2 DEF IInv, RevisionInv, SafeInv
<1>4. /\ o \in Object /\ o.data = heap[c.on].data /\ o.rev = c.expected + 1
      /\ o.of = heap[c.on].of /\ o.dirty = FALSE
  <2>1. c.expected + 1 \in 0..MaxRevision
    <3>1. MaxRevision \in Nat
      BY BoundAssumption
    <3>2. c.expected \in 0..MaxRevision /\ disk[heap[c.on].of].rev \in 0..MaxRevision
      BY <1>1 DEF IInv, TypeInv, Call, Object
    <3> QED BY <1>3, <3>1, <3>2 DEF Extends
  <2> QED BY <1>1, <2>1 DEF Object
<1>5. /\ heap' \in Seq(Object) /\ Len(heap') = Len(heap) /\ DOMAIN heap' = DOMAIN heap
      /\ \A g \in DOMAIN heap : heap'[g] = IF g = c.on THEN o ELSE heap[g]
  BY <1>1, <1>2, <1>4, HeapUpdate DEF IInv, TypeInv
<1>6. \A g \in DOMAIN heap : /\ heap'[g].data = heap[g].data /\ heap'[g].of = heap[g].of
                             /\ g # c.on => heap'[g] = heap[g]
  BY <1>4, <1>5
<1>7. /\ HandleInv'
      /\ \A h \in DOMAIN heap : Held(h) /\ h # c.on => Held(h)'
      /\ \A t \in Sessions : At(t, "disposing")' => At(t, "disposing")
  BY <1>2, <1>5, <1>6, EndsHandles
<1> USE DEF IInv
<1>8. TypeInv'
  BY <1>1, <1>2, <1>5 DEF TypeInv, Object
<1>9. RevisionInv'
  <2>1. ASSUME NEW h \in DOMAIN heap
        PROVE  Extends(heap[h].data, heap[h].rev, heap[h].of)'
    <3>1. CASE h = c.on
      BY <1>2, <1>3, <1>4, <1>5, <3>1 DEF Extends
    <3>2. CASE h # c.on
      <4>1. Extends(heap[h].data, heap[h].rev, heap[h].of)
        BY DEF RevisionInv
      <4> QED BY <1>2, <1>6, <3>2, <4>1 DEF Extends
    <3> QED BY <3>1, <3>2
  <2>2. ASSUME NEW e \in commits
        PROVE  Extends(heap[e.on].data, IF e.st = "check" THEN e.expected ELSE e.expected + 1,
                       heap[e.on].of)'
    <3>1. e.on \in DOMAIN heap
      BY DEF HandleInv
    <3>2. Extends(heap[e.on].data, IF e.st = "check" THEN e.expected ELSE e.expected + 1,
                  heap[e.on].of)
      BY DEF RevisionInv
    <3> QED BY <1>2, <1>6, <3>1, <3>2 DEF Extends
  <2> QED BY <1>1, <1>5, <2>1, <2>2 DEF RevisionInv
<1>10. Recorded' = Recorded /\ \A h \in DOMAIN heap : Safe(h)' = Safe(h)
  BY <1>2, <1>6 DEF Recorded, Safe
<1>11. SafeInv'
  <2>1. \A h \in DOMAIN heap' : heap'[h].dirty \/ Safe(h)'
    BY <1>3, <1>5, <1>10 DEF SafeInv
  <2>2. \A e \in commits' : e.st = "written" => Safe(e.on)'
    BY <1>1, <1>10 DEF SafeInv, HandleInv
  <2>3. ASSUME NEW r \in Sessions, NEW t \in Sessions, At(r, "disposing")', Live(t)'
        PROVE  (Safe(sessions[t]) \/ \E e \in commits : e.by = r /\ e.on = sessions[t])'
    <3>1. At(r, "disposing") /\ Live(t) /\ sessions[t] \in DOMAIN heap
      BY <1>2, <1>7, <2>3 DEF Live, HandleInv
    <3>2. Safe(sessions[t]) \/ \E e \in commits : e.by = r /\ e.on = sessions[t]
      BY <3>1 DEF SafeInv
    <3>3. CASE Safe(sessions[t])
      BY <1>2, <1>10, <3>1, <3>3
    <3>4. CASE \E e \in commits : e.by = r /\ e.on = sessions[t]
      BY <1>1, <1>2, <1>3, <1>10, <3>4
    <3> QED BY <3>2, <3>3, <3>4
  <2> QED BY <2>1, <2>2, <2>3 DEF SafeInv
<1>12. LostOnlyWhileDisposing'
  <2>1. \A h \in DOMAIN heap :
          Held(h) /\ heap[h].dirty =>
            \/ Held(h)' /\ heap'[h].dirty /\ heap[h].data \subseteq heap'[h].data
            \/ heap[h].data \subseteq Recorded'
    BY <1>3, <1>6, <1>7, <1>10 DEF Safe
  <2> QED BY <1>2, <1>5, <1>10, <2>1, Keeps DEF LostOnlyWhileDisposing
<1> QED BY <1>7, <1>8, <1>9, <1>11, <1>12

\* The working copy is the file's, and what it had is recorded as failed; or the
\* load failed, and the object stays or is recorded.
LEMMA SyncAndReplanIInv ==
  ASSUME IInv, NEW s \in Sessions, SyncAndReplan(s)
  PROVE  IInv'
<1> PICK h : h = host[s].h
  OBVIOUS
<1>1. /\ h \in DOMAIN heap /\ heap[h].of = s /\ heap[h] \in Object /\ host[s].pc = "syncing"
      /\ host' = [host EXCEPT ![s] = Running]
      /\ UNCHANGED <<sessions, commits, disk, accepted, raced>>
  BY TypeFacts DEF IInv, HandleInv, InTurn, SyncAndReplan, Return, At
<1>2. /\ host' \in [Sessions -> Run] /\ host'[s].h = 0 /\ host'[s].pc = "running"
      /\ \A t \in Sessions \ {s} : host'[t] = host[t]
  BY <1>1 DEF IInv, TypeInv, Run, Running, Idle
<1>3. \A c \in commits : c.by # s /\ c.by \in Sessions /\ c.on \in DOMAIN heap
  BY <1>1 DEF IInv, HandleInv, At, TypeInv, Call
<1>4. ASSUME DOMAIN heap' = DOMAIN heap, Len(heap') = Len(heap),
             \A g \in DOMAIN heap : heap'[g].of = heap[g].of
      PROVE  HandleInv'
  <2>1. 0 \in 0..Len(heap)
    BY TypeFacts DEF IInv
  <2>2. \A t \in Sessions :
          /\ Live(t)' => sessions'[t] \in DOMAIN heap' /\ heap'[sessions'[t]].of = t
          /\ InTurn(t)' => host'[t].h \in DOMAIN heap' /\ heap'[host'[t].h].of = t
          /\ host'[t].h \in 0..Len(heap')
          /\ At(t, "loading")' => ~ Live(t)'
    BY <1>1, <1>2, <1>4, <2>1 DEF IInv, HandleInv, Live, InTurn, At
  <2>3. \A c \in commits : host'[c.by] = host[c.by]
    BY <1>2, <1>3
  <2>4. \A c \in commits' : /\ c.on \in DOMAIN heap'
                            /\ \/ At(c.by, "disposing")'
                               \/ At(c.by, "committing")' /\ host'[c.by].h = c.on
    BY <1>1, <1>4, <2>3 DEF IInv, HandleInv, At
  <2>5. \A c, d \in commits' : At(c.by, "committing")' /\ d.by = c.by => d = c
    BY <1>1, <2>3 DEF IInv, HandleInv, At
  <2> QED BY <2>2, <2>4, <2>5 DEF HandleInv
<1>5. /\ \A t \in Sessions : At(t, "disposing")' => At(t, "disposing")
      /\ \A g : Held(g) /\ g # h => Held(g)'
      /\ sessions[s] = h => Held(h)'
  BY <1>1, <1>2 DEF At, Held
<1> USE DEF IInv
<1>6. CASE /\ heap' = [heap EXCEPT ![h].data = disk[s].data, ![h].rev = disk[s].rev,
                                   ![h].dirty = FALSE]
           /\ failed' = failed \cup heap[h].data
  <2> PICK o : o = [heap[h] EXCEPT !.data = disk[s].data, !.rev = disk[s].rev,
                                   !.dirty = FALSE]
    OBVIOUS
  <2>1. heap' = [heap EXCEPT ![h] = o]
    BY <1>1, <1>6 DEF Object
  <2>2. /\ o \in Object /\ o.data = disk[s].data /\ o.rev = disk[s].rev
        /\ o.of = s /\ o.dirty = FALSE
    BY <1>1 DEF Object, TypeInv
  <2>3. /\ heap' \in Seq(Object) /\ Len(heap') = Len(heap) /\ DOMAIN heap' = DOMAIN heap
        /\ \A g \in DOMAIN heap : heap'[g] = IF g = h THEN o ELSE heap[g]
    BY <1>1, <2>1, <2>2, HeapUpdate DEF TypeInv
  <2>4. TypeInv'
    BY <1>1, <1>2, <2>3 DEF TypeInv, Object
  <2>5. HandleInv'
    BY <1>1, <1>4, <2>2, <2>3
  <2>6. disk[s].rev \in Nat
    BY BoundAssumption DEF TypeInv
  <2>7. RevisionInv'
    <3>1. ASSUME NEW g \in DOMAIN heap
          PROVE  Extends(heap[g].data, heap[g].rev, heap[g].of)'
      <4>1. Extends(heap[g].data, heap[g].rev, heap[g].of)
        BY DEF RevisionInv
      <4>2. CASE g = h
        <5>1. /\ heap'[g].data = disk'[s].data /\ heap'[g].rev = disk'[s].rev
              /\ heap'[g].of = s /\ disk'[s].rev \in Nat
          BY <1>1, <2>2, <2>3, <2>6, <4>2
        <5> QED BY <5>1 DEF Extends
      <4>3. CASE g # h
        BY <1>1, <2>3, <4>1, <4>3 DEF Extends
      <4> QED BY <4>2, <4>3
    <3>2. ASSUME NEW e \in commits
          PROVE  Extends(heap[e.on].data,
                         IF e.st = "check" THEN e.expected ELSE e.expected + 1,
                         heap[e.on].of)'
      <4>1. Extends(heap[e.on].data,
                    IF e.st = "check" THEN e.expected ELSE e.expected + 1, heap[e.on].of)
        BY DEF RevisionInv
      <4> QED BY <1>1, <1>3, <2>2, <2>3, <4>1 DEF Extends
    <3> QED BY <1>1, <2>3, <3>1, <3>2 DEF RevisionInv
  <2>8. /\ Recorded \subseteq Recorded' /\ heap[h].data \subseteq Recorded'
        /\ disk[s].data \subseteq Recorded'
    BY <1>1, <1>6 DEF Recorded
  <2>9. \A g \in DOMAIN heap : (g = h \/ Safe(g)) => Safe(g)'
    BY <2>2, <2>3, <2>8 DEF Safe
  <2>10. SafeInv'
    BY <1>1, <1>3, <1>5, <2>3, <2>9 DEF SafeInv, Live, HandleInv
  <2>11. LostOnlyWhileDisposing'
    <3>1. \A g \in DOMAIN heap :
            Held(g) /\ heap[g].dirty =>
              \/ Held(g)' /\ heap'[g].dirty /\ heap[g].data \subseteq heap'[g].data
              \/ heap[g].data \subseteq Recorded'
      BY <1>5, <2>3, <2>8
    <3> QED BY <1>1, <2>3, <2>8, <3>1, Keeps DEF LostOnlyWhileDisposing
  <2> QED BY <2>4, <2>5, <2>7, <2>10, <2>11
<1>7. CASE /\ failed' = IF sessions[s] # h THEN failed \cup heap[h].data ELSE failed
           /\ UNCHANGED heap
  <2>1. TypeInv' /\ RevisionInv'
    BY <1>1, <1>2, <1>7 DEF TypeInv, Object, RevisionInv, Extends
  <2>2. HandleInv'
    BY <1>4, <1>7
  <2>3. /\ Recorded \subseteq Recorded' /\ \A g : Safe(g) => Safe(g)'
        /\ sessions[s] # h => heap[h].data \subseteq Recorded'
    BY <1>1, <1>7 DEF Recorded, Safe
  <2>4. SafeInv'
    BY <1>1, <1>5, <1>7, <2>3 DEF SafeInv, Live
  <2>5. LostOnlyWhileDisposing'
    <3>1. failed \subseteq failed' /\ UNCHANGED <<heap, disk, accepted, raced>>
      BY <1>1, <1>7
    <3>2. \A g \in DOMAIN heap :
            Held(g) /\ heap[g].dirty => Held(g)' \/ heap[g].data \subseteq Recorded'
      BY <1>5, <2>3
    <3> QED BY <3>1, <3>2, KeptStays
  <2> QED BY <2>1, <2>2, <2>4, <2>5
<1> QED BY <1>6, <1>7 DEF SyncAndReplan

-----------------------------------------------------------------------------
(* Theorems *)

LEMMA NextIInv == IInv /\ [Next]_vars => IInv'
<1> SUFFICES ASSUME IInv, [Next]_vars PROVE IInv'
  OBVIOUS
<1>1. ASSUME NEW s \in Sessions, StartAttempt(s) PROVE IInv'
  BY <1>1, StartAttemptIInv
<1>2. ASSUME NEW s \in Sessions, AddFact(s) PROVE IInv'
  BY <1>2, AddFactIInv
<1>3. ASSUME NEW s \in Sessions, Dispose(s) PROVE IInv'
  BY <1>3, DisposeIInv
<1>4. ASSUME NEW s \in Sessions, OtherProcess(s) PROVE IInv'
  BY <1>4, OtherProcessIInv
<1>5. ASSUME NEW s \in Sessions, Proceed(s) PROVE IInv'
  <2>1. ASSUME NEW c \in commits, CommitStep(c) PROVE IInv'
    BY <2>1, PublishIInv, ConflictIInv, CommitFailsIInv, AdoptIInv DEF CommitStep
  <2> QED BY <1>5, <2>1, StoreReferenceIInv, CompleteTurnIInv, SyncAndReplanIInv,
             ClearIInv, FinishBootstrapIInv, BootstrapFailsIInv DEF Proceed
<1>6. ASSUME NEW s \in Sessions, NEW n \in 0..MaxOffloads, AfterTurn(s, n) PROVE IInv'
  BY <1>6, AfterTurnIInv
<1>7. CASE UNCHANGED vars
  <2> USE DEF IInv
  <2>1. UNCHANGED <<sessions, heap, host, commits, disk, accepted, failed, raced>>
    BY <1>7 DEF vars
  <2>2. TypeInv' /\ HandleInv'
    BY <2>1 DEF TypeInv, Object, HandleInv, InTurn, Live, At
  <2>3. RevisionInv' /\ SafeInv'
    BY <2>1 DEF RevisionInv, Extends, SafeInv, Safe, Recorded, Live, At
  <2>4. LostOnlyWhileDisposing'
    <3>1. \A h : Held(h) => Held(h)'
      BY <2>1 DEF Held
    <3> QED BY <2>1, <3>1, KeptStays
  <2> QED BY <2>2, <2>3, <2>4
<1> QED BY <1>1, <1>2, <1>3, <1>4, <1>5, <1>6, <1>7 DEF Next

LEMMA Invariant == Spec => []IInv
BY InitIInv, NextIInv, PTL DEF Spec

\* The map, the runs and the commits in progress of every session refer to
\* existing objects, for any number of sessions, objects and mutations.
THEOREM SessionTypes == Spec => []TypeOK
<1>1. IInv => TypeOK
  <2> SUFFICES ASSUME IInv PROVE TypeOK
    OBVIOUS
  <2>1. \A h \in DOMAIN heap : heap[h] \in Object
    BY TypeFacts DEF IInv
  <2>2. sessions \in [Sessions -> 0..Len(heap)]
    BY TypeFacts DEF IInv, TypeInv, HandleInv, Live
  <2>3. commits \subseteq [by : Sessions, on : DOMAIN heap, expected : 0..MaxRevision,
                           st : {"check", "written"}]
    BY DEF IInv, TypeInv, HandleInv, Call
  <2>4. \A s \in Sessions : host[s] \in Run /\ host[s].h \in 0..Len(heap)
    BY DEF IInv, TypeInv, HandleInv
  <2> QED BY <2>1, <2>2, <2>3, <2>4 DEF IInv, TypeInv, TypeOK, Object, Run
<1> QED BY <1>1, Invariant, PTL

\* What a caller was told ok is in a file or in a dirty object that a run still
\* holds, unless a commit or reload went wrong or a dispose was in progress.
THEOREM KeptUnlessDisposing == Spec => []LostOnlyWhileDisposing
<1>1. IInv => LostOnlyWhileDisposing
  BY DEF IInv
<1> QED BY <1>1, Invariant, PTL
=============================================================================
