-------------------------- MODULE Offloads_proofs --------------------------
(***************************************************************************)
(* The safety of offloaded results for every window, every host, any       *)
(* number of crashes and every interleaving of a turn with a reload.       *)
(*                                                                         *)
(* A text moves from the queue of the turn to an artifact that is being    *)
(* written, to a whole artifact and to a reference.  OInv says at which    *)
(* stage each of them is: the queue is empty exactly while no text is on its *)
(* way, the artifact written last holds the text at the head of the queue, *)
(* and it is whole once the turn may register it.                          *)
(***************************************************************************)
EXTENDS Offloads, ListLemmas, FunctionTheorems

Texts == Nat \X Nat \X Nat
Lines == Seq(Line)
Stored == [role : {"user", "assistant", "tool", "marker"}, chars : Nat,
           offloaded : BOOLEAN]
Turns == {[index |-> n, messages |-> messages,
           token_estimate |-> estimateTokens(messages)] :
             n \in Nat, messages \in Seq(Stored)}

OffloadTypes ==
  /\ pendingMessages \in Seq(Storable)
  /\ nextIndex \in Nat /\ crashes \in Nat
  /\ log \in Seq(Turns)
  /\ artifacts \in Seq([text : Texts, lines : Lines, whole : BOOLEAN])
  /\ refs \subseteq DOMAIN artifacts /\ diskRefs \subseteq DOMAIN artifacts
  /\ queue \in Seq([text : Texts, lines : Lines])

\* What each stage of completeTurn has made sure of.
StageInv ==
  /\ stage \in {"idle", "store", "write", "register", "commit", "sync"}
  /\ stage \in {"store", "write", "register"} <=> queue # << >>
  /\ stage \in {"write", "register"} =>
       /\ artifacts # << >>
       /\ artifacts[Len(artifacts)].text = Head(queue).text
  /\ stage = "register" => artifacts[Len(artifacts)].whole

OInv == OffloadTypes /\ StageInv /\ ReferencesResolve /\ OffloadedTextsAreHeld

-----------------------------------------------------------------------------
\* Tail shifts a list by one.
LEMMA TailIs ==
  ASSUME NEW S, NEW q \in Seq(S), q # << >>
  PROVE  /\ Head(q) = q[1] /\ Head(q) \in S /\ Tail(q) \in Seq(S)
         /\ Len(q) \in Nat /\ Len(q) >= 1 /\ DOMAIN q = 1..Len(q)
         /\ Tail(q) = << >> <=> Len(q) = 1
         /\ \A k \in DOMAIN q : k = 1 \/ (k - 1 \in DOMAIN Tail(q) /\ Tail(q)[k - 1] = q[k])
<1>1. Head(q) = q[1] /\ Head(q) \in S /\ Tail(q) \in Seq(S)
  OBVIOUS
<1>2. Len(q) \in Nat /\ Len(q) >= 1 /\ DOMAIN q = 1..Len(q)
  OBVIOUS
<1>3. Len(Tail(q)) = Len(q) - 1 /\ DOMAIN Tail(q) = 1..(Len(q) - 1)
  OBVIOUS
<1>4. Tail(q) = << >> <=> Len(q) = 1
  BY <1>1, <1>2, <1>3
<1>5. ASSUME NEW k \in DOMAIN q, k # 1
      PROVE  k - 1 \in DOMAIN Tail(q) /\ Tail(q)[k - 1] = q[k]
  <2>1. k \in 2..Len(q) /\ k - 1 \in 1..(Len(q) - 1)
    BY <1>2, <1>5
  <2>2. Tail(q)[k - 1] = q[k]
    BY <1>2, <2>1
  <2> QED BY <1>3, <2>1, <2>2
<1> QED BY <1>1, <1>2, <1>4, <1>5

\* A list in ascending order of as many elements as the set has names them all.
LEMMA AscendingIsOnto ==
  ASSUME NEW S, IsFiniteSet(S), NEW q \in [1..Cardinality(S) -> S], S \subseteq Nat,
         \A i, j \in DOMAIN q : i < j => q[i] < q[j],
         NEW x \in S
  PROVE  \E k \in DOMAIN q : q[k] = x
<1> DEFINE n == Cardinality(S)
<1>1. n \in Nat
  BY FS_CardinalityType
<1> HIDE DEF n
<1>2. ASSUME NEW i \in 1..n, NEW j \in 1..n, q[i] = q[j] PROVE i = j
  <2>1. q[i] \in Nat /\ DOMAIN q = 1..n
    BY DEF n
  <2>2. ~ (i < j) /\ ~ (j < i)
    BY <1>2, <2>1
  <2> QED BY <1>1, <2>2
<1>3. q \in Injection(1..n, S)
  BY <1>2, Fun_IsInj DEF n
<1>4. Cardinality(1..n) = n /\ IsFiniteSet(1..n)
  BY <1>1, FS_Interval
<1>5. q \in Surjection(1..n, S)
  BY <1>3, <1>4, FS_Injection DEF n
<1> QED BY <1>5 DEF Surjection, n
-----------------------------------------------------------------------------
\* The text of a pointer is on its way, stored, or given up for a reason.
Held(text) ==
  \/ text \in failed \cup dropped
  \/ \E k \in DOMAIN queue : queue[k].text = text
  \/ \E r \in refs : artifacts[r].text = text

\* A step that adds no turn only has to keep what is held.
LEMMA HeldSuffices ==
  ASSUME OffloadedTextsAreHeld, UNCHANGED <<log, crashes>>,
         \A text : Held(text) => Held(text)'
  PROVE  OffloadedTextsAreHeld'
BY DEF OffloadedTextsAreHeld, Held, TextId

\* The messages of a turn are the buffer and the new ones.
LEMMA MessagesAre ==
  ASSUME OffloadTypes, NEW batch \in Batches
  PROVE  /\ pendingMessages \o Converted(batch) \in Seq(Storable)
         /\ pendingMessages \o Converted(batch) \in Seq(Message)
<1>1. Converted(batch) \in Seq(Storable) /\ pendingMessages \in Seq(Storable)
  BY LinesAssumption DEF OffloadTypes
<1> DEFINE messages == pendingMessages \o Converted(batch)
<1>2. messages \in Seq(Storable)
  BY <1>1
<1>3. \A m \in Storable : m \in Message
  BY DEF Storable
<1> HIDE DEF messages
<1>4. messages \in Seq(Message)
  BY <1>2, <1>3
<1> QED BY <1>2, <1>4 DEF messages

\* The window marks exactly the messages that detectOffloads found.
LEMMA OffloadsMarked ==
  ASSUME NEW messages \in Seq(Message)
  PROVE  /\ applyOffloads(messages) \in Seq(Stored)
         /\ DOMAIN applyOffloads(messages) = DOMAIN messages
         /\ \A j \in DOMAIN messages :
               applyOffloads(messages)[j].offloaded <=> j \in detectOffloads(messages)
<1> DEFINE found == detectOffloads(messages)
<1> HIDE DEF found
<1>1. DOMAIN messages = 1..Len(messages) /\ Len(messages) \in Nat
  OBVIOUS
<1>2. ASSUME NEW i \in DOMAIN messages
      PROVE  [role |-> messages[i].role,
              chars |-> IF i \in found THEN pointer_chars ELSE messages[i].chars,
              offloaded |-> i \in found] \in Stored
  <2>1. messages[i] \in Message
    BY <1>1
  <2>2. (i \in found) \in BOOLEAN
    OBVIOUS
  <2> QED BY <2>1, <2>2, WindowAssumption DEF Message, Stored
<1>3. applyOffloads(messages) =
        [i \in DOMAIN messages |->
           [role |-> messages[i].role,
            chars |-> IF i \in found THEN pointer_chars ELSE messages[i].chars,
            offloaded |-> i \in found]]
  BY DEF applyOffloads, found
<1>4. applyOffloads(messages) \in [1..Len(messages) -> Stored]
  BY <1>1, <1>2, <1>3
<1>5. applyOffloads(messages) \in Seq(Stored)
  BY <1>1, <1>4
<1>6. ASSUME NEW j \in DOMAIN messages
      PROVE  applyOffloads(messages)[j].offloaded <=> j \in found
  <2> DEFINE marked == j \in found
             chars == IF j \in found THEN pointer_chars ELSE messages[j].chars
  <2>1. applyOffloads(messages)[j] =
          [role |-> messages[j].role, chars |-> chars, offloaded |-> marked]
    BY <1>3, Zenon
  <2> HIDE DEF marked, chars
  <2>2. applyOffloads(messages)[j].offloaded = marked
    BY <2>1
  <2> QED BY <2>2 DEF marked
<1> QED BY <1>1, <1>4, <1>5, <1>6 DEF found

\* The list of offloads names every position found.
LEMMA OffloadsNamed ==
  ASSUME NEW messages \in Seq(Message), NEW list \in OffloadsOf(messages)
  PROVE  /\ \E n \in Nat : list \in [1..n -> Nat]
         /\ \A i \in DOMAIN list :
               list[i] \in DOMAIN messages /\ list[i] \in detectOffloads(messages)
         /\ \A j \in detectOffloads(messages) : \E k \in DOMAIN list : list[k] = j
<1> DEFINE found == detectOffloads(messages)
<1>1. DOMAIN messages = 1..Len(messages) /\ Len(messages) \in Nat
  OBVIOUS
<1>2. found \subseteq 1..Len(messages)
  BY <1>1 DEF detectOffloads
<1>3. IsFiniteSet(found)
  <2>1. IsFiniteSet(1..Len(messages))
    BY <1>1, FS_Interval
  <2> QED BY <1>2, <2>1, FS_Subset
<1>4. /\ list \in [1..Cardinality(found) -> found]
      /\ \A i, j \in DOMAIN list : i < j => list[i] < list[j]
  BY DEF OffloadsOf
<1>5. Cardinality(found) \in Nat
  BY <1>3, FS_CardinalityType
<1> HIDE DEF found
<1>6. found \subseteq Nat
  BY <1>2
<1>7. \A j \in found : \E k \in DOMAIN list : list[k] = j
  BY <1>3, <1>4, <1>6, AscendingIsOnto
<1>8. list \in [1..Cardinality(found) -> Nat]
  BY <1>4, <1>6
<1>9. \A i \in DOMAIN list : list[i] \in DOMAIN messages /\ list[i] \in found
  BY <1>1, <1>2, <1>4
<1> QED BY <1>5, <1>7, <1>8, <1>9 DEF found

-----------------------------------------------------------------------------
LEMMA OffloadsStart == OffloadInit => OInv
<1> SUFFICES ASSUME OffloadInit PROVE OInv
  OBVIOUS
<1> USE DEF OffloadInit, Init
<1>1. OffloadTypes
  BY DEF OffloadTypes
<1>2. StageInv
  BY DEF StageInv
<1>3. ReferencesResolve /\ OffloadedTextsAreHeld
  BY DEF ReferencesResolve, OffloadedTextsAreHeld
<1> QED BY <1>1, <1>2, <1>3 DEF OInv

LEMMA BufferKeeps == ASSUME OInv, Buffer PROVE OInv'
<1> USE DEF Buffer, OInv
<1>1. PICK batch \in Batches : Ingest(batch)
  OBVIOUS
<1>2. pendingMessages' \in Seq(Storable)
  BY <1>1, MessagesAre DEF Ingest
<1>3. UNCHANGED <<nextIndex, log, crashes, artifacts, refs, diskRefs, queue, stage,
                  failed, dropped>>
  BY <1>1 DEF Ingest
<1>4. OffloadTypes'
  BY <1>2, <1>3 DEF OffloadTypes
<1>5. StageInv' /\ ReferencesResolve'
  BY <1>3 DEF StageInv, ReferencesResolve
<1>6. OffloadedTextsAreHeld'
  <2>1. \A text : Held(text) => Held(text)'
    BY <1>3 DEF Held
  <2> QED BY <1>3, <2>1, HeldSuffices
<1> QED BY <1>4, <1>5, <1>6

\* Every position that the window marks in the new turn is in the queue.
LEMMA EndTurnKeeps == ASSUME OInv, EndTurn PROVE OInv'
<1> USE DEF OInv
<1>1. PICK batch \in Batches :
        /\ AfterTurn(batch)
        /\ \E found \in OffloadsOf(pendingMessages \o Converted(batch)) :
              queue' = [i \in DOMAIN found |->
                 [text |-> TextId(nextIndex, found[i]),
                  lines |-> LinesOf[(pendingMessages \o Converted(batch))[found[i]].chars]]]
  BY DEF EndTurn
<1> DEFINE messages == pendingMessages \o Converted(batch)
           turn == TurnOf(messages)
<1>2. messages \in Seq(Message) /\ messages \in Seq(Storable)
  BY MessagesAre
<1>3. /\ pendingMessages' = <<>>
      /\ nextIndex' = nextIndex + 1
      /\ log' = Append(log, turn)
  BY <1>1 DEF AfterTurn, pushTurn
<1>4. /\ turn.index = nextIndex
      /\ turn.messages = applyOffloads(messages)
      /\ turn = [index |-> nextIndex, messages |-> applyOffloads(messages),
                 token_estimate |-> estimateTokens(applyOffloads(messages))]
  BY DEF TurnOf
<1> HIDE DEF turn, messages
<1>5. PICK found \in OffloadsOf(messages) :
        queue' = [i \in DOMAIN found |->
                    [text |-> TextId(nextIndex, found[i]),
                     lines |-> LinesOf[messages[found[i]].chars]]]
  BY <1>1 DEF messages
<1>6. /\ UNCHANGED <<artifacts, refs, diskRefs, dirty, failed, dropped, crashes>>
      /\ stage = "idle"
      /\ stage' = IF queue' # << >> THEN "store" ELSE IF dirty THEN "commit" ELSE "idle"
  BY DEF EndTurn
<1>7. queue' \in Seq([text : Texts, lines : Lines])
  <2>1. PICK n \in Nat : found \in [1..n -> Nat]
    BY <1>2, OffloadsNamed
  <2>2. ASSUME NEW i \in 1..n
        PROVE  [text |-> TextId(nextIndex, found[i]),
                lines |-> LinesOf[messages[found[i]].chars]] \in [text : Texts, lines : Lines]
    <3>1. found[i] \in DOMAIN messages
      BY <1>2, <2>1, OffloadsNamed
    <3>2. found[i] \in detectOffloads(messages)
      BY <1>2, <2>1, OffloadsNamed
    <3>3. LinesOf[messages[found[i]].chars] \in Lines
      <4>1. messages[found[i]] \in Storable
        BY <1>2, <3>1
      <4>2. messages[found[i]].chars \in DOMAIN LinesOf
        BY <3>2, <4>1 DEF Storable, detectOffloads
      <4> QED BY <4>2, LinesAssumption DEF Lines
    <3>4. TextId(nextIndex, found[i]) \in Texts
      BY <2>1 DEF TextId, Texts, OffloadTypes
    <3> QED BY <3>3, <3>4
  <2> DEFINE Entries == [text : Texts, lines : Lines]
             next == queue'
  <2>3. next \in [1..n -> Entries]
    BY <1>5, <2>1, <2>2
  <2> HIDE DEF Entries, next
  <2>4. next \in Seq(Entries)
    BY <2>3
  <2> QED BY <2>4 DEF Entries, next
<1>8. turn \in Turns
  BY <1>2, <1>4, OffloadsMarked DEF Turns, OffloadTypes
<1>9. log' \in Seq(Turns) /\ DOMAIN log' = 1..(Len(log) + 1) /\ DOMAIN log = 1..Len(log)
      /\ log'[Len(log) + 1] = turn /\ (\A t \in DOMAIN log : log'[t] = log[t])
      /\ Len(log) \in Nat
  <2>1. log \in Seq(Turns)
    BY DEF OffloadTypes
  <2> QED BY <1>3, <1>8, <2>1, AppendIs
<1>10. OffloadTypes'
  BY <1>3, <1>6, <1>7, <1>9 DEF OffloadTypes
<1>11. StageInv'
  BY <1>6 DEF StageInv
<1>12. ReferencesResolve'
  BY <1>6 DEF ReferencesResolve
<1>13. ASSUME NEW j \in DOMAIN turn.messages, turn.messages[j].offloaded
       PROVE  \E k \in DOMAIN queue' : queue'[k].text = TextId(turn.index, j)
  <2>1. j \in detectOffloads(messages)
    BY <1>2, <1>4, <1>13, OffloadsMarked
  <2>2. PICK k \in DOMAIN found : found[k] = j
    BY <1>2, <2>1, OffloadsNamed
  <2> QED BY <1>4, <1>5, <2>2
<1>14. queue = << >>
  BY <1>6 DEF StageInv
<1>15. ASSUME NEW i \in DOMAIN log', NEW j \in DOMAIN log'[i].messages,
              log'[i].messages[j].offloaded
       PROVE  \/ TextId(log'[i].index, j) \in failed \cup dropped
              \/ \E k \in DOMAIN queue' : queue'[k].text = TextId(log'[i].index, j)
              \/ \E r \in refs : artifacts[r].text = TextId(log'[i].index, j)
  <2>1. CASE i = Len(log) + 1
    BY <1>9, <1>13, <1>15, <2>1
  <2>2. CASE i \in DOMAIN log
    <3>1. log'[i] = log[i]
      BY <1>9, <2>2
    <3>2. ~ \E k \in DOMAIN queue : queue[k].text = TextId(log[i].index, j)
      BY <1>14
    <3> QED BY <1>15, <2>2, <3>1, <3>2 DEF OffloadedTextsAreHeld
  <2> QED BY <1>9, <2>1, <2>2
<1>16. OffloadedTextsAreHeld'
  BY <1>6, <1>15 DEF OffloadedTextsAreHeld, TextId
<1> QED BY <1>10, <1>11, <1>12, <1>16

\* What OInv says of the lists that the steps of a turn change.
LEMMA ListsAre ==
  ASSUME OffloadTypes
  PROVE  /\ DOMAIN artifacts = 1..Len(artifacts) /\ Len(artifacts) \in Nat
         /\ queue # << >> =>
              /\ Head(queue) = queue[1] /\ Head(queue).text \in Texts
              /\ Head(queue).lines \in Lines
              /\ Tail(queue) \in Seq([text : Texts, lines : Lines])
              /\ Tail(queue) = << >> <=> Len(queue) = 1
              /\ \A k \in DOMAIN queue :
                    k = 1 \/ (k - 1 \in DOMAIN Tail(queue) /\ Tail(queue)[k - 1] = queue[k])
<1>1. DOMAIN artifacts = 1..Len(artifacts) /\ Len(artifacts) \in Nat
  BY DEF OffloadTypes
<1> DEFINE Entries == [text : Texts, lines : Lines]
<1>2. queue \in Seq(Entries)
  BY DEF OffloadTypes
<1>3. ASSUME queue # << >>
      PROVE  /\ Head(queue) = queue[1] /\ Head(queue) \in Entries
             /\ Tail(queue) \in Seq(Entries)
             /\ Tail(queue) = << >> <=> Len(queue) = 1
             /\ \A k \in DOMAIN queue :
                   k = 1 \/ (k - 1 \in DOMAIN Tail(queue) /\ Tail(queue)[k - 1] = queue[k])
  <2> HIDE DEF Entries
  <2> QED BY <1>2, <1>3, TailIs
<1>4. Head(queue) \in Entries => Head(queue).text \in Texts /\ Head(queue).lines \in Lines
  OBVIOUS
<1> QED BY <1>1, <1>3, <1>4

\* Taking the head off the queue takes nothing else from what is held.
LEMMA NextOffloadHolds ==
  ASSUME OffloadTypes, queue # << >>, NextOffload, NEW text,
         \E k \in DOMAIN queue : queue[k].text = text
  PROVE  text = Head(queue).text \/ \E k \in DOMAIN queue' : queue'[k].text = text
<1>1. PICK k \in DOMAIN queue : queue[k].text = text
  OBVIOUS
<1>2. queue' = Tail(queue)
  BY DEF NextOffload
<1>3. k = 1 => text = Head(queue).text
  BY <1>1, ListsAre
<1>4. k # 1 => k - 1 \in DOMAIN queue' /\ queue'[k - 1].text = text
  BY <1>1, <1>2, ListsAre
<1> QED BY <1>3, <1>4

\* ... and the turn goes on with the rest.
LEMMA NextOffloadStage ==
  ASSUME OffloadTypes, queue # << >>, NextOffload
  PROVE  /\ queue' \in Seq([text : Texts, lines : Lines])
         /\ stage' \in {"store", "commit"}
         /\ stage' = "store" <=> queue' # << >>
BY ListsAre DEF NextOffload

LEMMA OpenKeeps == ASSUME OInv, OpenArtifact PROVE OInv'
<1> USE DEF OInv
<1> DEFINE file == [text |-> Head(queue).text, lines |-> Head(queue).lines, whole |-> FALSE]
           Files == [text : Texts, lines : Lines, whole : BOOLEAN]
<1>1. /\ stage = "store" /\ stage' = "write"
      /\ artifacts' = Append(artifacts, file)
      /\ UNCHANGED <<pendingMessages, nextIndex, log, crashes, refs, diskRefs, queue,
                     failed, dropped>>
  BY DEF OpenArtifact, windowVars, bounds
<1>2. queue # << >>
  BY <1>1 DEF StageInv
<1>3. file \in Files /\ artifacts \in Seq(Files) /\ file.text = Head(queue).text
  BY <1>2, ListsAre DEF OffloadTypes
<1> HIDE DEF file, Files
<1>4. /\ artifacts' \in Seq(Files) /\ Len(artifacts) \in Nat
      /\ Len(artifacts') = Len(artifacts) + 1
      /\ DOMAIN artifacts = 1..Len(artifacts)
      /\ DOMAIN artifacts' = 1..(Len(artifacts) + 1)
      /\ artifacts'[Len(artifacts) + 1] = file
      /\ \A t \in DOMAIN artifacts : artifacts'[t] = artifacts[t]
  BY <1>1, <1>3, AppendIs
<1>5. DOMAIN artifacts \subseteq DOMAIN artifacts' /\ artifacts' # << >>
  BY <1>4
<1>6. refs \cup diskRefs \subseteq DOMAIN artifacts
  BY DEF OffloadTypes
<1>7. OffloadTypes'
  BY <1>1, <1>4, <1>5, <1>6 DEF OffloadTypes, Files
<1>8. StageInv'
  BY <1>1, <1>2, <1>3, <1>4, <1>5 DEF StageInv
<1>9. ReferencesResolve'
  BY <1>1, <1>4, <1>6 DEF ReferencesResolve
<1>10. \A text : Held(text) => Held(text)'
  BY <1>1, <1>4, <1>6 DEF Held
<1>11. OffloadedTextsAreHeld'
  BY <1>1, <1>10, HeldSuffices
<1> QED BY <1>7, <1>8, <1>9, <1>11

LEMMA WriteKeeps == ASSUME OInv, WriteArtifact PROVE OInv'
<1> USE DEF OInv
<1> DEFINE Files == [text : Texts, lines : Lines, whole : BOOLEAN]
           last == Len(artifacts)
<1>1. /\ stage = "write" /\ stage' = "register"
      /\ artifacts' = [artifacts EXCEPT ![last].whole = TRUE]
      /\ UNCHANGED <<pendingMessages, nextIndex, log, crashes, refs, diskRefs, queue,
                     failed, dropped>>
  BY DEF WriteArtifact, windowVars, bounds
<1>2. queue # << >> /\ artifacts # << >> /\ artifacts[last].text = Head(queue).text
  BY <1>1 DEF StageInv
<1>3. artifacts \in Seq(Files) /\ last \in Nat /\ DOMAIN artifacts = 1..last
  BY DEF OffloadTypes
<1>4. last \in DOMAIN artifacts /\ \A t \in DOMAIN artifacts : artifacts[t] \in Files
  <2> HIDE DEF Files
  <2>1. last # 0
    BY <1>2, <1>3
  <2> QED BY <1>3, <2>1
<1> HIDE DEF last
<1>5. \A t \in DOMAIN artifacts : artifacts[t] \in Files
  BY <1>4
<1>6. /\ DOMAIN artifacts' = DOMAIN artifacts
      /\ \A t \in DOMAIN artifacts \ {last} : artifacts'[t] = artifacts[t]
      /\ artifacts'[last] = [artifacts[last] EXCEPT !.whole = TRUE]
  BY <1>1, <1>4
<1>7. /\ artifacts'[last] \in Files
      /\ artifacts'[last].text = artifacts[last].text
      /\ artifacts'[last].whole = TRUE
  BY <1>4, <1>5, <1>6
<1>8. artifacts' \in Seq(Files) /\ Len(artifacts') = last /\ artifacts' # << >>
  <2>1. artifacts' \in [1..last -> Files]
    <3> HIDE DEF Files
    <3>1. \A t \in 1..last : artifacts'[t] \in Files
      BY <1>3, <1>5, <1>6, <1>7
    <3>2. artifacts' = [t \in 1..last |-> artifacts'[t]]
      BY <1>1, <1>3
    <3> QED BY <3>1, <3>2
  <2> HIDE DEF Files
  <2>2. last \in Nat /\ last \in 1..last
    BY <1>3, <1>4
  <2> QED BY <2>1, <2>2
<1>9. OffloadTypes'
  BY <1>1, <1>6, <1>8 DEF OffloadTypes
<1>10. StageInv'
  BY <1>1, <1>2, <1>7, <1>8 DEF StageInv
<1>11. refs \cup diskRefs \subseteq DOMAIN artifacts
  BY DEF OffloadTypes
<1>12. ReferencesResolve'
  BY <1>1, <1>6, <1>7, <1>11 DEF ReferencesResolve
<1>13. \A t \in DOMAIN artifacts : artifacts'[t].text = artifacts[t].text
  BY <1>6, <1>7
<1>14. \A text : Held(text) => Held(text)'
  BY <1>1, <1>11, <1>13 DEF Held
<1>15. OffloadedTextsAreHeld'
  BY <1>1, <1>14, HeldSuffices
<1> QED BY <1>9, <1>10, <1>12, <1>15

\* The failure of one offload is noted and the rest of the queue stays.
LEMMA FailKeeps == ASSUME OInv, StoreFails PROVE OInv'
<1> USE DEF OInv
<1>1. /\ stage \in {"store", "write"} /\ NextOffload
      /\ failed' = failed \cup {Head(queue).text}
      /\ UNCHANGED <<pendingMessages, nextIndex, log, crashes, artifacts, refs, diskRefs,
                     dropped>>
  BY DEF StoreFails, windowVars, bounds
<1>2. queue # << >>
  BY <1>1 DEF StageInv
<1>3. /\ queue' \in Seq([text : Texts, lines : Lines])
      /\ stage' \in {"store", "commit"}
      /\ stage' = "store" <=> queue' # << >>
  BY <1>1, <1>2, NextOffloadStage
<1>4. OffloadTypes'
  BY <1>1, <1>3 DEF OffloadTypes
<1>5. StageInv'
  BY <1>3 DEF StageInv
<1>6. ReferencesResolve'
  BY <1>1 DEF ReferencesResolve
<1>7. ASSUME NEW text, Held(text) PROVE Held(text)'
  <2>1. CASE \E k \in DOMAIN queue : queue[k].text = text
    <3>1. text = Head(queue).text \/ \E k \in DOMAIN queue' : queue'[k].text = text
      BY <1>1, <1>2, <2>1, NextOffloadHolds
    <3> QED BY <1>1, <3>1 DEF Held
  <2>2. CASE ~ \E k \in DOMAIN queue : queue[k].text = text
    BY <1>1, <1>7, <2>2 DEF Held
  <2> QED BY <2>1, <2>2
<1>8. OffloadedTextsAreHeld'
  BY <1>1, <1>7, HeldSuffices
<1> QED BY <1>4, <1>5, <1>6, <1>8

\* The artifact that is registered is whole and holds the text at the head.
LEMMA RegisterKeeps == ASSUME OInv, Register PROVE OInv'
<1> USE DEF OInv
<1> DEFINE last == Len(artifacts)
<1>1. /\ stage = "register" /\ NextOffload
      /\ refs' = refs \cup {last}
      /\ UNCHANGED <<pendingMessages, nextIndex, log, crashes, artifacts, diskRefs,
                     failed, dropped>>
  BY DEF Register, windowVars, bounds
<1>2. /\ queue # << >> /\ artifacts # << >>
      /\ artifacts[last].text = Head(queue).text /\ artifacts[last].whole
  BY <1>1 DEF StageInv
<1>3. last \in DOMAIN artifacts
  BY <1>2 DEF OffloadTypes
<1> HIDE DEF last
<1>4. /\ queue' \in Seq([text : Texts, lines : Lines])
      /\ stage' \in {"store", "commit"}
      /\ stage' = "store" <=> queue' # << >>
  BY <1>1, <1>2, NextOffloadStage
<1>5. OffloadTypes'
  BY <1>1, <1>3, <1>4 DEF OffloadTypes
<1>6. StageInv'
  BY <1>4 DEF StageInv
<1>7. ReferencesResolve'
  BY <1>1, <1>2 DEF ReferencesResolve
<1>8. ASSUME NEW text, Held(text) PROVE Held(text)'
  <2>1. CASE \E k \in DOMAIN queue : queue[k].text = text
    <3>1. text = Head(queue).text \/ \E k \in DOMAIN queue' : queue'[k].text = text
      BY <1>1, <1>2, <2>1, NextOffloadHolds
    <3> QED BY <1>1, <1>2, <3>1 DEF Held
  <2>2. CASE ~ \E k \in DOMAIN queue : queue[k].text = text
    BY <1>1, <1>8, <2>2 DEF Held
  <2> QED BY <2>1, <2>2
<1>9. OffloadedTextsAreHeld'
  BY <1>1, <1>8, HeldSuffices
<1> QED BY <1>5, <1>6, <1>7, <1>9

LEMMA CommitKeeps == ASSUME OInv, CommitTurn \/ SyncFails PROVE OInv'
<1> USE DEF OInv
<1>1. /\ stage \in {"commit", "sync"} /\ stage' \in {"idle", "sync"}
      /\ diskRefs' \in {refs, diskRefs}
      /\ UNCHANGED <<pendingMessages, nextIndex, log, crashes, artifacts, refs, queue,
                     failed, dropped>>
  BY DEF CommitTurn, SyncFails, windowVars, bounds
<1>2. OffloadTypes'
  BY <1>1 DEF OffloadTypes
<1>3. StageInv'
  BY <1>1 DEF StageInv
<1>4. ReferencesResolve'
  BY <1>1 DEF ReferencesResolve
<1>5. \A text : Held(text) => Held(text)'
  BY <1>1 DEF Held
<1>6. OffloadedTextsAreHeld'
  BY <1>1, <1>5, HeldSuffices
<1> QED BY <1>2, <1>3, <1>4, <1>6

\* A reload notes the text of every reference that it discards.
LEMMA ReloadKeeps == ASSUME OInv, Reload PROVE OInv'
<1> USE DEF OInv
<1>1. /\ stage \in {"sync", "write", "register"}
      /\ stage' = IF stage = "sync" THEN "idle" ELSE stage
      /\ refs' = diskRefs
      /\ dropped' = dropped \cup {artifacts[r].text : r \in refs \ diskRefs}
      /\ UNCHANGED <<pendingMessages, nextIndex, log, crashes, artifacts, diskRefs, queue,
                     failed>>
  BY DEF Reload, windowVars, bounds
<1>2. OffloadTypes'
  BY <1>1 DEF OffloadTypes
<1>3. StageInv'
  BY <1>1 DEF StageInv
<1>4. ReferencesResolve'
  BY <1>1 DEF ReferencesResolve
<1>5. \A text : Held(text) => Held(text)'
  BY <1>1 DEF Held
<1>6. OffloadedTextsAreHeld'
  BY <1>1, <1>5, HeldSuffices
<1> QED BY <1>2, <1>3, <1>4, <1>6

LEMMA CrashKeeps == ASSUME OInv, CrashRestart PROVE OInv'
<1> USE DEF OInv
<1>1. /\ crashes' = crashes + 1 /\ nextIndex' = 0
      /\ pendingMessages' = << >> /\ log' = << >> /\ queue' = << >>
      /\ stage' = "idle" /\ refs' = diskRefs
      /\ UNCHANGED <<artifacts, diskRefs>>
  BY DEF CrashRestart
<1>2. OffloadTypes'
  BY <1>1 DEF OffloadTypes
<1>3. StageInv'
  BY <1>1 DEF StageInv
<1>4. ReferencesResolve'
  BY <1>1 DEF ReferencesResolve
<1>5. OffloadedTextsAreHeld'
  BY <1>1 DEF OffloadedTextsAreHeld
<1> QED BY <1>2, <1>3, <1>4, <1>5

LEMMA OffloadsStay == ASSUME OInv, UNCHANGED offloadVars PROVE OInv'
<1> USE DEF OInv
<1>1. UNCHANGED <<pendingMessages, nextIndex, log, crashes, artifacts, refs, diskRefs,
                  queue, stage, failed, dropped>>
  BY DEF offloadVars, windowVars, bounds
<1>2. OffloadTypes' /\ StageInv' /\ ReferencesResolve'
  BY <1>1 DEF OffloadTypes, StageInv, ReferencesResolve
<1>3. \A text : Held(text) => Held(text)'
  BY <1>1 DEF Held
<1> QED BY <1>1, <1>2, <1>3, HeldSuffices

LEMMA OffloadInvariant == OffloadSpec => []OInv
<1>1. OffloadInit => OInv
  BY OffloadsStart
<1>2. OInv /\ [OffloadNext]_offloadVars => OInv'
  BY BufferKeeps, EndTurnKeeps, OpenKeeps, WriteKeeps, FailKeeps, RegisterKeeps,
     CommitKeeps, ReloadKeeps, CrashKeeps, OffloadsStay DEF OffloadNext
<1> QED BY <1>1, <1>2, PTL DEF OffloadSpec

\* persistence.ts, validateRefs, and recall: at any instant of any turn, after any
\* crash and any reload, every reference in memory and in the committed manifest
\* leads to an artifact that is whole.
THEOREM RefsResolve == OffloadSpec => []ReferencesResolve
<1>1. OInv => ReferencesResolve
  BY DEF OInv
<1> QED BY <1>1, OffloadInvariant, PTL

\* context-engine.ts, completeTurn: every text that the window replaced by a pointer
\* is still to be stored, is reached by a registered reference, failed by itself, or
\* was discarded by a reload.
THEOREM OffloadsAreHeld == OffloadSpec => []OffloadedTextsAreHeld
<1>1. OInv => OffloadedTextsAreHeld
  BY DEF OInv
<1> QED BY <1>1, OffloadInvariant, PTL

-----------------------------------------------------------------------------
(***************************************************************************)
(* The window.  A budget that the latest n turns exceed is exceeded by the *)
(* latest n + 1 after one more turn: the sum of the estimates only grows.   *)
(* So what was evicted before would not fit now, and cutting the window    *)
(* that was already cut finds the longest fit of the whole log.            *)
(***************************************************************************)
\* The turns of the log, of which the window needs the estimate.
Timed == {t \in Turns : t.token_estimate \in Nat}

\* The estimates of the latest turns.
Estimates(ts) == [i \in DOMAIN ts |-> ts[i].token_estimate]

LEMMA LatestIs ==
  ASSUME NEW S, NEW ts \in Seq(S), NEW n \in 0..Len(ts)
  PROVE  /\ Latest(ts, n) \in Seq(S) /\ Len(Latest(ts, n)) = n
         /\ \A i \in 1..n : Latest(ts, n)[i] = ts[Len(ts) - n + i]
<1>1. Len(ts) \in Nat /\ n \in Nat /\ n <= Len(ts)
  OBVIOUS
<1> QED BY <1>1 DEF Latest

\* The latest m of the latest n turns are the latest m of all.
LEMMA LatestOfLatest ==
  ASSUME NEW S, NEW ts \in Seq(S), NEW n \in 0..Len(ts), NEW m \in 0..n
  PROVE  Latest(Latest(ts, n), m) = Latest(ts, m)
<1> DEFINE l == Latest(ts, n)
<1>1. /\ l \in Seq(S) /\ Len(l) = n /\ Len(ts) \in Nat
      /\ \A i \in 1..n : l[i] = ts[Len(ts) - n + i]
  BY LatestIs
<1>2. m \in 0..Len(ts) /\ m \in 0..Len(l) /\ m \in Nat /\ n \in Nat /\ m <= n
  BY <1>1
<1> HIDE DEF l
<1> DEFINE a == Latest(l, m)
           b == Latest(ts, m)
<1>3. /\ a \in Seq(S) /\ Len(a) = m
      /\ \A i \in 1..m : a[i] = l[n - m + i]
  BY <1>1, <1>2, LatestIs
<1>4. /\ b \in Seq(S) /\ Len(b) = m
      /\ \A i \in 1..m : b[i] = ts[Len(ts) - m + i]
  BY <1>2, LatestIs
<1>5. ASSUME NEW i \in 1..m
      PROVE  a[i] = b[i]
  <2>1. n - m + i \in 1..n /\ Len(ts) - n + (n - m + i) = Len(ts) - m + i
    BY <1>1, <1>2
  <2>2. l[n - m + i] = ts[Len(ts) - m + i]
    BY <1>1, <2>1
  <2> QED BY <1>3, <1>4, <2>2
<1> HIDE DEF a, b
<1>6. a = b
  BY <1>3, <1>4, <1>5
<1> QED BY <1>6 DEF a, b, l

\* One more turn at the end of the latest n.
LEMMA LatestOfAppend ==
  ASSUME NEW S, NEW ts \in Seq(S), NEW t \in S, NEW n \in 0..Len(ts)
  PROVE  Latest(Append(ts, t), n + 1) = Append(Latest(ts, n), t)
<1> DEFINE more == Append(ts, t)
           b == Latest(ts, n)
<1>1. /\ more \in Seq(S) /\ Len(more) = Len(ts) + 1 /\ Len(ts) \in Nat
      /\ more[Len(ts) + 1] = t /\ \A i \in 1..Len(ts) : more[i] = ts[i]
  BY AppendIs
<1>2. n \in Nat /\ n <= Len(ts) /\ n + 1 \in 0..Len(more)
  BY <1>1
<1>3. /\ b \in Seq(S) /\ Len(b) = n
      /\ \A i \in 1..n : b[i] = ts[Len(ts) - n + i]
  BY LatestIs
<1> HIDE DEF more, b
<1> DEFINE a == Latest(more, n + 1)
           c == Append(b, t)
<1>4. /\ a \in Seq(S) /\ Len(a) = n + 1
      /\ \A i \in 1..(n + 1) : a[i] = more[Len(more) - (n + 1) + i]
  BY <1>1, <1>2, LatestIs
<1>5. /\ c \in Seq(S) /\ Len(c) = n + 1
      /\ c[n + 1] = t /\ \A i \in 1..n : c[i] = b[i]
  BY <1>2, <1>3, AppendIs
<1>6. ASSUME NEW i \in 1..(n + 1)
      PROVE  a[i] = c[i]
  <2>1. Len(more) - (n + 1) + i = Len(ts) - n + i
    BY <1>1, <1>2
  <2>2. CASE i = n + 1
    <3>1. Len(ts) - n + i = Len(ts) + 1
      BY <1>1, <1>2, <2>2
    <3> QED BY <1>1, <1>4, <1>5, <2>1, <2>2, <3>1
  <2>3. CASE i # n + 1
    <3>1. i \in 1..n /\ Len(ts) - n + i \in 1..Len(ts)
      BY <1>1, <1>2, <2>3
    <3>2. a[i] = ts[Len(ts) - n + i]
      BY <1>1, <1>4, <2>1, <3>1
    <3> QED BY <1>3, <1>5, <3>1, <3>2
  <2> QED BY <2>2, <2>3
<1> HIDE DEF a, c
<1>7. a = c
  BY <1>4, <1>5, <1>6
<1> QED BY <1>7 DEF a, c, more, b

\* The tokens of a list of turns, and what one turn adds.
LEMMA TotalOfAppend ==
  ASSUME NEW ts \in Seq(Timed), NEW t \in Timed
  PROVE  /\ totalTokens(ts) \in Nat
         /\ totalTokens(Append(ts, t)) = totalTokens(ts) + t.token_estimate
<1> DEFINE more == Append(ts, t)
           a == Estimates(ts)
           b == Estimates(more)
           x == t.token_estimate
           S == Timed
<1>1. \A u \in S : u.token_estimate \in Nat
  BY DEF Timed
<1> HIDE DEF S
<1>2. /\ more \in Seq(S) /\ Len(more) = Len(ts) + 1 /\ Len(ts) \in Nat
      /\ more[Len(ts) + 1] = t /\ \A i \in 1..Len(ts) : more[i] = ts[i]
  <2>1. ts \in Seq(S) /\ t \in S
    BY DEF S
  <2> QED BY <2>1, AppendIs
<1> HIDE DEF more
<1>3. /\ a \in Seq(Nat) /\ Len(a) = Len(ts)
      /\ \A i \in 1..Len(ts) : a[i] = ts[i].token_estimate
  <2>1. ts \in Seq(S)
    BY DEF S
  <2> QED BY <1>1, <2>1 DEF Estimates
<1>4. /\ b \in Seq(Nat) /\ Len(b) = Len(more)
      /\ \A i \in 1..Len(more) : b[i] = more[i].token_estimate
  BY <1>1, <1>2 DEF Estimates
<1>5. x \in Nat
  BY DEF Timed
<1> HIDE DEF a, b
<1>6. b = Append(a, x)
  <2> DEFINE c == Append(a, x)
  <2>1. /\ c \in Seq(Nat) /\ Len(c) = Len(ts) + 1
        /\ c[Len(ts) + 1] = x /\ \A i \in 1..Len(ts) : c[i] = a[i]
    BY <1>3, <1>5, AppendIs
  <2> HIDE DEF c
  <2>2. ASSUME NEW i \in 1..(Len(ts) + 1)
        PROVE  b[i] = c[i]
    <3>1. CASE i = Len(ts) + 1
      BY <1>2, <1>4, <2>1, <3>1
    <3>2. CASE i \in 1..Len(ts)
      BY <1>2, <1>3, <1>4, <2>1, <3>2
    <3> QED BY <1>2, <3>1, <3>2
  <2>3. b = c
    BY <1>2, <1>4, <2>1, <2>2
  <2> QED BY <2>3 DEF c
<1>7. SumOf(a) \in Nat /\ SumOf(Append(a, x)) = SumOf(a) + x
  <2> HIDE DEF x
  <2> QED BY <1>3, <1>5, SumOfAppend
<1>8. totalTokens(ts) = SumOf(a) /\ totalTokens(more) = SumOf(b)
  BY DEF totalTokens, a, b, Estimates
<1> QED BY <1>6, <1>7, <1>8 DEF more

LEMMA GrownIsOver ==
  ASSUME NEW ts \in Seq(Timed), NEW t \in Timed, NEW n \in 0..Len(ts),
         OverBudget(Latest(ts, n))
  PROVE  OverBudget(Latest(Append(ts, t), n + 1))
<1> DEFINE b == Latest(ts, n)
           S == Timed
<1>1. /\ b \in Seq(S) /\ Len(b) = n /\ n \in Nat
  BY LatestIs
<1>2. Latest(Append(ts, t), n + 1) = Append(b, t)
  BY LatestOfAppend
<1> HIDE DEF b
<1>3. /\ totalTokens(b) \in Nat /\ t.token_estimate \in Nat
      /\ totalTokens(Append(b, t)) = totalTokens(b) + t.token_estimate
  BY <1>1, TotalOfAppend DEF Timed
<1>4. Len(Append(b, t)) = n + 1
  <2>1. t \in S
    OBVIOUS
  <2> HIDE DEF S
  <2> QED BY <1>1, <2>1, AppendIs
<1>5. OverBudget(b)
  BY DEF b
<1> DEFINE c == Append(b, t)
<1>6. OverBudget(c)
  <2>1. max_turns \in Nat /\ max_tokens \in Nat
    BY WindowAssumption
  <2>2. Len(c) = Len(b) + 1 /\ Len(b) \in Nat
    BY <1>1, <1>4
  <2>3. totalTokens(c) = totalTokens(b) + t.token_estimate
    BY <1>3
  <2> HIDE DEF c
  <2> QED BY <1>3, <1>5, <2>1, <2>2, <2>3 DEF OverBudget
<1> QED BY <1>2, <1>6

\* The loop stops at the first window that fits, or at none.
Evicts(ts, n, k) ==
  /\ enforcebudget(ts) = Latest(ts, n - k)
  /\ k = n \/ ~ OverBudget(Latest(ts, n - k))
  /\ \A j \in 0..(k - 1) : OverBudget(Latest(ts, n - j))

LEMMA EnforceIs ==
  ASSUME NEW ts, Len(ts) \in Nat
  PROVE  \E k \in 0..Len(ts) : Evicts(ts, Len(ts), k)
<1> DEFINE Fits(k) == k = Len(ts) \/ ~ OverBudget(Latest(ts, Len(ts) - k))
           Least(k) == Fits(k) /\ \A j \in 0..(k - 1) : OverBudget(Latest(ts, Len(ts) - j))
           T == {k \in 0..Len(ts) : Fits(k)}
           evicted == CHOOSE k \in 0..Len(ts) : Least(k)
<1>1. Len(ts) \in T
  OBVIOUS
<1>2. PICK k \in T : \A j \in T : k <= j
  <2>1. T \subseteq Nat /\ T # {}
    BY <1>1
  <2> HIDE DEF T
  <2> QED BY <2>1, LeastElement
<1>3. Least(k)
  <2>1. ASSUME NEW j \in 0..(k - 1)
        PROVE  OverBudget(Latest(ts, Len(ts) - j))
    <3>1. k \in 0..Len(ts)
      BY <1>2
    <3>2. j \in 0..Len(ts) /\ ~ (k <= j)
      BY <3>1
    <3>3. j \notin T
      <4> HIDE DEF T
      <4> QED BY <1>2, <3>2
    <3> QED BY <3>2, <3>3
  <2> QED BY <1>2, <2>1
<1>4. k \in 0..Len(ts)
  BY <1>2
<1>5. evicted \in 0..Len(ts) /\ Least(evicted)
  <2> HIDE DEF Least
  <2> QED BY <1>3, <1>4
<1>6. enforcebudget(ts) = Latest(ts, Len(ts) - evicted)
  BY DEF enforcebudget
<1> HIDE DEF evicted
<1> QED BY <1>5, <1>6 DEF Evicts

\* The estimate of a turn is a number.
LEMMA TurnsAreTimed == \A t \in Turns : t \in Timed
<1> SUFFICES ASSUME NEW n \in Nat, NEW messages \in Seq(Stored)
             PROVE  estimateTokens(messages) \in Nat
  BY DEF Timed, Turns
<1> DEFINE lengths == [i \in DOMAIN messages |-> messages[i].chars]
           S == Stored
<1>1. \A m \in S : m.chars \in Nat
  BY DEF Stored
<1>2. lengths \in Seq(Nat)
  <2> HIDE DEF S
  <2>1. messages \in Seq(S)
    BY DEF S
  <2> QED BY <1>1, <2>1
<1>3. SumOf(lengths) \in Nat
  <2> HIDE DEF lengths
  <2> QED BY <1>2, SumOfAppend
<1>4. estimateTokens(messages) = (SumOf(lengths) + chars_per_token - 1) \div chars_per_token
  BY DEF estimateTokens
<1> HIDE DEF lengths
<1> QED BY <1>3, <1>4, WindowAssumption

-----------------------------------------------------------------------------
(***************************************************************************)
(* The messages.  What the window stores of a message depends on that      *)
(* message alone, so that replacing the texts of two lists one after the   *)
(* other is replacing those of both at once.                               *)
(***************************************************************************)
Offloaded(m) == m.role = "tool" /\ m.chars > offload_threshold_chars
StoredForm(m) ==
  [role |-> m.role, chars |-> IF Offloaded(m) THEN pointer_chars ELSE m.chars,
   offloaded |-> Offloaded(m)]

LEMMA ApplyIs ==
  ASSUME NEW messages \in Seq(Message)
  PROVE  /\ applyOffloads(messages) \in Seq(Stored)
         /\ Len(applyOffloads(messages)) = Len(messages)
         /\ \A i \in 1..Len(messages) :
               applyOffloads(messages)[i] = StoredForm(messages[i])
<1> DEFINE found == detectOffloads(messages)
           form(i) == [role |-> messages[i].role,
                       chars |-> IF i \in found THEN pointer_chars ELSE messages[i].chars,
                       offloaded |-> i \in found]
<1>1. DOMAIN messages = 1..Len(messages) /\ Len(messages) \in Nat
  OBVIOUS
<1>2. applyOffloads(messages) = [i \in DOMAIN messages |-> form(i)]
  BY DEF applyOffloads
<1>3. applyOffloads(messages) \in Seq(Stored)
  BY OffloadsMarked
<1>4. \A i \in DOMAIN messages : i \in found <=> Offloaded(messages[i])
  BY DEF detectOffloads, Offloaded
<1>5. ASSUME NEW i \in DOMAIN messages
      PROVE  form(i) = StoredForm(messages[i])
  <2> HIDE DEF found
  <2>1. CASE i \in found
    <3>1. (i \in found) = TRUE /\ Offloaded(messages[i]) = TRUE
      BY <1>4, <2>1 DEF Offloaded
    <3> QED BY <3>1 DEF StoredForm
  <2>2. CASE i \notin found
    <3>1. (i \in found) = FALSE /\ Offloaded(messages[i]) = FALSE
      BY <1>4, <2>2 DEF Offloaded
    <3> QED BY <3>1 DEF StoredForm
  <2> QED BY <2>1, <2>2
<1> HIDE DEF form
<1>6. \A i \in DOMAIN messages : applyOffloads(messages)[i] = form(i)
  BY <1>2
<1>7. DOMAIN applyOffloads(messages) = DOMAIN messages
  BY <1>2
<1>8. Len(applyOffloads(messages)) = Len(messages)
  BY <1>1, <1>3, <1>7
<1> QED BY <1>1, <1>3, <1>5, <1>6, <1>8

LEMMA ApplyConcat ==
  ASSUME NEW a \in Seq(Message), NEW b \in Seq(Message)
  PROVE  applyOffloads(a \o b) = applyOffloads(a) \o applyOffloads(b)
<1> DEFINE m == a \o b
           sa == applyOffloads(a)
           sb == applyOffloads(b)
           sm == applyOffloads(m)
<1>1. /\ m \in Seq(Message) /\ Len(m) = Len(a) + Len(b)
      /\ Len(a) \in Nat /\ Len(b) \in Nat
      /\ \A i \in 1..Len(m) : m[i] = IF i <= Len(a) THEN a[i] ELSE b[i - Len(a)]
  OBVIOUS
<1> HIDE DEF m
<1>2. /\ sa \in Seq(Stored) /\ Len(sa) = Len(a)
      /\ \A i \in 1..Len(a) : sa[i] = StoredForm(a[i])
  BY ApplyIs
<1>3. /\ sb \in Seq(Stored) /\ Len(sb) = Len(b)
      /\ \A i \in 1..Len(b) : sb[i] = StoredForm(b[i])
  BY ApplyIs
<1>4. /\ sm \in Seq(Stored) /\ Len(sm) = Len(m)
      /\ \A i \in 1..Len(m) : sm[i] = StoredForm(m[i])
  BY <1>1, ApplyIs
<1> HIDE DEF sa, sb, sm
<1> DEFINE c == sa \o sb
<1>5. /\ c \in Seq(Stored) /\ Len(c) = Len(a) + Len(b)
      /\ \A i \in 1..Len(c) : c[i] = IF i <= Len(a) THEN sa[i] ELSE sb[i - Len(a)]
  <2>1. sa \in Seq(Stored) /\ sb \in Seq(Stored)
    BY <1>2, <1>3
  <2>2. /\ c \in Seq(Stored) /\ Len(c) = Len(sa) + Len(sb)
        /\ \A i \in 1..Len(c) : c[i] = IF i <= Len(sa) THEN sa[i] ELSE sb[i - Len(sa)]
    BY <2>1
  <2> HIDE DEF c
  <2> QED BY <1>2, <1>3, <2>2
<1> HIDE DEF c
<1>6. ASSUME NEW i \in 1..(Len(a) + Len(b))
      PROVE  sm[i] = c[i]
  <2>1. CASE i <= Len(a)
    <3>1. i \in 1..Len(a)
      BY <1>1, <2>1
    <3> QED BY <1>1, <1>2, <1>4, <1>5, <2>1, <3>1
  <2>2. CASE ~ (i <= Len(a))
    <3>1. i - Len(a) \in 1..Len(b)
      BY <1>1, <2>2
    <3> QED BY <1>1, <1>3, <1>4, <1>5, <2>2, <3>1
  <2> QED BY <2>1, <2>2
<1>7. sm = c
  BY <1>1, <1>4, <1>5, <1>6
<1> QED BY <1>7 DEF c, sa, sb, sm, m

\* The window and the history of the messages, beside the types of OInv.
WindowTypes ==
  /\ pendingMessages \in Seq(Message) /\ given \in Seq(Message)
  /\ log \in Seq(Turns)

\* The messages of the turns, in the order of the log.
Messages(ts) == [i \in DOMAIN ts |-> ts[i].messages]

LEMMA MessagesType ==
  ASSUME NEW ts \in Seq(Turns)
  PROVE  Messages(ts) \in Seq(Seq(Stored))
<1> DEFINE S == Turns
           V == Seq(Stored)
           a == Messages(ts)
<1>1. \A u \in S : u.messages \in V
  BY DEF Turns
<1> HIDE DEF S, V
<1>2. ts \in Seq(S)
  BY DEF S
<1>3. a \in Seq(V)
  BY <1>1, <1>2 DEF Messages
<1> QED BY <1>3 DEF V

LEMMA MessagesOfTurns ==
  ASSUME NEW ts \in Seq(Turns), NEW t \in Turns
  PROVE  /\ Messages(ts) \in Seq(Seq(Stored)) /\ t.messages \in Seq(Stored)
         /\ Messages(Append(ts, t)) = Append(Messages(ts), t.messages)
<1> DEFINE S == Turns
           V == Seq(Stored)
           more == Append(ts, t)
           a == Messages(ts)
           b == Messages(more)
           x == t.messages
<1>1. \A u \in S : u.messages \in V
  BY DEF Turns
<1> HIDE DEF S, V
<1>2. ts \in Seq(S) /\ t \in S
  BY DEF S
<1>3. /\ more \in Seq(S) /\ Len(more) = Len(ts) + 1 /\ Len(ts) \in Nat
      /\ more[Len(ts) + 1] = t /\ \A i \in 1..Len(ts) : more[i] = ts[i]
  BY <1>2, AppendIs
<1> HIDE DEF more
<1>4. /\ a \in Seq(V) /\ Len(a) = Len(ts)
      /\ \A i \in 1..Len(ts) : a[i] = ts[i].messages
  BY <1>1, <1>2 DEF Messages
<1>5. /\ b \in Seq(V) /\ Len(b) = Len(more)
      /\ \A i \in 1..Len(more) : b[i] = more[i].messages
  BY <1>1, <1>3 DEF Messages
<1>6. x \in V
  BY <1>1, <1>2
<1> HIDE DEF a, b
<1> DEFINE c == Append(a, x)
<1>7. /\ c \in Seq(V) /\ Len(c) = Len(ts) + 1
      /\ c[Len(ts) + 1] = x /\ \A i \in 1..Len(ts) : c[i] = a[i]
  BY <1>4, <1>6, AppendIs
<1> HIDE DEF c
<1>8. ASSUME NEW i \in 1..(Len(ts) + 1)
      PROVE  b[i] = c[i]
  <2>1. CASE i = Len(ts) + 1
    BY <1>3, <1>5, <1>7, <2>1
  <2>2. CASE i \in 1..Len(ts)
    BY <1>3, <1>4, <1>5, <1>7, <2>2
  <2> QED BY <1>3, <2>1, <2>2
<1>9. b = c
  BY <1>3, <1>5, <1>7, <1>8
<1> QED BY <1>4, <1>6, <1>9 DEF a, b, c, more, V

\* More messages at the end of the buffer and of the history.
LEMMA BufferedOnce ==
  ASSUME WindowTypes, MessagesOnce, NEW more \in Seq(Message),
         given' = given \o more, pendingMessages' = pendingMessages \o more, log' = log
  PROVE  WindowTypes' /\ MessagesOnce'
<1> DEFINE ts == Messages(log)
           f == FlattenSeq(ts)
           p == applyOffloads(pendingMessages)
           c == applyOffloads(more)
<1>1. WindowTypes'
  BY DEF WindowTypes
<1>2. f \in Seq(Stored) /\ p \in Seq(Stored) /\ c \in Seq(Stored)
  <2>1. ts \in Seq(Seq(Stored))
    BY MessagesType DEF WindowTypes
  <2>2. << >> \in Seq(Stored)
    OBVIOUS
  <2>3. f \in Seq(Stored)
    <3> HIDE DEF ts
    <3> QED BY <2>1, <2>2, FlattenAppend
  <2> QED BY <2>3, ApplyIs DEF WindowTypes
<1>3. applyOffloads(pendingMessages \o more) = p \o c
  BY ApplyConcat DEF WindowTypes
<1>4. applyOffloads(given \o more) = applyOffloads(given) \o c
  BY ApplyConcat DEF WindowTypes
<1>5. f \o p = applyOffloads(given)
  BY DEF MessagesOnce, Messages
<1> HIDE DEF f, p, c
<1>6. f \o (p \o c) = (f \o p) \o c
  BY <1>2
<1>7. f \o applyOffloads(pendingMessages') = applyOffloads(given')
  BY <1>3, <1>4, <1>5, <1>6
<1> QED BY <1>1, <1>7 DEF MessagesOnce, f, Messages

\* A turn takes the whole buffer, and a state in which it has been given the new
\* messages too is one in which they were buffered.
LEMMA TurnTakesOnce ==
  ASSUME WindowTypes, MessagesOnce, NEW more \in Seq(Message), NEW turn \in Turns,
         turn.messages = applyOffloads(pendingMessages \o more),
         given' = given \o more, pendingMessages' = << >>, log' = Append(log, turn)
  PROVE  WindowTypes' /\ MessagesOnce'
<1> DEFINE ts == Messages(log)
           f == FlattenSeq(ts)
           p == applyOffloads(pendingMessages)
           c == applyOffloads(more)
           x == turn.messages
<1>1. WindowTypes'
  <2>1. log' \in Seq(Turns) /\ given' \in Seq(Message)
    BY AppendIs DEF WindowTypes
  <2> QED BY <2>1 DEF WindowTypes
<1>2. ts \in Seq(Seq(Stored)) /\ x \in Seq(Stored) /\ Messages(log') = Append(ts, x)
  BY MessagesOfTurns DEF WindowTypes
<1>3. f \in Seq(Stored) /\ FlattenSeq(Messages(log')) = f \o x
  <2> HIDE DEF ts, x
  <2> QED BY <1>2, FlattenAppend
<1>4. p \in Seq(Stored) /\ c \in Seq(Stored) /\ x = p \o c
  BY ApplyConcat, ApplyIs DEF WindowTypes
<1>5. applyOffloads(given \o more) = applyOffloads(given) \o c
  BY ApplyConcat DEF WindowTypes
<1>6. f \o p = applyOffloads(given)
  BY DEF MessagesOnce, Messages
<1>7. applyOffloads(<< >>) = << >>
  <2>1. << >> \in Seq(Message)
    OBVIOUS
  <2>2. Len(applyOffloads(<< >>)) = 0 /\ applyOffloads(<< >>) \in Seq(Stored)
    BY <2>1, ApplyIs
  <2> QED BY <2>2
<1> HIDE DEF f, p, c, x
<1>8. f \o x = applyOffloads(given')
  <2>1. f \o (p \o c) = (f \o p) \o c
    BY <1>3, <1>4
  <2> QED BY <1>4, <1>5, <1>6, <2>1
<1>9. (f \o x) \o << >> = f \o x
  BY <1>2, <1>3, <1>4
<1>10. FlattenSeq(Messages(log')) \o applyOffloads(pendingMessages') = applyOffloads(given')
  BY <1>3, <1>7, <1>8, <1>9
<1> QED BY <1>1, <1>10 DEF MessagesOnce, Messages

\* Cutting the window with the new turn leaves the longest fit of the log.
LEMMA TurnCuts ==
  ASSUME log \in Seq(Turns), turns \in Seq(Turns), WindowIsLongestFit, NEW turn \in Turns,
         turns' = enforcebudget(Append(turns, turn)), log' = Append(log, turn)
  PROVE  turns' \in Seq(Turns) /\ WindowIsLongestFit'
<1> DEFINE S == Timed
           w == Len(turns)
           L == Len(log)
           ts == Append(turns, turn)
           l2 == Append(log, turn)
<1>1. turn \in S /\ log \in Seq(S) /\ turns \in Seq(S)
  <2> DEFINE R == Turns
  <2>1. log \in Seq(R) /\ turns \in Seq(R) /\ \A t \in R : t \in S
    BY TurnsAreTimed
  <2>2. turn \in S
    BY TurnsAreTimed
  <2> HIDE DEF R, S
  <2> QED BY <2>1, <2>2
<1>2. w \in Nat /\ L \in Nat /\ w <= L /\ w \in 0..L
  BY DEF WindowIsLongestFit
<1>3. /\ l2 \in Seq(S) /\ Len(l2) = L + 1 /\ ts \in Seq(S) /\ Len(ts) = w + 1
  <2> HIDE DEF S
  <2> QED BY <1>1, AppendIs
<1>4. ts = Latest(l2, w + 1)
  <2>1. turns = Latest(log, w)
    BY DEF WindowIsLongestFit
  <2> QED BY <1>1, <1>2, <2>1, LatestOfAppend
<1> HIDE DEF ts, l2
<1>5. \E k \in 0..(w + 1) : Evicts(ts, w + 1, k)
  <2>1. Len(ts) \in Nat /\ Len(ts) = w + 1
    BY <1>2, <1>3
  <2>2. \E k \in 0..Len(ts) : Evicts(ts, Len(ts), k)
    BY <2>1, EnforceIs
  <2> QED BY <2>1, <2>2
<1>5a. PICK k \in 0..(w + 1) : Evicts(ts, w + 1, k)
  BY <1>5
<1> DEFINE v == w + 1 - k
<1>6. v \in 0..(w + 1) /\ v \in Nat /\ v <= w + 1
  BY <1>2
<1>7. turns' = Latest(ts, v) /\ log' = l2
  BY <1>5a DEF ts, l2, Evicts
<1>8. \A n \in 0..(w + 1) : Latest(ts, n) = Latest(l2, n)
  <2>1. w + 1 \in 0..Len(l2)
    BY <1>2, <1>3
  <2> HIDE DEF S
  <2> QED BY <1>3, <1>4, <2>1, LatestOfLatest
<1>9. turns' = Latest(l2, v) /\ Len(turns') = v /\ turns' \in Seq(S)
  <2>1. v \in 0..Len(l2)
    BY <1>2, <1>3, <1>6
  <2> HIDE DEF S, v
  <2> QED BY <1>3, <1>6, <1>7, <1>8, <2>1, LatestIs
<1>10. turns' = << >> \/ ~ OverBudget(turns')
  <2>1. CASE k = w + 1
    <3>1. v = 0
      BY <1>2, <2>1
    <3> QED BY <1>9, <3>1
  <2>2. CASE k # w + 1
    BY <1>5a, <1>7, <2>2 DEF Evicts
  <2> QED BY <2>1, <2>2
<1>11. ASSUME NEW n \in (v + 1)..(L + 1)
       PROVE  OverBudget(Latest(l2, n))
  <2>1. CASE n <= w + 1
    <3> DEFINE j == w + 1 - n
    <3>1. j \in 0..(k - 1) /\ w + 1 - j = n /\ n \in 0..(w + 1)
      BY <1>2, <1>6, <2>1
    <3>2. OverBudget(Latest(ts, w + 1 - j))
      <4> HIDE DEF j
      <4> QED BY <1>5a, <3>1 DEF Evicts
    <3> QED BY <1>8, <3>1, <3>2
  <2>2. CASE ~ (n <= w + 1)
    <3> DEFINE m == n - 1
    <3>1. m \in (w + 1)..L /\ m \in 0..L /\ m + 1 = n
      BY <1>2, <1>6, <2>2
    <3>2. OverBudget(Latest(log, m))
      BY <3>1 DEF WindowIsLongestFit
    <3> HIDE DEF m
    <3>3. OverBudget(Latest(Append(log, turn), m + 1))
      BY <1>1, <3>1, <3>2, GrownIsOver
    <3> QED BY <3>1, <3>3 DEF l2
  <2> QED BY <2>1, <2>2
<1>12. turns' \in Seq(Turns)
  <2> DEFINE R == Turns
  <2>1. \A t \in S : t \in R
    BY DEF Timed
  <2> HIDE DEF R, S
  <2>2. turns' \in Seq(R)
    BY <1>9, <2>1
  <2> QED BY <2>2 DEF R
<1>13. WindowIsLongestFit'
  <2>1. Len(turns') <= Len(log') /\ turns' = Latest(log', Len(turns'))
    BY <1>2, <1>3, <1>6, <1>7, <1>9
  <2>2. \A n \in (Len(turns') + 1)..Len(log') : OverBudget(Latest(log', n))
    BY <1>3, <1>7, <1>9, <1>11
  <2> QED BY <1>10, <2>1, <2>2 DEF WindowIsLongestFit
<1> QED BY <1>12, <1>13

\* The invariant of the window and the buffer.
WindowInv ==
  WindowTypes /\ turns \in Seq(Turns) /\ WindowIsLongestFit /\ MessagesOnce

\* A process starts with an empty window, and an empty history of it.
LEMMA EmptyWindow ==
  (turns = << >> /\ log = << >> /\ pendingMessages = << >> /\ given = << >>) => WindowInv
<1> SUFFICES ASSUME turns = << >>, log = << >>, pendingMessages = << >>, given = << >>
             PROVE  WindowInv
  OBVIOUS
<1>1. WindowTypes /\ turns \in Seq(Turns)
  BY DEF WindowTypes
<1>2. WindowIsLongestFit
  <2>1. Latest(<< >>, 0) = << >>
    BY DEF Latest
  <2> QED BY <2>1 DEF WindowIsLongestFit
<1>3. MessagesOnce
  <2> DEFINE none == applyOffloads(<< >>)
  <2>1. << >> \in Seq(Message)
    OBVIOUS
  <2>2. Len(none) = 0 /\ none \in Seq(Stored)
    BY <2>1, ApplyIs
  <2>3. none = << >>
    BY <2>2
  <2>4. FlattenSeq([i \in DOMAIN log |-> log[i].messages]) = << >>
    <3>1. [i \in DOMAIN log |-> log[i].messages] = << >>
      OBVIOUS
    <3> QED BY <3>1, FlattenNone
  <2> HIDE DEF none
  <2>5. << >> \o << >> = << >>
    OBVIOUS
  <2> QED BY <2>3, <2>4, <2>5 DEF MessagesOnce, none
<1> QED BY <1>1, <1>2, <1>3 DEF WindowInv

LEMMA WindowStart == OffloadInit => WindowInv
BY EmptyWindow DEF OffloadInit, Init

LEMMA WindowStep == OInv /\ WindowInv /\ [OffloadNext]_offloadVars => WindowInv'
<1> SUFFICES ASSUME OInv, WindowInv, [OffloadNext]_offloadVars PROVE WindowInv'
  OBVIOUS
<1>1. CASE Buffer
  <2>1. PICK batch \in Batches : Ingest(batch)
    BY <1>1 DEF Buffer
  <2> DEFINE more == Converted(batch)
  <2>2. more \in Seq(Message)
    BY BatchAssumption
  <2>3. /\ given' = given \o more /\ pendingMessages' = pendingMessages \o more
        /\ UNCHANGED <<turns, log>>
    BY <2>1 DEF Ingest
  <2> HIDE DEF more
  <2>4. WindowTypes' /\ MessagesOnce'
    BY <2>2, <2>3, BufferedOnce DEF WindowInv
  <2>5. turns' \in Seq(Turns) /\ WindowIsLongestFit'
    BY <2>3 DEF WindowInv, WindowIsLongestFit
  <2> QED BY <2>4, <2>5 DEF WindowInv
<1>2. CASE EndTurn
  <2>1. PICK batch \in Batches : AfterTurn(batch)
    BY <1>2 DEF EndTurn
  <2> DEFINE more == Converted(batch)
             messages == pendingMessages \o more
             turn == TurnOf(messages)
  <2>2. more \in Seq(Message) /\ messages \in Seq(Message)
    BY BatchAssumption, MessagesAre DEF OInv
  <2>3. /\ given' = given \o more /\ pendingMessages' = << >>
        /\ turns' = enforcebudget(Append(turns, turn))
        /\ log' = Append(log, turn)
    BY <2>1 DEF AfterTurn, pushTurn
  <2>4. turn = [index |-> nextIndex, messages |-> applyOffloads(messages),
                token_estimate |-> estimateTokens(applyOffloads(messages))]
    BY DEF TurnOf
  <2>5. turn \in Turns
    <3> HIDE DEF turn, messages
    <3>1. applyOffloads(messages) \in Seq(Stored) /\ nextIndex \in Nat
      BY <2>2, OffloadsMarked DEF OInv, OffloadTypes
    <3> QED BY <2>4, <3>1 DEF Turns
  <2>6. turn.messages = applyOffloads(pendingMessages \o more)
    BY <2>4
  <2> HIDE DEF more, turn
  <2>7. WindowTypes' /\ MessagesOnce'
    BY <2>2, <2>3, <2>5, <2>6, TurnTakesOnce DEF WindowInv
  <2>8. turns' \in Seq(Turns) /\ WindowIsLongestFit'
    BY <2>3, <2>5, TurnCuts DEF WindowInv, WindowTypes
  <2> QED BY <2>7, <2>8 DEF WindowInv
<1>3. CASE CrashRestart
  <2>1. turns' = << >> /\ log' = << >> /\ pendingMessages' = << >> /\ given' = << >>
    BY <1>3 DEF CrashRestart
  <2>2. (turns = << >> /\ log = << >> /\ pendingMessages = << >> /\ given = << >>)'
    BY <2>1
  <2>3. ((turns = << >> /\ log = << >> /\ pendingMessages = << >> /\ given = << >>)
           => WindowInv)'
    BY EmptyWindow, PTL
  <2> QED BY <2>2, <2>3
<1>4. CASE UNCHANGED windowVars
  BY <1>4 DEF windowVars, WindowInv, WindowTypes, WindowIsLongestFit, MessagesOnce
<1> QED
  BY <1>1, <1>2, <1>3, <1>4 DEF OffloadNext, OpenArtifact, WriteArtifact, StoreFails,
     Register, CommitTurn, Reload, SyncFails, offloadVars

LEMMA WindowInvariant == OffloadSpec => []WindowInv
BY WindowStart, WindowStep, OffloadInvariant, PTL DEF OffloadSpec

\* sliding-window.ts, pushTurn and enforcebudget: for any budgets and any turns, also
\* after any crash, the window is the longest run of the latest turns within both.
THEOREM WindowFits == OffloadSpec => []WindowIsLongestFit
<1>1. WindowInv => WindowIsLongestFit
  BY DEF WindowInv
<1> QED BY <1>1, WindowInvariant, PTL

\* openclaw-context-adapter.ts, ingest and afterTurn: for any batches in any order
\* every message is in one turn or in the buffer, once and in its place.
THEOREM MessagesAreOnce == OffloadSpec => []MessagesOnce
<1>1. WindowInv => MessagesOnce
  BY DEF WindowInv
<1> QED BY <1>1, WindowInvariant, PTL

-----------------------------------------------------------------------------
(***************************************************************************)
(* Recall.  A full recall stops at the first count of lines after which    *)
(* the next one does not fit.  A search stops collecting when the contexts *)
(* of its matches have enough lines: a match brings at most                *)
(* 2 * search_context_lines + 1 of them, so by then there are enough       *)
(* matches too.                                                            *)
(***************************************************************************)
\* What the least element of a set of numbers is.
LEMMA MinIs ==
  ASSUME NEW T, T \subseteq Nat, T # {}
  PROVE  Min(T) \in T /\ \A y \in T : Min(T) <= y
<1>1. \E x \in T : \A y \in T : x <= y
  BY LeastElement
<1> QED BY <1>1 DEF Min

LEMMA LinesAreTyped ==
  ASSUME NEW lines \in Seq(Line)
  PROVE  \A i \in 1..Len(lines) : lines[i].chars \in Nat
<1>1. \A i \in 1..Len(lines) : lines[i] \in Line
  OBVIOUS
<1> QED BY <1>1 DEF Line

\* The lines taken so far with their line ends, and the next one without.
LEMMA JoinedNext ==
  ASSUME NEW lines \in Seq(Line), NEW n \in 0..(Len(lines) - 1)
  PROVE  Joined(lines, n + 1)
           = SumOf([i \in 1..n |-> lines[i].chars + 1]) + lines[n + 1].chars
<1> DEFINE a == [i \in 1..n |-> lines[i].chars + 1]
           x == lines[n + 1].chars
           b == [i \in 1..(n + 1) |-> lines[i].chars + (IF i < n + 1 THEN 1 ELSE 0)]
           c == Append(a, x)
<1>1. n \in Nat /\ \A i \in 1..(n + 1) : lines[i].chars \in Nat
  <2>1. n \in Nat /\ \A i \in 1..(n + 1) : i \in 1..Len(lines)
    OBVIOUS
  <2> QED BY <2>1, LinesAreTyped
<1>2. /\ a \in Seq(Nat) /\ Len(a) = n
      /\ \A i \in 1..n : a[i] = lines[i].chars + 1
  <2>1. \A i \in 1..n : lines[i].chars + 1 \in Nat
    BY <1>1
  <2> QED BY <1>1, <2>1
<1>3. x \in Nat
  BY <1>1
<1> HIDE DEF a
<1>4. /\ c \in Seq(Nat) /\ Len(c) = n + 1
      /\ c[n + 1] = x /\ \A i \in 1..n : c[i] = a[i]
  BY <1>2, <1>3, AppendIs
<1>5. ASSUME NEW i \in 1..(n + 1)
      PROVE  lines[i].chars + (IF i < n + 1 THEN 1 ELSE 0) = c[i]
  <2> HIDE DEF c
  <2>1. CASE i = n + 1
    BY <1>1, <1>4, <2>1
  <2>2. CASE i \in 1..n
    BY <1>1, <1>2, <1>4, <2>2
  <2> QED BY <1>1, <2>1, <2>2
<1>6. b = c
  <2>1. c = [i \in 1..(n + 1) |-> c[i]]
    BY <1>1, <1>4
  <2> HIDE DEF c
  <2> QED BY <1>5, <2>1
<1>7. SumOf(c) = SumOf(a) + x
  BY <1>2, <1>3, SumOfAppend
<1> QED BY <1>6, <1>7 DEF Joined, a

LEMMA JoinedIsNat ==
  ASSUME NEW lines \in Seq(Line), NEW n \in 0..(Len(lines) - 1)
  PROVE  Joined(lines, n + 1) \in Nat
<1> DEFINE a == [i \in 1..n |-> lines[i].chars + 1]
<1>1. n \in Nat /\ \A i \in 1..(n + 1) : lines[i].chars \in Nat
  <2>1. n \in Nat /\ \A i \in 1..(n + 1) : i \in 1..Len(lines)
    OBVIOUS
  <2> QED BY <2>1, LinesAreTyped
<1>2. a \in Seq(Nat)
  <2>1. \A i \in 1..n : lines[i].chars + 1 \in Nat
    BY <1>1
  <2> QED BY <1>1, <2>1
<1>3. SumOf(a) \in Nat
  <2> HIDE DEF a
  <2> QED BY <1>2, SumOfAppend
<1>4. lines[n + 1].chars \in Nat
  BY <1>1
<1>5. Joined(lines, n + 1) = SumOf(a) + lines[n + 1].chars
  BY JoinedNext
<1> HIDE DEF a
<1> QED BY <1>3, <1>4, <1>5

LEMMA FullIsLongestFit ==
  ASSUME NEW lines \in Seq(Line)
  PROVE  IsLongestFit(lines, execFull(lines))
<1> DEFINE N == Len(lines)
           T == {n \in 0..N : n = N \/ StopsFull(lines, n)}
           Fits(n) == n <= full_mode_max_lines /\ (n > 0 => Joined(lines, n) <= full_mode_max_bytes)
           Over(n) == n + 1 > full_mode_max_lines \/ Joined(lines, n + 1) > full_mode_max_bytes
<1>1. N \in Nat /\ full_mode_max_lines \in Nat /\ full_mode_max_bytes \in Nat
  BY RecallAssumption
<1>2. \A n \in 0..(N - 1) : StopsFull(lines, n) <=> Over(n)
  <2>1. \A n \in 0..(N - 1) :
           Joined(lines, n + 1)
             = SumOf([i \in 1..n |-> lines[i].chars + 1]) + lines[n + 1].chars
    BY JoinedNext
  <2>2. \A n \in 0..(N - 1) : n >= full_mode_max_lines <=> n + 1 > full_mode_max_lines
    BY <1>1
  <2> QED BY <2>1, <2>2 DEF StopsFull
<1>3. \E n \in 0..N : execFull(lines) = 1..n /\ Fits(n) /\ (n < N => Over(n))
  <2>1. CASE N > full_mode_max_lines \/ Joined(lines, N) > full_mode_max_bytes
    <3> DEFINE n == Min(T)
    <3>1. T \subseteq Nat /\ N \in T
      BY <1>1
    <3>2. n \in T /\ \A y \in T : n <= y
      <4> HIDE DEF T
      <4> QED BY <3>1, MinIs
    <3>3. execFull(lines) = 1..n
      BY <2>1 DEF execFull
    <3> HIDE DEF n
    <3>4. n \in 0..N /\ (n < N => Over(n))
      <4>1. n \in 0..N /\ (n = N \/ StopsFull(lines, n))
        BY <3>2
      <4> HIDE DEF Over
      <4> QED BY <1>1, <1>2, <4>1
    <3>5. Fits(n)
      <4>1. CASE n = 0
        BY <1>1, <4>1
      <4>2. CASE n # 0
        <5> DEFINE m == n - 1
        <5>1. m \in 0..(N - 1) /\ m \in 0..N /\ m # N /\ ~ (n <= m) /\ m + 1 = n
          BY <1>1, <3>4, <4>2
        <5>2. m \notin T
          <6> HIDE DEF T
          <6> QED BY <3>2, <5>1
        <5>3. ~ Over(m)
          <6>1. ~ StopsFull(lines, m)
            BY <5>1, <5>2
          <6> HIDE DEF Over, m
          <6> QED BY <1>2, <5>1, <6>1
        <5>4. n <= full_mode_max_lines /\ ~ (Joined(lines, n) > full_mode_max_bytes)
          <6> HIDE DEF m
          <6> QED BY <1>1, <5>1, <5>3
        <5>5. Joined(lines, n) \in Nat
          <6> HIDE DEF m
          <6> QED BY <5>1, JoinedIsNat
        <5> QED BY <1>1, <5>4, <5>5
      <4> QED BY <4>1, <4>2
    <3> QED BY <3>3, <3>4, <3>5
  <2>2. CASE ~ (N > full_mode_max_lines) /\ ~ (Joined(lines, N) > full_mode_max_bytes)
    <3>1. execFull(lines) = 1..N
      BY <2>2 DEF execFull
    <3>2. N > 0 => Joined(lines, N) \in Nat
      <4>1. ASSUME N > 0 PROVE Joined(lines, N) \in Nat
        <5> DEFINE m == N - 1
        <5>1. m \in 0..(N - 1) /\ m + 1 = N
          BY <1>1, <4>1
        <5> HIDE DEF m
        <5> QED BY <5>1, JoinedIsNat
      <4> QED BY <4>1
    <3>3. Fits(N)
      BY <1>1, <2>2, <3>2
    <3> QED BY <1>1, <3>1, <3>3
  <2> QED BY <2>1, <2>2
<1> QED BY <1>3 DEF IsLongestFit

\* The matches up to a line, one line at a time.
LEMMA HitsAre ==
  ASSUME NEW lines, NEW n \in Nat
  PROVE  /\ IsFiniteSet(Hits(lines, n)) /\ Cardinality(Hits(lines, n)) \in Nat
         /\ Hits(lines, 0) = {}
         /\ lines[n + 1].hit => Hits(lines, n + 1) = Hits(lines, n) \cup {n + 1}
         /\ ~ lines[n + 1].hit => Hits(lines, n + 1) = Hits(lines, n)
<1>1. IsFiniteSet(1..n) /\ Hits(lines, n) \subseteq 1..n
  BY FS_Interval DEF Hits
<1>2. IsFiniteSet(Hits(lines, n)) /\ Cardinality(Hits(lines, n)) \in Nat
  BY <1>1, FS_Subset, FS_CardinalityType
<1>3. 1..(n + 1) = (1..n) \cup {n + 1} /\ n + 1 \notin 1..n /\ 1..0 = {}
  OBVIOUS
<1> QED BY <1>2, <1>3 DEF Hits

\* A match more is one more, and a later line has no fewer matches.
LEMMA HitsCount ==
  ASSUME NEW lines, NEW n \in Nat
  PROVE  /\ lines[n + 1].hit =>
              Cardinality(Hits(lines, n + 1)) = Cardinality(Hits(lines, n)) + 1
         /\ ~ lines[n + 1].hit =>
              Cardinality(Hits(lines, n + 1)) = Cardinality(Hits(lines, n))
<1>1. n + 1 \notin Hits(lines, n)
  BY DEF Hits
<1> QED BY <1>1, HitsAre, FS_AddElement

LEMMA HitsGrow ==
  ASSUME NEW lines, NEW n \in Nat, NEW m \in Nat, n <= m
  PROVE  /\ Hits(lines, n) \subseteq Hits(lines, m)
         /\ Cardinality(Hits(lines, n)) <= Cardinality(Hits(lines, m))
         /\ n < m /\ m \in Hits(lines, m) =>
              Cardinality(Hits(lines, n)) < Cardinality(Hits(lines, m))
<1> DEFINE a == Hits(lines, n)
           b == Hits(lines, m)
<1>1. a \subseteq b
  BY DEF Hits
<1>2. IsFiniteSet(b) /\ Cardinality(a) \in Nat /\ Cardinality(b) \in Nat
  BY HitsAre
<1>3. m \in a => m <= n
  BY DEF Hits
<1> HIDE DEF a, b
<1>4. Cardinality(a) <= Cardinality(b) /\ (Cardinality(b) = Cardinality(a) => a = b)
  BY <1>1, <1>2, FS_Subset
<1>5. n < m /\ m \in b => Cardinality(a) < Cardinality(b)
  BY <1>2, <1>3, <1>4
<1> QED BY <1>1, <1>4, <1>5 DEF a, b

Width == 2 * search_context_lines + 1

\* A match brings a context of its own of at most so many lines.
LEMMA AroundNext ==
  ASSUME NEW lines \in Seq(Line), NEW hits, NEW h \in Nat, IsFiniteSet(Around(lines, hits))
  PROVE  /\ IsFiniteSet(Around(lines, hits \cup {h}))
         /\ Cardinality(Around(lines, hits \cup {h})) <= Cardinality(Around(lines, hits)) + Width
<1> DEFINE c == search_context_lines
           a == Around(lines, hits)
           b == Around(lines, hits \cup {h})
           own == (h - c)..(h + c)
<1>1. c \in Nat
  BY RecallAssumption
<1>2. b \subseteq a \cup own
  BY <1>1 DEF Around
<1>3. IsFiniteSet(own) /\ Cardinality(own) = Width
  <2>1. h - c \in Int /\ h + c \in Int /\ ~ (h - c > h + c) /\ (h + c) - (h - c) + 1 = Width
    BY <1>1 DEF Width
  <2>2. Cardinality(own) = (h + c) - (h - c) + 1
    BY <2>1, FS_Interval
  <2> QED BY <2>1, <2>2, FS_Interval
<1> HIDE DEF a, b, own
<1>4. IsFiniteSet(a)
  BY DEF a
<1>5. /\ IsFiniteSet(a \cup own)
      /\ Cardinality(a \cup own) = Cardinality(a) + Cardinality(own) - Cardinality(a \cap own)
  BY <1>3, <1>4, FS_Union
<1>6. IsFiniteSet(a \cap own)
  BY <1>4, FS_Subset
<1>7. /\ Cardinality(a) \in Nat /\ Cardinality(own) \in Nat /\ Cardinality(a \cap own) \in Nat
  BY <1>3, <1>4, <1>6, FS_CardinalityType
<1>8. IsFiniteSet(b) /\ Cardinality(b) <= Cardinality(a \cup own)
  BY <1>2, <1>5, FS_Subset
<1>9. Cardinality(b) \in Nat
  BY <1>8, FS_CardinalityType
<1>10. Cardinality(b) <= Cardinality(a) + Width
  BY <1>3, <1>5, <1>7, <1>8, <1>9
<1> QED BY <1>8, <1>10 DEF a, b

LEMMA AroundBound ==
  ASSUME NEW lines \in Seq(Line), NEW n \in Nat
  PROVE  Cardinality(Around(lines, Hits(lines, n))) <= Cardinality(Hits(lines, n)) * Width
<1> DEFINE around(k) == Around(lines, Hits(lines, k))
           Bound(k) == /\ IsFiniteSet(around(k))
                       /\ Cardinality(around(k)) <= Cardinality(Hits(lines, k)) * Width
           S == {k \in Nat : Bound(k)}
<1>1. Width \in Nat
  BY RecallAssumption DEF Width
<1>2. 0 \in S
  <2>1. Hits(lines, 0) = {}
    BY HitsAre
  <2>2. around(0) = {}
    BY <2>1 DEF Around
  <2>3. Cardinality({}) = 0 /\ IsFiniteSet({}) /\ 0 <= 0 * Width
    BY <1>1, FS_EmptySet
  <2> QED BY <2>1, <2>2, <2>3
<1>3. ASSUME NEW k \in Nat, k \in S
      PROVE  k + 1 \in S
  <2>1. Bound(k)
    BY <1>3
  <2>2. CASE ~ lines[k + 1].hit
    <3>1. Hits(lines, k + 1) = Hits(lines, k)
      BY <2>2, HitsAre
    <3> QED BY <2>1, <3>1
  <2>3. CASE lines[k + 1].hit
    <3> DEFINE p == Cardinality(Hits(lines, k))
               q == Cardinality(around(k))
               r == Cardinality(around(k + 1))
    <3>1. Hits(lines, k + 1) = Hits(lines, k) \cup {k + 1}
      BY <2>3, HitsAre
    <3>2. IsFiniteSet(around(k + 1)) /\ r <= q + Width
      <4> DEFINE hits == Hits(lines, k)
                 h == k + 1
      <4>1. h \in Nat /\ IsFiniteSet(Around(lines, hits)) /\ Hits(lines, h) = hits \cup {h}
        BY <2>1, <3>1
      <4> HIDE DEF hits, h
      <4>2. /\ IsFiniteSet(Around(lines, hits \cup {h}))
            /\ Cardinality(Around(lines, hits \cup {h}))
                 <= Cardinality(Around(lines, hits)) + Width
        BY <4>1, AroundNext
      <4> QED BY <4>1, <4>2 DEF hits, h
    <3>3. Cardinality(Hits(lines, k + 1)) = p + 1 /\ p \in Nat
      BY <2>3, HitsAre, HitsCount
    <3>4. q \in Nat /\ r \in Nat
      BY <2>1, <3>2, FS_CardinalityType
    <3>5. q <= p * Width
      BY <2>1
    <3> HIDE DEF p, q, r, around
    <3>6. (p + 1) * Width = p * Width + Width /\ p * Width \in Nat
      BY <1>1, <3>3
    <3>7. r <= (p + 1) * Width
      BY <1>1, <3>2, <3>4, <3>5, <3>6
    <3> QED BY <3>2, <3>3, <3>7 DEF r
  <2> QED BY <2>2, <2>3
<1>4. n \in S
  <2> HIDE DEF S
  <2> QED BY <1>2, <1>3, Induction
<1> QED BY <1>4

\* With fewer matches than are allowed, all are shown; with more, the line of the last
\* one shown is the first line up to which there are as many as allowed.
LEMMA SearchIsFirst ==
  ASSUME NEW lines \in Seq(Line)
  PROVE  IsFirstMatches(lines, execSearch(lines))
<1> DEFINE N == Len(lines)
           M == search_max_matches
           H == Hits(lines, N)
           count(i) == Cardinality(Hits(lines, i))
           enough == {h \in H : Cardinality(Around(lines, Hits(lines, h))) >= M * Width}
           last == IF enough = {} THEN N ELSE Min(enough)
           found == Around(lines, Hits(lines, last))
           shownHits(i) == {h \in found : h <= i /\ lines[h].hit}
           capped == {i \in found : Cardinality(shownHits(i)) >= M}
           shown == IF capped = {} THEN found ELSE {i \in found : i <= Min(capped)}
           first == {h \in H : count(h) <= M}
<1>1. N \in Nat /\ M \in Nat /\ M >= 1 /\ search_context_lines \in Nat /\ Width \in Nat
      /\ Width >= 1 /\ DOMAIN lines = 1..N
  BY RecallAssumption DEF Width
<1>2. execSearch(lines) = shown
  BY DEF execSearch, Collected, Width
<1>3. /\ H \subseteq 1..N
      /\ \A i \in 0..N : \A h \in Nat : h \in Hits(lines, i) <=> h \in H /\ h <= i
  BY <1>1 DEF Hits
<1>4. last \in 0..N /\ (last = N \/ count(last) >= M)
  <2>1. CASE enough = {}
    BY <1>1, <2>1
  <2>2. CASE enough # {}
    <3>1. enough \subseteq Nat
      BY <1>3
    <3>2. Min(enough) \in enough
      <4> HIDE DEF enough
      <4> QED BY <2>2, <3>1, MinIs
    <3> DEFINE h == Min(enough)
               p == Cardinality(Hits(lines, h))
               q == Cardinality(Around(lines, Hits(lines, h)))
    <3>3. h \in 1..N /\ q >= M * Width /\ last = h
      BY <1>3, <2>2, <3>2
    <3> HIDE DEF h, last, enough
    <3>4. q <= p * Width /\ p \in Nat
      BY <3>3, AroundBound, HitsAre
    <3>5. q \in Nat
      <4> DEFINE A == Around(lines, Hits(lines, h))
      <4>1. A \subseteq 1..N /\ IsFiniteSet(1..N)
        BY <1>1, FS_Interval DEF Around
      <4> HIDE DEF A
      <4>2. IsFiniteSet(A)
        BY <4>1, FS_Subset
      <4>3. Cardinality(A) \in Nat
        BY <4>2, FS_CardinalityType
      <4> QED BY <4>3 DEF q, A
    <3> HIDE DEF p, q
    <3>6. M * Width <= p * Width
      <4>1. M * Width \in Nat /\ p * Width \in Nat
        BY <1>1, <3>4
      <4> QED BY <3>3, <3>4, <3>5, <4>1
    <3>7. M <= p
      <4>1. SUFFICES ASSUME p + 1 <= M PROVE FALSE
        BY <1>1, <3>4
      <4>2. PICK d \in Nat : M = p + 1 + d
        <5>1. M - (p + 1) \in Nat /\ M = p + 1 + (M - (p + 1))
          BY <1>1, <3>4, <4>1
        <5> QED BY <5>1
      <4>3. M * Width = p * Width + Width + d * Width /\ d * Width \in Nat /\ p * Width \in Nat
        <5> HIDE DEF M
        <5> QED BY <1>1, <3>4, <4>2
      <4> QED BY <1>1, <3>6, <4>3
    <3>8. count(last) = p
      BY <3>3 DEF p
    <3>9. last \in 0..N
      BY <1>1, <3>3
    <3>10. count(last) >= M
      BY <1>1, <3>4, <3>7, <3>8
    <3> QED BY <3>9, <3>10
  <2> QED BY <2>1, <2>2
<1> HIDE DEF last
<1>5. Hits(lines, last) \subseteq found /\ found \subseteq Around(lines, H) /\ found \subseteq 1..N
  <2>1. Hits(lines, last) \subseteq H
    BY <1>3, <1>4 DEF Hits
  <2>2. \A h \in H : h \in Nat /\ h - search_context_lines <= h /\ h <= h + search_context_lines
    BY <1>1, <1>3
  <2> QED BY <1>1, <1>3, <2>1, <2>2 DEF Around
<1>6. \A i \in 0..N : count(i) \in Nat /\ count(i) <= count(N)
  BY <1>1, HitsAre, HitsGrow
<1>7. CASE count(N) < M
  <2>1. last = N
    <3> HIDE DEF count, N, M
    <3>1. count(last) <= count(N) /\ count(last) \in Nat /\ count(N) \in Nat
      BY <1>1, <1>4, <1>6
    <3> QED BY <1>1, <1>4, <1>7, <3>1
  <2>2. first = H
    BY <1>1, <1>3, <1>6, <1>7
  <2>3. capped = {}
    <3>1. ASSUME NEW i \in found
          PROVE  ~ (Cardinality(shownHits(i)) >= M)
      <4>1. shownHits(i) \subseteq H
        BY <1>5 DEF Hits
      <4>2. IsFiniteSet(H) /\ count(N) \in Nat
        BY <1>1, HitsAre
      <4> DEFINE A == shownHits(i)
      <4> HIDE DEF A, H
      <4>3. IsFiniteSet(A) /\ Cardinality(A) <= Cardinality(H)
        BY <4>1, <4>2, FS_Subset DEF A
      <4>4. Cardinality(A) \in Nat
        BY <4>3, FS_CardinalityType
      <4>5. Cardinality(H) = count(N)
        BY DEF H
      <4>6. ~ (Cardinality(A) >= M)
        BY <1>1, <1>7, <4>2, <4>3, <4>4, <4>5
      <4> QED BY <4>6 DEF A
    <3> QED BY <3>1
  <2>4. shown = found
    BY <2>3
  <2>5. found = Around(lines, first)
    BY <2>1, <2>2
  <2>6. H \cap found = first
    BY <1>5, <2>1, <2>2
  <2> HIDE DEF found, shown, first, H
  <2>7. /\ H \cap shown = first
        /\ \A i \in Around(lines, first) : i \in shown
        /\ shown \subseteq Around(lines, H)
    BY <1>5, <2>4, <2>5, <2>6
  <2> QED BY <1>2, <2>7 DEF IsFirstMatches, H, first
<1>8. CASE ~ (count(N) < M)
  <2> DEFINE K == {i \in 0..N : count(i) >= M}
  <2>1. K \subseteq Nat /\ N \in K
    BY <1>1, <1>6, <1>8
  <2>2. PICK k \in K : \A i \in K : k <= i
    <3> HIDE DEF K
    <3> QED BY <2>1, LeastElement
  <2>3. k \in 0..N /\ count(k) >= M
    BY <2>2
  <2>4. \A i \in 0..N : i < k => count(i) < M
    BY <1>1, <1>6, <2>2
  <2>5. k # 0
    <3>1. count(0) = 0
      BY HitsAre, FS_EmptySet
    <3> QED BY <1>1, <2>3, <3>1
  <2>6. k \in H /\ count(k) = M
    <3> DEFINE m == k - 1
    <3>1. m \in Nat /\ m \in 0..N /\ m < k /\ m + 1 = k
      BY <1>1, <2>3, <2>5
    <3> HIDE DEF m
    <3>2. count(m) < M /\ count(m) \in Nat
      BY <1>6, <2>4, <3>1
    <3>3. /\ lines[m + 1].hit => count(m + 1) = count(m) + 1
          /\ ~ lines[m + 1].hit => count(m + 1) = count(m)
      BY <3>1, HitsCount
    <3>4. lines[k].hit /\ count(k) = M
      BY <1>1, <1>6, <2>3, <3>1, <3>2, <3>3
    <3> QED BY <1>1, <2>3, <2>5, <3>4 DEF Hits
  <2>7. k <= last
    <3> HIDE DEF count, N, M
    <3>1. count(last) >= M
      BY <1>1, <1>4, <1>6, <1>8
    <3>2. last \in K
      BY <1>4, <3>1
    <3> HIDE DEF K
    <3> QED BY <2>2, <3>2
  <2>8. Hits(lines, k) \subseteq Hits(lines, last)
    <3>1. k \in Nat /\ last \in Nat
      <4> HIDE DEF count, N, M
      <4> QED BY <1>1, <1>4, <2>3
    <3> QED BY <2>7, <3>1, HitsGrow
  <2>9. k \in found /\ Hits(lines, k) \subseteq found
    BY <1>3, <1>5, <2>3, <2>6, <2>8
  <2>10. \A i \in found : i <= k => shownHits(i) = Hits(lines, i)
    BY <1>1, <1>5, <2>3, <2>9 DEF Hits
  <2>11. k \in capped /\ \A i \in capped : k <= i
    <3> HIDE DEF found, shownHits
    <3>1. Cardinality(shownHits(k)) = count(k)
      <4>1. k <= k
        BY <2>3
      <4>2. shownHits(k) = Hits(lines, k)
        BY <2>9, <2>10, <4>1
      <4> QED BY <4>2
    <3>2. ASSUME NEW i \in capped, i < k
          PROVE  FALSE
      <4>1. i \in found /\ i \in 0..N /\ Cardinality(shownHits(i)) >= M
        BY <1>5, <3>2
      <4>2. Cardinality(shownHits(i)) = count(i)
        <5>1. i <= k
          BY <2>3, <3>2, <4>1
        <5>2. shownHits(i) = Hits(lines, i)
          BY <2>10, <4>1, <5>1
        <5> QED BY <5>2
      <4> QED BY <1>1, <1>6, <2>4, <3>2, <4>1, <4>2
    <3>3. \A i \in capped : i \in 0..N
      BY <1>5
    <3> QED BY <2>3, <2>9, <3>1, <3>2, <3>3
  <2>12. shown = {i \in found : i <= k}
    <3> HIDE DEF found, shownHits
    <3>1. capped \subseteq Nat /\ capped # {}
      <4>1. found \subseteq Nat
        BY <1>5
      <4> QED BY <2>11, <4>1
    <3> HIDE DEF capped
    <3>2. Min(capped) \in capped /\ \A i \in capped : Min(capped) <= i
      BY <3>1, MinIs
    <3>3. Min(capped) = k
      <4> DEFINE m == Min(capped)
      <4>1. m <= k /\ k <= m /\ m \in Nat /\ k \in Nat
        BY <2>3, <2>11, <3>1, <3>2
      <4> HIDE DEF m
      <4>2. m = k
        BY <4>1
      <4> QED BY <4>2 DEF m
    <3> QED BY <3>1, <3>3
  <2>13. \A h \in H : h \in first <=> h <= k
    <3>1. ASSUME NEW h \in H, h <= k
          PROVE  count(h) <= M
      <4>1. h \in Nat /\ k \in Nat
        BY <1>3, <2>3
      <4> QED BY <2>6, <3>1, <4>1, HitsGrow
    <3>2. ASSUME NEW h \in H, ~ (h <= k)
          PROVE  ~ (count(h) <= M)
      <4>1. h \in Nat /\ h \in 0..N /\ k \in Nat /\ k < h /\ h \in Hits(lines, h)
        BY <1>1, <1>3, <2>3, <3>2
      <4>2. count(k) < count(h)
        BY <4>1, HitsGrow
      <4> QED BY <1>1, <1>6, <2>6, <4>1, <4>2
    <3> QED BY <3>1, <3>2
  <2>14. first = Hits(lines, k)
    <3>1. \A h \in first : h \in H /\ h \in Nat
      BY <1>3
    <3>2. \A h \in Hits(lines, k) : h \in Nat
      BY DEF Hits
    <3> HIDE DEF first, H
    <3> QED BY <1>3, <2>3, <2>13, <3>1, <3>2
  <2>15. Max(first) = k
    <3>1. k \in first /\ first \subseteq Nat /\ \A h \in first : k >= h
      BY <1>3, <2>3, <2>6, <2>13
    <3> HIDE DEF first
    <3>2. Max(first) \in first /\ \A h \in first : Max(first) >= h
      BY <3>1 DEF Max
    <3> DEFINE m == Max(first)
    <3>3. m >= k /\ k >= m /\ m \in Nat /\ k \in Nat
      BY <2>3, <3>1, <3>2
    <3> HIDE DEF m
    <3>4. m = k
      BY <3>3
    <3> QED BY <3>4 DEF m
  <2>16. H \cap shown = first
    <3>1. first \subseteq found
      BY <2>9, <2>14
    <3>2. first \subseteq H
      OBVIOUS
    <3> HIDE DEF shown, first, found, H
    <3> QED BY <2>12, <2>13, <3>1, <3>2
  <2>17. ASSUME NEW i \in Around(lines, first), i <= Max(first)
         PROVE  i \in shown
    <3>1. i \in found
      BY <2>8, <2>14 DEF Around
    <3> HIDE DEF shown, first, found
    <3> QED BY <2>12, <2>15, <2>17, <3>1
  <2>18. shown \subseteq Around(lines, H)
    <3> HIDE DEF found, shown
    <3> QED BY <1>5, <2>12
  <2> HIDE DEF shown
  <2> QED BY <1>2, <2>16, <2>17, <2>18 DEF IsFirstMatches
<1> QED BY <1>7, <1>8

\* The lines of a referenced artifact.
LEMMA StoredLines == OInv => \A r \in refs : artifacts[r].lines \in Seq(Line)
<1> SUFFICES ASSUME OInv, NEW r \in refs PROVE artifacts[r].lines \in Seq(Line)
  OBVIOUS
<1> DEFINE Files == [text : Texts, lines : Lines, whole : BOOLEAN]
<1>1. \A file \in Files : file.lines \in Lines
  OBVIOUS
<1>2. artifacts \in Seq(Files) /\ r \in DOMAIN artifacts
  BY DEF OInv, OffloadTypes
<1> HIDE DEF Files
<1> QED BY <1>1, <1>2 DEF Lines

\* recall-tool.ts, full: for any caps, of every referenced artifact the longest
\* beginning within them is shown.
THEOREM FullRecallFits == OffloadSpec => []FullRecallIsLongestFit
<1>1. OInv => FullRecallIsLongestFit
  BY StoredLines, FullIsLongestFit DEF FullRecallIsLongestFit
<1> QED BY <1>1, OffloadInvariant, PTL

\* recall-tool.ts, search: for any context and any number of matches allowed, of every
\* referenced artifact the first matches are shown.
THEOREM SearchFinds == OffloadSpec => []SearchFindsFirstMatches
<1>1. OInv => SearchFindsFirstMatches
  BY StoredLines, SearchIsFirst DEF SearchFindsFirstMatches
<1> QED BY <1>1, OffloadInvariant, PTL
=============================================================================
