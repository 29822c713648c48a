-------------------------- MODULE Manifest_proofs --------------------------
(***************************************************************************)
(* Safety of the manifest, of the manager in memory and of the file.       *)
(*                                                                         *)
(* ManifestManager, for every set of values, keys, sources and slots,      *)
(* every threshold and every bound.  The argument is made on the records   *)
(* ManifestOps works on: MInv(m) is the inductive invariant of a manager,  *)
(* and each operation is shown to preserve it by a lemma.  A document read *)
(* from disk has the part of MInv that does not speak of the indexes, and  *)
(* buildIndexes restores the rest.  What a commit writes (saving, lineage, *)
(* authority), what a refinement settles and what the loop of              *)
(* findAuthoritativeFact keeps follow from a second description of the     *)
(* operations, by their effect on the lists of facts and summaries.        *)
(*                                                                         *)
(* ManifestCommit, for any number of managers, calls and mutations.  Types *)
(* hold of any callers.  For callers whose calls on the path do not        *)
(* overlap and who do not mutate a manager while a call on it is in        *)
(* progress, the file implements PublishedManifest whatever I/O errors and *)
(* crashes come between the steps, no acknowledged commit is lost, and a   *)
(* clean manager is current.                                               *)
(***************************************************************************)
EXTENDS ManifestManager, ManifestCommit, ListLemmas

MType(m) ==
  /\ m \in [facts : Seq(Fact), active_facts : SUBSET Nat,
            conflicted_facts : SUBSET Nat, summaries : Seq(Summary),
            summary_deps : SUBSET (Nat \X Nat), dirty : BOOLEAN]
  /\ Len(m.facts) <= MaxFacts /\ Len(m.summaries) <= MaxSummaries
  /\ m.active_facts \subseteq DOMAIN m.facts
  /\ m.conflicted_facts \subseteq DOMAIN m.facts
  /\ m.summary_deps \subseteq ((DOMAIN m.facts \cup Unknown) \X DOMAIN m.summaries)

DType(d) ==
  /\ d \in [facts : Seq(Fact), summaries : Seq(Summary)]
  /\ Len(d.facts) <= MaxFacts /\ Len(d.summaries) <= MaxSummaries

\* IndexSafety of a manager.
MIndex(m) ==
  /\ \A i \in m.active_facts : m.facts[i].state = "active"
  /\ \A i \in DOMAIN m.facts :
       m.facts[i].state = "conflicted" => i \in m.conflicted_facts

\* A summary saw its sources, and the dependency index leads from each of them
\* to every summary that is still active.
MSeen(m) ==
  \A s \in DOMAIN m.summaries : \A p \in m.summaries[s].seen :
    p[1] \in DOMAIN m.facts /\ p[1] \in m.summaries[s].source_fact_ids

MDeps(m) ==
  \A s \in DOMAIN m.summaries : m.summaries[s].state = "active" =>
    \A i \in m.summaries[s].source_fact_ids : <<i, s>> \in m.summary_deps

MFresh(m) ==
  \A s \in DOMAIN m.summaries :
    (m.summaries[s].state = "active" /\ ~ m.summaries[s].stale) =>
      \A p \in m.summaries[s].seen : m.facts[p[1]].state \in {p[2], "active"}

MOne(m) ==
  \A s, t \in DOMAIN m.summaries :
    (/\ m.summaries[s].state = "active" /\ m.summaries[t].state = "active"
     /\ m.summaries[s].slot = m.summaries[t].slot) => s = t

MInv(m) == MType(m) /\ MIndex(m) /\ MSeen(m) /\ MDeps(m) /\ MFresh(m) /\ MOne(m)

DInv(d) == DType(d) /\ MSeen(d) /\ MFresh(d) /\ MOne(d)

IInv == MInv(Manager) /\ DInv(disk)

-----------------------------------------------------------------------------
\* A function on the positions of a list is a list of the same length.
LEMMA SameLength ==
  ASSUME NEW S, NEW T, NEW q \in Seq(S), NEW f \in [DOMAIN q -> T]
  PROVE  f \in Seq(T) /\ Len(f) = Len(q) /\ DOMAIN f = DOMAIN q
BY DOMAIN q = 1..Len(q)

\* insertFact appends a fact, and indexes it by the state it has.
LEMMA InsertInv ==
  ASSUME NEW m, MInv(m), NEW fact \in Fact, Len(m.facts) < MaxFacts
  PROVE  /\ MInv(insertFact(m, fact))
         /\ DOMAIN insertFact(m, fact).facts = 1..(Len(m.facts) + 1)
         /\ \A i \in DOMAIN m.facts : insertFact(m, fact).facts[i] = m.facts[i]
<1> DEFINE n == insertFact(m, fact)
           id == Len(m.facts) + 1
<1> USE BoundAssumption
<1>0. /\ m.facts \in Seq(Fact) /\ m.summaries \in Seq(Summary)
      /\ DOMAIN m.facts = 1..Len(m.facts) /\ Len(m.facts) \in Nat
  BY DEF MInv, MType
<1>1. n = [facts |-> Append(m.facts, fact),
           active_facts |-> m.active_facts \cup {i \in {id} : fact.state = "active"},
           conflicted_facts |->
             m.conflicted_facts \cup {i \in {id} : fact.state = "conflicted"},
           summaries |-> m.summaries, summary_deps |-> m.summary_deps,
           dirty |-> TRUE]
  BY DEF insertFact
<1>2. /\ n.facts \in Seq(Fact) /\ DOMAIN n.facts = 1..id
      /\ Len(n.facts) = id /\ n.facts[id] = fact
      /\ \A i \in DOMAIN m.facts : n.facts[i] = m.facts[i]
  BY <1>0, <1>1
<1>3. MType(n)
  BY <1>0, <1>1, <1>2 DEF MInv, MType
<1>4. MIndex(n)
  BY <1>0, <1>1, <1>2 DEF MInv, MIndex, MType
<1>5. MSeen(n) /\ MDeps(n) /\ MFresh(n) /\ MOne(n)
  BY <1>0, <1>1, <1>2 DEF MInv, MSeen, MDeps, MFresh, MOne
<1> QED BY <1>2, <1>3, <1>4, <1>5 DEF MInv

\* An assignment to a fact that keeps its state, or makes it active, needs no
\* change of the indexes or of the summaries.
LEMMA SetFactInv ==
  ASSUME NEW m, MInv(m), NEW i \in DOMAIN m.facts, NEW fact \in Fact,
         fact.state \in {m.facts[i].state, "active"}
  PROVE  MInv(SetFact(m, i, fact)) /\ DOMAIN SetFact(m, i, fact).facts = DOMAIN m.facts
<1> DEFINE n == SetFact(m, i, fact)
<1>0. m.facts \in Seq(Fact) /\ m.facts \in [DOMAIN m.facts -> Fact]
  BY DEF MInv, MType
<1>1. /\ n.facts = [m.facts EXCEPT ![i] = fact]
      /\ n.active_facts = m.active_facts
      /\ n.conflicted_facts = m.conflicted_facts
      /\ n.summaries = m.summaries
      /\ n.summary_deps = m.summary_deps
      /\ n.dirty = m.dirty
  BY DEF SetFact, MInv, MType
<1>2. /\ n.facts \in Seq(Fact) /\ Len(n.facts) = Len(m.facts)
      /\ DOMAIN n.facts = DOMAIN m.facts
  <2>1. n.facts \in [DOMAIN m.facts -> Fact]
    BY <1>0, <1>1
  <2> QED BY <1>0, <2>1, SameLength
<1>3. MType(n)
  BY <1>1, <1>2 DEF MInv, MType, SetFact
<1>4. MIndex(n)
  BY <1>0, <1>1, <1>2 DEF MInv, MIndex, MType
<1>5. MSeen(n) /\ MDeps(n) /\ MOne(n)
  BY <1>1, <1>2 DEF MInv, MSeen, MDeps, MOne
<1>6. MFresh(n)
  BY <1>0, <1>1, <1>2 DEF MInv, MSeen, MFresh
<1> QED BY <1>2, <1>3, <1>4, <1>5, <1>6 DEF MInv

\* Retiring facts keeps the indexes safe and flags every active summary that
\* the dependency index leads to.
LEMMA RetireInv ==
  ASSUME NEW m, MInv(m), NEW ids \in SUBSET DOMAIN m.facts,
         NEW state \in FactStates \ {"active"}
  PROVE  /\ MInv(Retire(m, ids, state))
         /\ DOMAIN Retire(m, ids, state).facts = DOMAIN m.facts
<1> DEFINE n == Retire(m, ids, state)
           was(s) == {i \in ids : m.facts[i].state = s}
           to(s)  == {i \in ids : state = s}
           hit(s) == \E i \in ids : <<i, s>> \in m.summary_deps
           moved(i) == [m.facts[i] EXCEPT !.state = state]
           staled(s) == [m.summaries[s] EXCEPT !.stale = TRUE]
<1>0. /\ m.facts \in Seq(Fact) /\ m.facts \in [DOMAIN m.facts -> Fact]
      /\ m.summaries \in Seq(Summary)
      /\ m.summaries \in [DOMAIN m.summaries -> Summary]
      /\ DOMAIN m.facts \subseteq Nat
  BY DEF MInv, MType
<1>1. /\ n.facts = [i \in DOMAIN m.facts |->
                      IF i \in ids THEN moved(i) ELSE m.facts[i]]
      /\ n.active_facts = (m.active_facts \ was("active")) \cup to("active")
      /\ n.conflicted_facts =
           (m.conflicted_facts \ was("conflicted")) \cup to("conflicted")
      /\ n.summaries = [s \in DOMAIN m.summaries |->
                          IF hit(s) THEN staled(s) ELSE m.summaries[s]]
      /\ n.summary_deps = m.summary_deps
      /\ n.dirty = (m.dirty \/ ids # {})
      /\ n = [facts |-> n.facts, active_facts |-> n.active_facts,
              conflicted_facts |-> n.conflicted_facts,
              summaries |-> n.summaries, summary_deps |-> n.summary_deps,
              dirty |-> n.dirty]
  BY DEF Retire
<1>a. \A i \in DOMAIN m.facts : moved(i) \in Fact /\ moved(i).state = state
  BY <1>0 DEF Fact
<1>b. \A s \in DOMAIN m.summaries :
        /\ staled(s) \in Summary /\ staled(s).stale
        /\ staled(s).slot = m.summaries[s].slot
        /\ staled(s).state = m.summaries[s].state
        /\ staled(s).source_fact_ids = m.summaries[s].source_fact_ids
        /\ staled(s).seen = m.summaries[s].seen
  BY <1>0 DEF Summary
<1> HIDE DEF n, moved, staled
<1>2. /\ n.facts \in Seq(Fact) /\ Len(n.facts) = Len(m.facts)
      /\ DOMAIN n.facts = DOMAIN m.facts
  <2>1. n.facts \in [DOMAIN m.facts -> Fact]
    BY <1>0, <1>1, <1>a
  <2> QED BY <1>0, <2>1, SameLength
<1>3. \A i \in DOMAIN m.facts :
        n.facts[i].state = IF i \in ids THEN state ELSE m.facts[i].state
  BY <1>0, <1>1, <1>a
<1>4. /\ n.summaries \in Seq(Summary) /\ Len(n.summaries) = Len(m.summaries)
      /\ DOMAIN n.summaries = DOMAIN m.summaries
  <2>1. n.summaries \in [DOMAIN m.summaries -> Summary]
    BY <1>0, <1>1, <1>b
  <2> QED BY <1>0, <2>1, SameLength
<1>5. \A s \in DOMAIN m.summaries :
        /\ n.summaries[s].slot = m.summaries[s].slot
        /\ n.summaries[s].state = m.summaries[s].state
        /\ n.summaries[s].source_fact_ids = m.summaries[s].source_fact_ids
        /\ n.summaries[s].seen = m.summaries[s].seen
        /\ hit(s) => n.summaries[s].stale
        /\ ~ hit(s) => n.summaries[s].stale = m.summaries[s].stale
  BY <1>0, <1>1, <1>b
<1>6. MType(n)
  <2>1. n \in [facts : Seq(Fact), active_facts : SUBSET Nat,
               conflicted_facts : SUBSET Nat, summaries : Seq(Summary),
               summary_deps : SUBSET (Nat \X Nat), dirty : BOOLEAN]
    <3>1. /\ n.active_facts \in SUBSET Nat /\ n.conflicted_facts \in SUBSET Nat
          /\ n.summary_deps \in SUBSET (Nat \X Nat)
      BY <1>0, <1>1 DEF MInv, MType
    <3>2. n.dirty \in BOOLEAN
      BY <1>1
    <3> QED BY <1>1, <1>2, <1>4, <3>1, <3>2
  <2>2. /\ n.active_facts \subseteq DOMAIN n.facts
        /\ n.conflicted_facts \subseteq DOMAIN n.facts
    BY <1>1, <1>2 DEF MInv, MType
  <2> QED BY <1>1, <1>2, <1>4, <2>1, <2>2 DEF MInv, MType
<1>7. MIndex(n)
  BY <1>1, <1>2, <1>3 DEF MInv, MIndex, MType
<1> HIDE DEF was, to
<1>8. MSeen(n) /\ MDeps(n) /\ MOne(n)
  <2>1. MSeen(n)
    BY <1>2, <1>4, <1>5 DEF MInv, MSeen
  <2>2. MDeps(n)
    BY <1>1, <1>4, <1>5 DEF MInv, MDeps
  <2>3. MOne(n)
    BY <1>4, <1>5 DEF MInv, MOne
  <2> QED BY <2>1, <2>2, <2>3
<1>9. MFresh(n)
  <2> SUFFICES ASSUME NEW s \in DOMAIN m.summaries,
                      m.summaries[s].state = "active", ~ n.summaries[s].stale,
                      NEW p \in m.summaries[s].seen
               PROVE  n.facts[p[1]].state \in {p[2], "active"}
    BY <1>4, <1>5 DEF MFresh
  <2>1. ~ hit(s) /\ ~ m.summaries[s].stale
    BY <1>5
  <2>2. p[1] \in DOMAIN m.facts /\ p[1] \in m.summaries[s].source_fact_ids
    BY DEF MInv, MSeen
  <2>3. p[1] \notin ids
    BY <2>1, <2>2 DEF MInv, MDeps
  <2> QED BY <1>3, <2>1, <2>2, <2>3 DEF MInv, MFresh
<1> QED BY <1>2, <1>6, <1>7, <1>8, <1>9 DEF MInv, n

-----------------------------------------------------------------------------
\* What the operations are given.
Input == [value : Values, confidence : 0..CONFIDENCE_MAX, source : Sources,
          derived_from : SUBSET Nat]

Outcomes == {"new", "converge", "supersede", "reject", "conflict"}

\* A decision against an existing fact names a fact of the manifest.
LEMMA ArbitrateNames ==
  ASSUME NEW m, NEW in, NEW d \in arbitrate(m, in)
  PROVE  /\ d.outcome \in Outcomes
         /\ d.outcome # "new" => d.existing \in DOMAIN m.facts
<1> DEFINE auth == findAuthoritativeFact(m, KeyOf[in.value])
<1>1. auth \subseteq DOMAIN m.facts
  BY DEF findAuthoritativeFact, FactsByKey
<1>2. CASE auth = {}
  BY <1>2 DEF arbitrate, Outcomes
<1>3. CASE auth # {}
  <2>1. PICK e \in auth : d \in {[outcome |-> o, existing |-> e] :
                                  o \in OutcomesAgainst(in, m.facts[e])}
    BY <1>3 DEF arbitrate
  <2>2. PICK o \in OutcomesAgainst(in, m.facts[e]) :
               d = [outcome |-> o, existing |-> e]
    BY <2>1
  <2>3. o \in Outcomes
    BY <2>2 DEF OutcomesAgainst, Outcomes
  <2> QED BY <1>1, <2>1, <2>2, <2>3
<1> QED BY <1>2, <1>3

\* The fact an input becomes is well formed.
LEMMA BuildFactType ==
  ASSUME NEW in \in Input, NEW state \in FactStates
  PROVE  buildFact(in, state) \in Fact /\ buildFact(in, state).state = state
BY DEF Input, Fact, buildFact

\* Convergence keeps a fact well formed and in its state.
LEMMA ConvergenceType ==
  ASSUME NEW fact \in Fact, NEW source \in Sources
  PROVE  /\ applyConvergence(fact, source) \in Fact
         /\ applyConvergence(fact, source).state = fact.state
<1> DEFINE raised == fact.confidence + CONVERGENCE_BONUS
           c == IF raised > CONFIDENCE_MAX THEN CONFIDENCE_MAX ELSE raised
<1>1. c \in 0..CONFIDENCE_MAX
  BY ThresholdAssumption DEF Fact
<1>2. fact.supporting_sources \cup {source} \in SUBSET Sources
  BY DEF Fact
<1>3. applyConvergence(fact, source) =
        [fact EXCEPT !.confidence = c,
                     !.supporting_sources = fact.supporting_sources \cup {source}]
  BY DEF applyConvergence
<1> HIDE DEF c
<1> QED BY <1>1, <1>2, <1>3 DEF Fact

\* addFact preserves the invariant on each of its five outcomes.
LEMMA AddFactInv ==
  ASSUME NEW m, MInv(m), NEW in \in Input, NEW d \in arbitrate(m, in),
         d.outcome = "converge" \/ Len(m.facts) < MaxFacts
  PROVE  /\ MInv(addFact(m, in, d))
         /\ DOMAIN m.facts \subseteq DOMAIN addFact(m, in, d).facts
         /\ ResultId(m, d) \in DOMAIN addFact(m, in, d).facts
<1> DEFINE e == d.existing
           strengthened == SetFact(m, e, applyConvergence(m.facts[e], in.source))
<1>0. /\ d.outcome \in Outcomes
      /\ d.outcome # "new" => e \in DOMAIN m.facts
      /\ DOMAIN m.facts = 1..Len(m.facts) /\ Len(m.facts) \in Nat
      /\ in.source \in Sources
      /\ {"active", "superseded", "conflicted"} \subseteq FactStates
  BY ArbitrateNames DEF MInv, MType, Input, FactStates
<1>1. ASSUME e \in DOMAIN m.facts
      PROVE  /\ MInv(strengthened)
             /\ DOMAIN strengthened.facts = DOMAIN m.facts
             /\ Len(strengthened.facts) = Len(m.facts)
  <2>1. m.facts[e] \in Fact
    BY <1>1 DEF MInv, MType
  <2>2. MInv(strengthened) /\ DOMAIN strengthened.facts = DOMAIN m.facts
    BY <1>0, <1>1, <2>1, ConvergenceType, SetFactInv
  <2>3. strengthened.facts \in Seq(Fact)
    BY <2>2 DEF MInv, MType
  <2> QED BY <1>0, <2>2, <2>3
<1> HIDE DEF strengthened
<1>2. CASE d.outcome = "new"
  <2> DEFINE n == insertFact(m, buildFact(in, "active"))
  <2>1. addFact(m, in, d) = n
    BY <1>2 DEF addFact
  <2>2. MInv(n) /\ DOMAIN n.facts = 1..(Len(m.facts) + 1)
    BY <1>0, <1>2, BuildFactType, InsertInv
  <2> HIDE DEF n
  <2> QED BY <1>0, <1>2, <2>1, <2>2 DEF ResultId
<1>3. CASE d.outcome = "converge"
  <2>1. addFact(m, in, d) = strengthened
    BY <1>3 DEF addFact, strengthened
  <2> QED BY <1>0, <1>1, <1>3, <2>1 DEF ResultId
<1>4. CASE d.outcome = "supersede"
  <2> DEFINE n == insertFact(m, buildFact(in, "active"))
             w == Retire(n, {e}, "superseded")
  <2>1. addFact(m, in, d) = w /\ ResultId(m, d) = Len(m.facts) + 1
    BY <1>4 DEF addFact, ResultId
  <2>2. MInv(n) /\ DOMAIN n.facts = 1..(Len(m.facts) + 1)
    BY <1>0, <1>4, BuildFactType, InsertInv
  <2>3. {e} \in SUBSET DOMAIN n.facts /\ "superseded" \in FactStates \ {"active"}
    BY <1>0, <1>4, <2>2
  <2> HIDE DEF n
  <2>4. MInv(w) /\ DOMAIN w.facts = DOMAIN n.facts
    BY <2>2, <2>3, RetireInv
  <2> HIDE DEF w
  <2> QED BY <1>0, <2>1, <2>2, <2>4
<1>5. CASE d.outcome = "reject"
  <2> DEFINE n == insertFact(strengthened, buildFact(in, "superseded"))
  <2>1. addFact(m, in, d) = n
    BY <1>5 DEF addFact, strengthened
  <2>2. MInv(strengthened) /\ Len(strengthened.facts) = Len(m.facts)
    BY <1>0, <1>1, <1>5
  <2>3. MInv(n) /\ DOMAIN n.facts = 1..(Len(m.facts) + 1)
    BY <1>0, <1>5, <2>2, BuildFactType, InsertInv
  <2> HIDE DEF n
  <2> QED BY <1>0, <1>5, <2>1, <2>3 DEF ResultId
<1>6. CASE d.outcome = "conflict"
  <2> DEFINE n == insertFact(m, buildFact(in, "conflicted"))
             w == Retire(n, {e}, "conflicted")
  <2>1. addFact(m, in, d) = w /\ ResultId(m, d) = Len(m.facts) + 1
    BY <1>6 DEF addFact, ResultId
  <2>2. MInv(n) /\ DOMAIN n.facts = 1..(Len(m.facts) + 1)
    BY <1>0, <1>6, BuildFactType, InsertInv
  <2>3. {e} \in SUBSET DOMAIN n.facts /\ "conflicted" \in FactStates \ {"active"}
    BY <1>0, <1>6, <2>2
  <2> HIDE DEF n
  <2>4. MInv(w) /\ DOMAIN w.facts = DOMAIN n.facts
    BY <2>2, <2>3, RetireInv
  <2> HIDE DEF w
  <2> QED BY <1>0, <2>1, <2>2, <2>4
<1> QED BY <1>0, <1>2, <1>3, <1>4, <1>5, <1>6 DEF Outcomes

\* What proposeRefinement does before its sweep.
Forced(m, target, in, d) ==
  LET r     == ResultId(m, d)
      added == addFact(m, in, d)
  IN  IF d.outcome \in {"supersede", "new"} THEN added
      ELSE Retire(SetFact(added, r, [added.facts[r] EXCEPT !.state = "active"]),
                  {target}, "superseded")

Swept(m, target, in, d) ==
  {i \in Forced(m, target, in, d).conflicted_facts :
     /\ i # ResultId(m, d)
     /\ KeyOf[Forced(m, target, in, d).facts[i].value] = KeyOf[m.facts[target].value]}

LEMMA RefinementParts ==
  ASSUME NEW m, NEW target, NEW in, NEW d
  PROVE  proposeRefinement(m, target, in, d) =
           Retire(Forced(m, target, in, d), Swept(m, target, in, d), "superseded")
BY DEF proposeRefinement, Forced, Swept

\* proposeRefinement: arbitration, the forced activation ...
LEMMA ForcedInv ==
  ASSUME NEW m, MInv(m), NEW target \in DOMAIN m.facts,
         NEW in \in Input, NEW d \in arbitrate(m, in),
         d.outcome = "converge" \/ Len(m.facts) < MaxFacts
  PROVE  MInv(Forced(m, target, in, d))
<1> DEFINE r      == ResultId(m, d)
           added  == addFact(m, in, d)
           made   == SetFact(added, r, [added.facts[r] EXCEPT !.state = "active"])
<1>1. MInv(added) /\ DOMAIN m.facts \subseteq DOMAIN added.facts
      /\ r \in DOMAIN added.facts
  BY AddFactInv
<1>s. "superseded" \in FactStates \ {"active"}
  BY DEF FactStates
<1> HIDE DEF r, added
<1>2. MInv(made) /\ DOMAIN made.facts = DOMAIN added.facts
  <2>1. added.facts[r] \in Fact
    BY <1>1 DEF MInv, MType
  <2>2. /\ [added.facts[r] EXCEPT !.state = "active"] \in Fact
        /\ [added.facts[r] EXCEPT !.state = "active"].state = "active"
    BY <2>1 DEF Fact, FactStates
  <2> QED BY <1>1, <2>2, SetFactInv
<1> HIDE DEF made
<1>3. MInv(Retire(made, {target}, "superseded"))
  BY <1>1, <1>2, <1>s, RetireInv
<1> QED BY <1>1, <1>3 DEF Forced, made, added, r

\* ... and the sweep.
LEMMA RefinementInv ==
  ASSUME NEW m, MInv(m), NEW target \in DOMAIN m.facts,
         NEW in \in Input, NEW d \in arbitrate(m, in),
         d.outcome = "converge" \/ Len(m.facts) < MaxFacts
  PROVE  MInv(proposeRefinement(m, target, in, d))
<1> DEFINE forced == Forced(m, target, in, d)
           swept  == Swept(m, target, in, d)
<1>1. MInv(forced)
  BY ForcedInv
<1>2. swept \in SUBSET DOMAIN forced.facts
  BY <1>1 DEF MInv, MType, Swept
<1>3. proposeRefinement(m, target, in, d) = Retire(forced, swept, "superseded")
  BY RefinementParts
<1>s. "superseded" \in FactStates \ {"active"}
  BY DEF FactStates
<1> HIDE DEF forced, swept
<1> QED BY <1>1, <1>2, <1>3, <1>s, RetireInv

\* proposeConsolidation: a new active fact, then its sources retired.
LEMMA ConsolidationInv ==
  ASSUME NEW m, MInv(m), Len(m.facts) < MaxFacts,
         NEW sources \in SUBSET DOMAIN m.facts, NEW in \in Input
  PROVE  MInv(proposeConsolidation(m, sources, in))
<1> DEFINE supporters == buildFact(in, "active").supporting_sources
                           \cup UNION {m.facts[i].supporting_sources : i \in sources}
           fact == [buildFact(in, "active") EXCEPT
                      !.derived_from = sources, !.supporting_sources = supporters]
           n == insertFact(m, fact)
<1>0. /\ m.facts \in Seq(Fact) /\ DOMAIN m.facts = 1..Len(m.facts)
      /\ Len(m.facts) \in Nat
      /\ "superseded" \in FactStates \ {"active"} /\ "active" \in FactStates
  BY DEF MInv, MType, FactStates
<1>1. buildFact(in, "active") \in Fact
  BY <1>0, BuildFactType
<1>2. supporters \in SUBSET Sources
  <2>0. \A i \in sources : m.facts[i] \in Fact
    BY <1>0
  <2>1. \A i \in sources : m.facts[i].supporting_sources \subseteq Sources
    BY <2>0 DEF Fact
  <2> QED BY <1>1, <2>1 DEF Fact
<1> HIDE DEF supporters
<1>3. fact \in Fact
  <2>1. sources \in SUBSET Nat
    BY <1>0
  <2> QED BY <1>1, <1>2, <2>1 DEF Fact
<1>4. proposeConsolidation(m, sources, in) = Retire(n, sources, "superseded")
  BY DEF proposeConsolidation, supporters
<1> HIDE DEF fact
<1>5. MInv(n) /\ sources \in SUBSET DOMAIN n.facts
  BY <1>0, <1>3, InsertInv
<1> HIDE DEF n
<1> QED BY <1>0, <1>4, <1>5, RetireInv

\* invalidateFact: retiring, then removal from both indexes.
LEMMA InvalidateInv ==
  ASSUME NEW m, MInv(m), NEW i \in DOMAIN m.facts
  PROVE  MInv(invalidateFact(m, i))
<1> DEFINE w == Retire(m, {i}, "invalidated")
           n == invalidateFact(m, i)
<1>1. MInv(w)
  BY RetireInv DEF FactStates
<1>2. i \in DOMAIN w.facts /\ w.facts[i].state = "invalidated"
  <2>1. m.facts[i] \in Fact
    BY DEF MInv, MType
  <2>2. w.facts[i] = [m.facts[i] EXCEPT !.state = "invalidated"] /\ i \in DOMAIN w.facts
    BY DEF Retire
  <2> QED BY <2>1, <2>2 DEF Fact
<1>e. n = [w EXCEPT !.active_facts = @ \ {i}, !.conflicted_facts = @ \ {i}]
  BY DEF invalidateFact
<1> HIDE DEF w, n
<1>3. /\ n.facts = w.facts /\ n.summaries = w.summaries
      /\ n.summary_deps = w.summary_deps /\ n.dirty = w.dirty
      /\ n.active_facts = w.active_facts \ {i}
      /\ n.conflicted_facts = w.conflicted_facts \ {i}
  BY <1>1, <1>e DEF MInv, MType
<1>4. MType(n)
  BY <1>1, <1>3, <1>e DEF MInv, MType
<1>5. MIndex(n)
  BY <1>1, <1>2, <1>3 DEF MInv, MIndex
<1>6. MSeen(n) /\ MDeps(n) /\ MFresh(n) /\ MOne(n)
  BY <1>1, <1>3 DEF MInv, MSeen, MDeps, MFresh, MOne
<1> QED BY <1>4, <1>5, <1>6 DEF MInv, n

\* addSummary replaces the active summary of its slot, if there is one, and
\* registers the new one under each of its sources.
LEMMA AddSummaryInv ==
  ASSUME NEW m, MInv(m), Len(m.summaries) < MaxSummaries, NEW slot \in Slots,
         NEW sources \in SUBSET (DOMAIN m.facts \cup Unknown)
  PROVE  MInv(addSummary(m, slot, sources))
<1> DEFINE n     == addSummary(m, slot, sources)
           id    == Len(m.summaries) + 1
           same  == {s \in DOMAIN m.summaries :
                       m.summaries[s].slot = slot /\ m.summaries[s].state = "active"}
           first == {s \in same : \A t \in same : s <= t}
           old(s) == [m.summaries[s] EXCEPT !.state = "superseded"]
           seen  == {<<i, m.facts[i].state>> : i \in sources \cap DOMAIN m.facts}
           fresh == [slot |-> slot, state |-> "active", stale |-> FALSE,
                     source_fact_ids |-> sources, seen |-> seen]
           kept  == {p \in m.summary_deps :
                       ~ (p[2] \in first
                          /\ p[1] \in m.summaries[p[2]].source_fact_ids)}
           prior == [s \in DOMAIN m.summaries |->
                       IF s \in first THEN old(s) ELSE m.summaries[s]]
<1>0. /\ m.facts \in Seq(Fact) /\ m.summaries \in Seq(Summary)
      /\ DOMAIN m.facts = 1..Len(m.facts) /\ Len(m.facts) \in Nat
      /\ DOMAIN m.summaries = 1..Len(m.summaries) /\ Len(m.summaries) \in Nat
      /\ sources \in SUBSET Nat
  <2>1. /\ m.facts \in Seq(Fact) /\ m.summaries \in Seq(Summary)
        /\ DOMAIN m.facts = 1..Len(m.facts) /\ Len(m.facts) \in Nat
        /\ DOMAIN m.summaries = 1..Len(m.summaries) /\ Len(m.summaries) \in Nat
    BY DEF MInv, MType
  <2>2. Unknown \subseteq Nat /\ DOMAIN m.facts \subseteq Nat
    BY <2>1, UnknownAssumption DEF NoFact
  <2>3. sources \in SUBSET Nat
    BY <2>2
  <2> QED BY <2>1, <2>3
<1>1. n = [facts |-> m.facts, active_facts |-> m.active_facts,
           conflicted_facts |-> m.conflicted_facts,
           summaries |-> Append(prior, fresh),
           summary_deps |-> kept \cup (sources \X {id}), dirty |-> TRUE]
  BY DEF addSummary
<1>2. \A s \in DOMAIN m.summaries :
        /\ old(s) \in Summary /\ old(s).state = "superseded"
        /\ old(s).slot = m.summaries[s].slot
        /\ old(s).source_fact_ids = m.summaries[s].source_fact_ids
        /\ old(s).seen = m.summaries[s].seen
  <2> SUFFICES ASSUME NEW s \in DOMAIN m.summaries
               PROVE  /\ old(s) \in Summary /\ old(s).state = "superseded"
                      /\ old(s).slot = m.summaries[s].slot
                      /\ old(s).source_fact_ids = m.summaries[s].source_fact_ids
                      /\ old(s).seen = m.summaries[s].seen
    OBVIOUS
  <2>1. m.summaries[s] \in Summary
    BY <1>0
  <2> QED BY <2>1 DEF Summary, SummaryStates
<1>3. \A s \in same : s \in first
  BY <1>0 DEF MInv, MOne
<1>4. seen \in SUBSET (Nat \X FactStates)
  <2>1. \A i \in DOMAIN m.facts : i \in Nat /\ m.facts[i].state \in FactStates
    <3>1. \A i \in DOMAIN m.facts : i \in Nat /\ m.facts[i] \in Fact
      BY <1>0
    <3> QED BY <3>1 DEF Fact
  <2> QED BY <2>1
<1>5. fresh \in Summary
  BY <1>0, <1>4 DEF Summary, SummaryStates
<1>6. prior \in Seq(Summary) /\ Len(prior) = Len(m.summaries)
      /\ DOMAIN prior = DOMAIN m.summaries
  <2>1. prior \in [DOMAIN m.summaries -> Summary]
    BY <1>0, <1>2
  <2> QED BY <1>0, <2>1, SameLength
<1>7. \A s \in DOMAIN m.summaries :
        prior[s] = IF s \in first THEN old(s) ELSE m.summaries[s]
  OBVIOUS
<1> HIDE DEF old, prior, fresh
<1>8. /\ n.summaries \in Seq(Summary) /\ Len(n.summaries) = id
      /\ DOMAIN n.summaries = 1..id /\ n.summaries[id] = fresh
      /\ \A s \in DOMAIN m.summaries : n.summaries[s] = prior[s]
      /\ DOMAIN n.summaries = DOMAIN m.summaries \cup {id}
      /\ id \notin DOMAIN m.summaries
  BY <1>0, <1>1, <1>5, <1>6
<1>9. /\ n.facts = m.facts /\ n.active_facts = m.active_facts
      /\ n.conflicted_facts = m.conflicted_facts
      /\ n.summary_deps = kept \cup (sources \X {id}) /\ n.dirty = TRUE
      /\ n = [facts |-> n.facts, active_facts |-> n.active_facts,
              conflicted_facts |-> n.conflicted_facts,
              summaries |-> n.summaries, summary_deps |-> n.summary_deps,
              dirty |-> n.dirty]
  BY <1>1
<1>f. /\ fresh.slot = slot /\ fresh.state = "active" /\ fresh.seen = seen
      /\ fresh.source_fact_ids = sources
  BY DEF fresh
<1> HIDE DEF n
<1>10. MType(n)
  <2>1. kept \cup (sources \X {id}) \in SUBSET (Nat \X Nat)
    <3>1. m.summary_deps \in SUBSET (Nat \X Nat) /\ kept \subseteq m.summary_deps
      BY DEF MInv, MType
    <3>2. id \in Nat
      BY <1>0
    <3> HIDE DEF kept, id
    <3> QED BY <1>0, <3>1, <3>2
  <2>2. n.summary_deps \subseteq
          ((DOMAIN n.facts \cup Unknown) \X DOMAIN n.summaries)
    BY <1>0, <1>8, <1>9 DEF MInv, MType
  <2>3. Len(n.summaries) <= MaxSummaries
    BY <1>0, <1>8, BoundAssumption
  <2> HIDE DEF kept, id
  <2> QED BY <1>8, <1>9, <2>1, <2>2, <2>3 DEF MInv, MType
<1>11. MIndex(n)
  BY <1>9 DEF MInv, MIndex
<1>12. MSeen(n)
  <2> SUFFICES ASSUME NEW s \in DOMAIN n.summaries, NEW p \in n.summaries[s].seen
               PROVE  p[1] \in DOMAIN n.facts /\ p[1] \in n.summaries[s].source_fact_ids
    BY DEF MSeen
  <2>1. CASE s = id
    BY <1>8, <1>9, <1>f, <2>1
  <2>2. CASE s \in DOMAIN m.summaries
    BY <1>2, <1>7, <1>8, <1>9, <2>2 DEF MInv, MSeen
  <2> QED BY <1>8, <2>1, <2>2
<1>13. MDeps(n)
  <2> SUFFICES ASSUME NEW s \in DOMAIN n.summaries, n.summaries[s].state = "active",
                      NEW i \in n.summaries[s].source_fact_ids
               PROVE  <<i, s>> \in n.summary_deps
    BY DEF MDeps
  <2>1. CASE s = id
    BY <1>8, <1>9, <1>f, <2>1
  <2>2. CASE s \in DOMAIN m.summaries
    <3>1. s \notin first /\ n.summaries[s] = m.summaries[s]
      BY <1>2, <1>7, <1>8, <2>2
    <3>2. <<i, s>> \in m.summary_deps
      BY <2>2, <3>1 DEF MInv, MDeps
    <3> QED BY <1>9, <3>1, <3>2
  <2> QED BY <1>8, <2>1, <2>2
<1>14. MFresh(n)
  <2> SUFFICES ASSUME NEW s \in DOMAIN n.summaries,
                      n.summaries[s].state = "active", ~ n.summaries[s].stale,
                      NEW p \in n.summaries[s].seen
               PROVE  n.facts[p[1]].state \in {p[2], "active"}
    BY DEF MFresh
  <2>1. CASE s = id
    BY <1>8, <1>9, <1>f, <2>1
  <2>2. CASE s \in DOMAIN m.summaries
    <3>1. n.summaries[s] = m.summaries[s]
      BY <1>2, <1>7, <1>8, <2>2
    <3> QED BY <1>9, <2>2, <3>1 DEF MInv, MFresh
  <2> QED BY <1>8, <2>1, <2>2
<1>15. MOne(n)
  <2> SUFFICES ASSUME NEW s \in DOMAIN n.summaries, NEW t \in DOMAIN n.summaries,
                      n.summaries[s].state = "active", n.summaries[t].state = "active",
                      n.summaries[s].slot = n.summaries[t].slot
               PROVE  s = t
    BY DEF MOne
  <2>1. \A u \in DOMAIN m.summaries : n.summaries[u].state = "active" =>
          n.summaries[u] = m.summaries[u] /\ m.summaries[u].slot # slot
    <3> SUFFICES ASSUME NEW u \in DOMAIN m.summaries, n.summaries[u].state = "active"
                 PROVE  n.summaries[u] = m.summaries[u] /\ m.summaries[u].slot # slot
      OBVIOUS
    <3>1. u \notin first
      <4> HIDE DEF first
      <4> QED BY <1>2, <1>7, <1>8
    <3>2. n.summaries[u] = m.summaries[u]
      BY <1>7, <1>8, <3>1
    <3>3. u \notin same
      BY <1>3, <3>1
    <3> QED BY <3>2, <3>3
  <2> QED BY <1>8, <1>f, <2>1 DEF MInv, MOne
<1> QED BY <1>10, <1>11, <1>12, <1>13, <1>14, <1>15 DEF MInv, n

\* buildIndexes gives a loaded document safe and complete indexes.
LEMMA LoadInv ==
  ASSUME NEW doc, DInv(doc), validateLineage(doc)
  PROVE  MInv(FromDocument(doc))
<1> DEFINE n == FromDocument(doc)
<1>0. /\ doc.facts \in Seq(Fact) /\ doc.summaries \in Seq(Summary)
      /\ DOMAIN doc.facts \subseteq Nat /\ DOMAIN doc.summaries \subseteq Nat
  BY DEF DInv, DType
<1>1. /\ n.facts = doc.facts /\ n.summaries = doc.summaries /\ n.dirty = FALSE
      /\ n.active_facts = {i \in DOMAIN doc.facts : doc.facts[i].state = "active"}
      /\ n.conflicted_facts =
           {i \in DOMAIN doc.facts : doc.facts[i].state = "conflicted"}
      /\ n.summary_deps = UNION {doc.summaries[s].source_fact_ids \X {s} :
                                   s \in DOMAIN doc.summaries}
      /\ n = [facts |-> n.facts, active_facts |-> n.active_facts,
              conflicted_facts |-> n.conflicted_facts,
              summaries |-> n.summaries, summary_deps |-> n.summary_deps,
              dirty |-> n.dirty]
  BY DEF FromDocument
<1> HIDE DEF n
<1> DEFINE F == DOMAIN n.facts
           S == DOMAIN n.summaries
<1>2. F \subseteq Nat /\ S \subseteq Nat
  BY <1>0, <1>1
<1>d. \A p \in n.summary_deps : \E i \in F, s \in S : p = <<i, s>>
  <2> SUFFICES ASSUME NEW p \in n.summary_deps
               PROVE  \E i \in F, s \in S : p = <<i, s>>
    OBVIOUS
  <2>1. PICK s \in DOMAIN doc.summaries : p \in doc.summaries[s].source_fact_ids \X {s}
    BY <1>1
  <2>2. PICK i \in doc.summaries[s].source_fact_ids : p = <<i, s>>
    BY <2>1
  <2>3. i \in DOMAIN doc.facts
    BY DEF validateLineage
  <2>4. i \in F /\ s \in S
    BY <1>1, <2>3
  <2> HIDE DEF F, S
  <2> QED BY <2>2, <2>4
<1> HIDE DEF F, S
<1>3. MType(n)
  <2>1. n.summary_deps \in SUBSET (Nat \X Nat)
    BY <1>2, <1>d
  <2>2. n.active_facts \in SUBSET Nat /\ n.conflicted_facts \in SUBSET Nat
    BY <1>0, <1>1
  <2>3. n \in [facts : Seq(Fact), active_facts : SUBSET Nat,
               conflicted_facts : SUBSET Nat, summaries : Seq(Summary),
               summary_deps : SUBSET (Nat \X Nat), dirty : BOOLEAN]
    BY <1>0, <1>1, <2>1, <2>2
  <2>4. n.summary_deps \subseteq ((F \cup Unknown) \X S)
    BY <1>d
  <2>5. /\ Len(n.facts) <= MaxFacts /\ Len(n.summaries) <= MaxSummaries
        /\ n.active_facts \subseteq DOMAIN n.facts
        /\ n.conflicted_facts \subseteq DOMAIN n.facts
    BY <1>1 DEF DInv, DType
  <2> QED BY <2>3, <2>4, <2>5 DEF MType, F, S
<1>4. MIndex(n)
  BY <1>1 DEF MIndex
<1>5. MDeps(n)
  BY <1>1 DEF MDeps
<1>6. MSeen(n) /\ MFresh(n) /\ MOne(n)
  BY <1>1 DEF DInv, MSeen, MFresh, MOne
<1> QED BY <1>3, <1>4, <1>5, <1>6 DEF MInv, n

-----------------------------------------------------------------------------
\* A step that assigns the fields of a record makes it the manager.
LEMMA BecomesManager ==
  ASSUME NEW m, MType(m), Becomes(m)
  PROVE  Manager' = m
<1>1. m = [facts |-> m.facts, active_facts |-> m.active_facts,
           conflicted_facts |-> m.conflicted_facts, summaries |-> m.summaries,
           summary_deps |-> m.summary_deps, dirty |-> m.dirty]
  BY DEF MType
<1> QED BY <1>1 DEF Becomes, Manager

\* The inputs the actions choose are inputs.
LEMMA FactInputType ==
  ASSUME NEW parents \in SUBSET Nat, NEW in \in FactInput(parents)
  PROVE  in \in Input
BY ConfidenceAssumption, ThresholdAssumption DEF FactInput, Input

\* The indexes of ManifestManager are safe in the initial state.
LEMMA InitIInv == Init => IInv
<1> SUFFICES ASSUME Init PROVE IInv
  OBVIOUS
<1> USE BoundAssumption
<1>1. /\ Manager.facts = <<>> /\ Manager.summaries = <<>>
      /\ disk.facts = <<>> /\ disk.summaries = <<>>
  BY DEF Init, Manager
<1>2. MType(Manager)
  <2>1. <<>> \in Seq(Fact) /\ <<>> \in Seq(Summary) /\ Len(<<>>) = 0
    OBVIOUS
  <2>2. Manager = [facts |-> <<>>, active_facts |-> {}, conflicted_facts |-> {},
                   summaries |-> <<>>, summary_deps |-> {}, dirty |-> FALSE]
    BY DEF Init, Manager
  <2>3. /\ Manager.active_facts = {} /\ Manager.conflicted_facts = {}
        /\ Manager.summary_deps = {}
    BY <2>2
  <2>4. Manager \in [facts : Seq(Fact), active_facts : SUBSET Nat,
                     conflicted_facts : SUBSET Nat, summaries : Seq(Summary),
                     summary_deps : SUBSET (Nat \X Nat), dirty : BOOLEAN]
    BY <2>1, <2>2
  <2> QED BY <1>1, <2>1, <2>3, <2>4 DEF MType
<1>3. MIndex(Manager) /\ MSeen(Manager) /\ MDeps(Manager) /\ MFresh(Manager)
      /\ MOne(Manager)
  BY <1>1 DEF Init, Manager, MIndex, MSeen, MDeps, MFresh, MOne
<1>4. DType(disk)
  BY DEF Init, DType
<1>5. MSeen(disk) /\ MFresh(disk) /\ MOne(disk)
  BY <1>1 DEF MSeen, MFresh, MOne
<1> QED BY <1>2, <1>3, <1>4, <1>5 DEF IInv, MInv, DInv

-----------------------------------------------------------------------------
\* The length of Manager's lists, for the actions' guards.
LEMMA ManagerFields ==
  /\ Manager.facts = facts /\ Manager.active_facts = active_facts
  /\ Manager.conflicted_facts = conflicted_facts
  /\ Manager.summaries = summaries /\ Manager.summary_deps = summary_deps
  /\ Manager.dirty = dirty
BY DEF Manager

\* A step to a manager state that has the invariant, with the file untouched,
\* keeps the invariant.
LEMMA BecomesIInv ==
  ASSUME IInv, NEW m, MInv(m), Becomes(m), UNCHANGED disk
  PROVE  IInv'
<1>1. Manager' = m
  BY BecomesManager DEF MInv
<1>2. MInv(Manager')
  BY <1>1
<1>3. DInv(disk')
  BY DEF IInv
<1> QED BY <1>2, <1>3 DEF IInv

\* Every call of the manager, commit and reload keep the invariant.
LEMMA NextIInv == IInv /\ [Next]_vars => IInv'
<1> SUFFICES ASSUME IInv, [Next]_vars PROVE IInv'
  OBVIOUS
<1>0. MInv(Manager) /\ DInv(disk)
  BY DEF IInv
<1>t. /\ DOMAIN facts \subseteq Nat /\ Unknown \subseteq Nat
      /\ facts \in Seq(Fact) /\ summaries \in Seq(Summary)
  <2>1. facts \in Seq(Fact) /\ summaries \in Seq(Summary)
    BY <1>0, ManagerFields DEF MInv, MType
  <2> QED BY <2>1, UnknownAssumption DEF NoFact
<1>1. CASE AddFact
  <2>a. PICK in \in FactInput(DOMAIN facts \cup Unknown) :
          \E d \in arbitrate(Manager, in) : Becomes(addFact(Manager, in, d))
    BY <1>1 DEF AddFact
  <2>1. PICK d \in arbitrate(Manager, in) : Becomes(addFact(Manager, in, d))
    BY <2>a
  <2>2. in \in Input
    BY <1>t, FactInputType
  <2>3. Len(Manager.facts) < MaxFacts /\ UNCHANGED disk
    BY <1>1, ManagerFields DEF AddFact, Room
  <2>4. MInv(addFact(Manager, in, d))
    BY <1>0, <2>2, <2>3, AddFactInv
  <2> QED BY <2>1, <2>3, <2>4, BecomesIInv
<1>2. CASE SupersedeFact
  <2>1. PICK i \in DOMAIN facts : Becomes(Retire(Manager, {i}, "superseded"))
    BY <1>2 DEF SupersedeFact
  <2>2. {i} \in SUBSET DOMAIN Manager.facts
    BY ManagerFields
  <2>3. MInv(Retire(Manager, {i}, "superseded"))
    BY <1>0, <2>2, RetireInv DEF FactStates
  <2> QED BY <1>2, <2>1, <2>3, BecomesIInv DEF SupersedeFact
<1>3. CASE InvalidateFact
  <2>1. PICK i \in DOMAIN facts : Becomes(invalidateFact(Manager, i))
    BY <1>3 DEF InvalidateFact
  <2>2. MInv(invalidateFact(Manager, i))
    BY <1>0, InvalidateInv, ManagerFields
  <2> QED BY <1>3, <2>1, <2>2, BecomesIInv DEF InvalidateFact
<1>4. CASE AddSummary
  <2>1. PICK slot \in Slots, sources \in SUBSET (DOMAIN facts \cup Unknown) :
          Becomes(addSummary(Manager, slot, sources))
    BY <1>4 DEF AddSummary
  <2>2. /\ Len(Manager.summaries) < MaxSummaries
        /\ sources \in SUBSET (DOMAIN Manager.facts \cup Unknown)
    BY <1>4, ManagerFields DEF AddSummary
  <2>3. MInv(addSummary(Manager, slot, sources))
    BY <1>0, <2>2, AddSummaryInv
  <2> QED BY <1>4, <2>1, <2>3, BecomesIInv DEF AddSummary
<1>5. CASE ProposeRefinement
  <2>1. PICK target \in DOMAIN facts : Refine(target)
    BY <1>5 DEF ProposeRefinement
  <2>a. PICK in \in {[i EXCEPT !.derived_from = {target}] : i \in FactInput({})} :
          \E d \in arbitrate(Manager, in) :
            Becomes(proposeRefinement(Manager, target, in, d))
    BY <2>1 DEF Refine
  <2>2. PICK d \in arbitrate(Manager, in) :
          Becomes(proposeRefinement(Manager, target, in, d))
    BY <2>a
  <2>3. in \in Input
    <3>1. PICK i \in FactInput({}) : in = [i EXCEPT !.derived_from = {target}]
      BY <2>a
    <3>2. i \in Input
      BY FactInputType
    <3> QED BY <1>t, <3>1, <3>2 DEF Input
  <2>4. Len(Manager.facts) < MaxFacts /\ target \in DOMAIN Manager.facts
    BY <1>5, ManagerFields DEF ProposeRefinement, Room
  <2>5. MInv(proposeRefinement(Manager, target, in, d))
    BY <1>0, <2>2, <2>3, <2>4, RefinementInv
  <2> QED BY <2>1, <2>2, <2>5, BecomesIInv DEF Refine
<1>6. CASE ProposeConsolidation
  <2>1. PICK sources \in (SUBSET DOMAIN facts) \ {{}}, in \in FactInput({}) :
          Becomes(proposeConsolidation(Manager, sources, in))
    BY <1>6 DEF ProposeConsolidation
  <2>2. in \in Input
    BY FactInputType
  <2>3. Len(Manager.facts) < MaxFacts /\ sources \in SUBSET DOMAIN Manager.facts
    BY <1>6, ManagerFields DEF ProposeConsolidation, Room
  <2>4. MInv(proposeConsolidation(Manager, sources, in))
    BY <1>0, <2>2, <2>3, ConsolidationInv
  <2> QED BY <1>6, <2>1, <2>4, BecomesIInv DEF ProposeConsolidation
<1>7. CASE Commit
  <2>1. /\ facts' = facts /\ active_facts' = active_facts
        /\ conflicted_facts' = conflicted_facts /\ summaries' = summaries
        /\ summary_deps' = summary_deps /\ dirty' = FALSE
        /\ disk' = [facts |-> facts, summaries |-> summaries]
    BY <1>7, ManagerFields DEF Commit, Document
  <2>2. /\ facts \in Seq(Fact) /\ active_facts \in SUBSET Nat
        /\ conflicted_facts \in SUBSET Nat /\ summaries \in Seq(Summary)
        /\ summary_deps \in SUBSET (Nat \X Nat)
    BY <1>0, ManagerFields DEF MInv, MType
  <2>3. MInv(Manager')
    <3>1. MType(Manager')
      <4>1. Manager' = [facts |-> facts, active_facts |-> active_facts,
                        conflicted_facts |-> conflicted_facts, summaries |-> summaries,
                        summary_deps |-> summary_deps, dirty |-> FALSE]
        BY <2>1 DEF Manager
      <4>2. Manager' \in [facts : Seq(Fact), active_facts : SUBSET Nat,
                conflicted_facts : SUBSET Nat, summaries : Seq(Summary),
                summary_deps : SUBSET (Nat \X Nat), dirty : BOOLEAN]
        BY <2>2, <4>1
      <4> QED BY <1>0, <4>1, <4>2, ManagerFields DEF MInv, MType
    <3>2. /\ Manager'.facts = Manager.facts
          /\ Manager'.active_facts = Manager.active_facts
          /\ Manager'.conflicted_facts = Manager.conflicted_facts
          /\ Manager'.summaries = Manager.summaries
          /\ Manager'.summary_deps = Manager.summary_deps
      BY <2>1 DEF Manager
    <3> QED BY <1>0, <3>1, <3>2 DEF MInv, MIndex, MSeen, MDeps, MFresh, MOne
  <2>4. DInv(disk')
    <3>1. DType(disk')
      BY <1>0, <2>1, <2>2, ManagerFields DEF DType, MInv, MType
    <3> QED BY <1>0, <2>1, <3>1, ManagerFields DEF DInv, MInv, MSeen, MFresh, MOne
  <2> QED BY <2>3, <2>4 DEF IInv
<1>8. CASE Reload
  <2>1. MInv(FromDocument(disk))
    BY <1>0, <1>8, LoadInv DEF Reload
  <2> QED BY <1>8, <2>1, BecomesIInv DEF Reload
<1>9. CASE UNCHANGED vars
  <2>1. Manager' = Manager /\ disk' = disk
    BY <1>9 DEF vars, Manager
  <2> QED BY <1>0, <2>1 DEF IInv
<1> QED
  BY <1>1, <1>2, <1>3, <1>4, <1>5, <1>6, <1>7, <1>8, <1>9 DEF Next, Call, Ingest

-----------------------------------------------------------------------------
\* The invariant holds after every sequence of calls, commits and reloads.
THEOREM Invariance == Spec => []IInv
BY InitIInv, NextIInv, PTL DEF Spec

\* Type correctness: facts and summaries stay lists of well-formed records and
\* the indexes name only facts and summaries that exist.
THEOREM TypeCorrect == Spec => []TypeOK
<1>1. IInv => TypeOK
  BY ManagerFields DEF IInv, MInv, DInv, MType, DType, TypeOK
<1> QED BY <1>1, Invariance, PTL

\* Whatever calls a client makes, the active index holds no retired fact and
\* the conflicted index misses no conflicted one.
THEOREM IndexesAreSafe == Spec => []IndexSafety
<1>1. IInv => IndexSafety
  BY ManagerFields DEF IInv, MInv, MType, MIndex, IndexSafety, FactIn
<1> QED BY <1>1, Invariance, PTL

\* Staleness reaches every summary: no active summary that is not flagged stale
\* has a source that was retired or disputed since it was generated.
THEOREM StalenessPropagates == Spec => []FreshSummariesAreCurrent
<1>1. IInv => FreshSummariesAreCurrent
  BY ManagerFields DEF IInv, MInv, MFresh, FreshSummariesAreCurrent
<1> QED BY <1>1, Invariance, PTL

\* Replacing the first match is enough: a slot never has two active summaries.
THEOREM SummariesAreUnique == Spec => []OneActiveSummary
<1>1. IInv => OneActiveSummary
  BY ManagerFields DEF IInv, MInv, MOne, OneActiveSummary
<1> QED BY <1>1, Invariance, PTL

-----------------------------------------------------------------------------
(***************************************************************************)
(* What the operations leave alone, and what they change of the data a commit *)
(* writes.  These lemmas describe the lists an operation makes rather than     *)
(* the indexes, hold for managers of any size, and carry the theorems on       *)
(* saving, on lineage, on authority and on refinement below.                   *)
(***************************************************************************)
Listed(m) == m.facts \in Seq(Fact) /\ m.summaries \in Seq(Summary)

\* The manager states the operations build are records of these fields.
Shaped(m) ==
  m = [facts |-> m.facts, active_facts |-> m.active_facts,
       conflicted_facts |-> m.conflicted_facts, summaries |-> m.summaries,
       summary_deps |-> m.summary_deps, dirty |-> m.dirty]

\* n has the facts of m, but for their states and observation data.
SameFacts(m, n) ==
  /\ DOMAIN n.facts = DOMAIN m.facts
  /\ \A i \in DOMAIN m.facts :
       /\ n.facts[i].value = m.facts[i].value
       /\ n.facts[i].derived_from = m.facts[i].derived_from

\* The summaries of n have the sources those of m have.
SameSources(m, n) ==
  /\ DOMAIN n.summaries = DOMAIN m.summaries
  /\ \A s \in DOMAIN m.summaries :
       n.summaries[s].source_fact_ids = m.summaries[s].source_fact_ids

\* Retiring changes states and staleness flags, and any of them makes m dirty.
LEMMA RetireIs ==
  ASSUME NEW m, Listed(m), NEW ids, NEW state \in FactStates
  PROVE  /\ Listed(Retire(m, ids, state))
         /\ SameFacts(m, Retire(m, ids, state)) /\ SameSources(m, Retire(m, ids, state))
         /\ \A i \in DOMAIN m.facts :
              Retire(m, ids, state).facts[i].state =
                IF i \in ids THEN state ELSE m.facts[i].state
         /\ m.dirty \/ ids # {} => Retire(m, ids, state).dirty
         /\ ids = {} => Retire(m, ids, state).summaries = m.summaries
<1> DEFINE n == Retire(m, ids, state)
           hit(s) == \E i \in ids : <<i, s>> \in m.summary_deps
           moved(i) == [m.facts[i] EXCEPT !.state = state]
           staled(s) == [m.summaries[s] EXCEPT !.stale = TRUE]
<1>1. /\ n.facts = [i \in DOMAIN m.facts |-> IF i \in ids THEN moved(i) ELSE m.facts[i]]
      /\ n.summaries = [s \in DOMAIN m.summaries |->
                          IF hit(s) THEN staled(s) ELSE m.summaries[s]]
      /\ n.dirty = (m.dirty \/ ids # {})
  BY DEF Retire
<1>2. /\ m.facts \in [DOMAIN m.facts -> Fact] /\ m.facts \in Seq(Fact)
      /\ m.summaries \in [DOMAIN m.summaries -> Summary] /\ m.summaries \in Seq(Summary)
  BY DEF Listed
<1>3. \A i \in DOMAIN m.facts :
        /\ moved(i) \in Fact /\ moved(i).state = state
        /\ moved(i).value = m.facts[i].value
        /\ moved(i).derived_from = m.facts[i].derived_from
  BY <1>2 DEF Fact
<1>4. \A s \in DOMAIN m.summaries :
        /\ staled(s) \in Summary
        /\ staled(s).source_fact_ids = m.summaries[s].source_fact_ids
  BY <1>2 DEF Summary
<1> HIDE DEF n, moved, staled
<1>5. n.facts \in Seq(Fact) /\ DOMAIN n.facts = DOMAIN m.facts
  <2>1. n.facts \in [DOMAIN m.facts -> Fact]
    BY <1>1, <1>2, <1>3
  <2> QED BY <1>2, <2>1, SameLength
<1>6. n.summaries \in Seq(Summary) /\ DOMAIN n.summaries = DOMAIN m.summaries
  <2>1. n.summaries \in [DOMAIN m.summaries -> Summary]
    BY <1>1, <1>2, <1>4
  <2> QED BY <1>2, <2>1, SameLength
<1>7. SameFacts(m, n) /\ \A i \in DOMAIN m.facts :
        n.facts[i].state = IF i \in ids THEN state ELSE m.facts[i].state
  BY <1>1, <1>3, <1>5 DEF SameFacts
<1>8. SameSources(m, n)
  BY <1>1, <1>4, <1>6 DEF SameSources
<1>9. m.dirty \/ ids # {} => n.dirty
  BY <1>1
<1>10. ids = {} => n.summaries = m.summaries
  <2>1. ASSUME ids = {} PROVE n.summaries = m.summaries
    <3>1. n.summaries \in [DOMAIN m.summaries -> Summary]
      BY <1>1, <1>2, <1>4
    <3>2. \A s \in DOMAIN m.summaries : n.summaries[s] = m.summaries[s]
      BY <1>1, <2>1
    <3>3. /\ n.summaries = [s \in DOMAIN m.summaries |-> n.summaries[s]]
          /\ m.summaries = [s \in DOMAIN m.summaries |-> m.summaries[s]]
      BY <1>2, <3>1, Zenon
    <3> QED BY <3>2, <3>3, Zenon
  <2> QED BY <2>1
<1> QED BY <1>5, <1>6, <1>7, <1>8, <1>9, <1>10 DEF Listed, n

\* n has the states of m, but for one fact.
Moved(m, n, e, state) ==
  \A i \in DOMAIN m.facts :
    n.facts[i].state = IF i = e THEN state ELSE m.facts[i].state

\* The same for one fact.
LEMMA RetireOneIs ==
  ASSUME NEW m, Listed(m), NEW e, NEW state \in FactStates
  PROVE  /\ Listed(Retire(m, {e}, state))
         /\ SameFacts(m, Retire(m, {e}, state)) /\ SameSources(m, Retire(m, {e}, state))
         /\ Moved(m, Retire(m, {e}, state), e, state)
         /\ Retire(m, {e}, state).dirty
<1>1. /\ Listed(Retire(m, {e}, state))
      /\ SameFacts(m, Retire(m, {e}, state)) /\ SameSources(m, Retire(m, {e}, state))
  BY RetireIs
<1>2. Moved(m, Retire(m, {e}, state), e, state)
  BY RetireIs DEF Moved
<1>3. Retire(m, {e}, state).dirty
  BY DEF Retire
<1> QED BY <1>1, <1>2, <1>3

\* n is m with `fact' appended.
Inserted(m, n, fact) ==
  /\ Listed(n) /\ n.dirty /\ n.summaries = m.summaries
  /\ DOMAIN m.facts = 1..Len(m.facts) /\ Len(m.facts) \in Nat
  /\ DOMAIN n.facts = 1..(Len(m.facts) + 1)
  /\ \A i \in DOMAIN m.facts : n.facts[i] = m.facts[i]
  /\ n.facts[Len(m.facts) + 1] = fact

LEMMA InsertIs ==
  ASSUME NEW m, Listed(m), NEW fact \in Fact
  PROVE  Inserted(m, insertFact(m, fact), fact) /\ Shaped(insertFact(m, fact))
<1> DEFINE n == insertFact(m, fact)
<1>1. n.facts = Append(m.facts, fact) /\ n.summaries = m.summaries /\ n.dirty = TRUE
  BY DEF insertFact
<1>2. m.facts \in Seq(Fact) /\ m.summaries \in Seq(Summary)
  BY DEF Listed
<1>3. /\ n.facts \in Seq(Fact) /\ DOMAIN m.facts = 1..Len(m.facts) /\ Len(m.facts) \in Nat
      /\ DOMAIN n.facts = 1..(Len(m.facts) + 1)
      /\ \A i \in DOMAIN m.facts : n.facts[i] = m.facts[i]
      /\ n.facts[Len(m.facts) + 1] = fact
  BY <1>1, <1>2
<1>4. Shaped(n)
  BY DEF insertFact, Shaped
<1> HIDE DEF n
<1>5. Inserted(m, n, fact)
  BY <1>1, <1>2, <1>3 DEF Listed, Inserted
<1> QED BY <1>4, <1>5 DEF n

\* An assignment to one fact.
LEMMA SetFactIs ==
  ASSUME NEW m, Listed(m), Shaped(m), NEW i \in DOMAIN m.facts, NEW fact \in Fact
  PROVE  /\ Listed(SetFact(m, i, fact)) /\ Shaped(SetFact(m, i, fact))
         /\ SetFact(m, i, fact).facts = [m.facts EXCEPT ![i] = fact]
         /\ SetFact(m, i, fact).summaries = m.summaries
         /\ SetFact(m, i, fact).dirty = m.dirty
         /\ Len(SetFact(m, i, fact).facts) = Len(m.facts)
<1> DEFINE n == SetFact(m, i, fact)
<1>1. /\ n.facts = [m.facts EXCEPT ![i] = fact]
      /\ n.summaries = m.summaries /\ n.dirty = m.dirty
  BY DEF SetFact, Shaped
<1>s. Shaped(n)
  BY DEF SetFact, Shaped
<1>2. m.facts \in Seq(Fact) /\ m.summaries \in Seq(Summary)
  BY DEF Listed
<1>3. n.facts \in Seq(Fact) /\ Len(n.facts) = Len(m.facts)
  <2>1. n.facts \in [DOMAIN m.facts -> Fact]
    BY <1>1, <1>2
  <2> QED BY <1>2, <2>1, SameLength
<1> QED BY <1>1, <1>2, <1>3, <1>s DEF Listed

\* Where addFact puts the states: of the fact it weighed, and of the new one.
StateOfExisting(d, was) ==
  CASE d.outcome = "supersede" -> "superseded"
    [] d.outcome = "conflict" -> "conflicted"
    [] OTHER -> was

StateOfNew(d) ==
  CASE d.outcome \in {"new", "supersede"} -> "active"
    [] d.outcome = "reject" -> "superseded"
    [] OTHER -> "conflicted"

\* n has the facts of m, but for observation data and the state of the fact that the
\* decision d weighed.
Weighed(m, n, d) ==
  \A i \in DOMAIN m.facts :
    /\ n.facts[i].value = m.facts[i].value
    /\ n.facts[i].derived_from = m.facts[i].derived_from
    /\ n.facts[i].state = IF i = d.existing THEN StateOfExisting(d, m.facts[i].state)
                          ELSE m.facts[i].state

\* n is m with `fact' appended and the older fact e moved to a state.
Replaced(m, n, fact, e, state) ==
  /\ Listed(n) /\ n.dirty /\ SameSources(m, n)
  /\ DOMAIN n.facts = 1..(Len(m.facts) + 1)
  /\ \A i \in DOMAIN m.facts :
       /\ n.facts[i].value = m.facts[i].value
       /\ n.facts[i].derived_from = m.facts[i].derived_from
       /\ n.facts[i].state = IF i = e THEN state ELSE m.facts[i].state
  /\ n.facts[Len(m.facts) + 1].value = fact.value
  /\ n.facts[Len(m.facts) + 1].derived_from = fact.derived_from
  /\ n.facts[Len(m.facts) + 1].state = fact.state

\* A fact is appended and an older one is retired in its favour.
LEMMA ReplaceIs ==
  ASSUME NEW m, Listed(m), NEW fact \in Fact, NEW e \in DOMAIN m.facts,
         NEW state \in FactStates
  PROVE  Replaced(m, Retire(insertFact(m, fact), {e}, state), fact, e, state)
<1> DEFINE k == insertFact(m, fact)
           n == Retire(k, {e}, state)
           last == Len(m.facts) + 1
<1>1. /\ Listed(k) /\ k.summaries = m.summaries
      /\ DOMAIN m.facts = 1..Len(m.facts) /\ Len(m.facts) \in Nat
      /\ DOMAIN k.facts = 1..last /\ k.facts[last] = fact
      /\ \A i \in DOMAIN m.facts : k.facts[i] = m.facts[i]
  BY InsertIs DEF Inserted
<1>2. /\ DOMAIN m.facts \subseteq DOMAIN k.facts
      /\ last \in DOMAIN k.facts /\ last # e
  BY <1>1
<1> HIDE DEF k
<1>e. Listed(k) /\ e \in DOMAIN k.facts
  BY <1>1, <1>2
<1>3. Listed(n) /\ SameFacts(k, n) /\ SameSources(k, n) /\ n.dirty
  <2>1. Listed(n)
    BY <1>e, RetireOneIs
  <2>2. SameFacts(k, n)
    BY <1>e, RetireOneIs
  <2>3. SameSources(k, n)
    BY <1>e, RetireOneIs
  <2>4. n.dirty
    BY <1>e, RetireOneIs
  <2> HIDE DEF n
  <2> QED BY <2>1, <2>2, <2>3, <2>4, Zenon
<1>4. Moved(k, n, e, state)
  BY <1>e, RetireOneIs
<1> HIDE DEF n, last
<1>5. SameSources(m, n)
  BY <1>1, <1>3 DEF SameSources
<1>6. \A i \in DOMAIN m.facts :
        /\ n.facts[i].value = m.facts[i].value
        /\ n.facts[i].derived_from = m.facts[i].derived_from
        /\ n.facts[i].state = IF i = e THEN state ELSE m.facts[i].state
  BY <1>1, <1>2, <1>3, <1>4 DEF SameFacts, Moved
<1>7. /\ DOMAIN n.facts = 1..last
      /\ n.facts[last].value = fact.value
      /\ n.facts[last].derived_from = fact.derived_from
      /\ n.facts[last].state = fact.state
  BY <1>1, <1>2, <1>3, <1>4 DEF SameFacts, Moved
<1> QED BY <1>3, <1>5, <1>6, <1>7 DEF n, k, last, Replaced

\* addFact: a converging fact creates nothing and is not saved; any other outcome
\* appends the fact and marks the manager dirty.
LEMMA AddFactIs ==
  ASSUME NEW m, MType(m), NEW in \in Input, NEW d \in arbitrate(m, in)
  PROVE  /\ Listed(m) /\ Listed(addFact(m, in, d))
         /\ DOMAIN m.facts = 1..Len(m.facts) /\ Len(m.facts) \in Nat
         /\ SameSources(m, addFact(m, in, d))
         /\ Weighed(m, addFact(m, in, d), d)
         /\ m.dirty \/ d.outcome # "converge" => addFact(m, in, d).dirty
         /\ d.outcome = "converge" =>
              /\ DOMAIN addFact(m, in, d).facts = DOMAIN m.facts
              /\ addFact(m, in, d).summaries = m.summaries
         /\ d.outcome # "converge" =>
              /\ DOMAIN addFact(m, in, d).facts = 1..(Len(m.facts) + 1)
              /\ addFact(m, in, d).facts[Len(m.facts) + 1].value = in.value
              /\ addFact(m, in, d).facts[Len(m.facts) + 1].derived_from = in.derived_from
              /\ addFact(m, in, d).facts[Len(m.facts) + 1].state = StateOfNew(d)
<1> DEFINE e == d.existing
           id == Len(m.facts) + 1
           w == addFact(m, in, d)
           strengthened == SetFact(m, e, applyConvergence(m.facts[e], in.source))
<1>0. /\ d.outcome \in Outcomes
      /\ d.outcome # "new" => e \in DOMAIN m.facts
      /\ Listed(m) /\ Shaped(m)
      /\ DOMAIN m.facts = 1..Len(m.facts) /\ Len(m.facts) \in Nat
      /\ in.source \in Sources
      /\ {"active", "superseded", "conflicted"} \subseteq FactStates
  BY ArbitrateNames DEF MType, Input, FactStates, Listed, Shaped
<1>s. SameSources(m, m)
  BY DEF SameSources
<1>b. \A state \in FactStates :
        /\ buildFact(in, state) \in Fact /\ buildFact(in, state).state = state
        /\ buildFact(in, state).value = in.value
        /\ buildFact(in, state).derived_from = in.derived_from
  BY BuildFactType DEF buildFact
<1>1. ASSUME e \in DOMAIN m.facts
      PROVE  /\ Listed(strengthened) /\ strengthened.summaries = m.summaries
             /\ strengthened.dirty = m.dirty /\ Len(strengthened.facts) = Len(m.facts)
             /\ DOMAIN strengthened.facts = DOMAIN m.facts
             /\ \A i \in DOMAIN m.facts :
                  /\ strengthened.facts[i].value = m.facts[i].value
                  /\ strengthened.facts[i].derived_from = m.facts[i].derived_from
                  /\ strengthened.facts[i].state = m.facts[i].state
  <2>1. m.facts[e] \in Fact /\ m.facts \in Seq(Fact)
    BY <1>1 DEF MType
  <2> PICK f : f = applyConvergence(m.facts[e], in.source)
    OBVIOUS
  <2>2. f \in Fact /\ f.state = m.facts[e].state
    BY <1>0, <2>1, ConvergenceType
  <2>3. f.value = m.facts[e].value /\ f.derived_from = m.facts[e].derived_from
    BY <2>1 DEF applyConvergence, Fact
  <2>4. /\ Listed(strengthened) /\ strengthened.summaries = m.summaries
        /\ strengthened.dirty = m.dirty /\ Len(strengthened.facts) = Len(m.facts)
        /\ strengthened.facts = [m.facts EXCEPT ![e] = f]
    BY <1>0, <1>1, <2>2, SetFactIs
  <2> HIDE DEF strengthened
  <2> QED BY <2>1, <2>2, <2>3, <2>4, Zenon
<1> HIDE DEF strengthened
<1>2. CASE d.outcome = "new"
  <2>1. w = insertFact(m, buildFact(in, "active"))
    BY <1>2 DEF addFact
  <2>2. e \notin DOMAIN m.facts
    BY <1>0, <1>2 DEF arbitrate, NoFact, OutcomesAgainst
  <2> PICK f : f = buildFact(in, "active")
    OBVIOUS
  <2>3. f \in Fact /\ f.state = "active" /\ f.value = in.value
        /\ f.derived_from = in.derived_from
    BY <1>0, <1>b
  <2>4. /\ Listed(w) /\ w.dirty /\ w.summaries = m.summaries
        /\ DOMAIN w.facts = 1..id /\ w.facts[id] = f
        /\ \A i \in DOMAIN m.facts : w.facts[i] = m.facts[i]
    <3>1. Inserted(m, w, f)
      BY <1>0, <2>1, <2>3, InsertIs
    <3> HIDE DEF w
    <3> QED BY <3>1 DEF Inserted
  <2> HIDE DEF w
  <2> QED BY <1>0, <1>2, <1>s, <2>2, <2>3, <2>4
          DEF w, Weighed, SameSources, StateOfNew, StateOfExisting
<1>3. CASE d.outcome = "converge"
  <2>1. w = strengthened
    BY <1>3 DEF addFact, strengthened
  <2> HIDE DEF w
  <2> QED BY <1>0, <1>1, <1>3, <1>s, <2>1 DEF w, Weighed, SameSources, StateOfExisting
<1>4. CASE d.outcome \in {"supersede", "conflict"}
  <2> PICK new \in FactStates, old \in FactStates :
             /\ new = StateOfNew(d) /\ \A was : old = StateOfExisting(d, was)
             /\ w = Retire(insertFact(m, buildFact(in, new)), {e}, old)
    <3>1. CASE d.outcome = "supersede"
      BY <1>0, <3>1 DEF addFact, StateOfNew, StateOfExisting
    <3>2. CASE d.outcome = "conflict"
      BY <1>0, <3>2 DEF addFact, StateOfNew, StateOfExisting
    <3> QED BY <1>4, <3>1, <3>2
  <2> PICK f : f = buildFact(in, new)
    OBVIOUS
  <2>1. f \in Fact /\ f.state = new /\ f.value = in.value /\ f.derived_from = in.derived_from
    BY <1>b
  <2>2. e \in DOMAIN m.facts
    BY <1>0, <1>4
  <2> HIDE DEF e
  <2>3. Replaced(m, w, f, e, old)
    BY <1>0, <2>1, <2>2, ReplaceIs, Zenon
  <2> HIDE DEF w
  <2>4. Weighed(m, w, d)
    BY <2>3 DEF Weighed, Replaced, e
  <2> QED BY <1>0, <1>4, <2>1, <2>3, <2>4 DEF w, Replaced
<1>5. CASE d.outcome = "reject"
  <2>1. w = insertFact(strengthened, buildFact(in, "superseded"))
    BY <1>5 DEF addFact, strengthened
  <2> PICK f : f = buildFact(in, "superseded")
    OBVIOUS
  <2>2. f \in Fact /\ f.state = "superseded" /\ f.value = in.value
        /\ f.derived_from = in.derived_from
    BY <1>0, <1>b
  <2>3. /\ Listed(w) /\ w.dirty /\ w.summaries = strengthened.summaries
        /\ DOMAIN w.facts = 1..id /\ w.facts[id] = f
        /\ \A i \in DOMAIN m.facts : w.facts[i] = strengthened.facts[i]
    <3>1. Listed(strengthened) /\ Len(strengthened.facts) = Len(m.facts)
          /\ DOMAIN strengthened.facts = DOMAIN m.facts
      BY <1>0, <1>1, <1>5
    <3>2. Inserted(strengthened, w, f)
      BY <2>1, <2>2, <3>1, InsertIs
    <3> HIDE DEF w
    <3> QED BY <3>1, <3>2 DEF Inserted
  <2> HIDE DEF w
  <2> QED BY <1>0, <1>1, <1>5, <1>s, <2>2, <2>3
          DEF w, Weighed, SameSources, StateOfNew, StateOfExisting
<1> QED BY <1>0, <1>2, <1>3, <1>4, <1>5 DEF Outcomes

LEMMA AddFactShaped ==
  ASSUME NEW m, MType(m), NEW in, NEW d \in arbitrate(m, in)
  PROVE  Shaped(addFact(m, in, d))
<1> DEFINE made == SetFact(m, d.existing, applyConvergence(m.facts[d.existing], in.source))
<1>1. d.outcome \in Outcomes
  BY ArbitrateNames
<1>2. Shaped(made)
  BY DEF MType, SetFact, Shaped
<1>3. \/ addFact(m, in, d) = made
      \/ \E n, f : addFact(m, in, d) = insertFact(n, f)
      \/ \E k, ids, s : addFact(m, in, d) = Retire(k, ids, s)
  BY <1>1 DEF addFact, Outcomes
<1>4. \A n, f : Shaped(insertFact(n, f))
  BY DEF insertFact, Shaped
<1>5. \A n, ids, s : Shaped(Retire(n, ids, s))
  BY DEF Retire, Shaped
<1> HIDE DEF made
<1> QED BY <1>2, <1>3, <1>4, <1>5, Zenon

-----------------------------------------------------------------------------
\* Facts descend from older facts of the document, and summaries name its facts.
Grounded(d) ==
  /\ \A i \in DOMAIN d.facts : \A p \in d.facts[i].derived_from :
       p \in DOMAIN d.facts /\ p < i
  /\ \A s \in DOMAIN d.summaries :
       d.summaries[s].source_fact_ids \subseteq DOMAIN d.facts

\* d and m differ in nothing but the observation data of facts.
SavedAs(m, d) ==
  /\ d.summaries = m.summaries
  /\ DOMAIN d.facts = DOMAIN m.facts
  /\ \A i \in DOMAIN m.facts :
       /\ d.facts[i].state = m.facts[i].state
       /\ d.facts[i].value = m.facts[i].value
       /\ d.facts[i].derived_from = m.facts[i].derived_from

\* n lists the facts of m and newer ones, which descend from facts of m, as the
\* sources of newer summaries do.
Extends(m, n) ==
  /\ DOMAIN m.facts \subseteq DOMAIN n.facts
  /\ \A i \in DOMAIN m.facts : n.facts[i].derived_from = m.facts[i].derived_from
  /\ \A i \in DOMAIN n.facts \ DOMAIN m.facts :
       /\ n.facts[i].derived_from \subseteq DOMAIN m.facts
       /\ \A j \in DOMAIN m.facts : j < i
  /\ \A s \in DOMAIN n.summaries :
       \/ n.summaries[s].source_fact_ids \subseteq DOMAIN m.facts
       \/ /\ s \in DOMAIN m.summaries
          /\ n.summaries[s].source_fact_ids = m.summaries[s].source_fact_ids

\* Nothing that a commit would write is lost by the flag.
Flags(m, n) == n.dirty \/ (~ m.dirty /\ SavedAs(m, n))

LEMMA ExtendsGrounded ==
  ASSUME NEW m, NEW n, Grounded(m), Extends(m, n)
  PROVE  Grounded(n)
<1>1. ASSUME NEW i \in DOMAIN n.facts, NEW p \in n.facts[i].derived_from
      PROVE  p \in DOMAIN n.facts /\ p < i
  <2>1. CASE i \in DOMAIN m.facts
    BY <1>1, <2>1 DEF Grounded, Extends
  <2>2. CASE i \notin DOMAIN m.facts
    BY <1>1, <2>2 DEF Extends
  <2> QED BY <2>1, <2>2
<1>2. ASSUME NEW s \in DOMAIN n.summaries
      PROVE  n.summaries[s].source_fact_ids \subseteq DOMAIN n.facts
  BY <1>2 DEF Grounded, Extends
<1> QED BY <1>1, <1>2 DEF Grounded

\* A list with one more fact, whose parents are older, is an extension.
LEMMA OneMore ==
  ASSUME NEW m, NEW n, SameSources(m, n), NEW len \in Nat,
         DOMAIN m.facts = 1..len,
         \A i \in DOMAIN m.facts : n.facts[i].derived_from = m.facts[i].derived_from,
         \/ DOMAIN n.facts = 1..len
         \/ /\ DOMAIN n.facts = 1..(len + 1)
            /\ n.facts[len + 1].derived_from \subseteq DOMAIN m.facts
  PROVE  Extends(m, n)
<1>1. DOMAIN m.facts \subseteq DOMAIN n.facts
  OBVIOUS
<1>2. ASSUME NEW i \in DOMAIN n.facts, i \notin DOMAIN m.facts
      PROVE  n.facts[i].derived_from \subseteq DOMAIN m.facts /\ \A j \in DOMAIN m.facts : j < i
  <2>1. i = len + 1 /\ DOMAIN n.facts = 1..(len + 1)
    BY <1>2
  <2> QED BY <1>2, <2>1
<1> QED BY <1>1, <1>2 DEF Extends, SameSources

\* addFact: the parents it is given are the only ones the manifest may not know.
LEMMA AddFactFollows ==
  ASSUME NEW m, MType(m), NEW in \in Input, NEW d \in arbitrate(m, in)
  PROVE  /\ in.derived_from \subseteq DOMAIN m.facts => Extends(m, addFact(m, in, d))
         /\ Flags(m, addFact(m, in, d))
<1> DEFINE n == addFact(m, in, d)
<1>1. /\ DOMAIN m.facts = 1..Len(m.facts) /\ Len(m.facts) \in Nat
      /\ SameSources(m, n) /\ Weighed(m, n, d)
      /\ m.dirty \/ d.outcome # "converge" => n.dirty
      /\ d.outcome = "converge" =>
           DOMAIN n.facts = DOMAIN m.facts /\ n.summaries = m.summaries
      /\ d.outcome # "converge" =>
           /\ DOMAIN n.facts = 1..(Len(m.facts) + 1)
           /\ n.facts[Len(m.facts) + 1].derived_from = in.derived_from
  BY AddFactIs
<1> HIDE DEF n
<1>2. in.derived_from \subseteq DOMAIN m.facts => Extends(m, n)
  BY <1>1, OneMore DEF Weighed
<1>3. Flags(m, n)
  BY <1>1 DEF Flags, SavedAs, Weighed, StateOfExisting
<1> QED BY <1>2, <1>3 DEF n

\* Retiring facts of the manifest changes no descent, and marks it dirty.
LEMMA RetireFollows ==
  ASSUME NEW m, Listed(m), NEW ids, ids # {}, NEW state \in FactStates
  PROVE  Extends(m, Retire(m, ids, state)) /\ Flags(m, Retire(m, ids, state))
<1> DEFINE n == Retire(m, ids, state)
<1>1. SameFacts(m, n) /\ SameSources(m, n)
  BY RetireIs
<1>2. n.dirty
  BY DEF Retire
<1> HIDE DEF n
<1>3. Extends(m, n)
  BY <1>1 DEF Extends, SameFacts, SameSources
<1>4. Flags(m, n)
  BY <1>2 DEF Flags
<1> QED BY <1>3, <1>4 DEF n

\* Before the sweep the refinement is in the manifest, as a new fact or as the fact
\* it converged with, it is not conflicted, and the manager is dirty.
LEMMA ForcedIs ==
  ASSUME NEW m, MType(m), NEW target \in DOMAIN m.facts,
         NEW in \in Input, NEW d \in arbitrate(m, in)
  PROVE  LET n == Forced(m, target, in, d)
         IN  /\ Listed(n) /\ SameSources(m, n) /\ n.dirty
             /\ DOMAIN m.facts = 1..Len(m.facts) /\ Len(m.facts) \in Nat
             /\ \A i \in DOMAIN m.facts :
                  /\ n.facts[i].value = m.facts[i].value
                  /\ n.facts[i].derived_from = m.facts[i].derived_from
             /\ d.outcome = "converge" => DOMAIN n.facts = DOMAIN m.facts
             /\ d.outcome # "converge" =>
                  /\ DOMAIN n.facts = 1..(Len(m.facts) + 1)
                  /\ n.facts[Len(m.facts) + 1].derived_from = in.derived_from
             /\ n.facts[ResultId(m, d)].state # "conflicted"
<1> DEFINE r     == ResultId(m, d)
           added == addFact(m, in, d)
           up    == [added.facts[r] EXCEPT !.state = "active"]
           made  == SetFact(added, r, up)
           n     == Forced(m, target, in, d)
<1>1. /\ Listed(m) /\ Listed(added)
      /\ DOMAIN m.facts = 1..Len(m.facts) /\ Len(m.facts) \in Nat
      /\ SameSources(m, added) /\ Weighed(m, added, d)
      /\ d.outcome # "converge" => added.dirty
      /\ d.outcome = "converge" => DOMAIN added.facts = DOMAIN m.facts
      /\ d.outcome # "converge" =>
           /\ DOMAIN added.facts = 1..(Len(m.facts) + 1)
           /\ added.facts[Len(m.facts) + 1].derived_from = in.derived_from
           /\ added.facts[Len(m.facts) + 1].state = StateOfNew(d)
  BY AddFactIs
<1>2. Shaped(added)
  BY AddFactShaped
<1>3. /\ r = IF d.outcome = "converge" THEN d.existing ELSE Len(m.facts) + 1
      /\ d.outcome # "new" => d.existing \in DOMAIN m.facts
  BY ArbitrateNames DEF ResultId
<1>4. r \in DOMAIN added.facts
  BY <1>1, <1>3
<1>v. \A i \in DOMAIN m.facts :
        /\ added.facts[i].value = m.facts[i].value
        /\ added.facts[i].derived_from = m.facts[i].derived_from
  BY <1>1 DEF Weighed
<1> HIDE DEF added, r
<1>5. CASE d.outcome \in {"supersede", "new"}
  <2>1. n = added
    BY <1>5 DEF Forced, added, r
  <2>2. r = Len(m.facts) + 1 /\ added.facts[r].state = "active"
    BY <1>1, <1>3, <1>5 DEF StateOfNew
  <2> HIDE DEF n
  <2> QED BY <1>1, <1>5, <1>v, <2>1, <2>2 DEF n, r
<1>6. CASE d.outcome \notin {"supersede", "new"}
  <2>1. n = Retire(made, {target}, "superseded")
    BY <1>6 DEF Forced, added, r
  <2>2. added.facts[r] \in Fact
    BY <1>1, <1>4 DEF Listed
  <2>3. /\ up \in Fact /\ up.state = "active" /\ up.value = added.facts[r].value
        /\ up.derived_from = added.facts[r].derived_from
    BY <2>2 DEF Fact, FactStates
  <2> HIDE DEF up
  <2>4. /\ Listed(made) /\ made.facts = [added.facts EXCEPT ![r] = up]
        /\ made.summaries = added.summaries
    BY <1>1, <1>2, <1>4, <2>3, SetFactIs
  <2> HIDE DEF made
  <2>5. /\ Listed(n) /\ SameFacts(made, n) /\ SameSources(made, n) /\ n.dirty
        /\ Moved(made, n, target, "superseded")
    BY <2>1, <2>4, RetireOneIs DEF FactStates
  <2> HIDE DEF n
  <2>6. /\ DOMAIN made.facts = DOMAIN added.facts
        /\ \A i \in DOMAIN added.facts :
             /\ made.facts[i].value = added.facts[i].value
             /\ made.facts[i].derived_from = added.facts[i].derived_from
        /\ made.facts[r].state = "active"
    BY <1>1, <1>4, <2>3, <2>4 DEF Listed
  <2>7. DOMAIN n.facts = DOMAIN added.facts /\ n.facts[r].state # "conflicted"
    BY <1>4, <2>5, <2>6 DEF SameFacts, Moved
  <2>8. \A i \in DOMAIN added.facts :
          /\ n.facts[i].value = added.facts[i].value
          /\ n.facts[i].derived_from = added.facts[i].derived_from
    BY <2>5, <2>6 DEF SameFacts
  <2>9. SameSources(m, n)
    BY <1>1, <2>4, <2>5 DEF SameSources
  <2>10. DOMAIN m.facts \subseteq DOMAIN added.facts
    BY <1>1
  <2> QED BY <1>1, <1>v, <2>5, <2>7, <2>8, <2>9, <2>10 DEF n, r
<1> QED BY <1>5, <1>6

\* Retiring some facts, or none, of a manager that is dirty.
LEMMA SweepFollows ==
  ASSUME NEW m, NEW k, Listed(k), k.dirty, Extends(m, k), NEW ids,
         NEW state \in FactStates
  PROVE  Extends(m, Retire(k, ids, state)) /\ Flags(m, Retire(k, ids, state))
<1> DEFINE n == Retire(k, ids, state)
<1>1. SameFacts(k, n) /\ SameSources(k, n)
  BY RetireIs
<1>2. n.dirty
  BY DEF Retire
<1> HIDE DEF n
<1>3. Extends(m, n)
  BY <1>1 DEF Extends, SameFacts, SameSources
<1>4. Flags(m, n)
  BY <1>2 DEF Flags
<1> QED BY <1>3, <1>4 DEF n

LEMMA RefinementFollows ==
  ASSUME NEW m, MType(m), NEW target \in DOMAIN m.facts,
         NEW in \in Input, in.derived_from \subseteq DOMAIN m.facts,
         NEW d \in arbitrate(m, in)
  PROVE  /\ Extends(m, proposeRefinement(m, target, in, d))
         /\ Flags(m, proposeRefinement(m, target, in, d))
<1> DEFINE n == Forced(m, target, in, d)
<1>1. /\ Listed(n) /\ SameSources(m, n) /\ n.dirty
      /\ DOMAIN m.facts = 1..Len(m.facts) /\ Len(m.facts) \in Nat
      /\ \A i \in DOMAIN m.facts : n.facts[i].derived_from = m.facts[i].derived_from
      /\ d.outcome = "converge" => DOMAIN n.facts = DOMAIN m.facts
      /\ d.outcome # "converge" =>
           /\ DOMAIN n.facts = 1..(Len(m.facts) + 1)
           /\ n.facts[Len(m.facts) + 1].derived_from = in.derived_from
  BY ForcedIs
<1> HIDE DEF n
<1>2. Extends(m, n)
  BY <1>1, OneMore
<1>3. "superseded" \in FactStates
  BY DEF FactStates
<1>4. \A ids : Extends(m, Retire(n, ids, "superseded")) /\ Flags(m, Retire(n, ids, "superseded"))
  BY <1>1, <1>2, <1>3, SweepFollows
<1> QED BY <1>4, RefinementParts DEF n

LEMMA ConsolidationFollows ==
  ASSUME NEW m, MType(m), NEW sources \in SUBSET DOMAIN m.facts, NEW in \in Input
  PROVE  /\ Extends(m, proposeConsolidation(m, sources, in))
         /\ Flags(m, proposeConsolidation(m, sources, in))
<1> DEFINE supporters == buildFact(in, "active").supporting_sources
                           \cup UNION {m.facts[i].supporting_sources : i \in sources}
           fact == [buildFact(in, "active") EXCEPT
                      !.derived_from = sources, !.supporting_sources = supporters]
           k == insertFact(m, fact)
<1>0. /\ Listed(m) /\ m.facts \in Seq(Fact)
      /\ DOMAIN m.facts = 1..Len(m.facts) /\ Len(m.facts) \in Nat
      /\ "superseded" \in FactStates /\ "active" \in FactStates
  BY DEF MType, FactStates, Listed
<1>1. buildFact(in, "active") \in Fact
  BY <1>0, BuildFactType
<1>2. supporters \in SUBSET Sources
  <2>0. \A i \in sources : m.facts[i] \in Fact
    BY <1>0
  <2>1. \A i \in sources : m.facts[i].supporting_sources \subseteq Sources
    BY <2>0 DEF Fact
  <2> QED BY <1>1, <2>1 DEF Fact
<1> HIDE DEF supporters
<1>3. fact \in Fact /\ fact.derived_from = sources
  <2>1. sources \in SUBSET Nat
    BY <1>0
  <2> QED BY <1>1, <1>2, <2>1 DEF Fact
<1>4. proposeConsolidation(m, sources, in) = Retire(k, sources, "superseded")
  BY DEF proposeConsolidation, supporters
<1> HIDE DEF fact
<1>5. Inserted(m, k, fact)
  BY <1>0, <1>3, InsertIs
<1> HIDE DEF k
<1>6. Extends(m, k) /\ Listed(k) /\ k.dirty
  <2>1. SameSources(m, k)
    BY <1>5 DEF Inserted, SameSources
  <2>2. Extends(m, k)
    BY <1>0, <1>3, <1>5, <2>1, OneMore DEF Inserted
  <2> QED BY <1>5, <2>2 DEF Inserted
<1>7. \A ids : Extends(m, Retire(k, ids, "superseded")) /\ Flags(m, Retire(k, ids, "superseded"))
  BY <1>0, <1>6, SweepFollows
<1> QED BY <1>4, <1>7

LEMMA InvalidateFollows ==
  ASSUME NEW m, MType(m), NEW i \in DOMAIN m.facts
  PROVE  Extends(m, invalidateFact(m, i)) /\ Flags(m, invalidateFact(m, i))
<1> DEFINE w == Retire(m, {i}, "invalidated")
           n == invalidateFact(m, i)
<1>1. Extends(m, w) /\ w.dirty
  <2>1. Listed(m) /\ "invalidated" \in FactStates /\ {i} # {}
    BY DEF MType, Listed, FactStates
  <2>2. w.dirty
    BY DEF Retire
  <2>3. Extends(m, w)
    BY <2>1, RetireFollows
  <2> QED BY <2>2, <2>3
<1>2. n.facts = w.facts /\ n.summaries = w.summaries /\ n.dirty = w.dirty
  BY DEF invalidateFact, Retire
<1> HIDE DEF w, n
<1>3. Extends(m, n)
  BY <1>1, <1>2 DEF Extends
<1>4. n.dirty
  BY <1>1, <1>2
<1> QED BY <1>3, <1>4 DEF Flags, n

LEMMA SummaryFollows ==
  ASSUME NEW m, MType(m), NEW slot \in Slots, NEW sources
  PROVE  /\ sources \subseteq DOMAIN m.facts => Extends(m, addSummary(m, slot, sources))
         /\ Flags(m, addSummary(m, slot, sources))
<1> DEFINE same  == {s \in DOMAIN m.summaries :
                       m.summaries[s].slot = slot /\ m.summaries[s].state = "active"}
           first == {s \in same : \A t \in same : s <= t}
           closed(s) == [m.summaries[s] EXCEPT !.state = "superseded"]
           old   == [s \in DOMAIN m.summaries |->
                       IF s \in first THEN closed(s) ELSE m.summaries[s]]
           fresh == [slot |-> slot, state |-> "active", stale |-> FALSE,
                     source_fact_ids |-> sources,
                     seen |-> {<<i, m.facts[i].state>> : i \in sources \cap DOMAIN m.facts}]
           n     == addSummary(m, slot, sources)
<1>1. n.facts = m.facts /\ n.summaries = Append(old, fresh) /\ n.dirty = TRUE
  BY DEF addSummary
<1>2. m.summaries \in Seq(Summary) /\ m.summaries \in [DOMAIN m.summaries -> Summary]
  BY DEF MType
<1>3. \A s \in DOMAIN m.summaries :
        /\ closed(s) \in Summary
        /\ closed(s).source_fact_ids = m.summaries[s].source_fact_ids
  BY <1>2 DEF Summary, SummaryStates
<1>f. fresh.source_fact_ids = sources
  OBVIOUS
<1> HIDE DEF n, closed, first, fresh
<1>4. old \in Seq(Summary) /\ Len(old) = Len(m.summaries) /\ DOMAIN old = DOMAIN m.summaries
  <2>1. old \in [DOMAIN m.summaries -> Summary]
    BY <1>2, <1>3
  <2> QED BY <1>2, <2>1, SameLength
<1>5. \A s \in DOMAIN m.summaries : old[s].source_fact_ids = m.summaries[s].source_fact_ids
  BY <1>3
<1> HIDE DEF old
<1>6. ASSUME sources \subseteq DOMAIN m.facts, NEW s \in DOMAIN n.summaries
      PROVE  \/ n.summaries[s].source_fact_ids \subseteq DOMAIN m.facts
             \/ /\ s \in DOMAIN m.summaries
                /\ n.summaries[s].source_fact_ids = m.summaries[s].source_fact_ids
  <2>1. /\ Len(old) \in Nat /\ DOMAIN old = 1..Len(old)
        /\ DOMAIN n.summaries = 1..(Len(old) + 1)
        /\ n.summaries[Len(old) + 1] = fresh
        /\ \A t \in DOMAIN old : n.summaries[t] = old[t]
    BY <1>1, <1>4, AppendIs
  <2> QED BY <1>4, <1>5, <1>6, <1>f, <2>1
<1>7. sources \subseteq DOMAIN m.facts => Extends(m, n)
  BY <1>1, <1>6 DEF Extends
<1>8. Flags(m, n)
  BY <1>1 DEF Flags
<1> QED BY <1>7, <1>8 DEF n

-----------------------------------------------------------------------------
\* What every step does to the manager and the file: it extends the manager's lists
\* and flags what it changed, or it writes the file, or it reads it.
Effect ==
  \/ /\ Flags(Manager, Manager') /\ UNCHANGED disk
     /\ Unknown = {} => Extends(Manager, Manager')
  \/ /\ Manager'.facts = facts /\ Manager'.summaries = summaries
     /\ disk' = Document(Manager)
  \/ /\ Manager'.facts = disk.facts /\ Manager'.summaries = disk.summaries
     /\ UNCHANGED disk
  \/ UNCHANGED vars

LEMMA CallEffect ==
  ASSUME IInv, NEW m, MInv(m), Becomes(m), UNCHANGED disk,
         Flags(Manager, m), Unknown = {} => Extends(Manager, m)
  PROVE  Effect
<1>1. Manager' = m
  BY BecomesManager DEF MInv
<1> QED BY <1>1 DEF Effect

LEMMA NextEffect == IInv /\ [Next]_vars => Effect
<1> SUFFICES ASSUME IInv, [Next]_vars PROVE Effect
  OBVIOUS
<1>0. MInv(Manager) /\ MType(Manager) /\ Listed(Manager)
  BY DEF IInv, MInv, MType, Listed
<1>t. /\ DOMAIN facts \subseteq Nat /\ Unknown \subseteq Nat
      /\ facts \in Seq(Fact) /\ summaries \in Seq(Summary)
      /\ Manager.facts = facts /\ Manager.summaries = summaries
  <2>1. facts \in Seq(Fact) /\ summaries \in Seq(Summary)
    BY <1>0, ManagerFields DEF Listed
  <2> QED BY <2>1, UnknownAssumption, ManagerFields DEF NoFact
<1>1. CASE AddFact
  <2>a. PICK in \in FactInput(DOMAIN facts \cup Unknown) :
          \E d \in arbitrate(Manager, in) : Becomes(addFact(Manager, in, d))
    BY <1>1 DEF AddFact
  <2>1. PICK d \in arbitrate(Manager, in) : Becomes(addFact(Manager, in, d))
    BY <2>a
  <2>2. in \in Input /\ in.derived_from \subseteq (DOMAIN facts \cup Unknown)
    BY <1>t, FactInputType DEF FactInput
  <2>3. Len(Manager.facts) < MaxFacts /\ UNCHANGED disk
    BY <1>1, ManagerFields DEF AddFact, Room
  <2> DEFINE n == addFact(Manager, in, d)
  <2>4. MInv(n)
    BY <1>0, <2>2, <2>3, AddFactInv
  <2>5. /\ Flags(Manager, n)
        /\ in.derived_from \subseteq DOMAIN Manager.facts => Extends(Manager, n)
    BY <1>0, <2>2, AddFactFollows
  <2>6. Becomes(n)
    BY <2>1
  <2> HIDE DEF n
  <2>7. Unknown = {} => Extends(Manager, n)
    BY <1>t, <2>2, <2>5
  <2> QED BY <2>3, <2>4, <2>5, <2>6, <2>7, CallEffect
<1>2. CASE SupersedeFact
  <2>1. PICK i \in DOMAIN facts : Becomes(Retire(Manager, {i}, "superseded"))
    BY <1>2 DEF SupersedeFact
  <2>2. /\ {i} \in SUBSET DOMAIN Manager.facts /\ {i} # {}
        /\ "superseded" \in FactStates /\ "superseded" \in FactStates \ {"active"}
    BY ManagerFields DEF FactStates
  <2> DEFINE n == Retire(Manager, {i}, "superseded")
  <2>3. MInv(n)
    BY <1>0, <2>2, RetireInv
  <2>4. Flags(Manager, n) /\ Extends(Manager, n)
    BY <1>0, <2>2, RetireFollows
  <2>5. Becomes(n) /\ UNCHANGED disk
    BY <1>2, <2>1 DEF SupersedeFact
  <2> HIDE DEF n
  <2> QED BY <2>3, <2>4, <2>5, CallEffect
<1>3. CASE InvalidateFact
  <2>1. PICK i \in DOMAIN facts : Becomes(invalidateFact(Manager, i))
    BY <1>3 DEF InvalidateFact
  <2> DEFINE n == invalidateFact(Manager, i)
  <2>2. MInv(n)
    BY <1>0, InvalidateInv, ManagerFields
  <2>3. Flags(Manager, n) /\ Extends(Manager, n)
    BY <1>0, InvalidateFollows, ManagerFields
  <2>4. Becomes(n) /\ UNCHANGED disk
    BY <1>3, <2>1 DEF InvalidateFact
  <2> HIDE DEF n
  <2> QED BY <2>2, <2>3, <2>4, CallEffect
<1>4. CASE AddSummary
  <2>1. PICK slot \in Slots, sources \in SUBSET (DOMAIN facts \cup Unknown) :
          Becomes(addSummary(Manager, slot, sources))
    BY <1>4 DEF AddSummary
  <2>2. /\ Len(Manager.summaries) < MaxSummaries
        /\ sources \in SUBSET (DOMAIN Manager.facts \cup Unknown)
    BY <1>4, ManagerFields DEF AddSummary
  <2> DEFINE n == addSummary(Manager, slot, sources)
  <2>3. MInv(n)
    BY <1>0, <2>2, AddSummaryInv
  <2>4. /\ Flags(Manager, n)
        /\ sources \subseteq DOMAIN Manager.facts => Extends(Manager, n)
    BY <1>0, SummaryFollows
  <2>5. Becomes(n) /\ UNCHANGED disk
    BY <1>4, <2>1 DEF AddSummary
  <2> HIDE DEF n
  <2>6. Unknown = {} => Extends(Manager, n)
    BY <2>2, <2>4
  <2> QED BY <2>3, <2>4, <2>5, <2>6, CallEffect
<1>5. CASE ProposeRefinement
  <2>1. PICK target \in DOMAIN facts : Refine(target)
    BY <1>5 DEF ProposeRefinement
  <2>a. PICK in \in {[i EXCEPT !.derived_from = {target}] : i \in FactInput({})} :
          \E d \in arbitrate(Manager, in) :
            Becomes(proposeRefinement(Manager, target, in, d))
    BY <2>1 DEF Refine
  <2>2. PICK d \in arbitrate(Manager, in) :
          Becomes(proposeRefinement(Manager, target, in, d))
    BY <2>a
  <2>3. in \in Input /\ in.derived_from = {target}
    <3>1. PICK i \in FactInput({}) : in = [i EXCEPT !.derived_from = {target}]
      BY <2>a
    <3>2. i \in Input
      BY FactInputType
    <3> QED BY <1>t, <3>1, <3>2 DEF Input
  <2>4. Len(Manager.facts) < MaxFacts /\ target \in DOMAIN Manager.facts
        /\ in.derived_from \subseteq DOMAIN Manager.facts
    BY <1>5, <2>3, ManagerFields DEF ProposeRefinement, Room
  <2> DEFINE n == proposeRefinement(Manager, target, in, d)
  <2>5. MInv(n)
    BY <1>0, <2>2, <2>3, <2>4, RefinementInv
  <2>6. Flags(Manager, n) /\ Extends(Manager, n)
    BY <1>0, <2>2, <2>3, <2>4, RefinementFollows
  <2>7. Becomes(n) /\ UNCHANGED disk
    BY <2>1, <2>2 DEF Refine
  <2> HIDE DEF n
  <2> QED BY <2>5, <2>6, <2>7, CallEffect
<1>6. CASE ProposeConsolidation
  <2>1. PICK sources \in (SUBSET DOMAIN facts) \ {{}}, in \in FactInput({}) :
          Becomes(proposeConsolidation(Manager, sources, in))
    BY <1>6 DEF ProposeConsolidation
  <2>2. in \in Input
    BY FactInputType
  <2>3. Len(Manager.facts) < MaxFacts /\ sources \in SUBSET DOMAIN Manager.facts
    BY <1>6, ManagerFields DEF ProposeConsolidation, Room
  <2> DEFINE n == proposeConsolidation(Manager, sources, in)
  <2>4. MInv(n)
    BY <1>0, <2>2, <2>3, ConsolidationInv
  <2>5. Flags(Manager, n) /\ Extends(Manager, n)
    BY <1>0, <2>2, <2>3, ConsolidationFollows
  <2>6. Becomes(n) /\ UNCHANGED disk
    BY <1>6, <2>1 DEF ProposeConsolidation
  <2> HIDE DEF n
  <2> QED BY <2>4, <2>5, <2>6, CallEffect
<1>7. CASE Commit
  BY <1>7, ManagerFields DEF Commit, Effect, Manager
<1>8. CASE Reload
  <2>1. /\ FromDocument(disk).facts = disk.facts
        /\ FromDocument(disk).summaries = disk.summaries
    BY DEF FromDocument
  <2>2. Manager'.facts = disk.facts /\ Manager'.summaries = disk.summaries
    BY <1>8, <2>1 DEF Reload, Becomes, Manager
  <2> QED BY <1>8, <2>2 DEF Reload, Effect
<1>9. CASE UNCHANGED vars
  BY <1>9 DEF Effect
<1> QED
  BY <1>1, <1>2, <1>3, <1>4, <1>5, <1>6, <1>7, <1>8, <1>9 DEF Next, Call, Ingest

-----------------------------------------------------------------------------
\* The flag is the only reason for a difference between memory and file.
Saved == dirty \/ SavedAs(Manager, disk)

LEMMA SavedStep == Effect /\ Saved => Saved'
<1> SUFFICES ASSUME Effect, Saved, ~ dirty' PROVE SavedAs(Manager, disk)'
  BY DEF Saved
<1>0. /\ Manager.dirty = dirty /\ Manager'.dirty = dirty'
      /\ Manager.facts = facts /\ Manager'.facts = facts'
      /\ Manager.summaries = summaries /\ Manager'.summaries = summaries'
  BY DEF Manager
<1>1. CASE Flags(Manager, Manager') /\ UNCHANGED disk
  <2>1. ~ dirty /\ SavedAs(Manager, Manager')
    BY <1>0, <1>1 DEF Flags
  <2>2. SavedAs(Manager, disk)
    BY <2>1 DEF Saved
  <2> QED BY <1>1, <2>1, <2>2 DEF SavedAs
<1>2. CASE /\ Manager'.facts = facts /\ Manager'.summaries = summaries
           /\ disk' = Document(Manager)
  BY <1>0, <1>2 DEF Document, SavedAs
<1>3. CASE /\ Manager'.facts = disk.facts /\ Manager'.summaries = disk.summaries
           /\ UNCHANGED disk
  BY <1>3 DEF SavedAs
<1>4. CASE UNCHANGED vars
  BY <1>4 DEF vars, Saved, SavedAs, Manager
<1> QED BY <1>1, <1>2, <1>3, <1>4 DEF Effect

\* commit() may return early when the manager is not dirty: what is then in memory,
\* convergence data aside, is on disk, after any sequence of calls and reloads.
THEOREM CleanIsSaved == Spec => []CleanMeansSaved
<1>1. Init => Saved
  BY DEF Init, Saved, SavedAs, Manager
<1>2. IInv /\ Saved /\ [Next]_vars => Saved'
  BY NextEffect, SavedStep
<1>3. Saved => CleanMeansSaved
  BY ManagerFields DEF Saved, SavedAs, CleanMeansSaved
<1> QED BY <1>1, <1>2, <1>3, Invariance, PTL DEF Spec

\* The file is as well founded as the memory that a commit writes to it.
Descent == Grounded(Manager) /\ Grounded(disk)

LEMMA GroundedStep ==
  ASSUME Unknown = {}, Effect, Descent
  PROVE  Descent'
<1>0. Manager.facts = facts /\ Manager.summaries = summaries
  BY ManagerFields
<1>1. CASE Flags(Manager, Manager') /\ UNCHANGED disk /\ Extends(Manager, Manager')
  <2>1. Grounded(Manager')
    BY <1>1, ExtendsGrounded DEF Descent
  <2> QED BY <1>1, <2>1 DEF Descent
<1>2. CASE /\ Manager'.facts = facts /\ Manager'.summaries = summaries
           /\ disk' = Document(Manager)
  BY <1>0, <1>2 DEF Document, Descent, Grounded
<1>3. CASE /\ Manager'.facts = disk.facts /\ Manager'.summaries = disk.summaries
           /\ UNCHANGED disk
  BY <1>3 DEF Descent, Grounded
<1>4. CASE UNCHANGED vars
  BY <1>4 DEF vars, Descent, Grounded, Manager
<1> QED BY <1>1, <1>2, <1>3, <1>4 DEF Effect

\* As long as callers name only facts that exist, which no call checks, every
\* document commit() writes passes the lineage check of load(), and no fact descends
\* from itself.
THEOREM CommittedLoads ==
  ASSUME Unknown = {}
  PROVE  Spec => []CommittedManifestLoads
<1>1. Init => Descent
  BY DEF Init, Descent, Grounded, Manager
<1>2. IInv /\ Descent /\ [Next]_vars => Descent'
  BY NextEffect, GroundedStep
<1>3. Descent => CommittedManifestLoads
  BY DEF Descent, Grounded, CommittedManifestLoads, validateLineage
<1> QED BY <1>1, <1>2, <1>3, Invariance, PTL DEF Spec

-----------------------------------------------------------------------------
\* The sweep reaches every conflicted fact of the target's key: the conflicted index
\* misses none of them, and the one fact it spares is not conflicted.
LEMMA SweepResolves ==
  ASSUME NEW m, MInv(m), NEW target \in DOMAIN m.facts,
         NEW in \in Input, NEW d \in arbitrate(m, in),
         d.outcome = "converge" \/ Len(m.facts) < MaxFacts,
         NEW i \in DOMAIN proposeRefinement(m, target, in, d).facts,
         KeyOf[proposeRefinement(m, target, in, d).facts[i].value]
           = KeyOf[m.facts[target].value]
  PROVE  proposeRefinement(m, target, in, d).facts[i].state # "conflicted"
<1> DEFINE k     == Forced(m, target, in, d)
           swept == Swept(m, target, in, d)
           n     == proposeRefinement(m, target, in, d)
           r     == ResultId(m, d)
<1>1. MInv(k)
  BY ForcedInv
<1>2. k.facts[r].state # "conflicted"
  BY ForcedIs DEF MInv
<1>3. Listed(k) /\ "superseded" \in FactStates
  BY <1>1 DEF MInv, MType, Listed, FactStates
<1>4. swept = {j \in k.conflicted_facts :
                 j # r /\ KeyOf[k.facts[j].value] = KeyOf[m.facts[target].value]}
  BY DEF Swept
<1>5. n = Retire(k, swept, "superseded")
  BY RefinementParts
<1>6. i \in DOMAIN n.facts /\ KeyOf[n.facts[i].value] = KeyOf[m.facts[target].value]
  OBVIOUS
<1> SUFFICES n.facts[i].state # "conflicted"
  OBVIOUS
<1> HIDE DEF k, swept, n, r
<1>7. /\ SameFacts(k, n)
      /\ \A j \in DOMAIN k.facts :
           n.facts[j].state = IF j \in swept THEN "superseded" ELSE k.facts[j].state
  BY <1>3, <1>5, RetireIs
<1>8. i \in DOMAIN k.facts /\ n.facts[i].value = k.facts[i].value
  BY <1>6, <1>7 DEF SameFacts
<1>9. k.facts[i].state = "conflicted" => i \in swept
  BY <1>1, <1>2, <1>4, <1>6, <1>8 DEF MInv, MIndex
<1> QED BY <1>7, <1>8, <1>9

\* proposeRefinement resolves the dispute it is called for: after it no fact of the
\* target's key is conflicted, whatever arbitration made of the refinement, and
\* however stale the conflicted index is.
THEOREM RefinementSettles == Spec => RefinementResolves
<1>1. ASSUME IInv, IInv', NEW t \in DOMAIN facts, Refine(t), NEW i \in DOMAIN facts',
             KeyOf[facts'[i].value] = KeyAt(t)
      PROVE  facts'[i].state # "conflicted"
  <2>a. PICK in \in {[j EXCEPT !.derived_from = {t}] : j \in FactInput({})} :
          \E d \in arbitrate(Manager, in) :
            Becomes(proposeRefinement(Manager, t, in, d))
    BY <1>1 DEF Refine
  <2>1. PICK d \in arbitrate(Manager, in) :
          Becomes(proposeRefinement(Manager, t, in, d))
    BY <2>a
  <2>2. MInv(Manager) /\ MType(Manager) /\ t \in DOMAIN Manager.facts
        /\ Manager.facts = facts /\ DOMAIN facts \subseteq Nat
    BY <1>1, ManagerFields DEF IInv, MInv, MType
  <2>3. in \in Input
    <3>1. PICK j \in FactInput({}) : in = [j EXCEPT !.derived_from = {t}]
      BY <2>a
    <3>2. j \in Input
      BY FactInputType
    <3> QED BY <2>2, <3>1, <3>2 DEF Input
  <2> DEFINE n == proposeRefinement(Manager, t, in, d)
  <2>4. facts' = n.facts
    BY <2>1 DEF Becomes
  <2>5. d.outcome # "converge" => Len(facts) < MaxFacts
    <3>1. facts' \in Seq(Fact) /\ Len(facts') <= MaxFacts
      BY <1>1 DEF IInv, MInv, MType, Manager
    <3>2. SameFacts(Forced(Manager, t, in, d), n)
      <4>1. Listed(Forced(Manager, t, in, d)) /\ "superseded" \in FactStates
        BY <2>2, <2>3, ForcedIs DEF FactStates
      <4> QED BY <4>1, RefinementParts, RetireIs
    <3>3. /\ Len(facts) \in Nat
          /\ d.outcome # "converge" =>
               DOMAIN Forced(Manager, t, in, d).facts = 1..(Len(facts) + 1)
      BY <2>2, <2>3, ForcedIs
    <3> HIDE DEF n
    <3>4. d.outcome # "converge" => DOMAIN facts' = 1..(Len(facts) + 1)
      BY <2>4, <3>2, <3>3 DEF SameFacts
    <3>5. DOMAIN facts' = 1..Len(facts') /\ Len(facts') \in Nat
      BY <3>1
    <3>6. ASSUME d.outcome # "converge" PROVE Len(facts) < MaxFacts
      <4>1. Len(facts) + 1 \in DOMAIN facts'
        BY <3>3, <3>4, <3>6
      <4>2. Len(facts) + 1 <= Len(facts')
        BY <3>5, <4>1
      <4> QED BY <3>1, <3>3, <3>5, <4>2, BoundAssumption
    <3> QED BY <3>6
  <2>6. i \in DOMAIN n.facts /\ KeyOf[n.facts[i].value] = KeyOf[Manager.facts[t].value]
    BY <1>1, <2>2, <2>4 DEF KeyAt
  <2>7. n.facts[i].state # "conflicted"
    BY <2>2, <2>3, <2>5, <2>6, SweepResolves
  <2> QED BY <2>4, <2>7
<1>2. IInv /\ IInv' =>
        [\A t \in DOMAIN facts : Refine(t) => \A i \in DOMAIN facts' :
           KeyOf[facts'[i].value] = KeyAt(t) => facts'[i].state # "conflicted"]_vars
  BY <1>1
<1> QED BY <1>2, Invariance, PTL DEF RefinementResolves

-----------------------------------------------------------------------------
\* OneAuthority of a manager or of a document.
Authority(m) ==
  \A i, j \in DOMAIN m.facts :
    (/\ m.facts[i].state = "active" /\ m.facts[j].state = "active"
     /\ KeyOf[m.facts[i].value] = KeyOf[m.facts[j].value]) => i = j

\* Where a key has one active fact, arbitration weighs that fact and no other.
LEMMA SoleActiveIsWeighed ==
  ASSUME NEW m, MType(m), Authority(m), NEW i \in DOMAIN m.facts,
         m.facts[i].state = "active",
         NEW in, KeyOf[in.value] = KeyOf[m.facts[i].value],
         NEW d \in arbitrate(m, in)
  PROVE  d.existing = i /\ d.outcome # "new"
<1> DEFINE k      == KeyOf[in.value]
           met    == {j \in FactsByKey(m, k) :
                        m.facts[j].state \notin {"archived", "invalidated"}}
           active == {j \in met : m.facts[j].state = "active"}
           auth   == findAuthoritativeFact(m, k)
<1>1. DOMAIN m.facts \subseteq Nat
  BY DEF MType
<1>2. active = {i}
  BY DEF FactsByKey, Authority
<1>3. auth = {j \in active : \A l \in active :
                \/ m.facts[l].confidence < m.facts[j].confidence
                \/ m.facts[l].confidence = m.facts[j].confidence /\ j <= l}
  <2>1. active # {}
    BY <1>2
  <2> QED BY <2>1 DEF findAuthoritativeFact
<1> HIDE DEF active
<1>4. auth = {i}
  BY <1>1, <1>2, <1>3
<1> HIDE DEF auth
<1>5. d \in UNION {{[outcome |-> o, existing |-> e] :
                      o \in OutcomesAgainst(in, m.facts[e])} : e \in auth}
  BY <1>4 DEF arbitrate, auth
<1>6. PICK e \in auth : d \in {[outcome |-> o, existing |-> e] :
                                 o \in OutcomesAgainst(in, m.facts[e])}
  BY <1>5
<1>7. PICK o \in OutcomesAgainst(in, m.facts[e]) : d = [outcome |-> o, existing |-> e]
  BY <1>6
<1>8. o # "new"
  BY <1>7 DEF OutcomesAgainst
<1> QED BY <1>4, <1>6, <1>7, <1>8

LEMMA AddFactAuthority ==
  ASSUME NEW m, MType(m), Authority(m), NEW in \in Input, NEW d \in arbitrate(m, in)
  PROVE  Authority(addFact(m, in, d))
<1> DEFINE n  == addFact(m, in, d)
           id == Len(m.facts) + 1
<1>1. /\ DOMAIN m.facts = 1..Len(m.facts) /\ Len(m.facts) \in Nat
      /\ Weighed(m, n, d)
      /\ d.outcome = "converge" => DOMAIN n.facts = DOMAIN m.facts
      /\ d.outcome # "converge" =>
           /\ DOMAIN n.facts = 1..id
           /\ n.facts[id].value = in.value /\ n.facts[id].state = StateOfNew(d)
  BY AddFactIs
<1>2. d.outcome \in Outcomes
  BY ArbitrateNames
<1> HIDE DEF n
<1>3. ASSUME NEW i \in DOMAIN m.facts, n.facts[i].state = "active"
      PROVE  /\ m.facts[i].state = "active" /\ n.facts[i].value = m.facts[i].value
             /\ d.outcome \in {"supersede", "conflict"} => i # d.existing
  BY <1>1, <1>3 DEF Weighed, StateOfExisting
<1>4. ASSUME d.outcome # "converge", n.facts[id].state = "active",
             NEW j \in DOMAIN m.facts, n.facts[j].state = "active"
      PROVE  KeyOf[n.facts[id].value] # KeyOf[n.facts[j].value]
  <2>1. d.outcome \in {"new", "supersede"}
    BY <1>1, <1>2, <1>4 DEF StateOfNew, Outcomes
  <2>2. SUFFICES ASSUME KeyOf[n.facts[id].value] = KeyOf[n.facts[j].value] PROVE FALSE
    OBVIOUS
  <2>3. KeyOf[in.value] = KeyOf[m.facts[j].value] /\ m.facts[j].state = "active"
    BY <1>1, <1>3, <1>4, <2>2
  <2>4. d.existing = j /\ d.outcome # "new"
    BY <2>3, SoleActiveIsWeighed
  <2> QED BY <1>3, <1>4, <2>1, <2>4
<1>5. ASSUME NEW i \in DOMAIN n.facts
      PROVE  i \in DOMAIN m.facts \/ (i = id /\ d.outcome # "converge")
  BY <1>1, <1>5
<1>6. ASSUME NEW i \in DOMAIN n.facts, NEW j \in DOMAIN n.facts,
             n.facts[i].state = "active", n.facts[j].state = "active",
             KeyOf[n.facts[i].value] = KeyOf[n.facts[j].value]
      PROVE  i = j
  <2>1. CASE i \in DOMAIN m.facts /\ j \in DOMAIN m.facts
    BY <1>3, <1>6, <2>1 DEF Authority
  <2>2. CASE i = id /\ d.outcome # "converge" /\ j \in DOMAIN m.facts
    BY <1>4, <1>6, <2>2
  <2>3. CASE j = id /\ d.outcome # "converge" /\ i \in DOMAIN m.facts
    BY <1>4, <1>6, <2>3
  <2> QED BY <1>5, <2>1, <2>2, <2>3
<1> QED BY <1>6 DEF Authority, n

\* Moving facts out of "active" makes no second authority.
LEMMA RetireAuthority ==
  ASSUME NEW m, Listed(m), Authority(m), NEW ids, NEW state \in FactStates \ {"active"}
  PROVE  Authority(Retire(m, ids, state))
<1> DEFINE n == Retire(m, ids, state)
<1>1. /\ SameFacts(m, n)
      /\ \A i \in DOMAIN m.facts :
           n.facts[i].state = IF i \in ids THEN state ELSE m.facts[i].state
  BY RetireIs
<1> HIDE DEF n
<1>2. Authority(n)
  BY <1>1 DEF Authority, SameFacts
<1> QED BY <1>2 DEF n

\* A reload makes the file the memory, so that both need one authority for a key.
AuthorityInv == IInv /\ Authority(Manager) /\ Authority(disk)

LEMMA AuthorityStep == AuthorityInv /\ [Ingest \/ Commit \/ Reload]_vars => AuthorityInv'
<1> SUFFICES ASSUME AuthorityInv, [Ingest \/ Commit \/ Reload]_vars PROVE AuthorityInv'
  OBVIOUS
<1>0. /\ MInv(Manager) /\ MType(Manager) /\ Listed(Manager)
      /\ Authority(Manager) /\ Authority(disk)
      /\ Manager.facts = facts /\ Manager'.facts = facts'
  BY DEF AuthorityInv, IInv, MInv, MType, Listed, Manager
<1>1. IInv'
  BY NextIInv DEF AuthorityInv, Next, Call
<1>b. ASSUME NEW m, Becomes(m), Authority(m), UNCHANGED disk
      PROVE  Authority(Manager)' /\ Authority(disk)'
  <2>1. facts' = m.facts /\ disk' = disk
    BY <1>b DEF Becomes
  <2>2. Authority(Manager')
    BY <1>0, <1>b, <2>1 DEF Authority
  <2> QED BY <1>0, <2>1, <2>2
<1>2. CASE AddFact
  <2>a. PICK in \in FactInput(DOMAIN facts \cup Unknown) :
          \E d \in arbitrate(Manager, in) : Becomes(addFact(Manager, in, d))
    BY <1>2 DEF AddFact
  <2>1. PICK d \in arbitrate(Manager, in) : Becomes(addFact(Manager, in, d))
    BY <2>a
  <2>2. in \in Input
    <3>1. DOMAIN facts \subseteq Nat /\ Unknown \subseteq Nat
      <4>1. facts \in Seq(Fact)
        BY <1>0 DEF Listed
      <4> QED BY <4>1, UnknownAssumption DEF NoFact
    <3> QED BY <3>1, FactInputType
  <2>3. Authority(addFact(Manager, in, d))
    BY <1>0, <2>2, AddFactAuthority
  <2> QED BY <1>1, <1>2, <1>b, <2>1, <2>3 DEF AddFact, AuthorityInv
<1>3. CASE SupersedeFact
  <2>1. PICK i \in DOMAIN facts : Becomes(Retire(Manager, {i}, "superseded"))
    BY <1>3 DEF SupersedeFact
  <2>2. Authority(Retire(Manager, {i}, "superseded"))
    BY <1>0, RetireAuthority DEF FactStates
  <2> QED BY <1>1, <1>3, <1>b, <2>1, <2>2 DEF SupersedeFact, AuthorityInv
<1>4. CASE InvalidateFact
  <2>1. PICK i \in DOMAIN facts : Becomes(invalidateFact(Manager, i))
    BY <1>4 DEF InvalidateFact
  <2>2. Authority(Retire(Manager, {i}, "invalidated"))
    BY <1>0, RetireAuthority DEF FactStates
  <2>3. invalidateFact(Manager, i).facts = Retire(Manager, {i}, "invalidated").facts
    BY DEF invalidateFact, Retire
  <2>4. Authority(invalidateFact(Manager, i))
    BY <2>2, <2>3 DEF Authority
  <2> QED BY <1>1, <1>4, <1>b, <2>1, <2>4 DEF InvalidateFact, AuthorityInv
<1>5. CASE Commit
  <2>1. facts' = facts /\ disk'.facts = facts
    BY <1>0, <1>5 DEF Commit, Document
  <2> QED BY <1>0, <1>1, <2>1 DEF Authority, AuthorityInv
<1>6. CASE Reload
  <2>1. facts' = disk.facts /\ disk' = disk
    BY <1>6 DEF Reload, Becomes, FromDocument
  <2> QED BY <1>0, <1>1, <2>1 DEF Authority, AuthorityInv
<1>7. CASE UNCHANGED vars
  <2>1. facts' = facts /\ disk' = disk
    BY <1>7 DEF vars
  <2> QED BY <1>0, <1>1, <2>1 DEF Authority, AuthorityInv
<1> QED BY <1>2, <1>3, <1>4, <1>5, <1>6, <1>7 DEF Ingest

\* For a client that leaves every decision to arbitration: a key never has two active
\* facts, whatever the confidences, the ties at the threshold, the deletions and the
\* reloads.
THEOREM OneActiveFact == IngestSpec => []OneAuthority
<1>1. Init => AuthorityInv
  <2>1. Init => Authority(Manager) /\ Authority(disk)
    BY DEF Init, Authority, Manager
  <2> QED BY <2>1, InitIInv DEF AuthorityInv
<1>2. AuthorityInv => OneAuthority
  BY ManagerFields DEF AuthorityInv, Authority, OneAuthority, FactIn, KeyAt
<1> QED BY <1>1, <1>2, AuthorityStep, PTL DEF IngestSpec

-----------------------------------------------------------------------------
\* The facts of the first n that the loop weighs for a key.
Met(m, k, n) ==
  {i \in 1..n : KeyOf[m.facts[i].value] = k
                  /\ m.facts[i].state \notin {"archived", "invalidated"}}

\* b is what the loop keeps of the first n facts.
Kept(m, k, n, b) ==
  IF Met(m, k, n) = {} THEN b = NoFact
  ELSE /\ b \in Met(m, k, n)
       /\ \A i \in Met(m, k, n) : m.facts[i].state = m.facts[b].state =>
            \/ m.facts[i].confidence < m.facts[b].confidence
            \/ m.facts[i].confidence = m.facts[b].confidence /\ b <= i
       /\ \/ m.facts[b].state = "active"
          \/ /\ \A i \in Met(m, k, n) : m.facts[i].state # "active"
             /\ \E f \in Met(m, k, n) : /\ \A i \in Met(m, k, n) : f <= i
                                        /\ m.facts[f].state = m.facts[b].state

\* One visit of the loop: what it does with the fact n, given the one it holds.
Visit(m, k, n, b) ==
  IF n \notin Met(m, k, n) THEN b
  ELSE IF b = NoFact THEN n
  ELSE IF \/ m.facts[n].state = "active" /\ m.facts[b].state # "active"
          \/ /\ m.facts[n].state = m.facts[b].state
             /\ m.facts[n].confidence > m.facts[b].confidence
       THEN n ELSE b

\* A visit keeps what the loop is to keep of one fact more.
LEMMA VisitKeeps ==
  ASSUME NEW m, m.facts \in Seq(Fact), NEW k,
         NEW n \in Nat, n + 1 <= Len(m.facts), NEW b, Kept(m, k, n, b)
  PROVE  Kept(m, k, n + 1, Visit(m, k, n + 1, b))
<1> DEFINE t == n + 1
           old == Met(m, k, n)
           new == Met(m, k, t)
           st(i) == m.facts[i].state
           cf(i) == m.facts[i].confidence
<1>1. \A i \in 1..t : cf(i) \in Int
  <2>1. \A i \in 1..t : m.facts[i] \in Fact
    OBVIOUS
  <2> QED BY <2>1 DEF Fact
<1>2. /\ old \subseteq 1..n /\ new \subseteq 1..t
      /\ new \ {t} = old /\ t \notin old /\ (t \notin new => new = old)
      /\ t \in new => new = old \cup {t}
  BY DEF Met
<1>3. \A i \in old : i \in 1..t /\ i < t
  BY <1>2
<1> HIDE DEF old, new
<1>4. CASE t \notin new
  BY <1>2, <1>4 DEF Kept, Visit, old, new
<1>5. CASE t \in new /\ old = {}
  <2>1. new = {t} /\ b = NoFact /\ Visit(m, k, t, b) = t
    BY <1>2, <1>5 DEF Kept, Visit, old, new
  <2>2. t \in 1..t /\ t <= t
    OBVIOUS
  <2> QED BY <1>1, <2>1, <2>2 DEF Kept, new
<1>6. CASE t \in new /\ old # {}
  <2>1. /\ b \in old
        /\ \A i \in old : st(i) = st(b) =>
             cf(i) < cf(b) \/ (cf(i) = cf(b) /\ b <= i)
        /\ \/ st(b) = "active"
           \/ /\ \A i \in old : st(i) # "active"
              /\ \E f \in old : (\A i \in old : f <= i) /\ st(f) = st(b)
    BY <1>6 DEF Kept, old
  <2>2. b # NoFact /\ b \in 1..t /\ b < t /\ t \in 1..t /\ new = old \cup {t}
    BY <1>2, <1>3, <1>6, <2>1 DEF NoFact
  <2>3. /\ Visit(m, k, t, b) \in {t, b}
        /\ Visit(m, k, t, b) = t <=>
             \/ st(t) = "active" /\ st(b) # "active"
             \/ st(t) = st(b) /\ cf(t) > cf(b)
    BY <1>6, <2>2 DEF Visit, new
  <2> DEFINE c == Visit(m, k, t, b)
  <2> HIDE DEF c
  <2>4. c \in new
    BY <1>6, <2>1, <2>2, <2>3 DEF c
  <2>5. ASSUME NEW i \in new, st(i) = st(c)
        PROVE  cf(i) < cf(c) \/ (cf(i) = cf(c) /\ c <= i)
    <3>1. CASE c = t /\ st(t) = st(b)
      <4>1. cf(t) > cf(b)
        BY <2>3, <3>1 DEF c
      <4>2. CASE i = t
        BY <1>1, <2>2, <3>1, <4>2
      <4>3. CASE i \in old
        <5>1. cf(i) < cf(b) \/ cf(i) = cf(b)
          BY <2>1, <2>5, <3>1, <4>3
        <5>2. cf(i) \in Int /\ cf(b) \in Int /\ cf(t) \in Int
          BY <1>1, <1>3, <2>2, <4>3
        <5>3. cf(i) < cf(t)
          <6> HIDE DEF cf
          <6> QED BY <4>1, <5>1, <5>2
        <5> QED BY <3>1, <5>3
      <4> QED BY <2>2, <2>5, <4>2, <4>3
    <3>2. CASE c = t /\ st(t) # st(b)
      <4>1. st(t) = "active" /\ \A j \in old : st(j) # "active"
        BY <2>1, <2>3, <3>2 DEF c
      <4>2. i = t
        BY <2>2, <2>5, <3>2, <4>1
      <4> QED BY <1>1, <2>2, <3>2, <4>2
    <3>3. CASE c = b /\ c # t
      <4>1. CASE i = t
        <5>1. ~ (cf(t) > cf(b)) /\ b < t
          BY <2>2, <2>3, <2>5, <3>3, <4>1 DEF c
        <5>2. cf(b) \in Int /\ cf(t) \in Int /\ b \in Int
          BY <1>1, <2>2
        <5> QED BY <3>3, <4>1, <5>1, <5>2
      <4>2. CASE i \in old
        BY <2>1, <2>5, <3>3, <4>2
      <4> QED BY <2>2, <2>5, <4>1, <4>2
    <3> QED BY <2>3, <3>1, <3>2, <3>3 DEF c
  <2>6. \/ st(c) = "active"
        \/ /\ \A i \in new : st(i) # "active"
           /\ \E f \in new : (\A i \in new : f <= i) /\ st(f) = st(c)
    <3>1. SUFFICES ASSUME st(c) # "active"
                   PROVE  /\ \A i \in new : st(i) # "active"
                          /\ \E f \in new : (\A i \in new : f <= i) /\ st(f) = st(c)
      OBVIOUS
    <3>2. st(b) # "active" /\ st(c) = st(b)
      BY <2>3, <3>1 DEF c
    <3>3. st(t) # "active"
      BY <2>3, <3>1, <3>2 DEF c
    <3>4. PICK f \in old : (\A i \in old : f <= i) /\ st(f) = st(b)
      BY <2>1, <3>2
    <3>5. \A i \in new : f <= i
      BY <1>3, <2>2, <3>4
    <3> QED BY <2>1, <2>2, <3>2, <3>3, <3>4, <3>5
  <2>7. new # {}
    BY <1>6
  <2> QED BY <2>4, <2>5, <2>6, <2>7 DEF Kept, c, new
<1> QED BY <1>4, <1>5, <1>6

\* What the loop keeps of all the facts is the authoritative fact.
LEMMA KeptIsAuthority ==
  ASSUME NEW m, m.facts \in Seq(Fact), NEW k, NEW b, Kept(m, k, Len(m.facts), b)
  PROVE  findAuthoritativeFact(m, k) = {b} \ {NoFact}
<1> DEFINE n == Len(m.facts)
           all == Met(m, k, n)
           st(i) == m.facts[i].state
           cf(i) == m.facts[i].confidence
           active == {i \in all : st(i) = "active"}
           asFirst == {i \in all : \E f \in all : (\A j \in all : f <= j) /\ st(i) = st(f)}
           pool == IF active # {} THEN active ELSE asFirst
           best == {i \in pool : \A j \in pool : cf(j) < cf(i) \/ (cf(j) = cf(i) /\ i <= j)}
<1>1. /\ DOMAIN m.facts = 1..n /\ n \in Nat
      /\ \A i \in 1..n : cf(i) \in Int
  <2>1. \A i \in 1..n : m.facts[i] \in Fact
    OBVIOUS
  <2> QED BY <2>1 DEF Fact
<1>2. findAuthoritativeFact(m, k) = best
  <2>1. all = {i \in FactsByKey(m, k) : st(i) \notin {"archived", "invalidated"}}
    BY <1>1 DEF Met, FactsByKey
  <2> HIDE DEF all
  <2> QED BY <2>1 DEF findAuthoritativeFact
<1>3. all \subseteq 1..n
  BY DEF Met
<1> HIDE DEF all
<1>4. CASE all = {}
  BY <1>2, <1>4 DEF Kept, all
<1>5. CASE all # {}
  <2>1. /\ b \in all
        /\ \A i \in all : st(i) = st(b) => cf(i) < cf(b) \/ (cf(i) = cf(b) /\ b <= i)
        /\ \/ st(b) = "active"
           \/ /\ \A i \in all : st(i) # "active"
              /\ \E f \in all : (\A i \in all : f <= i) /\ st(f) = st(b)
    BY <1>5 DEF Kept, all
  <2>2. pool = {i \in all : st(i) = st(b)}
    <3>1. CASE st(b) = "active"
      <4>1. active # {}
        BY <2>1, <3>1
      <4> QED BY <3>1, <4>1
    <3>2. CASE st(b) # "active"
      <4>1. active = {}
        BY <2>1, <3>2
      <4>2. PICK f \in all : (\A i \in all : f <= i) /\ st(f) = st(b)
        BY <2>1, <3>2
      <4>3. \A g \in all : (\A j \in all : g <= j) => g = f
        BY <1>1, <1>3, <4>2
      <4>4. asFirst = {i \in all : st(i) = st(b)}
        BY <4>2, <4>3
      <4> QED BY <4>1, <4>4
    <3> QED BY <3>1, <3>2
  <2> HIDE DEF pool
  <2>3. b \in pool /\ \A j \in pool : cf(j) < cf(b) \/ (cf(j) = cf(b) /\ b <= j)
    BY <2>1, <2>2
  <2>4. ASSUME NEW i \in best
        PROVE  i = b
    <3>1. /\ i \in pool
          /\ cf(b) < cf(i) \/ (cf(b) = cf(i) /\ i <= b)
          /\ cf(i) < cf(b) \/ (cf(i) = cf(b) /\ b <= i)
      BY <2>3
    <3>2. i \in 1..n /\ b \in 1..n
      BY <1>3, <2>2, <2>3, <3>1
    <3>3. cf(i) \in Int /\ cf(b) \in Int /\ i \in Int /\ b \in Int
      BY <1>1, <3>2
    <3> QED BY <3>1, <3>3
  <2>5. best = {b}
    BY <2>3, <2>4
  <2>6. b # NoFact
    BY <1>1, <1>3, <2>1 DEF NoFact
  <2> QED BY <1>2, <2>5, <2>6
<1> QED BY <1>4, <1>5

\* The loop of findAuthoritativeFact, run over the facts one by one.
LEMMA LoopKeeps ==
  ASSUME NEW m, m.facts \in Seq(Fact), NEW k
  PROVE  Kept(m, k, Len(m.facts), AuthoritativeLoop(m, k))
<1> DEFINE len == Len(m.facts)
           V == 0..len
           passed(n) == \/ n \notin FactsByKey(m, k)
                        \/ m.facts[n].state \in {"archived", "invalidated"}
           better(f, b) == \/ f.state = "active" /\ b.state # "active"
                           \/ f.state = b.state /\ f.confidence > b.confidence
           Best(f) == f = [n \in V |->
             IF n = 0 THEN NoFact
             ELSE IF passed(n) THEN f[n - 1]
             ELSE IF f[n - 1] = NoFact THEN n
             ELSE IF better(m.facts[n], m.facts[f[n - 1]]) THEN n
             ELSE f[n - 1]]
           best == CHOOSE f : Best(f)
           next == [n \in V |-> [b \in V |-> Visit(m, k, n, b)]]
<1>1. len \in Nat /\ DOMAIN m.facts = 1..len /\ 0 \in V /\ 0 <= len
  OBVIOUS
<1>2. next \in [V -> [V -> V]]
  <2>1. \A n \in V : \A b \in V : Visit(m, k, n, b) \in V
    BY DEF Visit
  <2> QED BY <2>1
<1>3. PICK g \in [V -> V] : Recurs(g, NoFact, 0, len, next)
  <2> DEFINE a == NoFact
             lo == 0
  <2>1. a \in V /\ lo \in Nat /\ lo <= len /\ V = lo..len
    BY <1>1 DEF NoFact
  <2> HIDE DEF next, V, a, lo, len
  <2>2. \E g \in [lo..len -> V] : Recurs(g, a, lo, len, next)
    BY <1>1, <1>2, <2>1, Recursion
  <2> QED BY <2>1, <2>2 DEF a, lo
<1>4. g[0] = NoFact /\ \A n \in V : n # 0 => g[n] = Visit(m, k, n, g[n - 1])
  <2>1. g[0] = NoFact /\ \A n \in V : n # 0 => g[n] = next[n][g[n - 1]]
    BY <1>3 DEF Recurs
  <2>2. \A n \in V : n # 0 => n - 1 \in V
    BY <1>1
  <2>3. \A n \in V : \A b \in V : next[n][b] = Visit(m, k, n, b)
    OBVIOUS
  <2> HIDE DEF next, V
  <2> QED BY <1>3, <2>1, <2>2, <2>3
<1>5. ASSUME NEW n \in V, n # 0
      PROVE  passed(n) <=> n \notin Met(m, k, n)
  BY <1>1, <1>5 DEF FactsByKey, Met
<1> DEFINE step(f, n) ==
             IF passed(n) THEN f[n - 1]
             ELSE IF f[n - 1] = NoFact THEN n
             ELSE IF better(m.facts[n], m.facts[f[n - 1]]) THEN n
             ELSE f[n - 1]
<1>6. ASSUME NEW f, NEW n \in V, n # 0
      PROVE  step(f, n) = Visit(m, k, n, f[n - 1])
  <2> HIDE DEF passed
  <2> QED BY <1>5, <1>6 DEF Visit
<1>7. \A f : Best(f) <=> f = [n \in V |-> IF n = 0 THEN NoFact ELSE step(f, n)]
  OBVIOUS
<1>8. AuthoritativeLoop(m, k) = best[len]
  BY DEF AuthoritativeLoop
<1> HIDE DEF best, Best, step, V
<1>9. Best(g)
  <2>1. \A n \in V : g[n] = IF n = 0 THEN NoFact ELSE step(g, n)
    BY <1>4, <1>6
  <2>2. g = [n \in V |-> IF n = 0 THEN NoFact ELSE step(g, n)]
    BY <1>3, <2>1
  <2> QED BY <1>7, <2>2
<1>10. Best(best)
  BY <1>9 DEF best
<1>11. /\ best[0] = NoFact
       /\ \A n \in V : n # 0 => best[n] = Visit(m, k, n, best[n - 1])
  <2>1. best = [n \in V |-> IF n = 0 THEN NoFact ELSE step(best, n)]
    BY <1>7, <1>10
  <2> HIDE DEF best
  <2>2. \A n \in V : best[n] = IF n = 0 THEN NoFact ELSE step(best, n)
    BY <2>1
  <2> QED BY <1>1, <1>6, <2>2
<1> DEFINE Good == {n \in Nat : n <= len => Kept(m, k, n, best[n])}
<1>12. 0 \in Good
  <2>1. Met(m, k, 0) = {}
    BY DEF Met
  <2> QED BY <1>11, <2>1 DEF Kept
<1>13. ASSUME NEW n \in Nat, n \in Good
       PROVE  n + 1 \in Good
  <2>1. SUFFICES ASSUME n + 1 <= len PROVE Kept(m, k, n + 1, best[n + 1])
    OBVIOUS
  <2>2. n + 1 \in V /\ n + 1 # 0 /\ (n + 1) - 1 = n /\ Kept(m, k, n, best[n])
    BY <1>1, <1>13, <2>1 DEF V
  <2>3. best[n + 1] = Visit(m, k, n + 1, best[n])
    BY <1>11, <2>2
  <2> QED BY <2>1, <2>2, <2>3, VisitKeeps
<1>14. \A n \in Nat : n \in Good
  <2> HIDE DEF Good
  <2> QED BY <1>12, <1>13, Induction
<1> QED BY <1>1, <1>8, <1>14

\* The authoritative fact of arbitration, a set of maximal facts, is what the loop of
\* findAuthoritativeFact keeps: for every number of facts, whatever their order, states
\* and confidences, in every manifest the calls can reach.
THEOREM AuthorityIsWhatTheLoopKeeps == Spec => []AuthorityIsTheLoop
<1>1. IInv => AuthorityIsTheLoop
  <2>1. SUFFICES ASSUME IInv, NEW k \in Keys
                 PROVE  findAuthoritativeFact(Manager, k)
                          = {AuthoritativeLoop(Manager, k)} \ {NoFact}
    BY DEF AuthorityIsTheLoop
  <2>2. Manager.facts \in Seq(Fact)
    BY <2>1 DEF IInv, MInv, MType
  <2> HIDE DEF Manager
  <2> QED BY <2>2, LoopKeeps, KeptIsAuthority
<1> QED BY <1>1, Invariance, PTL

-----------------------------------------------------------------------------
(***************************************************************************)
(* The manifest file (ManifestCommit)                                      *)
(***************************************************************************)

\* What the position of a call says about the document, the descriptor and the
\* expected revision it holds.
TaskInv(t) ==
  /\ task[t].pc \in {"revision", "mkdir"} => task[t].expected < MaxRevision
  /\ task[t].pc \in {"apply", "open", "write", "rename", "finish"} =>
       task[t].doc \in FileDocument
  /\ At(t, "write") => task[t].fd \in Inodes

TypeInv == CommitTypeOK /\ \A t \in Tasks : TaskInv(t)

-----------------------------------------------------------------------------
(* The invariant for callers that do not overlap. *)

\* One call at a time.
Alone == \A t, u \in Tasks : ~ Idle(t) /\ ~ Idle(u) => t = u

\* The manifest is absent or a whole document that passes its own check, in a
\* file of its own.
FileInv ==
  /\ name.manifest # Nothing =>
       /\ content[name.manifest] \in FileDocument
       /\ content[name.manifest].hash = content[name.manifest].data
       /\ name.tmp # name.manifest

\* A document about to be published follows the one on disk: it is the fresh one
\* when there is none, or has the next revision and what its manager holds.
Follows(t) ==
  LET m == OwnerOf[t]
      doc == task[t].doc
  IN  /\ doc.hash = doc.data
      /\ IF name.manifest = Nothing
         THEN doc = Fresh
         ELSE /\ mgr[m].up /\ mgr[m].rev = OnDisk.rev
              /\ doc.rev = OnDisk.rev + 1 /\ doc.data = mgr[m].data

\* What holds of the disk and the owner where a call stands.
CallInv(t) ==
  LET m == OwnerOf[t]
  IN  /\ At(t, "apply") => name.manifest # Nothing /\ task[t].doc = OnDisk
      /\ At(t, "revision") => mgr[m].up /\ task[t].expected = mgr[m].rev
      /\ At(t, "mkdir") =>
           /\ mgr[m].up /\ name.manifest # Nothing
           /\ task[t].expected = OnDisk.rev /\ mgr[m].rev = OnDisk.rev
           /\ task[t].hash = mgr[m].data
      /\ task[t].pc \in {"open", "write", "rename"} => Follows(t)
      /\ At(t, "write") => task[t].fd = name.tmp /\ content[name.tmp] = Truncated
      /\ At(t, "rename") => name.tmp # Nothing /\ content[name.tmp] = task[t].doc
      /\ At(t, "finish") =>
           /\ name.manifest # Nothing /\ task[t].doc = OnDisk
           /\ OnDisk # Fresh => mgr[m].up /\ mgr[m].data = OnDisk.data

\* A manager is never ahead of the disk, and one at its revision holds what the
\* disk does and, when it is dirty, possibly more.
ManagerInv(m) ==
  mgr[m].up =>
    /\ name.manifest # Nothing
    /\ mgr[m].rev <= OnDisk.rev
    /\ mgr[m].rev = OnDisk.rev =>
         /\ OnDisk.data \subseteq mgr[m].data
         /\ ~ mgr[m].dirty => mgr[m].data = OnDisk.data

SerialInv ==
  /\ Alone
  /\ FileInv
  /\ \A t \in Tasks : CallInv(t)
  /\ \A m \in Managers : ManagerInv(m)
  /\ NoLostUpdate

CommitInv == TypeInv /\ SerialInv

-----------------------------------------------------------------------------
(* Types *)

TaskSet == [pc : Phases, expected : 0..MaxRevision, hash : SUBSET Mutations,
            doc : FileDocument \cup {Nothing}, fd : Inodes \cup {Nothing}]
MgrSet == [up : BOOLEAN, data : SUBSET Mutations, rev : 0..MaxRevision, dirty : BOOLEAN]

\* A file that parses holds a document.
LEMMA ParsesType ==
  ASSUME NEW c \in FileDocument \cup {Truncated, Mixed}, IsDocument(c)
  PROVE  c \in FileDocument
BY MarkAssumption DEF IsDocument

\* The values calls and managers start from.
LEMMA StartTypes ==
  /\ IdleTask \in TaskSet /\ IdleTask.pc = "idle"
  /\ DownManager \in MgrSet
  /\ Fresh \in FileDocument
BY RevisionAssumption
  DEF IdleTask, TaskSet, Phases, DownManager, MgrSet, Fresh, FileDocument

LEMMA InitTypes == CommitInit => TypeInv
<1> SUFFICES ASSUME CommitInit PROVE TypeInv
  OBVIOUS
<1>1. CommitTypeOK
  BY StartTypes DEF CommitInit, CommitTypeOK, TaskSet, MgrSet
<1>2. \A t \in Tasks : TaskInv(t)
  BY StartTypes DEF CommitInit, TaskInv, At
<1> QED BY <1>1, <1>2 DEF TypeInv

\* The step of one call keeps the types when the record it leaves behind is typed.
LEMMA OneTask ==
  ASSUME TypeInv, NEW t \in Tasks, NEW r \in TaskSet,
         task' = [task EXCEPT ![t] = r],
         r.pc \in {"revision", "mkdir"} => r.expected < MaxRevision,
         r.pc \in {"apply", "open", "write", "rename", "finish"} => r.doc \in FileDocument,
         r.pc = "write" => r.fd \in Inodes
  PROVE  task' \in [Tasks -> TaskSet] /\ (\A u \in Tasks : TaskInv(u))'
<1>1. task \in [Tasks -> TaskSet]
  BY DEF TypeInv, CommitTypeOK, TaskSet
<1>2. task' \in [Tasks -> TaskSet]
  BY <1>1
<1>3. ASSUME NEW u \in Tasks PROVE TaskInv(u)'
  <2>1. TaskInv(u)
    BY DEF TypeInv
  <2>2. CASE u = t
    BY <1>1, <2>2 DEF TaskInv, At
  <2>3. CASE u # t
    BY <1>1, <2>1, <2>3 DEF TaskInv, At
  <2> QED BY <2>2, <2>3
<1> QED BY <1>2, <1>3

\* The types survive every step, of any callers.
LEMMA NextTypes == TypeInv /\ [CommitNext]_commitVars => TypeInv'
<1> SUFFICES ASSUME TypeInv, [CommitNext]_commitVars PROVE TypeInv'
  OBVIOUS
<1> USE DEF TypeInv
<1>0. /\ task \in [Tasks -> TaskSet] /\ mgr \in [Managers -> MgrSet]
      /\ \A t \in Tasks : task[t] \in TaskSet /\ OwnerOf[t] \in Managers
  BY OwnerAssumption DEF CommitTypeOK, TaskSet, MgrSet
<1>a. ASSUME name' \in [{"manifest", "tmp"} -> Inodes \cup {Nothing}],
             content' \in [Inodes -> FileDocument \cup {Truncated, Mixed}],
             mgr' \in [Managers -> MgrSet],
             task' \in [Tasks -> TaskSet], (\A t \in Tasks : TaskInv(t))',
             acked' \subseteq [by : Managers, rev : 0..MaxRevision, data : SUBSET Mutations]
      PROVE  TypeInv'
  BY <1>a DEF CommitTypeOK, TaskSet, MgrSet
<1>b. ASSUME NEW t \in Tasks, Return(t)
      PROVE  task' \in [Tasks -> TaskSet] /\ (\A u \in Tasks : TaskInv(u))'
  <2>1. IdleTask.pc = "idle" /\ IdleTask \in TaskSet
    BY StartTypes
  <2> QED BY <1>b, <2>1, OneTask DEF Return
<1>1. ASSUME NEW m \in Managers, Crash(m) PROVE TypeInv'
  <2>1. task' \in [Tasks -> TaskSet] /\ mgr' \in [Managers -> MgrSet]
    BY <1>0, <1>1, StartTypes DEF Crash
  <2>2. (\A t \in Tasks : TaskInv(t))'
    BY <1>0, <1>1, StartTypes DEF Crash, TaskInv, At
  <2> QED BY <1>a, <1>1, <2>1, <2>2 DEF Crash, CommitTypeOK
<1>2. ASSUME NEW m \in Managers, NEW x \in Mutations, Mutate(m, x) PROVE TypeInv'
  <2>1. mgr' \in [Managers -> MgrSet]
    BY <1>0, <1>2 DEF Mutate, MgrSet
  <2>2. (\A t \in Tasks : TaskInv(t))'
    BY <1>2 DEF Mutate, TaskInv, At
  <2> QED BY <1>0, <1>a, <1>2, <2>1, <2>2 DEF Mutate, CommitTypeOK
<1>3. ASSUME NEW t \in Tasks, StartLoad(t) PROVE TypeInv'
  <2> DEFINE r == [task[t] EXCEPT !.pc = "load"]
  <2>1. r \in TaskSet /\ r.pc = "load" /\ task' = [task EXCEPT ![t] = r]
    BY <1>0, <1>3 DEF StartLoad, Goto, TaskSet, Phases
  <2> HIDE DEF r
  <2>2. task' \in [Tasks -> TaskSet] /\ (\A u \in Tasks : TaskInv(u))'
    BY <2>1, OneTask
  <2> QED BY <1>0, <1>a, <1>3, <2>2 DEF StartLoad, CommitTypeOK
<1>4. ASSUME NEW t \in Tasks, StartCommit(t) PROVE TypeInv'
  <2> DEFINE r == [task[t] EXCEPT !.pc = "revision", !.expected = mgr[OwnerOf[t]].rev]
  <2>1. /\ r \in TaskSet /\ r.pc = "revision" /\ r.expected < MaxRevision
        /\ task' = [task EXCEPT ![t] = r]
    BY <1>0, <1>4 DEF StartCommit, TaskSet, MgrSet, Phases
  <2> HIDE DEF r
  <2>2. task' \in [Tasks -> TaskSet] /\ (\A u \in Tasks : TaskInv(u))'
    BY <2>1, OneTask
  <2> QED BY <1>0, <1>a, <1>4, <2>2 DEF StartCommit, CommitTypeOK
<1>5. ASSUME NEW t \in Tasks, ReadManifest(t) PROVE TypeInv'
  <2>1. CASE Return(t)
    BY <1>0, <1>a, <1>b, <1>5, <2>1 DEF ReadManifest, CommitTypeOK
  <2>2. CASE task' = [task EXCEPT ![t].pc = "open", ![t].doc = Fresh]
    <3> DEFINE r == [task[t] EXCEPT !.pc = "open", !.doc = Fresh]
    <3>1. /\ r \in TaskSet /\ r.pc = "open" /\ r.doc \in FileDocument
          /\ task' = [task EXCEPT ![t] = r]
      BY <1>0, <2>2, StartTypes DEF TaskSet, Phases
    <3> HIDE DEF r
    <3>2. task' \in [Tasks -> TaskSet] /\ (\A u \in Tasks : TaskInv(u))'
      BY <3>1, OneTask
    <3> QED BY <1>0, <1>a, <1>5, <3>2 DEF ReadManifest, CommitTypeOK
  <2>3. CASE /\ name.manifest # Nothing /\ Loads(content[name.manifest])
             /\ task' = [task EXCEPT ![t].pc = "apply", ![t].doc = content[name.manifest]]
    <3> DEFINE r == [task[t] EXCEPT !.pc = "apply", !.doc = content[name.manifest]]
    <3>0. content[name.manifest] \in FileDocument
      BY <2>3, ParsesType DEF CommitTypeOK, Loads
    <3>1. /\ r \in TaskSet /\ r.pc = "apply" /\ r.doc \in FileDocument
          /\ task' = [task EXCEPT ![t] = r]
      BY <1>0, <2>3, <3>0 DEF TaskSet, Phases
    <3> HIDE DEF r
    <3>2. task' \in [Tasks -> TaskSet] /\ (\A u \in Tasks : TaskInv(u))'
      BY <3>1, OneTask
    <3> QED BY <1>0, <1>a, <1>5, <3>2 DEF ReadManifest, CommitTypeOK
  <2> QED BY <1>5, <2>1, <2>2, <2>3 DEF ReadManifest
<1>6. ASSUME NEW t \in Tasks, ApplyManifest(t) PROVE TypeInv'
  <2>1. task[t].doc \in FileDocument
    BY <1>6 DEF ApplyManifest, TaskInv, At
  <2>2. mgr' \in [Managers -> MgrSet]
    BY <1>0, <1>6, <2>1 DEF ApplyManifest, MgrSet, FileDocument
  <2> QED BY <1>a, <1>b, <1>6, <2>2 DEF ApplyManifest, CommitTypeOK
<1>7. ASSUME NEW t \in Tasks, CheckRevision(t) PROVE TypeInv'
  <2>0. task[t].expected < MaxRevision
    BY <1>7 DEF CheckRevision, TaskInv, At
  <2>1. CASE Return(t)
    BY <1>0, <1>a, <1>b, <1>7, <2>1 DEF CheckRevision, CommitTypeOK
  <2>2. CASE Goto(t, "reload")
    <3> DEFINE r == [task[t] EXCEPT !.pc = "reload"]
    <3>1. r \in TaskSet /\ r.pc = "reload" /\ task' = [task EXCEPT ![t] = r]
      BY <1>0, <2>2 DEF Goto, TaskSet, Phases
    <3> HIDE DEF r
    <3>2. task' \in [Tasks -> TaskSet] /\ (\A u \in Tasks : TaskInv(u))'
      BY <3>1, OneTask
    <3> QED BY <1>0, <1>a, <1>7, <3>2 DEF CheckRevision, CommitTypeOK
  <2>3. CASE task' = [task EXCEPT ![t].pc = "mkdir", ![t].hash = mgr[OwnerOf[t]].data]
    <3> DEFINE r == [task[t] EXCEPT !.pc = "mkdir", !.hash = mgr[OwnerOf[t]].data]
    <3>1. /\ r \in TaskSet /\ r.pc = "mkdir" /\ r.expected < MaxRevision
          /\ task' = [task EXCEPT ![t] = r]
      BY <1>0, <2>0, <2>3 DEF TaskSet, MgrSet, Phases
    <3> HIDE DEF r
    <3>2. task' \in [Tasks -> TaskSet] /\ (\A u \in Tasks : TaskInv(u))'
      BY <3>1, OneTask
    <3> QED BY <1>0, <1>a, <1>7, <3>2 DEF CheckRevision, CommitTypeOK
  <2> QED BY <1>7, <2>1, <2>2, <2>3 DEF CheckRevision
<1>8. ASSUME NEW t \in Tasks, Serialize(t) PROVE TypeInv'
  <2> DEFINE d == [rev |-> task[t].expected + 1, data |-> mgr[OwnerOf[t]].data,
                   hash |-> task[t].hash]
             r == [task[t] EXCEPT !.pc = "open", !.doc = d]
  <2>0. d \in FileDocument
    BY <1>0, <1>8, RevisionAssumption DEF Serialize, TaskInv, At, TaskSet, MgrSet, FileDocument
  <2>1. /\ r \in TaskSet /\ r.pc = "open" /\ r.doc \in FileDocument
        /\ task' = [task EXCEPT ![t] = r]
    BY <1>0, <1>8, <2>0 DEF Serialize, TaskSet, Phases
  <2> HIDE DEF r
  <2>2. task' \in [Tasks -> TaskSet] /\ (\A u \in Tasks : TaskInv(u))'
    BY <2>1, OneTask
  <2> QED BY <1>0, <1>a, <1>8, <2>2 DEF Serialize, CommitTypeOK
<1>9. ASSUME NEW t \in Tasks, OpenTmp(t) PROVE TypeInv'
  <2>1. PICK i \in IF name.tmp # Nothing THEN {name.tmp} ELSE FreeInodes :
          /\ name' = [name EXCEPT !.tmp = i]
          /\ content' = [content EXCEPT ![i] = Truncated]
          /\ task' = [task EXCEPT ![t].pc = "write", ![t].fd = i]
    BY <1>9 DEF OpenTmp
  <2>2. i \in Inodes
    BY <2>1 DEF FreeInodes, CommitTypeOK
  <2> DEFINE r == [task[t] EXCEPT !.pc = "write", !.fd = i]
  <2>3. task[t].doc \in FileDocument
    BY <1>9 DEF OpenTmp, TaskInv, At
  <2>4. /\ r \in TaskSet /\ r.pc = "write" /\ r.doc \in FileDocument /\ r.fd \in Inodes
        /\ task' = [task EXCEPT ![t] = r]
    BY <1>0, <2>1, <2>2, <2>3 DEF TaskSet, Phases
  <2> HIDE DEF r
  <2>5. task' \in [Tasks -> TaskSet] /\ (\A u \in Tasks : TaskInv(u))'
    BY <2>4, OneTask
  <2>6. /\ name' \in [{"manifest", "tmp"} -> Inodes \cup {Nothing}]
        /\ content' \in [Inodes -> FileDocument \cup {Truncated, Mixed}]
    BY <2>1, <2>2 DEF CommitTypeOK
  <2> QED BY <1>0, <1>a, <1>9, <2>5, <2>6 DEF OpenTmp, CommitTypeOK
<1>10. ASSUME NEW t \in Tasks, WriteTmp(t) PROVE TypeInv'
  <2>1. task[t].doc \in FileDocument /\ task[t].fd \in Inodes
    BY <1>10 DEF WriteTmp, TaskInv, At
  <2>2. content' \in [Inodes -> FileDocument \cup {Truncated, Mixed}]
    BY <1>10, <2>1 DEF WriteTmp, CommitTypeOK
  <2> DEFINE r == [task[t] EXCEPT !.pc = "rename", !.fd = Nothing]
  <2>3. /\ r \in TaskSet /\ r.pc = "rename" /\ r.doc \in FileDocument
        /\ task' = [task EXCEPT ![t] = r]
    BY <1>0, <1>10, <2>1 DEF WriteTmp, TaskSet, Phases
  <2> HIDE DEF r
  <2>4. task' \in [Tasks -> TaskSet] /\ (\A u \in Tasks : TaskInv(u))'
    BY <2>3, OneTask
  <2> QED BY <1>0, <1>a, <1>10, <2>2, <2>4 DEF WriteTmp, CommitTypeOK
<1>11. ASSUME NEW t \in Tasks, RenameTmp(t) PROVE TypeInv'
  <2>0. task[t].doc \in FileDocument
    BY <1>11 DEF RenameTmp, TaskInv, At
  <2>1. CASE name.tmp = Nothing
    BY <1>0, <1>a, <1>b, <1>11, <2>1 DEF RenameTmp, CommitTypeOK
  <2>2. CASE name.tmp # Nothing
    <3> DEFINE r == [task[t] EXCEPT !.pc = "finish"]
    <3>1. r \in TaskSet /\ r.pc = "finish" /\ r.doc \in FileDocument /\ task' = [task EXCEPT ![t] = r]
      BY <1>0, <1>11, <2>0, <2>2 DEF RenameTmp, Goto, TaskSet, Phases
    <3> HIDE DEF r
    <3>2. task' \in [Tasks -> TaskSet] /\ (\A u \in Tasks : TaskInv(u))'
      BY <3>1, OneTask
    <3>3. name' \in [{"manifest", "tmp"} -> Inodes \cup {Nothing}]
      BY <1>11, <2>2 DEF RenameTmp, CommitTypeOK
    <3> QED BY <1>0, <1>a, <1>11, <3>2, <3>3 DEF RenameTmp, CommitTypeOK
  <2> QED BY <2>1, <2>2
<1>12. ASSUME NEW t \in Tasks, Finish(t) PROVE TypeInv'
  <2>1. task[t].doc \in FileDocument
    BY <1>12 DEF Finish, TaskInv, At
  <2>2. mgr' \in [Managers -> MgrSet]
    BY <1>0, <1>12, <2>1, StartTypes DEF Finish, MgrSet, FileDocument
  <2>3. acked' \subseteq [by : Managers, rev : 0..MaxRevision, data : SUBSET Mutations]
    BY <1>0, <1>12, <2>1 DEF Finish, CommitTypeOK, FileDocument
  <2> QED BY <1>a, <1>b, <1>12, <2>2, <2>3 DEF Finish, CommitTypeOK
<1>13. ASSUME NEW t \in Tasks, IoError(t) PROVE TypeInv'
  BY <1>0, <1>a, <1>b, <1>13 DEF IoError, CommitTypeOK
<1>14. CASE UNCHANGED commitVars
  BY <1>14 DEF commitVars, CommitTypeOK, TaskInv, At
<1> QED
  BY <1>1, <1>2, <1>3, <1>4, <1>5, <1>6, <1>7, <1>8, <1>9, <1>10, <1>11, <1>12, <1>13,
     <1>14 DEF CommitNext, Proceed

\* CommitTypeOK holds of any callers, overlapping or not: revisions stay within the
\* bound and what a call writes or applies is a document.
THEOREM CommitTypes == CommitSpec => []CommitTypeOK
<1>1. CommitSpec => []TypeInv
  BY InitTypes, NextTypes, PTL DEF CommitSpec
<1>2. TypeInv => CommitTypeOK
  BY DEF TypeInv
<1> QED BY <1>1, <1>2, PTL

-----------------------------------------------------------------------------
(* Callers that do not overlap *)

LEMMA InitSerial == CommitInit => SerialInv
<1> SUFFICES ASSUME CommitInit PROVE SerialInv
  OBVIOUS
<1>1. \A t \in Tasks : task[t].pc = "idle"
  BY StartTypes DEF CommitInit
<1>2. Alone /\ \A t \in Tasks : CallInv(t)
  BY <1>1 DEF Alone, Idle, CallInv, At
<1>3. FileInv /\ NoLostUpdate
  BY DEF CommitInit, FileInv, NoLostUpdate
<1>4. \A m \in Managers : ManagerInv(m)
  BY DEF CommitInit, DownManager, ManagerInv
<1> QED BY <1>2, <1>3, <1>4 DEF SerialInv

\* A step of the only call in progress leaves the others idle, and idle calls
\* claim nothing.
LEMMA OnlyCall ==
  ASSUME CommitInv, NEW t \in Tasks, \A u \in Tasks : u # t => Idle(u),
         NEW r \in TaskSet, task' = [task EXCEPT ![t] = r]
  PROVE  /\ Alone' /\ task'[t] = r
         /\ \A u \in Tasks : u # t => CallInv(u)'
         /\ r.pc = "idle" => CallInv(t)'
<1>1. task \in [Tasks -> TaskSet]
  BY DEF CommitInv, TypeInv, CommitTypeOK, TaskSet
<1>2. \A u \in Tasks : u # t => task'[u].pc = "idle"
  BY <1>1 DEF Idle
<1>3. Alone'
  BY <1>2 DEF Alone, Idle
<1>4. ASSUME NEW u \in Tasks, task'[u].pc = "idle" PROVE CallInv(u)'
  BY <1>4 DEF CallInv, At
<1> QED BY <1>1, <1>2, <1>3, <1>4

\* A call in progress is the only one.
LEMMA InProgress ==
  ASSUME Alone, NEW t \in Tasks, task[t].pc # "idle"
  PROVE  \A u \in Tasks : u # t => Idle(u)
BY DEF Alone, Idle

\* What does not touch the manifest or the managers keeps what is said of them.
LEMMA SameDisk ==
  ASSUME CommitInv, name'.manifest = name.manifest,
         name.manifest # Nothing => content'[name.manifest] = content[name.manifest],
         mgr' = mgr, acked' = acked
  PROVE  /\ OnDisk' = OnDisk /\ NoLostUpdate'
         /\ \A m \in Managers : ManagerInv(m)'
<1>1. OnDisk' = OnDisk
  BY DEF OnDisk
<1>2. NoLostUpdate'
  BY <1>1 DEF CommitInv, SerialInv, NoLostUpdate, IsDocument
<1>3. \A m \in Managers : ManagerInv(m)'
  BY <1>1 DEF CommitInv, SerialInv, ManagerInv
<1> QED BY <1>1, <1>2, <1>3

\* A call that returns without having changed anything.
LEMMA GivesUp ==
  ASSUME CommitInv, NEW t \in Tasks, task[t].pc # "idle", Return(t),
         UNCHANGED <<name, content, mgr, acked>>
  PROVE  SerialInv'
<1>1. \A u \in Tasks : u # t => Idle(u)
  BY InProgress DEF CommitInv, SerialInv
<1>2. Alone' /\ \A u \in Tasks : CallInv(u)'
  BY <1>1, OnlyCall, StartTypes DEF Return
<1>3. FileInv'
  BY DEF CommitInv, SerialInv, FileInv
<1> QED BY <1>2, <1>3, SameDisk DEF SerialInv

\* The invariant survives every step when calls do not overlap and no mutation is
\* made during a call.
LEMMA NextSerial ==
  ASSUME Serialized, Quiet, CommitInv, TypeInv', [CommitNext]_commitVars
  PROVE  SerialInv'
<1>0. /\ task \in [Tasks -> TaskSet] /\ mgr \in [Managers -> MgrSet]
      /\ \A t \in Tasks : task[t] \in TaskSet /\ OwnerOf[t] \in Managers
      /\ name \in [{"manifest", "tmp"} -> Inodes \cup {Nothing}]
      /\ content \in [Inodes -> FileDocument \cup {Truncated, Mixed}]
  BY OwnerAssumption DEF CommitInv, TypeInv, CommitTypeOK, TaskSet, MgrSet
<1>s. /\ Alone /\ FileInv /\ NoLostUpdate
      /\ \A t \in Tasks : CallInv(t) /\ TaskInv(t)
      /\ \A m \in Managers : ManagerInv(m)
  BY DEF CommitInv, TypeInv, SerialInv
<1>p. \A t \in Tasks : task[t].pc # "idle" => \A u \in Tasks : u # t => Idle(u)
  BY <1>s, InProgress
<1>d. name.manifest # Nothing => /\ name.manifest \in Inodes /\ OnDisk \in FileDocument
                                 /\ OnDisk = content[name.manifest] /\ IsDocument(OnDisk)
  BY <1>0, <1>s, MarkAssumption DEF FileInv, OnDisk, IsDocument
<1>1. ASSUME NEW m \in Managers, Crash(m) PROVE SerialInv'
  <2>1. \A t \in Tasks : task'[t] = task[t] \/ task'[t].pc = "idle"
    BY <1>0, <1>1, StartTypes DEF Crash
  <2>2. \A t \in Tasks : task'[t].pc # "idle" => mgr'[OwnerOf[t]] = mgr[OwnerOf[t]]
    BY <1>0, <1>1, StartTypes DEF Crash
  <2>3. Alone'
    BY <1>s, <2>1 DEF Alone, Idle
  <2>4. OnDisk' = OnDisk
    BY <1>1 DEF Crash, OnDisk
  <2>5. ASSUME NEW t \in Tasks PROVE CallInv(t)'
    <3>1. CASE task'[t].pc = "idle"
      BY <3>1 DEF CallInv, At
    <3>2. CASE task'[t].pc # "idle"
      <4>1. task'[t] = task[t] /\ mgr'[OwnerOf[t]] = mgr[OwnerOf[t]]
        BY <2>1, <2>2, <3>2
      <4>2. name' = name /\ content' = content
        BY <1>1 DEF Crash
      <4> QED BY <1>s, <2>4, <4>1, <4>2 DEF CallInv, At, Follows
    <3> QED BY <3>1, <3>2
  <2>6. \A n \in Managers : ManagerInv(n)'
    BY <1>0, <1>1, <1>s, <2>4 DEF Crash, DownManager, ManagerInv
  <2>7. FileInv' /\ NoLostUpdate'
    BY <1>1, <1>s, <2>4 DEF Crash, FileInv, NoLostUpdate, IsDocument
  <2> QED BY <2>3, <2>5, <2>6, <2>7 DEF SerialInv
<1>2. ASSUME NEW m \in Managers, NEW x \in Mutations, Mutate(m, x) PROVE SerialInv'
  <2>1. OnDisk' = OnDisk
    BY <1>2 DEF Mutate, OnDisk
  <2>2. \A t \in Tasks : task'[t].pc # "idle" => mgr'[OwnerOf[t]] = mgr[OwnerOf[t]]
    BY <1>0, <1>2 DEF Mutate, Busy, Idle
  <2>3. ASSUME NEW t \in Tasks PROVE CallInv(t)'
    <3>1. CASE task'[t].pc = "idle"
      BY <3>1 DEF CallInv, At
    <3>2. CASE task'[t].pc # "idle"
      BY <1>2, <1>s, <2>1, <2>2, <3>2 DEF Mutate, CallInv, At, Follows
    <3> QED BY <3>1, <3>2
  <2>4. \A n \in Managers : ManagerInv(n)'
    BY <1>0, <1>2, <1>s, <2>1 DEF Mutate, ManagerInv, MgrSet
  <2>5. Alone' /\ FileInv' /\ NoLostUpdate'
    BY <1>2, <1>s, <2>1 DEF Mutate, Alone, Idle, FileInv, NoLostUpdate, IsDocument
  <2> QED BY <2>3, <2>4, <2>5 DEF SerialInv
<1>3. ASSUME NEW t \in Tasks, StartLoad(t) PROVE SerialInv'
  <2> DEFINE r == [task[t] EXCEPT !.pc = "load"]
  <2>1. r \in TaskSet /\ r.pc = "load" /\ task' = [task EXCEPT ![t] = r]
    BY <1>0, <1>3 DEF StartLoad, Goto, TaskSet, Phases
  <2> HIDE DEF r
  <2>2. /\ Alone' /\ task'[t].pc = "load"
        /\ \A u \in Tasks : u # t => CallInv(u)'
    BY <1>3, <2>1, OnlyCall DEF StartLoad, MayStart
  <2>3. CallInv(t)'
    BY <2>2 DEF CallInv, At
  <2>4. FileInv'
    BY <1>3, <1>s DEF StartLoad, FileInv
  <2> QED BY <1>3, <2>2, <2>3, <2>4, SameDisk DEF StartLoad, SerialInv
<1>4. ASSUME NEW t \in Tasks, StartCommit(t) PROVE SerialInv'
  <2> DEFINE r == [task[t] EXCEPT !.pc = "revision", !.expected = mgr[OwnerOf[t]].rev]
  <2>1. /\ r \in TaskSet /\ r.pc = "revision" /\ r.expected = mgr[OwnerOf[t]].rev
        /\ task' = [task EXCEPT ![t] = r]
    BY <1>0, <1>4 DEF StartCommit, TaskSet, MgrSet, Phases
  <2> HIDE DEF r
  <2>2. /\ Alone' /\ task'[t] = r
        /\ \A u \in Tasks : u # t => CallInv(u)'
    BY <1>4, <2>1, OnlyCall DEF StartCommit, MayStart
  <2>3. CallInv(t)'
    BY <1>4, <2>1, <2>2 DEF StartCommit, CallInv, At
  <2>4. FileInv'
    BY <1>4, <1>s DEF StartCommit, FileInv
  <2> QED BY <1>4, <2>2, <2>3, <2>4, SameDisk DEF StartCommit, SerialInv
<1>5. ASSUME NEW t \in Tasks, ReadManifest(t) PROVE SerialInv'
  <2>0. task[t].pc # "idle" /\ UNCHANGED <<name, content, mgr, acked>>
    BY <1>5 DEF ReadManifest
  <2>f. FileInv'
    BY <1>s, <2>0 DEF FileInv
  <2>1. CASE Return(t)
    BY <2>0, <2>1, GivesUp
  <2>2. CASE name.manifest = Nothing /\ task' = [task EXCEPT ![t].pc = "open", ![t].doc = Fresh]
    <3> DEFINE r == [task[t] EXCEPT !.pc = "open", !.doc = Fresh]
    <3>1. /\ r \in TaskSet /\ r.pc = "open" /\ r.doc = Fresh
          /\ task' = [task EXCEPT ![t] = r]
      BY <1>0, <2>2, StartTypes DEF TaskSet, Phases
    <3> HIDE DEF r
    <3>2. /\ Alone' /\ task'[t] = r
          /\ \A u \in Tasks : u # t => CallInv(u)'
      BY <1>p, <2>0, <3>1, OnlyCall
    <3>3. Follows(t)'
      BY <2>0, <2>2, <3>1, <3>2 DEF Follows, Fresh
    <3>4. CallInv(t)'
      BY <3>1, <3>2, <3>3 DEF CallInv, At
    <3> QED BY <2>0, <2>f, <3>2, <3>4, SameDisk DEF SerialInv
  <2>3. CASE /\ name.manifest # Nothing
             /\ task' = [task EXCEPT ![t].pc = "apply", ![t].doc = content[name.manifest]]
    <3> DEFINE r == [task[t] EXCEPT !.pc = "apply", !.doc = content[name.manifest]]
    <3>1. /\ r \in TaskSet /\ r.pc = "apply" /\ r.doc = OnDisk
          /\ task' = [task EXCEPT ![t] = r]
      BY <1>0, <1>d, <2>3 DEF TaskSet, Phases
    <3> HIDE DEF r
    <3>2. /\ Alone' /\ task'[t] = r
          /\ \A u \in Tasks : u # t => CallInv(u)'
      BY <1>p, <2>0, <3>1, OnlyCall
    <3>3. OnDisk' = OnDisk
      BY <2>0 DEF OnDisk
    <3>4. CallInv(t)'
      BY <2>0, <2>3, <3>1, <3>2, <3>3 DEF CallInv, At
    <3> QED BY <2>0, <2>f, <3>2, <3>4, SameDisk DEF SerialInv
  <2> QED BY <1>5, <2>1, <2>2, <2>3 DEF ReadManifest
<1>6. ASSUME NEW t \in Tasks, ApplyManifest(t) PROVE SerialInv'
  <2>0. task[t].pc # "idle" /\ Return(t) /\ UNCHANGED <<name, content, acked>>
    BY <1>6 DEF ApplyManifest, At
  <2>1. Alone' /\ \A u \in Tasks : CallInv(u)'
    BY <1>p, <2>0, OnlyCall, StartTypes DEF Return
  <2>2. OnDisk' = OnDisk
    BY <2>0 DEF OnDisk
  <2>3. name.manifest # Nothing /\ task[t].doc = OnDisk
    BY <1>6, <1>s DEF ApplyManifest, CallInv
  <2>4. ASSUME NEW m \in Managers PROVE ManagerInv(m)'
    <3>1. CASE m = OwnerOf[t]
      <4>1. mgr'[m] = [up |-> TRUE, data |-> OnDisk.data, rev |-> OnDisk.rev, dirty |-> FALSE]
        BY <1>0, <1>6, <2>3, <3>1 DEF ApplyManifest
      <4>2. OnDisk.rev \in 0..MaxRevision
        BY <1>d, <2>3 DEF FileDocument
      <4> QED BY <2>0, <2>2, <2>3, <4>1, <4>2 DEF ManagerInv
    <3>2. CASE m # OwnerOf[t]
      BY <1>0, <1>6, <1>s, <2>0, <2>2, <3>2 DEF ApplyManifest, ManagerInv
    <3> QED BY <3>1, <3>2
  <2>5. FileInv' /\ NoLostUpdate'
    BY <1>s, <2>0, <2>2 DEF FileInv, NoLostUpdate, IsDocument
  <2> QED BY <2>1, <2>4, <2>5 DEF SerialInv
<1>7. ASSUME NEW t \in Tasks, CheckRevision(t) PROVE SerialInv'
  <2>0. At(t, "revision") /\ task[t].pc # "idle" /\ UNCHANGED <<name, content, mgr, acked>>
    BY <1>7 DEF CheckRevision, At
  <2>f. FileInv'
    BY <1>s, <2>0 DEF FileInv
  <2>1. CASE Return(t)
    BY <2>0, <2>1, GivesUp
  <2>2. CASE Goto(t, "reload")
    <3> DEFINE r == [task[t] EXCEPT !.pc = "reload"]
    <3>1. r \in TaskSet /\ r.pc = "reload" /\ task' = [task EXCEPT ![t] = r]
      BY <1>0, <2>2 DEF Goto, TaskSet, Phases
    <3> HIDE DEF r
    <3>2. /\ Alone' /\ task'[t] = r
          /\ \A u \in Tasks : u # t => CallInv(u)'
      BY <1>p, <2>0, <3>1, OnlyCall
    <3>3. CallInv(t)'
      BY <3>1, <3>2 DEF CallInv, At
    <3> QED BY <2>0, <2>f, <3>2, <3>3, SameDisk DEF SerialInv
  <2>3. CASE /\ DiskRevision = task[t].expected
             /\ task' = [task EXCEPT ![t].pc = "mkdir", ![t].hash = mgr[OwnerOf[t]].data]
    <3> DEFINE r == [task[t] EXCEPT !.pc = "mkdir", !.hash = mgr[OwnerOf[t]].data]
    <3>1. /\ r \in TaskSet /\ r.pc = "mkdir" /\ r.expected = task[t].expected
          /\ r.hash = mgr[OwnerOf[t]].data /\ task' = [task EXCEPT ![t] = r]
      BY <1>0, <2>3 DEF TaskSet, MgrSet, Phases
    <3> HIDE DEF r
    <3>2. /\ Alone' /\ task'[t] = r
          /\ \A u \in Tasks : u # t => CallInv(u)'
      BY <1>p, <2>0, <3>1, OnlyCall
    <3>3. /\ mgr[OwnerOf[t]].up /\ task[t].expected = mgr[OwnerOf[t]].rev
          /\ name.manifest # Nothing
      BY <1>0, <1>s, <2>0 DEF CallInv, ManagerInv
    <3>4. task[t].expected = OnDisk.rev
      BY <1>d, <2>3, <3>3 DEF DiskRevision
    <3>5. OnDisk' = OnDisk
      BY <2>0 DEF OnDisk
    <3>6. CallInv(t)'
      BY <2>0, <3>1, <3>2, <3>3, <3>4, <3>5 DEF CallInv, At
    <3> QED BY <2>0, <2>f, <3>2, <3>6, SameDisk DEF SerialInv
  <2> QED BY <1>7, <2>1, <2>2, <2>3 DEF CheckRevision
<1>8. ASSUME NEW t \in Tasks, Serialize(t) PROVE SerialInv'
  <2>0. At(t, "mkdir") /\ task[t].pc # "idle" /\ UNCHANGED <<name, content, mgr, acked>>
    BY <1>8 DEF Serialize, At
  <2> DEFINE d == [rev |-> task[t].expected + 1, data |-> mgr[OwnerOf[t]].data,
                   hash |-> task[t].hash]
             r == [task[t] EXCEPT !.pc = "open", !.doc = d]
  <2>1. r \in TaskSet
    <3>1. d \in FileDocument
      BY <1>0, <1>s, <2>0, RevisionAssumption DEF TaskInv, At, TaskSet, MgrSet, FileDocument
    <3> QED BY <1>0, <3>1 DEF TaskSet, Phases
  <2>2. r.pc = "open" /\ r.doc = d /\ task' = [task EXCEPT ![t] = r]
    BY <1>0, <1>8 DEF Serialize, TaskSet
  <2> HIDE DEF r
  <2>3. /\ Alone' /\ task'[t] = r
        /\ \A u \in Tasks : u # t => CallInv(u)'
    BY <1>p, <2>0, <2>1, <2>2, OnlyCall
  <2>4. OnDisk' = OnDisk
    BY <2>0 DEF OnDisk
  <2>5. /\ mgr[OwnerOf[t]].up /\ name.manifest # Nothing
        /\ task[t].expected = OnDisk.rev /\ mgr[OwnerOf[t]].rev = OnDisk.rev
        /\ task[t].hash = mgr[OwnerOf[t]].data
    BY <1>s, <2>0 DEF CallInv
  <2>6. Follows(t)'
    BY <2>0, <2>2, <2>3, <2>4, <2>5 DEF Follows
  <2>7. CallInv(t)'
    BY <2>2, <2>3, <2>6 DEF CallInv, At
  <2>8. FileInv'
    BY <1>s, <2>0 DEF FileInv
  <2> QED BY <2>0, <2>3, <2>7, <2>8, SameDisk DEF SerialInv
<1>9. ASSUME NEW t \in Tasks, OpenTmp(t) PROVE SerialInv'
  <2>0. At(t, "open") /\ task[t].pc # "idle" /\ UNCHANGED <<mgr, acked>>
    BY <1>9 DEF OpenTmp, At
  <2>1. PICK i \in IF name.tmp # Nothing THEN {name.tmp} ELSE FreeInodes :
          /\ name' = [name EXCEPT !.tmp = i]
          /\ content' = [content EXCEPT ![i] = Truncated]
          /\ task' = [task EXCEPT ![t].pc = "write", ![t].fd = i]
    BY <1>9 DEF OpenTmp
  <2>2. i \in Inodes /\ (name.manifest # Nothing => i # name.manifest)
    BY <1>0, <1>s, <2>1 DEF FreeInodes, FileInv
  <2> DEFINE r == [task[t] EXCEPT !.pc = "write", !.fd = i]
  <2>3. /\ r \in TaskSet /\ r.pc = "write" /\ r.doc = task[t].doc /\ r.fd = i
        /\ task' = [task EXCEPT ![t] = r]
    BY <1>0, <2>1, <2>2 DEF TaskSet, Phases
  <2> HIDE DEF r
  <2>4. /\ Alone' /\ task'[t] = r
        /\ \A u \in Tasks : u # t => CallInv(u)'
    BY <1>p, <2>0, <2>3, OnlyCall
  <2>5. /\ name'.manifest = name.manifest /\ name'.tmp = i /\ content'[i] = Truncated
        /\ name.manifest # Nothing => content'[name.manifest] = content[name.manifest]
    BY <1>0, <1>d, <2>1, <2>2
  <2>6. OnDisk' = OnDisk
    BY <2>5 DEF OnDisk
  <2>7. Follows(t)'
    BY <1>s, <2>0, <2>3, <2>4, <2>5, <2>6 DEF CallInv, At, Follows
  <2>8. CallInv(t)'
    BY <2>3, <2>4, <2>5, <2>7 DEF CallInv, At
  <2>9. FileInv'
    BY <1>s, <2>2, <2>5 DEF FileInv
  <2> QED BY <2>0, <2>4, <2>5, <2>8, <2>9, SameDisk DEF SerialInv
<1>10. ASSUME NEW t \in Tasks, WriteTmp(t) PROVE SerialInv'
  <2>0. At(t, "write") /\ task[t].pc # "idle" /\ UNCHANGED <<name, mgr, acked>>
    BY <1>10 DEF WriteTmp, At
  <2>1. /\ task[t].fd = name.tmp /\ name.tmp \in Inodes /\ content[name.tmp] = Truncated
        /\ name.tmp # Nothing
    BY <1>s, <2>0, MarkAssumption DEF CallInv, TaskInv
  <2>2. content' = [content EXCEPT ![name.tmp] = task[t].doc]
    BY <1>10, <2>1 DEF WriteTmp
  <2> DEFINE r == [task[t] EXCEPT !.pc = "rename", !.fd = Nothing]
  <2>3. /\ r \in TaskSet /\ r.pc = "rename" /\ r.doc = task[t].doc
        /\ task' = [task EXCEPT ![t] = r]
    BY <1>0, <1>10 DEF WriteTmp, TaskSet, Phases
  <2> HIDE DEF r
  <2>4. /\ Alone' /\ task'[t] = r
        /\ \A u \in Tasks : u # t => CallInv(u)'
    BY <1>p, <2>0, <2>3, OnlyCall
  <2>5. /\ content'[name.tmp] = task[t].doc
        /\ name.manifest # Nothing => content'[name.manifest] = content[name.manifest]
    BY <1>0, <1>d, <1>s, <2>1, <2>2 DEF FileInv
  <2>6. OnDisk' = OnDisk
    BY <2>0, <2>5 DEF OnDisk
  <2>7. Follows(t)'
    BY <1>s, <2>0, <2>3, <2>4, <2>6 DEF CallInv, At, Follows
  <2>8. CallInv(t)'
    BY <2>0, <2>1, <2>3, <2>4, <2>5, <2>7 DEF CallInv, At
  <2>9. FileInv'
    BY <1>s, <2>0, <2>5 DEF FileInv
  <2> QED BY <2>0, <2>4, <2>5, <2>8, <2>9, SameDisk DEF SerialInv
<1>11. ASSUME NEW t \in Tasks, RenameTmp(t) PROVE SerialInv'
  <2>0. At(t, "rename") /\ task[t].pc # "idle" /\ UNCHANGED <<content, mgr, acked>>
    BY <1>11 DEF RenameTmp, At
  <2>1. /\ name.tmp # Nothing /\ content[name.tmp] = task[t].doc /\ Follows(t)
        /\ task[t].doc \in FileDocument
    BY <1>s, <2>0 DEF CallInv, At, TaskInv
  <2>2. name' = [manifest |-> name.tmp, tmp |-> Nothing]
    BY <1>11, <2>1 DEF RenameTmp
  <2> DEFINE r == [task[t] EXCEPT !.pc = "finish"]
  <2>3. r \in TaskSet /\ r.pc = "finish" /\ r.doc = task[t].doc /\ task' = [task EXCEPT ![t] = r]
    BY <1>0, <1>11, <2>1 DEF RenameTmp, Goto, TaskSet, Phases
  <2> HIDE DEF r
  <2>4. /\ Alone' /\ task'[t] = r
        /\ \A u \in Tasks : u # t => CallInv(u)'
    BY <1>p, <2>0, <2>3, OnlyCall
  <2>5. OnDisk' = task[t].doc /\ name'.manifest # Nothing /\ name'.tmp = Nothing
    BY <2>0, <2>1, <2>2 DEF OnDisk
  <2>6. FileInv'
    BY <2>0, <2>1, <2>2, <2>5 DEF FileInv, Follows
  <2>7. OnDisk' # Fresh => mgr[OwnerOf[t]].up /\ mgr[OwnerOf[t]].data = OnDisk'.data
    BY <2>1, <2>5 DEF Follows
  <2>8. CallInv(t)'
    BY <2>0, <2>3, <2>4, <2>5, <2>7 DEF CallInv, At
  <2>9. ASSUME NEW m \in Managers PROVE ManagerInv(m)'
    <3>1. CASE name.manifest = Nothing
      BY <1>s, <2>0, <3>1 DEF ManagerInv
    <3>2. CASE name.manifest # Nothing
      <4>1. OnDisk'.rev = OnDisk.rev + 1
        BY <2>1, <2>5, <3>2 DEF Follows
      <4>2. OnDisk.rev \in Int /\ mgr[m].rev \in Int
        BY <1>0, <1>d, <3>2 DEF FileDocument, MgrSet
      <4> QED BY <1>s, <2>0, <2>5, <4>1, <4>2 DEF ManagerInv
    <3> QED BY <3>1, <3>2
  <2>10. NoLostUpdate'
    <3>1. IsDocument(OnDisk')
      BY <2>1, <2>5, MarkAssumption DEF IsDocument
    <3>2. ASSUME NEW a \in acked PROVE a.data \subseteq OnDisk'.data
      <4>1. IsDocument(OnDisk) /\ a.data \subseteq OnDisk.data
        BY <1>s DEF NoLostUpdate
      <4>2. name.manifest # Nothing
        BY <4>1 DEF OnDisk, IsDocument
      <4>3. OnDisk.data \subseteq mgr[OwnerOf[t]].data /\ OnDisk'.data = mgr[OwnerOf[t]].data
        BY <1>0, <1>s, <2>1, <2>5, <4>2 DEF Follows, ManagerInv
      <4> QED BY <4>1, <4>3
    <3> QED BY <2>0, <3>1, <3>2 DEF NoLostUpdate, IsDocument
  <2> QED BY <2>4, <2>6, <2>8, <2>9, <2>10 DEF SerialInv
<1>12. ASSUME NEW t \in Tasks, Finish(t) PROVE SerialInv'
  <2>0. /\ At(t, "finish") /\ task[t].pc # "idle" /\ Return(t)
        /\ UNCHANGED <<name, content>>
    BY <1>12 DEF Finish, At
  <2>1. /\ name.manifest # Nothing /\ task[t].doc = OnDisk
        /\ OnDisk # Fresh => mgr[OwnerOf[t]].up /\ mgr[OwnerOf[t]].data = OnDisk.data
    BY <1>s, <2>0 DEF CallInv
  <2>2. Alone' /\ \A u \in Tasks : CallInv(u)'
    BY <1>p, <2>0, OnlyCall, StartTypes DEF Return
  <2>3. OnDisk' = OnDisk
    BY <2>0 DEF OnDisk
  <2>4. FileInv'
    BY <1>s, <2>0 DEF FileInv
  <2>5. ASSUME NEW m \in Managers PROVE ManagerInv(m)'
    <3>1. CASE m = OwnerOf[t] /\ OnDisk = Fresh
      <4>1. mgr'[m] = [up |-> TRUE, data |-> {}, rev |-> 0, dirty |-> FALSE]
        BY <1>0, <1>12, <2>1, <3>1 DEF Finish, DownManager
      <4> QED BY <2>0, <2>1, <2>3, <3>1, <4>1 DEF ManagerInv, Fresh
    <3>2. CASE m = OwnerOf[t] /\ OnDisk # Fresh
      <4>1. mgr'[m].data = OnDisk.data /\ mgr'[m].rev = OnDisk.rev
        BY <1>0, <1>12, <2>1, <3>2 DEF Finish, MgrSet
      <4>2. OnDisk.rev \in Int
        BY <1>d, <2>1 DEF FileDocument
      <4> QED BY <2>0, <2>1, <2>3, <4>1, <4>2 DEF ManagerInv
    <3>3. CASE m # OwnerOf[t]
      <4>1. mgr'[m] = mgr[m]
        BY <1>0, <1>12, <3>3 DEF Finish
      <4> QED BY <1>s, <2>0, <2>3, <4>1 DEF ManagerInv
    <3> QED BY <3>1, <3>2, <3>3
  <2>6. NoLostUpdate'
    <3>1. acked' = acked \cup {[by |-> OwnerOf[t], rev |-> OnDisk.rev, data |-> OnDisk.data]}
      BY <1>12, <2>1 DEF Finish
    <3> QED BY <1>d, <1>s, <2>1, <2>3, <3>1 DEF NoLostUpdate, IsDocument
  <2> QED BY <2>2, <2>4, <2>5, <2>6 DEF SerialInv
<1>13. ASSUME NEW t \in Tasks, IoError(t) PROVE SerialInv'
  BY <1>13, GivesUp DEF IoError
<1>14. CASE UNCHANGED commitVars
  <2>1. name' = name /\ content' = content /\ mgr' = mgr /\ task' = task /\ acked' = acked
    BY <1>14 DEF commitVars
  <2>2. Alone' /\ FileInv'
    BY <1>s, <2>1 DEF Alone, Idle, FileInv
  <2>3. OnDisk' = OnDisk
    BY <2>1 DEF OnDisk
  <2>4. \A t \in Tasks : CallInv(t)'
    BY <1>s, <2>1, <2>3 DEF CallInv, At, Follows
  <2> QED BY <2>1, <2>2, <2>4, SameDisk DEF SerialInv
<1> QED
  BY <1>1, <1>2, <1>3, <1>4, <1>5, <1>6, <1>7, <1>8, <1>9, <1>10, <1>11, <1>12, <1>13,
     <1>14 DEF CommitNext, Proceed

-----------------------------------------------------------------------------
(* What callers that do not overlap get *)

LEMMA SerialInvariant ==
  ASSUME Serialized, Quiet
  PROVE  CommitSpec => []CommitInv
<1>1. CommitInit => CommitInv
  BY InitTypes, InitSerial DEF CommitInv
<1>2. CommitInv /\ [CommitNext]_commitVars => CommitInv'
  <2> SUFFICES ASSUME CommitInv, [CommitNext]_commitVars PROVE CommitInv'
    OBVIOUS
  <2>1. TypeInv'
    BY NextTypes DEF CommitInv
  <2> QED BY <2>1, NextSerial DEF CommitInv
<1> QED BY <1>1, <1>2, PTL DEF CommitSpec

\* No acknowledged commit is lost, whatever errors and crashes come between the
\* steps of later ones.
THEOREM CommitsAreKept ==
  ASSUME Serialized, Quiet
  PROVE  CommitSpec => []NoLostUpdate
<1>1. CommitInv => NoLostUpdate
  BY DEF CommitInv, SerialInv
<1> QED BY <1>1, SerialInvariant, PTL

\* A manager that is not dirty and has the revision on disk has its content.
THEOREM CleanIsCurrent ==
  ASSUME Serialized, Quiet
  PROVE  CommitSpec => []CleanManagersAreCurrent
<1>1. CommitInv => CleanManagersAreCurrent
  BY DEF CommitInv, SerialInv, ManagerInv, CleanManagersAreCurrent
<1> QED BY <1>1, SerialInvariant, PTL

\* What a reader finds changes only when a temporary file is renamed.
LEMMA VisibleSame ==
  ASSUME CommitInv, name'.manifest = name.manifest,
         name.manifest # Nothing => content'[name.manifest] = content[name.manifest]
  PROVE  Visible' = Visible
BY DEF Visible, OnDisk, IsDocument

\* Every step of a call is a step of the abstract file, or invisible.
LEMMA StepImplements ==
  ASSUME CommitInv, [CommitNext]_commitVars
  PROVE  [Published!Create \/ Published!Publish]_Visible
<1> SUFFICES ASSUME Visible' # Visible
             PROVE  Published!Create \/ Published!Publish
  OBVIOUS
<1>0. /\ name \in [{"manifest", "tmp"} -> Inodes \cup {Nothing}]
      /\ content \in [Inodes -> FileDocument \cup {Truncated, Mixed}]
      /\ \A t \in Tasks : OwnerOf[t] \in Managers /\ mgr[OwnerOf[t]] \in MgrSet
      /\ FileInv /\ \A t \in Tasks : CallInv(t) /\ TaskInv(t)
      /\ \A m \in Managers : ManagerInv(m)
  BY OwnerAssumption DEF CommitInv, TypeInv, CommitTypeOK, MgrSet, SerialInv
<1>1. PICK t \in Tasks : RenameTmp(t)
  <2>1. ~ (name' = name /\ content' = content)
    BY VisibleSame
  <2>2. ASSUME NEW t \in Tasks, OpenTmp(t) PROVE FALSE
    <3>1. PICK i \in IF name.tmp # Nothing THEN {name.tmp} ELSE FreeInodes :
            /\ name' = [name EXCEPT !.tmp = i]
            /\ content' = [content EXCEPT ![i] = Truncated]
      BY <2>2 DEF OpenTmp
    <3>2. i \in Inodes /\ (name.manifest # Nothing => i # name.manifest)
      BY <1>0, <3>1 DEF FreeInodes, FileInv
    <3>3. /\ name'.manifest = name.manifest
          /\ name.manifest # Nothing => content'[name.manifest] = content[name.manifest]
      BY <1>0, <3>1, <3>2
    <3> QED BY <3>3, VisibleSame
  <2>3. ASSUME NEW t \in Tasks, WriteTmp(t) PROVE FALSE
    <3>1. task[t].fd = name.tmp /\ name.tmp \in Inodes
      BY <1>0, <2>3 DEF WriteTmp, CallInv, TaskInv
    <3>2. /\ name' = name
          /\ name.manifest # Nothing => content'[name.manifest] = content[name.manifest]
      BY <1>0, <2>3, <3>1 DEF WriteTmp, FileInv
    <3> QED BY <3>2, VisibleSame
  <2>4. ASSUME NEW t \in Tasks,
               \/ StartLoad(t) \/ StartCommit(t) \/ ReadManifest(t) \/ ApplyManifest(t)
               \/ CheckRevision(t) \/ Serialize(t) \/ Finish(t) \/ IoError(t)
        PROVE  FALSE
    BY <2>1, <2>4 DEF StartLoad, StartCommit, ReadManifest, ApplyManifest, CheckRevision,
       Serialize, Finish, IoError
  <2>5. ASSUME NEW m \in Managers, Crash(m) \/ \E x \in Mutations : Mutate(m, x)
        PROVE  FALSE
    BY <2>1, <2>5 DEF Crash, Mutate
  <2>6. ~ UNCHANGED commitVars
    BY <2>1 DEF commitVars
  <2> QED BY <2>2, <2>3, <2>4, <2>5, <2>6 DEF CommitNext, Proceed
<1>2. /\ name.tmp # Nothing /\ content[name.tmp] = task[t].doc /\ Follows(t)
      /\ task[t].doc \in FileDocument
  BY <1>0, <1>1 DEF RenameTmp, CallInv, At, TaskInv
<1>3. name'.manifest = name.tmp /\ content' = content
  BY <1>1, <1>2 DEF RenameTmp
<1>4. OnDisk' = task[t].doc /\ IsDocument(OnDisk)'
  BY <1>2, <1>3, MarkAssumption DEF OnDisk, IsDocument
<1>5. Visible' = [rev |-> task[t].doc.rev, data |-> task[t].doc.data]
  BY <1>4 DEF Visible
<1>6. CASE name.manifest = Nothing
  <2>1. Visible = Nothing
    BY <1>6 DEF Visible, OnDisk, IsDocument
  <2>2. Visible' = [rev |-> 0, data |-> {}]
    BY <1>2, <1>5, <1>6 DEF Follows, Fresh
  <2> QED BY <2>1, <2>2 DEF Published!Create
<1>7. CASE name.manifest # Nothing
  <2>1. OnDisk \in FileDocument /\ IsDocument(OnDisk)
    BY <1>0, <1>7, MarkAssumption DEF FileInv, OnDisk, IsDocument
  <2>2. Visible = [rev |-> OnDisk.rev, data |-> OnDisk.data]
    BY <2>1 DEF Visible
  <2>3. Visible # Nothing
    BY <2>1, <2>2, MarkAssumption DEF FileDocument
  <2>4. task[t].doc.rev = OnDisk.rev + 1 /\ task[t].doc.data = mgr[OwnerOf[t]].data
    BY <1>2, <1>7 DEF Follows
  <2>5. OnDisk.data \subseteq task[t].doc.data
    BY <1>0, <1>2, <1>7 DEF Follows, ManagerInv
  <2>6. task[t].doc.data \in SUBSET Mutations
    BY <1>2 DEF FileDocument
  <2> QED BY <1>5, <2>2, <2>3, <2>4, <2>5, <2>6 DEF Published!Publish
<1> QED BY <1>6, <1>7

\* Loads, commits and reloads step by step, with I/O errors and crashes between
\* the steps, implement the published manifest: absent, then revision 0, then one
\* whole document after the other, each with the next revision and no less in it.
THEOREM FileImplementsPublished ==
  ASSUME Serialized, Quiet
  PROVE  CommitSpec => ImplementsPublished
<1>1. CommitInit => Published!Init
  BY DEF CommitInit, Published!Init, Visible, OnDisk, IsDocument
<1>2. CommitInv /\ [CommitNext]_commitVars => [Published!Create \/ Published!Publish]_Visible
  BY StepImplements
<1> QED BY <1>1, <1>2, SerialInvariant, PTL DEF CommitSpec, ImplementsPublished, Published!Spec
=============================================================================
