---------------------------- MODULE ManifestOps ----------------------------
(***************************************************************************)
(* The ManifestManager's operations as functions from one manager state to  *)
(* the next (openclaw_2_claw_harder/src/manifest/manifest-manager.ts,       *)
(* arbitration.ts and indexing.ts).  Every operation of the class but       *)
(* addReference, commit and reload is synchronous, so one call is one step. *)
(*                                                                         *)
(* A manager state m is a record                                            *)
(*   facts            working.facts; a fact's id is its discovery_index     *)
(*   active_facts     indexes.active_facts                                  *)
(*   conflicted_facts indexes.conflicted_facts                              *)
(*   summaries        working.summaries, in order of creation               *)
(*   summary_deps     indexes.summary_deps, as pairs <<fact, summary>>      *)
(*   dirty            the dirty flag that commit() consults                 *)
(* Confidences are integers, multiples of one unit (the code's thresholds    *)
(* are 15, 2 and 100 hundredths; the TLC instances use a coarser unit).      *)
(***************************************************************************)
EXTENDS Integers, Sequences

CONSTANTS
  Values,   \* type + value of a fact; the fact_hash is injective on it
  Keys,     \* identity keys
  KeyOf,    \* deriveIdentityKey: Values -> Keys
  Sources,  \* who observed a fact
  Slots,    \* the (type, scope) pairs of summaries
  CONFIDENCE_SUPERIORITY_THRESHOLD,  \* 0.15 in the code
  CONVERGENCE_BONUS,                 \* 0.02 in the code
  CONFIDENCE_MAX                     \* 1.0 in the code

ASSUME KeyAssumption == KeyOf \in [Values -> Keys]
ASSUME ThresholdAssumption ==
  /\ CONFIDENCE_SUPERIORITY_THRESHOLD \in Nat \ {0}
  /\ CONVERGENCE_BONUS \in Nat
  /\ CONFIDENCE_MAX \in Nat

FactStates == {"active", "archived", "superseded", "invalidated", "conflicted"}
SummaryStates == {"active", "superseded", "archived"}

NoFact == 0     \* an id that names no fact

-----------------------------------------------------------------------------
(* ArbitrationEngine *)

\* The index facts_by_identity_key, which the code only ever adds to: its
\* iteration order is the order of the ids.
FactsByKey(m, k) == {i \in DOMAIN m.facts : KeyOf[m.facts[i].value] = k}

\* Mutant: the last of two facts of equal confidence wins (>= for >).
findAuthoritativeFact_LastWins(m, k) ==
  LET met    == {i \in FactsByKey(m, k) :
                   m.facts[i].state \notin {"archived", "invalidated"}}
      active == {i \in met : m.facts[i].state = "active"}
      pool   == IF active # {} THEN active ELSE met
  IN  {i \in pool : \A j \in pool :
         \/ m.facts[j].confidence < m.facts[i].confidence
         \/ m.facts[j].confidence = m.facts[i].confidence /\ i >= j}

\* What the loop of findAuthoritativeFact keeps, as a set of at most one id.
\* An active fact displaces anything else; with no active fact the loop stays
\* with the state of the first fact it met, which may be "superseded".  Among
\* facts of one state the earliest of the highest confidence is kept.
findAuthoritativeFact(m, k) ==
  LET met    == {i \in FactsByKey(m, k) :
                   m.facts[i].state \notin {"archived", "invalidated"}}
      active == {i \in met : m.facts[i].state = "active"}
      pool   == IF active # {} THEN active
                ELSE {i \in met : \E f \in met :
                        /\ \A j \in met : f <= j
                        /\ m.facts[i].state = m.facts[f].state}
  IN  {i \in pool : \A j \in pool :
         \/ m.facts[j].confidence < m.facts[i].confidence
         \/ m.facts[j].confidence = m.facts[i].confidence /\ i <= j}

\* The loop of findAuthoritativeFact as the code writes it: best[n] is the fact
\* kept once the first n facts have been visited, NoFact being its null.
AuthoritativeLoop(m, k) ==
  LET passed(n) == \/ n \notin FactsByKey(m, k)
                   \/ m.facts[n].state \in {"archived", "invalidated"}
      better(f, b) == \/ f.state = "active" /\ b.state # "active"
                      \/ f.state = b.state /\ f.confidence > b.confidence
      best[n \in 0..Len(m.facts)] ==
        IF n = 0 THEN NoFact
        ELSE IF passed(n) THEN best[n - 1]
        ELSE IF best[n - 1] = NoFact THEN n
        ELSE IF better(m.facts[n], m.facts[best[n - 1]]) THEN n
        ELSE best[n - 1]
  IN  best[Len(m.facts)]

\* The outcomes arbitrate may return against a given authoritative fact.  The
\* code subtracts IEEE doubles: at a distance of exactly the threshold the
\* rounding of the two decimals decides, so both outcomes are possible.
OutcomesAgainst(in, existing) ==
  LET delta == in.confidence - existing.confidence
      T     == CONFIDENCE_SUPERIORITY_THRESHOLD
  IN  IF in.value = existing.value THEN {"converge"}
      ELSE    {o \in {"supersede"} : delta >= T}
         \cup {o \in {"reject"} : -delta >= T}
         \cup {o \in {"conflict"} : -T <= delta /\ delta <= T}

\* The decisions arbitrate may return for an incoming fact.
arbitrate(m, in) ==
  LET auth == findAuthoritativeFact(m, KeyOf[in.value])
  IN  IF auth = {} THEN {[outcome |-> "new", existing |-> NoFact]}
      ELSE UNION {{[outcome |-> o, existing |-> e] :
                     o \in OutcomesAgainst(in, m.facts[e])} : e \in auth}

applyConvergence(fact, source) ==
  LET raised == fact.confidence + CONVERGENCE_BONUS
  IN  [fact EXCEPT !.confidence = IF raised > CONFIDENCE_MAX
                                  THEN CONFIDENCE_MAX ELSE raised,
                   !.supporting_sources = @ \cup {source}]

-----------------------------------------------------------------------------
(* Private mutation helpers of the manager *)

\* The fact addFact creates.  The field `supersedes' is never set by the code.
buildFact(in, state) ==
  [value |-> in.value, confidence |-> in.confidence, state |-> state,
   derived_from |-> in.derived_from, supporting_sources |-> {in.source}]

\* Mutant: the index takes the ordinal before it is incremented.
insertFact_PostIncrement(m, fact) ==
  [m EXCEPT
    !.facts = Append(@, fact),
    !.active_facts = @ \cup {i \in {Len(m.facts)} : fact.state = "active"},
    !.conflicted_facts = @ \cup {i \in {Len(m.facts)} : fact.state = "conflicted"},
    !.dirty = TRUE]

insertFact(m, fact) ==
  LET indexed(s) == {i \in {Len(m.facts) + 1} : fact.state = s}
  IN  [facts |-> Append(m.facts, fact),
       active_facts |-> m.active_facts \cup indexed("active"),
       conflicted_facts |-> m.conflicted_facts \cup indexed("conflicted"),
       summaries |-> m.summaries,
       summary_deps |-> m.summary_deps,
       dirty |-> TRUE]

\* working.facts[i] = fact, with no call that follows it: neither the indexes
\* nor dirty nor the summaries change.
SetFact(m, i, fact) == [m EXCEPT !.facts = [@ EXCEPT ![i] = fact]]

\* Mutant: the previous state is read after the new one was assigned.
Retire_LateRead(m, ids, state) ==
  LET of(s) == {i \in ids : state = s}
  IN  [m EXCEPT
        !.facts = [i \in DOMAIN m.facts |->
                     IF i \in ids THEN [m.facts[i] EXCEPT !.state = state]
                     ELSE m.facts[i]],
        !.active_facts = @ \cup of("active"),
        !.conflicted_facts = @ \cup of("conflicted"),
        !.dirty = TRUE]

\* Mutant: the transition propagates no staleness.
Retire_NoStaleness(m, ids, state) ==
  LET was(s) == {i \in ids : m.facts[i].state = s}
      to(s)  == {i \in ids : state = s}
  IN  [m EXCEPT
        !.facts = [i \in DOMAIN m.facts |->
                     IF i \in ids THEN [m.facts[i] EXCEPT !.state = state]
                     ELSE m.facts[i]],
        !.active_facts = (@ \ was("active")) \cup to("active"),
        !.conflicted_facts = (@ \ was("conflicted")) \cup to("conflicted"),
        !.dirty = TRUE]

\* Mutant: the transition forgets to set the dirty flag.
Retire_NotDirty(m, ids, state) ==
  [Retire_NoStaleness(m, ids, state) EXCEPT
     !.summaries = [s \in DOMAIN m.summaries |->
                      [m.summaries[s] EXCEPT
                         !.stale = @ \/ \E i \in ids : <<i, s>> \in m.summary_deps]],
     !.dirty = m.dirty]

\* transitionFact followed by propagateStaleness, for every fact of `ids' in
\* any order: the code always calls the two together.  The indexes lose a fact
\* according to the state it had, whichever index it really is in.
Retire(m, ids, state) ==
  LET was(s) == {i \in ids : m.facts[i].state = s}
      to(s)  == {i \in ids : state = s}
      hit(s) == \E i \in ids : <<i, s>> \in m.summary_deps
  IN  [facts |-> [i \in DOMAIN m.facts |->
                    IF i \in ids THEN [m.facts[i] EXCEPT !.state = state]
                    ELSE m.facts[i]],
       active_facts |-> (m.active_facts \ was("active")) \cup to("active"),
       conflicted_facts |->
         (m.conflicted_facts \ was("conflicted")) \cup to("conflicted"),
       summaries |-> [s \in DOMAIN m.summaries |->
                        IF hit(s) THEN [m.summaries[s] EXCEPT !.stale = TRUE]
                        ELSE m.summaries[s]],
       summary_deps |-> m.summary_deps,
       dirty |-> m.dirty \/ ids # {}]

-----------------------------------------------------------------------------
(* Public operations of the manager.  A decision d is one that arbitrate      *)
(* returned for this call.                                                    *)

\* Mutant: a superseding fact leaves the superseded one active.
addFact_KeepsExisting(m, in, d) ==
  LET strengthened ==
        SetFact(m, d.existing, applyConvergence(m.facts[d.existing], in.source))
  IN  CASE d.outcome \in {"new", "supersede"} ->
             insertFact(m, buildFact(in, "active"))
        [] d.outcome = "converge" -> strengthened
        [] d.outcome = "reject" ->
             insertFact(strengthened, buildFact(in, "superseded"))
        [] d.outcome = "conflict" ->
             Retire(insertFact(m, buildFact(in, "conflicted")),
                    {d.existing}, "conflicted")

addFact(m, in, d) ==
  LET strengthened ==
        SetFact(m, d.existing, applyConvergence(m.facts[d.existing], in.source))
  IN  CASE d.outcome = "new" -> insertFact(m, buildFact(in, "active"))
        [] d.outcome = "converge" -> strengthened
        [] d.outcome = "supersede" ->
             Retire(insertFact(m, buildFact(in, "active")),
                    {d.existing}, "superseded")
        [] d.outcome = "reject" ->
             insertFact(strengthened, buildFact(in, "superseded"))
        [] d.outcome = "conflict" ->
             Retire(insertFact(m, buildFact(in, "conflicted")),
                    {d.existing}, "conflicted")

\* The fact_id addFact returns.
ResultId(m, d) == IF d.outcome = "converge" THEN d.existing
                  ELSE Len(m.facts) + 1

\* Mutant: the sweep of the remaining conflicted facts is left out.
proposeRefinement_NoSweep(m, target, in, d) ==
  LET r     == ResultId(m, d)
      added == addFact(m, in, d)
  IN  IF d.outcome \in {"supersede", "new"} THEN added
      ELSE Retire(SetFact(added, r, [added.facts[r] EXCEPT !.state = "active"]),
                  {target}, "superseded")

\* `in' already carries derived_from = {target}.  When arbitration did not
\* take the refinement, its fact is made active by an assignment that leaves
\* both indexes alone, and the target is retired; then every other fact of the
\* target's key in the conflicted index is retired.
proposeRefinement(m, target, in, d) ==
  LET r      == ResultId(m, d)
      added  == addFact(m, in, d)
      forced == IF d.outcome \in {"supersede", "new"} THEN added
                ELSE Retire(SetFact(added, r, [added.facts[r] EXCEPT !.state = "active"]),
                            {target}, "superseded")
      swept  == {i \in forced.conflicted_facts :
                   /\ i # r
                   /\ KeyOf[forced.facts[i].value] = KeyOf[m.facts[target].value]}
  IN  Retire(forced, swept, "superseded")

\* Mutant: the new fact is listed among its own sources.
proposeConsolidation_NamesItself(m, sources, in) ==
  LET fact == [buildFact(in, "active") EXCEPT
                 !.derived_from = sources \cup {Len(m.facts) + 1}]
  IN  Retire(insertFact(m, fact), sources, "superseded")

\* No arbitration: the consolidated fact is active whatever its key holds, and
\* its sources are superseded whatever state they were in.
proposeConsolidation(m, sources, in) ==
  LET fact == [buildFact(in, "active") EXCEPT
                 !.derived_from = sources,
                 !.supporting_sources =
                    @ \cup UNION {m.facts[i].supporting_sources : i \in sources}]
  IN  Retire(insertFact(m, fact), sources, "superseded")

\* Mutant: only a summary that is still fresh is replaced.
addSummary_ReplacesFresh(m, slot, sources) ==
  LET id    == Len(m.summaries) + 1
      same  == {s \in DOMAIN m.summaries :
                  /\ m.summaries[s].slot = slot /\ m.summaries[s].state = "active"
                  /\ ~ m.summaries[s].stale}
      fresh == [slot |-> slot, state |-> "active", stale |-> FALSE,
                source_fact_ids |-> sources,
                seen |-> {<<i, m.facts[i].state>> :
                            i \in sources \cap DOMAIN m.facts}]
  IN  [m EXCEPT
        !.summaries = Append([s \in DOMAIN m.summaries |->
                                IF s \in same
                                THEN [m.summaries[s] EXCEPT !.state = "superseded"]
                                ELSE m.summaries[s]], fresh),
        !.summary_deps = @ \cup (sources \X {id}),
        !.dirty = TRUE]

\* The first active summary of the slot is superseded and its dependencies
\* dropped; the new one is active, fresh and registered under its sources.
\* `seen' is a history field: the state each source had at generation.
addSummary(m, slot, sources) ==
  LET id    == Len(m.summaries) + 1
      same  == {s \in DOMAIN m.summaries :
                  m.summaries[s].slot = slot /\ m.summaries[s].state = "active"}
      first == {s \in same : \A t \in same : s <= t}
      fresh == [slot |-> slot, state |-> "active", stale |-> FALSE,
                source_fact_ids |-> sources,
                seen |-> {<<i, m.facts[i].state>> :
                            i \in sources \cap DOMAIN m.facts}]
      kept  == {p \in m.summary_deps :
                  ~ (p[2] \in first
                     /\ p[1] \in m.summaries[p[2]].source_fact_ids)}
  IN  [facts |-> m.facts,
       active_facts |-> m.active_facts,
       conflicted_facts |-> m.conflicted_facts,
       summaries |-> Append([s \in DOMAIN m.summaries |->
                               IF s \in first
                               THEN [m.summaries[s] EXCEPT !.state = "superseded"]
                               ELSE m.summaries[s]], fresh),
       summary_deps |-> kept \cup (sources \X {id}),
       dirty |-> TRUE]

-----------------------------------------------------------------------------
(* Loading *)

\* The part of a manager state that commit() writes.
Document(m) == [facts |-> m.facts, summaries |-> m.summaries]

\* buildIndexes on a document read from disk: dependencies are registered for
\* every summary, the superseded ones included.
FromDocument(doc) ==
  [facts |-> doc.facts,
   active_facts |-> {i \in DOMAIN doc.facts : doc.facts[i].state = "active"},
   conflicted_facts |->
     {i \in DOMAIN doc.facts : doc.facts[i].state = "conflicted"},
   summaries |-> doc.summaries,
   summary_deps |-> UNION {doc.summaries[s].source_fact_ids \X {s} :
                             s \in DOMAIN doc.summaries},
   dirty |-> FALSE]

\* validateLineage of persistence.ts: every id a fact or a summary names is
\* the id of a fact of the document.
validateLineage(doc) ==
  /\ \A i \in DOMAIN doc.facts : doc.facts[i].derived_from \subseteq DOMAIN doc.facts
  /\ \A s \in DOMAIN doc.summaries :
       doc.summaries[s].source_fact_ids \subseteq DOMAIN doc.facts
=============================================================================
