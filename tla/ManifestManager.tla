-------------------------- MODULE ManifestManager --------------------------
(***************************************************************************)
(* One ManifestManager and the manifest file it owns: the mutation boundary *)
(* of the manifest (openclaw_2_claw_harder/src/manifest/manifest-manager.ts) *)
(* driven by any sequence of its public calls.  A call is one step, because  *)
(* every mutating call is synchronous.  commit and reload are one step here: *)
(* their interleavings are the subject of ManifestCommit.                    *)
(***************************************************************************)
EXTENDS ManifestOps, FiniteSets

CONSTANTS
  Confidences,  \* the confidences callers pass, in the unit of CONFIDENCE_MAX
  Unknown,      \* ids callers may pass that name no fact ({} or {NoFact})
  MaxParents,   \* bound on the derived_from a caller passes to addFact
  MaxFacts,     \* bound on the facts ever created
  MaxSummaries  \* bound on the summaries ever created

ASSUME ConfidenceAssumption == Confidences \subseteq 0..CONFIDENCE_MAX
ASSUME UnknownAssumption == Unknown \subseteq {NoFact}
ASSUME BoundAssumption ==
  MaxParents \in Nat /\ MaxFacts \in Nat /\ MaxSummaries \in Nat

VARIABLES
  facts, active_facts, conflicted_facts, summaries, summary_deps, dirty,
  disk          \* the document the manifest file holds

vars == <<facts, active_facts, conflicted_facts, summaries, summary_deps,
          dirty, disk>>

\* The manager's fields as the record that ManifestOps works on.
Manager ==
  [facts |-> facts, active_facts |-> active_facts,
   conflicted_facts |-> conflicted_facts, summaries |-> summaries,
   summary_deps |-> summary_deps, dirty |-> dirty]

Becomes(m) ==
  /\ facts' = m.facts
  /\ active_facts' = m.active_facts
  /\ conflicted_facts' = m.conflicted_facts
  /\ summaries' = m.summaries
  /\ summary_deps' = m.summary_deps
  /\ dirty' = m.dirty

Room == Len(facts) < MaxFacts

-----------------------------------------------------------------------------
\* ManifestManager.load on a path with no file: loadOrCreate writes an empty
\* manifest before it returns.
Init ==
  /\ facts = <<>> /\ summaries = <<>>
  /\ active_facts = {} /\ conflicted_facts = {} /\ summary_deps = {}
  /\ dirty = FALSE
  /\ disk = [facts |-> <<>>, summaries |-> <<>>]

\* What a caller may pass as a fact; no call checks the ids in derived_from.
FactInput(parents) ==
  [value : Values, confidence : Confidences, source : Sources,
   derived_from : {S \in SUBSET parents : Cardinality(S) <= MaxParents}]

AddFact ==
  /\ Room
  /\ \E in \in FactInput(DOMAIN facts \cup Unknown) :
       \E d \in arbitrate(Manager, in) : Becomes(addFact(Manager, in, d))
  /\ UNCHANGED disk

\* An unknown or an invalidated target returns early.
Refine(target) ==
  /\ facts[target].state # "invalidated"
  /\ \E in \in {[i EXCEPT !.derived_from = {target}] : i \in FactInput({})} :
       \E d \in arbitrate(Manager, in) :
         Becomes(proposeRefinement(Manager, target, in, d))
  /\ UNCHANGED disk

ProposeRefinement == Room /\ \E target \in DOMAIN facts : Refine(target)

\* The argument is a list of at least two known ids, which may repeat one: the
\* ids it names are any non-empty set of known facts.
ProposeConsolidation ==
  /\ Room
  /\ \E sources \in (SUBSET DOMAIN facts) \ {{}}, in \in FactInput({}) :
       Becomes(proposeConsolidation(Manager, sources, in))
  /\ UNCHANGED disk

SupersedeFact ==
  /\ \E i \in DOMAIN facts :
       /\ facts[i].state # "invalidated"
       /\ Becomes(Retire(Manager, {i}, "superseded"))
  /\ UNCHANGED disk

\* The two deletes that follow the transition in invalidateFact remove the
\* fact from both indexes whatever state it had.
invalidateFact(m, i) ==
  LET retired == Retire(m, {i}, "invalidated")
  IN  [retired EXCEPT !.active_facts = @ \ {i}, !.conflicted_facts = @ \ {i}]

InvalidateFact ==
  /\ \E i \in DOMAIN facts : Becomes(invalidateFact(Manager, i))
  /\ UNCHANGED disk

AddSummary ==
  /\ Len(summaries) < MaxSummaries
  /\ \E slot \in Slots, sources \in SUBSET (DOMAIN facts \cup Unknown) :
       Becomes(addSummary(Manager, slot, sources))
  /\ UNCHANGED disk

\* commit() of a manager that is not dirty returns ok without writing.
Commit ==
  /\ dirty
  /\ disk' = Document(Manager)
  /\ dirty' = FALSE
  /\ UNCHANGED <<facts, active_facts, conflicted_facts, summaries, summary_deps>>

\* reload(), and ManifestManager.load after a restart: a document load refuses
\* leaves the manager as it was.
Reload ==
  /\ validateLineage(disk)
  /\ Becomes(FromDocument(disk))
  /\ UNCHANGED disk

\* Calls that leave every decision to arbitration or retire a single fact.
Ingest == AddFact \/ SupersedeFact \/ InvalidateFact

\* Every synchronous call of the manager.
Call == Ingest \/ AddSummary \/ ProposeRefinement \/ ProposeConsolidation

Next == Call \/ Commit \/ Reload

Spec == Init /\ [][Next]_vars

\* A session between two commits.
CallSpec == Init /\ [][Call]_vars

\* A client that never overrides arbitration.
IngestSpec == Init /\ [][Ingest \/ Commit \/ Reload]_vars

-----------------------------------------------------------------------------
(* Properties *)

FactIn(state) == {i \in DOMAIN facts : facts[i].state = state}
KeyAt(i) == KeyOf[facts[i].value]

Fact ==
  [value : Values, confidence : 0..CONFIDENCE_MAX, state : FactStates,
   derived_from : SUBSET Nat, supporting_sources : SUBSET Sources]

Summary ==
  [slot : Slots, state : SummaryStates, stale : BOOLEAN,
   source_fact_ids : SUBSET Nat, seen : SUBSET (Nat \X FactStates)]

\* The types of the manager's fields: facts and summaries are lists of
\* well-formed records, and the indexes name only facts and summaries that
\* exist (validateIndexes of indexing.ts) or ids the caller invented.
TypeOK ==
  /\ facts \in Seq(Fact) /\ Len(facts) <= MaxFacts
  /\ summaries \in Seq(Summary) /\ Len(summaries) <= MaxSummaries
  /\ active_facts \subseteq DOMAIN facts
  /\ conflicted_facts \subseteq DOMAIN facts
  /\ summary_deps \subseteq ((DOMAIN facts \cup Unknown) \X DOMAIN summaries)
  /\ dirty \in BOOLEAN
  /\ disk \in [facts : Seq(Fact), summaries : Seq(Summary)]
  /\ Len(disk.facts) <= MaxFacts /\ Len(disk.summaries) <= MaxSummaries

\* The half of the manager's "indexes always reflect manifest state" that
\* survives every sequence of calls, forced refinements included: the active
\* index never holds a retired fact, and no conflicted fact is missing from
\* the conflicted index, so getConflictedFacts never hides a disagreement.
IndexSafety ==
  /\ active_facts \subseteq FactIn("active")
  /\ FactIn("conflicted") \subseteq conflicted_facts

\* findAuthoritativeFact as a set of maximal facts, the form arbitration and
\* the proofs use, is what the code's loop over the key's facts ends with in
\* every manifest a sequence of calls can reach.
AuthorityIsTheLoop ==
  \A k \in Keys :
    findAuthoritativeFact(Manager, k) = {AuthoritativeLoop(Manager, k)} \ {NoFact}

\* types/manifest.ts, Summary.stale: an active summary that is not flagged
\* stale has no source that was superseded, conflicted or invalidated since it
\* was generated: each source is as it was seen, or became active.
FreshSummariesAreCurrent ==
  \A s \in DOMAIN summaries :
    (summaries[s].state = "active" /\ ~ summaries[s].stale) =>
      \A p \in summaries[s].seen : facts[p[1]].state \in {p[2], "active"}

\* addSummary's "Only one active per type+scope is the invariant": replacing
\* only the first match is enough, across reloads too.
OneActiveSummary ==
  \A s, t \in DOMAIN summaries :
    (/\ summaries[s].state = "active" /\ summaries[t].state = "active"
     /\ summaries[s].slot = summaries[t].slot) => s = t

\* Arbitration keeps at most one active fact for an identity key.
OneAuthority ==
  \A i, j \in FactIn("active") : KeyAt(i) = KeyAt(j) => i = j

\* Whatever the calls, the document on disk is one that load accepts, and no
\* fact descends from itself: derived_from only names older facts.
CommittedManifestLoads ==
  /\ validateLineage(disk)
  /\ \A i \in DOMAIN disk.facts : \A p \in disk.facts[i].derived_from : p < i

\* A clean manager holds nothing unsaved but the observation data of
\* converging facts: commit() may return early without losing a fact, a state
\* change or a staleness flag.
CleanMeansSaved ==
  ~ dirty =>
    /\ disk.summaries = summaries
    /\ DOMAIN disk.facts = DOMAIN facts
    /\ \A i \in DOMAIN facts :
         /\ disk.facts[i].state = facts[i].state
         /\ disk.facts[i].value = facts[i].value
         /\ disk.facts[i].derived_from = facts[i].derived_from

\* proposeRefinement, "an explicit resolution": whatever path arbitration took,
\* no fact of the target's key is left conflicted afterwards.
RefinementResolves ==
  [][\A t \in DOMAIN facts :
       Refine(t) => \A i \in DOMAIN facts' :
         KeyOf[facts'[i].value] = KeyAt(t) => facts'[i].state # "conflicted"]_vars

=============================================================================
