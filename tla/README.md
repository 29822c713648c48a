# TLA+ verification of OpenClaw II and its governed runtime

This directory holds TLA+ models of the two programs `claw_harder` consists of, the TLC
configurations that check them, and TLAPS proofs.

* `openclaw_2_claw_harder` (TypeScript): the manifest engine, a store of facts and summaries
  with arbitration rules, indexes and optimistic file persistence, and around it the
  history window, the context engine, the recall tool and the adapter that the host calls.
* `runtime_core` (Python): the governed runtime, which binds batches of tool calls under a
  kill switch, runs autonomous ticks on threads and timers, guards its state file with a
  hash anchor (the Gate) and rebuilds its state from an event log.

Source paths below are relative to `src/openclaw_2_claw_harder/src/` unless they
start with `runtime_core/`.

## Inventory

### Manifest engine (`openclaw_2_claw_harder`, TypeScript)

| Component | State | Operations | What makes it correct |
|---|---|---|---|
| Manifest manager (`manifest/manifest-manager.ts`) | `working` (facts, summaries, references, operations), `indexes`, `expectedRevision`, `dirty` | `addFact`, `addReference`, `addSummary`, `proposeRefinement`, `proposeConsolidation`, `supersedeFact`, `invalidateFact`, `commit`, `reload`, queries | indexes agree with states; staleness reaches summaries; nothing unsaved while clean; what is committed loads |
| Arbitration (`manifest/arbitration.ts`) | none | `arbitrate`, `applyConvergence` | at most one authority per identity key; retired facts have none |
| Indexing (`manifest/indexing.ts`) | the index maps | `buildIndexes`, lookups | a rebuild and incremental upkeep agree on what matters |
| Identity (`manifest/identity.ts`) | none | `deriveIdentityKey`, `deriveFactHash` | a function of the value |
| Serialization (`manifest/serialization.ts`) | none | stable JSON | the hash is a function of the content |
| Persistence (`manifest/persistence.ts`) | `manifest.json`, `manifest.json.tmp`, artifact files | `load`, `loadOrCreate`, `commit`, artifact access | no partial manifest, no lost acknowledged commit, one winner per revision |
| Sliding window (`context/sliding-window.ts`) | `turns`, `nextIndex` | `pushTurn`, `getActiveHistory` | budget respected, whole turns evicted oldest first, offloads resolvable |
| Context engine (`context/context-engine.ts`) | a manager, a window | `buildContext`, `completeTurn`, `syncAndReplan`, proxies | a turn's mutations are committed or reported lost |
| OpenClaw adapter (`adapters/openclaw-context-adapter.ts`) | map of sessions, buffered messages | `bootstrap`, `ingest`, `assemble`, `afterTurn`, `dispose` | one manager per session, no message lost, dirty state flushed |
| Injection (`context/injection.ts`) | none | `compile` | only live facts and fresh summaries are presented as such |
| Recall (`tools/recall-tool.ts`) | none | `summary`, `head`, `tail`, `range`, `full`, `search` | each mode shows the lines it promises, within its caps |

The host calls the adapter; the adapter owns one context engine per session; the
engine pushes turns into its window, registers offloads with its manager, and
commits it; the manager owns one persistence object, and several processes may
have one on the same path. Every manager call but `addReference`, `commit` and
`reload` is synchronous; everything that touches the disk interleaves at its
awaits.

### Governed runtime (`runtime_core`, Python)

| Component | State | Operations | What makes it correct |
|---|---|---|---|
| Batch binding (`runtime.py`, `barrier.py`, `sandbox.py`) | kill switch, execution mode, sandbox files and memory, budget, gate anchor, active tokens | `_bind_tool_batch`, `_bind_tool_execution`, `precommit`, `consume`, `snapshot_state`, `restore_snapshot`, `_rollback_executed_tools` | a halt stops tools; a batch is all or nothing; a token is used once |
| Tick controller (`runtime.py`) | `tick_mode`, `execution_state`, `_timed_ready`, threads, timers | `set_tick_mode`, `_request_tick`, `_arm_timed_latch`, `_autonomous_tick`, resumption at the start | ticks do not multiply; "off" ends them; in a recurring mode they go on |
| Gate and state file (`runtime.py`, `state.py`) | the state, `_gate_anchor_hash`, the file, its temporary file and its backup | `save_state`, `RuntimeState.save`, `RuntimeState.load`, start | a saved halt survives; drift is noticed; no false alarm |
| Control plane and event log (`runtime.py`, `events.py`, `replay.py`) | modes, authority, kill switch, `_seq`, the log | the setters, `set_posture`, kill switch, faults, `_emit`, `trim_event_log`, `replay`, `replay_until` | the log tells the state; a passed boundary is stable |

One runtime object serves the threads of an HTTP server, tick threads and timers, without a
lock. The rest is memory admission (`memory.py`, `salience.py`, `ingestion.py`), policy
predicates (`policy_engine.py`), model clients, servers and shells.

### Everything else

`openclaw-main` is a mirror of the upstream host, third-party code. The models take four
things from it: the calls of one session are serialised and the runs of different sessions
overlap; all sessions share the one adapter object; every attempt of a run bootstraps
(`agents/pi-embedded-runner/run/attempt.ts`); and every run ends in `dispose()`
(`agents/pi-embedded-runner/run.ts`), which takes no session.

### What is hard here

* A forced refinement writes a fact's state behind the indexes, and later
  transitions use that state to decide which index to clean.
* A summary is a cache over facts that six call paths can retire, and its
  dependency index is trimmed, rebuilt on load, and never persisted.
* The revision check of a commit and the rename it guards are several awaits apart,
  and all writers share one temporary file name.
* The snapshot a commit hashes and later serialises shares objects with the
  working copy.
* `dispose` is a call of one session on the state of all of them, and other calls keep the
  session state they looked up before it was dropped.
* A crash, an I/O error or a conflict can come between any two steps.
* In the runtime: ticks started by threads and timers that race with mode changes; the kill
  switch engaged between a check and the call it guards; a restore that its own batch's
  budget does not cover; a state file replaced in three steps after it was compared, by
  several threads; events numbered, built and appended while other handlers run.

`PROJECT.json` lists these, each at its line, with the properties that cover them.

## Modules

| Module | Models | Extends |
|---|---|---|
| `ManifestOps` | every manager operation as a function from one manager record to the next; arbitration; index rebuild; lineage check | |
| `ManifestManager` | one manager and its file, driven by any sequence of public calls, commits and reloads | `ManifestOps` |
| `MCManifest` | instances for TLC | `ManifestManager` |
| `PublishedManifest` | abstract: what the manifest file promises | |
| `ManifestCommit` | load, commit and reload step by step over inodes, by several managers, with I/O errors and crashes | instantiates `PublishedManifest` |
| `MCCommit` | instances for TLC | `ManifestCommit` |
| `Sums` | the sum of a list of numbers, as the code's counting loops compute it | |
| `SlidingWindow` | the message buffer, turns, offloads and eviction of one session state | `Sums` |
| `Recall` | full and search retrieval as functions of an artifact's lines, and what they promise | `Sums` |
| `Offloads` | the whole of `afterTurn` for one session: offloads, artifact files, references, commit, reload, crash | `SlidingWindow`, `Recall` |
| `MCWindow` | an instance for TLC | `Offloads` |
| `ContextSessions` | the adapter's session map, the turns, commits, reloads and disposes of several sessions | |
| `ToolBatch` | the batch binding: barrier, Gate, execution, rollback, snapshot and restore, by several threads, with an operator | |
| `MCToolBatch` | an instance for TLC | `ToolBatch` |
| `TickLoop` | the tick controller | |
| `GatedState` | `save_state`, the state file as inodes, crashes, restarts and drift | |
| `ControlPlane` | the control plane's handlers, the event log and replay | |
| `MCControlPlane` | an instance for TLC | `ControlPlane` |
| `ListLemmas` | lemmas: induction on the naturals, recursive functions on lists, sums, concatenations | `Sums` |
| `Manifest_proofs` | inductive invariants and theorems of the manager and of its file | `ManifestManager`, `ManifestCommit`, `ListLemmas` |
| `Offloads_proofs`, `ControlPlane_proofs` | the same for the window, its offloads and recall; for the control plane and replay | the module named, `ListLemmas` |
| `ContextSessions_proofs`, `ToolBatch_proofs`, `TickLoop_proofs`, `GatedState_proofs` | the same | the module named |

Definitions whose comment starts with "Mutant", and the variants placed before `Affordable`, `Consume`,
`CallHalted`, `Record`, `Restored`, `LoadState`, `GateOpen`, `KeepBackup` and `NewAnchor`, are plausible bugs. No specification
uses them; each is substituted for the definition it mutates to confirm that a
property detects it.

### ManifestOps and ManifestManager

A fact's id is its position in the list `facts` (its `discovery_index`). A fact keeps
its value, confidence, state, `derived_from` and supporting sources. A value stands for
type plus value, so equal values are equal fact hashes, and `KeyOf` is
`deriveIdentityKey`. A summary keeps its slot (type and scope), state, staleness flag
and sources. Its field `seen` is a history variable, the state each source had when
the summary was generated; no operation reads it.

| Definition | Code |
|---|---|
| `findAuthoritativeFact`, `OutcomesAgainst`, `arbitrate`, `applyConvergence` | `ArbitrationEngine` |
| `AuthoritativeLoop` | the loop of `findAuthoritativeFact` as the code writes it; `AuthorityIsTheLoop` compares the two |
| `insertFact`, `Retire` | `insertFact`; `transitionFact` followed by `propagateStaleness`, which the code always pairs |
| `SetFact` | an assignment to `working.facts[id]` that updates no index: convergence and the forced activation |
| `addFact`, `proposeRefinement`, `proposeConsolidation`, `addSummary`, `invalidateFact` | the methods of these names |
| `SupersedeFact` | `supersedeFact` with its guard |
| `Commit`, `Reload` | `commit` and `reload` without their interleavings |

Left out because no modelled control reads it: timestamps, `observation_count`, the
operations log, summary text and confidence, and the indexes by type and by source.
References are mutations of `ContextSessions` and steps of `Offloads`. A call that fails its guard changes nothing and is no
step. An unknown id passed by a caller is `NoFact`.

Arbitration compares differences of decimal doubles with 0.15. At a distance of exactly the
threshold rounding decides, so `OutcomesAgainst` allows both outcomes there.

### ManifestCommit

A document is a revision, a set of mutations and the set its hash was computed over. The
manifest path and the temporary path name inodes, so that a descriptor opened before
another writer's rename still writes to the renamed file. A task is one asynchronous call;
its `pc` is the await it stands at:

| `pc` | Next step | Code |
|---|---|---|
| `load`, `reload` | `ReadManifest` | `load`, `loadOrCreate` |
| `apply` | `ApplyManifest` | the continuation in `ManifestManager.load` or `reload` |
| `revision` | `CheckRevision` | `commit`: `readRevision`, comparison, hash |
| `mkdir` | `Serialize` | `commitRaw` up to `JSON.stringify` |
| `open`, `write`, `rename` | `OpenTmp`, `WriteTmp`, `RenameTmp` | `commitRaw` |
| `finish` | `Finish` | the manager adopts the revision, clears `dirty` |

`IoError` ends a call at any system call; `Crash` kills a manager and its calls. A conflict
either returns (as in `dispose`) or goes on to a reload (as in `afterTurn`).

Two switches state what the callers guarantee. `Serialized` says that calls on the path do not
overlap, as for the calls of one session on the host's lane. `Quiet` says that nothing mutates a
manager while a call on it is in progress, as when a caller awaits each commit. The
violation runs drop one of them at a time.

### SlidingWindow

A message is its role and its length, and in a turn whether its text was replaced by a pointer; `turns`,
`nextIndex` and `pendingMessages` are the fields of the code. `enforcebudget` is stated as what
its loop computes, the first number of shifts after which the loop stops. `given` and `log` are
history: what was handed over and every turn pushed. `Ingest` is `ingest` and `ingestBatch`;
`AfterTurn` is `afterTurn` up to the end of `pushTurn`, which is synchronous.

### ContextSessions

A `SessionState` is an object in `heap`, and `sessions` maps a session to its handle. A call keeps the
handle it looked up. A manifest is a revision and a set of mutations. `host[s].pc` is where the run of
a session stands:

| `pc` | Next step | Code |
|---|---|---|
| `idle`, `running` | `StartAttempt`, `AddFact`, `AfterTurn`, `Dispose` | calls of the host and of the tools |
| `loading` | `FinishBootstrap`, `BootstrapFails` | `bootstrap` after its await |
| `storing` | `StoreReference`, `CompleteTurn` | `completeTurn`: artifact writes, then commit |
| `committing` | `Publish`, `Conflict`, `CommitFails`, `Adopt` | `ManifestManager.commit` |
| `syncing` | `SyncAndReplan` | `syncAndReplan` |
| `disposing` | the same four for each dirty session, then `Clear` | `dispose` |

A commit is two steps here, the write of the file and the continuation that clears `dirty`. What
happens inside the write, crashes included, is `ManifestCommit`'s subject. `accepted`, `failed` and `raced` are
history: mutations told ok, mutations of a commit or reload that went wrong and that nothing
retries, and mutations made while a dispose was in progress.

### Offloads and Recall

`Offloads` extends the window with what follows it in `afterTurn`: `EndTurn` is everything up to the
first await (the texts are replaced by then), `OpenArtifact` and `WriteArtifact` are `storeArtifact`,
`Register` is `addReference` after its await, `CommitTurn`, `Reload` and `SyncFails` end the turn. A reload
may also come while the turn awaits a write. The commit is one step, `ManifestCommit` has its detail;
an artifact is named by its position, that is, `shortId` is taken never to repeat. What the lines of a text are is a parameter,
known for every text that is long enough to be offloaded (`LinesAssumption`, `Storable`).

`Recall` gives the result of a full or a search recall as the set of line numbers it shows, without the
markers for what is left out; the other modes are a slice or two of the lines. A line is its length and whether the query occurs in it. The definitions follow the loops
of the code; `IsLongestFit` and `IsFirstMatches` are what full and search mode promise.

### ToolBatch

A thread's `pc` is where its call stands:

| `pc` | Next step | Code |
|---|---|---|
| `idle` | `Authorize` | `_authorize_execution` gives the sandbox, shared by all runs, a new budget |
| `ready`, `done` | `Bind`, `EndRun` | `_bind_tool_batch` up to the barrier; the next pulse, or the end of the run |
| `precommit` | `Precommit` | `PrecommitBarrier.precommit` |
| `snapshot` | `SnapshotState` | `snapshot_state`, which raises when it does not fit the budget |
| `consume` | `Consume` | `consume` and the last look at the kill switch |
| `gate`, `execute`, `verify` | `Gate`, `Execute`, `Verify` | `_bind_tool_execution` |
| `rollback` | `RollbackOne`, `Restore` | `_rollback_executed_tools`, then `restore_snapshot` |
| `raised` | `Diagnose` | `_run_governed_cycle` |

Policy decisions and argument validation are a free choice: `Bind` may refuse any batch. What a call writes is
one cell, inside the sandbox or outside of it, and its content is the mark of the call. Handlers may raise
before or after they have written. The tools are representatives of the registrations: read-only,
reversible and irreversible, with and without a receipt. `save_state` is two steps, the file and the anchor; snapshot
and restore are one step each. The runtime itself is built with `build_gloss_registry`, whose only mutating
tool emits no receipt and writes outside of the sandbox; the sandbox tools are those of `build_default_registry`.

### TickLoop

A worker is a thread from the request of a tick to its end: `request` and `validate` are the two halves of
`_request_tick`, `begin`, `cycle`, `commit` and `finish` are `_autonomous_tick`. A timer is a count. `save_state` is one step that
succeeds or is rejected; a rejection engages the kill switch and raises out of whatever called it.
`CrashRestart` keeps what was saved last. `chains`, `orphaned`, `steady`, `quiet`, `allowance` and `afterOff` are history.

### GatedState

The names `path`, `bak` and `tmp` are bound to inodes. A save is `GateCheck`, `OpenTemp`, `WriteTemp`,
`MoveAside`, `Promote`, `SetAnchor`; other threads and crashes come between them. `exists()` and the rename behind it
are one step. A crash is the death of the process: what was renamed stays renamed. `Drift` is somebody else
writing the file.

### ControlPlane

A handler is a sequence of operations (`set_posture` has four). An operation tests the state, assigns and saves,
numbers its event and appends it. `Effect` gives the assignments and the event of each; `Details` says that an
event reports mode, execution mode and cycle as they are when it is made. `owner` is history: who changed a field
last and whether the event that tells it is in the log. The increment of `_seq` and the construction
of the event are one step. The posture "task" differs from "assist" in the tick mode only, which is not a
field here. `Crash` may tear the line that is being appended, restarts the numbers at 0 and trims the log
or not, as the server or the command line does. `LoadEvents` says what the stable sort by number
does line by line: an event goes behind those of its number that stand before it, and before all of a greater one (`Place`). Threads
are not called like the two marks of `owner` (`ThreadsAssumption`).

## Runs

Passing runs:

| Run | Question | Bounds |
|---|---|---|
| `manifest_calls` | Do the indexes stay safe, is the authority what the loop computes, and does a refinement resolve every conflict of its key, for any sequence of synchronous calls? | three values on two keys, three facts |
| `manifest_durable` | With commits and reloads anywhere: does what is committed load, is a clean manager saved, are unflagged summaries current, and is there one active summary per slot? | two facts, two summaries, one parent |
| `manifest_ingest` | Is there at most one active fact per key when no call overrides arbitration? | three facts on one key |
| `commit_serialized` | With two processes, I/O errors and crashes at every await: does the file implement `PublishedManifest`, is an acknowledged commit ever lost, is a clean manager current, and does every call return? | two managers, two mutations, revisions up to 2 |
| `window_turns` | Is the window the longest recent run of turns within both budgets, is every message in one turn or in the buffer, has every reference a whole file, is any offloaded text lost other than by its own failure or a reload, and do full and search recall show what they promise? | five messages in batches of six kinds; three turns, four tokens; one crash |
| `session_flush` | When sessions overlap, can a mutation be lost other than to a failed commit or reload or during a dispose, and does every call end? | two sessions, one state each, two mutations, two revisions, one offload per turn |
| `batch_halts` | Does a halt stop tools, is a batch all or nothing on the sandbox, what remains when the restore is not affordable, and are tokens spent? | two threads, three batches, plans of two calls, budgets 4 and 6, one operator call |
| `gate_saves` | Does the Gate halt only for a cause, is the promoted state on disk at every instant, does a saved halt survive, is drift noticed? | two threads, three calls, two crashes, one drift |
| `tick_chains` | Do ticks multiply, does "off" drain, does "running" mean a tick runs, and do ticks recur? | three workers, three calls of `set_tick_mode`, one other change, one rejection, one crash |
| `control_replay` | Does replay give a logged field its value, and is a passed cycle boundary stable? | two threads, handlers of every kind up to weight 3, two mishaps, a log trimmed to two lines |

Violation runs, each the counterexample to one line of the repository's documentation or comments:

| Run | Statement refuted | What happens |
|---|---|---|
| `commit_race` | "one wins, one gets a conflict" | two processes get ok for the same revision |
| `commit_integrity` | "Integrity hashing ... detects corruption before load" | a mutation during a commit produces a document its own hash rejects |

### Disagreements without a run

Met while modelling. The models contain the behaviour; the properties state what holds in spite of it.

* `manifest/manifest-manager.ts:427`: a forced refinement activates a fact without indexing it; line 9 says
  "indexes always reflect manifest state". `IndexSafety` is the half that holds.
* `manifest/manifest-manager.ts:679`: `addFact` copies an unknown `derived_from`, and the committed manifest never loads
  again; lines 4-7 say the APIs enforce lineage. `CommittedManifestLoads` is checked for callers that pass known ids.
* `manifest/persistence.ts:336`: all writers share one temporary name, so one may rename a file another has
  just emptied; line 5 says "No partial manifest states". `ImplementsPublished` is checked for calls that do not overlap.
* `adapters/openclaw-context-adapter.ts:324`: `dispose` clears sessions that were mutated after their flag was
  tested; line 312 says "flush dirty state". `LostOnlyWhileDisposing` says when a mutation can be lost.
* `context/sliding-window.ts:127`: the pointer text names `REF_<turn>_<message>`, the reference is registered under a
  random id.
* `manifest/arbitration.ts:92` counts superseded facts among the ones without authority, and
  `findAuthoritativeFact` does not skip them. Refining a fact with its own value converges on it, forces it active and
  then supersedes it.
* `tools/recall-tool.ts`: a summary never shows full content according to its comment; for an even number of
  lines up to twice `default_lines` it shows all of them. Recall events are recorded without marking the manifest dirty.
* `runtime_core/runtime.py:2494`: the restore is called "guaranteed consistency"; it raises when the budget does not cover
  it, and it covers neither the canon ledger nor temporary notes. `OnlyTheFailedCallRemains` says what is left then.
  Tools without a sandbox receipt (`propose_doctrine`, MCP tools, `write_temp_note`) are rejected by the Gate after they
  have had their effect.
* `runtime_core/truth_api.py:19` says that all state is projected from the event log; halts by the Gate and by
  faults (`runtime.py:1474`, `2704`, `3805`) are not in it, and numbers restart at 0 with every process, so events of two runs
  are interleaved on replay. `ReplayIsCurrent` says for which fields and when replay can be trusted.
* `runtime_core/runtime.py:3293`: the release message says that execution remains in plan mode; `set_posture` and a
  non-repairable fault leave it in execute mode during a halt.
* `runtime_core/comms_server.py:1489`: the route for automatic resumption sets an attribute of the runtime object that
  is neither saved nor read.

### Why the bounds are enough

Every operation of the manager looks at one incoming fact, the authority of its key, one target or
set of sources and the summaries that depend on them. Three facts give two rivals of one key and a
newcomer, or a conflicted pair and its refinement. Two summaries give a replacement. The
TLC instances use a threshold of 2, a bonus of 1 and a maximum of 3 units, with inputs 1 and 3:
this reaches supersede, reject, conflict, the boundary where both outcomes are possible, and the
clamp at the maximum. The proofs need no bound. For commits, two writers are what a race takes; two
revisions above the initial one are what a retry takes; four inodes are one per name and one per
open descriptor.

In the window run the user message of nine characters is over the budget alone, five characters are
exactly the offload threshold, and four small turns exceed the number of turns before the tokens; five
messages are enough for these to follow each other. The artifacts have lines with contexts that
touch, contexts that overlap and an empty line at the byte cap. For the sessions, the second mutation is
the one made while the commit of the first is being written, the second revision is the one another
process or another commit of the same manager takes.

For a batch, two calls are what a partial failure takes; a budget of 4 admits a batch and does not cover its restore, one
of 6 covers it; the third batch is the one bound under a budget another run has spent; one operator call is a
halt, a release or a save anywhere. Two overlapping saves, one drift and two crashes give a save that meets the
leftovers of a crashed one. Three calls of `set_tick_mode` with three workers give two chains that turn each other away and an "off".
In the control plane, weight counts a handler of several operations twice: three allow two plain handlers and a fault, or a
posture and one plain handler; the log is trimmed to two lines so that trimming drops something.

`MaxFacts`, `MaxSummaries`, `MaxParents`, `MaxRevision`, `MaxMessages`, `MaxObjects`, `MaxMutations`, `MaxOffloads`,
`MaxBatches`, `MaxOps`, `MaxCalls`, `MaxChanges`, `MaxRejects`, `MaxCrashes`, `MaxDrifts` and `MaxMishaps` cap counters that the code lets grow. The
specifications stop when they are reached, so the manifest, window and runtime runs do not check deadlock. In
the commit and session runs some action is enabled in every state, and deadlock is checked.

### Fairness

`FairSpec` of `ManifestCommit` and `ContextSessions` assumes weak fairness of `Proceed`: a system call that was issued completes, and
Node runs its continuation. Nothing is assumed of callers, of errors or of crashes.
`CallsReturn` and `CallsEnd` need only that; nothing is assumed of the host's next call.

`Spec` of `TickLoop` assumes weak fairness of each worker: the interpreter schedules threads, `threading.Timer` fires,
and a cycle ends (its model call has a timeout). Nothing is assumed of handlers, rejections or crashes. `TicksRecur`
ends its claim whenever one of them intervenes.

## Proofs

Every property of a passing run is either a theorem below or named under "Only model-checked". A theorem holds for all
values of the constants that meet the assumptions named with it; TLC evaluates each `ASSUME` on the run of its module.
Each proof follows one pattern: the initial state has the inductive invariant, one lemma per action (or per operation)
preserves it, and the property is one of its parts or follows from it.

### Manifest engine

`Manifest_proofs` holds two developments. The first is of `Spec` of `ManifestManager` (any calls, commits and reloads):

* `TypeCorrect`: `TypeOK`; `IndexesAreSafe`: `IndexSafety`;
* `StalenessPropagates`: `FreshSummariesAreCurrent`; `SummariesAreUnique`: `OneActiveSummary`;
* `CleanIsSaved`: `CleanMeansSaved`;
* `CommittedLoads`: `CommittedManifestLoads`, for callers that pass known ids (`Unknown = {}`; without it the property is false, see
  "Disagreements without a run");
* `RefinementSettles`: the action property `RefinementResolves`;
* `OneActiveFact`: `OneAuthority`, of `IngestSpec`, where no call overrides arbitration;
* `AuthorityIsWhatTheLoopKeeps`: `AuthorityIsTheLoop`.

Assumptions: `KeyOf` maps values to keys, the thresholds and bounds are naturals,
confidences are within the range, and an unknown id is not a fact's id.

The inductive invariant `IInv` speaks of the manager record and of the document on disk.
`FreshSummariesAreCurrent` is not inductive alone, because a transition finds the summaries to flag
through the dependency index. `MDeps` adds that the index leads from every source of an
active summary to it, and `MSeen` that what a summary saw was among its sources and existed.
A reload restores `MDeps` from the document, so `DInv` carries the parts that do not
mention indexes. `IndexSafety` is inductive as it stands, which is the reason this half of
the index invariant survives forced refinements and the other half does not. Each operation of
`ManifestOps` has one lemma (`InsertInv`, `SetFactInv`, `RetireInv`, and so on) that it preserves the
invariant; `NextIInv` has one step per action.

`CleanIsSaved`, `CommittedLoads`, `RefinementSettles` and `OneActiveFact` compare lists before and after a call, for which the invariant says too little. A second
description gives the effect of each operation on the lists (`RetireIs`, `InsertIs`, `SetFactIs`, `AddFactIs`, `ForcedIs`), and
`NextEffect` sums it up: a call keeps every fact with its parents and adds only facts that
descend from older ones (`Extends`), and sets the dirty flag unless only convergence data changed (`Flags`). Then
`Saved` (clean means saved), `Descent` (parents come before their children, in memory and on disk) and
`AuthorityInv` (at most one active fact per key, in memory and on disk) are inductive. For `OneActiveFact`, arbitration must be shown to weigh
the one active fact of the key and no other (`SoleActiveIsWeighed`). `RefinementSettles` needs that the sweep,
which goes through `conflicted_facts`, reaches every conflicted fact of the key; it does because `IndexSafety` says that
this index misses none, although the forced activation wrote behind it.

`AuthorityIsWhatTheLoopKeeps` follows the loop over the facts of a key one visit at a time (`VisitKeeps`): the fact it holds (`Kept`) is
active if any fact it visited is, and otherwise in the state of the first one it visited; of the visited facts in its own state it has the
greatest confidence, and is the earliest with it. The set form that arbitration and the other proofs use has exactly this fact (`KeptIsAuthority`).

The second development is of `CommitSpec` of `ManifestCommit`, for any managers, tasks, mutations, inodes and revisions:

* `CommitTypes`: `CommitTypeOK`, of any callers, overlapping or not;
* under `Serialized` and `Quiet`: `CommitsAreKept` (`NoLostUpdate`), `CleanIsCurrent` (`CleanManagersAreCurrent`) and
  `FileImplementsPublished` (`ImplementsPublished`, the refinement of `PublishedManifest`).

`Serialized` and `Quiet` are what the host's lane and a caller that awaits its commits give; `commit_race` and
`commit_integrity` show that neither can be dropped. The other assumptions keep the marks for "no file" and "no document" apart from
inodes and documents. `SerialInv` says for each await of a call what the call may rely on (`CallInv`): from `open` to `rename` the document
it is about to publish has the next revision and its manager's mutations (`Follows`), its descriptor is the file under the temporary name, and that file
is not the manifest (`FileInv`). `ManagerInv` says that a manager is never ahead of the disk and, at the same revision,
holds what the disk does. Under the refinement mapping only `RenameTmp` is visible; every other step, I/O errors
and crashes included, stutters. A rename creates the file or publishes the next revision with no less in it, by `Follows` and `ManagerInv`.

`Offloads_proofs`, for any window, any batches and any number of crashes, of `OffloadSpec`:

* `RefsResolve`: `ReferencesResolve`; `OffloadsAreHeld`: `OffloadedTextsAreHeld`;
* `WindowFits`: `WindowIsLongestFit`; `MessagesAreOnce`: `MessagesOnce`;
* `FullRecallFits`: `FullRecallIsLongestFit`; `SearchFinds`: `SearchFindsFirstMatches`.

Assumptions: the parameters are naturals, a batch, with or without its markers, is a list of messages (`BatchAssumption`), and the
lines of every text that may be offloaded are known (`LinesAssumption`); what they say of `Converted` is a fact about `SelectSeq`, of which the provers
know nothing. `StageInv` relates the stage of `completeTurn` to its data: the
queue is empty except while a text is on its way, the artifact written last holds the text at the head of the queue,
and it is whole when `Register` may run. A reload between the write and the registration does
not disturb this, since it changes references only. `AscendingIsOnto`, a pigeonhole argument, shows that the list
of offloads names every message the window marked.

The other four are about what loops compute. `ListLemmas` makes that provable: a natural number that is least in its set exists
because finite sets are well founded under inclusion, induction over a set of numbers follows, and with it that a recursive function on a list exists and
satisfies its equation (`Recursion`); `SumOfAppend` and `FlattenAppend` then say what one more element adds. For `WindowFits`: token estimates are
natural, so a suffix of the turns that was over a budget is over it with one more turn (`GrownIsOver`). What was evicted
earlier need not be looked at again, and the window after the loop (`EnforceIs`) is the longest fitting suffix of the whole history, not only of the
previous window. For `MessagesAreOnce`: replacing texts by pointers commutes with concatenation (`ApplyConcat`), so the turns and the buffer, one after the
other, spell what was handed over (`WindowInv`). For the two recalls the length of the first lines grows with each line (`JoinedNext`), and the lines around the matches
grow by at most one context with each match (`AroundNext`, `AroundBound`), so stopping at the first excess is stopping at the longest fit.

`ContextSessions_proofs`, for any number of sessions, objects, mutations and revisions:

* `SessionTypes`: `TypeOK`; `KeptUnlessDisposing`: `LostOnlyWhileDisposing`.

`HandleInv` says that the map and a turn hold objects of their own session, and that a commit belongs to the turn of its object's
session or to a dispose. `RevisionInv` is the reason why no write removes a mutation from a file: an object at the revision
of the file has all the file has. `SafeInv` says which objects carry nothing unsaved: clean ones, ones just written, and
ones that a dispose is about to drop.

### Governed runtime

`ToolBatch_proofs`, for any threads, cells, plans and budgets:

* `HaltIsRespected`: `HaltStopsTools`. The invariant `HaltInv` adds what makes it inductive: under a halt a
  thread has started at most one call, and none if it stands between its check and the call.
* `TokensSpent`: `TokensAreSpent`. `TokenInv` says that a token in the barrier belongs to the batch that stands between
  precommit and consume; that needs two facts from elsewhere. A snapshot raises only when another run has
  spent the budget since precommit, so a run that none overlaps has the funds for it (`Funded`), and a run that
  is alone is known to be (`Solo`).
* `BatchTypes`: `TypeOK`, given that `None` is not the content of a sandbox.
* `BatchIsAllOrNothing`: `AllOrNothing`; `OnlyFailedCallRemains`: `OnlyTheFailedCallRemains`.

`RunInv` describes a run that no other overlaps, from the head of a batch to its end; a step of another thread
that has a run concerns no such run (`OwnRun`). An ample budget keeps, at each position of the loop, what the
calls that are left and the restore cost (`AmpleInv`), so the restore cannot raise. The plan keeps irreversible calls
alone in their batch (`PlanInv`): a batch of several calls has only calls that can be undone. For the case in which the restore is not affordable, the records are read as a stack:
the oldest record of a cell knows what the batch found there (`FirstKnows`), a cell that no record writes is as
it was, except for what the current call did (`RestIsKept`), and undoing the newest record keeps both.

`TickLoop_proofs`, for any finite set of workers and any bounds:

* `TypeCorrect`: `TypeOK`; `RunningTicksAreLive`: `RunningIsLive`;
* `ChainsAreBounded`: `ChainsDoNotMultiply`; `TicksDrain`: `OffDrains`.

The last two count. Lemmas on finite sets say how the number of busy workers, and of workers that request a
tick, changes when one worker moves; every step then moves a unit between workers, timers and the resume timer, or takes
one away, unless it begins a chain. `OffDrains` needs `QuietIsOff`: as long as the mode was last set to "off" it is
"off" or has been left so, hence no tick that ends has a successor.

`GatedState_proofs`, for any finite set of threads, any values and any bounds:

* `GateTypes`: `TypeOK`; `GateHasCause`: `GateTripsForCause`; `PromotedSurvives`: `PromotedIsOnDisk`;
* `SavedHaltHolds`: `HaltHolds`; `NoticedDrift`: `DriftIsNoticed`.

Assumptions: finitely many threads and three inodes more than threads (a name each, a descriptor per thread), and marks
that are not states. The pigeonhole lemma `FreeInodeExists` is where finiteness is used. `AloneInv` follows a save that is alone from
the Gate's check to its rename: the path has what was checked, or a foreign change slipped in. `DiskInv` follows an undisturbed history through the renames, the
crashes between them and the next start: the anchor is behind the file only between `Promote` and `SetAnchor`. `HaltInv` carries a
saved halt through memory, the payloads of saves and the file. `GateTripsForCause` and `PromotedIsOnDisk` rest on
`DiskInv`, `HaltHolds` on it and on `AskedInv`, `DriftIsNoticed` on `AloneInv`.

`ControlPlane_proofs`, for any threads, any requests among the handlers, any bounds and any length the log is trimmed to:

* `ControlInv`: the inductive invariant `IInv`; `ReplayTellsTheState`: `ReplayIsCurrent`;
* `PastIsStable`: the action property `BoundaryIsStable`.

Assumptions: the bounds are naturals, and no thread is named like a mark of `owner`. Loading and applying are recursive functions on lists, reasoned
about with `Recursion`. A line more in the log is one insertion more in the sorted events (`LoadAppend`, `LogGrows`), wherever the numbers put it,
and an inserted event changes the fields it covers and no others; at the end it decides them (`InsertedApplies`, `ReplayGrows`). So the logged fields of other
kinds keep their replayed value, and what is left is to show that the event of a field's owner tells the field's live value when it is
appended. `OwnerInv` says so for each position of the owner: it is numbering or appending, and if its event covers the field, the event
gives the value the field has. Every operation assigns what its event says (`EffectIs`, `Consistent`), and where the details of an event are
read anew when it is built, they are read from the field itself (`DetailsTell`). For `PastIsStable`, `OrderInv` says that within one run an event with a smaller number
has no later cycle, in the log or on its way to it. An event stamped past a boundary thus goes behind every event up to it, or in
front of one that is past it as well; either way the cut and what stands before it stay (`CutStays`).

### Only model-checked

Liveness (`CallsReturn`, `CallsEnd`, `TicksRecur`) rests on fairness, which the prover does not handle. Every other property of a
passing run is a theorem.

## Not modelled

* Of the manifest engine: the ids of references, the recall modes that are plain slices, the operations log, queries, the read-only `assemble` and `buildContext`, and the
  text that injection compiles.
* Of the runtime: the pulse around a batch (model calls, prompts, pending confirmations), input intents, the memory reset, the public
  review mode, memory admission and salience, identity traits. The last three are scores and heuristics of
  text; model calls are I/O.
* Servers, shells, devices and model clients: I/O.
* `openclaw-main`: a mirror of a third-party project; it is nearly all of the repository's lines.

`PROJECT.json` gives the reason for each part.

## Plan

1. Input intents and pending confirmations: the statuses an intent goes through when requests for it overlap, and the
   confirmation that outlives the batch it was asked for.
2. The memory reset, with the cycle numbers it repeats, in `ControlPlane`.
