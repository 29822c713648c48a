-------------------------- MODULE ContextSessions --------------------------
(***************************************************************************)
(* The adapter OpenClaw calls and the context engine under it, for several   *)
(* sessions served by the one adapter of a process                          *)
(* (adapters/openclaw-context-adapter.ts, context/context-engine.ts).        *)
(*                                                                         *)
(* The host serialises the calls of one session and overlaps the sessions;   *)
(* every run ends in dispose(), which is a call on the whole adapter.        *)
(* A SessionState is an object of the heap, because a call in progress keeps *)
(* the one it looked up after the session map has dropped it.  A manifest is *)
(* its revision and the mutations it contains; the steps inside one write of *)
(* the file are those of ManifestCommit, and the messages of a turn are      *)
(* those of SlidingWindow: here a turn is the number of its offloads.        *)
(***************************************************************************)
EXTENDS Integers, Sequences, FiniteSets

CONSTANTS
  Sessions,
  MaxOffloads,  \* bound on the offloads of one turn
  MaxObjects,   \* bound on the SessionStates ever created
  MaxMutations, \* bound on the mutations ever accepted
  MaxRevision   \* bound on the revisions of a manifest

ASSUME BoundAssumption ==
  {MaxOffloads, MaxObjects, MaxMutations, MaxRevision} \subseteq Nat

VARIABLES
  sessions, \* the adapter's map: Sessions -> handle, 0 when there is no entry
  heap,     \* the SessionStates created so far, by handle
  host,     \* Sessions -> [pc, h, left]: the run of each session
  commits,  \* ManifestManager.commit calls in progress
  disk,     \* Sessions -> [rev, data]: the manifest files
  accepted, \* history: mutations that were told ok
  failed,   \* history: mutations of a commit or a reload that went wrong
  raced     \* history: mutations made while some dispose was in progress

vars == <<sessions, heap, host, commits, disk, accepted, failed, raced>>
manifestVars == <<disk, accepted, failed, raced>>

Idle == [pc |-> "idle", h |-> 0, left |-> 0]
Running == [Idle EXCEPT !.pc = "running"]
Live(s) == sessions[s] # 0
At(s, pc) == host[s].pc = pc
Goto(s, pc) == host' = [host EXCEPT ![s].pc = pc]
Return(s) == host' = [host EXCEPT ![s] = Running]
Disposing == \E s \in Sessions : At(s, "disposing")

\* A mutation of the working copy of h; AddFact and addReference set dirty.
Mutate(h) ==
  LET x == Cardinality(accepted) + 1
  IN  /\ x <= MaxMutations
      /\ heap' = [heap EXCEPT ![h].data = @ \cup {x}, ![h].dirty = TRUE]
      /\ accepted' = accepted \cup {x}
      /\ raced' = IF Disposing THEN raced \cup {x} ELSE raced
      /\ UNCHANGED <<disk, failed>>

-----------------------------------------------------------------------------
Init ==
  /\ sessions = [s \in Sessions |-> 0]
  /\ heap = <<>>
  /\ host = [s \in Sessions |-> Idle]
  /\ commits = {}
  /\ disk = [s \in Sessions |-> [rev |-> 0, data |-> {}]]
  /\ accepted = {} /\ failed = {} /\ raced = {}

\* The host starts a run, or another attempt of one, with bootstrap, which
\* returns at once for a known session.
StartAttempt(s) ==
  /\ At(s, "idle") \/ At(s, "running")
  /\ Goto(s, IF Live(s) THEN "running" ELSE "loading")
  /\ UNCHANGED <<sessions, heap, commits, manifestVars>>

\* The continuation of bootstrap: a new manager and engine.
FinishBootstrap(s) ==
  /\ At(s, "loading") /\ Len(heap) < MaxObjects
  /\ heap' = Append(heap, [of |-> s, data |-> disk[s].data, rev |-> disk[s].rev,
                           dirty |-> FALSE])
  /\ sessions' = [sessions EXCEPT ![s] = Len(heap')]
  /\ Return(s)
  /\ UNCHANGED <<commits, manifestVars>>

\* load throws; the host logs it and runs without a session state.
BootstrapFails(s) ==
  /\ At(s, "loading")
  /\ Return(s)
  /\ UNCHANGED <<sessions, heap, commits, manifestVars>>

\* addFact, addSummary and addReference of the tooling layer; with no session
\* state the call returns undefined.
AddFact(s) ==
  /\ At(s, "running") /\ Live(s)
  /\ Mutate(sessions[s])
  /\ UNCHANGED <<sessions, host, commits>>

\* afterTurn up to the first await of completeTurn, with n results to offload.
\* With no session state or no message it returns at once.
AfterTurn(s, n) ==
  /\ At(s, "running") /\ Live(s)
  /\ host' = [host EXCEPT ![s] = [pc |-> "storing", h |-> sessions[s], left |-> n]]
  /\ UNCHANGED <<sessions, heap, commits, manifestVars>>

\* One offloaded message: storeArtifact succeeds and the reference is
\* registered, or the failure is passed over.
StoreReference(s) ==
  /\ At(s, "storing") /\ host[s].left > 0
  /\ host' = [host EXCEPT ![s].left = @ - 1]
  /\ Mutate(host[s].h) \/ UNCHANGED <<heap, manifestVars>>
  /\ UNCHANGED <<sessions, commits>>

\* A commit of a dirty manager; expectedRevision is an argument, evaluated now.
CommitOf(s, h) == [by |-> s, on |-> h, expected |-> heap[h].rev, st |-> "check"]

\* completeTurn after its offloads: commit() does nothing on a clean manager.
CompleteTurn(s) ==
  LET h == host[s].h
  IN  /\ At(s, "storing") /\ host[s].left = 0
      /\ IF heap[h].dirty
         THEN /\ commits' = commits \cup {CommitOf(s, h)}
              /\ Goto(s, "committing")
         ELSE Return(s) /\ UNCHANGED commits
      /\ UNCHANGED <<sessions, heap, manifestVars>>

\* What becomes of the caller when its commit c is over: a turn goes on, and
\* dispose looks at no result.
Ends(c, next) ==
  /\ commits' = commits \ {c}
  /\ host' = IF ~ At(c.by, "committing") THEN host
             ELSE [host EXCEPT ![c.by] =
                     IF next = "running" THEN Running ELSE [@ EXCEPT !.pc = next]]

\* No later commit will see the object again, as far as c knows.
NoRetry(c) == At(c.by, "disposing") \/ sessions[heap[c.on].of] # c.on

\* The commit writes the file when it is still at the expected revision.
Publish(c) ==
  LET s == heap[c.on].of
  IN  /\ c.st = "check" /\ disk[s].rev = c.expected /\ disk[s].rev < MaxRevision
      /\ disk' = [disk EXCEPT ![s] = [rev |-> c.expected + 1,
                                      data |-> heap[c.on].data]]
      /\ commits' = (commits \ {c}) \cup {[c EXCEPT !.st = "written"]}
      /\ UNCHANGED <<sessions, heap, host, accepted, failed, raced>>

\* revision_conflict: a turn goes on to syncAndReplan, dispose does not.
Conflict(c) ==
  /\ c.st = "check" /\ disk[heap[c.on].of].rev # c.expected
  /\ Ends(c, "syncing")
  /\ failed' = IF NoRetry(c) THEN failed \cup heap[c.on].data ELSE failed
  /\ UNCHANGED <<sessions, heap, disk, accepted, raced>>

\* A system call of the commit fails.
CommitFails(c) ==
  /\ c.st = "check"
  /\ Ends(c, "running")
  /\ failed' = IF NoRetry(c) THEN failed \cup heap[c.on].data ELSE failed
  /\ UNCHANGED <<sessions, heap, disk, accepted, raced>>

\* Mutant: the revision after the one that was written is adopted.
Adopt_SkipsRevision(c) ==
  /\ c.st = "written"
  /\ heap' = [heap EXCEPT ![c.on].rev = c.expected + 2, ![c.on].dirty = FALSE]
  /\ Ends(c, "running")
  /\ UNCHANGED <<sessions, manifestVars>>

\* The continuation of ManifestManager.commit after the write.
Adopt(c) ==
  /\ c.st = "written"
  /\ heap' = [heap EXCEPT ![c.on].rev = c.expected + 1, ![c.on].dirty = FALSE]
  /\ Ends(c, "running")
  /\ UNCHANGED <<sessions, manifestVars>>

\* Mutant: the conflicting commit is tried again as it was.
SyncAndReplan_Retries(s) ==
  /\ At(s, "syncing")
  /\ commits' = commits \cup {CommitOf(s, host[s].h)}
  /\ Goto(s, "committing")
  /\ UNCHANGED <<sessions, heap, manifestVars>>

\* syncAndReplan: the working copy is replaced by the file, or the load fails.
SyncAndReplan(s) ==
  LET h == host[s].h
  IN  /\ At(s, "syncing")
      /\ Return(s)
      /\ \/ /\ heap' = [heap EXCEPT ![h].data = disk[s].data,
                                    ![h].rev = disk[s].rev, ![h].dirty = FALSE]
            /\ failed' = failed \cup heap[h].data
         \/ /\ failed' = IF sessions[s] # h THEN failed \cup heap[h].data ELSE failed
            /\ UNCHANGED heap
      /\ UNCHANGED <<sessions, commits, disk, accepted, raced>>

\* Mutant: only the session that ends its run is flushed.
Dispose_OwnOnly(s) ==
  LET dirty == {h \in {sessions[s]} \ {0} : heap[h].dirty}
  IN  /\ At(s, "running")
      /\ commits' = commits \cup {CommitOf(s, h) : h \in dirty}
      /\ Goto(s, "disposing")
      /\ UNCHANGED <<sessions, heap, manifestVars>>

\* The run ends: dispose starts a commit for every dirty session of the map.
Dispose(s) ==
  LET dirty == {h \in {sessions[t] : t \in Sessions} \ {0} : heap[h].dirty}
  IN  /\ At(s, "running")
      /\ commits' = commits \cup {CommitOf(s, h) : h \in dirty}
      /\ Goto(s, "disposing")
      /\ UNCHANGED <<sessions, heap, manifestVars>>

\* Once they are settled, dispose empties the map of every session.
Clear(s) ==
  /\ At(s, "disposing") /\ \A c \in commits : c.by # s
  /\ sessions' = [t \in Sessions |-> 0]
  /\ host' = [host EXCEPT ![s] = Idle]
  /\ UNCHANGED <<heap, commits, manifestVars>>

\* Another process commits to the manifest of s.
OtherProcess(s) ==
  /\ disk[s].rev < MaxRevision
  /\ disk' = [disk EXCEPT ![s].rev = @ + 1]
  /\ UNCHANGED <<sessions, heap, host, commits, accepted, failed, raced>>

\* One step of a commit, and one of an asynchronous call of s.
CommitStep(c) == Publish(c) \/ Conflict(c) \/ CommitFails(c) \/ Adopt(c)
Proceed(s) ==
  \/ StoreReference(s) \/ CompleteTurn(s) \/ SyncAndReplan(s) \/ Clear(s)
  \/ FinishBootstrap(s) \/ BootstrapFails(s)
  \/ \E c \in commits : c.by = s /\ CommitStep(c)

Next ==
  \E s \in Sessions :
    \/ StartAttempt(s) \/ AddFact(s) \/ Dispose(s) \/ OtherProcess(s) \/ Proceed(s)
    \/ \E n \in 0..MaxOffloads : AfterTurn(s, n)

Spec == Init /\ [][Next]_vars

\* A system call that was issued completes, and its continuation runs.
Fairness == \A s \in Sessions : WF_vars(Proceed(s))

FairSpec == Spec /\ Fairness

-----------------------------------------------------------------------------
(* Properties *)

\* The types of the map, the heap, the runs and the files; a commit in
\* progress refers to an existing object.
TypeOK ==
  /\ sessions \in [Sessions -> 0..Len(heap)]
  /\ \A h \in DOMAIN heap :
       /\ heap[h].of \in Sessions /\ heap[h].dirty \in BOOLEAN
       /\ heap[h].rev \in 0..MaxRevision /\ heap[h].data \subseteq accepted
  /\ \A s \in Sessions :
       /\ host[s].pc \in {"idle", "loading", "running", "storing", "committing",
                          "syncing", "disposing"}
       /\ host[s].h \in 0..Len(heap) /\ host[s].left \in Nat
  /\ commits \subseteq [by : Sessions, on : DOMAIN heap,
                        expected : 0..MaxRevision, st : {"check", "written"}]
  /\ disk \in [Sessions -> [rev : 0..MaxRevision, data : SUBSET accepted]]

\* An afterTurn or a commit that still runs keeps its object alive.
Held(h) ==
  \/ \E s \in Sessions : sessions[s] = h
  \/ \E s \in Sessions : host[s].pc \in {"storing", "committing", "syncing"}
                         /\ host[s].h = h
  \/ \E c \in commits : c.on = h

\* Mutations that are in a file, or in a dirty object a later commit will see.
Kept ==
  (UNION {disk[s].data : s \in Sessions})
  \cup (UNION {heap[h].data : h \in {g \in DOMAIN heap : Held(g) /\ heap[g].dirty}})

\* openclaw-context-adapter.ts, dispose and afterTurn: an accepted mutation is
\* kept, unless a commit or reload of its manifest went wrong or it was made
\* while a dispose of some session was in progress.
LostOnlyWhileDisposing == accepted \subseteq Kept \cup failed \cup raced

Waiting(s) == host[s].pc \in {"idle", "running"}

\* Every turn and every dispose ends, whatever the other sessions do and
\* whatever its commits meet.
CallsEnd ==
  \A s \in Sessions : ~ Waiting(s) ~> Waiting(s)
=============================================================================
