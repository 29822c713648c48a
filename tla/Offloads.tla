------------------------------ MODULE Offloads ------------------------------
(***************************************************************************)
(* The whole of afterTurn for one session: the sliding window replaces     *)
(* large results by pointers, completeTurn stores each of them as an       *)
(* artifact and registers a reference, then the manifest is committed, or  *)
(* reloaded after a conflict (context/context-engine.ts; addReference and  *)
(* reload in manifest/manifest-manager.ts; storeArtifact in                *)
(* manifest/persistence.ts).  The host serialises the calls of a session;  *)
(* reload may also be called while a turn awaits a write.                  *)
(*                                                                         *)
(* The commit is one step (see ManifestCommit).  An artifact is named by   *)
(* its position: shortId is taken to give a new id each time.              *)
(***************************************************************************)
EXTENDS SlidingWindow, Recall

CONSTANTS
    LinesOf,   \* the lines of a result, by its length in characters
    MaxCrashes \* bound: crashes

ASSUME OffloadAssumption == MaxCrashes \in Nat

\* A line is its length and whether the query of a search occurs in it.
Line == [chars : Nat, hit : BOOLEAN]

\* The messages whose lines are known when they have to be stored.
Storable ==
    {m \in Message :
        m.role = "tool" /\ m.chars > offload_threshold_chars => m.chars \in DOMAIN LinesOf}

ASSUME LinesAssumption ==
    /\ \A chars \in DOMAIN LinesOf : LinesOf[chars] \in Seq(Line)
    /\ \A batch \in Batches : Converted(batch) \in Seq(Storable)

VARIABLES
    artifacts, \* the artifact files: text, lines, whether they are whole
    refs,      \* working.references
    diskRefs,  \* the references of the committed manifest
    dirty,
    queue,     \* offloads of the turn that are not registered yet
    stage,     \* where completeTurn is
    failed,    \* history: texts whose storage failed
    dropped,   \* history: texts whose reference a reload discarded
    handed,    \* messages handed over, for the bound MaxMessages across crashes
    crashes

bounds == <<handed, crashes>>
windowVars == <<turns, nextIndex, pendingMessages, given, log>>
offloadVars == <<windowVars, artifacts, refs, diskRefs, dirty, queue, stage, failed, dropped, bounds>>

\* A text is named by the process, the turn and the message.
TextId(turn, i) == <<crashes, turn, i>>

\* The positions to offload in the order in which the loop finds them: the one list
\* that is in this set.
OffloadsOf(messages) ==
    LET found == detectOffloads(messages)
    IN  {list \in [1..Cardinality(found) -> found] :
            \A i, j \in DOMAIN list : i < j => list[i] < list[j]}

-----------------------------------------------------------------------------
OffloadInit ==
    /\ Init
    /\ artifacts = << >>
    /\ refs = {} /\ diskRefs = {}
    /\ dirty = FALSE
    /\ queue = << >>
    /\ stage = "idle"
    /\ failed = {} /\ dropped = {}
    /\ handed = 0 /\ crashes = 0

Buffer ==
    /\ stage = "idle"
    /\ \E batch \in Batches : Ingest(batch) /\ handed' = handed + Len(batch)
    /\ handed' <= MaxMessages
    /\ UNCHANGED <<artifacts, refs, diskRefs, dirty, queue, stage, failed, dropped, crashes>>

\* afterTurn up to the first await: the texts are already replaced.
EndTurn ==
    /\ stage = "idle"
    /\ \E batch \in Batches :
         LET messages == pendingMessages \o Converted(batch)
         IN  /\ AfterTurn(batch)
             /\ handed' = handed + Len(batch)
             /\ \E found \in OffloadsOf(messages) :
                   queue' = [i \in DOMAIN found |->
                               [text |-> TextId(nextIndex, found[i]),
                                lines |-> LinesOf[messages[found[i]].chars]]]
    /\ stage' = IF queue' # << >> THEN "store" ELSE IF dirty THEN "commit" ELSE "idle"
    /\ handed' <= MaxMessages
    /\ UNCHANGED <<artifacts, refs, diskRefs, dirty, failed, dropped, crashes>>

\* Mutant of NextOffload: the loop is left after this offload.
NextOffloadNone ==
    /\ queue' = << >>
    /\ stage' = "commit"

NextOffload ==
    /\ queue' = Tail(queue)
    /\ stage' = IF Len(queue) = 1 THEN "commit" ELSE "store"

\* Mutant of OpenArtifact: the reference is registered before the file is written.
OpenRegistered ==
    /\ stage = "store"
    /\ artifacts' = Append(artifacts, [text |-> Head(queue).text,
                                       lines |-> Head(queue).lines, whole |-> FALSE])
    /\ refs' = refs \cup {Len(artifacts) + 1}
    /\ stage' = "write"
    /\ UNCHANGED <<windowVars, diskRefs, dirty, queue, failed, dropped, bounds>>

\* storeArtifact opens the file ...
OpenArtifact ==
    /\ stage = "store"
    /\ artifacts' = Append(artifacts, [text |-> Head(queue).text,
                                       lines |-> Head(queue).lines, whole |-> FALSE])
    /\ stage' = "write"
    /\ UNCHANGED <<windowVars, refs, diskRefs, dirty, queue, failed, dropped, bounds>>

\* ... and has written it.
WriteArtifact ==
    /\ stage = "write"
    /\ artifacts' = [artifacts EXCEPT ![Len(artifacts)].whole = TRUE]
    /\ stage' = "register"
    /\ UNCHANGED <<windowVars, refs, diskRefs, dirty, queue, failed, dropped, bounds>>

\* storeArtifact raises: addReference returns not ok and the loop goes on.
StoreFails ==
    /\ stage \in {"store", "write"}
    /\ failed' = failed \cup {Head(queue).text}
    /\ NextOffload
    /\ UNCHANGED <<windowVars, artifacts, refs, diskRefs, dirty, dropped, bounds>>

\* addReference after its await, in the manifest that is current by then.
Register ==
    /\ stage = "register"
    /\ refs' = refs \cup {Len(artifacts)}
    /\ dirty' = TRUE
    /\ NextOffload
    /\ UNCHANGED <<windowVars, artifacts, diskRefs, failed, dropped, bounds>>

\* commit: nothing to do, done, failed, or a conflict that asks for a reload.
CommitTurn ==
    /\ stage = "commit"
    /\ \/ ~dirty /\ stage' = "idle" /\ UNCHANGED <<diskRefs, dirty>>
       \/ dirty /\ stage' = "idle" /\ diskRefs' = refs /\ dirty' = FALSE
       \/ dirty /\ stage' \in {"idle", "sync"} /\ UNCHANGED <<diskRefs, dirty>>
    /\ UNCHANGED <<windowVars, artifacts, refs, queue, failed, dropped, bounds>>

\* reload: from syncAndReplan, or from elsewhere while the turn awaits a write.
Reload ==
    /\ stage \in {"sync", "write", "register"}
    /\ refs' = diskRefs
    /\ dirty' = FALSE
    /\ dropped' = dropped \cup {artifacts[r].text : r \in refs \ diskRefs}
    /\ stage' = IF stage = "sync" THEN "idle" ELSE stage
    /\ UNCHANGED <<windowVars, artifacts, diskRefs, queue, failed, bounds>>

SyncFails ==
    /\ stage = "sync"
    /\ stage' = "idle"
    /\ UNCHANGED <<windowVars, artifacts, refs, diskRefs, dirty, queue, failed, dropped, bounds>>

\* The process dies; bootstrap loads the manifest and starts an empty window.
CrashRestart ==
    /\ crashes < MaxCrashes
    /\ crashes' = crashes + 1
    /\ turns' = << >> /\ nextIndex' = 0 /\ pendingMessages' = << >>
    /\ given' = << >> /\ log' = << >>
    /\ refs' = diskRefs
    /\ dirty' = FALSE
    /\ queue' = << >>
    /\ stage' = "idle"
    /\ failed' = {} /\ dropped' = {}
    /\ UNCHANGED <<artifacts, diskRefs, handed>>

OffloadNext ==
    \/ Buffer \/ EndTurn
    \/ OpenArtifact \/ WriteArtifact \/ StoreFails \/ Register
    \/ CommitTurn \/ Reload \/ SyncFails
    \/ CrashRestart

OffloadSpec == OffloadInit /\ [][OffloadNext]_offloadVars

-----------------------------------------------------------------------------
\* persistence.ts, validateRefs, and recall: the file of every reference, in memory
\* and in the committed manifest, is there and whole, at any instant and after any
\* crash: load never refuses the manifest for an orphaned reference and recall
\* finds what was stored.
ReferencesResolve ==
    \A r \in refs \cup diskRefs : artifacts[r].whole

\* context-engine.ts, completeTurn: once the window has put a pointer in the place
\* of a text, the text is still to be stored, or a registered reference leads to it,
\* or its own storage failed, or a reload discarded its reference; the failure of
\* one offload costs no other text of the turn.
OffloadedTextsAreHeld ==
    \A i \in DOMAIN log : \A j \in DOMAIN log[i].messages :
        log[i].messages[j].offloaded =>
            LET text == TextId(log[i].index, j)
            IN  \/ text \in failed \cup dropped
                \/ \E k \in DOMAIN queue : queue[k].text = text
                \/ \E r \in refs : artifacts[r].text = text

\* recall-tool.ts, full: the loop that counts bytes as it goes shows the longest
\* beginning of a stored artifact that is within the caps on lines and bytes.
FullRecallIsLongestFit ==
    \A r \in refs : IsLongestFit(artifacts[r].lines, execFull(artifacts[r].lines))

\* recall-tool.ts, search: stopping the collection of lines early, at a limit on
\* lines that overlapping contexts share, loses none of the first matches.
SearchFindsFirstMatches ==
    \A r \in refs : IsFirstMatches(artifacts[r].lines, execSearch(artifacts[r].lines))
=============================================================================
