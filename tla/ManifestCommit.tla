-------------------------- MODULE ManifestCommit ---------------------------
(***************************************************************************)
(* The manifest file and the managers that load, commit and reload it, at   *)
(* the grain of the awaits of persistence.ts and of ManifestManager.commit  *)
(* and reload.  A task is one asynchronous call in progress on a manager    *)
(* (bootstrap's load, afterTurn's commit, dispose's commit).                *)
(*                                                                         *)
(* A manifest is abstracted to its revision, the set of mutations it        *)
(* contains, and the set its integrity hash was computed over.  Files are   *)
(* inodes under two names, because writers share the one temporary name and *)
(* an open descriptor outlives a rename.                                    *)
(***************************************************************************)
EXTENDS Integers, FiniteSets

CONSTANTS
  Managers,    \* ManifestManager objects on one manifest path
  Tasks,       \* asynchronous calls that may be in progress
  OwnerOf,     \* Tasks -> Managers
  Mutations,   \* synchronous mutations callers may apply
  Inodes,      \* file identities
  Nothing,     \* no file, no document
  Truncated,   \* the content of a file that was just truncated
  Mixed,       \* the content of a file that holds bytes of two documents
  Serialized,  \* BOOLEAN: calls on the path never overlap
  Quiet,       \* BOOLEAN: no mutation while a call on the manager is in progress
  MaxRevision  \* bound on the revisions ever published

ASSUME OwnerAssumption == OwnerOf \in [Tasks -> Managers]
ASSUME SwitchAssumption == Serialized \in BOOLEAN /\ Quiet \in BOOLEAN
ASSUME RevisionAssumption == MaxRevision \in Nat

VARIABLES
  name,    \* [manifest, tmp] -> inode or Nothing
  content, \* Inodes -> document, Truncated or Mixed
  mgr,     \* Managers -> [up, data, rev, dirty]
  task,    \* Tasks -> [pc, expected, hash, doc, fd]
  acked    \* history: who was told ok for which revision and which mutations

commitVars == <<name, content, mgr, task, acked>>

FileDocument == [rev : 0..MaxRevision, data : SUBSET Mutations, hash : SUBSET Mutations]
IsDocument(c) == c \notin {Nothing, Truncated, Mixed}

ASSUME MarkAssumption ==
  /\ Nothing \notin Inodes
  /\ {Nothing, Truncated, Mixed} \cap FileDocument = {}
  /\ Nothing \notin [rev : 0..MaxRevision, data : SUBSET Mutations]

IdleTask == [pc |-> "idle", expected |-> 0, hash |-> {}, doc |-> Nothing,
             fd |-> Nothing]
DownManager == [up |-> FALSE, data |-> {}, rev |-> 0, dirty |-> FALSE]
Fresh == [rev |-> 0, data |-> {}, hash |-> {}]

Idle(t) == task[t].pc = "idle"
At(t, pc) == task[t].pc = pc
Busy(m) == \E t \in Tasks : OwnerOf[t] = m /\ ~ Idle(t)

\* A call may start.
MayStart(t) == Idle(t) /\ (Serialized => \A u \in Tasks : Idle(u))

Goto(t, pc) == task' = [task EXCEPT ![t].pc = pc]
Return(t) == task' = [task EXCEPT ![t] = IdleTask]

-----------------------------------------------------------------------------
CommitInit ==
  /\ name = [manifest |-> Nothing, tmp |-> Nothing]
  /\ content = [i \in Inodes |-> Truncated]
  /\ mgr = [m \in Managers |-> DownManager]
  /\ task = [t \in Tasks |-> IdleTask]
  /\ acked = {}

\* addFact and the other synchronous calls, on the working copy.
Mutate(m, x) ==
  /\ mgr[m].up /\ x \notin mgr[m].data
  /\ Quiet => ~ Busy(m)
  /\ mgr' = [mgr EXCEPT ![m].data = @ \cup {x}, ![m].dirty = TRUE]
  /\ UNCHANGED <<name, content, task, acked>>

\* ManifestManager.load: loadOrCreate reads the file.
StartLoad(t) ==
  /\ MayStart(t) /\ ~ mgr[OwnerOf[t]].up
  /\ Goto(t, "load")
  /\ UNCHANGED <<name, content, mgr, acked>>

\* What load() makes of the file: a document with a matching hash, or a refusal.
Loads(c) == IsDocument(c) /\ c.hash = c.data

\* load() up to the validations it awaits.  With no file, loadOrCreate goes on
\* to write a fresh manifest; reload and a refused load give up.
ReadManifest(t) ==
  /\ task[t].pc \in {"load", "reload"}
  /\ LET i == name.manifest
     IN  IF i = Nothing
         THEN IF At(t, "load")
              THEN task' = [task EXCEPT ![t].pc = "open", ![t].doc = Fresh]
              ELSE Return(t)
         ELSE IF Loads(content[i])
              THEN task' = [task EXCEPT ![t].pc = "apply", ![t].doc = content[i]]
              ELSE Return(t)
  /\ UNCHANGED <<name, content, mgr, acked>>

\* Mutant: the reload keeps the working copy and adopts the revision.
ApplyManifest_KeepsWorking(t) ==
  /\ At(t, "apply")
  /\ mgr' = [mgr EXCEPT ![OwnerOf[t]].up = TRUE,
                        ![OwnerOf[t]].rev = task[t].doc.rev,
                        ![OwnerOf[t]].dirty = FALSE]
  /\ Return(t)
  /\ UNCHANGED <<name, content, acked>>

\* The continuation of load() or reload(): working, indexes, expectedRevision
\* and dirty are replaced.
ApplyManifest(t) ==
  /\ At(t, "apply")
  /\ mgr' = [mgr EXCEPT ![OwnerOf[t]] =
               [up |-> TRUE, data |-> task[t].doc.data, rev |-> task[t].doc.rev,
                dirty |-> FALSE]]
  /\ Return(t)
  /\ UNCHANGED <<name, content, acked>>

\* commit() of a dirty manager; expectedRevision is an argument, evaluated now.
StartCommit(t) ==
  LET m == OwnerOf[t]
  IN  /\ MayStart(t) /\ mgr[m].up /\ mgr[m].dirty
      /\ mgr[m].rev < MaxRevision
      /\ task' = [task EXCEPT ![t].pc = "revision", ![t].expected = mgr[m].rev]
      /\ UNCHANGED <<name, content, mgr, acked>>

\* readRevision, which parses the file and checks nothing but the revision.
DiskRevision ==
  IF name.manifest = Nothing THEN -1 ELSE content[name.manifest].rev

DiskParses == name.manifest # Nothing => IsDocument(content[name.manifest])

\* Mutant: the revision is read and not compared.
CheckRevision_NoCheck(t) ==
  /\ At(t, "revision")
  /\ IF DiskParses
     THEN task' = [task EXCEPT ![t].pc = "mkdir",
                               ![t].hash = mgr[OwnerOf[t]].data]
     ELSE Return(t)
  /\ UNCHANGED <<name, content, mgr, acked>>

\* Mutant: a conflicting commit waits for its revision to come back.
CheckRevision_Waits(t) ==
  /\ At(t, "revision") /\ DiskParses /\ DiskRevision = task[t].expected
  /\ task' = [task EXCEPT ![t].pc = "mkdir", ![t].hash = mgr[OwnerOf[t]].data]
  /\ UNCHANGED <<name, content, mgr, acked>>

\* Revision check, snapshot and integrity hash, all in one continuation.  On a
\* conflict afterTurn goes on to syncAndReplan's reload and dispose does not.
CheckRevision(t) ==
  /\ At(t, "revision")
  /\ IF ~ DiskParses THEN Return(t)
     ELSE IF DiskRevision # task[t].expected
          THEN Return(t) \/ Goto(t, "reload")
          ELSE task' = [task EXCEPT ![t].pc = "mkdir",
                                    ![t].hash = mgr[OwnerOf[t]].data]
  /\ UNCHANGED <<name, content, mgr, acked>>

\* commitRaw after its first await: the snapshot shares the fact objects of
\* the working copy, so this is where their value is taken.
Serialize(t) ==
  /\ At(t, "mkdir")
  /\ task' = [task EXCEPT ![t].pc = "open",
                ![t].doc = [rev |-> task[t].expected + 1,
                            data |-> mgr[OwnerOf[t]].data,
                            hash |-> task[t].hash]]
  /\ UNCHANGED <<name, content, mgr, acked>>

\* Inodes no name and no descriptor refers to.
FreeInodes ==
  {i \in Inodes : i \notin {name.manifest, name.tmp}
                  /\ \A t \in Tasks : task[t].fd # i}

\* Mutant: the document is written in place, with no temporary file.
OpenTmp_InPlace(t) ==
  /\ At(t, "open")
  /\ \E i \in IF name.manifest # Nothing THEN {name.manifest} ELSE FreeInodes :
       /\ name' = [name EXCEPT !.manifest = i, !.tmp = i]
       /\ content' = [content EXCEPT ![i] = Truncated]
       /\ task' = [task EXCEPT ![t].pc = "write", ![t].fd = i]
  /\ UNCHANGED <<mgr, acked>>

\* open(tmp, "w") truncates the file under the shared temporary name.
OpenTmp(t) ==
  /\ At(t, "open")
  /\ \E i \in IF name.tmp # Nothing THEN {name.tmp} ELSE FreeInodes :
       /\ name' = [name EXCEPT !.tmp = i]
       /\ content' = [content EXCEPT ![i] = Truncated]
       /\ task' = [task EXCEPT ![t].pc = "write", ![t].fd = i]
  /\ UNCHANGED <<mgr, acked>>

\* writeFile, sync and close on the descriptor, wherever its inode is now.  A
\* write over another document leaves that document's tail when it is longer.
WriteTmp(t) ==
  LET i == task[t].fd
  IN  /\ At(t, "write")
      /\ \E c \in {task[t].doc} \cup {x \in {Mixed} : content[i] # Truncated} :
           content' = [content EXCEPT ![i] = c]
      /\ task' = [task EXCEPT ![t].pc = "rename", ![t].fd = Nothing]
      /\ UNCHANGED <<name, mgr, acked>>

\* rename(tmp, manifestPath), which fails when another writer took the name.
RenameTmp(t) ==
  /\ At(t, "rename")
  /\ IF name.tmp = Nothing
     THEN Return(t) /\ UNCHANGED name
     ELSE /\ name' = [manifest |-> name.tmp, tmp |-> Nothing]
          /\ Goto(t, "finish")
  /\ UNCHANGED <<content, mgr, acked>>

\* Mutant: the manager adopts the revision after the one it wrote.
Finish_AdoptsNext(t) ==
  LET m == OwnerOf[t]
  IN  /\ At(t, "finish")
      /\ mgr' = [mgr EXCEPT ![m] = [up |-> TRUE, data |-> task[t].doc.data,
                                   rev |-> task[t].doc.rev + 1, dirty |-> FALSE]]
      /\ acked' = acked \cup {[by |-> m, rev |-> task[t].doc.rev,
                               data |-> task[t].doc.data]}
      /\ Return(t)
      /\ UNCHANGED <<name, content>>

\* The continuation after commitRaw: commit() adopts the new revision and
\* clears dirty; loadOrCreate constructs the manager.
Finish(t) ==
  LET m == OwnerOf[t]
  IN  /\ At(t, "finish")
      /\ mgr' = IF task[t].doc = Fresh
                THEN [mgr EXCEPT ![m] = [DownManager EXCEPT !.up = TRUE]]
                ELSE [mgr EXCEPT ![m].rev = task[t].doc.rev, ![m].dirty = FALSE]
      /\ acked' = acked \cup {[by |-> m, rev |-> task[t].doc.rev,
                               data |-> task[t].doc.data]}
      /\ Return(t)
      /\ UNCHANGED <<name, content>>

\* A system call of load, readRevision or commitRaw fails: the call returns an
\* error, and nothing cleans up the temporary file.
IoError(t) ==
  /\ task[t].pc \in {"load", "reload", "revision", "mkdir", "open", "write", "rename"}
  /\ Return(t)
  /\ UNCHANGED <<name, content, mgr, acked>>

\* The process of a manager dies, and its calls with it.
Crash(m) ==
  /\ mgr[m].up \/ Busy(m)
  /\ mgr' = [mgr EXCEPT ![m] = DownManager]
  /\ task' = [t \in Tasks |-> IF OwnerOf[t] = m THEN IdleTask ELSE task[t]]
  /\ UNCHANGED <<name, content, acked>>

\* One step of a call in progress.
Proceed(t) ==
  \/ ReadManifest(t) \/ ApplyManifest(t) \/ CheckRevision(t) \/ Serialize(t)
  \/ OpenTmp(t) \/ WriteTmp(t) \/ RenameTmp(t) \/ Finish(t)

CommitNext ==
  \/ \E m \in Managers : Crash(m) \/ \E x \in Mutations : Mutate(m, x)
  \/ \E t \in Tasks : StartLoad(t) \/ StartCommit(t) \/ Proceed(t) \/ IoError(t)

CommitSpec == CommitInit /\ [][CommitNext]_commitVars

\* A system call that was issued completes, and its continuation runs.
Fairness == \A t \in Tasks : WF_commitVars(Proceed(t))

FairSpec == CommitSpec /\ Fairness

-----------------------------------------------------------------------------
(* Properties *)

Phases == {"idle", "load", "reload", "apply", "revision", "mkdir", "open",
           "write", "rename", "finish"}

\* The types of the file system, the managers and the calls in progress.
CommitTypeOK ==
  /\ name \in [{"manifest", "tmp"} -> Inodes \cup {Nothing}]
  /\ content \in [Inodes -> FileDocument \cup {Truncated, Mixed}]
  /\ mgr \in [Managers -> [up : BOOLEAN, data : SUBSET Mutations,
                           rev : 0..MaxRevision, dirty : BOOLEAN]]
  /\ task \in [Tasks -> [pc : Phases, expected : 0..MaxRevision,
                         hash : SUBSET Mutations,
                         doc : FileDocument \cup {Nothing},
                         fd : Inodes \cup {Nothing}]]
  /\ acked \subseteq [by : Managers, rev : 0..MaxRevision, data : SUBSET Mutations]

OnDisk == IF name.manifest = Nothing THEN Nothing ELSE content[name.manifest]

\* persistence.ts, load(): the document on disk passes its own integrity check.
ManifestPassesIntegrity ==
  IsDocument(OnDisk) => OnDisk.hash = OnDisk.data

\* What a commit that returned ok wrote is in every later manifest.
NoLostUpdate ==
  \A a \in acked : IsDocument(OnDisk) /\ a.data \subseteq OnDisk.data

\* docs/ARCHITECTURE.md:313, "Two processes writing simultaneously: one wins,
\* one gets a conflict": no two managers are told ok for one revision.
OneWinnerPerRevision ==
  \A a, b \in acked : (a.rev = b.rev /\ a.rev > 0) => a.by = b.by

\* A manager at the disk's revision that is not dirty holds exactly what the
\* disk does: clearing dirty after the write forgets nothing.
CleanManagersAreCurrent ==
  \A m \in Managers :
    (/\ mgr[m].up /\ ~ mgr[m].dirty
     /\ IsDocument(OnDisk) /\ mgr[m].rev = OnDisk.rev) => mgr[m].data = OnDisk.data

\* What a reader of the manifest path finds: the document without its hash.
Visible ==
  IF IsDocument(OnDisk) THEN [rev |-> OnDisk.rev, data |-> OnDisk.data] ELSE OnDisk

\* The file behaves as PublishedManifest promises.
Published == INSTANCE PublishedManifest WITH published <- Visible

\* Detailed loads, commits, reloads, faults and crashes implement the abstract
\* published manifest.
ImplementsPublished == Published!Spec

\* Every call returns: no load, commit or reload waits for ever.
CallsReturn == \A t \in Tasks : ~ Idle(t) ~> Idle(t)
=============================================================================
