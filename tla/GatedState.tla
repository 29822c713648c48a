------------------------------ MODULE GatedState ------------------------------
(***************************************************************************)
(* The persisted runtime state and the Gate that guards it: save_state and *)
(* the control-plane handlers that call it (runtime.py), RuntimeState.save *)
(* and RuntimeState.load (state.py), and the start of the runtime.         *)
(*                                                                         *)
(* The handlers run in the threads of an HTTP server, in tick threads and  *)
(* in timers, on one state object and without a lock.  The process may     *)
(* crash between any two steps and is started again; somebody else may     *)
(* change the state file, which is what the Gate is there to notice.       *)
(*                                                                         *)
(* Files are names bound to inodes, so that a rename under an open file    *)
(* does what the file system does.  A hash is the content it is taken of.  *)
(***************************************************************************)
EXTENDS Integers, FiniteSets

CONSTANTS
    Threads,    \* handlers, tick threads and timers
    Values,     \* what the rest of the state may hold
    Fresh,      \* the value of a default RuntimeState
    Foreign,    \* what somebody else writes to the file
    Inodes,
    MaxCalls,   \* bound: control-plane calls
    MaxCrashes, \* bound: crashes
    MaxDrifts,  \* bound: foreign changes of the file
    Missing,    \* the hash of a file that is not there
    Torn,       \* the content, and the hash, of a half-written file
    None

ASSUME GateAssumption ==
    /\ Fresh \notin Values
    /\ Foreign \notin Values \cup {Fresh}
    /\ IsFiniteSet(Threads) /\ IsFiniteSet(Inodes)
    /\ Cardinality(Inodes) >= 3 + Cardinality(Threads)
    /\ None \notin Inodes /\ None \notin {"asked", "halt"}

States == [halted : BOOLEAN, value : Values \cup {Fresh, Foreign}]

ASSUME MarkAssumption == {Missing, Torn, None} \cap States = {}

Names == {"path", "bak", "tmp"}

VARIABLES
    up,         \* the process is running
    state,      \* self.state: the kill switch and the rest
    anchorHash, \* _gate_anchor_hash
    inode,      \* the directory: name -> inode or None
    data,       \* inode -> content
    pc,         \* where each thread is
    call,       \* the handler a thread runs
    payload,    \* the serialised state a save writes
    handle,     \* the inode a save has open
    had,        \* had_existing of a save
    calls, crashes, drifts,
    promoted,   \* history: what the last rename to the path put there
    ordered,    \* history: a halt is "asked" for, and "halt" once it is saved
    overlap,    \* history: two saves were under way at the same time
    drifted,    \* history: the file was changed by somebody else
    exposed,    \* history: a crash came between the two renames
    tripped,    \* history: the Gate has engaged the kill switch
    slipped     \* history: the file changed since the save's check

files == <<inode, data>>
bounds == <<calls, crashes, drifts>>
saveVars == <<payload, handle, had>>
history == <<promoted, ordered, overlap, drifted, exposed, tripped, slipped>>
vars == <<up, state, anchorHash, files, pc, call, saveVars, bounds, history>>

-----------------------------------------------------------------------------
\* _hash_persisted_runtime_state
PersistedHash == IF inode["path"] = None THEN Missing ELSE data[inode["path"]]

Readable(hash) == hash \notin {Missing, Torn}

\* Path.replace: the target's old inode is unlinked.
Rename(from, to) == inode' = [inode EXCEPT ![to] = inode[from], ![from] = None]

\* An inode no name and no open file refers to.
FreeInode ==
    CHOOSE i \in Inodes : /\ \A n \in Names : inode[n] # i
                          /\ \A t \in Threads : pc[t] = "write" => handle[t] # i

FirstInode == CHOOSE i \in Inodes : TRUE

Default == [halted |-> FALSE, value |-> Fresh]

\* A load without the fallback for a file that cannot be read.
LoadUnguarded == IF inode["path"] = None THEN Default ELSE PersistedHash

\* A load that takes the backup first.
LoadBackupFirst ==
    IF inode["bak"] # None /\ Readable(data[inode["bak"]])
    THEN data[inode["bak"]]
    ELSE IF inode["path"] # None /\ Readable(PersistedHash) THEN PersistedHash ELSE Default

\* RuntimeState.load: the backup is looked at only when the file is there and
\* cannot be read.
LoadState ==
    CASE inode["path"] = None -> Default
      [] inode["path"] # None /\ Readable(PersistedHash) -> PersistedHash
      [] OTHER -> IF inode["bak"] # None /\ Readable(data[inode["bak"]])
                  THEN data[inode["bak"]] ELSE Default

Goto(t, label) == pc' = [pc EXCEPT ![t] = label]

-----------------------------------------------------------------------------
(***************************************************************************)
(* The handlers.  Each changes the state in memory and calls save_state:   *)
(* engage_killswitch, release_killswitch and the setters of modes.         *)
(***************************************************************************)
StartCall(t, name, newState) ==
    /\ up
    /\ pc[t] = "idle"
    /\ calls < MaxCalls
    /\ calls' = calls + 1
    /\ state' = newState
    /\ call' = [call EXCEPT ![t] = name]
    /\ Goto(t, "check")
    /\ UNCHANGED <<up, anchorHash, files, saveVars, crashes, drifts, promoted,
                   overlap, drifted, exposed, tripped, slipped>>

EngageKillswitch(t) ==
    /\ StartCall(t, "engage", [state EXCEPT !.halted = TRUE])
    /\ ordered' = IF ordered = None THEN "asked" ELSE ordered

ReleaseKillswitch(t) ==
    /\ StartCall(t, "release", [state EXCEPT !.halted = FALSE])
    /\ ordered' = None

SetMode(t) ==
    /\ \E v \in Values : StartCall(t, "set", [state EXCEPT !.value = v])
    /\ UNCHANGED ordered

-----------------------------------------------------------------------------
(***************************************************************************)
(* save_state: the Gate compares the file with the anchor.  An unknown or  *)
(* a different hash engages the kill switch and raises; engage_killswitch  *)
(* swallows that, the other handlers pass it on.                           *)
(***************************************************************************)
\* A Gate that only asks whether the file can be read.
GateReadable == Readable(anchorHash) /\ Readable(PersistedHash)

GateOpen ==
    /\ Readable(anchorHash)
    /\ Readable(PersistedHash)
    /\ PersistedHash = anchorHash

\* History: t's save is under way from its check to its end.
Saving(t) == pc[t] \in {"open", "write", "aside", "promote", "anchor"}

GateCheck(t) ==
    /\ pc[t] = "check"
    /\ overlap' = (overlap \/ \E u \in Threads \ {t} : Saving(u))
    /\ \/ /\ GateOpen
          /\ Goto(t, "open")
          /\ slipped' = [slipped EXCEPT ![t] = FALSE]
          /\ UNCHANGED <<state, tripped>>
       \/ /\ ~GateOpen
          /\ state' = [state EXCEPT !.halted = TRUE]
          /\ tripped' = TRUE
          /\ Goto(t, "idle")
          /\ UNCHANGED slipped
    /\ UNCHANGED <<up, anchorHash, files, call, saveVars, bounds, promoted,
                   ordered, drifted, exposed>>

(***************************************************************************)
(* RuntimeState.save: serialise, open the temporary file (which truncates  *)
(* one that is there), write it, move the file aside, move the temporary   *)
(* file in.                                                                *)
(***************************************************************************)
OpenTemp(t) ==
    LET i == IF inode["tmp"] # None THEN inode["tmp"] ELSE FreeInode
    IN /\ pc[t] = "open"
       /\ payload' = [payload EXCEPT ![t] = state]
       /\ handle' = [handle EXCEPT ![t] = i]
       /\ inode' = [inode EXCEPT !["tmp"] = i]
       /\ data' = [data EXCEPT ![i] = Torn]
       /\ Goto(t, "write")
       /\ UNCHANGED <<up, state, anchorHash, call, had, bounds, history>>

WriteTemp(t) ==
    /\ pc[t] = "write"
    /\ data' = [data EXCEPT ![handle[t]] = payload[t]]
    /\ Goto(t, "aside")
    /\ UNCHANGED <<up, state, anchorHash, inode, call, saveVars, bounds, history>>

\* The old file is removed instead of kept as the backup.
RemoveOld == inode' = [inode EXCEPT !["path"] = None]

\* path.replace(backup_path)
KeepBackup == Rename("path", "bak")

MoveAside(t) ==
    /\ pc[t] = "aside"
    /\ had' = [had EXCEPT ![t] = inode["path"] # None]
    /\ IF inode["path"] # None THEN KeepBackup ELSE UNCHANGED inode
    /\ Goto(t, "promote")
    /\ UNCHANGED <<up, state, anchorHash, data, call, payload, handle, bounds, history>>

Promote(t) ==
    /\ pc[t] = "promote"
    /\ \/ /\ inode["tmp"] # None
          /\ Rename("tmp", "path")
          /\ promoted' = data[inode["tmp"]]
          /\ Goto(t, "anchor")
       \/ /\ inode["tmp"] = None    \* replace raises; put the backup back
          /\ IF had[t] /\ inode["bak"] # None /\ inode["path"] = None
             THEN Rename("bak", "path") ELSE UNCHANGED inode
          /\ Goto(t, "idle")
          /\ UNCHANGED promoted
    /\ UNCHANGED <<up, state, anchorHash, data, call, saveVars, bounds, ordered,
                   overlap, drifted, exposed, tripped, slipped>>

\* The anchor of before the save is kept.
OldAnchor == anchorHash

\* gate_after of save_state.
NewAnchor == PersistedHash

\* The end of save_state: the anchor is the hash of what is now on disk.
SetAnchor(t) ==
    /\ pc[t] = "anchor"
    /\ anchorHash' = NewAnchor
    /\ ordered' = IF ordered = "asked" /\ call[t] = "engage" /\ payload[t].halted
                  THEN "halt" ELSE ordered
    /\ Goto(t, "idle")
    /\ UNCHANGED <<up, state, files, call, saveVars, bounds, promoted, overlap,
                   drifted, exposed, tripped, slipped>>

-----------------------------------------------------------------------------
\* The process dies; the files stay as they are.
Crash ==
    /\ up
    /\ crashes < MaxCrashes
    /\ crashes' = crashes + 1
    /\ up' = FALSE
    /\ state' = Default
    /\ anchorHash' = None
    /\ pc' = [t \in Threads |-> "idle"]
    /\ exposed' = (exposed \/ inode["path"] = None)
    /\ UNCHANGED <<files, call, saveVars, calls, drifts, promoted, ordered,
                   overlap, drifted, tripped, slipped>>

\* __init__: load the state, write a first file when there is none, and take
\* the anchor from the disk.
Restart ==
    /\ ~up
    /\ up' = TRUE
    /\ state' = LoadState
    /\ IF inode["path"] = None
       THEN LET i == IF inode["tmp"] # None THEN inode["tmp"] ELSE FreeInode
            IN /\ inode' = [inode EXCEPT !["path"] = i, !["tmp"] = None]
               /\ data' = [data EXCEPT ![i] = Default]
               /\ promoted' = Default
       ELSE UNCHANGED <<inode, data, promoted>>
    /\ anchorHash' = IF inode["path"] = None THEN Default ELSE PersistedHash
    /\ UNCHANGED <<pc, call, saveVars, bounds, ordered, overlap, drifted,
                   exposed, tripped, slipped>>

\* Somebody else writes the state file, or leaves it half written.
Drift ==
    /\ inode["path"] # None
    /\ drifts < MaxDrifts
    /\ drifts' = drifts + 1
    /\ \E c \in {[halted |-> FALSE, value |-> Foreign], Torn} :
          data' = [data EXCEPT ![inode["path"]] = c]
    /\ drifted' = TRUE
    /\ slipped' = [t \in Threads |-> TRUE]
    /\ UNCHANGED <<up, state, anchorHash, inode, pc, call, saveVars, calls,
                   crashes, promoted, ordered, overlap, exposed, tripped>>

-----------------------------------------------------------------------------
Init ==
    /\ up = TRUE
    /\ state = Default
    /\ inode = [n \in Names |-> IF n = "path" THEN FirstInode ELSE None]
    /\ data = [i \in Inodes |-> IF i = FirstInode THEN Default ELSE Torn]
    /\ anchorHash = Default
    /\ pc = [t \in Threads |-> "idle"]
    /\ call = [t \in Threads |-> None]
    /\ payload = [t \in Threads |-> Default]
    /\ handle = [t \in Threads |-> None]
    /\ had = [t \in Threads |-> FALSE]
    /\ calls = 0 /\ crashes = 0 /\ drifts = 0
    /\ promoted = Default
    /\ ordered = None
    /\ overlap = FALSE /\ drifted = FALSE /\ exposed = FALSE /\ tripped = FALSE
    /\ slipped = [t \in Threads |-> FALSE]

Step(t) ==
    \/ EngageKillswitch(t)
    \/ ReleaseKillswitch(t)
    \/ SetMode(t)
    \/ GateCheck(t)
    \/ OpenTemp(t)
    \/ WriteTemp(t)
    \/ MoveAside(t)
    \/ Promote(t)
    \/ SetAnchor(t)

Next ==
    \/ \E t \in Threads : Step(t)
    \/ Crash
    \/ Restart
    \/ Drift

Spec == Init /\ [][Next]_vars

-----------------------------------------------------------------------------
\* The values the variables may have.
TypeOK ==
    /\ up \in BOOLEAN
    /\ state \in States
    /\ anchorHash \in States \cup {Torn, Missing, None}
    /\ inode \in [Names -> Inodes \cup {None}]
    /\ data \in [Inodes -> States \cup {Torn}]
    /\ pc \in [Threads -> {"idle", "check", "open", "write", "aside", "promote", "anchor"}]
    /\ call \in [Threads -> {None, "engage", "release", "set"}]
    /\ payload \in [Threads -> States]
    /\ handle \in [Threads -> Inodes \cup {None}]
    /\ had \in [Threads -> BOOLEAN]

\* The Gate engages the kill switch only for a cause: when saves do not overlap
\* and nobody else writes the file, no save is rejected, whatever crashes and
\* restarts leave behind.
GateTripsForCause == tripped => overlap \/ drifted

\* As long as saves do not overlap and nobody else writes the file, at every
\* point where the process can die the file holds what was promoted last, or
\* it is missing and the backup holds it.
PromotedIsOnDisk ==
    ~overlap /\ ~drifted =>
        IF inode["path"] # None
        THEN data[inode["path"]] = promoted
        ELSE inode["bak"] # None /\ data[inode["bak"]] = promoted

\* A halt the operator ordered and whose save succeeded is still on, through
\* later calls, crashes and restarts, until the operator releases it, except
\* when saves overlapped, when the file was changed by somebody else, or when
\* a crash came between the two renames of a save.
HaltHolds ==
    up /\ ordered = "halt" /\ ~overlap /\ ~drifted /\ ~exposed => state.halted

\* A foreign change that was there when a save made its check is never moved
\* aside by that save: only one that comes between check and rename is.
DriftIsNoticed ==
    ~overlap =>
        \A t \in Threads :
            pc[t] = "aside" /\ inode["path"] # None =>
                PersistedHash = anchorHash \/ slipped[t]
=============================================================================
