-------------------------- MODULE GatedState_proofs --------------------------
(***************************************************************************)
(* Proofs about GatedState, for any finite set of threads, any values and  *)
(* any bounds: what the Gate, the state file and its backup guarantee      *)
(* between any two steps of saves, crashes, restarts and foreign changes.  *)
(***************************************************************************)
EXTENDS GatedState, FiniteSetTheorems, TLAPS

-----------------------------------------------------------------------------
(* The inductive invariant *)

\* The history variables, which TypeOK leaves out.
HistoryTypes ==
    /\ overlap \in BOOLEAN /\ drifted \in BOOLEAN /\ exposed \in BOOLEAN /\ tripped \in BOOLEAN
    /\ slipped \in [Threads -> BOOLEAN]
    /\ promoted \in States \cup {Torn}
    /\ ordered \in {None, "asked", "halt"}
    /\ \A t \in Threads : pc[t] = "write" => handle[t] \in Inodes

\* A file has one name.
OneName == \A m, n \in Names : inode[m] # None /\ inode[m] = inode[n] => m = n

\* Where the threads may be: none runs in a dead process, and as long as saves
\* do not overlap one thread saves.
ThreadInv ==
    /\ ~up => \A t \in Threads : pc[t] = "idle"
    /\ ~up /\ ~exposed => inode["path"] # None
    /\ ~overlap => \A t, u \in Threads : Saving(t) /\ Saving(u) => t = u

\* A save that is alone writes the file of the temporary name, and between its
\* check and its rename the path has what was checked or a foreign change.
AloneInv ==
    ~overlap => \A t \in Threads :
        /\ pc[t] = "write" => handle[t] = inode["tmp"]
        /\ pc[t] \in {"open", "write", "aside"} =>
             slipped[t] \/ (inode["path"] # None /\ data[inode["path"]] = anchorHash)

Undisturbed == ~overlap /\ ~drifted

\* Undisturbed, the Gate finds the anchor on disk but between the renames of a
\* save, and the temporary file has the payload from the write to the rename.
DiskInv ==
    Undisturbed =>
        /\ promoted \in States
        /\ PromotedIsOnDisk
        /\ up /\ (\A t \in Threads : pc[t] \notin {"promote", "anchor"}) =>
             inode["path"] # None /\ anchorHash = promoted
        /\ \A t \in Threads :
             /\ pc[t] \in {"aside", "promote"} =>
                  inode["tmp"] # None /\ data[inode["tmp"]] = payload[t]
             /\ pc[t] = "anchor" => inode["path"] # None /\ promoted = payload[t]

\* While an engage call is under way and its order stands, the state is halted.
AskedInv ==
    ordered # None /\ (\E t \in Threads : pc[t] # "idle" /\ call[t] = "engage") => state.halted

\* A saved halt is in memory, in the payload of a save and in what was promoted.
HaltInv ==
    ordered = "halt" /\ Undisturbed /\ ~exposed =>
        /\ up => state.halted
        /\ promoted.halted
        /\ \A t \in Threads : pc[t] \in {"write", "aside", "promote", "anchor"} => payload[t].halted

IInv ==
    /\ TypeOK
    /\ HistoryTypes
    /\ OneName
    /\ ThreadInv
    /\ AloneInv
    /\ DiskInv
    /\ GateTripsForCause
    /\ AskedInv
    /\ HaltInv

-----------------------------------------------------------------------------
(* Files *)

\* There is always an inode for a new temporary file: two names and the open files
\* do not use all of them.
LEMMA FreeInodeExists ==
    ASSUME TypeOK, inode["tmp"] = None
    PROVE  /\ FreeInode \in Inodes
           /\ \A n \in Names : inode[n] # FreeInode
           /\ \A t \in Threads : pc[t] = "write" => handle[t] # FreeInode
<1> DEFINE H == {handle[t] : t \in Threads}
           P == {inode["path"]} \cup {inode["bak"]}
<1>1. IsFiniteSet(H) /\ Cardinality(H) <= Cardinality(Threads)
    <2>1. handle \in Surjection(Threads, H)
        BY DEF TypeOK, Surjection
    <2> HIDE DEF H
    <2> QED BY <2>1, GateAssumption, FS_Surjection
<1>2. IsFiniteSet(P) /\ Cardinality(P) <= 2 /\ Cardinality(P) \in Nat
    <2>1. IsFiniteSet({inode["path"]}) /\ Cardinality({inode["path"]}) = 1
        BY FS_Singleton
    <2> DEFINE S == {inode["path"]}
               x == inode["bak"]
    <2>2. IsFiniteSet(S) /\ Cardinality(S) = 1
        BY <2>1
    <2> HIDE DEF S, x
    <2>3. /\ IsFiniteSet(S \cup {x})
          /\ Cardinality(S \cup {x}) = IF x \in S THEN Cardinality(S) ELSE Cardinality(S) + 1
        BY <2>2, FS_AddElement
    <2>4. Cardinality(S \cup {x}) <= 2 /\ Cardinality(S \cup {x}) \in Nat
        BY <2>2, <2>3
    <2> QED BY <2>3, <2>4 DEF S, x
<1> HIDE DEF H, P
<1>3. IsFiniteSet(P \cup H) /\ Cardinality(P \cup H) <= 2 + Cardinality(Threads)
    <2>1. IsFiniteSet(P \cap H)
        BY <1>1, FS_Subset
    <2>2. /\ Cardinality(P \cap H) \in Nat /\ Cardinality(H) \in Nat
          /\ Cardinality(Threads) \in Nat
        BY <1>1, <2>1, FS_CardinalityType, GateAssumption
    <2> QED BY <1>1, <1>2, <2>2, FS_Union
<1>4. PICK i \in Inodes : i \notin P \cup H
    <2> SUFFICES ASSUME Inodes \subseteq P \cup H PROVE FALSE
        OBVIOUS
    <2>1. Cardinality(Inodes) <= Cardinality(P \cup H)
        BY <1>3, FS_Subset
    <2>2. /\ Cardinality(Inodes) \in Nat /\ Cardinality(P \cup H) \in Nat
          /\ Cardinality(Threads) \in Nat
        BY <1>3, FS_CardinalityType, GateAssumption
    <2> QED BY <1>3, <2>1, <2>2, GateAssumption
<1>5. /\ \A n \in Names : inode[n] # i
      /\ \A t \in Threads : pc[t] = "write" => handle[t] # i
    BY <1>4, GateAssumption DEF P, H, Names
<1> QED BY <1>5 DEF FreeInode

\* A default state is a state, and no mark is one.
LEMMA Marks ==
    /\ Default \in States /\ ~ Default.halted
    /\ Missing \notin States /\ Torn \notin States /\ None \notin States
BY MarkAssumption DEF Default, States

\* What a start loads is a state: an unreadable file is not taken for one.
LEMMA LoadType ==
    ASSUME TypeOK
    PROVE  LoadState \in States
BY Marks DEF TypeOK, LoadState, PersistedHash, Readable, Names

LEMMA InitIInv == Init => IInv
<1> SUFFICES ASSUME Init PROVE IInv
    OBVIOUS
<1>1. FirstInode \in Inodes
    <2>1. Inodes # {}
        BY GateAssumption, FS_EmptySet, FS_CardinalityType
    <2> QED BY <2>1 DEF FirstInode
<1>2. TypeOK
    BY <1>1, Marks DEF Init, TypeOK, Names
<1>3. HistoryTypes
    BY Marks DEF Init, HistoryTypes
<1>4. OneName
    BY DEF Init, OneName, Names
<1>5. inode["path"] = FirstInode /\ data[FirstInode] = Default /\ FirstInode # None
    BY <1>1, GateAssumption DEF Init, Names
<1>6. ThreadInv /\ AloneInv
    BY DEF Init, ThreadInv, AloneInv, Saving
<1>7. DiskInv
    BY <1>5, Marks DEF Init, DiskInv, PromotedIsOnDisk
<1>8. GateTripsForCause /\ AskedInv /\ HaltInv
    BY GateAssumption DEF Init, GateTripsForCause, AskedInv, HaltInv
<1> QED BY <1>2, <1>3, <1>4, <1>6, <1>7, <1>8 DEF IInv

-----------------------------------------------------------------------------
(* Every step keeps the invariant *)

\* A handler changes the state in memory and goes to the check of its save.
LEMMA StartCallIInv ==
    ASSUME IInv, NEW t \in Threads, NEW name \in {"engage", "release", "set"},
           NEW newState \in States, StartCall(t, name, newState),
           ordered' \in {None, "asked", "halt"},
           ordered' # None /\ (name = "engage" \/ \E u \in Threads \ {t} : pc[u] # "idle" /\ call[u] = "engage")
              => newState.halted,
           ordered' = "halt" => ordered = "halt" /\ (state.halted => newState.halted)
    PROVE  IInv'
<1> USE DEF IInv
<1>1. /\ pc[t] = "idle" /\ pc' = [pc EXCEPT ![t] = "check"] /\ call' = [call EXCEPT ![t] = name]
      /\ up /\ up' = up /\ state' = newState /\ inode' = inode /\ data' = data
      /\ anchorHash' = anchorHash /\ payload' = payload /\ handle' = handle /\ had' = had
      /\ promoted' = promoted /\ overlap' = overlap /\ drifted' = drifted /\ exposed' = exposed
      /\ tripped' = tripped /\ slipped' = slipped
    BY DEF StartCall, Goto, files, saveVars
<1>2. \A u \in Threads : pc'[u] = IF u = t THEN "check" ELSE pc[u]
    BY <1>1 DEF TypeOK
<1>3. TypeOK'
    BY <1>1 DEF TypeOK
<1>4. HistoryTypes'
    BY <1>1, <1>2 DEF HistoryTypes
<1>5. OneName'
    BY <1>1 DEF OneName
<1>6. ThreadInv'
    BY <1>1, <1>2 DEF ThreadInv, Saving
<1>7. AloneInv'
    BY <1>1, <1>2 DEF AloneInv
<1>8. DiskInv'
    BY <1>1, <1>2 DEF DiskInv, Undisturbed, PromotedIsOnDisk
<1>9. GateTripsForCause'
    BY <1>1 DEF GateTripsForCause
<1>10. AskedInv'
    <2> SUFFICES ASSUME ordered' # None, NEW u \in Threads, pc'[u] # "idle", call'[u] = "engage"
                 PROVE  newState.halted
        BY <1>1 DEF AskedInv
    <2> QED BY <1>1, <1>2 DEF TypeOK
<1>11. HaltInv'
    BY <1>1, <1>2 DEF HaltInv, Undisturbed
<1> QED BY <1>3, <1>4, <1>5, <1>6, <1>7, <1>8, <1>9, <1>10, <1>11

LEMMA HandlersIInv ==
    ASSUME IInv, NEW t \in Threads, EngageKillswitch(t) \/ ReleaseKillswitch(t) \/ SetMode(t)
    PROVE  IInv'
<1>0. state \in States /\ state.halted \in BOOLEAN /\ ordered \in {None, "asked", "halt"}
    BY DEF IInv, TypeOK, States, HistoryTypes
<1>1. CASE EngageKillswitch(t)
    <2>1. [state EXCEPT !.halted = TRUE] \in States /\ [state EXCEPT !.halted = TRUE].halted
        BY <1>0 DEF States
    <2> QED BY <1>0, <1>1, <2>1, StartCallIInv DEF EngageKillswitch
<1>2. CASE ReleaseKillswitch(t)
    <2>1. [state EXCEPT !.halted = FALSE] \in States
        BY <1>0 DEF States
    <2> QED BY <1>2, <2>1, GateAssumption, StartCallIInv DEF ReleaseKillswitch
<1>3. CASE SetMode(t)
    <2>1. PICK v \in Values : StartCall(t, "set", [state EXCEPT !.value = v])
        BY <1>3 DEF SetMode
    <2>2. /\ [state EXCEPT !.value = v] \in States
          /\ [state EXCEPT !.value = v].halted = state.halted
        BY <1>0 DEF States
    <2>3. ordered' = ordered
        BY <1>3 DEF SetMode
    <2>4. ordered # None /\ (\E u \in Threads : pc[u] # "idle" /\ call[u] = "engage") => state.halted
        BY DEF IInv, AskedInv
    <2> QED BY <1>0, <2>1, <2>2, <2>3, <2>4, StartCallIInv
<1> QED BY <1>1, <1>2, <1>3

\* The Gate: without overlap and drift it finds the anchor on disk.
LEMMA GateCheckIInv ==
    ASSUME IInv, NEW t \in Threads, GateCheck(t)
    PROVE  IInv'
<1> USE DEF IInv
<1>1. /\ pc[t] = "check" /\ up' = up /\ up /\ inode' = inode /\ data' = data /\ call' = call
      /\ anchorHash' = anchorHash /\ payload' = payload /\ handle' = handle /\ had' = had
      /\ promoted' = promoted /\ drifted' = drifted /\ exposed' = exposed /\ ordered' = ordered
      /\ overlap' = (overlap \/ \E u \in Threads \ {t} : Saving(u))
    BY DEF GateCheck, files, saveVars, ThreadInv
<1>o. /\ ~overlap' => ~overlap /\ \A u \in Threads \ {t} : ~Saving(u)
      /\ overlap' \in BOOLEAN
    BY <1>1 DEF HistoryTypes
<1>2. CASE /\ GateOpen /\ pc' = [pc EXCEPT ![t] = "open"] /\ state' = state
           /\ slipped' = [slipped EXCEPT ![t] = FALSE] /\ tripped' = tripped
    <2>0. \A u \in Threads : pc'[u] = IF u = t THEN "open" ELSE pc[u]
        BY <1>2 DEF TypeOK
    <2>1. TypeOK'
        BY <1>1, <1>2 DEF TypeOK
    <2>2. HistoryTypes' /\ OneName'
        BY <1>1, <1>o, <1>2, <2>0 DEF HistoryTypes, OneName
    <2>3. ThreadInv'
        BY <1>1, <1>o, <2>0 DEF ThreadInv, Saving
    <2>4. AloneInv'
        <3>1. inode["path"] # None /\ data[inode["path"]] = anchorHash
            BY <1>2 DEF GateOpen, PersistedHash, Readable
        <3>2. \A u \in Threads : u # t => slipped'[u] = slipped[u]
            BY <1>2 DEF HistoryTypes
        <3> QED BY <1>1, <1>o, <2>0, <3>1, <3>2 DEF AloneInv
    <2>5. DiskInv'
        BY <1>1, <1>o, <2>0 DEF DiskInv, Undisturbed, PromotedIsOnDisk
    <2>6. GateTripsForCause'
        BY <1>1, <1>o, <1>2 DEF GateTripsForCause
    <2>7. AskedInv'
        BY <1>1, <1>2, <2>0 DEF AskedInv
    <2>8. HaltInv'
        BY <1>1, <1>o, <1>2, <2>0 DEF HaltInv, Undisturbed
    <2> QED BY <2>1, <2>2, <2>3, <2>4, <2>5, <2>6, <2>7, <2>8
<1>3. CASE /\ ~GateOpen /\ pc' = [pc EXCEPT ![t] = "idle"] /\ slipped' = slipped
           /\ state' = [state EXCEPT !.halted = TRUE] /\ tripped' = TRUE
    <2>0. \A u \in Threads : pc'[u] = IF u = t THEN "idle" ELSE pc[u]
        BY <1>3 DEF TypeOK
    <2>s. state' \in States /\ state'.halted
        BY <1>3 DEF TypeOK, States
    <2>1. TypeOK'
        BY <1>1, <1>3, <2>s DEF TypeOK
    <2>2. HistoryTypes' /\ OneName'
        BY <1>1, <1>o, <1>3, <2>0 DEF HistoryTypes, OneName
    <2>3. ThreadInv'
        BY <1>1, <1>o, <2>0 DEF ThreadInv, Saving
    <2>4. AloneInv'
        BY <1>1, <1>o, <1>3, <2>0 DEF AloneInv
    <2>5. DiskInv'
        BY <1>1, <1>o, <2>0 DEF DiskInv, Undisturbed, PromotedIsOnDisk
    <2>6. GateTripsForCause'
        <3> SUFFICES ASSUME ~overlap', ~drifted PROVE FALSE
            BY <1>1, <1>o DEF GateTripsForCause, HistoryTypes
        <3>1. \A u \in Threads : pc[u] \notin {"promote", "anchor"}
            BY <1>1, <1>o DEF Saving
        <3>2. /\ inode["path"] # None /\ anchorHash = promoted /\ promoted \in States
              /\ data[inode["path"]] = promoted
            BY <1>1, <1>o, <3>1 DEF DiskInv, Undisturbed, PromotedIsOnDisk
        <3> QED BY <1>3, <3>2, Marks DEF GateOpen, PersistedHash, Readable
    <2>7. AskedInv'
        BY <2>s DEF AskedInv
    <2>8. HaltInv'
        BY <1>1, <1>o, <2>0, <2>s DEF HaltInv, Undisturbed
    <2> QED BY <2>1, <2>2, <2>3, <2>4, <2>5, <2>6, <2>7, <2>8
<1> QED BY <1>2, <1>3 DEF GateCheck, Goto

\* What history says is unchanged.
LEMMA HistorySame ==
    ASSUME UNCHANGED history
    PROVE  /\ promoted' = promoted /\ ordered' = ordered /\ overlap' = overlap
           /\ drifted' = drifted /\ exposed' = exposed /\ tripped' = tripped /\ slipped' = slipped
BY DEF history

\* The temporary file is opened: no other name is touched.
LEMMA OpenTempIInv ==
    ASSUME IInv, NEW t \in Threads, OpenTemp(t)
    PROVE  IInv'
<1> USE DEF IInv
<1> DEFINE i == IF inode["tmp"] # None THEN inode["tmp"] ELSE FreeInode
<1>1. /\ pc[t] = "open" /\ up' = up /\ state' = state /\ call' = call /\ anchorHash' = anchorHash
      /\ had' = had /\ payload' = [payload EXCEPT ![t] = state]
      /\ handle' = [handle EXCEPT ![t] = i] /\ inode' = [inode EXCEPT !["tmp"] = i]
      /\ data' = [data EXCEPT ![i] = Torn] /\ pc' = [pc EXCEPT ![t] = "write"]
      /\ UNCHANGED history
    BY DEF OpenTemp, Goto
<1>2. i \in Inodes /\ i # inode["path"] /\ i # inode["bak"]
    <2>1. CASE inode["tmp"] # None
        BY <2>1 DEF TypeOK, OneName, Names
    <2>2. CASE inode["tmp"] = None
        BY <2>2, FreeInodeExists DEF Names
    <2> QED BY <2>1, <2>2
<1> HIDE DEF i
<1>3. /\ \A u \in Threads : pc'[u] = IF u = t THEN "write" ELSE pc[u]
      /\ \A u \in Threads : payload'[u] = IF u = t THEN state ELSE payload[u]
      /\ \A u \in Threads : handle'[u] = IF u = t THEN i ELSE handle[u]
      /\ inode'["path"] = inode["path"] /\ inode'["bak"] = inode["bak"] /\ inode'["tmp"] = i
    BY <1>1 DEF TypeOK, Names
<1>4. /\ inode["path"] # None => data'[inode["path"]] = data[inode["path"]]
      /\ inode["bak"] # None => data'[inode["bak"]] = data[inode["bak"]]
    BY <1>1, <1>2 DEF TypeOK, Names
<1>5. TypeOK'
    BY <1>1, <1>2 DEF TypeOK, Names
<1>6. HistoryTypes'
    BY <1>1, <1>2, <1>3, HistorySame DEF HistoryTypes
<1>7. OneName'
    BY <1>2, <1>3 DEF OneName, Names
<1>8. ThreadInv'
    BY <1>1, <1>3, HistorySame DEF ThreadInv, Saving
<1>a. ~overlap => \A u \in Threads : u # t => ~Saving(u)
    BY <1>1 DEF ThreadInv, Saving
<1>9. AloneInv'
    BY <1>1, <1>3, <1>4, <1>a, HistorySame DEF AloneInv, Saving
<1>10. DiskInv'
    BY <1>1, <1>3, <1>4, <1>a, HistorySame DEF DiskInv, Undisturbed, PromotedIsOnDisk, Saving
<1>11. GateTripsForCause' /\ AskedInv'
    BY <1>1, <1>3, HistorySame DEF GateTripsForCause, AskedInv
<1>12. HaltInv'
    BY <1>1, <1>3, HistorySame DEF HaltInv, Undisturbed, ThreadInv
<1> QED BY <1>5, <1>6, <1>7, <1>8, <1>9, <1>10, <1>11, <1>12

\* The payload is written; of a save that is alone, to the temporary file.
LEMMA WriteTempIInv ==
    ASSUME IInv, NEW t \in Threads, WriteTemp(t)
    PROVE  IInv'
<1> USE DEF IInv
<1>1. /\ pc[t] = "write" /\ up' = up /\ state' = state /\ call' = call /\ anchorHash' = anchorHash
      /\ had' = had /\ payload' = payload /\ handle' = handle /\ inode' = inode
      /\ data' = [data EXCEPT ![handle[t]] = payload[t]] /\ pc' = [pc EXCEPT ![t] = "aside"]
      /\ UNCHANGED history
    BY DEF WriteTemp, Goto, saveVars
<1>2. handle[t] \in Inodes /\ payload[t] \in States
    BY <1>1 DEF HistoryTypes, TypeOK
<1>3. \A u \in Threads : pc'[u] = IF u = t THEN "aside" ELSE pc[u]
    BY <1>1 DEF TypeOK
<1>4. ~overlap =>
        /\ inode["path"] # None => data'[inode["path"]] = data[inode["path"]]
        /\ inode["bak"] # None => data'[inode["bak"]] = data[inode["bak"]]
        /\ inode["tmp"] # None /\ data'[inode["tmp"]] = payload[t]
    <2> SUFFICES ASSUME ~overlap
                 PROVE  /\ inode["path"] # None => data'[inode["path"]] = data[inode["path"]]
                        /\ inode["bak"] # None => data'[inode["bak"]] = data[inode["bak"]]
                        /\ inode["tmp"] # None /\ data'[inode["tmp"]] = payload[t]
        OBVIOUS
    <2>1. handle[t] = inode["tmp"] /\ inode["tmp"] # None
        BY <1>1, <1>2, GateAssumption DEF AloneInv
    <2>2. inode["path"] # inode["tmp"] /\ inode["bak"] # inode["tmp"]
        BY <2>1 DEF OneName, Names
    <2>3. data \in [Inodes -> States \cup {Torn}]
        BY DEF TypeOK
    <2>4. /\ inode["path"] # None => inode["path"] \in Inodes
          /\ inode["bak"] # None => inode["bak"] \in Inodes
        BY DEF TypeOK, Names
    <2> QED BY <1>1, <1>2, <2>1, <2>2, <2>3, <2>4
<1>5. TypeOK'
    BY <1>1, <1>2 DEF TypeOK
<1>6. HistoryTypes' /\ OneName'
    BY <1>1, <1>3, HistorySame DEF HistoryTypes, OneName
<1>8. ThreadInv'
    BY <1>1, <1>3, HistorySame DEF ThreadInv, Saving
<1>a. ~overlap => \A u \in Threads : u # t => ~Saving(u)
    BY <1>1 DEF ThreadInv, Saving
<1>9. AloneInv'
    BY <1>1, <1>3, <1>4, <1>a, HistorySame DEF AloneInv, Saving
<1>10. DiskInv'
    BY <1>1, <1>3, <1>4, <1>a, HistorySame DEF DiskInv, Undisturbed, PromotedIsOnDisk, Saving
<1>11. GateTripsForCause' /\ AskedInv'
    BY <1>1, <1>3, HistorySame DEF GateTripsForCause, AskedInv
<1>12. HaltInv'
    BY <1>1, <1>3, HistorySame DEF HaltInv, Undisturbed
<1> QED BY <1>5, <1>6, <1>8, <1>9, <1>10, <1>11, <1>12

\* The old file becomes the backup.
LEMMA MoveAsideIInv ==
    ASSUME IInv, NEW t \in Threads, MoveAside(t)
    PROVE  IInv'
<1> USE DEF IInv
<1>1. /\ pc[t] = "aside" /\ up' = up /\ state' = state /\ call' = call /\ anchorHash' = anchorHash
      /\ had' = [had EXCEPT ![t] = inode["path"] # None] /\ payload' = payload /\ handle' = handle
      /\ data' = data /\ pc' = [pc EXCEPT ![t] = "promote"]
      /\ UNCHANGED history
      /\ IF inode["path"] # None
         THEN inode' = [inode EXCEPT !["bak"] = inode["path"], !["path"] = None]
         ELSE inode' = inode
    BY DEF MoveAside, Goto, KeepBackup, Rename
<1>2. \A u \in Threads : pc'[u] = IF u = t THEN "promote" ELSE pc[u]
    BY <1>1 DEF TypeOK
<1>3. /\ inode["path"] # None => inode'["bak"] = inode["path"]
      /\ inode["path"] = None => inode'["bak"] = inode["bak"]
      /\ inode'["path"] = None /\ inode'["tmp"] = inode["tmp"]
    BY <1>1 DEF TypeOK, Names
<1>4. up /\ up'
    BY <1>1 DEF ThreadInv
<1>5. TypeOK'
    BY <1>1 DEF TypeOK, Names
<1>6. HistoryTypes'
    BY <1>1, <1>2, HistorySame DEF HistoryTypes
<1>7. OneName'
    BY <1>3 DEF OneName, Names
<1>8. ThreadInv'
    BY <1>1, <1>2, <1>4, HistorySame DEF ThreadInv, Saving
<1>a. ~overlap => \A u \in Threads : u # t => ~Saving(u)
    BY <1>1 DEF ThreadInv, Saving
<1>9. AloneInv'
    BY <1>1, <1>2, <1>a, HistorySame DEF AloneInv, Saving
<1>10. DiskInv'
    BY <1>1, <1>2, <1>3, <1>a, HistorySame DEF DiskInv, Undisturbed, PromotedIsOnDisk, Saving
<1>11. GateTripsForCause' /\ AskedInv'
    BY <1>1, <1>2, HistorySame DEF GateTripsForCause, AskedInv
<1>12. HaltInv'
    BY <1>1, <1>2, HistorySame DEF HaltInv, Undisturbed
<1> QED BY <1>5, <1>6, <1>7, <1>8, <1>9, <1>10, <1>11, <1>12

\* The temporary file is moved in.  When it is gone the save raises, which takes
\* another save.
LEMMA PromoteIInv ==
    ASSUME IInv, NEW t \in Threads, Promote(t)
    PROVE  IInv'
<1> USE DEF IInv
<1>1. /\ pc[t] = "promote" /\ up' = up /\ state' = state /\ call' = call /\ anchorHash' = anchorHash
      /\ had' = had /\ payload' = payload /\ handle' = handle /\ data' = data
      /\ ordered' = ordered /\ overlap' = overlap /\ drifted' = drifted /\ exposed' = exposed
      /\ tripped' = tripped /\ slipped' = slipped
    BY DEF Promote, saveVars
<1>u. up /\ up'
    BY <1>1 DEF ThreadInv
<1>a. ~overlap => \A u \in Threads : u # t => ~Saving(u)
    BY <1>1 DEF ThreadInv, Saving
<1>2. CASE /\ inode["tmp"] # None
           /\ inode' = [inode EXCEPT !["path"] = inode["tmp"], !["tmp"] = None]
           /\ promoted' = data[inode["tmp"]]
           /\ pc' = [pc EXCEPT ![t] = "anchor"]
    <2>1. \A u \in Threads : pc'[u] = IF u = t THEN "anchor" ELSE pc[u]
        BY <1>2 DEF TypeOK
    <2>2. /\ inode'["path"] = inode["tmp"] /\ inode'["bak"] = inode["bak"]
          /\ inode'["tmp"] = None /\ inode["tmp"] \in Inodes
        BY <1>2 DEF TypeOK, Names
    <2>3. TypeOK'
        BY <1>1, <1>2 DEF TypeOK, Names
    <2>4. HistoryTypes'
        BY <1>1, <1>2, <2>1, <2>2 DEF HistoryTypes, TypeOK
    <2>5. OneName'
        BY <2>2 DEF OneName, Names
    <2>6. ThreadInv'
        BY <1>1, <1>u, <2>1 DEF ThreadInv, Saving
    <2>7. AloneInv'
        BY <1>1, <1>a, <2>1 DEF AloneInv, Saving
    <2>8. DiskInv'
        <3> SUFFICES ASSUME Undisturbed PROVE DiskInv'
            BY <1>1 DEF DiskInv, Undisturbed
        <3>1. data[inode["tmp"]] = payload[t] /\ payload[t] \in States
            BY <1>1 DEF DiskInv, TypeOK
        <3>2. promoted' = payload[t] /\ promoted' \in States /\ data'[inode'["path"]] = promoted'
            BY <1>1, <1>2, <2>2, <3>1
        <3>3. \A u \in Threads : u # t => ~Saving(u)
            BY <1>a DEF Undisturbed
        <3>4. /\ pc'[t] = "anchor" /\ inode'["path"] # None
              /\ \A u \in Threads : /\ pc'[u] \notin {"aside", "promote"}
                                    /\ pc'[u] = "anchor" => u = t
            BY <1>2, <2>1, <2>2, <3>3 DEF Saving
        <3>5. PromotedIsOnDisk'
            BY <3>2, <3>4 DEF PromotedIsOnDisk
        <3> QED BY <1>1, <3>2, <3>4, <3>5 DEF DiskInv
    <2>9. GateTripsForCause' /\ AskedInv'
        BY <1>1, <2>1 DEF GateTripsForCause, AskedInv
    <2>10. HaltInv'
        <3> SUFFICES ASSUME ordered = "halt", Undisturbed, ~exposed PROVE HaltInv'
            BY <1>1 DEF HaltInv, Undisturbed
        <3>1. promoted' = payload[t] /\ payload[t].halted
            BY <1>1, <1>2 DEF DiskInv, HaltInv
        <3> QED BY <1>1, <2>1, <3>1 DEF HaltInv, Undisturbed
    <2> QED BY <2>3, <2>4, <2>5, <2>6, <2>7, <2>8, <2>9, <2>10
<1>3. CASE /\ inode["tmp"] = None
           /\ inode' = inode \/ (/\ inode["path"] = None
                               /\ inode' = [inode EXCEPT !["path"] = inode["bak"], !["bak"] = None])
           /\ promoted' = promoted
           /\ pc' = [pc EXCEPT ![t] = "idle"]
    <2>1. \A u \in Threads : pc'[u] = IF u = t THEN "idle" ELSE pc[u]
        BY <1>3 DEF TypeOK
    <2>2. ~Undisturbed
        BY <1>1, <1>3 DEF DiskInv
    <2>3. TypeOK'
        BY <1>1, <1>3 DEF TypeOK, Names
    <2>4. HistoryTypes'
        BY <1>1, <1>3, <2>1 DEF HistoryTypes
    <2>5. OneName'
        <3>1. CASE inode' = inode
            BY <3>1 DEF OneName
        <3>2. CASE inode' = [inode EXCEPT !["path"] = inode["bak"], !["bak"] = None]
            <4>1. /\ inode'["path"] = inode["bak"] /\ inode'["bak"] = None
                  /\ inode'["tmp"] = None
                BY <1>3, <3>2 DEF TypeOK, Names
            <4> QED BY <4>1 DEF OneName, Names
        <3> QED BY <1>3, <3>1, <3>2
    <2>6. ThreadInv'
        BY <1>1, <1>u, <2>1 DEF ThreadInv, Saving
    <2>7. AloneInv'
        BY <1>1, <1>a, <2>1 DEF AloneInv, Saving
    <2>8. DiskInv' /\ HaltInv'
        BY <1>1, <2>2 DEF DiskInv, HaltInv, Undisturbed
    <2>9. GateTripsForCause' /\ AskedInv'
        BY <1>1, <2>1 DEF GateTripsForCause, AskedInv
    <2> QED BY <2>3, <2>4, <2>5, <2>6, <2>7, <2>8, <2>9
<1> QED BY <1>2, <1>3 DEF Promote, Goto, Rename

\* The anchor follows the file; the order of an engage call is saved.
LEMMA SetAnchorIInv ==
    ASSUME IInv, NEW t \in Threads, SetAnchor(t)
    PROVE  IInv'
<1> USE DEF IInv
<1>1. /\ pc[t] = "anchor" /\ up' = up /\ state' = state /\ call' = call
      /\ anchorHash' = PersistedHash
      /\ had' = had /\ payload' = payload /\ handle' = handle /\ data' = data /\ inode' = inode
      /\ promoted' = promoted /\ overlap' = overlap /\ drifted' = drifted /\ exposed' = exposed
      /\ tripped' = tripped /\ slipped' = slipped
      /\ pc' = [pc EXCEPT ![t] = "idle"]
      /\ ordered' = IF ordered = "asked" /\ call[t] = "engage" /\ payload[t].halted
                    THEN "halt" ELSE ordered
    BY DEF SetAnchor, NewAnchor, Goto, files, saveVars
<1>2. \A u \in Threads : pc'[u] = IF u = t THEN "idle" ELSE pc[u]
    BY <1>1 DEF TypeOK
<1>a. ~overlap => \A u \in Threads : u # t => ~Saving(u)
    BY <1>1 DEF ThreadInv, Saving
<1>3. TypeOK'
    BY <1>1 DEF TypeOK, PersistedHash, Names
<1>4. HistoryTypes' /\ OneName'
    BY <1>1, <1>2 DEF HistoryTypes, OneName
<1>5. ThreadInv' /\ AloneInv'
    BY <1>1, <1>2, <1>a DEF ThreadInv, AloneInv, Saving
<1>6. DiskInv'
    BY <1>1, <1>2, <1>a DEF DiskInv, Undisturbed, PromotedIsOnDisk, PersistedHash, Saving
<1>7. GateTripsForCause'
    BY <1>1 DEF GateTripsForCause
<1>8. AskedInv'
    BY <1>1, <1>2, GateAssumption DEF AskedInv
<1>9. HaltInv'
    <2> SUFFICES ASSUME ordered' = "halt", Undisturbed, ~exposed PROVE HaltInv'
        BY <1>1 DEF HaltInv, Undisturbed
    <2>1. CASE ordered = "halt"
        BY <1>1, <1>2, <2>1 DEF HaltInv, Undisturbed
    <2>2. CASE ordered = "asked" /\ call[t] = "engage" /\ payload[t].halted
        <3>1. state.halted
            BY <1>1, <2>2, GateAssumption DEF AskedInv
        <3>2. promoted = payload[t]
            BY <1>1 DEF DiskInv
        <3>3. \A u \in Threads : pc'[u] \notin {"write", "aside", "promote", "anchor"}
            BY <1>2, <1>a DEF Undisturbed, Saving
        <3> QED BY <1>1, <2>2, <3>1, <3>2, <3>3 DEF HaltInv
    <2> QED BY <1>1, <2>1, <2>2
<1> QED BY <1>3, <1>4, <1>5, <1>6, <1>7, <1>8, <1>9

\* A crash leaves the files as they are.
LEMMA CrashIInv ==
    ASSUME IInv, Crash
    PROVE  IInv'
<1> USE DEF IInv
<1>1. /\ up /\ ~up' /\ state' = Default /\ call' = call /\ anchorHash' = None
      /\ had' = had /\ payload' = payload /\ handle' = handle /\ data' = data /\ inode' = inode
      /\ promoted' = promoted /\ overlap' = overlap /\ drifted' = drifted
      /\ tripped' = tripped /\ slipped' = slipped /\ ordered' = ordered
      /\ exposed' = (exposed \/ inode["path"] = None)
      /\ pc' = [u \in Threads |-> "idle"] /\ up' = FALSE
    BY DEF Crash, files, saveVars
<1>2. \A u \in Threads : pc'[u] = "idle"
    BY <1>1
<1>3. TypeOK'
    BY <1>1, Marks DEF TypeOK
<1>4. HistoryTypes' /\ OneName'
    BY <1>1, <1>2 DEF HistoryTypes, OneName
<1>5. ThreadInv' /\ AloneInv'
    BY <1>1, <1>2 DEF ThreadInv, AloneInv, Saving
<1>6. DiskInv'
    BY <1>1, <1>2 DEF DiskInv, Undisturbed, PromotedIsOnDisk
<1>7. GateTripsForCause' /\ AskedInv'
    BY <1>1, <1>2 DEF GateTripsForCause, AskedInv
<1>8. HaltInv'
    BY <1>1, <1>2 DEF HaltInv, Undisturbed, HistoryTypes
<1> QED BY <1>3, <1>4, <1>5, <1>6, <1>7, <1>8

\* A start loads the file, or makes one.
LEMMA RestartIInv ==
    ASSUME IInv, Restart
    PROVE  IInv'
<1> USE DEF IInv
<1>1. /\ ~up /\ up' = TRUE /\ state' = LoadState /\ call' = call
      /\ had' = had /\ payload' = payload /\ handle' = handle /\ pc' = pc
      /\ overlap' = overlap /\ drifted' = drifted /\ exposed' = exposed
      /\ tripped' = tripped /\ slipped' = slipped /\ ordered' = ordered
      /\ \A u \in Threads : pc[u] = "idle"
    BY DEF Restart, saveVars, ThreadInv
<1>2. ThreadInv' /\ AloneInv' /\ GateTripsForCause' /\ AskedInv'
    BY <1>1 DEF ThreadInv, AloneInv, GateTripsForCause, AskedInv, Saving
<1>3. CASE inode["path"] = None
    <2> DEFINE i == IF inode["tmp"] # None THEN inode["tmp"] ELSE FreeInode
    <2>1. /\ inode' = [inode EXCEPT !["path"] = i, !["tmp"] = None]
          /\ data' = [data EXCEPT ![i] = Default]
          /\ promoted' = Default /\ anchorHash' = Default
        BY <1>3 DEF Restart
    <2>2. i \in Inodes /\ i # inode["bak"]
        <3>1. CASE inode["tmp"] # None
            BY <3>1 DEF TypeOK, OneName, Names
        <3>2. CASE inode["tmp"] = None
            BY <3>2, FreeInodeExists DEF Names
        <3> QED BY <3>1, <3>2
    <2> HIDE DEF i
    <2>3. /\ inode'["path"] = i /\ inode'["bak"] = inode["bak"] /\ inode'["tmp"] = None
          /\ data'[i] = Default /\ i # None
        BY <2>1, <2>2, GateAssumption DEF TypeOK, Names
    <2>4. TypeOK'
        BY <1>1, <2>1, <2>2, LoadType, Marks DEF TypeOK, Names
    <2>5. HistoryTypes' /\ OneName'
        BY <1>1, <2>1, <2>2, <2>3, Marks DEF HistoryTypes, OneName, Names
    <2>6. DiskInv'
        BY <1>1, <2>1, <2>3, Marks DEF DiskInv, PromotedIsOnDisk
    <2>7. HaltInv'
        BY <1>1, <1>3 DEF HaltInv, ThreadInv
    <2> QED BY <1>2, <2>4, <2>5, <2>6, <2>7
<1>4. CASE inode["path"] # None
    <2>1. inode' = inode /\ data' = data /\ promoted' = promoted /\ anchorHash' = data[inode["path"]]
        BY <1>4 DEF Restart, PersistedHash
    <2>2. TypeOK'
        BY <1>1, <1>4, <2>1, LoadType DEF TypeOK, Names
    <2>3. HistoryTypes' /\ OneName'
        BY <1>1, <2>1 DEF HistoryTypes, OneName
    <2>4. DiskInv'
        BY <1>1, <1>4, <2>1 DEF DiskInv, Undisturbed, PromotedIsOnDisk
    <2>5. HaltInv'
        <3> SUFFICES ASSUME ordered = "halt", Undisturbed, ~exposed PROVE state'.halted
            BY <1>1, <2>1 DEF HaltInv, Undisturbed
        <3>1. data[inode["path"]] = promoted /\ promoted \in States /\ promoted.halted
            BY <1>4 DEF DiskInv, HaltInv, PromotedIsOnDisk, Undisturbed
        <3>2. Readable(PersistedHash) /\ PersistedHash = promoted
            BY <1>4, <3>1, Marks DEF PersistedHash, Readable
        <3>3. LoadState = promoted
            BY <1>4, <3>2 DEF LoadState
        <3> QED BY <1>1, <3>1, <3>3
    <2> QED BY <1>2, <2>2, <2>3, <2>4, <2>5
<1> QED BY <1>3, <1>4

\* Somebody else writes the file: what is said of undisturbed saves is off, and
\* every save under way may have missed it.
LEMMA DriftIInv ==
    ASSUME IInv, Drift
    PROVE  IInv'
<1> USE DEF IInv
<1>1. /\ up' = up /\ state' = state /\ call' = call /\ anchorHash' = anchorHash
      /\ had' = had /\ payload' = payload /\ handle' = handle /\ pc' = pc /\ inode' = inode
      /\ overlap' = overlap /\ drifted' = TRUE /\ exposed' = exposed /\ promoted' = promoted
      /\ tripped' = tripped /\ slipped' = [u \in Threads |-> TRUE] /\ ordered' = ordered
    BY DEF Drift, saveVars
<1>2. PICK c \in {[halted |-> FALSE, value |-> Foreign], Torn} :
        data' = [data EXCEPT ![inode["path"]] = c]
    BY DEF Drift
<1>3. TypeOK'
    <2>1. c \in States \cup {Torn}
        <3>1. [halted |-> FALSE, value |-> Foreign] \in States
            BY DEF States
        <3> QED BY <1>2, <3>1
    <2> QED BY <1>1, <1>2, <2>1 DEF TypeOK
<1>4. HistoryTypes' /\ OneName' /\ ThreadInv' /\ AloneInv'
    BY <1>1 DEF HistoryTypes, OneName, ThreadInv, AloneInv, Saving
<1>5. DiskInv' /\ HaltInv' /\ GateTripsForCause' /\ AskedInv'
    BY <1>1 DEF DiskInv, HaltInv, Undisturbed, GateTripsForCause, AskedInv
<1> QED BY <1>3, <1>4, <1>5

LEMMA NextIInv == IInv /\ [Next]_vars => IInv'
<1> SUFFICES ASSUME IInv, [Next]_vars PROVE IInv'
    OBVIOUS
<1>1. ASSUME NEW t \in Threads, Step(t) PROVE IInv'
    BY <1>1, HandlersIInv, GateCheckIInv, OpenTempIInv, WriteTempIInv, MoveAsideIInv,
       PromoteIInv, SetAnchorIInv DEF Step
<1>2. CASE UNCHANGED vars
    BY <1>2 DEF vars, files, saveVars, history, IInv, TypeOK, HistoryTypes, OneName, ThreadInv,
       AloneInv, DiskInv, Undisturbed, PromotedIsOnDisk, GateTripsForCause, AskedInv, HaltInv, Saving
<1> QED BY <1>1, <1>2, CrashIInv, RestartIInv, DriftIInv DEF Next

LEMMA Invariant == Spec => []IInv
BY InitIInv, NextIInv, PTL DEF Spec

-----------------------------------------------------------------------------
(* The theorems *)

\* The state in memory is always a state, whatever was on disk at the start.
THEOREM GateTypes == Spec => []TypeOK
<1>1. IInv => TypeOK
    BY DEF IInv
<1> QED BY <1>1, Invariant, PTL

\* save_state engages the kill switch only after overlapping saves or a foreign
\* change, never for what crashes and restarts leave behind.
THEOREM GateHasCause == Spec => []GateTripsForCause
<1>1. IInv => GateTripsForCause
    BY DEF IInv
<1> QED BY <1>1, Invariant, PTL

\* Between any two steps of saves that do not overlap, the file or, when it is
\* missing, its backup holds what was promoted last.
THEOREM PromotedSurvives == Spec => []PromotedIsOnDisk
<1>1. IInv => PromotedIsOnDisk
    BY DEF IInv, DiskInv, Undisturbed, PromotedIsOnDisk
<1> QED BY <1>1, Invariant, PTL

\* A halt whose save succeeded stays on through calls, crashes and restarts until
\* it is released, but for the three exceptions that HaltHolds names.
THEOREM SavedHaltHolds == Spec => []HaltHolds
<1>1. IInv => HaltHolds
    BY DEF IInv, HaltInv, Undisturbed, HaltHolds
<1> QED BY <1>1, Invariant, PTL

\* A save that is alone moves aside what the Gate checked, or a change made since.
THEOREM NoticedDrift == Spec => []DriftIsNoticed
<1>1. IInv => DriftIsNoticed
    BY DEF IInv, AloneInv, DriftIsNoticed, PersistedHash
<1> QED BY <1>1, Invariant, PTL
=============================================================================
