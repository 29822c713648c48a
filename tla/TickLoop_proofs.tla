---------------------------- MODULE TickLoop_proofs ----------------------------
(***************************************************************************)
(* Theorems about TickLoop, for any number of threads, calls, rejected     *)
(* saves and crashes: its types; execution_state is not left at "running"  *)
(* by a tick that ended; chains of ticks do not multiply; and "off"        *)
(* drains.  That ticks recur is a liveness property and is left to TLC.    *)
(***************************************************************************)
EXTENDS TickLoop, FiniteSetTheorems, TLAPS

Labels == {"idle", "request", "validate", "begin", "cycle", "commit", "finish"}

ExecStates == {"idle", "running", "commit", "blocked"}

Busy == {w \in Workers : pc[w] # "idle"}

Asks == {"request", "validate", "begin"}

Asking == {w \in Workers : Requesting(w)}

\* The timers that are armed.
Armed == timers + (IF resumeTimer THEN 1 ELSE 0)

-----------------------------------------------------------------------------
(***************************************************************************)
(* Counting workers.                                                       *)
(***************************************************************************)
LEMMA Counts ==
    ASSUME NEW S \in SUBSET Workers
    PROVE  Cardinality(S) \in Nat
BY TickAssumption, FS_Subset, FS_CardinalityType DEF TickAssumption

LEMMA Joins ==
    ASSUME NEW S \in SUBSET Workers, NEW w \in Workers \ S
    PROVE  Cardinality(S \cup {w}) = Cardinality(S) + 1
BY TickAssumption, FS_Subset, FS_AddElement DEF TickAssumption

LEMMA Leaves ==
    ASSUME NEW S \in SUBSET Workers, NEW w \in S
    PROVE  Cardinality(S \ {w}) = Cardinality(S) - 1
BY TickAssumption, FS_Subset, FS_RemoveElement DEF TickAssumption

\* What a move of one worker does to the number of busy workers.
LEMMA BusyMoves ==
    ASSUME pc \in [Workers -> Labels], NEW w \in Workers, NEW label \in Labels,
           pc' = [pc EXCEPT ![w] = label]
    PROVE  /\ Cardinality(Busy) \in Nat /\ Cardinality(Busy') \in Nat
           /\ pc[w] = "idle" /\ label # "idle" => Cardinality(Busy') = Cardinality(Busy) + 1
           /\ pc[w] # "idle" /\ label = "idle" => Cardinality(Busy') = Cardinality(Busy) - 1
           /\ (pc[w] = "idle") = (label = "idle") => Cardinality(Busy') = Cardinality(Busy)
<1>1. Busy \in SUBSET Workers /\ Busy' \in SUBSET Workers
  BY DEF Busy
<1>2. ASSUME pc[w] = "idle", label # "idle" PROVE Cardinality(Busy') = Cardinality(Busy) + 1
  <2>1. w \notin Busy /\ Busy' = Busy \cup {w}
    BY <1>2 DEF Busy
  <2> QED
    BY <1>1, <2>1, Joins
<1>3. ASSUME pc[w] # "idle", label = "idle" PROVE Cardinality(Busy') = Cardinality(Busy) - 1
  <2>1. w \in Busy /\ Busy' = Busy \ {w}
    BY <1>3 DEF Busy
  <2> QED
    BY <1>1, <2>1, Leaves
<1>4. ASSUME (pc[w] = "idle") = (label = "idle") PROVE Busy' = Busy
  BY <1>4 DEF Busy
<1> QED
  BY <1>1, <1>2, <1>3, <1>4, Counts

\* The same for the workers that request a tick.
LEMMA AskingMoves ==
    ASSUME pc \in [Workers -> Labels], NEW w \in Workers, NEW label \in Labels,
           pc' = [pc EXCEPT ![w] = label]
    PROVE  /\ pc[w] \notin Asks /\ label \in Asks
                => Cardinality(Asking') = Cardinality(Asking) + 1
           /\ pc[w] \in Asks /\ label \notin Asks
                => Cardinality(Asking') = Cardinality(Asking) - 1
           /\ pc[w] \in Asks /\ label \in Asks => Cardinality(Asking') = Cardinality(Asking)
           /\ pc[w] \notin Asks /\ label \notin Asks
                => Cardinality(Asking') = Cardinality(Asking)
<1>1. Asking \in SUBSET Workers /\ Asking' \in SUBSET Workers
  BY DEF Asking
<1>2. ASSUME pc[w] \notin Asks, label \in Asks
      PROVE  Cardinality(Asking') = Cardinality(Asking) + 1
  <2>1. w \notin Asking /\ Asking' = Asking \cup {w}
    BY <1>2 DEF Asking, Requesting, Asks
  <2> QED
    BY <1>1, <2>1, Joins
<1>3. ASSUME pc[w] \in Asks, label \notin Asks
      PROVE  Cardinality(Asking') = Cardinality(Asking) - 1
  <2>1. w \in Asking /\ Asking' = Asking \ {w}
    BY <1>3 DEF Asking, Requesting, Asks
  <2> QED
    BY <1>1, <2>1, Leaves
<1>4. ASSUME pc[w] \in Asks, label \in Asks PROVE Asking' = Asking
  BY <1>4 DEF Asking, Requesting, Asks
<1>5. ASSUME pc[w] \notin Asks, label \notin Asks PROVE Asking' = Asking
  BY <1>5 DEF Asking, Requesting, Asks
<1> QED
  BY <1>2, <1>3, <1>4, <1>5

-----------------------------------------------------------------------------
(***************************************************************************)
(* Types.                                                                  *)
(***************************************************************************)
LEMMA PendingType ==
    ASSUME TypeOK PROVE Pending \in Nat
BY Counts DEF TypeOK, Pending

\* The types in two parts, for two provers.
Flags ==
    /\ killswitch \in BOOLEAN /\ planMode \in BOOLEAN /\ autonomous \in BOOLEAN
    /\ timedReady \in BOOLEAN /\ resumeTimer \in BOOLEAN
    /\ orphaned \in BOOLEAN /\ steady \in BOOLEAN /\ quiet \in BOOLEAN

Values ==
    /\ tickMode \in Modes
    /\ executionState \in ExecStates
    /\ saved \in [mode : Modes, exec : ExecStates]
    /\ timers \in Nat
    /\ pc \in [Workers -> Labels]
    /\ chains \in Nat /\ allowance \in Nat /\ afterOff \in Nat

LEMMA Parts == TypeOK <=> Flags /\ Values
BY Zenon DEF TypeOK, Flags, Values, ExecStates, Labels

LEMMA TypeInit == Init => TypeOK
<1> SUFFICES ASSUME Init PROVE TypeOK
  OBVIOUS
<1>1. Flags
  BY Zenon DEF Init, Flags
<1>2. Values
  BY DEF Init, Values, Modes, ExecStates, Labels
<1> QED
  BY <1>1, <1>2, Parts

LEMMA FlagStep == TypeOK /\ [Next]_vars => Flags'
<1> SUFFICES ASSUME Flags, [Next]_vars PROVE Flags'
  BY Parts
<1> USE DEF Flags
<1>1. CASE UNCHANGED vars
  BY <1>1, Zenon DEF vars, history, timerVars, control, bounds
<1>2. ASSUME NEW w \in Workers, NEW mode \in Modes, SetTickMode(w, mode) PROVE Flags'
  BY <1>2, Zenon DEF SetTickMode, Saved, Rejected, timerVars
<1>3. CASE ChangeControl
  BY <1>3, Zenon DEF ChangeControl, timerVars
<1>4. CASE CrashRestart
  BY <1>4, Zenon DEF CrashRestart, control
<1>5. ASSUME NEW w \in Workers, Proceed(w) PROVE Flags'
  <2>1. CASE LatchFires(w) \/ ResumeFires(w) \/ Request(w)
    BY <2>1, Zenon DEF LatchFires, ResumeFires, Request, control, bounds, history, timerVars
  <2>2. CASE Validate(w)
    BY <2>2, Zenon DEF Validate, Saved, Rejected
  <2>3. CASE Begin(w)
    BY <2>3, Zenon DEF Begin, Saved, Rejected, timerVars
  <2>4. CASE CycleEnds(w)
    BY <2>4, Zenon DEF CycleEnds, Saved, Rejected, timerVars
  <2>5. CASE Commit(w)
    BY <2>5, Zenon DEF Commit, control, timerVars
  <2>6. CASE Finish(w)
    BY <2>6, Zenon DEF Finish, Saved, Rejected
  <2> QED
    BY <1>5, <2>1, <2>2, <2>3, <2>4, <2>5, <2>6 DEF Proceed
<1> QED
  BY <1>1, <1>2, <1>3, <1>4, <1>5 DEF Next

LEMMA ValueStep == TypeOK /\ [Next]_vars => Values'
<1> SUFFICES ASSUME TypeOK, Values, [Next]_vars PROVE Values'
  BY Parts
<1> USE DEF Values, Modes, ExecStates, Labels
<1>1. CASE UNCHANGED vars
  BY <1>1 DEF vars, history, timerVars
<1>2. ASSUME NEW w \in Workers, NEW mode \in Modes, SetTickMode(w, mode) PROVE Values'
  <2>1. Pending \in Nat
    BY PendingType
  <2>2. /\ tickMode' = mode /\ executionState' = ExecAfter(mode) /\ allowance' = Pending
        /\ afterOff' = 0 /\ timers' = timers /\ chains' \in {chains, chains + 1}
        /\ pc' = pc \/ pc' = [pc EXCEPT ![w] = "request"]
        /\ saved' = saved \/ saved' = [mode |-> mode, exec |-> ExecAfter(mode)]
    BY <1>2 DEF SetTickMode, Saved, Rejected, Goto, timerVars
  <2>3. ExecAfter(mode) \in ExecStates
    BY DEF ExecAfter
  <2>4. pc' \in [Workers -> Labels]
    <3>1. CASE pc' = pc
      BY <3>1
    <3>2. CASE pc' = [pc EXCEPT ![w] = "request"]
      BY <3>2
    <3> QED
      BY <2>2, <3>1, <3>2
  <2>5. saved' \in [mode : Modes, exec : ExecStates]
    BY <2>2, <2>3
  <2> QED
    BY <2>1, <2>2, <2>3, <2>4, <2>5
<1>3. CASE ChangeControl
  BY <1>3 DEF ChangeControl, timerVars
<1>4. CASE CrashRestart
  BY <1>4 DEF CrashRestart
<1>5. ASSUME NEW w \in Workers, Proceed(w) PROVE Values'
  <2>1. CASE LatchFires(w)
    BY <2>1 DEF LatchFires, Goto, history
  <2>2. CASE ResumeFires(w)
    BY <2>2 DEF ResumeFires, Goto, history
  <2>3. CASE Request(w)
    BY <2>3 DEF Request, Goto, history, timerVars
  <2>4. CASE Validate(w)
    BY <2>4 DEF Validate, Saved, Rejected, Goto
  <2>5. CASE Begin(w)
    BY <2>5 DEF Begin, Saved, Rejected, Goto, timerVars
  <2>6. CASE CycleEnds(w)
    BY <2>6 DEF CycleEnds, Saved, Rejected, Goto, timerVars
  <2>7. CASE Commit(w)
    BY <2>7 DEF Commit, Goto, timerVars
  <2>8. CASE Finish(w)
    BY <2>8 DEF Finish, Continue, Saved, Rejected, Goto
  <2> QED
    BY <1>5, <2>1, <2>2, <2>3, <2>4, <2>5, <2>6, <2>7, <2>8 DEF Proceed
<1> QED
  BY <1>1, <1>2, <1>3, <1>4, <1>5 DEF Next

LEMMA TypeStep == TypeOK /\ [Next]_vars => TypeOK'
<1>1. TypeOK' <=> Flags' /\ Values'
  BY Parts, PTL
<1> QED
  BY <1>1, FlagStep, ValueStep

\* The variables keep their types; in particular a timer that fires was armed.
THEOREM TypeCorrect == Spec => []TypeOK
BY TypeInit, TypeStep, PTL DEF Spec

-----------------------------------------------------------------------------
(***************************************************************************)
(* "running" belongs to a live tick.                                       *)
(***************************************************************************)

\* A step that leaves the execution state and takes no worker out of its cycle.
LEMMA LiveKept ==
    ASSUME RunningIsLive, executionState' = executionState, orphaned' = orphaned,
           \A w \in Workers : pc[w] = "cycle" => pc'[w] = "cycle"
    PROVE  RunningIsLive'
BY DEF RunningIsLive

LEMMA LiveStep == TypeOK /\ RunningIsLive /\ [Next]_vars => RunningIsLive'
<1> SUFFICES ASSUME TypeOK, RunningIsLive, [Next]_vars PROVE RunningIsLive'
  OBVIOUS
<1>0. pc \in [Workers -> Labels] /\ orphaned \in BOOLEAN
  BY Zenon DEF TypeOK, Labels
<1>1. CASE UNCHANGED vars
  BY <1>1, LiveKept DEF vars, history
<1>2. ASSUME NEW w \in Workers, NEW mode \in Modes, SetTickMode(w, mode)
      PROVE  RunningIsLive'
  <2>1. CASE mode = "off"
    BY <1>2, <2>1 DEF SetTickMode, ExecAfter, RunningIsLive
  <2>2. CASE mode # "off"
    <3>1. executionState' = executionState
      BY <1>2, <2>2 DEF SetTickMode, ExecAfter
    <3>2. orphaned' = orphaned
      BY <1>0, <1>2, <2>2, Zenon DEF SetTickMode
    <3>3. \A v \in Workers : pc[v] = "cycle" => pc'[v] = "cycle"
      BY <1>0, <1>2 DEF SetTickMode, Goto
    <3> QED
      BY <3>1, <3>2, <3>3, LiveKept
  <2> QED
    BY <2>1, <2>2
<1>3. CASE ChangeControl
  BY <1>3, LiveKept DEF ChangeControl
<1>4. CASE CrashRestart
  BY <1>4 DEF CrashRestart, RunningIsLive
<1>5. ASSUME NEW w \in Workers, Proceed(w) PROVE RunningIsLive'
  <2>1. CASE LatchFires(w) \/ ResumeFires(w) \/ Request(w) \/ Validate(w)
    <3>1. /\ UNCHANGED <<executionState, orphaned>>
          /\ \E label \in Labels : pc' = [pc EXCEPT ![w] = label]
          /\ pc[w] # "cycle"
      BY <2>1 DEF LatchFires, ResumeFires, Request, Validate, Goto, history, Labels
    <3> QED
      BY <1>0, <3>1, LiveKept
  <2>2. CASE Begin(w)
    <3>1. CASE pc' = [pc EXCEPT ![w] = "cycle"]
      BY <1>0, <3>1 DEF RunningIsLive
    <3>2. CASE orphaned' = TRUE
      BY <3>2 DEF RunningIsLive
    <3> QED
      BY <2>2, <3>1, <3>2 DEF Begin, Goto
  <2>3. CASE CycleEnds(w) \/ Commit(w)
    BY <2>3 DEF CycleEnds, Commit, RunningIsLive
  <2>4. CASE Finish(w)
    <3>1. /\ UNCHANGED <<executionState, orphaned>>
          /\ \E label \in Labels : pc' = [pc EXCEPT ![w] = label]
          /\ pc[w] # "cycle"
      BY <2>4 DEF Finish, Continue, Goto, Labels
    <3> QED
      BY <1>0, <3>1, LiveKept
  <2> QED
    BY <1>5, <2>1, <2>2, <2>3, <2>4 DEF Proceed
<1> QED
  BY <1>1, <1>2, <1>3, <1>4, <1>5 DEF Next

\* _autonomous_tick: unless the thread that set it died, "running" is the state of
\* a tick in its cycle, so that no request is turned away for nothing.
THEOREM RunningTicksAreLive == Spec => []RunningIsLive
<1>1. Init => RunningIsLive
  BY DEF Init, RunningIsLive
<1> QED
  BY <1>1, TypeCorrect, LiveStep, PTL DEF Spec

-----------------------------------------------------------------------------
(***************************************************************************)
(* Chains do not multiply.                                                 *)
(***************************************************************************)

LEMMA ArmedType == timers \in Nat => Armed \in Nat
BY DEF Armed

LEMMA ArmedNext == (timers \in Nat)' => (Armed \in Nat)'
BY ArmedType, PTL

LEMMA ArmedKept ==
    ASSUME timers \in Nat, resumeTimer' = resumeTimer
    PROVE  /\ timers' = timers => Armed' = Armed
           /\ timers' = timers + 1 => Armed' = Armed + 1
<1>1. CASE resumeTimer
  BY <1>1 DEF Armed
<1>2. CASE ~resumeTimer
  BY <1>2 DEF Armed
<1> QED
  BY <1>1, <1>2

\* What a step must balance: timers, workers and chains.
LEMMA ChainsKept ==
    ASSUME ChainsDoNotMultiply, Armed \in Nat, Armed' \in Nat,
           chains \in Nat, chains' \in Nat,
           Armed' + Cardinality(Busy') + chains <= Armed + Cardinality(Busy) + chains'
    PROVE  ChainsDoNotMultiply'
<1>1. Cardinality(Busy) \in Nat /\ Cardinality(Busy') \in Nat
  <2>1. Busy \in SUBSET Workers /\ Busy' \in SUBSET Workers
    BY DEF Busy
  <2> QED
    BY <2>1, Counts
<1>2. Armed + Cardinality(Busy) <= chains
  BY DEF ChainsDoNotMultiply, Armed, Busy
<1>3. Armed' + Cardinality(Busy') <= chains'
  BY <1>1, <1>2
<1> QED
  BY <1>3 DEF ChainsDoNotMultiply, Armed, Busy

LEMMA ChainStep ==
    TypeOK /\ TypeOK' /\ ChainsDoNotMultiply /\ [Next]_vars => ChainsDoNotMultiply'
<1> SUFFICES ASSUME TypeOK, TypeOK', ChainsDoNotMultiply, [Next]_vars
             PROVE  ChainsDoNotMultiply'
  OBVIOUS
<1>a. /\ pc \in [Workers -> Labels] /\ timers \in Nat /\ chains \in Nat
      /\ timers' \in Nat /\ chains' \in Nat
  BY DEF TypeOK, Labels
<1>b. Armed \in Nat
  BY <1>a, ArmedType
<1>c. Armed' \in Nat
  BY <1>a, ArmedNext
<1>d. Cardinality(Busy) \in Nat
  <2>1. Busy \in SUBSET Workers
    BY DEF Busy
  <2> QED
    BY <2>1, Counts
<1>1. CASE UNCHANGED <<pc, timers, resumeTimer, chains>>
  BY <1>1 DEF ChainsDoNotMultiply
<1>2. ASSUME NEW w \in Workers, NEW mode \in Modes, SetTickMode(w, mode)
      PROVE  ChainsDoNotMultiply'
  <2>1. pc[w] = "idle" /\ UNCHANGED <<timers, resumeTimer>> /\ Armed' = Armed
    BY <1>2 DEF SetTickMode, timerVars, Armed
  <2>2. CASE pc' = [pc EXCEPT ![w] = "request"] /\ chains' = chains + 1
    <3>1. Cardinality(Busy') = Cardinality(Busy) + 1
      BY <1>a, <2>1, <2>2, BusyMoves DEF Labels
    <3> QED
      BY <1>a, <1>b, <1>d, <2>1, <2>2, <3>1, ChainsKept
  <2>3. CASE UNCHANGED <<pc, chains>>
    BY <1>1, <2>1, <2>3
  <2> QED
    BY <1>2, <2>2, <2>3 DEF SetTickMode, Goto
<1>3. CASE ChangeControl
  BY <1>1, <1>3 DEF ChangeControl, timerVars
<1>4. CASE CrashRestart
  <2>1. Busy' = {}
    BY <1>4 DEF CrashRestart, Busy
  <2>2. chains' = Armed'
    BY <1>4 DEF CrashRestart, Armed
  <2>3. Armed' + Cardinality(Busy') <= chains'
    BY <1>a, <2>1, <2>2, FS_EmptySet
  <2> QED
    BY <2>3 DEF ChainsDoNotMultiply, Armed, Busy
<1>5. ASSUME NEW w \in Workers, Proceed(w) PROVE ChainsDoNotMultiply'
  <2>1. CASE LatchFires(w) \/ ResumeFires(w)
    <3>1. /\ pc[w] = "idle" /\ pc' = [pc EXCEPT ![w] = "request"]
          /\ chains' = chains
      BY <2>1 DEF LatchFires, ResumeFires, Goto, history
    <3>2. Armed' = Armed - 1
      <4>1. CASE LatchFires(w)
        BY <1>a, <4>1 DEF LatchFires, Armed
      <4>2. CASE ResumeFires(w)
        BY <1>a, <4>2 DEF ResumeFires, Armed
      <4> QED
        BY <2>1, <4>1, <4>2
    <3>3. Cardinality(Busy') = Cardinality(Busy) + 1
      BY <1>a, <3>1, BusyMoves DEF Labels
    <3> QED
      BY <1>a, <1>b, <1>c, <1>d, <3>1, <3>2, <3>3, ChainsKept
  <2>2. CASE Request(w) \/ Begin(w) \/ CycleEnds(w) \/ Commit(w)
    <3>1. /\ pc[w] # "idle" /\ \E label \in Labels : pc' = [pc EXCEPT ![w] = label]
          /\ chains' = chains
      BY <2>2 DEF Request, Begin, CycleEnds, Commit, Goto, history, Labels
    <3>2. Armed' = Armed
      BY <2>2 DEF Request, Begin, CycleEnds, Commit, timerVars, Armed
    <3>3. Cardinality(Busy') \in {Cardinality(Busy), Cardinality(Busy) - 1}
      BY <1>a, <3>1, BusyMoves
    <3> QED
      BY <1>a, <1>b, <1>d, <3>1, <3>2, <3>3, ChainsKept
  <2>3. CASE Validate(w) \/ Finish(w)
    <3>1. pc[w] # "idle" /\ chains' = chains
      BY <2>3 DEF Validate, Finish
    <3>2. \/ /\ \E label \in {"begin", "request", "idle"} : pc' = [pc EXCEPT ![w] = label]
             /\ Armed' = Armed
          \/ pc' = [pc EXCEPT ![w] = "idle"] /\ Armed' = Armed + 1
      <4>1. \/ /\ \E label \in {"begin", "request", "idle"} : pc' = [pc EXCEPT ![w] = label]
               /\ timers' = timers
            \/ pc' = [pc EXCEPT ![w] = "idle"] /\ timers' = timers + 1
        <5>1. CASE Validate(w)
          BY <5>1 DEF Validate, Goto
        <5>2. CASE Finish(w)
          BY <5>2 DEF Finish, Continue, Goto
        <5> QED
          BY <2>3, <5>1, <5>2
      <4>2. resumeTimer' = resumeTimer
        BY <2>3 DEF Validate, Finish
      <4>3. /\ timers' = timers => Armed' = Armed
            /\ timers' = timers + 1 => Armed' = Armed + 1
        BY <1>a, <4>2, ArmedKept
      <4>4. CASE /\ \E label \in {"begin", "request", "idle"} : pc' = [pc EXCEPT ![w] = label]
                 /\ timers' = timers
        BY <4>3, <4>4
      <4>5. CASE pc' = [pc EXCEPT ![w] = "idle"] /\ timers' = timers + 1
        BY <4>3, <4>5
      <4> QED
        BY <4>1, <4>4, <4>5
    <3>3. CASE pc' = [pc EXCEPT ![w] = "idle"] /\ Armed' = Armed + 1
      <4>1. Cardinality(Busy') = Cardinality(Busy) - 1
        BY <1>a, <3>1, <3>3, BusyMoves DEF Labels
      <4> QED
        BY <1>a, <1>b, <1>c, <1>d, <3>1, <3>3, <4>1, ChainsKept
    <3>4. CASE /\ \E label \in {"begin", "request", "idle"} : pc' = [pc EXCEPT ![w] = label]
               /\ Armed' = Armed
      <4>1. Cardinality(Busy') \in {Cardinality(Busy), Cardinality(Busy) - 1}
        BY <1>a, <3>1, <3>4, BusyMoves DEF Labels
      <4> QED
        BY <1>a, <1>b, <1>d, <3>1, <3>4, <4>1, ChainsKept
    <3> QED
      BY <3>2, <3>3, <3>4
  <2> QED
    BY <1>5, <2>1, <2>2, <2>3 DEF Proceed
<1> QED
  BY <1>1, <1>2, <1>3, <1>4, <1>5 DEF Next, vars, history, timerVars

\* _request_tick and _autonomous_tick: ticks, requests and armed timers are never
\* more than the chains that were begun, for any number of threads and calls.
THEOREM ChainsAreBounded == Spec => []ChainsDoNotMultiply
<1>1. Init => ChainsDoNotMultiply
  <2> SUFFICES ASSUME Init PROVE ChainsDoNotMultiply
    OBVIOUS
  <2>1. {w \in Workers : pc[w] # "idle"} = {}
    BY DEF Init
  <2>2. timers = 0 /\ resumeTimer = FALSE /\ chains = 0
    BY DEF Init
  <2> QED
    BY <2>1, <2>2, FS_EmptySet DEF ChainsDoNotMultiply
<1> QED
  BY <1>1, TypeCorrect, ChainStep, PTL DEF Spec

-----------------------------------------------------------------------------
(***************************************************************************)
(* "off" drains.  Once the mode was set to "off" nothing but another call  *)
(* sets it to anything else, so no tick that ends has a successor and no   *)
(* blocked request arms a timer.                                           *)
(***************************************************************************)
QuietIsOff == quiet => tickMode = "off"

LEMMA QuietStep == TypeOK /\ QuietIsOff /\ [Next]_vars => QuietIsOff'
<1> SUFFICES ASSUME TypeOK, QuietIsOff, [Next]_vars PROVE QuietIsOff'
  OBVIOUS
<1> USE DEF QuietIsOff
<1>1. CASE UNCHANGED vars
  BY <1>1 DEF vars, history
<1>2. ASSUME NEW w \in Workers, NEW mode \in Modes, SetTickMode(w, mode) PROVE QuietIsOff'
  BY <1>2 DEF SetTickMode
<1>3. CASE ChangeControl
  BY <1>3 DEF ChangeControl
<1>4. CASE CrashRestart
  BY <1>4 DEF CrashRestart
<1>5. ASSUME NEW w \in Workers, Proceed(w) PROVE QuietIsOff'
  <2>1. CASE LatchFires(w) \/ ResumeFires(w) \/ Request(w) \/ Commit(w)
    BY <2>1 DEF LatchFires, ResumeFires, Request, Commit, history
  <2>2. CASE Validate(w) \/ Begin(w) \/ CycleEnds(w)
    BY <2>2 DEF Validate, Begin, CycleEnds
  <2>3. CASE Finish(w)
    BY <2>3 DEF Finish, Continue
  <2> QED
    BY <1>5, <2>1, <2>2, <2>3 DEF Proceed
<1> QED
  BY <1>1, <1>2, <1>3, <1>4, <1>5 DEF Next

LEMMA PendingCounts == Pending = Armed + Cardinality(Asking)
BY DEF Pending, Armed, Asking

LEMMA PendingCountsNext == Pending' = Armed' + Cardinality(Asking')
BY DEF Pending, Armed, Asking

\* What a step must balance while the mode is "off": ticks begun and requests.
LEMMA OffKept ==
    ASSUME OffDrains, quiet = TRUE, Pending \in Nat, Pending' \in Nat,
           afterOff \in Nat, afterOff' \in Nat, allowance \in Nat, allowance' = allowance,
           \/ afterOff' = afterOff /\ Pending' <= Pending
           \/ afterOff' = afterOff + 1 /\ Pending' + 1 = Pending
    PROVE  OffDrains'
<1>1. afterOff + Pending <= allowance
  BY DEF OffDrains
<1>2. CASE afterOff' = afterOff /\ Pending' <= Pending
  <2>1. \A a, b, c, e \in Nat : a + b <= c /\ e <= b => a + e <= c
    OBVIOUS
  <2>2. afterOff + Pending' <= allowance
    BY <1>1, <1>2, <2>1
  <2> QED
    BY <1>2, <2>2 DEF OffDrains
<1>3. CASE afterOff' = afterOff + 1 /\ Pending' + 1 = Pending
  <2>1. \A a, b, c, d, e \in Nat : a + b <= c /\ d = a + 1 /\ e + 1 = b => d + e <= c
    OBVIOUS
  <2>2. afterOff' + Pending' <= allowance
    BY <1>1, <1>3, <2>1
  <2> QED
    BY <2>2 DEF OffDrains
<1> QED
  BY <1>2, <1>3

LEMMA OffStep ==
    TypeOK /\ TypeOK' /\ QuietIsOff /\ OffDrains /\ [Next]_vars => OffDrains'
<1> SUFFICES ASSUME TypeOK, TypeOK', QuietIsOff, OffDrains, [Next]_vars
             PROVE  OffDrains'
  OBVIOUS
<1>a. /\ pc \in [Workers -> Labels] /\ timers \in Nat /\ timers' \in Nat
      /\ afterOff \in Nat /\ afterOff' \in Nat /\ allowance \in Nat /\ allowance' \in Nat
  BY DEF TypeOK, Labels
<1>b. Armed \in Nat
  BY <1>a, ArmedType
<1>c. Armed' \in Nat
  BY <1>a, ArmedNext
<1>d. Cardinality(Asking) \in Nat /\ Cardinality(Asking') \in Nat
  <2>1. Asking \in SUBSET Workers /\ Asking' \in SUBSET Workers
    BY DEF Asking
  <2> QED
    BY <2>1, Counts
<1>e. Pending \in Nat /\ Pending' \in Nat
  BY <1>b, <1>c, <1>d, PendingCounts, PendingCountsNext
<1>1. CASE UNCHANGED <<pc, timers, resumeTimer, quiet, afterOff, allowance>>
  BY <1>1 DEF OffDrains, Pending, Requesting
<1>2. ASSUME NEW w \in Workers, NEW mode \in Modes, SetTickMode(w, mode)
      PROVE  OffDrains'
  <2>1. CASE mode # "off"
    BY <1>2, <2>1 DEF SetTickMode, OffDrains
  <2>2. CASE mode = "off"
    <3>1. allowance' = Pending /\ afterOff' = 0 /\ UNCHANGED <<pc, timers, resumeTimer>>
      BY <1>2, <2>2 DEF SetTickMode, timerVars
    <3>2. Pending' = Pending
      BY <3>1 DEF Pending, Requesting
    <3> QED
      BY <1>e, <3>1, <3>2 DEF OffDrains
  <2> QED
    BY <2>1, <2>2
<1>3. CASE ChangeControl
  BY <1>1, <1>3 DEF ChangeControl, timerVars
<1>4. CASE CrashRestart
  <2>1. Asking' = {}
    BY <1>4 DEF CrashRestart, Asking, Requesting
  <2>2. Armed' = allowance' /\ afterOff' = 0
    BY <1>4 DEF CrashRestart, Armed
  <2>3. afterOff' + Pending' <= allowance'
    BY <1>c, <2>1, <2>2, FS_EmptySet, PendingCountsNext
  <2> QED
    BY <2>3 DEF OffDrains
<1>5. ASSUME NEW w \in Workers, Proceed(w) PROVE OffDrains'
  <2>a. quiet' = quiet
    BY <1>5 DEF Proceed, LatchFires, ResumeFires, Request, Validate, Begin, CycleEnds,
                Commit, Finish, history
  <2>b. CASE quiet = FALSE
    BY <2>a, <2>b DEF OffDrains
  <2>q. quiet \in BOOLEAN
    BY Zenon DEF TypeOK
  <2> SUFFICES ASSUME quiet = TRUE PROVE OffDrains'
    BY <2>b, <2>q
  <2>c. tickMode = "off"
    BY DEF QuietIsOff
  <2>1. CASE LatchFires(w) \/ ResumeFires(w)
    <3>1. /\ pc[w] = "idle" /\ pc' = [pc EXCEPT ![w] = "request"]
          /\ UNCHANGED <<afterOff, allowance>>
      BY <2>1 DEF LatchFires, ResumeFires, Goto, history
    <3>2. Armed' = Armed - 1
      <4>1. CASE LatchFires(w)
        BY <1>a, <4>1 DEF LatchFires, Armed
      <4>2. CASE ResumeFires(w)
        BY <1>a, <4>2 DEF ResumeFires, Armed
      <4> QED
        BY <2>1, <4>1, <4>2
    <3>3. Cardinality(Asking') = Cardinality(Asking) + 1
      BY <1>a, <3>1, AskingMoves DEF Labels, Asks
    <3>4. Pending' = Pending
      BY <1>b, <1>d, <3>2, <3>3, PendingCounts, PendingCountsNext
    <3> QED
      BY <1>a, <1>e, <3>1, <3>4, OffKept
  <2>2. CASE Request(w)
    <3>1. /\ pc[w] = "request"
          /\ \E label \in {"idle", "validate"} : pc' = [pc EXCEPT ![w] = label]
          /\ UNCHANGED <<afterOff, allowance>>
      BY <2>2 DEF Request, Goto, history
    <3>2. Armed' = Armed
      BY <2>2 DEF Request, timerVars, Armed
    <3>3. Cardinality(Asking') \in {Cardinality(Asking), Cardinality(Asking) - 1}
      BY <1>a, <3>1, AskingMoves DEF Labels, Asks
    <3>4. Pending' <= Pending
      BY <1>b, <1>d, <3>2, <3>3, PendingCounts, PendingCountsNext
    <3> QED
      BY <1>a, <1>e, <3>1, <3>4, OffKept
  <2>3. CASE Validate(w)
    <3>1. /\ pc[w] = "validate"
          /\ \E label \in {"idle", "begin"} : pc' = [pc EXCEPT ![w] = label]
          /\ UNCHANGED <<afterOff, allowance, resumeTimer>>
      BY <2>3 DEF Validate, Goto
    <3>2. Armed' = Armed
      <4>1. timers' = timers
        BY <2>3, <2>c DEF Validate, Rearms
      <4> QED
        BY <1>a, <3>1, <4>1, ArmedKept
    <3>3. Cardinality(Asking') \in {Cardinality(Asking), Cardinality(Asking) - 1}
      BY <1>a, <3>1, AskingMoves DEF Labels, Asks
    <3>4. Pending' <= Pending
      BY <1>b, <1>d, <3>2, <3>3, PendingCounts, PendingCountsNext
    <3> QED
      BY <1>a, <1>e, <3>1, <3>4, OffKept
  <2>4. CASE Begin(w)
    <3>1. /\ pc[w] = "begin"
          /\ \E label \in {"idle", "cycle"} : pc' = [pc EXCEPT ![w] = label]
          /\ UNCHANGED allowance
          /\ afterOff' = afterOff + 1
      BY <2>4 DEF Begin, Goto
    <3>2. Armed' = Armed
      BY <2>4 DEF Begin, timerVars, Armed
    <3>3. Cardinality(Asking') = Cardinality(Asking) - 1
      BY <1>a, <3>1, AskingMoves DEF Labels, Asks
    <3>4. Pending' + 1 = Pending
      BY <1>b, <1>d, <3>2, <3>3, PendingCounts, PendingCountsNext
    <3> QED
      BY <1>a, <1>e, <3>1, <3>4, OffKept
  <2>5. CASE CycleEnds(w) \/ Commit(w)
    <3>1. /\ pc[w] \in {"cycle", "commit"}
          /\ \E label \in {"idle", "commit", "finish"} : pc' = [pc EXCEPT ![w] = label]
          /\ UNCHANGED <<afterOff, allowance>>
      BY <2>5 DEF CycleEnds, Commit, Goto
    <3>2. Armed' = Armed
      <4>1. UNCHANGED <<timers, resumeTimer>>
        BY <2>5 DEF CycleEnds, Commit, timerVars
      <4> QED
        BY <4>1 DEF Armed
    <3>3. Cardinality(Asking') = Cardinality(Asking)
      <4>2. PICK label \in {"idle", "commit", "finish"} : pc' = [pc EXCEPT ![w] = label]
        BY <3>1
      <4> QED
        BY <1>a, <3>1, <4>2, AskingMoves DEF Labels, Asks
    <3>4. Pending' = Pending
      BY <1>b, <1>d, <3>2, <3>3, PendingCounts, PendingCountsNext
    <3> QED
      BY <1>a, <1>e, <3>1, <3>4, OffKept
  <2>6. CASE Finish(w)
    <3>1. pc[w] = "finish" /\ UNCHANGED <<afterOff, allowance, resumeTimer>>
      BY <2>6 DEF Finish
    <3>2. pc' = [pc EXCEPT ![w] = "idle"] /\ timers' = timers
      BY <2>6, <2>c DEF Finish, Continue, Goto
    <3>3. Cardinality(Asking') = Cardinality(Asking)
      BY <1>a, <3>1, <3>2, AskingMoves DEF Labels, Asks
    <3>4. Armed' = Armed
      BY <1>a, <3>1, <3>2, ArmedKept
    <3>5. Pending' = Pending
      BY <3>3, <3>4, PendingCounts, PendingCountsNext
    <3> QED
      BY <1>a, <1>e, <3>1, <3>5, OffKept
  <2> QED
    BY <1>5, <2>1, <2>2, <2>3, <2>4, <2>5, <2>6 DEF Proceed
<1> QED
  BY <1>1, <1>2, <1>3, <1>4, <1>5 DEF Next, vars, history, timerVars

\* set_tick_mode("off"): although timers are not cancelled and no validator looks
\* for "off", at most the requests under way at the call still begin a tick.
THEOREM TicksDrain == Spec => []OffDrains
<1>1. Init => QuietIsOff
  BY DEF Init, QuietIsOff
<1>2. Init => OffDrains
  <2> SUFFICES ASSUME Init PROVE OffDrains
    OBVIOUS
  <2>1. Asking = {}
    BY DEF Init, Asking, Requesting
  <2>2. Armed = 0 /\ afterOff = 0 /\ allowance = 0
    BY DEF Init, Armed
  <2> QED
    BY <2>1, <2>2, FS_EmptySet, PendingCounts DEF OffDrains
<1> QED
  BY <1>1, <1>2, TypeCorrect, QuietStep, OffStep, PTL DEF Spec
=============================================================================
