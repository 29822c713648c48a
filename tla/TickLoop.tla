------------------------------- MODULE TickLoop -------------------------------
(***************************************************************************)
(* The tick controller of the governed runtime: set_tick_mode,             *)
(* _request_tick, _arm_timed_latch and _autonomous_tick (runtime.py), and  *)
(* the automatic resumption at the start of the process.                   *)
(*                                                                         *)
(* A tick is a thread; what follows it is a new thread, or a timer that    *)
(* requests one.  Handlers of the HTTP server change the mode, halt the    *)
(* runtime and open or close its validators at any point, without a lock.  *)
(* A worker stands for a thread from the request of a tick to its end: the *)
(* thread that requests a tick does nothing after it has started it.       *)
(*                                                                         *)
(* save_state is one step: it stores what a restart loads, or the Gate     *)
(* rejects it, engages the kill switch and raises (see GatedState).        *)
(***************************************************************************)
EXTENDS Integers, FiniteSets

CONSTANTS
    Workers,     \* threads that may be alive at once
    AutoResume,  \* state.auto_resume_on_restart
    MaxCalls,    \* bound: calls of set_tick_mode
    MaxChanges,  \* bound: other control-plane changes
    MaxRejects,  \* bound: saves the Gate rejects
    MaxCrashes   \* bound: crashes

ASSUME TickAssumption ==
    /\ IsFiniteSet(Workers)
    /\ AutoResume \in BOOLEAN
    /\ {MaxCalls, MaxChanges, MaxRejects, MaxCrashes} \subseteq Nat

VARIABLES
    tickMode,       \* state.tick_mode
    executionState, \* state.execution_state
    timedReady,     \* _timed_ready
    killswitch,     \* state.killswitch_engaged
    planMode,       \* state.execution_mode = "plan"
    autonomous,     \* permission mode autonomous and canary validator open
    saved,          \* the mode and execution state a restart loads
    timers,         \* armed timers that call _arm_timed_latch
    resumeTimer,    \* the timer armed at the start
    pc,             \* where each worker is
    calls, changes, rejects, crashes,
    chains,         \* history: chains of ticks that were ever begun
    orphaned,       \* history: the tick that set "running" died
    steady,         \* history: nothing has stood in the way since the mode was set
    quiet,          \* history: the mode was last set to "off"
    allowance,      \* history: requests under way when it was
    afterOff        \* history: ticks begun since then

control == <<killswitch, planMode, autonomous>>
bounds == <<calls, changes, rejects, crashes>>
timerVars == <<timers, resumeTimer>>
history == <<chains, orphaned, steady, quiet, allowance, afterOff>>
vars == <<tickMode, executionState, timedReady, control, saved, timerVars, pc,
          bounds, history>>

Modes == {"off", "on", "task", "timed"}
Recurring == {"on", "timed"}

-----------------------------------------------------------------------------
Goto(w, label) == pc' = [pc EXCEPT ![w] = label]

Live(w) == pc[w] \in {"cycle", "commit", "finish"}

\* Requests of a tick that have not led to one yet.
Requesting(w) == pc[w] \in {"request", "validate", "begin"}

Pending ==
    timers + (IF resumeTimer THEN 1 ELSE 0) + Cardinality({w \in Workers : Requesting(w)})

\* save_state succeeds with this mode and execution state.
Saved(mode, exec) ==
    /\ saved' = [mode |-> mode, exec |-> exec]
    /\ UNCHANGED <<killswitch, planMode, rejects>>

\* save_state raises.
Rejected ==
    /\ rejects < MaxRejects
    /\ rejects' = rejects + 1
    /\ killswitch' = TRUE
    /\ planMode' = TRUE
    /\ UNCHANGED saved

-----------------------------------------------------------------------------
(***************************************************************************)
(* set_tick_mode, in a handler's thread.  "off" also forgets the execution *)
(* state, whether or not a tick is running.                                *)
(***************************************************************************)
ExecAfter(mode) == IF mode = "off" THEN "idle" ELSE executionState

SetTickMode(w, mode) ==
    /\ pc[w] = "idle"
    /\ calls < MaxCalls
    /\ calls' = calls + 1
    /\ tickMode' = mode
    /\ executionState' = ExecAfter(mode)
    /\ timedReady' = (timedReady /\ mode # "off")
    /\ orphaned' = (orphaned /\ mode # "off")
    /\ \/ /\ Saved(mode, ExecAfter(mode))
          /\ IF mode = "off" THEN UNCHANGED pc ELSE Goto(w, "request")
          /\ chains' = IF mode = "off" THEN chains ELSE chains + 1
          /\ steady' = /\ mode \in Recurring
                       /\ ~killswitch /\ ~planMode /\ autonomous /\ ~orphaned
       \/ /\ Rejected
          /\ steady' = FALSE
          /\ UNCHANGED <<pc, chains>>
    /\ quiet' = (mode = "off")
    /\ allowance' = Pending
    /\ afterOff' = 0
    /\ UNCHANGED <<autonomous, timerVars, changes, crashes>>

\* Mutant of LatchFires: a timer is taken off whether or not one is armed.
LatchUnarmed(w) ==
    /\ pc[w] = "idle"
    /\ tickMode = "timed"
    /\ timers' = timers - 1
    /\ timedReady' = TRUE
    /\ Goto(w, "request")
    /\ UNCHANGED <<tickMode, executionState, control, saved, resumeTimer, bounds, history>>

\* A timer of the timed mode fires: _arm_timed_latch.
LatchFires(w) ==
    /\ pc[w] = "idle"
    /\ timers > 0
    /\ timers' = timers - 1
    /\ timedReady' = TRUE
    /\ Goto(w, "request")
    /\ UNCHANGED <<tickMode, executionState, control, saved, resumeTimer, bounds, history>>

\* The timer armed at the start fires: _request_tick.
ResumeFires(w) ==
    /\ pc[w] = "idle"
    /\ resumeTimer
    /\ resumeTimer' = FALSE
    /\ Goto(w, "request")
    /\ UNCHANGED <<tickMode, executionState, timedReady, control, saved, timers, bounds, history>>

-----------------------------------------------------------------------------
(***************************************************************************)
(* _request_tick: nothing while a tick is running; blocked by a closed     *)
(* validator; otherwise a thread is started, which sets "running" only     *)
(* once it runs.                                                           *)
(***************************************************************************)
Request(w) ==
    /\ pc[w] = "request"
    /\ Goto(w, IF executionState = "running" THEN "idle" ELSE "validate")
    /\ UNCHANGED <<tickMode, executionState, timedReady, control, saved,
                   timerVars, bounds, history>>

\* _check_tick_validators: nothing here asks whether the mode is "off".
ValidatorsPass ==
    /\ ~killswitch
    /\ ~planMode
    /\ tickMode \in Recurring => autonomous

\* A blocked request in timed mode waits for a timer, once.
Rearms == tickMode = "timed" /\ ~timedReady

Validate(w) ==
    /\ pc[w] = "validate"
    /\ \/ /\ ValidatorsPass
          /\ timedReady' = FALSE
          /\ Goto(w, "begin")
          /\ UNCHANGED <<killswitch, planMode, saved, timers, rejects, steady>>
       \/ /\ ~ValidatorsPass
          /\ Goto(w, "idle")
          /\ \/ /\ Saved(tickMode, executionState)
                /\ timers' = IF Rearms THEN timers + 1 ELSE timers
                /\ UNCHANGED steady
             \/ Rejected /\ steady' = FALSE /\ UNCHANGED timers
          /\ UNCHANGED timedReady
    /\ UNCHANGED <<tickMode, executionState, autonomous, resumeTimer, calls, changes,
                   crashes, chains, orphaned, quiet, allowance, afterOff>>

(***************************************************************************)
(* _autonomous_tick.  The first save is outside of the try: when it raises *)
(* the thread is gone and "running" stays.                                 *)
(***************************************************************************)
Begin(w) ==
    /\ pc[w] = "begin"
    /\ executionState' = "running"
    /\ afterOff' = IF quiet THEN afterOff + 1 ELSE afterOff
    /\ \/ /\ Saved(tickMode, "running")
          /\ Goto(w, "cycle")
          /\ orphaned' = FALSE
          /\ UNCHANGED steady
       \/ /\ Rejected
          /\ Goto(w, "idle")
          /\ orphaned' = TRUE
          /\ steady' = FALSE
    /\ UNCHANGED <<tickMode, timedReady, autonomous, timerVars, calls, changes,
                   crashes, chains, quiet, allowance>>

\* Mutant of CycleEnds: the handler of an error leaves the execution state.
CycleEndsRunning(w) ==
    /\ pc[w] = "cycle"
    /\ \/ executionState' = "commit" /\ Goto(w, "commit")
       \/ UNCHANGED executionState /\ Goto(w, "finish")
    /\ UNCHANGED <<tickMode, timedReady, control, saved, timerVars, bounds, history>>

\* run_single_cycle returns, has put the runtime in degraded_repair, or raises.
CycleEnds(w) ==
    /\ pc[w] = "cycle"
    /\ orphaned' = FALSE
    /\ \/ /\ executionState' = "commit"
          /\ Goto(w, "commit")
          /\ UNCHANGED <<tickMode, saved, killswitch, planMode, rejects, steady>>
       \/ /\ executionState' = "blocked"     \* degraded_repair: the thread returns
          /\ tickMode' = "off"
          /\ steady' = FALSE
          /\ Goto(w, "idle")
          /\ \/ Saved("off", "blocked")
             \/ Rejected
       \/ /\ executionState' = "blocked"     \* tick_error
          /\ steady' = FALSE
          /\ Goto(w, "finish")
          /\ UNCHANGED <<tickMode, saved, killswitch, planMode, rejects>>
    /\ UNCHANGED <<timedReady, autonomous, timerVars, calls, changes, crashes,
                   chains, quiet, allowance, afterOff>>

Commit(w) ==
    /\ pc[w] = "commit"
    /\ executionState' = "idle"
    /\ orphaned' = FALSE
    /\ Goto(w, "finish")
    /\ UNCHANGED <<tickMode, timedReady, control, saved, timerVars, bounds,
                   chains, steady, quiet, allowance, afterOff>>

\* Mutant of Continue: a tick that ends in timed mode is followed by another at
\* once, and by a timer.
ContinueTwice(w) ==
    IF executionState = "idle" /\ tickMode \in Recurring
      THEN /\ Goto(w, "request")
           /\ timers' = IF tickMode = "timed" THEN timers + 1 ELSE timers
           /\ UNCHANGED tickMode
      ELSE Goto(w, "idle") /\ UNCHANGED <<timers, tickMode>>

\* Mutant of Continue: whatever the mode, a tick that ends well has a successor.
ContinueAlways(w) ==
    /\ Goto(w, IF executionState = "idle" THEN "request" ELSE "idle")
    /\ UNCHANGED <<timers, tickMode>>

\* Mutant of Continue: no timer is armed after a tick of the timed mode.
ContinueUntimed(w) ==
    /\ Goto(w, IF executionState = "idle" /\ tickMode = "on" THEN "request" ELSE "idle")
    /\ UNCHANGED <<timers, tickMode>>

\* The finally clause and what comes after the tick.
Continue(w) ==
    CASE executionState = "idle" /\ tickMode = "on" ->
            Goto(w, "request") /\ UNCHANGED <<timers, tickMode>>
      [] executionState = "idle" /\ tickMode = "timed" ->
            Goto(w, "idle") /\ timers' = timers + 1 /\ UNCHANGED tickMode
      [] executionState = "idle" /\ tickMode = "task" ->
            Goto(w, "idle") /\ tickMode' = "off" /\ UNCHANGED timers
      [] OTHER ->
            Goto(w, "idle") /\ UNCHANGED <<timers, tickMode>>

Finish(w) ==
    /\ pc[w] = "finish"
    /\ \/ /\ Continue(w)
          /\ Saved(tickMode', executionState)
          /\ UNCHANGED steady
       \/ /\ Rejected
          /\ steady' = FALSE
          /\ Goto(w, "idle")
          /\ UNCHANGED timers
          /\ \/ UNCHANGED tickMode
             \/ executionState = "idle" /\ tickMode = "task" /\ tickMode' = "off"
    /\ UNCHANGED <<executionState, timedReady, autonomous, resumeTimer, calls,
                   changes, crashes, chains, orphaned, quiet, allowance, afterOff>>

-----------------------------------------------------------------------------
\* The other handlers: halt and resume, execution mode, permission mode and the
\* canary's verdict.  Each of them saves the state.
ChangeControl ==
    /\ changes < MaxChanges
    /\ changes' = changes + 1
    /\ \/ killswitch' = TRUE /\ planMode' = TRUE /\ UNCHANGED autonomous
       \/ killswitch' = FALSE /\ UNCHANGED <<planMode, autonomous>>
       \/ planMode' \in {TRUE, killswitch} /\ UNCHANGED <<killswitch, autonomous>>
       \/ autonomous' = ~autonomous /\ UNCHANGED <<killswitch, planMode>>
    /\ saved' = [mode |-> tickMode, exec |-> executionState]
    /\ steady' = FALSE
    /\ UNCHANGED <<tickMode, executionState, timedReady, timerVars, pc, calls,
                   rejects, crashes, chains, orphaned, quiet, allowance, afterOff>>

\* The process dies and is started again: threads and timers are gone, mode and
\* execution state are what was saved last.
CrashRestart ==
    /\ crashes < MaxCrashes
    /\ crashes' = crashes + 1
    /\ tickMode' = saved.mode
    /\ executionState' = saved.exec
    /\ timedReady' = FALSE
    /\ timers' = 0
    /\ resumeTimer' = /\ AutoResume
                      /\ saved.mode # "off"
                      /\ saved.exec \notin {"running", "commit"}
    /\ chains' = IF resumeTimer' THEN 1 ELSE 0
    /\ pc' = [w \in Workers |-> "idle"]
    /\ orphaned' = (saved.exec = "running")
    /\ steady' = FALSE
    /\ quiet' = (saved.mode = "off")
    /\ allowance' = IF resumeTimer' THEN 1 ELSE 0
    /\ afterOff' = 0
    /\ UNCHANGED <<control, saved, calls, changes, rejects>>

-----------------------------------------------------------------------------
Init ==
    /\ tickMode = "off"
    /\ executionState = "idle"
    /\ timedReady = FALSE
    /\ killswitch = FALSE
    /\ planMode \in BOOLEAN
    /\ autonomous \in BOOLEAN
    /\ saved = [mode |-> "off", exec |-> "idle"]
    /\ timers = 0
    /\ resumeTimer = FALSE
    /\ pc = [w \in Workers |-> "idle"]
    /\ calls = 0 /\ changes = 0 /\ rejects = 0 /\ crashes = 0
    /\ chains = 0
    /\ orphaned = FALSE
    /\ steady = FALSE
    /\ quiet = TRUE
    /\ allowance = 0
    /\ afterOff = 0

\* What a thread or a timer does by itself.
Proceed(w) ==
    \/ LatchFires(w)
    \/ ResumeFires(w)
    \/ Request(w)
    \/ Validate(w)
    \/ Begin(w)
    \/ CycleEnds(w)
    \/ Commit(w)
    \/ Finish(w)

Next ==
    \/ \E w \in Workers : Proceed(w)
    \/ \E w \in Workers, mode \in Modes : SetTickMode(w, mode)
    \/ ChangeControl
    \/ CrashRestart

\* Threads are scheduled, timers fire, and a cycle ends.
Fairness == \A w \in Workers : WF_vars(Proceed(w))

Spec == Init /\ [][Next]_vars /\ Fairness

-----------------------------------------------------------------------------
\* The values the variables may have.
TypeOK ==
    /\ tickMode \in Modes
    /\ executionState \in {"idle", "running", "commit", "blocked"}
    /\ timedReady \in BOOLEAN
    /\ killswitch \in BOOLEAN /\ planMode \in BOOLEAN /\ autonomous \in BOOLEAN
    /\ saved \in [mode : Modes, exec : {"idle", "running", "commit", "blocked"}]
    /\ timers \in Nat
    /\ resumeTimer \in BOOLEAN
    /\ pc \in [Workers -> {"idle", "request", "validate", "begin", "cycle", "commit", "finish"}]
    /\ chains \in Nat /\ allowance \in Nat /\ afterOff \in Nat
    /\ orphaned \in BOOLEAN /\ steady \in BOOLEAN /\ quiet \in BOOLEAN

\* A tick, its successor and the timer between them are one chain: ticks,
\* requests and armed timers together are never more than the chains that
\* calls of set_tick_mode and the resumption at the start began, however the
\* end of one tick, a timer and a new call interleave.
ChainsDoNotMultiply ==
    timers + (IF resumeTimer THEN 1 ELSE 0)
        + Cardinality({w \in Workers : pc[w] # "idle"}) <= chains

\* After set_tick_mode("off") only the requests and timers that were already
\* under way can still begin a tick, one each: timers are not cancelled and no
\* validator looks for "off", but no tick that ends then has a successor.
OffDrains == quiet => afterOff + Pending <= allowance

\* execution_state is "running" only while a tick is in its cycle, so that the
\* requests it turns away are not lost, unless the thread that set it died: at
\* its first save, or in a crash.
RunningIsLive ==
    executionState = "running" => orphaned \/ \E w \in Workers : pc[w] = "cycle"

\* Once the mode is set to "on" or "timed", and as long as no validator closes,
\* no tick fails, no save is rejected and the mode is not set again to another,
\* there is always another tick to come, also when several chains turn each
\* other away at a request.
TicksRecur == steady ~> (~steady \/ \E w \in Workers : pc[w] = "cycle")
=============================================================================
