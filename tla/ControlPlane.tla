---------------------------- MODULE ControlPlane ----------------------------
(***************************************************************************)
(* The control plane of the governed runtime (set_execution_mode,          *)
(* set_permission_mode, set_posture, set_governance_mode, the kill switch; *)
(* runtime.py), the event log it appends to (_emit, events.py) and the     *)
(* state that replay reconstructs from the log (replay.py), which is what  *)
(* TruthAPI serves.                                                        *)
(*                                                                         *)
(* Handlers run in the threads of the HTTP server without a lock.  A       *)
(* handler is a sequence of operations; an operation tests the state,      *)
(* assigns and saves, numbers its event, and appends it: other threads run *)
(* in between.  Incrementing _seq and building the event are one step, the *)
(* interpreter switches threads at calls only.                             *)
(***************************************************************************)
EXTENDS Integers, Sequences, SequencesExt

CONSTANTS
    Threads,
    Requests,     \* the handlers that are called
    MaxLines,     \* lines trim_event_log keeps
    MaxCalls,     \* bound: calls of handlers
    MaxMishaps    \* bound: faults, saves the Gate rejects and crashes

\* No thread is called like a mark of `owner'.
ASSUME ThreadsAssumption == Threads \cap {"logged", "unlogged"} = {}
ASSUME ControlAssumption == {MaxLines, MaxCalls, MaxMishaps} \subseteq Nat

VARIABLES
    live,     \* the state in memory
    saved,    \* the state a restart loads
    seq,      \* _seq
    log,      \* the lines of events.jsonl
    torn,     \* the last line has no line end
    ops,      \* what each thread still has to do
    pc,
    job,      \* what each thread is about to assign, then its event
    calls,
    mishaps,
    restarted, \* the process was started again
    owner     \* history: who made the last change of each field, see below

bounds == <<calls, mishaps, restarted>>
vars == <<live, saved, seq, log, torn, ops, pc, job, bounds, owner>>

Governances == {"guided", "standard", "expert", "unlocked", "degraded_repair"}

Fields == {"exec", "perm", "kill", "gov", "auth", "ticks"}

\* RuntimeState().
Default == [exec |-> "plan", perm |-> "task", kill |-> FALSE,
            gov |-> "standard", auth |-> "user", ticks |-> 0]

Malformed == [kind |-> "malformed", val |-> 0, cycle |-> 0, seq |-> 0]

Nothing == [set |-> << >>, kind |-> "none", val |-> 0, saves |-> FALSE, guarded |-> FALSE]

-----------------------------------------------------------------------------
(***************************************************************************)
(* Replay.  Lines that do not parse are dropped, the others are sorted by  *)
(* seq.  list.sort is stable: an event goes behind those of its number     *)
(* that stand before it in the log.                                        *)
(***************************************************************************)

Place(events, e) ==
    LET later == {i \in DOMAIN events : events[i].seq > e.seq}
    IN  IF later = {} THEN Append(events, e) ELSE InsertAt(events, Min(later), e)

LoadEvents(lines) ==
    LET loaded[n \in 0..Len(lines)] ==
            IF n = 0 THEN << >>
            ELSE IF lines[n].kind = "malformed" THEN loaded[n - 1]
            ELSE Place(loaded[n - 1], lines[n])
    IN  loaded[Len(lines)]

\* GovernanceProfile.for_mode: degraded_repair forces the authority.
ForMode(mode, authority) ==
    [gov |-> mode, auth |-> IF mode = "degraded_repair" THEN "user" ELSE authority]

\* Mutant of ApplyEvent: the mode is assigned, as a diagnosis does, and the
\* profile of the mode not made.
ApplyModeOnly(s, e) ==
    CASE e.kind = "mode" -> [s EXCEPT !.gov = e.val]
      [] e.kind = "authority" -> [s EXCEPT !.auth = e.val]
      [] e.kind = "execution" -> [s EXCEPT !.exec = e.val]
      [] e.kind = "engaged" -> [s EXCEPT !.kill = TRUE, !.exec = "plan"]
      [] e.kind = "released" -> [s EXCEPT !.kill = FALSE]
      [] e.kind = "pulse" -> [s EXCEPT !.ticks = e.val]
      [] OTHER -> s

ApplyEvent(s, e) ==
    CASE e.kind = "mode" -> [s EXCEPT !.gov = e.val, !.auth = ForMode(e.val, s.auth).auth]
      [] e.kind = "authority" -> [s EXCEPT !.auth = e.val]
      [] e.kind = "execution" -> [s EXCEPT !.exec = e.val]
      [] e.kind = "engaged" -> [s EXCEPT !.kill = TRUE, !.exec = "plan"]
      [] e.kind = "released" -> [s EXCEPT !.kill = FALSE]
      [] e.kind = "pulse" -> [s EXCEPT !.ticks = e.val]
      [] OTHER -> s

\* The state that the events make of a new one.
ApplyEvents(events) ==
    LET state[n \in 0..Len(events)] ==
            IF n = 0 THEN Default ELSE ApplyEvent(state[n - 1], events[n])
    IN  state[Len(events)]

Replay(lines) == ApplyEvents(LoadEvents(lines))

\* Mutant of ReplayUntil: the first event past the boundary is applied too.
ReplayPast(lines, cycle) ==
    LET events == LoadEvents(lines)
        past == {i \in DOMAIN events : events[i].cycle > cycle}
        stop == IF past = {} THEN Len(events) ELSE Min(past)
    IN  ApplyEvents(SubSeq(events, 1, stop))

ReplayUntil(lines, cycle) ==
    LET events == LoadEvents(lines)
        past == {i \in DOMAIN events : events[i].cycle > cycle}
        stop == IF past = {} THEN Len(events) ELSE Min(past) - 1
    IN  ApplyEvents(SubSeq(events, 1, stop))

\* The fields an event gives a value to whatever the state it is applied to.
Covers(kind, val) ==
    CASE kind = "mode" -> {"gov"} \cup (IF val = "degraded_repair" THEN {"auth"} ELSE {})
      [] kind = "authority" -> {"auth"}
      [] kind = "execution" -> {"exec"}
      [] kind = "engaged" -> {"kill", "exec"}
      [] kind = "released" -> {"kill"}
      [] kind = "pulse" -> {"ticks"}
      [] OTHER -> {}

-----------------------------------------------------------------------------
(***************************************************************************)
(* What an operation does in the state it finds: the fields it assigns,    *)
(* the event it emits ("other": one that replay ignores; "none": no        *)
(* event), whether it saves, and whether a rejected save is swallowed.     *)
(***************************************************************************)
Does(set, kind, val) == [set |-> set, kind |-> kind, val |-> val, saves |-> TRUE, guarded |-> FALSE]

SetExecutionMode(enabled) ==
    IF enabled /\ (live.perm = "buddy" \/ live.kill)
      THEN Does([exec |-> "plan"], "other", 0)
      ELSE LET mode == IF enabled THEN "execute" ELSE "plan"
           IN  Does([exec |-> mode], "execution", mode)

SetPermissionMode(mode) ==
    LET exec == IF mode = "buddy" \/ (mode = "task" /\ live.kill) THEN "plan" ELSE "execute"
    IN  Does([perm |-> mode, exec |-> exec], "other", 0)

\* The profile is made from the authority read before, and replaces the old one.
SetGovernanceMode(mode) == Does(ForMode(mode, live.auth), "mode", mode)

SetOperatorAuthority(authority) == Does([auth |-> authority], "authority", authority)

EngageKillswitch ==
    [Does([kill |-> TRUE, exec |-> "plan"], "engaged", 0) EXCEPT !.guarded = TRUE]

ReleaseKillswitch == Does([kill |-> FALSE], "released", 0)

\* POSTURE_MAP without the tick modes; "task" is then "assist".
PostureMap ==
    [observe |-> [perm |-> "buddy", exec |-> "plan", auth |-> "user", gov |-> "guided"],
     assist |-> [perm |-> "task", exec |-> "execute", auth |-> "user", gov |-> "standard"],
     autonomous |-> [perm |-> "autonomous", exec |-> "execute", auth |-> "user", gov |-> "standard"],
     builder |-> [perm |-> "autonomous", exec |-> "execute", auth |-> "builder", gov |-> "unlocked"]]

\* set_posture assigns both modes itself, whatever the kill switch; then
\* set_tick_mode saves and emits.
SetPosture(name) ==
    Does([perm |-> PostureMap[name].perm, exec |-> PostureMap[name].exec], "other", 0)

\* A cycle begins; the state is saved at its end.
BeginCycle == [Does([ticks |-> live.ticks + 1], "pulse", live.ticks + 1) EXCEPT !.saves = FALSE]

\* Assignments that emit no event replay knows: degraded_repair, a fault that is
\* not repaired (or the Coroner), a tool call the Gate rejects.
Fault(what) ==
    [set |-> CASE what = "repair" -> [gov |-> "degraded_repair", exec |-> "plan"]
               [] what = "halt" -> [kill |-> TRUE]
               [] what = "gate" -> [kill |-> TRUE, exec |-> "plan"],
     kind |-> "none", val |-> 0, saves |-> FALSE, guarded |-> FALSE]

Effect(op) ==
    CASE op.name = "execution" -> SetExecutionMode(op.arg)
      [] op.name = "permission" -> SetPermissionMode(op.arg)
      [] op.name = "governance" -> SetGovernanceMode(op.arg)
      [] op.name = "authority" -> SetOperatorAuthority(op.arg)
      [] op.name = "engage" -> EngageKillswitch
      [] op.name = "release" -> ReleaseKillswitch
      [] op.name = "posture" -> SetPosture(op.arg)
      [] op.name = "cycle" -> BeginCycle
      [] op.name = "fault" -> Fault(op.arg)
      [] op.name = "note" -> [Does(<< >>, "other", 0) EXCEPT !.saves = op.arg]

\* Operations that test the state and assign after another call.
TestsFirst == {"execution", "permission", "governance"}

\* Autonomy is refused while halted, and while the canary validator is closed.
AsksAutonomy(op) == op.name \in {"permission", "posture"} /\ op.arg = "autonomous"

Op(name, arg) == [name |-> name, arg |-> arg]

\* The handlers; hard_nuke and reinitialize emit one event more.
Handlers ==
    {<<Op("execution", b)>> : b \in BOOLEAN}
    \cup {<<Op("permission", m)>> : m \in {"buddy", "task", "autonomous"}}
    \cup {<<Op("governance", g)>> : g \in Governances}
    \cup {<<Op("authority", a)>> : a \in {"user", "builder"}}
    \cup {<<Op("posture", p), Op("authority", PostureMap[p].auth),
            Op("governance", PostureMap[p].gov), Op("note", TRUE)>> : p \in DOMAIN PostureMap}
    \cup {<<Op("engage", 0)>>, <<Op("engage", 0), Op("note", FALSE)>>,
          <<Op("release", 0)>>, <<Op("release", 0), Op("note", TRUE)>>}
    \cup {<<Op("cycle", 0)>>}

ASSUME RequestsAssumption == Requests \subseteq Handlers

Faults == {<<Op("fault", w)>> : w \in {"repair", "halt", "gate"}}

-----------------------------------------------------------------------------
Goto(t, label) == pc' = [pc EXCEPT ![t] = label]

\* The operation is over: the next one of the handler, if any.
EndOp(t) ==
    /\ ops' = [ops EXCEPT ![t] = Tail(@)]
    /\ Goto(t, IF Len(ops[t]) = 1 THEN "idle" ELSE "test")
    /\ job' = [job EXCEPT ![t] = Nothing]

\* For the bound only: a handler of several operations counts twice.
Weight(handler) == IF Len(handler) > 1 THEN 2 ELSE 1

Call(t) ==
    /\ pc[t] = "idle"
    /\ Goto(t, "test")
    /\ \/ /\ \E handler \in Requests :
                /\ calls' = calls + Weight(handler)
                /\ ops' = [ops EXCEPT ![t] = handler]
          /\ calls' <= MaxCalls
          /\ UNCHANGED mishaps
       \/ /\ mishaps < MaxMishaps
          /\ mishaps' = mishaps + 1
          /\ \E handler \in Faults : ops' = [ops EXCEPT ![t] = handler]
          /\ UNCHANGED calls
    /\ UNCHANGED <<live, saved, seq, log, torn, job, restarted, owner>>

\* A request for autonomy raises.
Refuse(t) ==
    /\ pc[t] = "test"
    /\ AsksAutonomy(Head(ops[t]))
    /\ ops' = [ops EXCEPT ![t] = << >>]
    /\ Goto(t, "idle")
    /\ UNCHANGED <<live, saved, seq, log, torn, job, bounds, owner>>

\* The operation has looked at the state and has yet to assign.
Test(t) ==
    /\ pc[t] = "test"
    /\ Head(ops[t]).name \in TestsFirst
    /\ AsksAutonomy(Head(ops[t])) => ~live.kill
    /\ job' = [job EXCEPT ![t] = Effect(Head(ops[t]))]
    /\ Goto(t, "assign")
    /\ UNCHANGED <<live, saved, seq, log, torn, ops, bounds, owner>>

\* Another thread has assigned the field and its event is not in the log yet.
Pending(t, f) ==
    \E u \in Threads \ {t} :
        pc[u] \in {"stamp", "append"} /\ f \in Covers(job[u].kind, job[u].val)

(***************************************************************************)
(* owner[f] is the thread that assigned f last and will log it, "logged"   *)
(* once it has, and "unlogged" when the last change has no event of its    *)
(* own, when the changes of two threads overlapped, or when the event of   *)
(* one told the change of another, which it may: see Details.              *)
(***************************************************************************)
OwnerAfter(t, covered) ==
    [f \in Fields |->
        CASE f \in covered -> IF Pending(t, f) THEN "unlogged" ELSE t
          [] f \notin covered /\ live'[f] # live[f] -> "unlogged"
          [] OTHER -> owner[f]]

Assigned(set) == [f \in Fields |-> IF f \in DOMAIN set THEN set[f] ELSE live[f]]

\* The assignments and save_state.  A rejected save halts, raises and ends the
\* handler, except in engage_killswitch.
Write(t, effect) ==
    \/ /\ live' = Assigned(effect.set)
       /\ saved' = IF effect.saves THEN live' ELSE saved
       /\ owner' = OwnerAfter(t, Covers(effect.kind, effect.val))
       /\ IF effect.kind = "none"
            THEN EndOp(t)
            ELSE /\ job' = [job EXCEPT ![t] = effect]
                 /\ Goto(t, "stamp")
                 /\ UNCHANGED ops
       /\ UNCHANGED mishaps
    \/ /\ effect.saves
       /\ mishaps < MaxMishaps
       /\ mishaps' = mishaps + 1
       /\ live' = [Assigned(effect.set) EXCEPT !["kill"] = TRUE, !["exec"] = "plan"]
       /\ UNCHANGED saved
       /\ IF effect.guarded
            THEN /\ owner' = OwnerAfter(t, Covers(effect.kind, effect.val))
                 /\ job' = [job EXCEPT ![t] = effect]
                 /\ Goto(t, "stamp")
                 /\ UNCHANGED ops
            ELSE /\ owner' = OwnerAfter(t, {})
                 /\ job' = [job EXCEPT ![t] = Nothing]
                 /\ ops' = [ops EXCEPT ![t] = << >>]
                 /\ Goto(t, "idle")

Assign(t) ==
    /\ \/ pc[t] = "assign" /\ Write(t, job[t])
       \/ /\ pc[t] = "test"
          /\ Head(ops[t]).name \notin TestsFirst
          /\ AsksAutonomy(Head(ops[t])) => ~live.kill
          /\ Write(t, Effect(Head(ops[t])))
    /\ UNCHANGED <<seq, log, torn, calls, restarted>>

-----------------------------------------------------------------------------
\* What the event says: mode, execution mode and cycle are read when it is made.
Details(t) ==
    CASE job[t].kind = "execution" -> live.exec
      [] job[t].kind = "mode" -> live.gov
      [] job[t].kind = "pulse" -> live.ticks
      [] OTHER -> job[t].val

\* _emit numbers the event and stamps it with the cycle.
Stamp(t) ==
    /\ pc[t] = "stamp"
    /\ seq' = seq + 1
    /\ job' = [job EXCEPT ![t] = [kind |-> job[t].kind, val |-> Details(t),
                                  cycle |-> live.ticks, seq |-> seq + 1]]
    /\ Goto(t, "append")
    /\ UNCHANGED <<live, saved, log, torn, ops, bounds, owner>>

\* JSONLLogSink.write.  Behind a torn line the event is part of that line.
Append_(t) ==
    /\ pc[t] = "append"
    /\ log' = IF torn THEN log ELSE Append(log, job[t])
    /\ torn' = FALSE
    /\ owner' = LET told == IF torn THEN {} ELSE Covers(job[t].kind, job[t].val)
                    last == \A i \in DOMAIN log : log[i].seq <= job[t].seq
                IN  [f \in Fields |->
                       CASE owner[f] = t -> IF f \in told /\ last THEN "logged" ELSE "unlogged"
                         [] owner[f] # t /\ f \in told -> "unlogged"
                         [] OTHER -> owner[f]]
    /\ EndOp(t)
    /\ UNCHANGED <<live, saved, seq, bounds>>

\* trim_event_log, which the server calls before the runtime starts.
Trim(lines) ==
    IF Len(lines) <= MaxLines THEN lines ELSE SubSeq(lines, Len(lines) - MaxLines + 1, Len(lines))

\* The process dies, perhaps while it appends, and is started again by the server
\* or by the command line: the numbers begin again, the cycle goes on.
Crash ==
    /\ mishaps < MaxMishaps
    /\ mishaps' = mishaps + 1
    /\ restarted' = TRUE
    /\ live' = saved
    /\ seq' = 0
    /\ \/ log' \in {log, Trim(log)} /\ UNCHANGED torn
       \/ /\ ~torn
          /\ \E t \in Threads : pc[t] = "append"
          /\ log' \in {Append(log, Malformed), Trim(Append(log, Malformed))}
          /\ torn' = TRUE
    /\ ops' = [t \in Threads |-> << >>]
    /\ pc' = [t \in Threads |-> "idle"]
    /\ job' = [t \in Threads |-> Nothing]
    /\ owner' = [f \in Fields |-> "unlogged"]
    /\ UNCHANGED <<saved, calls>>

-----------------------------------------------------------------------------
Init ==
    /\ live = Default
    /\ saved = Default
    /\ seq = 0
    /\ log = << >>
    /\ torn = FALSE
    /\ ops = [t \in Threads |-> << >>]
    /\ pc = [t \in Threads |-> "idle"]
    /\ job = [t \in Threads |-> Nothing]
    /\ calls = 0
    /\ mishaps = 0
    /\ restarted = FALSE
    /\ owner = [f \in Fields |-> "logged"]

Next ==
    \/ \E t \in Threads : Call(t)
    \/ \E t \in Threads : Refuse(t)
    \/ \E t \in Threads : Test(t)
    \/ \E t \in Threads : Assign(t)
    \/ \E t \in Threads : Stamp(t)
    \/ \E t \in Threads : Append_(t)
    \/ Crash

Spec == Init /\ [][Next]_vars

-----------------------------------------------------------------------------
\* A field whose last change is logged has the value that replay gives it: the
\* changes of other fields, the events of earlier runs, blocked requests, torn
\* lines and trimmed ones do not get in the way.  After a restart this holds again
\* for a field from its first change that is numbered past the events of the runs
\* before.
ReplayIsCurrent ==
    \A f \in Fields : owner[f] = "logged" => Replay(log)[f] = live[f]

\* Within one run of the process the state reconstructed at a cycle boundary that
\* has passed, from which fork_from branches, changes only when an event that was
\* stamped before the boundary is appended after it.
BoundaryIsStable ==
    [][~restarted' =>
         \A cycle \in 0..(live.ticks - 1) :
            \/ ReplayUntil(log', cycle) = ReplayUntil(log, cycle)
            \/ log'[Len(log')].cycle <= cycle]_vars
=============================================================================
