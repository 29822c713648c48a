------------------------------ MODULE ToolBatch ------------------------------
(***************************************************************************)
(* The binding of a batch of tool calls by the governed runtime:           *)
(* _bind_tool_batch and _bind_tool_execution (runtime.py), the precommit   *)
(* barrier (barrier.py), and the budget, snapshot and restore of the       *)
(* sandbox (sandbox.py).                                                   *)
(*                                                                         *)
(* Batches are bound by tick threads and by the handlers of a threading    *)
(* HTTP server, all on one runtime object without a lock; an operator      *)
(* thread halts, resumes and saves the runtime between any two steps.      *)
(*                                                                         *)
(* What a call writes is one cell.  The sandbox's cells (its files and its *)
(* memory) are covered by a snapshot; the cells outside (temporary notes,  *)
(* the canon ledger) are not.  The content of a cell is the mark of the    *)
(* call that wrote it.                                                     *)
(***************************************************************************)
EXTENDS Integers, Sequences, FiniteSets

CONSTANTS
    Threads,        \* tick threads and request handlers
    SandboxCells,   \* files and memory entries of the sandbox
    OutsideCells,   \* what tools write outside of the sandbox
    Plans,          \* the batches a thread may bind: sets of sequences of calls
    Budgets,        \* file_writes budgets a run may be given
    MaxBatches,     \* bound: batches of each thread
    MaxOps,         \* bound: operator calls
    None

VARIABLES
    killswitch,     \* state.killswitch_engaged
    executionMode,  \* state.execution_mode
    persisted,      \* hash of the state file, as a version number
    anchorHash,     \* _gate_anchor_hash
    gateAnchor,     \* sandbox._gate_anchor: the call it was opened for
    fileWrites,     \* what is left of the sandbox's file_writes budget
    cells,          \* what the tools have written
    activeTokens,   \* barrier._active_tokens
    operator,       \* the operator thread: "idle", "write" or "anchor"
    ops,            \* operator calls so far
    pc,             \* where each thread is
    plan,           \* the batch a thread binds
    index,          \* the call of it that is next or under way
    snapshot,       \* snapshot taken for the batch, or None
    executed,       \* calls that returned ok, with what they overwrote
    binding,        \* gate_before, receipt and overwritten content of the call under way
    batches,        \* batches a thread has bound so far
    outcome,        \* how the last batch of a thread ended
    before,         \* history: the cells when the batch was bound
    ample,          \* history: the budget covered a snapshot and a restore
    overlap,        \* history: another thread had a run at the same time
    unrolled,       \* history: a rollback of the batch failed
    late            \* history: calls started since the last halt

threadVars == <<pc, plan, index, snapshot, executed, binding, batches, outcome>>
history == <<before, ample, overlap, unrolled>>
vars == <<killswitch, executionMode, persisted, anchorHash, gateAnchor,
          fileWrites, cells, activeTokens, operator, ops, threadVars,
          history, late>>

-----------------------------------------------------------------------------
(***************************************************************************)
(* The tools, as the registries register them.                             *)
(***************************************************************************)
Tools == {"utc_time", "write_sandbox_file", "set_fact",
          "compress_sandbox_memory", "write_temp_note", "propose_doctrine"}

Mutates(tool) == tool # "utc_time"

HasRollback(tool) == tool \in {"write_sandbox_file", "set_fact", "write_temp_note"}

\* _infer_safety_level
SafetyLevel(tool) ==
    CASE Mutates(tool) /\ HasRollback(tool) -> "reversible"
      [] Mutates(tool) /\ ~HasRollback(tool) -> "irreversible"
      [] OTHER -> "read_only"

\* The handlers whose value carries a committed sandbox receipt.
EmitsReceipt(tool) ==
    tool \in {"write_sandbox_file", "set_fact", "compress_sandbox_memory"}

\* Only sandbox files are charged to file_writes; memory has its own budget.
FileCost(tool) == IF tool = "write_sandbox_file" THEN 1 ELSE 0

SnapshotCost == 2

Cells == SandboxCells \cup OutsideCells

ASSUME BoundsAssumption ==
    /\ MaxBatches \in [Threads -> Nat]
    /\ MaxOps \in Nat
    /\ Budgets \subseteq Nat
    /\ \A t \in Threads : Plans[t] \subseteq Seq([tool : Tools, cell : Cells]) \ {<<>>}

NoCells == [c \in Cells |-> None]

NoBinding == [persisted |-> 0, receipt |-> None, previous |-> None]

IsMutating(p) == \E i \in 1..Len(p) : Mutates(p[i].tool)

Call(t) == plan[t][index[t]]

Mark(t) == <<t, batches[t], index[t]>>

\* The token of a batch: its id counts the batches.
Token(t) == <<t, batches[t]>>

\* A budget that is charged and never checked.
AlwaysAffordable(cost) == TRUE

\* _check_budget("file_writes", cost): it raises when this does not hold.
Affordable(cost) == fileWrites >= cost

\* The sandbox's part of a content of the cells.
Sandbox(c) == [k \in SandboxCells |-> c[k]]

-----------------------------------------------------------------------------
(***************************************************************************)
(* A halt: every path that sets killswitch_engaged.  The count of calls    *)
(* started under the halt begins anew unless it is already on.             *)
(***************************************************************************)
Halt ==
    /\ killswitch' = TRUE
    /\ late' = IF killswitch THEN late ELSE [t \in Threads |-> 0]

Goto(t, label) == pc' = [pc EXCEPT ![t] = label]

\* _bind_tool_batch returns its list of results.
Return(t, result) ==
    /\ Goto(t, "done")
    /\ outcome' = [outcome EXCEPT ![t] = result]

\* A call of the loop came back with ok = False.
FailBatch(t) == Goto(t, "rollback")

-----------------------------------------------------------------------------
(***************************************************************************)
(* _authorize_execution: a run gets its resource budget, and the sandbox,  *)
(* which all runs share, is told.                                          *)
(***************************************************************************)
Authorize(t) ==
    /\ pc[t] = "idle"
    /\ batches[t] < MaxBatches[t]
    /\ ~killswitch
    /\ \E b \in Budgets : fileWrites' = b
    /\ LET others == {u \in Threads \ {t} : pc[u] # "idle"}
       IN overlap' = [u \in Threads |->
                        IF u = t THEN others # {}
                        ELSE overlap[u] \/ u \in others]
    /\ Goto(t, "ready")
    /\ UNCHANGED <<killswitch, executionMode, persisted, anchorHash, gateAnchor,
                   cells, activeTokens, operator, ops, plan, index, snapshot,
                   executed, binding, batches, outcome, before, ample,
                   unrolled, late>>

\* The run ends and its locals are gone; it may instead bind another batch in
\* its next pulse.
EndRun(t) ==
    /\ pc[t] = "done"
    /\ Goto(t, "idle")
    /\ plan' = [plan EXCEPT ![t] = <<>>]
    /\ index' = [index EXCEPT ![t] = 1]
    /\ snapshot' = [snapshot EXCEPT ![t] = None]
    /\ executed' = [executed EXCEPT ![t] = <<>>]
    /\ binding' = [binding EXCEPT ![t] = NoBinding]
    /\ outcome' = [outcome EXCEPT ![t] = None]
    /\ before' = [before EXCEPT ![t] = NoCells]
    /\ ample' = [ample EXCEPT ![t] = FALSE]
    /\ unrolled' = [unrolled EXCEPT ![t] = FALSE]
    /\ UNCHANGED <<killswitch, executionMode, persisted, anchorHash, gateAnchor,
                   fileWrites, cells, activeTokens, operator, ops, batches,
                   overlap, late>>

(***************************************************************************)
(* _bind_tool_batch up to the barrier.  The decisions of the policy engine *)
(* and the validation of arguments may refuse any batch; an irreversible   *)
(* tool must run alone; nothing passes under a halt or in plan mode.       *)
(***************************************************************************)
MayBind(p) ==
    /\ ~killswitch
    /\ executionMode = "execute"
    /\ Len(p) > 1 => \A i \in 1..Len(p) : SafetyLevel(p[i].tool) # "irreversible"

Bind(t) ==
    /\ pc[t] \in {"ready", "done"}
    /\ batches[t] < MaxBatches[t]
    /\ \E p \in Plans[t] :
        /\ plan' = [plan EXCEPT ![t] = p]
        /\ \/ MayBind(p) /\ Goto(t, "precommit") /\ UNCHANGED outcome
           \/ Return(t, "refused")
    /\ batches' = [batches EXCEPT ![t] = @ + 1]
    /\ index' = [index EXCEPT ![t] = 1]
    /\ snapshot' = [snapshot EXCEPT ![t] = None]
    /\ executed' = [executed EXCEPT ![t] = <<>>]
    /\ before' = [before EXCEPT ![t] = cells]
    /\ unrolled' = [unrolled EXCEPT ![t] = FALSE]
    /\ UNCHANGED <<killswitch, executionMode, persisted, anchorHash, gateAnchor,
                   fileWrites, cells, activeTokens, operator, ops, binding,
                   ample, overlap, late>>

\* PrecommitBarrier.precommit with the plan's cost of one per call.
Admits(t) ==
    /\ ~killswitch
    /\ Len(plan[t]) + SnapshotCost <= fileWrites

Precommit(t) ==
    /\ pc[t] = "precommit"
    /\ ample' = [ample EXCEPT ![t] =
                    fileWrites >= Len(plan[t]) + 2 * SnapshotCost]
    /\ \/ /\ Admits(t)
          /\ activeTokens' = activeTokens \cup {Token(t)}
          /\ Goto(t, IF IsMutating(plan[t]) THEN "snapshot" ELSE "consume")
          /\ UNCHANGED outcome
       \/ /\ ~Admits(t)
          /\ Return(t, "refused")
          /\ UNCHANGED activeTokens
    /\ UNCHANGED <<killswitch, executionMode, persisted, anchorHash, gateAnchor,
                   fileWrites, cells, operator, ops, plan, index, snapshot,
                   executed, binding, batches, before, overlap, unrolled, late>>

\* snapshot_state: it raises when another run has spent the budget meanwhile.
SnapshotState(t) ==
    /\ pc[t] = "snapshot"
    /\ \/ /\ Affordable(SnapshotCost)
          /\ snapshot' = [snapshot EXCEPT ![t] = Sandbox(cells)]
          /\ fileWrites' = fileWrites - SnapshotCost
          /\ Goto(t, "consume")
       \/ /\ ~Affordable(SnapshotCost)
          /\ Goto(t, "raised")
          /\ UNCHANGED <<snapshot, fileWrites>>
    /\ UNCHANGED <<killswitch, executionMode, persisted, anchorHash, gateAnchor,
                   cells, activeTokens, operator, ops, plan, index, executed,
                   binding, batches, outcome, history, late>>

\* The token is consumed only once the kill switch has been looked at.
ConsumeLate(t) ==
    /\ pc[t] = "consume"
    /\ \/ /\ ~killswitch
          /\ activeTokens' = activeTokens \ {Token(t)}
          /\ Goto(t, "gate")
          /\ UNCHANGED outcome
       \/ killswitch /\ Return(t, "refused") /\ UNCHANGED activeTokens
    /\ UNCHANGED <<killswitch, executionMode, persisted, anchorHash, gateAnchor,
                   fileWrites, cells, operator, ops, plan, index, snapshot,
                   executed, binding, batches, history, late>>

\* barrier.consume, then the last look at the kill switch before the loop.
Consume(t) ==
    /\ pc[t] = "consume"
    /\ activeTokens' = activeTokens \ {Token(t)}
    /\ \/ ~killswitch /\ Goto(t, "gate") /\ UNCHANGED outcome
       \/ killswitch /\ Return(t, "refused")
    /\ UNCHANGED <<killswitch, executionMode, persisted, anchorHash, gateAnchor,
                   fileWrites, cells, operator, ops, plan, index, snapshot,
                   executed, binding, batches, history, late>>

(***************************************************************************)
(* The first half of _bind_tool_execution: the kill switch, and for a call *)
(* that is not proven read-only the Gate: the state file must be the one   *)
(* the runtime last anchored, and the anchor is handed to the sandbox.     *)
(***************************************************************************)
\* The check left to the head of the batch.
CallNotHalted == FALSE

\* The check at the head of _bind_tool_execution.
CallHalted == killswitch

Gate(t) ==
    /\ pc[t] = "gate"
    /\ IF CallHalted
       THEN FailBatch(t) /\ UNCHANGED <<killswitch, executionMode, gateAnchor, binding, late>>
       ELSE
       \/ /\ ~Mutates(Call(t).tool)
          /\ Goto(t, "execute")
          /\ UNCHANGED <<killswitch, executionMode, gateAnchor, binding, late>>
       \/ /\ Mutates(Call(t).tool)
          /\ persisted # anchorHash
          /\ Halt
          /\ executionMode' = "plan"
          /\ FailBatch(t)
          /\ UNCHANGED <<gateAnchor, binding>>
       \/ /\ Mutates(Call(t).tool)
          /\ persisted = anchorHash
          /\ \/ /\ gateAnchor' = Mark(t)
                /\ binding' = [binding EXCEPT ![t] = [persisted |-> persisted, receipt |-> None, previous |-> None]]
                /\ Goto(t, "execute")
             \/ FailBatch(t) /\ UNCHANGED <<gateAnchor, binding>>    \* window expired
          /\ UNCHANGED <<killswitch, executionMode, late>>
    /\ UNCHANGED <<persisted, anchorHash, fileWrites, cells, activeTokens,
                   operator, ops, plan, index, snapshot, executed, batches,
                   outcome, history>>

-----------------------------------------------------------------------------
(***************************************************************************)
(* registry.execute: the handler checks its budget, writes, and builds its *)
(* receipt from the sandbox's anchor; it may raise before or after it has  *)
(* written.  The anchor is cleared in either case.                         *)
(***************************************************************************)
Writes(t) == cells' = [cells EXCEPT ![Call(t).cell] = Mark(t)]

Execute(t) ==
    /\ pc[t] = "execute"
    /\ late' = IF killswitch THEN [late EXCEPT ![t] = @ + 1] ELSE late
    /\ gateAnchor' = IF Mutates(Call(t).tool) THEN None ELSE gateAnchor
    /\ \/ /\ ~Mutates(Call(t).tool)
          /\ Goto(t, "verify")
          /\ UNCHANGED <<cells, fileWrites, binding>>
       \/ /\ Mutates(Call(t).tool)
          /\ Affordable(FileCost(Call(t).tool))
          /\ Writes(t)
          /\ \/ /\ fileWrites' = fileWrites - FileCost(Call(t).tool)
                /\ binding' = [binding EXCEPT
                        ![t].receipt = IF EmitsReceipt(Call(t).tool) THEN gateAnchor ELSE None,
                        ![t].previous = cells[Call(t).cell]]
                /\ Goto(t, "verify")
             \/ FailBatch(t) /\ UNCHANGED <<fileWrites, binding>>    \* raised after it wrote
       \/ FailBatch(t) /\ UNCHANGED <<cells, fileWrites, binding>>   \* raised
    /\ UNCHANGED <<killswitch, executionMode, persisted, anchorHash,
                   activeTokens, operator, ops, plan, index, snapshot, executed,
                   batches, outcome, history>>

(***************************************************************************)
(* The second half of _bind_tool_execution: the receipt must be bound to   *)
(* the anchor this call opened, the state file must not have changed, and  *)
(* the window must not have expired.  A read-only call has no gate.        *)
(***************************************************************************)
Verified(t) ==
    Mutates(Call(t).tool) =>
        /\ persisted = binding[t].persisted
        /\ binding[t].receipt = Mark(t)

\* A record of what the call wrote instead of what it found.
RecordWritten(t) == [index |-> index[t], previous |-> cells[Call(t).cell]]

\* The call and the value its rollback needs.
Record(t) == [index |-> index[t], previous |-> binding[t].previous]

Verify(t) ==
    /\ pc[t] = "verify"
    /\ \/ /\ Verified(t)
          /\ executed' = [executed EXCEPT ![t] = Append(@, Record(t))]
          /\ IF index[t] < Len(plan[t])
             THEN /\ index' = [index EXCEPT ![t] = @ + 1]
                  /\ Goto(t, "gate")
                  /\ UNCHANGED outcome
             ELSE Return(t, "ok") /\ UNCHANGED index
       \/ /\ Mutates(Call(t).tool)      \* not verified, or the window expired
          /\ FailBatch(t)
          /\ UNCHANGED <<executed, index, outcome>>
    /\ UNCHANGED <<killswitch, executionMode, persisted, anchorHash, gateAnchor,
                   fileWrites, cells, activeTokens, operator, ops, plan,
                   snapshot, binding, batches, history, late>>

(***************************************************************************)
(* _rollback_executed_tools: newest first, reversible tools only; a        *)
(* rollback that raises is skipped.  A rollback puts back what the call    *)
(* found in its cell.                                                      *)
(***************************************************************************)
RollbackOne(t) ==
    LET last == executed[t][Len(executed[t])]
        call == plan[t][last.index]
    IN /\ pc[t] = "rollback"
       /\ executed[t] # <<>>
       /\ executed' = [executed EXCEPT ![t] = SubSeq(@, 1, Len(@) - 1)]
       /\ \/ /\ SafetyLevel(call.tool) = "reversible"
             /\ cells' = [cells EXCEPT ![call.cell] = last.previous]
             /\ UNCHANGED unrolled
          \/ /\ SafetyLevel(call.tool) = "reversible"
             /\ unrolled' = [unrolled EXCEPT ![t] = TRUE]
             /\ UNCHANGED cells
          \/ /\ SafetyLevel(call.tool) # "reversible"
             /\ UNCHANGED <<cells, unrolled>>
       /\ UNCHANGED <<killswitch, executionMode, persisted, anchorHash,
                      gateAnchor, fileWrites, activeTokens, operator, ops, pc,
                      plan, index, snapshot, binding, batches, outcome, before,
                      ample, overlap, late>>

\* A restore that copies over the files and removes none.
RestoredOver(t) ==
    [c \in Cells |-> IF c \in SandboxCells /\ snapshot[t][c] # None
                     THEN snapshot[t][c] ELSE cells[c]]

\* What restore_snapshot leaves: the old files are removed first.
Restored(t) == [c \in Cells |-> IF c \in SandboxCells THEN snapshot[t][c] ELSE cells[c]]

\* restore_snapshot: it raises when the budget does not cover its cost.
Restore(t) ==
    /\ pc[t] = "rollback"
    /\ executed[t] = <<>>
    /\ \/ /\ snapshot[t] = None
          /\ Return(t, "failed")
          /\ UNCHANGED <<cells, fileWrites>>
       \/ /\ snapshot[t] # None
          /\ Affordable(SnapshotCost)
          /\ cells' = Restored(t)
          /\ fileWrites' = fileWrites - SnapshotCost
          /\ Return(t, "failed")
       \/ /\ snapshot[t] # None
          /\ ~Affordable(SnapshotCost)
          /\ Goto(t, "raised")
          /\ UNCHANGED <<cells, fileWrites, outcome>>
    /\ UNCHANGED <<killswitch, executionMode, persisted, anchorHash, gateAnchor,
                   activeTokens, operator, ops, plan, index, snapshot, executed,
                   binding, batches, history, late>>

(***************************************************************************)
(* An exception leaves _bind_tool_batch and reaches _run_governed_cycle:   *)
(* a repairable fault puts execution in plan mode, any other one engages   *)
(* the kill switch and leaves the execution mode alone.                    *)
(***************************************************************************)
Diagnose(t) ==
    /\ pc[t] = "raised"
    /\ Return(t, "raised")
    /\ \/ executionMode' = "plan" /\ UNCHANGED <<killswitch, late>>
       \/ Halt /\ UNCHANGED executionMode
    /\ UNCHANGED <<persisted, anchorHash, gateAnchor, fileWrites, cells,
                   activeTokens, operator, ops, plan, index, snapshot, executed,
                   binding, batches, history>>

-----------------------------------------------------------------------------
(***************************************************************************)
(* The operator's thread: engage_killswitch, release_killswitch and        *)
(* set_execution_mode change the state in memory and then save it; a save  *)
(* replaces the file and only then moves the anchor.                       *)
(***************************************************************************)
OperatorCall ==
    /\ operator = "idle"
    /\ ops < MaxOps
    /\ ops' = ops + 1
    /\ operator' = "write"
    /\ \/ Halt /\ executionMode' = "plan"
       \/ killswitch' = FALSE /\ UNCHANGED <<executionMode, late>>
       \/ executionMode' = (IF killswitch THEN "plan" ELSE "execute") /\ UNCHANGED <<killswitch, late>>
    /\ UNCHANGED <<persisted, anchorHash, gateAnchor, fileWrites, cells,
                   activeTokens, threadVars, history>>

SaveWrite ==
    /\ operator = "write"
    /\ operator' = "anchor"
    /\ persisted' = persisted + 1
    /\ UNCHANGED <<killswitch, executionMode, anchorHash, gateAnchor, fileWrites,
                   cells, activeTokens, ops, threadVars, history, late>>

SaveAnchor ==
    /\ operator = "anchor"
    /\ operator' = "idle"
    /\ anchorHash' = persisted
    /\ UNCHANGED <<killswitch, executionMode, persisted, gateAnchor, fileWrites,
                   cells, activeTokens, ops, threadVars, history, late>>

-----------------------------------------------------------------------------
Init ==
    /\ killswitch = FALSE
    /\ executionMode = "execute"
    /\ persisted = 0
    /\ anchorHash = 0
    /\ gateAnchor = None
    /\ fileWrites = 0
    /\ cells = NoCells
    /\ activeTokens = {}
    /\ operator = "idle"
    /\ ops = 0
    /\ pc = [t \in Threads |-> "idle"]
    /\ plan = [t \in Threads |-> <<>>]
    /\ index = [t \in Threads |-> 1]
    /\ snapshot = [t \in Threads |-> None]
    /\ executed = [t \in Threads |-> <<>>]
    /\ binding = [t \in Threads |-> NoBinding]
    /\ batches = [t \in Threads |-> 0]
    /\ outcome = [t \in Threads |-> None]
    /\ before = [t \in Threads |-> NoCells]
    /\ ample = [t \in Threads |-> FALSE]
    /\ overlap = [t \in Threads |-> FALSE]
    /\ unrolled = [t \in Threads |-> FALSE]
    /\ late = [t \in Threads |-> 0]

Step(t) ==
    \/ Authorize(t)
    \/ Bind(t)
    \/ Precommit(t)
    \/ SnapshotState(t)
    \/ Consume(t)
    \/ Gate(t)
    \/ Execute(t)
    \/ Verify(t)
    \/ RollbackOne(t)
    \/ Restore(t)
    \/ Diagnose(t)
    \/ EndRun(t)

Next ==
    \/ \E t \in Threads : Step(t)
    \/ OperatorCall
    \/ SaveWrite
    \/ SaveAnchor

Spec == Init /\ [][Next]_vars

-----------------------------------------------------------------------------
\* The mark of a call.
Marks == Threads \X Nat \X Nat
Contents == {None} \cup Marks

\* A snapshot is never mistaken for the absence of one.
ASSUME NoneAssumption == None \notin [SandboxCells -> Contents]

\* The values the variables may have.
TypeOK ==
    /\ killswitch \in BOOLEAN
    /\ executionMode \in {"plan", "execute"}
    /\ persisted \in 0..MaxOps
    /\ anchorHash \in 0..persisted
    /\ gateAnchor \in Contents
    /\ fileWrites \in Nat
    /\ \A c \in Cells : cells[c] \in Contents
    /\ \A token \in activeTokens : token[1] \in Threads /\ token[2] \in 1..batches[token[1]]
    /\ operator \in {"idle", "write", "anchor"}
    /\ ops \in 0..MaxOps
    /\ pc \in [Threads -> {"idle", "ready", "precommit", "snapshot", "consume",
                           "gate", "execute", "verify", "rollback", "raised", "done"}]
    /\ \A t \in Threads : plan[t] \in Plans[t] \cup {<<>>}
    /\ \A t \in Threads : batches[t] \in 0..MaxBatches[t]
    /\ outcome \in [Threads -> {None, "refused", "ok", "failed", "raised"}]
    /\ late \in [Threads -> Nat]

\* Once the kill switch is engaged a thread starts at most one more tool: the
\* one whose check had already passed.  The loop of _bind_tool_batch does not
\* look at the switch; the check at the head of _bind_tool_execution must stop
\* every later call of a batch under way, until the switch is released.
HaltStopsTools == killswitch => \A t \in Threads : late[t] <= 1

\* A call of the plan whose cell no later call of the plan writes.
LastWriter(t, i) ==
    /\ Mutates(plan[t][i].tool)
    /\ \A j \in (i + 1)..Len(plan[t]) :
          Mutates(plan[t][j].tool) => plan[t][j].cell # plan[t][i].cell

\* A batch whose run no other run overlapped, and whose budget covered a
\* snapshot and a restore when it was admitted, is all or nothing on the
\* sandbox: either every call returned ok and its write is there, or the
\* sandbox is as the batch found it, whatever the point at which a handler
\* raised, the gate rejected a call after it had written, a window expired, a
\* rollback failed or the operator halted the runtime.
AllOrNothing ==
    \A t \in Threads :
        pc[t] = "done" /\ ~overlap[t] =>
            /\ outcome[t] = "ok" =>
                 \A i \in 1..Len(plan[t]) :
                    LastWriter(t, i) => cells[plan[t][i].cell] = <<t, batches[t], i>>
            /\ outcome[t] \in {"failed", "refused"} => Sandbox(cells) = Sandbox(before[t])
            /\ outcome[t] = "raised" => ~ample[t]

\* When the budget does not cover the restore, it raises and the snapshot is
\* never used; then the rollbacks, newest first, still undo every call that
\* had returned ok, unless one of them failed: nothing but the write of the
\* call that failed is left in the sandbox.
OnlyTheFailedCallRemains ==
    \A t \in Threads :
        pc[t] = "done" /\ outcome[t] = "raised" /\ ~overlap[t] /\ ~unrolled[t] =>
            \A c \in SandboxCells :
                cells[c] # before[t][c] => c = plan[t][index[t]].cell

\* No token outlives its batch: a run that no other overlaps leaves none
\* behind in the barrier, by whichever return or exception it leaves.
TokensAreSpent ==
    \A t \in Threads : pc[t] = "done" /\ ~overlap[t] => Token(t) \notin activeTokens
=============================================================================
