--------------------------- MODULE ToolBatch_proofs ---------------------------
(***************************************************************************)
(* Theorems about ToolBatch: for any number of threads, any plans, budgets *)
(* and bounds, a halt lets each thread start at most the one tool whose    *)
(* check had passed, a run that no other one overlaps spends its tokens    *)
(* and is all or nothing on the sandbox, and the variables keep their      *)
(* types.                                                                  *)
(***************************************************************************)
EXTENDS ToolBatch, TLAPS

Labels == {"idle", "ready", "precommit", "snapshot", "consume", "gate",
           "execute", "verify", "rollback", "raised", "done"}

\* The types the arguments below rest on.
Typed ==
    /\ killswitch \in BOOLEAN
    /\ pc \in [Threads -> Labels]
    /\ late \in [Threads -> Nat]

\* Under a halt a thread that may still start a tool has started none since.
Counted ==
    killswitch => \A t \in Threads :
        /\ late[t] <= 1
        /\ pc[t] = "execute" => late[t] = 0

HaltInv == Typed /\ Counted

LEMMA HaltInit == Init => HaltInv
<1> SUFFICES ASSUME Init PROVE HaltInv
  OBVIOUS
<1>1. killswitch = FALSE /\ pc = [t \in Threads |-> "idle"]
      /\ late = [t \in Threads |-> 0]
  BY DEF Init
<1>2. Typed
  BY <1>1 DEF Typed, Labels
<1>3. Counted
  BY <1>1 DEF Counted
<1> QED
  BY <1>2, <1>3 DEF HaltInv

\* A halt, in whatever step, keeps the count, which begins anew unless a halt is
\* already on.
LEMMA HaltKeeps ==
    ASSUME HaltInv, Halt, pc' \in [Threads -> Labels],
           \A u \in Threads : pc'[u] = "execute" => pc[u] = "execute"
    PROVE  HaltInv'
<1>1. late' \in [Threads -> Nat]
  <2>1. CASE killswitch
    BY <2>1 DEF HaltInv, Typed, Halt
  <2>2. CASE ~killswitch
    BY <2>2 DEF HaltInv, Typed, Halt
  <2> QED
    BY <2>1, <2>2
<1>2. ASSUME NEW u \in Threads
      PROVE  late'[u] <= 1 /\ (pc'[u] = "execute" => late'[u] = 0)
  <2>1. CASE killswitch
    BY <2>1 DEF HaltInv, Counted, Halt
  <2>2. CASE ~killswitch
    BY <2>2 DEF Halt
  <2> QED
    BY <2>1, <2>2
<1>3. killswitch' \in BOOLEAN
  BY DEF Halt
<1> QED
  BY <1>1, <1>2, <1>3 DEF HaltInv, Typed, Counted

\* A step that does not halt and counts nothing: only a thread that finds no halt
\* gets to its tool.
LEMMA QuietKeeps ==
    ASSUME HaltInv, late' = late, killswitch' \in BOOLEAN, killswitch' => killswitch,
           pc' \in [Threads -> Labels],
           killswitch => \A u \in Threads : pc'[u] = "execute" => pc[u] = "execute"
    PROVE  HaltInv'
BY DEF HaltInv, Typed, Counted

LEMMA HaltStep == HaltInv /\ [Next]_vars => HaltInv'
<1> SUFFICES ASSUME HaltInv, [Next]_vars PROVE HaltInv'
  OBVIOUS
<1> USE DEF HaltInv, Typed, Counted
<1>1. CASE UNCHANGED vars
  BY <1>1 DEF vars, threadVars, history
<1>2. CASE OperatorCall
  <2>1. pc' = pc
    BY <1>2 DEF OperatorCall, threadVars
  <2>2. CASE Halt
    BY <2>1, <2>2, HaltKeeps
  <2>3. CASE killswitch' = FALSE /\ late' = late
    BY <2>1, <2>3, QuietKeeps
  <2>4. CASE UNCHANGED <<killswitch, late>>
    BY <2>1, <2>4, QuietKeeps
  <2> QED
    BY <1>2, <2>2, <2>3, <2>4 DEF OperatorCall
<1>3. CASE SaveWrite \/ SaveAnchor
  BY <1>3 DEF SaveWrite, SaveAnchor, threadVars
<1>4. ASSUME NEW t \in Threads, Step(t) PROVE HaltInv'
  <2>1. CASE Authorize(t)
    BY <2>1 DEF Authorize, Goto, Labels
  <2>2. CASE Bind(t)
    BY <2>2 DEF Bind, Return, Goto, Labels
  <2>3. CASE Precommit(t)
    BY <2>3 DEF Precommit, Return, Goto, Labels
  <2>4. CASE SnapshotState(t)
    BY <2>4 DEF SnapshotState, Goto, Labels
  <2>5. CASE Consume(t)
    BY <2>5 DEF Consume, Return, Goto, Labels
  <2>6. CASE Gate(t)
    <3>1. /\ pc' \in [Threads -> Labels]
          /\ killswitch => \A u \in Threads : pc'[u] = "execute" => pc[u] = "execute"
      BY <2>6 DEF Gate, CallHalted, FailBatch, Goto, Labels
    <3>2. CASE UNCHANGED <<killswitch, late>>
      BY <3>1, <3>2, QuietKeeps
    <3>3. CASE Halt /\ FailBatch(t)
      <4>1. \A u \in Threads : pc'[u] = "execute" => pc[u] = "execute"
        BY <3>3 DEF FailBatch, Goto
      <4> QED
        BY <3>1, <3>3, <4>1, HaltKeeps
    <3> QED
      BY <2>6, <3>2, <3>3 DEF Gate
  <2>7. CASE Execute(t)
    <3>1. pc' \in [Threads -> Labels] /\ pc'[t] # "execute"
          /\ \A u \in Threads \ {t} : pc'[u] = pc[u]
      BY <2>7 DEF Execute, FailBatch, Goto, Labels
    <3>2. /\ killswitch' = killswitch
          /\ late' = IF killswitch THEN [late EXCEPT ![t] = @ + 1] ELSE late
          /\ pc[t] = "execute"
      BY <2>7 DEF Execute
    <3> QED
      BY <3>1, <3>2
  <2>8. CASE Verify(t)
    BY <2>8 DEF Verify, FailBatch, Return, Goto, Labels
  <2>9. CASE RollbackOne(t)
    BY <2>9 DEF RollbackOne
  <2>10. CASE Restore(t)
    BY <2>10 DEF Restore, Return, Goto, Labels
  <2>11. CASE Diagnose(t)
    <3>1. /\ pc' \in [Threads -> Labels]
          /\ \A u \in Threads : pc'[u] = "execute" => pc[u] = "execute"
      BY <2>11 DEF Diagnose, Return, Goto, Labels
    <3>2. CASE UNCHANGED <<killswitch, late>>
      BY <3>1, <3>2, QuietKeeps
    <3>3. CASE Halt
      BY <3>1, <3>3, HaltKeeps
    <3> QED
      BY <2>11, <3>2, <3>3 DEF Diagnose
  <2>12. CASE EndRun(t)
    BY <2>12 DEF EndRun, Goto, Labels
  <2> QED
    BY <1>4, <2>1, <2>2, <2>3, <2>4, <2>5, <2>6, <2>7, <2>8, <2>9, <2>10, <2>11,
       <2>12 DEF Step
<1> QED
  BY <1>1, <1>2, <1>3, <1>4 DEF Next

\* _bind_tool_execution: whatever the interleaving of batches, halts and
\* releases, each thread starts at most one tool after a halt.
THEOREM HaltIsRespected == Spec => []HaltStopsTools
<1>1. HaltInv => HaltStopsTools
  BY DEF HaltInv, Counted, HaltStopsTools
<1> QED
  BY HaltInit, HaltStep, <1>1, PTL DEF Spec

-----------------------------------------------------------------------------
(***************************************************************************)
(* Tokens.  A run that no other one overlaps is alone: every other thread  *)
(* is idle, so nothing spends the budget the barrier admitted the batch    *)
(* with before its snapshot is taken, and the token is consumed.           *)
(***************************************************************************)
TokenTypes ==
    /\ pc \in [Threads -> Labels]
    /\ overlap \in [Threads -> BOOLEAN]
    /\ batches \in [Threads -> Nat]
    /\ fileWrites \in Int
    /\ plan \in [Threads -> Seq([tool : Tools, cell : Cells])]

Solo ==
    \A t \in Threads : ~overlap[t] /\ pc[t] # "idle" =>
        \A u \in Threads \ {t} : pc[u] = "idle"

Funded ==
    \A t \in Threads : ~overlap[t] /\ pc[t] = "snapshot" => fileWrites >= SnapshotCost

\* Tokens are numbered by the batches bound so far.
Numbered ==
    \A t \in Threads, b \in Nat : <<t, b>> \in activeTokens => b <= batches[t]

Held ==
    \A t \in Threads : ~overlap[t] /\ Token(t) \in activeTokens =>
        pc[t] \in {"idle", "ready", "snapshot", "consume"}

TokenInv == TokenTypes /\ Solo /\ Funded /\ Numbered /\ Held

LEMMA TokenInit == Init => TokenInv
<1> SUFFICES ASSUME Init PROVE TokenInv
  OBVIOUS
<1>1. TokenTypes
  BY DEF Init, TokenTypes, Labels
<1>2. Solo /\ Funded /\ Numbered /\ Held
  BY DEF Init, Solo, Funded, Numbered, Held
<1> QED
  BY <1>1, <1>2 DEF TokenInv

\* A step of a thread that has a run concerns no thread but itself: whoever else
\* has a run is overlapped by it.
LEMMA OwnStep ==
    ASSUME TokenInv, TokenTypes', NEW t \in Threads,
           pc[t] # "idle", overlap' = overlap, Numbered',
           \A u \in Threads \ {t} : pc'[u] = pc[u],
           ~overlap[t] /\ pc'[t] = "snapshot" => fileWrites' >= SnapshotCost,
           ~overlap[t] /\ Token(t)' \in activeTokens' =>
               pc'[t] \in {"idle", "ready", "snapshot", "consume"}
    PROVE  TokenInv'
<1>1. ASSUME NEW u \in Threads \ {t}, ~overlap[u] PROVE pc'[u] = "idle"
  BY <1>1 DEF TokenInv, Solo
<1>2. ASSUME ~overlap[t] PROVE \A u \in Threads \ {t} : pc'[u] = "idle"
  BY <1>2 DEF TokenInv, Solo
<1>3. Solo'
  BY <1>1, <1>2 DEF Solo
<1>4. Funded'
  BY <1>1 DEF Funded
<1>5. Held'
  BY <1>1 DEF Held
<1> QED
  BY <1>3, <1>4, <1>5 DEF TokenInv

LEMMA TokenStep == TokenInv /\ [Next]_vars => TokenInv'
<1> SUFFICES ASSUME TokenInv, [Next]_vars PROVE TokenInv'
  OBVIOUS
<1>1. CASE UNCHANGED <<pc, overlap, batches, fileWrites, plan, activeTokens>>
  BY <1>1 DEF TokenInv, TokenTypes, Solo, Funded, Numbered, Held, Token
<1>2. CASE OperatorCall \/ SaveWrite \/ SaveAnchor
  BY <1>1, <1>2 DEF OperatorCall, SaveWrite, SaveAnchor, threadVars, history
<1>3. ASSUME NEW t \in Threads, Authorize(t) PROVE TokenInv'
  <2> DEFINE others == {u \in Threads \ {t} : pc[u] # "idle"}
  <2>1. /\ pc[t] = "idle" /\ pc' = [pc EXCEPT ![t] = "ready"]
        /\ fileWrites' \in Nat
        /\ UNCHANGED <<batches, plan, activeTokens>>
    BY <1>3, BoundsAssumption DEF Authorize, Goto
  <2>2. overlap' = [u \in Threads |->
                      IF u = t THEN others # {} ELSE overlap[u] \/ u \in others]
    BY <1>3 DEF Authorize
  <2>3. TokenTypes'
    <3>1. overlap' \in [Threads -> BOOLEAN]
      BY <2>2, Zenon
    <3>2. pc' \in [Threads -> Labels]
      BY <2>1 DEF TokenInv, TokenTypes, Labels
    <3>3. fileWrites' \in Int
      BY <2>1
    <3> QED
      BY <2>1, <3>1, <3>2, <3>3, Zenon DEF TokenInv, TokenTypes
  <2>4. ASSUME NEW u \in Threads, ~overlap'[u]
        PROVE  \/ u = t /\ \A v \in Threads \ {t} : pc'[v] = "idle"
               \/ u # t /\ pc'[u] = "idle"
    <3>1. CASE u = t
      BY <2>1, <2>2, <2>4, <3>1 DEF TokenInv, TokenTypes
    <3>2. CASE u # t
      <4>1. u \notin others
        BY <2>2, <2>4, <3>2
      <4> QED
        BY <2>1, <3>2, <4>1 DEF TokenInv, TokenTypes
    <3> QED
      BY <3>1, <3>2
  <2>5. pc'[t] = "ready"
    BY <2>1 DEF TokenInv, TokenTypes
  <2>6. Solo' /\ Funded'
    BY <2>4, <2>5 DEF Solo, Funded
  <2>7. Held'
    BY <2>4, <2>5 DEF Held
  <2>8. Numbered'
    BY <2>1 DEF TokenInv, Numbered
  <2> QED
    BY <2>3, <2>6, <2>7, <2>8 DEF TokenInv
<1>4. ASSUME NEW t \in Threads, Bind(t) PROVE TokenInv'
  <2>1. /\ pc[t] \in {"ready", "done"}
        /\ batches' = [batches EXCEPT ![t] = @ + 1]
        /\ UNCHANGED <<fileWrites, overlap, activeTokens>>
        /\ \E label \in {"precommit", "done"} : pc' = [pc EXCEPT ![t] = label]
    BY <1>4 DEF Bind, Goto, Return
  <2>2. plan' \in [Threads -> Seq([tool : Tools, cell : Cells])]
    BY <1>4, BoundsAssumption DEF Bind, TokenInv, TokenTypes
  <2>3. TokenTypes'
    <3>1. pc' \in [Threads -> Labels] /\ batches' \in [Threads -> Nat]
      BY <2>1 DEF TokenInv, TokenTypes, Labels
    <3> QED
      BY <2>1, <2>2, <3>1, Zenon DEF TokenInv, TokenTypes
  <2>4. Numbered'
    BY <2>1 DEF TokenInv, TokenTypes, Numbered
  <2>5. Token(t)' \notin activeTokens'
    BY <2>1 DEF TokenInv, TokenTypes, Numbered, Token
  <2>6. pc'[t] \in {"precommit", "done"} /\ \A u \in Threads \ {t} : pc'[u] = pc[u]
    BY <2>1 DEF TokenInv, TokenTypes
  <2> QED
    BY <2>1, <2>3, <2>4, <2>5, <2>6, OwnStep
<1>5. ASSUME NEW t \in Threads, Precommit(t) PROVE TokenInv'
  <2>1. /\ pc[t] = "precommit"
        /\ UNCHANGED <<fileWrites, overlap, batches, plan>>
    BY <1>5 DEF Precommit
  <2>2. CASE /\ Admits(t) /\ activeTokens' = activeTokens \cup {Token(t)}
             /\ pc' = [pc EXCEPT ![t] = IF IsMutating(plan[t]) THEN "snapshot" ELSE "consume"]
    <3>1. TokenTypes'
      BY <2>1, <2>2 DEF TokenInv, TokenTypes, Labels
    <3>2. Numbered'
      BY <2>1, <2>2 DEF TokenInv, TokenTypes, Numbered, Token
    <3>3. fileWrites' >= SnapshotCost
      BY <2>1, <2>2 DEF Admits, TokenInv, TokenTypes, SnapshotCost
    <3>4. pc'[t] \in {"snapshot", "consume"} /\ \A u \in Threads \ {t} : pc'[u] = pc[u]
      BY <2>2 DEF TokenInv, TokenTypes
    <3> QED
      BY <2>1, <3>1, <3>2, <3>3, <3>4, OwnStep
  <2>3. CASE Return(t, "refused") /\ activeTokens' = activeTokens
    <3>1. TokenTypes' /\ pc'[t] = "done" /\ \A u \in Threads \ {t} : pc'[u] = pc[u]
      BY <2>1, <2>3 DEF Return, Goto, TokenInv, TokenTypes, Labels
    <3>2. Numbered'
      BY <2>1, <2>3 DEF TokenInv, Numbered
    <3>3. ~overlap[t] => Token(t)' \notin activeTokens'
      BY <2>1, <2>3 DEF TokenInv, Held, Token
    <3> QED
      BY <2>1, <3>1, <3>2, <3>3, OwnStep
  <2> QED
    BY <1>5, <2>2, <2>3 DEF Precommit, Goto
<1>6. ASSUME NEW t \in Threads, SnapshotState(t) PROVE TokenInv'
  <2>1. /\ pc[t] = "snapshot"
        /\ UNCHANGED <<overlap, batches, plan, activeTokens>>
        /\ \E label \in {"consume", "raised"} : pc' = [pc EXCEPT ![t] = label]
        /\ fileWrites' = fileWrites \/ fileWrites' = fileWrites - SnapshotCost
    BY <1>6 DEF SnapshotState, Goto, history
  <2>2. ~overlap[t] => pc' = [pc EXCEPT ![t] = "consume"]
    BY <1>6, <2>1 DEF SnapshotState, Affordable, Goto, TokenInv, Funded
  <2>3. TokenTypes'
    <3>1. pc' \in [Threads -> Labels] /\ fileWrites' \in Int
      BY <2>1 DEF TokenInv, TokenTypes, Labels, SnapshotCost
    <3> QED
      BY <2>1, <3>1, Zenon DEF TokenInv, TokenTypes
  <2>4. Numbered'
    BY <2>1 DEF TokenInv, Numbered
  <2>5. /\ ~overlap[t] => pc'[t] = "consume"
        /\ pc'[t] # "snapshot"
        /\ \A u \in Threads \ {t} : pc'[u] = pc[u]
    BY <2>1, <2>2 DEF TokenInv, TokenTypes
  <2> QED
    BY <2>1, <2>3, <2>4, <2>5, OwnStep
<1>7. ASSUME NEW t \in Threads, Consume(t) PROVE TokenInv'
  <2>1. /\ pc[t] = "consume"
        /\ activeTokens' = activeTokens \ {Token(t)}
        /\ UNCHANGED <<overlap, batches, plan, fileWrites>>
        /\ \E label \in {"gate", "done"} : pc' = [pc EXCEPT ![t] = label]
    BY <1>7 DEF Consume, Return, Goto, history
  <2>2. TokenTypes' /\ pc'[t] # "snapshot" /\ \A u \in Threads \ {t} : pc'[u] = pc[u]
    BY <2>1 DEF TokenInv, TokenTypes, Labels
  <2>3. Numbered' /\ Token(t)' \notin activeTokens'
    BY <2>1 DEF TokenInv, Numbered, Token
  <2> QED
    BY <2>1, <2>2, <2>3, OwnStep
<1>8. ASSUME NEW t \in Threads,
             Gate(t) \/ Execute(t) \/ Verify(t) \/ RollbackOne(t) \/ Restore(t)
               \/ Diagnose(t)
      PROVE  TokenInv'
  <2>1. /\ pc[t] \in {"gate", "execute", "verify", "rollback", "raised"}
        /\ UNCHANGED <<overlap, batches, plan, activeTokens>>
    BY <1>8 DEF Gate, Execute, Verify, RollbackOne, Restore, Diagnose, history
  <2>2. \E label \in {"gate", "execute", "verify", "rollback", "raised", "done"} :
            pc' = [pc EXCEPT ![t] = label]
    <3>1. CASE RollbackOne(t)
      BY <3>1 DEF RollbackOne, TokenInv, TokenTypes
    <3> QED
      BY <1>8, <3>1 DEF Gate, Execute, Verify, Restore, Diagnose, FailBatch, Return, Goto
  <2>3. fileWrites' \in Int
    BY <1>8 DEF Gate, Execute, Verify, RollbackOne, Restore, Diagnose, TokenInv,
                TokenTypes, FileCost, SnapshotCost
  <2>4. TokenTypes' /\ pc'[t] # "snapshot" /\ \A u \in Threads \ {t} : pc'[u] = pc[u]
    BY <2>1, <2>2, <2>3 DEF TokenInv, TokenTypes, Labels
  <2>5. Numbered' /\ (~overlap[t] => Token(t)' \notin activeTokens')
    BY <2>1 DEF TokenInv, Numbered, Held, Token
  <2> QED
    BY <2>1, <2>4, <2>5, OwnStep
<1>9. ASSUME NEW t \in Threads, EndRun(t) PROVE TokenInv'
  <2>1. /\ pc[t] = "done" /\ pc' = [pc EXCEPT ![t] = "idle"]
        /\ plan' = [plan EXCEPT ![t] = <<>>]
        /\ UNCHANGED <<overlap, batches, fileWrites, activeTokens>>
    BY <1>9 DEF EndRun, Goto
  <2>2. pc' \in [Threads -> Labels] /\ pc'[t] = "idle" /\ \A u \in Threads \ {t} : pc'[u] = pc[u]
    BY <2>1 DEF TokenInv, TokenTypes, Labels
  <2>4. plan' \in [Threads -> Seq([tool : Tools, cell : Cells])]
    <3>1. <<>> \in Seq([tool : Tools, cell : Cells])
      OBVIOUS
    <3> QED
      BY <2>1, <3>1 DEF TokenInv, TokenTypes
  <2>5. TokenTypes'
    BY <2>1, <2>2, <2>4 DEF TokenInv, TokenTypes
  <2>3. Numbered'
    BY <2>1 DEF TokenInv, Numbered
  <2> QED
    BY <2>1, <2>2, <2>3, <2>5, OwnStep
<1> QED
  BY <1>1, <1>2, <1>3, <1>4, <1>5, <1>6, <1>7, <1>8, <1>9
  DEF Next, Step, vars, threadVars, history

\* barrier.py: a run that no other run overlaps leaves no token behind, by
\* whichever return or exception it leaves, for any plans and budgets.
THEOREM TokensSpent == Spec => []TokensAreSpent
<1>1. TokenInv => TokensAreSpent
  BY DEF TokenInv, Held, TokensAreSpent
<1> QED
  BY TokenInit, TokenStep, <1>1, PTL DEF Spec

-----------------------------------------------------------------------------
(***************************************************************************)
(* Types.                                                                  *)
(***************************************************************************)
Calls == [tool : Tools, cell : Cells]
Records == [index : Nat, previous : Contents]
Bindings == [persisted : Nat, receipt : Contents, previous : Contents]

ControlTypes ==
    /\ killswitch \in BOOLEAN
    /\ executionMode \in {"plan", "execute"}
    /\ operator \in {"idle", "write", "anchor"}
    /\ ops \in 0..MaxOps
    /\ persisted \in 0..(IF operator = "write" THEN ops - 1 ELSE ops)
    /\ anchorHash \in 0..persisted
    /\ late \in [Threads -> Nat]

\* A batch is bound and its loop has not returned.
Working(t) == pc[t] \in {"precommit", "snapshot", "consume", "gate", "execute", "verify",
                         "rollback"}

RunTypes ==
    /\ gateAnchor \in Contents
    /\ fileWrites \in Nat
    /\ cells \in [Cells -> Contents]
    /\ pc \in [Threads -> Labels]
    /\ plan \in [Threads -> Seq(Calls)]
    /\ \A t \in Threads : plan[t] \in Plans[t] \cup {<<>>}
    /\ index \in [Threads -> Nat]
    /\ snapshot \in [Threads -> {None} \cup [SandboxCells -> Contents]]
    /\ executed \in [Threads -> Seq(Records)]
    /\ binding \in [Threads -> Bindings]
    /\ batches \in [Threads -> Nat] /\ \A t \in Threads : batches[t] <= MaxBatches[t]
    /\ outcome \in [Threads -> {None, "refused", "ok", "failed", "raised"}]
    /\ before \in [Threads -> [Cells -> Contents]]
    /\ ample \in [Threads -> BOOLEAN]
    /\ unrolled \in [Threads -> BOOLEAN]
    /\ \A token \in activeTokens : token \in Threads \X Nat /\ token[2] \in 1..batches[token[1]]
    /\ \A t \in Threads : Working(t) => batches[t] > 0 /\ index[t] \in 1..Len(plan[t])

-----------------------------------------------------------------------------
(***************************************************************************)
(* The types are kept.                                                     *)
(***************************************************************************)
LEMMA TypesInit == Init => ControlTypes /\ RunTypes
<1> SUFFICES ASSUME Init PROVE ControlTypes /\ RunTypes
  OBVIOUS
<1>1. ControlTypes
  <2>1. MaxOps \in Nat
    BY BoundsAssumption
  <2>2. /\ killswitch = FALSE /\ executionMode = "execute" /\ operator = "idle"
        /\ ops = 0 /\ persisted = 0 /\ anchorHash = 0 /\ late = [t \in Threads |-> 0]
    BY DEF Init
  <2>3. late \in [Threads -> Nat]
    BY <2>2
  <2>4. ops \in 0..MaxOps /\ persisted \in 0..ops /\ anchorHash \in 0..persisted
    BY <2>1, <2>2
  <2> QED BY <2>2, <2>3, <2>4 DEF ControlTypes
<1>2. RunTypes
  <2>1. <<>> \in Seq(Calls) /\ <<>> \in Seq(Records)
    OBVIOUS
  <2>2. NoCells \in [Cells -> Contents] /\ NoBinding \in Bindings /\ None \in Contents
    BY DEF NoCells, NoBinding, Contents, Bindings
  <2>3. \A t \in Threads : 0 <= MaxBatches[t]
    BY BoundsAssumption
  <2>4. \A t \in Threads : ~Working(t)
    BY DEF Init, Working
  <2> QED BY <2>1, <2>2, <2>3, <2>4 DEF Init, RunTypes, Labels
<1> QED BY <1>1, <1>2

LEMMA ControlStep == ControlTypes /\ RunTypes /\ [Next]_vars => ControlTypes'
<1> SUFFICES ASSUME ControlTypes, RunTypes, [Next]_vars PROVE ControlTypes'
  OBVIOUS
<1>1. ASSUME UNCHANGED <<operator, ops, persisted, anchorHash>>,
             killswitch' \in BOOLEAN, executionMode' \in {"plan", "execute"},
             late' \in [Threads -> Nat]
      PROVE  ControlTypes'
  BY <1>1 DEF ControlTypes
<1>2. Halt => killswitch' \in BOOLEAN /\ late' \in [Threads -> Nat]
  <2>1. [t \in Threads |-> 0] \in [Threads -> Nat]
    OBVIOUS
  <2> QED BY <2>1 DEF Halt, ControlTypes
<1>3. CASE UNCHANGED vars
  BY <1>3 DEF vars, ControlTypes
<1>4. CASE OperatorCall
  <2>1. /\ ops' = ops + 1 /\ ops < MaxOps /\ operator' = "write" /\ operator = "idle"
        /\ persisted' = persisted /\ anchorHash' = anchorHash
        /\ executionMode' \in {"plan", "execute"}
        /\ Halt \/ (killswitch' \in BOOLEAN /\ late' = late)
    BY <1>4 DEF OperatorCall, ControlTypes
  <2>2. killswitch' \in BOOLEAN /\ late' \in [Threads -> Nat]
    BY <1>2, <2>1 DEF ControlTypes
  <2> QED BY <2>1, <2>2, BoundsAssumption DEF ControlTypes
<1>5. CASE SaveWrite
  BY <1>5, BoundsAssumption DEF SaveWrite, ControlTypes
<1>6. CASE SaveAnchor
  BY <1>6, BoundsAssumption DEF SaveAnchor, ControlTypes
<1>7. ASSUME NEW t \in Threads, Step(t) PROVE ControlTypes'
  <2>1. UNCHANGED <<operator, ops, persisted, anchorHash>>
    BY <1>7 DEF Step, Authorize, Bind, Precommit, SnapshotState, Consume, Gate, Execute,
                Verify, RollbackOne, Restore, Diagnose, EndRun
  <2>2. /\ \/ Halt
           \/ UNCHANGED <<killswitch, late>>
           \/ killswitch' = killswitch /\ late' = [late EXCEPT ![t] = @ + 1]
        /\ executionMode' \in {executionMode, "plan"}
    BY <1>7 DEF Step, Authorize, Bind, Precommit, SnapshotState, Consume, Gate, Execute,
                Verify, RollbackOne, Restore, Diagnose, EndRun
  <2>3. killswitch' \in BOOLEAN /\ late' \in [Threads -> Nat]
    BY <1>2, <2>2 DEF ControlTypes
  <2> QED BY <1>1, <2>1, <2>2, <2>3 DEF ControlTypes
<1> QED BY <1>3, <1>4, <1>5, <1>6, <1>7 DEF Next

LEMMA RunTypesStep == RunTypes /\ ControlTypes /\ [Next]_vars => RunTypes'
<1> SUFFICES ASSUME RunTypes, ControlTypes, [Next]_vars PROVE RunTypes'
  OBVIOUS
<1>1. CASE UNCHANGED vars
  BY <1>1 DEF vars, threadVars, history, RunTypes, Working
<1>2. CASE OperatorCall \/ SaveWrite \/ SaveAnchor
  BY <1>2 DEF OperatorCall, SaveWrite, SaveAnchor, threadVars, history, RunTypes, Working
<1>3. ASSUME NEW t \in Threads, Authorize(t) PROVE RunTypes'
  <2>1. fileWrites' \in Nat
    BY <1>3, BoundsAssumption DEF Authorize
  <2>2. pc' \in [Threads -> Labels]
    BY <1>3 DEF Authorize, Goto, RunTypes, Labels
  <2>3. \A u \in Threads : Working(u)' => Working(u)
    BY <1>3 DEF Authorize, Goto, RunTypes, Working
  <2> QED BY <1>3, <2>1, <2>2, <2>3 DEF Authorize, RunTypes
<1>4. ASSUME NEW t \in Threads, Bind(t) PROVE RunTypes'
  <2>1. PICK p \in Plans[t] : plan' = [plan EXCEPT ![t] = p]
    BY <1>4 DEF Bind
  <2>2. p \in Seq(Calls)
    BY BoundsAssumption DEF Calls
  <2>3. /\ plan' \in [Threads -> Seq(Calls)]
        /\ \A u \in Threads : plan'[u] \in Plans[u] \cup {<<>>}
    BY <2>1, <2>2 DEF RunTypes
  <2>4. pc' \in [Threads -> Labels]
    <3>1. pc' = [pc EXCEPT ![t] = "precommit"] \/ pc' = [pc EXCEPT ![t] = "done"]
      BY <1>4 DEF Bind, Goto, Return
    <3> QED BY <3>1 DEF RunTypes, Labels
  <2>5. /\ batches' = [batches EXCEPT ![t] = @ + 1] /\ batches[t] < MaxBatches[t]
        /\ MaxBatches[t] \in Nat
    BY <1>4, BoundsAssumption DEF Bind
  <2>6. batches' \in [Threads -> Nat] /\ \A u \in Threads : batches'[u] <= MaxBatches[u]
    BY <2>5 DEF RunTypes
  <2>7. \A token \in activeTokens' : token \in Threads \X Nat /\ token[2] \in 1..batches'[token[1]]
    <3>1. \A u \in Threads : batches[u] \in Nat /\ batches'[u] \in Nat /\ batches[u] <= batches'[u]
      BY <2>5, <2>6 DEF RunTypes
    <3>2. \A token \in activeTokens : token \in Threads \X Nat /\ token[2] \in 1..batches[token[1]]
      BY DEF RunTypes
    <3>3. activeTokens' = activeTokens
      BY <1>4 DEF Bind
    <3> QED BY <3>1, <3>2, <3>3
  <2>8. /\ index' \in [Threads -> Nat]
        /\ snapshot' \in [Threads -> {None} \cup [SandboxCells -> Contents]]
        /\ before' \in [Threads -> [Cells -> Contents]]
        /\ unrolled' \in [Threads -> BOOLEAN]
    BY <1>4 DEF Bind, RunTypes
  <2>9. executed' \in [Threads -> Seq(Records)]
    <3>1. <<>> \in Seq(Records)
      OBVIOUS
    <3> QED BY <1>4, <3>1 DEF Bind, RunTypes
  <2>10. outcome' \in [Threads -> {None, "refused", "ok", "failed", "raised"}]
    BY <1>4 DEF Bind, Return, RunTypes
  <2>11. UNCHANGED <<gateAnchor, fileWrites, cells, binding, ample>>
    BY <1>4 DEF Bind
  <2>12. \A u \in Threads : Working(u)' => batches'[u] > 0 /\ index'[u] \in 1..Len(plan'[u])
    <3>1. \A u \in Threads \ {t} : /\ pc'[u] = pc[u] /\ batches'[u] = batches[u]
                                  /\ index'[u] = index[u] /\ plan'[u] = plan[u]
      BY <1>4 DEF Bind, Goto, Return, RunTypes
    <3>2. batches'[t] > 0 /\ index'[t] = 1
      BY <1>4, <2>5 DEF Bind, RunTypes
    <3>3. plan'[t] \in Seq(Calls) \ {<<>>}
      BY <2>1, BoundsAssumption DEF RunTypes, Calls
    <3>4. Len(plan'[t]) \in Nat \ {0}
      BY <3>3
    <3> QED BY <3>1, <3>2, <3>4 DEF RunTypes, Working
  <2> QED BY <2>3, <2>4, <2>6, <2>7, <2>8, <2>9, <2>10, <2>11, <2>12 DEF RunTypes
<1>5. ASSUME NEW t \in Threads, Precommit(t) PROVE RunTypes'
  <2>1. /\ pc' \in [Threads -> Labels]
        /\ outcome' \in [Threads -> {None, "refused", "ok", "failed", "raised"}]
        /\ ample' \in [Threads -> BOOLEAN]
    <3>1. \/ pc' = [pc EXCEPT ![t] = "snapshot"] /\ outcome' = outcome
          \/ pc' = [pc EXCEPT ![t] = "consume"] /\ outcome' = outcome
          \/ pc' = [pc EXCEPT ![t] = "done"] /\ outcome' = [outcome EXCEPT ![t] = "refused"]
      BY <1>5 DEF Precommit, Return, Goto
    <3>2. ample' = [ample EXCEPT ![t] = fileWrites >= Len(plan[t]) + 2 * SnapshotCost]
      BY <1>5 DEF Precommit
    <3>3. ample' \in [Threads -> BOOLEAN]
      <4>1. (fileWrites >= Len(plan[t]) + 2 * SnapshotCost) \in BOOLEAN
        OBVIOUS
      <4> QED BY <3>2, <4>1, Zenon DEF RunTypes
    <3> QED BY <3>1, <3>3 DEF RunTypes, Labels
  <2>2. \A token \in activeTokens' : token \in Threads \X Nat /\ token[2] \in 1..batches[token[1]]
    <3>1. \A token \in activeTokens : token \in Threads \X Nat /\ token[2] \in 1..batches[token[1]]
      BY DEF RunTypes
    <3>2. CASE activeTokens' = activeTokens
      BY <3>1, <3>2
    <3>3. CASE activeTokens' = activeTokens \cup {Token(t)}
      <4>1. batches[t] \in Nat /\ 1 <= batches[t]
        BY <1>5 DEF Precommit, RunTypes, Working
      <4> QED BY <3>1, <3>3, <4>1 DEF Token
    <3> QED BY <1>5, <3>2, <3>3 DEF Precommit
  <2>3. \A u \in Threads : Working(u)' => Working(u)
    BY <1>5 DEF Precommit, Return, Goto, RunTypes, Working
  <2> QED BY <1>5, <2>1, <2>2, <2>3 DEF Precommit, RunTypes
<1> USE DEF RunTypes
<1>6. ASSUME NEW t \in Threads,
             pc' \in [Threads -> Labels], index' \in [Threads -> Nat],
             \A u \in Threads \ {t} : pc'[u] = pc[u] /\ index'[u] = index[u],
             Working(t)' => Working(t) /\ index'[t] \in 1..Len(plan[t]),
             UNCHANGED <<plan, batches, before, ample>>, activeTokens' \subseteq activeTokens,
             gateAnchor' \in Contents, fileWrites' \in Nat, cells' \in [Cells -> Contents],
             snapshot' \in [Threads -> {None} \cup [SandboxCells -> Contents]],
             executed' \in [Threads -> Seq(Records)], binding' \in [Threads -> Bindings],
             outcome' \in [Threads -> {None, "refused", "ok", "failed", "raised"}],
             unrolled' \in [Threads -> BOOLEAN]
      PROVE  RunTypes'
  <2>1. \A u \in Threads : Working(u)' => batches'[u] > 0 /\ index'[u] \in 1..Len(plan'[u])
    BY <1>6 DEF Working
  <2> QED BY <1>6, <2>1
<1>7. ASSUME NEW t \in Threads, SnapshotState(t) PROVE RunTypes'
  <2>1. fileWrites' \in Nat
    BY <1>7 DEF SnapshotState, Affordable, SnapshotCost
  <2>2. /\ pc' \in [Threads -> Labels] /\ \A u \in Threads \ {t} : pc'[u] = pc[u]
        /\ index' = index /\ Working(t)
    BY <1>7 DEF SnapshotState, Goto, Labels, Working
  <2>3. snapshot' \in [Threads -> {None} \cup [SandboxCells -> Contents]]
    <3>1. Sandbox(cells) \in [SandboxCells -> Contents]
      BY DEF Sandbox, Cells
    <3> QED BY <1>7, <3>1 DEF SnapshotState
  <2> QED BY <1>6, <1>7, <2>1, <2>2, <2>3 DEF SnapshotState, history
<1>8. ASSUME NEW t \in Threads, Consume(t) PROVE RunTypes'
  <2>1. /\ pc' \in [Threads -> Labels] /\ \A u \in Threads \ {t} : pc'[u] = pc[u]
        /\ outcome' \in [Threads -> {None, "refused", "ok", "failed", "raised"}]
        /\ index' = index /\ Working(t)
    BY <1>8 DEF Consume, Goto, Return, Labels, Working
  <2> QED BY <1>6, <1>8, <2>1 DEF Consume, history
<1>9. ASSUME NEW t \in Threads, Gate(t) PROVE RunTypes'
  <2>1. /\ pc' \in [Threads -> Labels] /\ \A u \in Threads \ {t} : pc'[u] = pc[u]
        /\ Working(t)
    BY <1>9 DEF Gate, FailBatch, Goto, Labels, Working
  <2>2. UNCHANGED <<plan, batches, before, ample, activeTokens, fileWrites, cells, index,
                    snapshot, executed, outcome, unrolled>>
    BY <1>9 DEF Gate, history
  <2>3. gateAnchor' \in Contents /\ binding' \in [Threads -> Bindings]
    <3>1. \/ UNCHANGED <<gateAnchor, binding>>
          \/ /\ gateAnchor' = Mark(t)
             /\ binding' = [binding EXCEPT ![t] = [persisted |-> persisted, receipt |-> None,
                                                   previous |-> None]]
      BY <1>9 DEF Gate
    <3>2. Mark(t) \in Contents /\ None \in Contents /\ persisted \in Nat
      <4>1. MaxOps \in Nat
        BY BoundsAssumption
      <4>2. persisted \in Nat
        BY <4>1 DEF ControlTypes
      <4> QED BY <4>2 DEF Mark, Contents, Marks
    <3>3. PICK b : b = [persisted |-> persisted, receipt |-> None, previous |-> None]
      OBVIOUS
    <3>4. b \in Bindings
      BY <3>2, <3>3 DEF Bindings
    <3>5. binding' = binding \/ binding' = [binding EXCEPT ![t] = b]
      BY <3>1, <3>3, Zenon
    <3> QED BY <3>1, <3>2, <3>4, <3>5
  <2> QED BY <1>6, <2>1, <2>2, <2>3
<1>10. ASSUME NEW t \in Threads, Execute(t) PROVE RunTypes'
  <2>1. /\ pc' \in [Threads -> Labels] /\ \A u \in Threads \ {t} : pc'[u] = pc[u]
        /\ Working(t)
    BY <1>10 DEF Execute, FailBatch, Goto, Labels, Working
  <2>2. UNCHANGED <<plan, batches, before, ample, activeTokens, index, snapshot, executed,
                    outcome, unrolled>>
    BY <1>10 DEF Execute, history
  <2>3. Mark(t) \in Contents /\ None \in Contents
    BY DEF Mark, Contents, Marks
  <2>4. gateAnchor' \in Contents
    BY <1>10, <2>3 DEF Execute
  <2>5. cells' \in [Cells -> Contents]
    BY <1>10, <2>3 DEF Execute, Writes
  <2>6. fileWrites' \in Nat
    BY <1>10 DEF Execute, Affordable, FileCost
  <2>7. binding' \in [Threads -> Bindings]
    <3>1. cells[Call(t).cell] \in Contents
      <4>1. plan[t][index[t]] \in Calls
        BY <2>1
      <4> QED BY <4>1 DEF Call, Calls
    <3>2. CASE binding' = [binding EXCEPT
                    ![t].receipt = IF EmitsReceipt(Call(t).tool) THEN gateAnchor ELSE None,
                    ![t].previous = cells[Call(t).cell]]
      <4> PICK r : r = IF EmitsReceipt(Call(t).tool) THEN gateAnchor ELSE None
        OBVIOUS
      <4> PICK c : c = cells[Call(t).cell]
        OBVIOUS
      <4>1. r \in Contents /\ c \in Contents /\ binding[t] \in Bindings
        BY <2>3, <3>1
      <4>2. binding' = [binding EXCEPT ![t].receipt = r, ![t].previous = c]
        BY <3>2, Zenon
      <4>3. \A u \in Threads : binding'[u] \in Bindings
        BY <4>1, <4>2 DEF Bindings
      <4>4. binding' = [u \in Threads |-> binding'[u]]
        BY <4>2
      <4> QED BY <4>3, <4>4
    <3> QED BY <1>10, <3>2 DEF Execute
  <2> QED BY <1>6, <2>1, <2>2, <2>4, <2>5, <2>6, <2>7
<1>11. ASSUME NEW t \in Threads, Verify(t) PROVE RunTypes'
  <2>1. /\ pc' \in [Threads -> Labels] /\ \A u \in Threads \ {t} : pc'[u] = pc[u]
        /\ Working(t) /\ outcome' \in [Threads -> {None, "refused", "ok", "failed", "raised"}]
    BY <1>11 DEF Verify, FailBatch, Return, Goto, Labels, Working
  <2>2. UNCHANGED <<plan, batches, before, ample, activeTokens, gateAnchor, fileWrites, cells,
                    snapshot, binding, unrolled>>
    BY <1>11 DEF Verify, history
  <2>3. /\ index' \in [Threads -> Nat] /\ \A u \in Threads \ {t} : index'[u] = index[u]
        /\ index'[t] \in 1..Len(plan[t])
    BY <1>11, <2>1 DEF Verify
  <2>4. executed' \in [Threads -> Seq(Records)]
    <3>1. Record(t) \in Records
      BY DEF Record, Records, Bindings
    <3>2. Append(executed[t], Record(t)) \in Seq(Records)
      BY <3>1
    <3> QED BY <1>11, <3>2 DEF Verify
  <2> QED BY <1>6, <2>1, <2>2, <2>3, <2>4
<1>12. ASSUME NEW t \in Threads, RollbackOne(t) PROVE RunTypes'
  <2>1. executed[t] \in Seq(Records) /\ executed[t] # <<>> /\ pc' = pc /\ Working(t)
    BY <1>12 DEF RollbackOne, Working
  <2>2. executed' \in [Threads -> Seq(Records)]
    <3>1. SubSeq(executed[t], 1, Len(executed[t]) - 1) \in Seq(Records)
      BY <2>1
    <3> QED BY <1>12, <3>1 DEF RollbackOne
  <2>3. cells' \in [Cells -> Contents]
    <3>1. executed[t][Len(executed[t])].previous \in Contents
      <4>1. Len(executed[t]) \in 1..Len(executed[t])
        BY <2>1
      <4>2. executed[t][Len(executed[t])] \in Records
        BY <2>1, <4>1
      <4> QED BY <4>2 DEF Records
    <3> QED BY <1>12, <3>1 DEF RollbackOne
  <2>4. unrolled' \in [Threads -> BOOLEAN]
    BY <1>12 DEF RollbackOne
  <2> QED BY <1>6, <1>12, <2>1, <2>2, <2>3, <2>4 DEF RollbackOne
<1>13. ASSUME NEW t \in Threads, Restore(t) PROVE RunTypes'
  <2>1. /\ pc' \in [Threads -> Labels] /\ \A u \in Threads \ {t} : pc'[u] = pc[u]
        /\ Working(t) /\ outcome' \in [Threads -> {None, "refused", "ok", "failed", "raised"}]
    BY <1>13 DEF Restore, Return, Goto, Labels, Working
  <2>2. UNCHANGED <<plan, batches, before, ample, activeTokens, gateAnchor, index, executed,
                    snapshot, binding, unrolled>>
    BY <1>13 DEF Restore, history
  <2>3. fileWrites' \in Nat
    BY <1>13 DEF Restore, Affordable, SnapshotCost
  <2>4. cells' \in [Cells -> Contents]
    <3>1. CASE cells' = cells
      BY <3>1
    <3>2. CASE snapshot[t] # None /\ cells' = Restored(t)
      <4>1. snapshot[t] \in [SandboxCells -> Contents]
        BY <3>2
      <4> QED BY <3>2, <4>1 DEF Restored, Cells
    <3> QED BY <1>13, <3>1, <3>2 DEF Restore
  <2> QED BY <1>6, <2>1, <2>2, <2>3, <2>4
<1>14. ASSUME NEW t \in Threads, Diagnose(t) PROVE RunTypes'
  <2>1. /\ pc' \in [Threads -> Labels] /\ \A u \in Threads \ {t} : pc'[u] = pc[u]
        /\ ~Working(t)' /\ outcome' \in [Threads -> {None, "refused", "ok", "failed", "raised"}]
    BY <1>14 DEF Diagnose, Return, Goto, Labels, Working
  <2> QED BY <1>6, <1>14, <2>1 DEF Diagnose, history
<1>15. ASSUME NEW t \in Threads, EndRun(t) PROVE RunTypes'
  <2>1. /\ pc' \in [Threads -> Labels] /\ \A u \in Threads \ {t} : pc'[u] = pc[u]
        /\ ~Working(t)' /\ outcome' \in [Threads -> {None, "refused", "ok", "failed", "raised"}]
    BY <1>15 DEF EndRun, Goto, Labels, Working
  <2>2. <<>> \in Seq(Calls) /\ <<>> \in Seq(Records)
    OBVIOUS
  <2>3. NoCells \in [Cells -> Contents] /\ NoBinding \in Bindings
    BY DEF NoCells, NoBinding, Contents, Bindings
  <2>4. /\ plan' \in [Threads -> Seq(Calls)] /\ executed' \in [Threads -> Seq(Records)]
        /\ \A u \in Threads : plan'[u] \in Plans[u] \cup {<<>>}
    BY <1>15, <2>2 DEF EndRun
  <2>5. /\ index' \in [Threads -> Nat] /\ \A u \in Threads \ {t} : index'[u] = index[u]
        /\ \A u \in Threads \ {t} : plan'[u] = plan[u]
        /\ snapshot' \in [Threads -> {None} \cup [SandboxCells -> Contents]]
        /\ binding' \in [Threads -> Bindings] /\ before' \in [Threads -> [Cells -> Contents]]
        /\ ample' \in [Threads -> BOOLEAN] /\ unrolled' \in [Threads -> BOOLEAN]
    BY <1>15, <2>3 DEF EndRun
  <2>6. \A u \in Threads : Working(u)' => batches'[u] > 0 /\ index'[u] \in 1..Len(plan'[u])
    BY <1>15, <2>1, <2>5 DEF EndRun, Working
  <2>7. UNCHANGED <<gateAnchor, fileWrites, cells, activeTokens, batches>>
    BY <1>15 DEF EndRun
  <2> QED BY <2>1, <2>4, <2>5, <2>6, <2>7
<1> QED
  BY <1>1, <1>2, <1>3, <1>4, <1>5, <1>7, <1>8, <1>9, <1>10, <1>11, <1>12, <1>13, <1>14, <1>15
  DEF Next, Step

\* runtime.py, barrier.py, sandbox.py: every variable of the model keeps its type;
\* the anchor never gets ahead of the state file, no thread binds more batches than
\* it may, and a token always is one of a batch that was bound.
THEOREM BatchTypes == Spec => []TypeOK
<1>1. ControlTypes /\ RunTypes => TypeOK
  <2> SUFFICES ASSUME ControlTypes, RunTypes PROVE TypeOK
    OBVIOUS
  <2>1. persisted \in 0..MaxOps /\ anchorHash \in 0..persisted /\ ops \in 0..MaxOps
    BY BoundsAssumption DEF ControlTypes
  <2>2. \A token \in activeTokens : token[1] \in Threads /\ token[2] \in 1..batches[token[1]]
    BY DEF RunTypes
  <2>3. \A t \in Threads : batches[t] \in 0..MaxBatches[t]
    BY BoundsAssumption DEF RunTypes
  <2> QED BY <2>1, <2>2, <2>3 DEF ControlTypes, RunTypes, TypeOK, Labels
<1>2. ControlTypes /\ RunTypes /\ [Next]_vars => ControlTypes' /\ RunTypes'
  BY ControlStep, RunTypesStep
<1> QED BY TypesInit, <1>1, <1>2, PTL DEF Spec

-----------------------------------------------------------------------------
(***************************************************************************)
(* The run of a thread that is alone, from the head of its batch to its    *)
(* end.                                                                    *)
(***************************************************************************)
Looping(t) == pc[t] \in {"gate", "execute", "verify", "rollback"}
Ended(t, result) == pc[t] = "done" /\ outcome[t] = result

\* Before the loop the cells are as the batch found them.
HeadInv(t) ==
    /\ pc[t] \in {"precommit", "snapshot", "consume"} =>
         cells = before[t] /\ index[t] = 1 /\ executed[t] = <<>>
    /\ pc[t] \in {"precommit", "snapshot"} => snapshot[t] = None

\* An irreversible call is alone in its batch, and the records are those of the
\* calls before the current one.
PlanInv(t) ==
    Working(t) =>
        /\ Len(plan[t]) > 1 =>
             \A i \in 1..Len(plan[t]) : SafetyLevel(plan[t][i].tool) # "irreversible"
        /\ Looping(t) => Len(executed[t]) < index[t]
        /\ pc[t] \in {"gate", "execute", "verify"} => Len(executed[t]) = index[t] - 1
        /\ \A k \in 1..Len(executed[t]) : executed[t][k].index = k

\* A snapshot is the sandbox the batch found; only a batch that mutates nothing
\* goes on without one.
SnapshotInv(t) ==
    Looping(t) \/ pc[t] = "consume" =>
        \/ snapshot[t] = None /\ ~IsMutating(plan[t]) /\ cells = before[t]
        \/ snapshot[t] # None /\ snapshot[t] = Sandbox(before[t])

\* An ample budget covers the calls that are left and the restore.
AmpleInv(t) ==
    ample[t] =>
        /\ pc[t] = "snapshot" => fileWrites >= Len(plan[t]) + 2 * SnapshotCost
        /\ pc[t] = "consume" => fileWrites >= Len(plan[t]) + SnapshotCost
        /\ pc[t] \in {"gate", "execute"} =>
             fileWrites >= Len(plan[t]) - index[t] + 1 + SnapshotCost
        /\ pc[t] \in {"verify", "rollback"} =>
             fileWrites >= Len(plan[t]) - index[t] + SnapshotCost
        /\ pc[t] # "raised" /\ (pc[t] = "done" => outcome[t] # "raised")

\* Of the first n calls of the plan, the last to write a cell left its mark there.
Written(t, n) ==
    \A i \in 1..n :
        (/\ Mutates(plan[t][i].tool)
         /\ \A j \in (i + 1)..n :
              Mutates(plan[t][j].tool) => plan[t][j].cell # plan[t][i].cell)
        => cells[plan[t][i].cell] = <<t, batches[t], i>>

WrittenInv(t) ==
    /\ pc[t] \in {"gate", "execute"} => Written(t, index[t] - 1)
    /\ pc[t] = "verify" => Written(t, index[t])
    /\ Ended(t, "ok") => Written(t, Len(plan[t]))

\* Call k is one a rollback undoes, and it writes c.
Undoes(t, k, c) == SafetyLevel(plan[t][k].tool) = "reversible" /\ plan[t][k].cell = c

\* No recorded call writes c.
Untouched(t, c) == \A k \in 1..Len(executed[t]) : ~Undoes(t, k, c)

\* The first recorded call to write c knows what the batch found there.
FirstKnows(t, c) ==
    \A k \in 1..Len(executed[t]) :
        Undoes(t, k, c) /\ (\A j \in 1..(k - 1) : ~Undoes(t, j, c)) =>
            executed[t][k].previous = before[t][c]

\* The call under way has written c.
JustWritten(t, c) == pc[t] = "verify" /\ Mutates(Call(t).tool) /\ c = Call(t).cell

\* A cell no recorded call wrote is as it was, but for what the current call did.
RestIsKept(t, c) ==
    Untouched(t, c) =>
        IF JustWritten(t, c)
        THEN binding[t].previous = before[t][c]
        ELSE cells[c] = before[t][c] \/ (pc[t] = "rollback" /\ c = Call(t).cell)

UndoInv(t) ==
    ~unrolled[t] =>
        \A c \in SandboxCells :
            /\ Looping(t) => FirstKnows(t, c) /\ RestIsKept(t, c)
            /\ pc[t] = "raised" \/ Ended(t, "raised") =>
                 cells[c] = before[t][c] \/ c = Call(t).cell

EndInv(t) ==
    Ended(t, "refused") \/ Ended(t, "failed") => Sandbox(cells) = Sandbox(before[t])

RunInv(t) ==
    /\ HeadInv(t) /\ PlanInv(t) /\ SnapshotInv(t) /\ AmpleInv(t)
    /\ WrittenInv(t) /\ UndoInv(t) /\ EndInv(t)

AloneInv == \A t \in Threads : ~overlap[t] /\ pc[t] # "idle" => RunInv(t)

BatchInv == ControlTypes /\ RunTypes /\ TokenInv /\ AloneInv

-----------------------------------------------------------------------------
(***************************************************************************)
(* Who is concerned by a step.                                             *)
(***************************************************************************)
LEMMA AloneInit == Init => BatchInv
<1>1. Init => AloneInv
  BY DEF Init, AloneInv
<1> QED BY <1>1, TypesInit, TokenInit DEF BatchInv

\* A step of a thread that has a run concerns no thread but itself.
LEMMA OwnRun ==
    ASSUME BatchInv, NEW t \in Threads, pc[t] # "idle", overlap' = overlap,
           \A u \in Threads \ {t} : pc'[u] = pc[u],
           ~overlap[t] /\ pc'[t] # "idle" => RunInv(t)'
    PROVE  AloneInv'
<1> SUFFICES ASSUME NEW u \in Threads, ~overlap[u], pc'[u] # "idle" PROVE RunInv(u)'
  BY DEF AloneInv
<1>1. CASE u = t
  BY <1>1
<1>2. CASE u # t
  <2>1. pc[u] # "idle"
    BY <1>2
  <2>2. pc[t] = "idle"
    BY <1>2, <2>1 DEF BatchInv, TokenInv, Solo
  <2> QED BY <2>2
<1> QED BY <1>1, <1>2

\* A run reads neither the kill switch nor the state file.
LEMMA RunFrame ==
    ASSUME UNCHANGED <<fileWrites, cells, threadVars, history>>
    PROVE  AloneInv' <=> AloneInv
BY DEF threadVars, history, AloneInv, RunInv, HeadInv, PlanInv, SnapshotInv, AmpleInv,
       WrittenInv, Written, UndoInv, FirstKnows, RestIsKept, JustWritten, Untouched, Undoes,
       EndInv, Ended, Looping, Working, Call, Sandbox

\* A new run overlaps every other one.
LEMMA AloneAuthorize ==
    ASSUME BatchInv, NEW t \in Threads, Authorize(t) PROVE AloneInv'
<1> DEFINE others == {u \in Threads \ {t} : pc[u] # "idle"}
<1>1. /\ pc' = [pc EXCEPT ![t] = "ready"] /\ pc \in [Threads -> Labels]
      /\ overlap' = [u \in Threads |-> IF u = t THEN others # {}
                                       ELSE overlap[u] \/ u \in others]
  BY DEF Authorize, Goto, BatchInv, RunTypes
<1> SUFFICES ASSUME NEW u \in Threads, ~overlap'[u], pc'[u] # "idle" PROVE RunInv(u)'
  BY DEF AloneInv
<1>2. u = t
  <2> SUFFICES ASSUME u # t PROVE FALSE
    OBVIOUS
  <2>1. u \in others
    BY <1>1
  <2>2. overlap'[u]
    BY <1>1, <2>1
  <2> QED BY <2>2
<1>3. pc'[u] = "ready"
  BY <1>1, <1>2
<1> QED
  BY <1>3 DEF RunInv, HeadInv, PlanInv, SnapshotInv, AmpleInv, WrittenInv, UndoInv, EndInv,
              Ended, Looping, Working

-----------------------------------------------------------------------------
(***************************************************************************)
(* The head of a batch.                                                    *)
(***************************************************************************)
LEMMA AloneBind ==
    ASSUME BatchInv, NEW t \in Threads, Bind(t) PROVE RunInv(t)'
<1> USE DEF BatchInv, RunTypes
<1>1. PICK p \in Plans[t] :
        /\ plan' = [plan EXCEPT ![t] = p]
        /\ \/ MayBind(p) /\ pc' = [pc EXCEPT ![t] = "precommit"]
           \/ /\ pc' = [pc EXCEPT ![t] = "done"]
              /\ outcome' = [outcome EXCEPT ![t] = "refused"]
  BY DEF Bind, Goto, Return
<1>2. /\ plan'[t] = p /\ index'[t] = 1 /\ executed'[t] = <<>> /\ snapshot'[t] = None
      /\ before'[t] = cells /\ cells' = cells
  BY <1>1 DEF Bind
<1>3. pc'[t] = "precommit" \/ (pc'[t] = "done" /\ outcome'[t] = "refused")
  BY <1>1
<1>4. PlanInv(t)'
  <2>1. pc'[t] = "precommit" => MayBind(p)
    BY <1>1
  <2>2. ~Looping(t)'
    BY <1>3 DEF Looping
  <2>3. Len(executed'[t]) = 0
    BY <1>2
  <2>4. Working(t)' => pc'[t] = "precommit"
    BY <1>3 DEF Working
  <2>5. pc'[t] \notin {"gate", "execute", "verify"}
    BY <1>3
  <2> QED BY <1>2, <2>1, <2>2, <2>3, <2>4, <2>5 DEF PlanInv, MayBind
<1>5. HeadInv(t)'
  BY <1>2 DEF HeadInv
<1>6. SnapshotInv(t)' /\ AmpleInv(t)' /\ WrittenInv(t)' /\ UndoInv(t)'
  BY <1>3 DEF SnapshotInv, AmpleInv, WrittenInv, UndoInv, Ended, Looping
<1>7. EndInv(t)'
  BY <1>2, <1>3 DEF EndInv, Sandbox
<1> QED BY <1>4, <1>5, <1>6, <1>7 DEF RunInv

LEMMA AlonePrecommit ==
    ASSUME BatchInv, NEW t \in Threads, Precommit(t), RunInv(t) PROVE RunInv(t)'
<1> USE DEF BatchInv, RunTypes
<1>1. /\ pc[t] = "precommit"
      /\ UNCHANGED <<fileWrites, cells, plan, index, snapshot, executed, before>>
  BY DEF Precommit
<1>2. /\ ample'[t] => fileWrites >= Len(plan[t]) + 2 * SnapshotCost
      /\ Len(plan[t]) \in Nat
  <2>1. ample' = [ample EXCEPT ![t] = fileWrites >= Len(plan[t]) + 2 * SnapshotCost]
    BY DEF Precommit
  <2>2. ample'[t] = (fileWrites >= Len(plan[t]) + 2 * SnapshotCost)
    BY <2>1, Zenon
  <2>3. ample'[t] => fileWrites >= Len(plan[t]) + 2 * SnapshotCost
    BY <2>2, Zenon
  <2> QED BY <2>3
<1>3. \/ pc'[t] = "snapshot"
      \/ pc'[t] = "consume" /\ ~IsMutating(plan[t])
      \/ pc'[t] = "done" /\ outcome'[t] = "refused"
  BY DEF Precommit, Goto, Return
<1>4. cells = before[t] /\ index[t] = 1 /\ executed[t] = <<>> /\ snapshot[t] = None
  BY <1>1 DEF RunInv, HeadInv
<1>5. HeadInv(t)'
  BY <1>1, <1>4 DEF HeadInv
<1>6. PlanInv(t)'
  BY <1>1, <1>3 DEF RunInv, PlanInv, Working, Looping
<1>7. SnapshotInv(t)'
  BY <1>1, <1>3, <1>4 DEF SnapshotInv, Looping
<1>8. AmpleInv(t)'
  BY <1>1, <1>2, <1>3 DEF AmpleInv, SnapshotCost
<1>9. WrittenInv(t)' /\ UndoInv(t)'
  BY <1>3 DEF WrittenInv, UndoInv, Ended, Looping
<1>10. EndInv(t)'
  BY <1>1, <1>4 DEF EndInv, Sandbox
<1> QED BY <1>5, <1>6, <1>7, <1>8, <1>9, <1>10 DEF RunInv

\* Nobody has spent the budget the barrier looked at, so the snapshot is taken.
LEMMA AloneSnapshot ==
    ASSUME BatchInv, NEW t \in Threads, SnapshotState(t), ~overlap[t], RunInv(t)
    PROVE  RunInv(t)'
<1> USE DEF BatchInv, RunTypes
<1>1. /\ pc[t] = "snapshot"
      /\ UNCHANGED <<cells, plan, index, executed, before, ample>>
  BY DEF SnapshotState, history
<1>2. Affordable(SnapshotCost)
  BY <1>1 DEF TokenInv, Funded, Affordable
<1>3. /\ pc'[t] = "consume" /\ fileWrites' = fileWrites - SnapshotCost
      /\ snapshot'[t] = Sandbox(cells)
  BY <1>2 DEF SnapshotState, Goto
<1>4. cells = before[t] /\ index[t] = 1 /\ executed[t] = <<>>
  BY <1>1 DEF RunInv, HeadInv
<1>5. Sandbox(cells) # None
  <2>1. Sandbox(cells) \in [SandboxCells -> Contents]
    BY DEF Sandbox, Cells
  <2> QED BY <2>1, NoneAssumption
<1>6. HeadInv(t)'
  BY <1>1, <1>3, <1>4 DEF HeadInv
<1>7. PlanInv(t)'
  BY <1>1, <1>3 DEF RunInv, PlanInv, Working, Looping
<1>8. SnapshotInv(t)'
  BY <1>1, <1>3, <1>4, <1>5 DEF SnapshotInv, Sandbox
<1>9. AmpleInv(t)'
  <2>1. Len(plan[t]) \in Nat
    OBVIOUS
  <2> QED BY <1>1, <1>3, <2>1 DEF RunInv, AmpleInv, SnapshotCost
<1>10. WrittenInv(t)' /\ UndoInv(t)' /\ EndInv(t)'
  BY <1>3 DEF WrittenInv, UndoInv, EndInv, Ended, Looping
<1> QED BY <1>6, <1>7, <1>8, <1>9, <1>10 DEF RunInv

LEMMA AloneConsume ==
    ASSUME BatchInv, NEW t \in Threads, Consume(t), RunInv(t) PROVE RunInv(t)'
<1> USE DEF BatchInv, RunTypes
<1>1. /\ pc[t] = "consume"
      /\ UNCHANGED <<cells, plan, index, executed, before, ample, snapshot, fileWrites>>
  BY DEF Consume, history
<1>2. pc'[t] = "gate" \/ (pc'[t] = "done" /\ outcome'[t] = "refused")
  BY DEF Consume, Goto, Return
<1>3. cells = before[t] /\ index[t] = 1 /\ executed[t] = <<>> /\ Len(executed[t]) = 0
  BY <1>1 DEF RunInv, HeadInv
<1>4. HeadInv(t)'
  BY <1>2 DEF HeadInv
<1>5. PlanInv(t)'
  <2>1. Len(executed'[t]) = 0 /\ index'[t] = 1 /\ plan'[t] = plan[t] /\ Working(t)
    BY <1>1, <1>3 DEF Working
  <2>2. Len(plan[t]) > 1 =>
          \A i \in 1..Len(plan[t]) : SafetyLevel(plan[t][i].tool) # "irreversible"
    BY <2>1 DEF RunInv, PlanInv
  <2>3. \A k \in 1..0 : executed'[t][k].index = k
    OBVIOUS
  <2> QED BY <2>1, <2>2, <2>3 DEF PlanInv
<1>6. SnapshotInv(t)'
  BY <1>1, <1>2 DEF RunInv, SnapshotInv, Looping, Sandbox
<1>7. AmpleInv(t)'
  <2>1. Len(plan[t]) \in Nat
    OBVIOUS
  <2> QED BY <1>1, <1>2, <1>3, <2>1 DEF RunInv, AmpleInv, SnapshotCost
<1>8. WrittenInv(t)'
  <2>1. Written(t, 0)'
    BY DEF Written
  <2> QED BY <1>1, <1>2, <1>3, <2>1 DEF WrittenInv, Ended
<1>9. UndoInv(t)'
  BY <1>1, <1>2, <1>3 DEF UndoInv, FirstKnows, RestIsKept, JustWritten, Ended, Looping
<1>10. EndInv(t)'
  BY <1>1, <1>3 DEF EndInv, Sandbox
<1> QED BY <1>4, <1>5, <1>6, <1>7, <1>8, <1>9, <1>10 DEF RunInv

-----------------------------------------------------------------------------
(***************************************************************************)
(* The calls of a batch.                                                   *)
(***************************************************************************)
LEMMA SafetyLevels ==
    ASSUME NEW tool
    PROVE  /\ SafetyLevel(tool) \in {"reversible", "irreversible", "read_only"}
           /\ Mutates(tool) <=> SafetyLevel(tool) \in {"reversible", "irreversible"}
BY DEF SafetyLevel, HasRollback, Mutates

\* Where the loop is, in numbers.
LEMMA LoopTypes ==
    ASSUME BatchInv, NEW t \in Threads, Working(t)
    PROVE  /\ Len(plan[t]) \in Nat /\ index[t] \in 1..Len(plan[t]) /\ index[t] \in Nat
           /\ plan[t] \in Seq(Calls) /\ executed[t] \in Seq(Records)
           /\ Len(executed[t]) \in Nat
           /\ Call(t) = plan[t][index[t]] /\ Call(t) \in Calls /\ Call(t).cell \in Cells
<1>1. /\ index[t] \in 1..Len(plan[t]) /\ plan[t] \in Seq(Calls)
      /\ executed[t] \in Seq(Records)
  BY DEF BatchInv, RunTypes
<1>2. plan[t][index[t]] \in Calls
  BY <1>1
<1> QED BY <1>1, <1>2 DEF Call, Calls

LEMMA AloneGate ==
    ASSUME BatchInv, NEW t \in Threads, Gate(t), RunInv(t) PROVE RunInv(t)'
<1> USE DEF BatchInv, RunTypes
<1>1. /\ pc[t] = "gate"
      /\ UNCHANGED <<fileWrites, cells, plan, index, snapshot, executed, batches, outcome,
                     before, ample, unrolled>>
  BY DEF Gate, history
<1>2. pc'[t] \in {"execute", "rollback"}
  BY DEF Gate, FailBatch, Goto
<1>3. /\ Len(plan[t]) \in Nat /\ index[t] \in 1..Len(plan[t]) /\ Len(executed[t]) \in Nat
  BY <1>1, LoopTypes DEF Working
<1>4. HeadInv(t)' /\ EndInv(t)'
  BY <1>2 DEF HeadInv, EndInv, Ended
<1>5. PlanInv(t)'
  BY <1>1, <1>2, <1>3 DEF RunInv, PlanInv, Working, Looping
<1>6. SnapshotInv(t)'
  BY <1>1, <1>2 DEF RunInv, SnapshotInv, Looping, Sandbox
<1>7. AmpleInv(t)'
  BY <1>1, <1>2, <1>3 DEF RunInv, AmpleInv, SnapshotCost
<1>8. WrittenInv(t)'
  BY <1>1, <1>2 DEF RunInv, WrittenInv, Written, Ended
<1>9. UndoInv(t)'
  <2> SUFFICES ASSUME ~unrolled[t], NEW c \in SandboxCells
               PROVE  (FirstKnows(t, c) /\ RestIsKept(t, c))'
    BY <1>1, <1>2 DEF UndoInv, Ended
  <2>1. FirstKnows(t, c) /\ RestIsKept(t, c)
    BY <1>1 DEF RunInv, UndoInv, Looping
  <2>2. FirstKnows(t, c)'
    BY <1>1, <2>1 DEF FirstKnows, Undoes
  <2>3. RestIsKept(t, c)'
    BY <1>1, <1>2, <2>1 DEF RestIsKept, JustWritten, Untouched, Undoes
  <2> QED BY <2>2, <2>3
<1> QED BY <1>4, <1>5, <1>6, <1>7, <1>8, <1>9 DEF RunInv

\* Whether the tool returns or raises, before or after it wrote, at most its own cell
\* differs from what the recorded calls left.
LEMMA AloneExecute ==
    ASSUME BatchInv, NEW t \in Threads, Execute(t), RunInv(t) PROVE RunInv(t)'
<1> USE DEF BatchInv, RunTypes
<1>1. /\ pc[t] = "execute"
      /\ UNCHANGED <<plan, index, snapshot, executed, batches, outcome, before, ample,
                     unrolled>>
  BY DEF Execute, history
<1>2. /\ Len(plan[t]) \in Nat /\ index[t] \in 1..Len(plan[t]) /\ Len(executed[t]) \in Nat
      /\ Call(t) = plan[t][index[t]] /\ Call(t).cell \in Cells
  BY <1>1, LoopTypes DEF Working
<1>3. \/ /\ ~Mutates(Call(t).tool) /\ pc'[t] = "verify"
         /\ cells' = cells /\ fileWrites' = fileWrites
      \/ /\ Mutates(Call(t).tool) /\ pc'[t] = "verify"
         /\ cells' = [cells EXCEPT ![Call(t).cell] = Mark(t)]
         /\ fileWrites' = fileWrites - FileCost(Call(t).tool)
         /\ binding'[t].previous = cells[Call(t).cell]
      \/ /\ Mutates(Call(t).tool) /\ pc'[t] = "rollback"
         /\ cells' = [cells EXCEPT ![Call(t).cell] = Mark(t)]
         /\ fileWrites' = fileWrites
      \/ /\ pc'[t] = "rollback" /\ cells' = cells /\ fileWrites' = fileWrites
  <2>1. /\ Goto(t, "verify") => pc'[t] = "verify"
        /\ FailBatch(t) => pc'[t] = "rollback"
    BY DEF Goto, FailBatch
  <2>2. ASSUME binding' = [binding EXCEPT
                        ![t].receipt = IF EmitsReceipt(Call(t).tool) THEN gateAnchor ELSE None,
                        ![t].previous = cells[Call(t).cell]]
        PROVE  binding'[t].previous = cells[Call(t).cell]
    BY <2>2 DEF Bindings
  <2> QED BY <2>1, <2>2 DEF Execute, Writes
<1>4. pc'[t] \in {"verify", "rollback"} /\ Looping(t) /\ Working(t)
  BY <1>1, <1>3 DEF Looping, Working
<1>5. \/ cells' = cells
      \/ Mutates(Call(t).tool) /\ cells' = [cells EXCEPT ![Call(t).cell] = Mark(t)]
  BY <1>3
<1>6. HeadInv(t)' /\ EndInv(t)'
  BY <1>4 DEF HeadInv, EndInv, Ended
<1>7. PlanInv(t)'
  BY <1>1, <1>2, <1>4 DEF RunInv, PlanInv, Working, Looping
<1>8. SnapshotInv(t)'
  <2>1. Mutates(Call(t).tool) => IsMutating(plan[t])
    BY <1>2 DEF IsMutating
  <2> QED BY <1>1, <1>4, <1>5, <2>1 DEF RunInv, SnapshotInv, Sandbox
<1>9. AmpleInv(t)'
  BY <1>1, <1>2, <1>3 DEF RunInv, AmpleInv, SnapshotCost, FileCost
<1>10. WrittenInv(t)'
  <2>1. Written(t, index[t] - 1)
    BY <1>1 DEF RunInv, WrittenInv
  <2> SUFFICES ASSUME pc'[t] = "verify", NEW i \in 1..index[t],
                      Mutates(plan[t][i].tool),
                      \A j \in (i + 1)..index[t] :
                          Mutates(plan[t][j].tool) => plan[t][j].cell # plan[t][i].cell
               PROVE  cells'[plan[t][i].cell] = <<t, batches[t], i>>
    BY <1>1, <1>4 DEF WrittenInv, Written, Ended
  <2>2. CASE i = index[t]
    BY <1>2, <1>3, <2>2 DEF Mark
  <2>3. CASE i < index[t]
    <3>1. i \in 1..(index[t] - 1) /\ index[t] \in (i + 1)..index[t]
      BY <1>2, <2>3
    <3>2. cells[plan[t][i].cell] = <<t, batches[t], i>>
      <4>1. \A j \in (i + 1)..(index[t] - 1) : j \in (i + 1)..index[t]
        BY <1>2
      <4>2. \A j \in (i + 1)..(index[t] - 1) :
                Mutates(plan[t][j].tool) => plan[t][j].cell # plan[t][i].cell
        BY <4>1
      <4> QED BY <2>1, <3>1, <4>2 DEF Written
    <3>3. Mutates(Call(t).tool) => Call(t).cell # plan[t][i].cell
      BY <1>2, <3>1
    <3>4. plan[t][i] \in Calls
      BY <1>2
    <3>5. plan[t][i].cell \in Cells
      BY <3>4 DEF Calls
    <3> QED BY <1>5, <3>2, <3>3, <3>5
  <2> QED BY <1>2, <2>2, <2>3
<1>11. UndoInv(t)'
  <2> SUFFICES ASSUME ~unrolled[t], NEW c \in SandboxCells
               PROVE  (FirstKnows(t, c) /\ RestIsKept(t, c))'
    BY <1>1, <1>4 DEF UndoInv, Ended
  <2>1. FirstKnows(t, c) /\ RestIsKept(t, c)
    BY <1>1, <1>4 DEF RunInv, UndoInv
  <2>2. FirstKnows(t, c)'
    BY <1>1, <2>1 DEF FirstKnows, Undoes
  <2>3. RestIsKept(t, c)'
    <3> SUFFICES ASSUME Untouched(t, c) PROVE RestIsKept(t, c)'
      BY <1>1 DEF RestIsKept, Untouched, Undoes
    <3>1. cells[c] = before[t][c] /\ Call(t)' = Call(t)
      BY <1>1, <2>1 DEF RestIsKept, JustWritten, Call
    <3>2. c # Call(t).cell => cells'[c] = cells[c]
      BY <1>5 DEF Cells
    <3>3. CASE c # Call(t).cell
      BY <1>1, <3>1, <3>2, <3>3 DEF RestIsKept, JustWritten
    <3>4. CASE c = Call(t).cell
      BY <1>1, <1>3, <3>1, <3>4 DEF RestIsKept, JustWritten
    <3> QED BY <3>3, <3>4
  <2> QED BY <2>2, <2>3
<1> QED BY <1>6, <1>7, <1>8, <1>9, <1>10, <1>11 DEF RunInv

\* A call that is verified is recorded with what it found in its cell, unless it is
\* irreversible: then it is the only one.
LEMMA AloneVerify ==
    ASSUME BatchInv, NEW t \in Threads, Verify(t), RunInv(t) PROVE RunInv(t)'
<1> USE DEF BatchInv, RunTypes
<1>1. /\ pc[t] = "verify" /\ Looping(t) /\ Working(t)
      /\ UNCHANGED <<fileWrites, cells, plan, snapshot, batches, before, ample, unrolled,
                     binding>>
  BY DEF Verify, history, Looping, Working
<1>2. /\ Len(plan[t]) \in Nat /\ index[t] \in 1..Len(plan[t]) /\ index[t] \in Nat
      /\ executed[t] \in Seq(Records) /\ Len(executed[t]) \in Nat
      /\ Call(t) = plan[t][index[t]]
  BY <1>1, LoopTypes
<1>3. Len(executed[t]) = index[t] - 1
  BY <1>1 DEF RunInv, PlanInv
<1>4. CASE /\ executed' = [executed EXCEPT ![t] = Append(@, Record(t))]
           /\ \/ index[t] < Len(plan[t]) /\ pc'[t] = "gate" /\ index'[t] = index[t] + 1
              \/ /\ index[t] = Len(plan[t]) /\ pc'[t] = "done" /\ outcome'[t] = "ok"
                 /\ index'[t] = index[t]
  <2>1. executed'[t] = Append(executed[t], Record(t))
    BY <1>4
  <2>2. Record(t) \in Records
    BY DEF Record, Records, Bindings
  <2>3. /\ Len(executed'[t]) = index[t]
        /\ \A k \in 1..(index[t] - 1) : executed'[t][k] = executed[t][k]
        /\ executed'[t][index[t]] = Record(t)
    BY <1>2, <1>3, <2>1, <2>2
  <2> PICK i : i = index[t]
    OBVIOUS
  <2> PICK n : n = Len(plan[t])
    OBVIOUS
  <2>10. i \in Nat /\ n \in Nat /\ 1 <= i /\ i <= n
    BY <1>2
  <2>11. \/ pc'[t] = "gate" /\ i < n /\ index'[t] = i + 1
         \/ pc'[t] = "done" /\ i = n /\ outcome'[t] = "ok" /\ index'[t] = i
    BY <1>4
  <2>12. /\ ample'[t] = ample[t] /\ fileWrites' = fileWrites /\ plan'[t] = plan[t]
         /\ batches'[t] = batches[t] /\ cells' = cells
    BY <1>1
  <2>4. HeadInv(t)' /\ EndInv(t)'
    BY <2>11 DEF HeadInv, EndInv, Ended
  <2>5. PlanInv(t)'
    <3>1. \A k \in 1..index[t] : executed'[t][k].index = k
      <4> SUFFICES ASSUME NEW k \in 1..index[t] PROVE executed'[t][k].index = k
        OBVIOUS
      <4>1. CASE k = index[t]
        BY <2>3, <4>1 DEF Record
      <4>2. CASE k # index[t]
        <5>1. k \in 1..(index[t] - 1)
          BY <1>2, <4>2
        <5> QED BY <1>1, <1>3, <2>3, <5>1 DEF RunInv, PlanInv
      <4> QED BY <4>1, <4>2
    <3>2. n > 1 => \A j \in 1..n : SafetyLevel(plan[t][j].tool) # "irreversible"
      BY <1>1 DEF RunInv, PlanInv
    <3> QED BY <2>3, <2>10, <2>11, <2>12, <3>1, <3>2 DEF PlanInv, Working, Looping
  <2>6. SnapshotInv(t)'
    BY <1>1, <1>4 DEF RunInv, SnapshotInv, Looping, Sandbox
  <2>7. AmpleInv(t)'
    <3>1. ample[t] => fileWrites >= n - i + SnapshotCost
      BY <1>1 DEF RunInv, AmpleInv
    <3> QED BY <2>10, <2>11, <2>12, <3>1 DEF AmpleInv, SnapshotCost
  <2>8. WrittenInv(t)'
    <3>1. Written(t, i)
      BY <1>1 DEF RunInv, WrittenInv
    <3>2. CASE pc'[t] = "gate" /\ index'[t] = i + 1
      <4>1. index'[t] - 1 = i
        BY <2>10, <3>2
      <4> QED BY <2>12, <3>1, <3>2, <4>1 DEF WrittenInv, Ended, Written
    <3>3. CASE pc'[t] = "done" /\ i = n
      BY <2>12, <3>1, <3>3 DEF WrittenInv, Ended, Written
    <3> QED BY <2>11, <3>2, <3>3
  <2>9. UndoInv(t)'
    <3> SUFFICES ASSUME ~unrolled[t], NEW c \in SandboxCells, pc'[t] = "gate"
                 PROVE  (FirstKnows(t, c) /\ RestIsKept(t, c))'
      BY <1>1, <1>4 DEF UndoInv, Ended, Looping
    <3>1. FirstKnows(t, c) /\ RestIsKept(t, c)
      BY <1>1 DEF RunInv, UndoInv
    <3>2. /\ SafetyLevel(Call(t).tool) # "irreversible"
          /\ Mutates(Call(t).tool) => SafetyLevel(Call(t).tool) = "reversible"
      <4>1. Len(plan[t]) > 1
        BY <1>2, <1>4
      <4> QED BY <1>1, <1>2, <4>1, SafetyLevels DEF RunInv, PlanInv
    <3>3. FirstKnows(t, c)'
      <4> SUFFICES ASSUME NEW k \in 1..index[t], Undoes(t, k, c),
                          \A j \in 1..(k - 1) : ~Undoes(t, j, c)
                   PROVE  executed'[t][k].previous = before[t][c]
        BY <1>1, <2>3 DEF FirstKnows, Undoes
      <4>1. CASE k = index[t]
        <5>1. Untouched(t, c)
          BY <1>3, <4>1 DEF Untouched
        <5>2. JustWritten(t, c)
          BY <1>1, <1>2, <4>1, SafetyLevels DEF JustWritten, Undoes
        <5> QED BY <2>3, <3>1, <4>1, <5>1, <5>2 DEF RestIsKept, Record
      <4>2. CASE k # index[t]
        <5>1. k \in 1..(index[t] - 1)
          BY <1>2, <4>2
        <5> QED BY <1>3, <2>3, <3>1, <5>1 DEF FirstKnows
      <4> QED BY <4>1, <4>2
    <3>4. RestIsKept(t, c)'
      <4> SUFFICES ASSUME Untouched(t, c)' PROVE cells[c] = before[t][c]
        BY <1>1 DEF RestIsKept, JustWritten
      <4>1. \A k \in 1..index[t] : ~Undoes(t, k, c)
        BY <1>1, <2>3 DEF Untouched, Undoes
      <4>2. Untouched(t, c)
        <5>1. \A k \in 1..(index[t] - 1) : k \in 1..index[t]
          BY <1>2
        <5> QED BY <1>3, <4>1, <5>1 DEF Untouched
      <4>3. ~Undoes(t, index[t], c)
        BY <1>2, <4>1
      <4>4. ~JustWritten(t, c)
        BY <1>2, <3>2, <4>3 DEF JustWritten, Undoes
      <4> QED BY <1>1, <3>1, <4>2, <4>4 DEF RestIsKept
    <3> QED BY <3>3, <3>4
  <2> QED BY <2>4, <2>5, <2>6, <2>7, <2>8, <2>9 DEF RunInv
<1>5. CASE FailBatch(t) /\ UNCHANGED <<executed, index, outcome>>
  <2>1. pc'[t] = "rollback" /\ Call(t)' = Call(t)
    BY <1>1, <1>5 DEF FailBatch, Goto, Call
  <2>2. HeadInv(t)' /\ EndInv(t)'
    BY <2>1 DEF HeadInv, EndInv, Ended
  <2>3. PlanInv(t)'
    BY <1>1, <1>2, <1>3, <1>5, <2>1 DEF RunInv, PlanInv, Working, Looping
  <2>4. SnapshotInv(t)'
    BY <1>1, <2>1 DEF RunInv, SnapshotInv, Sandbox
  <2>5. AmpleInv(t)'
    BY <1>1, <1>5, <2>1 DEF RunInv, AmpleInv
  <2>6. WrittenInv(t)'
    BY <2>1 DEF WrittenInv, Ended
  <2>7. UndoInv(t)'
    <3> SUFFICES ASSUME ~unrolled[t], NEW c \in SandboxCells
                 PROVE  (FirstKnows(t, c) /\ RestIsKept(t, c))'
      BY <1>1, <2>1 DEF UndoInv, Ended
    <3>1. FirstKnows(t, c) /\ RestIsKept(t, c)
      BY <1>1 DEF RunInv, UndoInv
    <3>2. FirstKnows(t, c)'
      BY <1>1, <1>5, <3>1 DEF FirstKnows, Undoes
    <3>3. RestIsKept(t, c)'
      BY <1>1, <1>5, <2>1, <3>1 DEF RestIsKept, JustWritten, Untouched, Undoes
    <3> QED BY <3>2, <3>3
  <2> QED BY <2>2, <2>3, <2>4, <2>5, <2>6, <2>7 DEF RunInv
<1>6. \/ FailBatch(t) /\ UNCHANGED <<executed, index, outcome>>
      \/ /\ executed' = [executed EXCEPT ![t] = Append(@, Record(t))]
         /\ \/ index[t] < Len(plan[t]) /\ pc'[t] = "gate" /\ index'[t] = index[t] + 1
            \/ /\ index[t] = Len(plan[t]) /\ pc'[t] = "done" /\ outcome'[t] = "ok"
               /\ index'[t] = index[t]
  <2>1. ASSUME index[t] < Len(plan[t]), Goto(t, "gate"), index' = [index EXCEPT ![t] = @ + 1]
        PROVE  pc'[t] = "gate" /\ index'[t] = index[t] + 1
    BY <2>1 DEF Goto
  <2>2. ASSUME ~(index[t] < Len(plan[t])), Return(t, "ok"), UNCHANGED index
        PROVE  index[t] = Len(plan[t]) /\ pc'[t] = "done" /\ outcome'[t] = "ok"
               /\ index'[t] = index[t]
    BY <1>2, <2>2 DEF Return, Goto
  <2> QED BY <2>1, <2>2 DEF Verify
<1> QED BY <1>4, <1>5, <1>6

-----------------------------------------------------------------------------
(***************************************************************************)
(* The way back.                                                           *)
(***************************************************************************)
\* The newest record goes; its call, being one of several, is not irreversible.
LEMMA AloneRollback ==
    ASSUME BatchInv, NEW t \in Threads, RollbackOne(t), RunInv(t) PROVE RunInv(t)'
<1> USE DEF BatchInv, RunTypes
<1>1. /\ pc[t] = "rollback" /\ pc' = pc /\ Looping(t) /\ Working(t) /\ executed[t] # <<>>
      /\ UNCHANGED <<fileWrites, plan, index, snapshot, batches, outcome, before, ample,
                     binding>>
  BY DEF RollbackOne, Looping, Working
<1> PICK n : n = Len(executed[t])
  OBVIOUS
<1>2. /\ Len(plan[t]) \in Nat /\ index[t] \in 1..Len(plan[t]) /\ index[t] \in Nat
      /\ plan[t] \in Seq(Calls) /\ executed[t] \in Seq(Records)
      /\ n \in Nat /\ 1 <= n /\ n < index[t]
  <2>1. /\ Len(plan[t]) \in Nat /\ index[t] \in 1..Len(plan[t]) /\ index[t] \in Nat
        /\ plan[t] \in Seq(Calls) /\ executed[t] \in Seq(Records) /\ n \in Nat
    BY <1>1, LoopTypes
  <2>2. n < index[t]
    BY <1>1 DEF RunInv, PlanInv
  <2>3. n # 0
    BY <1>1, <2>1
  <2> QED BY <2>1, <2>2, <2>3
<1> PICK last : last = executed[t][n]
  OBVIOUS
<1> PICK call : call = plan[t][n]
  OBVIOUS
<1>3. /\ last.index = n /\ call.cell \in Cells
      /\ SafetyLevel(call.tool) # "irreversible"
  <2>1. n \in 1..Len(executed[t]) /\ n \in 1..Len(plan[t]) /\ Len(plan[t]) > 1
    BY <1>2
  <2>2. call \in Calls
    BY <1>2, <2>1
  <2> QED BY <1>1, <2>1, <2>2 DEF RunInv, PlanInv, Calls
<1>4. /\ executed'[t] = SubSeq(executed[t], 1, n - 1)
      /\ \/ /\ SafetyLevel(call.tool) = "reversible"
            /\ cells' = [cells EXCEPT ![call.cell] = last.previous]
            /\ unrolled' = unrolled
         \/ /\ SafetyLevel(call.tool) = "reversible" /\ unrolled'[t] = TRUE
            /\ cells' = cells
         \/ SafetyLevel(call.tool) # "reversible" /\ UNCHANGED <<cells, unrolled>>
  BY <1>3 DEF RollbackOne
<1>5. /\ Len(executed'[t]) = n - 1
      /\ \A k \in 1..(n - 1) : executed'[t][k] = executed[t][k]
  BY <1>2, <1>4
<1>6. HeadInv(t)' /\ EndInv(t)' /\ WrittenInv(t)'
  BY <1>1 DEF HeadInv, EndInv, WrittenInv, Ended
<1>7. PlanInv(t)'
  <2>1. \A k \in 1..(n - 1) : executed[t][k].index = k
    BY <1>1, <1>2 DEF RunInv, PlanInv
  <2>2. Len(plan[t]) > 1 =>
          \A i \in 1..Len(plan[t]) : SafetyLevel(plan[t][i].tool) # "irreversible"
    BY <1>1 DEF RunInv, PlanInv
  <2>3. plan'[t] = plan[t] /\ index'[t] = index[t] /\ pc'[t] = "rollback"
    BY <1>1
  <2> QED BY <1>2, <1>5, <2>1, <2>2, <2>3 DEF PlanInv
<1>8. SnapshotInv(t)'
  <2>1. SafetyLevel(call.tool) = "reversible" => IsMutating(plan[t])
    BY <1>2, SafetyLevels DEF IsMutating
  <2> QED BY <1>1, <1>4, <2>1 DEF RunInv, SnapshotInv, Looping, Sandbox
<1>9. AmpleInv(t)'
  BY <1>1 DEF RunInv, AmpleInv
<1>10. UndoInv(t)'
  <2> SUFFICES ASSUME ~unrolled'[t], NEW c \in SandboxCells
               PROVE  (FirstKnows(t, c) /\ RestIsKept(t, c))'
    BY <1>1 DEF UndoInv, Ended
  <2>1. FirstKnows(t, c) /\ RestIsKept(t, c)
    BY <1>1, <1>4 DEF RunInv, UndoInv
  <2>2. FirstKnows(t, c)'
    <3>1. \A k \in 1..(n - 1) : k \in 1..n
      BY <1>2
    <3> QED BY <1>1, <1>5, <2>1, <3>1 DEF FirstKnows, Undoes
  <2>3. RestIsKept(t, c)'
    <3> SUFFICES ASSUME \A j \in 1..(n - 1) : ~Undoes(t, j, c), c # Call(t).cell
                 PROVE  cells'[c] = before[t][c]
      BY <1>1, <1>5 DEF RestIsKept, JustWritten, Untouched, Undoes, Call
    <3>1. CASE Undoes(t, n, c)
      <4>1. last.previous = before[t][c]
        <5>1. n \in 1..Len(executed[t])
          BY <1>2
        <5> QED BY <2>1, <3>1, <5>1 DEF FirstKnows
      <4>2. cells' = [cells EXCEPT ![c] = last.previous] /\ c \in DOMAIN cells
        BY <1>4, <3>1 DEF Undoes, Cells
      <4> QED BY <4>1, <4>2
    <3>2. CASE ~Undoes(t, n, c)
      <4>1. Untouched(t, c)
        <5>1. \A k \in 1..n : k = n \/ k \in 1..(n - 1)
          BY <1>2
        <5> QED BY <3>2, <5>1 DEF Untouched
      <4>2. cells[c] = before[t][c]
        BY <1>1, <2>1, <4>1 DEF RestIsKept, JustWritten
      <4>3. cells'[c] = cells[c]
        BY <1>4, <3>2 DEF Undoes, Cells
      <4> QED BY <4>2, <4>3
    <3> QED BY <3>1, <3>2
  <2> QED BY <2>2, <2>3
<1> QED BY <1>6, <1>7, <1>8, <1>9, <1>10 DEF RunInv

\* The restore puts the sandbox back; when it raises, all records are undone.
LEMMA AloneRestore ==
    ASSUME BatchInv, NEW t \in Threads, Restore(t), RunInv(t) PROVE RunInv(t)'
<1> USE DEF BatchInv, RunTypes
<1>1. /\ pc[t] = "rollback" /\ Looping(t) /\ Working(t) /\ executed[t] = <<>>
      /\ UNCHANGED <<plan, index, snapshot, executed, batches, before, ample, unrolled>>
  BY DEF Restore, history, Looping, Working
<1>2. \/ /\ pc'[t] = "done" /\ outcome'[t] = "failed"
         /\ \/ snapshot[t] = None /\ cells' = cells
            \/ snapshot[t] # None /\ cells' = Restored(t)
      \/ pc'[t] = "raised" /\ fileWrites < SnapshotCost /\ cells' = cells
  <2>1. ~Affordable(SnapshotCost) => fileWrites < SnapshotCost
    BY DEF Affordable, SnapshotCost
  <2> QED BY <2>1 DEF Restore, Return, Goto
<1>3. HeadInv(t)' /\ PlanInv(t)' /\ SnapshotInv(t)' /\ WrittenInv(t)'
  BY <1>2 DEF HeadInv, PlanInv, SnapshotInv, WrittenInv, Ended, Working, Looping
<1>4. AmpleInv(t)'
  <2>1. Len(plan[t]) \in Nat /\ index[t] \in 1..Len(plan[t])
    BY <1>1, LoopTypes
  <2>2. ample[t] => fileWrites >= SnapshotCost
    BY <1>1, <2>1 DEF RunInv, AmpleInv, SnapshotCost
  <2>3. SnapshotCost \in Nat /\ fileWrites \in Nat
    BY DEF SnapshotCost
  <2>4. ample'[t] = ample[t]
    BY <1>1
  <2> QED BY <1>2, <2>2, <2>3, <2>4 DEF AmpleInv
<1>5. UndoInv(t)'
  <2> SUFFICES ASSUME ~unrolled[t], NEW c \in SandboxCells, pc'[t] = "raised"
               PROVE  cells'[c] = before[t][c] \/ c = Call(t).cell
    BY <1>1, <1>2 DEF UndoInv, Ended, Looping, Call
  <2>1. RestIsKept(t, c)
    BY <1>1 DEF RunInv, UndoInv
  <2>2. Untouched(t, c)
    BY <1>1 DEF Untouched
  <2> QED BY <1>1, <1>2, <2>1, <2>2 DEF RestIsKept, JustWritten
<1>6. EndInv(t)'
  <2> SUFFICES ASSUME pc'[t] = "done" PROVE Sandbox(cells') = Sandbox(before[t])
    BY <1>1 DEF EndInv, Ended, Sandbox
  <2>1. CASE snapshot[t] = None /\ cells' = cells
    BY <1>1, <2>1 DEF RunInv, SnapshotInv
  <2>2. CASE snapshot[t] # None /\ cells' = Restored(t)
    <3>1. snapshot[t] = Sandbox(before[t])
      BY <1>1, <2>2 DEF RunInv, SnapshotInv
    <3> QED BY <2>2, <3>1 DEF Sandbox, Restored, Cells
  <2> QED BY <1>2, <2>1, <2>2
<1> QED BY <1>3, <1>4, <1>5, <1>6 DEF RunInv

LEMMA AloneDiagnose ==
    ASSUME BatchInv, NEW t \in Threads, Diagnose(t), RunInv(t) PROVE RunInv(t)'
<1> USE DEF BatchInv, RunTypes
<1>1. /\ pc[t] = "raised" /\ pc'[t] = "done" /\ outcome'[t] = "raised"
      /\ UNCHANGED <<cells, plan, index, snapshot, executed, batches, before, ample,
                     unrolled>>
  BY DEF Diagnose, Return, Goto, history
<1>2. HeadInv(t)' /\ PlanInv(t)' /\ SnapshotInv(t)' /\ WrittenInv(t)' /\ EndInv(t)'
  BY <1>1 DEF HeadInv, PlanInv, SnapshotInv, WrittenInv, EndInv, Ended, Working, Looping
<1>3. ~ample[t]
  BY <1>1 DEF RunInv, AmpleInv
<1>4. AmpleInv(t)'
  BY <1>1, <1>3 DEF AmpleInv
<1>5. UndoInv(t)'
  BY <1>1 DEF RunInv, UndoInv, Ended, Looping, Call
<1> QED BY <1>2, <1>4, <1>5 DEF RunInv

LEMMA AloneStep == BatchInv /\ [Next]_vars => AloneInv'
<1> SUFFICES ASSUME BatchInv, [Next]_vars PROVE AloneInv'
  OBVIOUS
<1>1. CASE UNCHANGED vars \/ OperatorCall \/ SaveWrite \/ SaveAnchor
  <2>1. UNCHANGED <<fileWrites, cells, threadVars, history>>
    BY <1>1 DEF vars, OperatorCall, SaveWrite, SaveAnchor
  <2> QED BY <2>1, RunFrame DEF BatchInv
<1>2. ASSUME NEW t \in Threads, Step(t) PROVE AloneInv'
  <2>1. CASE Authorize(t)
    BY <2>1, AloneAuthorize
  <2>2. CASE Step(t) /\ ~Authorize(t)
    <3>1. /\ pc[t] # "idle" /\ overlap' = overlap
          /\ \A u \in Threads \ {t} : pc'[u] = pc[u]
      <4>1. pc[t] # "idle" /\ overlap' = overlap
        BY <2>2 DEF Step, Bind, Precommit, SnapshotState, Consume, Gate, Execute, Verify,
                    RollbackOne, Restore, Diagnose, EndRun, history
      <4>2. \E label : pc' = [pc EXCEPT ![t] = label]
        <5>1. RollbackOne(t) => pc' = [pc EXCEPT ![t] = pc[t]]
          BY DEF RollbackOne, BatchInv, RunTypes
        <5>2. ~RollbackOne(t) => \E label : pc' = [pc EXCEPT ![t] = label]
          BY <2>2 DEF Step, Bind, Precommit, SnapshotState, Consume, Gate, Execute, Verify,
                      Restore, Diagnose, EndRun, FailBatch, Return, Goto
        <5> QED BY <5>1, <5>2
      <4> QED BY <4>1, <4>2 DEF BatchInv, RunTypes
    <3>2. ~overlap[t] => RunInv(t)
      BY <3>1 DEF BatchInv, AloneInv
    <3>3. EndRun(t) => pc'[t] = "idle"
      BY DEF EndRun, Goto, BatchInv, RunTypes
    <3>4. ~overlap[t] /\ pc'[t] # "idle" => RunInv(t)'
      BY <2>2, <3>2, <3>3, AloneBind, AlonePrecommit, AloneSnapshot, AloneConsume, AloneGate,
         AloneExecute, AloneVerify, AloneRollback, AloneRestore, AloneDiagnose DEF Step
    <3> QED BY <3>1, <3>4, OwnRun
  <2> QED BY <1>2, <2>1, <2>2
<1> QED BY <1>1, <1>2 DEF Next

LEMMA BatchStep == BatchInv /\ [Next]_vars => BatchInv'
BY AloneStep, ControlStep, RunTypesStep, TokenStep DEF BatchInv

-----------------------------------------------------------------------------
\* _bind_tool_batch: a batch whose run no other run overlaps is all or nothing on
\* the sandbox.  If every call returned ok, the last one to write each cell left its
\* mark; if the batch was refused or failed, the sandbox is what it was when the batch
\* was bound; an exception leaves it only when the budget did not cover the snapshot
\* and the restore.
THEOREM BatchIsAllOrNothing == Spec => []AllOrNothing
<1>1. BatchInv => AllOrNothing
  BY DEF BatchInv, AloneInv, RunInv, AmpleInv, WrittenInv, Written, EndInv, Ended,
         AllOrNothing, LastWriter
<1> QED BY AloneInit, BatchStep, <1>1, PTL DEF Spec

\* _rollback_executed_tools: when the restore raises, the rollbacks, newest first, have
\* put back every cell of the sandbox but that of the call that failed.
THEOREM OnlyFailedCallRemains == Spec => []OnlyTheFailedCallRemains
<1>1. BatchInv => OnlyTheFailedCallRemains
  BY DEF BatchInv, AloneInv, RunInv, UndoInv, Ended, Call, OnlyTheFailedCallRemains
<1> QED BY AloneInit, BatchStep, <1>1, PTL DEF Spec
=============================================================================
