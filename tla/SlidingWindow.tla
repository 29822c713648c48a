--------------------------- MODULE SlidingWindow ---------------------------
(***************************************************************************)
(* The token-budgeted history of one session state, and the buffer of the    *)
(* adapter in front of it (context/sliding-window.ts; ingest, ingestBatch    *)
(* and the synchronous part of afterTurn in                                 *)
(* adapters/openclaw-context-adapter.ts).                                    *)
(*                                                                         *)
(* A message is its role and the length of its text, and in a turn whether   *)
(* the text was replaced by a pointer; a turn is its index, its messages and *)
(* their token estimate.                                                    *)
(***************************************************************************)
EXTENDS Sums, SequencesExt

CONSTANTS
  max_tokens, max_turns, offload_threshold_chars, chars_per_token,
  pointer_chars, \* length of the text that replaces an offloaded result
  Batches,       \* the sequences of new messages the host may hand over
  MaxMessages    \* bound on the messages ever handed over

ASSUME WindowAssumption ==
  /\ max_tokens \in Nat /\ max_turns \in Nat /\ offload_threshold_chars \in Nat
  /\ chars_per_token \in Nat \ {0} /\ pointer_chars \in Nat /\ MaxMessages \in Nat

VARIABLES
  turns, nextIndex,  \* the window
  pendingMessages,   \* the adapter's buffer
  given,             \* history: every message handed over, converted
  log                \* history: every turn pushed

vars == <<turns, nextIndex, pendingMessages, given, log>>

\* agentMessageToTurnMessage and the filter: runtime markers are skipped.
Converted(batch) == SelectSeq(batch, LAMBDA m : m.role # "marker")

\* The roles that the adapter knows, and one for all the others.
Message == [role : {"user", "assistant", "tool", "marker"}, chars : Nat]

\* A batch is a list of messages, as is what is left of it.
ASSUME BatchAssumption ==
  \A batch \in Batches : {batch, Converted(batch)} \subseteq Seq(Message)

\* The positions of the messages to offload.
detectOffloads(messages) ==
  {i \in DOMAIN messages :
     messages[i].role = "tool" /\ messages[i].chars > offload_threshold_chars}

applyOffloads(messages) ==
  LET found == detectOffloads(messages)
  IN  [i \in DOMAIN messages |->
         [role |-> messages[i].role,
          chars |-> IF i \in found THEN pointer_chars ELSE messages[i].chars,
          offloaded |-> i \in found]]

\* The characters of the whole turn, rounded up to a token once.
estimateTokens(messages) ==
  LET chars == SumOf([i \in DOMAIN messages |-> messages[i].chars])
  IN  (chars + chars_per_token - 1) \div chars_per_token

totalTokens(ts) == SumOf([i \in DOMAIN ts |-> ts[i].token_estimate])

OverBudget(ts) == Len(ts) > max_turns \/ totalTokens(ts) > max_tokens

Latest(ts, n) == SubSeq(ts, Len(ts) - n + 1, Len(ts))

\* Mutant: one eviction for one new turn.
enforcebudget_Once(ts) == IF OverBudget(ts) THEN Tail(ts) ELSE ts

\* The loop shifts the oldest turn while there is one and a budget is exceeded.
enforcebudget(ts) ==
  LET evicted == CHOOSE k \in 0..Len(ts) :
        /\ k = Len(ts) \/ ~ OverBudget(Latest(ts, Len(ts) - k))
        /\ \A j \in 0..(k - 1) : OverBudget(Latest(ts, Len(ts) - j))
  IN  Latest(ts, Len(ts) - evicted)

\* The turn that pushTurn stores.
TurnOf(messages) ==
  [index |-> nextIndex, messages |-> applyOffloads(messages),
   token_estimate |-> estimateTokens(applyOffloads(messages))]

-----------------------------------------------------------------------------
Init ==
  /\ turns = <<>> /\ nextIndex = 0
  /\ pendingMessages = <<>>
  /\ given = <<>> /\ log = <<>>

pushTurn(messages) ==
  /\ turns' = enforcebudget(Append(turns, TurnOf(messages)))
  /\ nextIndex' = nextIndex + 1
  /\ log' = Append(log, TurnOf(messages))

\* ingest, and ingestBatch for more messages.
Ingest(batch) ==
  /\ Len(given \o batch) <= MaxMessages
  /\ pendingMessages' = pendingMessages \o Converted(batch)
  /\ given' = given \o Converted(batch)
  /\ UNCHANGED <<turns, nextIndex, log>>

\* Mutant: the buffer is flushed into the turn and not emptied.
AfterTurn_KeepsPending(batch) ==
  LET messages == pendingMessages \o Converted(batch)
  IN  /\ Len(given \o batch) <= MaxMessages /\ messages # <<>>
      /\ given' = given \o Converted(batch)
      /\ pushTurn(messages)
      /\ UNCHANGED pendingMessages

\* afterTurn: the buffer, then the new messages, become one turn; with neither
\* it returns at once.
AfterTurn(batch) ==
  LET messages == pendingMessages \o Converted(batch)
  IN  /\ Len(given \o batch) <= MaxMessages /\ messages # <<>>
      /\ given' = given \o Converted(batch)
      /\ pendingMessages' = <<>>
      /\ pushTurn(messages)

Next == \E batch \in Batches : Ingest(batch) \/ AfterTurn(batch)

Spec == Init /\ [][Next]_vars

-----------------------------------------------------------------------------
(* Properties *)

\* sliding-window.ts, pushTurn and enforcebudget: evicting from a window that
\* was already cut, turn by turn, leaves the longest run of the latest turns of
\* the whole session that is within both budgets, and nothing when the last
\* turn alone is over; no turn is skipped and none is evicted needlessly.
WindowIsLongestFit ==
  /\ turns = <<>> \/ ~ OverBudget(turns)
  /\ Len(turns) <= Len(log) /\ turns = Latest(log, Len(turns))
  /\ \A n \in (Len(turns) + 1)..Len(log) : OverBudget(Latest(log, n))

\* openclaw-context-adapter.ts, ingest and afterTurn: every message handed over
\* is in one completed turn or in the buffer, once and in the order it was
\* given, however buffering and turns interleave.
MessagesOnce ==
  FlattenSeq([i \in DOMAIN log |-> log[i].messages])
    \o applyOffloads(pendingMessages) = applyOffloads(given)
=============================================================================
