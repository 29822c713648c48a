------------------------------ MODULE MCWindow ------------------------------
(***************************************************************************)
(* An instance of Offloads for TLC.  A tool result of 6 or more characters  *)
(* is offloaded and becomes a pointer of 3, one of 5 is exactly at the          *)
(* threshold and stays; the user message of 9 is over the token budget       *)
(* alone; a marker is not a message.  The lines of an artifact are given      *)
(* apart from its length so that the caps of a recall matter.               *)
(***************************************************************************)
EXTENDS Offloads

Text(role, chars) == [role |-> role, chars |-> chars]

MCBatches ==
  {<<Text("user", 2)>>, <<Text("user", 9)>>, <<Text("marker", 4)>>,
   <<Text("assistant", 1), Text("tool", 6)>>, <<Text("tool", 5), Text("marker", 4)>>,
   <<Text("tool", 7), Text("tool", 8)>>}

\* The lines of an artifact: matches with a context apart, with contexts that
\* overlap, and an empty line at the byte cap.
TextLine(chars, hit) == [chars |-> chars, hit |-> hit]
MCLinesOf ==
  [chars \in {6, 7, 8} |->
     CASE chars = 6 -> [i \in 1..8 |-> TextLine(1, i \in {2, 5, 8})]
       [] chars = 7 -> [i \in 1..5 |-> TextLine(i % 2, i \in {1, 3, 4, 5})]
       [] chars = 8 -> <<TextLine(3, FALSE), TextLine(2, TRUE), TextLine(0, FALSE)>>]
=============================================================================
