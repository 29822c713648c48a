-------------------------------- MODULE Sums --------------------------------
(***************************************************************************)
(* The sum of a list of numbers, as the reduce calls and the counting      *)
(* loops of the context and the recall tool compute it: from the first     *)
(* element to the last.                                                    *)
(***************************************************************************)
EXTENDS Integers, Sequences

SumOf(list) ==
  LET upTo[n \in 0..Len(list)] == IF n = 0 THEN 0 ELSE upTo[n - 1] + list[n]
  IN  upTo[Len(list)]
=============================================================================
