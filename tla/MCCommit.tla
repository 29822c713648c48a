------------------------------ MODULE MCCommit ------------------------------
(***************************************************************************)
(* Instances of ManifestCommit for TLC: two managers (two processes) with   *)
(* one call each, or one manager with two overlapping calls.                *)
(***************************************************************************)
EXTENDS ManifestCommit, TLC

CONSTANTS m1, m2, t1, t2

TwoManagers == t1 :> m1 @@ t2 :> m2
OneManager == t1 :> m1 @@ t2 :> m1
=============================================================================
