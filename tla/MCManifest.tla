----------------------------- MODULE MCManifest -----------------------------
(***************************************************************************)
(* Instances of ManifestManager for TLC: values a and b compete for one      *)
(* identity key, c has a key of its own.                                     *)
(***************************************************************************)
EXTENDS ManifestManager

MCKeyOf == [v \in Values |-> IF v = "c" THEN "k2" ELSE "k1"]
=============================================================================
