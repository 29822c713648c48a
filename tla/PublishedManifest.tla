------------------------- MODULE PublishedManifest -------------------------
(***************************************************************************)
(* What the persistence layer promises of the manifest file, whoever writes *)
(* it: the path holds nothing, or one whole document; the first document is *)
(* the empty one of revision 0; every later one has the next revision and   *)
(* contains everything its predecessor did.                                 *)
(***************************************************************************)
EXTENDS Naturals

CONSTANTS Mutations, Nothing

VARIABLE published   \* Nothing, or the document under the manifest's path

Init == published = Nothing

Create ==
  /\ published = Nothing
  /\ published' = [rev |-> 0, data |-> {}]

Publish ==
  /\ published # Nothing
  /\ \E d \in SUBSET Mutations :
       /\ published.data \subseteq d
       /\ published' = [rev |-> published.rev + 1, data |-> d]

Spec == Init /\ [][Create \/ Publish]_published
=============================================================================
