------------------------------ MODULE MCCatalog ------------------------------
(***************************************************************************)
(* Finite instances of Catalog for TLC.  Ids carry their owner: files and  *)
(* folders of one user, or one file of each of two users sharing content.  *)
(***************************************************************************)
EXTENDS Catalog, TLC

CONSTANTS u1, u2, f1, f2, d1, n1

OneOwner == [i \in Ids |-> u1]
TwoOwners == [i \in Ids |-> IF i = f2 THEN u2 ELSE u1]

\* Object ids and request slots are interchangeable in every definition.
Interchangeable == Permutations(Blobs) \cup Permutations(Requests)

\* Bound of the run with two handlers: a second object is only written while
\* there is no folder and no row under a second name.
SecondObjectAlone ==
    \/ \E b \in Blobs : blobs[b].status = "none" /\ b \notin stored
    \/ \A i \in Ids : Present(i) => i \in Files /\ rows[i].name = n1
==============================================================================
