---------------------------- MODULE MCStorageTask ----------------------------
(***************************************************************************)
(* Finite instances of StorageTask for TLC: locators alternate between two *)
(* forms, so that every rewrite has somewhere to go.                       *)
(***************************************************************************)
EXTENDS StorageTask, TLC

CONSTANTS x1, x2, x3, x4, plain, sealed

\* Two locators in each form; with three, one in the first.
TwoForms == [r \in Refs |-> IF r \in {x1, x4} THEN plain ELSE sealed]

\* No definition tells one object id from another.
Interchangeable == Permutations(Ids)
==============================================================================
