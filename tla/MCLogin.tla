------------------------------ MODULE MCLogin -------------------------------
(* Two requests at a time, two challenges, and two tries for each.          *)
EXTENDS Login, TLC
CONSTANTS p1, p2, h1, h2, k1, k2

Symmetric == Permutations({p1, p2}) \cup Permutations({h1, h2}) \cup Permutations({k1, k2})
=============================================================================
