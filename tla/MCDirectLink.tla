---------------------------- MODULE MCDirectLink ----------------------------
(* Two links, one of them there from the start; the owner may have one.     *)
EXTENDS DirectLink, TLC
CONSTANTS l1, l2, p1, p2

Symmetric == Permutations({p1, p2})

InitMC == Init /\ link[l1].row /\ link[l2] = NoRow(1)
SpecMC == InitMC /\ [][Next]_vars
=============================================================================
