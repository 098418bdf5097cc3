----------------------------- MODULE MCSharing -----------------------------
(* Two shares, two codes; the owner may have one active share.              *)
EXTENDS Sharing, TLC
CONSTANTS s1, s2, c1, c2, p1, p2

\* The first share exists already.
InitMC == Init /\ share[s1] = NewShare(c1) /\ share[s2] = NoShare
SpecMC == InitMC /\ [][Next]_vars /\ WF_vars(ReleaseDeadPickupCodes)
=============================================================================
