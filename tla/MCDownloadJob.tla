--------------------------- MODULE MCDownloadJob ---------------------------
(* Two jobs of one share, worked on by two requests.                        *)
EXTENDS DownloadJob, TLC
CONSTANTS j1, j2, f1, f2, p1, p2

SymmetryMC == Permutations(Jobs) \cup Permutations(Requests)

\* A share of one file that is edited, and one of two files that is not.
OneFile == shown = {f1} /\ size[f1] = 2 /\ limit.bytes = 2 * limit.n /\ edits = 0
TwoFiles == shown = {f1, f2} /\ size[f1] = 2 /\ limit = [n |-> 1, bytes |-> 4]
            /\ edits = MaxEdits

InitMC == Init /\ size[f2] = 1 /\ (OneFile \/ TwoFiles)
SpecMC == InitMC /\ [][Next]_vars
=============================================================================
