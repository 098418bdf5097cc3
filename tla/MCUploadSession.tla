--------------------------- MODULE MCUploadSession ---------------------------
(***************************************************************************)
(* Finite instances of UploadSession for TLC.                              *)
(***************************************************************************)
EXTENDS UploadSession, TLC

\* No definition tells one session, or one request slot, from another.
Interchangeable == Permutations(Sessions) \cup Permutations(Requests)

\* Bound: two handlers at a time on the first session of a file; once it has a
\* second session, one handler at a time on either.
SecondSessionSerial ==
    \/ \E s \in Sessions : status[s] = "none"
    \/ \E p \in Requests : Free(p)
==============================================================================
