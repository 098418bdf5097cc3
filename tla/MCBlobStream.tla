---------------------------- MODULE MCBlobStream ----------------------------
(***************************************************************************)
(* BlobStream for TLC: files of up to three chunks in up to three parts.     *)
(***************************************************************************)
EXTENDS BlobStream
=============================================================================
