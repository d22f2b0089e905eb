--------------------------- MODULE MCStreamHandoff ---------------------------
(***************************************************************************)
(* Streams meet only where one connection, or Pending, ends under several, *)
(* which the proofs cover; one stream next to connections that follow each *)
(* other and restarts of Pending reaches every case of its own.            *)
(***************************************************************************)
EXTENDS StreamHandoff

CONSTANT s1
=============================================================================
