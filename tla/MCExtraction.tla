---------------------------- MODULE MCExtraction ----------------------------
(***************************************************************************)
(* Small instances of Extraction for TLC: an upload of two files and two   *)
(* of a single file, fewer permits than uploads.                           *)
(***************************************************************************)
EXTENDS Extraction

CONSTANTS u1, u2, u3, j1, j2, j3, j4

ThreeUploads == [u \in {u1, u2, u3} |-> CASE u = u1 -> <<j1, j2>> [] u = u2 -> <<j3>> [] u = u3 -> <<j4>>]
=============================================================================
