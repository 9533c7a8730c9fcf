------------------------------ MODULE MCScreen ------------------------------
(* Small instances of Screen for TLC. *)
EXTENDS Screen

TwoToReview == <<"NEEDS_REVIEW", "NEEDS_REVIEW">>

AllOrToDo == {"All", "NEEDS_REVIEW"}
=============================================================================
