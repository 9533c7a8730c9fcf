----------------------------- MODULE MCSessions -----------------------------
(***************************************************************************)
(* Small instances of Sessions for TLC: one tab or two, two or three       *)
(* requests at once.                                                       *)
(***************************************************************************)
EXTENDS Sessions

CONSTANTS tabA, tabB
=============================================================================
