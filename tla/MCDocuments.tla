----------------------------- MODULE MCDocuments -----------------------------
(***************************************************************************)
(* Small instances of Documents for TLC: three requests, each free to ask  *)
(* for anything among the orders of the run.                               *)
(***************************************************************************)
EXTENDS Documents

CONSTANTS q1, q2, q3, b1, c1, c2

Ask(kind, b, contents, forced, accepted) ==
  [kind |-> kind, batch |-> b, contents |-> contents, forced |-> forced, accepted |-> accepted]

\* Everything one batch can be asked: a file uploaded again, alone or in a list with
\* another file, and a list that holds the same file twice.
OneBatch ==
  {Ask("csv", b1, <<c1>>, FALSE, accepted) : accepted \in BOOLEAN} \cup
  {Ask("pdf", b1, <<c1>>, TRUE, TRUE), Ask("pdf", b1, <<c2, c1>>, FALSE, TRUE), Ask("pdf", b1, <<c1, c1>>, FALSE, TRUE)} \cup
  {Ask("review", b1, <<>>, FALSE, accepted) : accepted \in BOOLEAN} \cup
  {Ask(kind, b1, <<>>, FALSE, TRUE) : kind \in {"open", "delete"}}
=============================================================================
