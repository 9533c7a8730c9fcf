------------------------------- MODULE Review -------------------------------
(***************************************************************************)
(* What the records of a batch promise, whoever uses them at once: every   *)
(* request takes effect in one step, on the table as it stands at that     *)
(* step.  No lock, no session, no transaction.                             *)
(***************************************************************************)
EXTENDS Verdicts

CONSTANTS Uploads, Edits, MaxRecords

VARIABLES batch, records

reviewVars == <<batch, records>>

Init == batch = TRUE /\ records = <<>>

\* Every row of a file takes the next arrival position, and a reference anyone
\* used before is reported on the row that repeats it.
Import ==
  /\ batch
  /\ \E lines \in Uploads :
       /\ Len(records) + Len(lines) <= MaxRecords
       /\ records' = records \o NewRows(lines, Len(records), ReferencesBefore(records, Len(records)))
  /\ UNCHANGED batch

\* A correction of one record or of several, or a revalidation (no change): the
\* verdict is exact for the table it is written into, and all the records get it.
CorrectAll ==
  /\ \E ids \in SUBSET DOMAIN records, change \in Edits \cup {[reference |-> Unset, detail |-> Unset]} :
       /\ change.reference # Unset => \E i \in ids : ids = {i}
       /\ records' = [i \in DOMAIN records |->
                        IF i \in ids
                        THEN Correct(records[i], change, ReferencesBefore(records, records[i].sequence))
                        ELSE records[i]]
  /\ UNCHANGED batch

\* What is signed is what is stored: a record that is VALID at this very step.
ApproveOne ==
  /\ \E i \in DOMAIN records :
       /\ records[i].status = "VALID"
       /\ records' = [records EXCEPT ![i].status = "VALIDATED"]
  /\ UNCHANGED batch

DeleteAll == batch' = FALSE /\ records' = <<>>

ReviewNext == Import \/ CorrectAll \/ ApproveOne \/ DeleteAll

Spec == Init /\ [][ReviewNext]_reviewVars
=============================================================================
