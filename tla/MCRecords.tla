----------------------------- MODULE MCRecords -----------------------------
(***************************************************************************)
(* Small instances of Records for TLC: two references, two threads, and    *)
(* the uploads and corrections each run lets the client send.              *)
(***************************************************************************)
EXTENDS Records, TLC

CONSTANTS r1, r2, w1, w2

CsvLine(reference, detail, confidence) ==
  [source |-> "CSV", payload |-> [reference |-> reference, detail |-> detail, confidence |-> confidence],
   scores |-> NoScores]

PdfLine(reference, detail, scores) ==
  [source |-> "PDF", payload |-> [reference |-> reference, detail |-> detail, confidence |-> "absent"],
   scores |-> scores]

Scored(forReference, forDetail) == [reference |-> forReference, detail |-> forDetail]
Edit(reference, detail) == [reference |-> reference, detail |-> detail]

\* A file of one line, and a file of two that may repeat its reference.
CsvUploads ==
  {<<CsvLine(r1, "sound", "absent")>>,
   <<CsvLine(r2, "sound", "absent"), CsvLine(r1, "flawed", "absent")>>}

\* Extractions that are unsure of a field, or missed one, with a score on the tie of the
\* two roundings that is corrected or stays; a CSV with a stray confidence column, which
\* must not count.
PdfUploads ==
  {<<PdfLine(r1, "sound", Scored("high", "low"))>>,
   <<PdfLine(r1, "sound", Scored("tie", "high"))>>,
   <<PdfLine(r2, "flawed", Scored("low", "tie")), CsvLine(r1, "sound", "low")>>}

AllEdits == {Edit(r1, Unset), Edit(r2, Unset), Edit(Unset, "sound"), Edit(Unset, "flawed")}
\* No correction names a reference.
DetailEdits == {Edit(Unset, "sound"), Edit(Unset, "flawed")}

WorkerSymmetry == Permutations(Workers)
=============================================================================
