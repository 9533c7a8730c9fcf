CONSTANTS
  r1 = r1
  r2 = r2
  w1 = w1
  w2 = w2
  Workers = {w1, w2}
  Nobody = Nobody
  References = {r1, r2}
  Uploads <- PdfUploads
  Edits <- DetailEdits
  MaxRecords = 3
CHECK_DEADLOCK FALSE
SPECIFICATION Spec
SYMMETRY WorkerSymmetry
INVARIANT VerdictsCurrent
INVARIANT FirstOccurrenceWins
INVARIANT DoubtStandsUntilReviewed
