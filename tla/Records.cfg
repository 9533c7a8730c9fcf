CONSTANTS
  r1 = r1
  r2 = r2
  w1 = w1
  w2 = w2
  Workers = {w1, w2}
  Nobody = Nobody
  References = {r1, r2}
  Uploads <- CsvUploads
  Edits <- AllEdits
  MaxRecords = 2
CHECK_DEADLOCK FALSE
SPECIFICATION Spec
SYMMETRY WorkerSymmetry
INVARIANT TypeOK
INVARIANT ApprovedIsClean
INVARIANT ArrivalOrder
INVARIANT SessionIsCurrent
PROPERTY VerdictExactWhenWritten
PROPERTY BulkIsAtomic
PROPERTY ReviewSpec
