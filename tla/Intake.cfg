CONSTANTS
  IntegerDigits = 4
  TiesDown <- BinaryTiesDown
  Attempts = 2
  CsvRows <- Files
  PdfRows <- Answers
  SoundCells <- Sound
  Changes <- Sent
  Threshold = 70
  MaxCorrections = 1
CHECK_DEADLOCK FALSE
SPECIFICATION Spec
INVARIANT TypeOK
INVARIANT ReadAsWritten
INVARIANT RefinesVerdicts
INVARIANT NoSecondHandErrors
INVARIANT NoDeadEnd
INVARIANT DoubtBlocks
INVARIANT AttemptsWellSpent
PROPERTY CorrectionIsLocal
