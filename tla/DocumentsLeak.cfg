CONSTANTS
  q1 = q1
  q2 = q2
  q3 = q3
  b1 = b1
  c1 = c1
  c2 = c2
  Requests = {q1, q2, q3}
  Nobody = Nobody
  Batches = {b1}
  Contents = {c1, c2}
  Orders <- OneBatch
  MaxFaults = 0
CHECK_DEADLOCK FALSE
SPECIFICATION Spec
PROPERTY DeletionLeaksNoFile
