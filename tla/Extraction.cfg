CONSTANTS
  u1 = u1
  u2 = u2
  u3 = u3
  j1 = j1
  j2 = j2
  j3 = j3
  j4 = j4
  Uploads = {u1, u2, u3}
  Jobs = {j1, j2, j3, j4}
  Files <- ThreeUploads
  Limit = 2
  MaxFaults = 1
CHECK_DEADLOCK FALSE
SPECIFICATION Spec
INVARIANT TypeOK
INVARIANT JobsAndRecordsAgree
INVARIANT PermitsAccounted
INVARIANT NoJobAbandoned
INVARIANT NoSpoolAbandoned
PROPERTY EveryJobSettles
PROPERTY WaitersAreAdmitted
