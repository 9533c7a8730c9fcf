CONSTANTS
  tabA = tabA
  tabB = tabB
  Slots = 2
  Tabs = {tabA, tabB}
  Nobody = Nobody
  MaxTokens = 2
  MaxMishaps = 1
CHECK_DEADLOCK FALSE
SPECIFICATION Spec
INVARIANT TypeOK
INVARIANT OneSuccessor
INVARIANT ReplacedIsRevoked
INVARIANT SignOutRevokes
INVARIANT NoSelfInflictedReuse
PROPERTY ReuseEndsSessions
PROPERTY RestoreCompletes
