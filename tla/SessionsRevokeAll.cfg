CONSTANTS
  tabA = tabA
  tabB = tabB
  Slots = 3
  Tabs = {tabA, tabB}
  Nobody = Nobody
  MaxTokens = 3
  MaxMishaps = 0
CHECK_DEADLOCK FALSE
SPECIFICATION Spec
PROPERTY EveryTokenRevoked
