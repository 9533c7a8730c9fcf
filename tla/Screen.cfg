CONSTANTS
  PageSize = 1
  Initial <- TwoToReview
  Filters <- AllOrToDo
  MaxEvents = 3
CHECK_DEADLOCK FALSE
SPECIFICATION Spec
INVARIANT TypeOK
INVARIANT SelectionWasOnScreen
INVARIANT QuietPageIsCurrent
PROPERTY PollingSettles
