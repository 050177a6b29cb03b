SPECIFICATION FairSpec
CONSTANTS
  Load <- Carriable
  MaxPending = 2
  MaxHeard = 1
  MaxInjected = 1
  MaxHolds = 2
INVARIANTS WholeOrOver InOrder
PROPERTIES StillWhenHeld LostEnds
CHECK_DEADLOCK FALSE
