SPECIFICATION Spec
CONSTANTS
  swap = swap
  use = use
  portal = portal
  item = item
  travel = travel
  k1 = k1
  None = None
  Lane = {item, travel}
  ItemLane = item
  Kind = {swap, use, portal}
  LaneOf <- MCLaneOf
  Spacing <- MCSpacing
  Rank <- MCRank
  Key = {k1}
  Asks <- PacedAsks
  MaxQueuedPerLane = 1
  FailureAttribution = 2
  FailureHold = 1
  MaxFailureHold = 2
  FailureCalm = 2
  ConfirmPoll = 1
  WakeEpsilon = 1
  Never <- MCNever
  MaxRequests = 2
  MaxPlayer = 1
  MaxFailures = 1
  MaxMaps = 1
  LastSubmit = 1
  MaxTime = 3
INVARIANTS TypeOK Accounted BehindAMessage SpacedFromLast StillWanted LanesAreSound
PROPERTY ToldOnce
CHECK_DEADLOCK FALSE
