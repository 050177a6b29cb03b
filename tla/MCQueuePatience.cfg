SPECIFICATION FairSpec
CONSTANTS
  swap = swap
  use = use
  portal = portal
  item = item
  travel = travel
  k1 = k1
  None = None
  Lane = {item}
  ItemLane = item
  Kind = {swap, use}
  LaneOf <- MCLaneOf
  Spacing <- MCSpacing
  Rank <- MCRank
  Key = {k1}
  Asks <- PatientAsks
  MaxQueuedPerLane = 2
  FailureAttribution = 2
  FailureHold = 1
  MaxFailureHold = 2
  FailureCalm = 2
  ConfirmPoll = 1
  WakeEpsilon = 0
  Never <- MCNever
  MaxRequests = 2
  MaxPlayer = 0
  MaxFailures = 2
  MaxMaps = 0
  LastSubmit = 2
  MaxTime = 7
INVARIANT QuietAfterFailure
PROPERTY EverySettled
CHECK_DEADLOCK FALSE
