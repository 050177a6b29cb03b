SPECIFICATION Spec
CONSTANTS
  Slot = {1, 2}
  Key = {k1}
  Unset = Unset
  MaxSeq = 3
  MaxMisses = 3
  MaxRuns = 1
  MaxSets = 0
  MaxBeats = 0
  MaxEvents = 0
  MaxDrops = 1
  MaxLate = 1
INVARIANT DeparturesTold
CHECK_DEADLOCK FALSE
