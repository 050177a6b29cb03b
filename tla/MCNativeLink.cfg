SPECIFICATION FairSpec
CONSTANTS
  Slot = {1, 2}
  Key = {k1}
  Unset = Unset
  MaxSeq = 3
  MaxMisses = 1
  MaxRuns = 2
  MaxSets = 2
  MaxBeats = 2
  MaxEvents = 1
  MaxDrops = 1
  MaxLate = 1
INVARIANTS TypeOK NeverAtOdds
PROPERTY Reunited
CHECK_DEADLOCK FALSE
